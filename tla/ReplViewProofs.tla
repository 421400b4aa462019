--------------------------- MODULE ReplViewProofs ---------------------------
(***************************************************************************)
(* The view and its worker for any number of keys, questions, notices and  *)
(* jobs: consent, the promised dialog and the input that comes back.       *)
(*                                                                         *)
(* None of these is inductive. Gate says where a pending request is: about *)
(* to be posted, queued exactly once, or on the screen; and that without   *)
(* one there is neither a dialog nor a closure for one, but for the        *)
(* clean-up a handler has still to do. Calm says that without a job the    *)
(* queue leaves the thinking off, whatever its order.                      *)
(***************************************************************************)
EXTENDS ReplView, Integers, TLAPS

Live == {"frame", "tasks", "quitting"}
Tasks == Keys \union Closures
Resets == {"append", "unthink"}

NoneQueued(q) == \A i \in DOMAIN q : q[i] # "dialog"
OneQueued(q) ==
  \E i \in DOMAIN q : q[i] = "dialog" /\ \A j \in DOMAIN q : q[j] = "dialog" => j = i

\* Run from the state of thinking given, the queue leaves it off.
Settles(q, th) ==
  /\ \A i \in DOMAIN q : q[i] = "think" => \E j \in DOMAIN q : i < j /\ q[j] \in Resets
  /\ th => \E j \in DOMAIN q : q[j] \in Resets

Submitting == handler \in {"say append", "say think", "say submit", "create think", "create submit"}
Clearing == handler = "clear dialog"

NoDialog == dialog = None \/ Clearing

Gate ==
  /\ wpc \in {"raised", "asleep"} => pending
  /\ pending => wpc \in {"raised", "waiting", "asleep"} /\ request \in Requests
  /\ wpc = "raised" \/ ~pending => NoneQueued(tasks) /\ NoDialog
  /\ pending /\ wpc # "raised" =>
       \/ OneQueued(tasks) /\ NoDialog
       \/ NoneQueued(tasks) /\ dialog = request /\ ~Clearing
       \/ NoneQueued(tasks) /\ NoDialog /\ phase \notin Live
  /\ phase \notin Live => tasks = <<>>

\* What the worker is about to return was chosen for its request.
Chosen ==
  wpc = "waiting" /\ ~pending =>
    /\ request \in Requests
    /\ [request |-> request, choice |-> result] \in confirmed

\* Every rule was in the file or is made of a call that was allowed forever where it was shown.
Sourced ==
  \A r \in rules :
    r \in Stored \/ \E d \in confirmed : d.choice = "forever" /\ RuleOf[d.request.call] = r

Calm ==
  phase \in Live /\ ~Submitting /\ jobs = <<>> /\ wpc \in {"free", "saving"}
    => Settles(tasks, thinking)

IInv == TypeOK /\ Gate /\ Chosen /\ Calm /\ AnswerIsTheChoice /\ Sourced

-----------------------------------------------------------------------------
(* Queues.                                                                 *)

\* Posting at the end of a queue.
LEMMA PostQueue ==
  ASSUME NEW q \in Seq(Tasks), NEW t \in Tasks, NEW th \in BOOLEAN
  PROVE  /\ Append(q, t) \in Seq(Tasks)
         /\ t # "dialog" /\ NoneQueued(q) => NoneQueued(Append(q, t))
         /\ t # "dialog" /\ OneQueued(q) => OneQueued(Append(q, t))
         /\ t = "dialog" /\ NoneQueued(q) => OneQueued(Append(q, t))
         /\ t \in Resets => Settles(Append(q, t), th)
         /\ t # "think" /\ Settles(q, th) => Settles(Append(q, t), th)
<1> DEFINE r == Append(q, t)
<1>1. /\ r \in Seq(Tasks)
      /\ Len(q) \in Nat
      /\ DOMAIN q = 1 .. Len(q) /\ DOMAIN r = 1 .. Len(q) + 1
      /\ \A i \in 1 .. Len(q) : r[i] = q[i]
      /\ r[Len(q) + 1] = t
  OBVIOUS
<1> HIDE DEF r
<1>2. \A i \in DOMAIN r : (i \in DOMAIN q /\ r[i] = q[i]) \/ (i = Len(q) + 1 /\ r[i] = t)
  BY <1>1
<1>3. t # "dialog" /\ NoneQueued(q) => NoneQueued(r)
  BY <1>2 DEF NoneQueued
<1>4. t # "dialog" /\ OneQueued(q) => OneQueued(r)
  <2> SUFFICES ASSUME t # "dialog",
                      NEW i \in DOMAIN q, q[i] = "dialog",
                      \A j \in DOMAIN q : q[j] = "dialog" => j = i
               PROVE  OneQueued(r)
    BY DEF OneQueued
  <2>1. i \in DOMAIN r /\ r[i] = "dialog"
    BY <1>1
  <2>2. \A j \in DOMAIN r : r[j] = "dialog" => j = i
    BY <1>2
  <2> QED
    BY <2>1, <2>2 DEF OneQueued
<1>5. t = "dialog" /\ NoneQueued(q) => OneQueued(r)
  <2> SUFFICES ASSUME t = "dialog", NoneQueued(q) PROVE OneQueued(r)
    OBVIOUS
  <2>1. Len(q) + 1 \in DOMAIN r /\ r[Len(q) + 1] = "dialog"
    BY <1>1
  <2>2. \A j \in DOMAIN r : r[j] = "dialog" => j = Len(q) + 1
    BY <1>2 DEF NoneQueued
  <2> QED
    BY <2>1, <2>2 DEF OneQueued
<1>6. t \in Resets => Settles(r, th)
  <2> SUFFICES ASSUME t \in Resets PROVE Settles(r, th)
    OBVIOUS
  <2>1. Len(q) + 1 \in DOMAIN r /\ r[Len(q) + 1] \in Resets
    BY <1>1
  <2>2. ASSUME NEW i \in DOMAIN r, r[i] = "think"
        PROVE  i < Len(q) + 1
    BY <1>1, <1>2, <2>2 DEF Resets
  <2> QED
    BY <2>1, <2>2 DEF Settles
<1>7. t # "think" /\ Settles(q, th) => Settles(r, th)
  <2> SUFFICES ASSUME t # "think", Settles(q, th) PROVE Settles(r, th)
    OBVIOUS
  <2>1. \A j \in DOMAIN q : j \in DOMAIN r /\ r[j] = q[j]
    BY <1>1
  <2> QED
    BY <1>2, <2>1 DEF Settles
<1> QED
  BY <1>1, <1>3, <1>4, <1>5, <1>6, <1>7 DEF r

\* Keys at the end of a queue change nothing of it.
LEMMA FetchQueue ==
  ASSUME NEW q \in Seq(Tasks), NEW keys \in Seq(Keys), NEW th \in BOOLEAN
  PROVE  /\ q \o keys \in Seq(Tasks)
         /\ NoneQueued(q) => NoneQueued(q \o keys)
         /\ OneQueued(q) => OneQueued(q \o keys)
         /\ Settles(q, th) => Settles(q \o keys, th)
<1> DEFINE r == q \o keys
<1>1. /\ r \in Seq(Tasks)
      /\ Len(q) \in Nat /\ Len(keys) \in Nat
      /\ DOMAIN q = 1 .. Len(q) /\ DOMAIN r = 1 .. Len(q) + Len(keys)
      /\ \A i \in 1 .. Len(q) : r[i] = q[i]
  BY DEF Tasks
<1>2. \A i \in DOMAIN r : i \notin DOMAIN q => r[i] \in Keys
  <2> SUFFICES ASSUME NEW i \in DOMAIN r, i \notin DOMAIN q PROVE r[i] \in Keys
    OBVIOUS
  <2>1. i - Len(q) \in 1 .. Len(keys) /\ r[i] = keys[i - Len(q)]
    BY <1>1
  <2> QED
    BY <2>1
<1> HIDE DEF r
<1>3. \A k \in Keys : k # "dialog" /\ k # "think"
  BY DEF Keys, Lines
<1>4. \A i \in DOMAIN q : i \in DOMAIN r /\ r[i] = q[i]
  BY <1>1
<1>5. NoneQueued(q) => NoneQueued(r)
  BY <1>2, <1>3, <1>4 DEF NoneQueued
<1>6. OneQueued(q) => OneQueued(r)
  <2> SUFFICES ASSUME NEW i \in DOMAIN q, q[i] = "dialog",
                      \A j \in DOMAIN q : q[j] = "dialog" => j = i
               PROVE  OneQueued(r)
    BY DEF OneQueued
  <2>1. \A j \in DOMAIN r : r[j] = "dialog" => j = i
    BY <1>2, <1>3, <1>4
  <2> QED
    BY <1>4, <2>1 DEF OneQueued
<1>7. Settles(q, th) => Settles(r, th)
  BY <1>2, <1>3, <1>4 DEF Settles
<1> QED
  BY <1>1, <1>5, <1>6, <1>7 DEF r

\* Running the task at the head of a queue.
LEMMA RunQueue ==
  ASSUME NEW q \in Seq(Tasks), q # <<>>, NEW th \in BOOLEAN
  PROVE  /\ Tail(q) \in Seq(Tasks)
         /\ Head(q) \in Tasks
         /\ NoneQueued(q) => NoneQueued(Tail(q)) /\ Head(q) # "dialog"
         /\ OneQueued(q) /\ Head(q) # "dialog" => OneQueued(Tail(q))
         /\ OneQueued(q) /\ Head(q) = "dialog" => NoneQueued(Tail(q))
         /\ Settles(q, th) => Settles(Tail(q), FALSE)
         /\ Settles(q, th) /\ Head(q) \notin Resets => Settles(Tail(q), th)
         /\ Settles(q, th) /\ Head(q) = "think" => Settles(Tail(q), TRUE)
<1> DEFINE r == Tail(q)
<1>1. /\ r \in Seq(Tasks)
      /\ Len(q) \in Nat \ {0}
      /\ DOMAIN q = 1 .. Len(q) /\ DOMAIN r = 1 .. Len(q) - 1
      /\ \A i \in 1 .. Len(q) - 1 : r[i] = q[i + 1]
      /\ Head(q) = q[1] /\ q[1] \in Tasks
  OBVIOUS
<1> HIDE DEF r
<1>2. \A i \in DOMAIN r : i + 1 \in DOMAIN q /\ r[i] = q[i + 1] /\ i + 1 # 1
  BY <1>1
<1>3. \A j \in DOMAIN q : j = 1 \/ (j - 1 \in DOMAIN r /\ r[j - 1] = q[j])
  BY <1>1
<1>4. 1 \in DOMAIN q /\ DOMAIN q \subseteq Int /\ DOMAIN r \subseteq Int
  BY <1>1
<1>5. NoneQueued(q) => NoneQueued(r) /\ Head(q) # "dialog"
  BY <1>1, <1>2, <1>4 DEF NoneQueued
<1>6. ASSUME NEW i \in DOMAIN q, q[i] = "dialog",
             \A j \in DOMAIN q : q[j] = "dialog" => j = i
      PROVE  /\ Head(q) # "dialog" => OneQueued(r)
             /\ Head(q) = "dialog" => NoneQueued(r)
  <2>1. CASE Head(q) # "dialog"
    <3>1. i - 1 \in DOMAIN r /\ r[i - 1] = "dialog"
      BY <1>1, <1>3, <1>6, <2>1
    <3>2. \A j \in DOMAIN r : r[j] = "dialog" => j = i - 1
      <4> SUFFICES ASSUME NEW j \in DOMAIN r, r[j] = "dialog" PROVE j = i - 1
        OBVIOUS
      <4>1. j + 1 = i
        BY <1>2, <1>6
      <4> QED
        BY <4>1, <1>4
    <3> QED
      BY <2>1, <3>1, <3>2 DEF OneQueued
  <2>2. CASE Head(q) = "dialog"
    BY <1>1, <1>2, <1>4, <1>6, <2>2 DEF NoneQueued
  <2> QED
    BY <2>1, <2>2
<1>7. OneQueued(q) => /\ Head(q) # "dialog" => OneQueued(r)
                      /\ Head(q) = "dialog" => NoneQueued(r)
  BY <1>6 DEF OneQueued
<1>8. ASSUME Settles(q, th)
      PROVE  \A i \in DOMAIN r : r[i] = "think" => \E j \in DOMAIN r : i < j /\ r[j] \in Resets
  <2> SUFFICES ASSUME NEW i \in DOMAIN r, r[i] = "think"
               PROVE  \E j \in DOMAIN r : i < j /\ r[j] \in Resets
    OBVIOUS
  <2>1. PICK j \in DOMAIN q : i + 1 < j /\ q[j] \in Resets
    BY <1>2, <1>8 DEF Settles
  <2>2. j - 1 \in DOMAIN r /\ r[j - 1] = q[j] /\ i < j - 1
    BY <1>3, <1>4, <2>1
  <2> QED
    BY <2>1, <2>2
<1>9. ASSUME Settles(q, th), Head(q) \notin Resets, th \/ Head(q) = "think"
      PROVE  \E j \in DOMAIN r : r[j] \in Resets
  <2>1. PICK j \in DOMAIN q : q[j] \in Resets
    BY <1>1, <1>4, <1>9 DEF Settles
  <2>2. j - 1 \in DOMAIN r /\ r[j - 1] = q[j]
    BY <1>1, <1>3, <1>9, <2>1
  <2> QED
    BY <2>1, <2>2
<1>10. Settles(q, th) => Settles(r, FALSE)
  BY <1>8 DEF Settles
<1>11. Settles(q, th) /\ Head(q) \notin Resets => Settles(r, th)
  BY <1>8, <1>9 DEF Settles
<1>12. Settles(q, th) /\ Head(q) = "think" => Settles(r, TRUE)
  BY <1>8, <1>9 DEF Settles, Resets
<1> QED
  BY <1>1, <1>5, <1>7, <1>10, <1>11, <1>12 DEF r

-----------------------------------------------------------------------------
(* What posting and running tasks does to the model's queue.                *)

\* A posted task goes to the end of a queue that still runs and nowhere else.
LEMMA PostTask ==
  ASSUME NEW t \in Tasks, Post(t), TypeOK, Gate
  PROVE  /\ tasks' \in Seq(Tasks) /\ phase' = phase
         /\ t # "dialog" /\ NoneQueued(tasks) => NoneQueued(tasks')
         /\ t # "dialog" /\ OneQueued(tasks) => OneQueued(tasks')
         /\ t = "dialog" /\ NoneQueued(tasks) /\ phase \in Live => OneQueued(tasks')
         /\ phase \notin Live => tasks' = <<>> /\ NoneQueued(tasks')
         /\ phase \in Live /\ t \in Resets => Settles(tasks', thinking)
         /\ phase \in Live /\ t # "think" /\ Settles(tasks, thinking)
              => Settles(tasks', thinking)
<1>1. tasks \in Seq(Tasks) /\ thinking \in BOOLEAN /\ phase \in Phases /\ phase' = phase
  BY DEF TypeOK, Post, Tasks
<1>2. CASE phase \in Live
  <2>1. tasks' = Append(tasks, t)
    BY <1>2 DEF Post, Posted, Live
  <2> QED
    BY <1>1, <1>2, <2>1, PostQueue
<1>3. CASE phase \notin Live
  <2>1. tasks' = tasks /\ tasks = <<>>
    BY <1>1, <1>3 DEF Post, Posted, Live, Phases, Gate
  <2>2. NoneQueued(<<>>)
    BY DEF NoneQueued
  <2> QED
    BY <1>1, <1>3, <2>1, <2>2
<1> QED
  BY <1>2, <1>3

\* What running the head of the queue leaves.
LEMMA TakeTask ==
  ASSUME NEW t, Run(t), TypeOK
  PROVE  /\ tasks' \in Seq(Tasks) /\ t \in Tasks
         /\ phase \in Live /\ handler = "done" /\ ~Submitting /\ ~Clearing
         /\ NoneQueued(tasks) => NoneQueued(tasks') /\ t # "dialog"
         /\ OneQueued(tasks) /\ t # "dialog" => OneQueued(tasks')
         /\ OneQueued(tasks) /\ t = "dialog" => NoneQueued(tasks')
         /\ Settles(tasks, thinking) => Settles(tasks', FALSE)
         /\ Settles(tasks, thinking) /\ t \notin Resets => Settles(tasks', thinking)
         /\ Settles(tasks, thinking) /\ t = "think" => Settles(tasks', TRUE)
<1>1. tasks \in Seq(Tasks) /\ tasks # <<>> /\ tasks' = Tail(tasks) /\ t = Head(tasks)
  BY DEF TypeOK, Run, Take, Tasks
<1>2. phase \in Live /\ handler = "done" /\ ~Submitting /\ ~Clearing
  BY DEF Run, Take, Live, Submitting, Clearing
<1>3. thinking \in BOOLEAN
  BY DEF TypeOK
<1> QED
  BY <1>1, <1>2, <1>3, RunQueue

-----------------------------------------------------------------------------
(* The inductive invariant.                                                *)

LEMMA InitInv == Init => IInv
<1> SUFFICES ASSUME Init PROVE IInv
  OBVIOUS
<1> USE DEF Init, UiInit
<1>a. tasks \in Seq(Keys \union Closures) /\ jobs \in Seq(JobKinds)
  OBVIOUS
<1>b. typed \in 0 .. MaxKeys /\ asks \in 0 .. MaxAsks /\ notices \in 0 .. MaxNotices
  BY BoundsAssumption
<1>c. /\ phase \in Phases /\ handler \in Statements /\ result \in Choices
      /\ wpc \in Places /\ wpc \notin Turn
  BY DEF Phases, Choices, Places, Turn, Statements
<1>d. rules \subseteq Rules /\ Sourced
  BY DEF Loaded, Rules, Sourced
<1>1. TypeOK
  BY <1>a, <1>b, <1>c, <1>d DEF TypeOK
<1>2. Gate /\ Chosen
  BY DEF Clearing, Gate, Chosen, NoneQueued, NoDialog, Live
<1>3. Calm
  BY DEF Calm, Settles
<1> QED
  BY <1>1, <1>2, <1>3, <1>d DEF IInv, AnswerIsTheChoice

\* The steps that leave the request, the dialog and the worker alone.
LEMMA QuietInv ==
  ASSUME IInv, UNCHANGED <<gateVars, running, wpc>>
  PROVE  Chosen' /\ AnswerIsTheChoice' /\ Sourced'
BY DEF IInv, Chosen, AnswerIsTheChoice, Sourced, gateVars

\* Keys fetched, frames drawn, the end of the loop and of the view.
LEMMA LoopInv ==
  ASSUME IInv,
         \/ \E n \in 0 .. Batch : \E keys \in [1 .. n -> Keys] : Type(keys)
         \/ LoopTurns \/ DestroyView
  PROVE  IInv'
<1> USE DEF IInv
<1>1. CASE \E n \in 0 .. Batch : \E keys \in [1 .. n -> Keys] : Type(keys)
  <2>1. PICK n \in 0 .. Batch : \E keys \in [1 .. n -> Keys] : Type(keys)
    BY <1>1
  <2>2. PICK keys \in [1 .. n -> Keys] : Type(keys)
    BY <2>1
  <2>3. keys \in Seq(Keys) /\ Len(keys) \in Nat
    BY BoundsAssumption
  <2>4. tasks \in Seq(Tasks) /\ thinking \in BOOLEAN
    BY DEF TypeOK, Tasks
  <2>5. /\ tasks' = tasks \o keys
        /\ phase \in Live /\ phase' \in Live
        /\ UNCHANGED <<handler, thinking, gateVars, jobVars, wpc>>
    BY <2>2 DEF Type, Fetch, Live
  <2>6. /\ tasks' \in Seq(Tasks)
        /\ NoneQueued(tasks) => NoneQueued(tasks')
        /\ OneQueued(tasks) => OneQueued(tasks')
        /\ Settles(tasks, thinking) => Settles(tasks', thinking)
    BY <2>3, <2>4, <2>5, FetchQueue
  <2>7. TypeOK'
    BY <2>2, <2>3, <2>6, BoundsAssumption DEF Type, Fetch, TypeOK, Tasks, Phases, gateVars, jobVars
  <2>8. Gate'
    BY <2>5, <2>6 DEF Clearing, Gate, NoDialog, gateVars
  <2>9. Calm'
    BY <2>5, <2>6 DEF Calm, Submitting, jobVars
  <2> QED
    BY <2>5, <2>7, <2>8, <2>9, QuietInv DEF jobVars
<1>2. CASE LoopTurns
  <2>1. /\ UNCHANGED <<tasks, handler, thinking, warned, gateVars, jobVars, wpc, typed, notices>>
        /\ phase \in Live
        /\ phase' \in Live \/ (phase' = "ended" /\ tasks = <<>>)
        /\ phase' \in Phases
    BY <1>2 DEF LoopTurns, Idle, Stop, Live, Phases
  <2>2. TypeOK'
    BY <2>1 DEF TypeOK, gateVars, jobVars
  <2>3. OneQueued(tasks) => tasks # <<>>
    BY DEF OneQueued
  <2>4. Gate'
    BY <2>1, <2>3 DEF Clearing, Gate, NoDialog, gateVars, Live
  <2>5. Calm'
    BY <2>1 DEF Calm, Submitting, jobVars, Live
  <2> QED
    BY <2>1, <2>2, <2>4, <2>5, QuietInv DEF jobVars
<1>3. CASE DestroyView
  <2>1. /\ UNCHANGED <<tasks, handler, thinking, warned, gateVars, jobVars, wpc, typed, notices>>
        /\ phase = "ended" /\ phase' = "gone"
    BY <1>3 DEF DestroyView
  <2>2. TypeOK'
    BY <2>1 DEF TypeOK, gateVars, jobVars, Phases
  <2>3. Gate'
    BY <2>1 DEF Clearing, Gate, NoDialog, gateVars, Live
  <2>4. Calm'
    BY <2>1 DEF Calm, Live
  <2> QED
    BY <2>1, <2>2, <2>3, <2>4, QuietInv DEF jobVars
<1> QED
  BY <1>1, <1>2, <1>3

\* A handler goes on.
LEMMA HandlerInv ==
  ASSUME IInv, HandlerPosts \/ HandlerSubmits \/ HandlerClears
  PROVE  IInv'
<1> USE DEF IInv
<1>1. CASE HandlerPosts
  <2>1. PICK t \in {"append", "think", "exit"} :
          /\ Post(t)
          /\ \/ handler \in {"append", "say append"} /\ t = "append"
             \/ handler \in {"say think", "create think"} /\ t = "think"
             \/ handler = "exit" /\ t = "exit"
    BY <1>1 DEF HandlerPosts
  <2>2. /\ handler' = After(handler)
        /\ UNCHANGED <<thinking, warned, gateVars, jobVars, wpc, typed, notices>>
    BY <1>1 DEF HandlerPosts
  <2>3. /\ handler' \in Statements
        /\ ~Clearing /\ ~Clearing'
        /\ ~Submitting' => t # "think" /\ ~Submitting
    BY <2>1, <2>2 DEF After, Statements, Clearing, Submitting
  <2>4. t \in Tasks /\ t # "dialog"
    BY <2>1 DEF Tasks, Closures
  <2>5. /\ tasks' \in Seq(Tasks) /\ phase' = phase
        /\ NoneQueued(tasks) => NoneQueued(tasks')
        /\ OneQueued(tasks) => OneQueued(tasks')
        /\ phase \notin Live => tasks' = <<>> /\ NoneQueued(tasks')
        /\ phase \in Live /\ t # "think" /\ Settles(tasks, thinking)
             => Settles(tasks', thinking)
    BY <2>1, <2>4, PostTask
  <2>6. TypeOK'
    BY <2>2, <2>3, <2>5 DEF TypeOK, Tasks, gateVars, jobVars
  <2>7. Gate'
    BY <2>2, <2>3, <2>5 DEF Gate, NoDialog, gateVars
  <2>8. Calm'
    BY <2>2, <2>3, <2>5 DEF Calm, jobVars
  <2> QED
    BY <2>2, <2>6, <2>7, <2>8, QuietInv DEF jobVars
<1>2. CASE HandlerSubmits
  <2>1. PICK j \in JobKinds : jobs' = Append(jobs, j)
    BY <1>2 DEF HandlerSubmits, JobKinds
  <2>2. /\ handler \in {"say submit", "create submit"} /\ handler' = "done"
        /\ UNCHANGED <<tasks, phase, thinking, warned, gateVars, running, wpc, typed, notices>>
    BY <1>2 DEF HandlerSubmits, After
  <2>3. jobs' \in Seq(JobKinds) /\ jobs' # <<>>
    BY <2>1 DEF TypeOK
  <2>4. TypeOK'
    BY <2>2, <2>3 DEF TypeOK, Statements, gateVars
  <2>5. Gate'
    BY <2>2 DEF Gate, NoDialog, Clearing, gateVars
  <2>6. Calm'
    BY <2>3 DEF Calm
  <2> QED
    BY <2>2, <2>4, <2>5, <2>6, QuietInv
<1>3. CASE HandlerClears
  <2>1. /\ Clearing /\ ~Submitting /\ handler' = "done"
        /\ dialog' = None
        /\ UNCHANGED <<tasks, phase, thinking, warned, pending, request, result, rules, asks,
                       confirmed, answers, jobVars, wpc, typed, notices>>
    BY <1>3 DEF HandlerClears, ClearDialog, After, Clearing, Submitting
  <2>2. TypeOK'
    BY <2>1 DEF TypeOK, Statements, jobVars
  <2>3. Gate'
    BY <2>1 DEF Gate, NoDialog, Clearing
  <2>4. Calm'
    BY <2>1 DEF Calm, Submitting, jobVars
  <2>5. Chosen' /\ AnswerIsTheChoice' /\ Sourced'
    BY <2>1 DEF Chosen, AnswerIsTheChoice, Sourced
  <2> QED
    BY <2>2, <2>3, <2>4, <2>5
<1> QED
  BY <1>1, <1>2, <1>3

\* The keys and closures that leave the dialog alone. Only the submission of a job may
\* follow a state in which the queue does not settle.
LEMMA TaskInv ==
  ASSUME IInv,
         NEW t \in Tasks, t # "dialog", Run(t),
         handler' \in Statements, ~Clearing',
         phase' \in Live,
         thinking' \in BOOLEAN,
         Submitting' \/ (Settles(tasks, thinking) => Settles(tasks', thinking')),
         warned' \in BOOLEAN,
         UNCHANGED <<gateVars, jobVars, wpc, typed, notices>>
  PROVE  IInv'
<1> USE DEF IInv
<1>1. /\ tasks' \in Seq(Tasks)
      /\ phase \in Live /\ ~Submitting /\ ~Clearing
      /\ NoneQueued(tasks) => NoneQueued(tasks')
      /\ OneQueued(tasks) => OneQueued(tasks')
  BY TakeTask
<1>2. TypeOK'
  BY <1>1 DEF TypeOK, Tasks, gateVars, jobVars, Live, Phases
<1>3. Gate'
  BY <1>1 DEF Gate, NoDialog, gateVars
<1>4. Calm'
  BY <1>1 DEF Calm, jobVars
<1> QED
  BY <1>2, <1>3, <1>4, QuietInv DEF jobVars

LEMMA OtherTasksInv ==
  ASSUME IInv,
         \/ \E l \in Lines : EnterLine(l)
         \/ CtrlC \/ IgnoreEsc
         \/ RunAppend \/ RunThinking \/ RunExit
  PROVE  IInv'
<1> USE DEF IInv
<1>0. warned \in BOOLEAN /\ thinking \in BOOLEAN
  BY DEF TypeOK
<1>1. CASE \E l \in Lines : EnterLine(l)
  <2>1. PICK l \in Lines : EnterLine(l)
    BY <1>1
  <2>2. l \in Tasks /\ l # "dialog" /\ l \notin Resets
    BY DEF Tasks, Keys, Lines, Resets
  <2>3. Run(l) /\ UNCHANGED <<phase, thinking, warned, gateVars, jobVars, wpc, typed, notices>>
    BY <2>1 DEF EnterLine
  <2>4. phase \in Live /\ (Settles(tasks, thinking) => Settles(tasks', thinking))
    BY <2>2, <2>3, TakeTask
  <2>5. handler' \in Statements /\ ~Clearing'
    <3>1. handler = "done"
      BY <2>3 DEF Run
    <3>2. handler' \in {"done", "append", "exit", "say append", "create think"}
      BY <2>1, <3>1 DEF EnterLine, OnSubmit, Lines
    <3> QED
      BY <3>2 DEF Statements, Clearing
  <2> QED
    BY <1>0, <2>2, <2>3, <2>4, <2>5, TaskInv
<1>2. CASE CtrlC
  <2>1. "ctrl-c" \in Tasks /\ "ctrl-c" # "dialog" /\ "ctrl-c" \notin Resets
    BY DEF Tasks, Keys, Resets
  <2>2. Run("ctrl-c") /\ UNCHANGED <<phase, thinking, gateVars, jobVars, wpc, typed, notices>>
    BY <1>2 DEF CtrlC
  <2>3. phase \in Live /\ (Settles(tasks, thinking) => Settles(tasks', thinking))
    BY <2>1, <2>2, TakeTask
  <2>4. handler' \in {"done", "exit"} /\ warned' \in BOOLEAN
    BY <1>0, <1>2 DEF CtrlC, Run
  <2>5. handler' \in Statements /\ ~Clearing'
    BY <2>4 DEF Statements, Clearing
  <2> QED
    BY <1>0, <2>1, <2>2, <2>3, <2>4, <2>5, TaskInv
<1>3. CASE IgnoreEsc
  <2>1. "esc" \in Tasks /\ "esc" # "dialog" /\ "esc" \notin Resets
    BY DEF Tasks, Keys, Resets
  <2>2. /\ Run("esc") /\ handler' = "done"
        /\ UNCHANGED <<phase, thinking, warned, gateVars, jobVars, wpc, typed, notices>>
    BY <1>3 DEF IgnoreEsc, Run
  <2>3. phase \in Live /\ (Settles(tasks, thinking) => Settles(tasks', thinking))
    BY <2>1, <2>2, TakeTask
  <2>4. handler' \in Statements /\ ~Clearing'
    BY <2>2 DEF Statements, Clearing
  <2> QED
    BY <1>0, <2>1, <2>2, <2>3, <2>4, TaskInv
<1>4. CASE RunAppend \/ RunThinking
  <2>1. PICK t \in {"append", "think", "unthink"} :
          /\ Run(t) /\ thinking' = (t = "think") /\ handler' = "done"
          /\ UNCHANGED <<phase, warned, gateVars, jobVars, wpc, typed, notices>>
    BY <1>4 DEF RunAppend, RunThinking, Run
  <2>2. t \in Tasks /\ t # "dialog" /\ (t = "think" \/ t \in Resets)
    BY DEF Tasks, Closures, Resets
  <2>3. phase \in Live /\ (Settles(tasks, thinking) => Settles(tasks', thinking'))
    <3>1. CASE t = "think"
      <4>1. thinking' = TRUE
        BY <2>1, <3>1
      <4> QED
        BY <2>1, <2>2, <3>1, <4>1, TakeTask
    <3>2. CASE t # "think"
      <4>1. thinking' = FALSE
        BY <2>1, <3>2
      <4> QED
        BY <2>1, <2>2, <3>2, <4>1, TakeTask
    <3> QED
      BY <3>1, <3>2
  <2>4. handler' \in Statements /\ ~Clearing' /\ thinking' \in BOOLEAN
    BY <2>1 DEF Statements, Clearing
  <2> QED
    BY <1>0, <2>1, <2>2, <2>3, <2>4, TaskInv
<1>5. CASE RunExit
  <2>1. "exit" \in Tasks /\ "exit" # "dialog" /\ "exit" \notin Resets
    BY DEF Tasks, Closures, Resets
  <2>2. /\ Run("exit") /\ handler' = "done" /\ phase' \in Live
        /\ UNCHANGED <<thinking, warned, gateVars, jobVars, wpc, typed, notices>>
    BY <1>5 DEF RunExit, ExitNow, Run, Live
  <2>3. Settles(tasks, thinking) => Settles(tasks', thinking)
    BY <2>1, <2>2, TakeTask
  <2>4. handler' \in Statements /\ ~Clearing'
    BY <2>2 DEF Statements, Clearing
  <2> QED
    BY <1>0, <2>1, <2>2, <2>3, <2>4, TaskInv
<1> QED
  BY <1>1, <1>2, <1>3, <1>4, <1>5

\* The two tasks that touch the dialog. When a key meets it, it shows the pending request.
LEMMA DialogInv ==
  ASSUME IInv,
         (\E k \in Keys, c \in Choices : AnswerDialog(k, c)) \/ RunDialog
  PROVE  IInv'
<1> USE DEF IInv
<1>1. CASE \E k \in Keys, c \in Choices : AnswerDialog(k, c)
  <2>1. PICK k \in Keys, c \in Choices : AnswerDialog(k, c)
    BY <1>1
  <2>2. /\ Run(k)
        /\ pending /\ dialog # None
        /\ Grant(c)
        /\ confirmed' = confirmed \union {[request |-> dialog, choice |-> c]}
        /\ handler' = "clear dialog"
        /\ UNCHANGED <<phase, thinking, warned, dialog, request, asks, answers, jobVars,
                       typed, notices>>
    BY <2>1 DEF AnswerDialog, DialogUp
  <2>3. k \in Tasks /\ k # "dialog" /\ k \notin Resets
    BY DEF Tasks, Keys, Lines, Resets
  <2>4. /\ tasks' \in Seq(Tasks)
        /\ phase \in Live /\ ~Submitting /\ ~Clearing
        /\ NoneQueued(tasks) => NoneQueued(tasks')
        /\ Settles(tasks, thinking) => Settles(tasks', thinking)
    BY <2>2, <2>3, TakeTask
  <2>5. /\ NoneQueued(tasks) /\ dialog = request /\ request \in Requests
        /\ wpc \in {"waiting", "asleep"}
    BY <2>2, <2>4 DEF Gate, NoDialog
  <2>6. /\ result' = c /\ pending' = FALSE /\ wpc' = "waiting"
        /\ rules' = IF c = "forever" THEN rules \union {RuleOf[request.call]} ELSE rules
    BY <2>2, <2>5 DEF Grant, Remember
  <2>7. RuleOf[request.call] \in Rules
    BY <2>5 DEF Requests, Rules
  <2>8. [request |-> request, choice |-> c] \in [request : Requests, choice : Choices]
    BY <2>5
  <2>9. TypeOK'
    <3>1. rules' \subseteq Rules /\ confirmed' \subseteq [request : Requests, choice : Choices]
      BY <2>2, <2>5, <2>6, <2>7, <2>8 DEF TypeOK
    <3>2. /\ handler' \in Statements /\ wpc' \in Places
          /\ running' \in BOOLEAN /\ (running' <=> wpc' \in Turn)
      BY <2>2, <2>5, <2>6 DEF TypeOK, Statements, Places, Turn, jobVars
    <3> QED
      BY <2>2, <2>4, <2>6, <3>1, <3>2 DEF TypeOK, Tasks, jobVars
  <2>10. Gate'
    BY <2>2, <2>4, <2>5, <2>6 DEF Gate, NoDialog, Clearing
  <2>11. Calm'
    BY <2>4, <2>6 DEF Calm
  <2>12. Chosen' /\ AnswerIsTheChoice'
    BY <2>2, <2>5, <2>6 DEF Chosen, AnswerIsTheChoice
  <2>13. Sourced'
    <3> SUFFICES ASSUME NEW r \in rules', r \notin Stored
                 PROVE  \E d \in confirmed' : d.choice = "forever" /\ RuleOf[d.request.call] = r
      BY DEF Sourced
    <3>1. CASE r \in rules
      BY <2>2, <3>1 DEF Sourced
    <3>2. CASE r \notin rules
      <4>1. c = "forever" /\ r = RuleOf[request.call]
        BY <2>6, <3>2
      <4> DEFINE d == [request |-> dialog, choice |-> c]
      <4>2. d \in confirmed' /\ d.choice = "forever" /\ RuleOf[d.request.call] = r
        BY <2>2, <2>5, <4>1
      <4> QED
        BY <4>2
    <3> QED
      BY <3>1, <3>2
  <2> QED
    BY <2>9, <2>10, <2>11, <2>12, <2>13
<1>2. CASE RunDialog
  <2>1. /\ Run("dialog") /\ dialog' = request
        /\ UNCHANGED <<phase, handler, thinking, warned, pending, request, result, rules, asks,
                       confirmed, answers, jobVars, wpc, typed, notices>>
    BY <1>2 DEF RunDialog
  <2>2. "dialog" \notin Resets
    BY DEF Resets
  <2>3. /\ tasks' \in Seq(Tasks)
        /\ phase \in Live /\ ~Submitting /\ ~Clearing
        /\ ~NoneQueued(tasks)
        /\ OneQueued(tasks) => NoneQueued(tasks')
        /\ Settles(tasks, thinking) => Settles(tasks', thinking)
    BY <2>1, <2>2, TakeTask
  <2>4. pending /\ wpc # "raised" /\ request \in Requests /\ NoneQueued(tasks')
    BY <2>3 DEF Gate
  <2>5. TypeOK'
    BY <2>1, <2>3, <2>4 DEF TypeOK, Tasks, jobVars
  <2>6. Gate'
    BY <2>1, <2>3, <2>4 DEF Gate, NoDialog, Clearing
  <2>7. Calm'
    BY <2>1, <2>3 DEF Calm, Submitting, jobVars
  <2>8. Chosen' /\ AnswerIsTheChoice' /\ Sourced'
    BY <2>1 DEF Chosen, AnswerIsTheChoice, Sourced
  <2> QED
    BY <2>5, <2>6, <2>7, <2>8
<1> QED
  BY <1>1, <1>2

\* A closure posted by the worker on its way, or by a sub-agent. What a job posts last
\* settles the queue.
LEMMA PostingInv ==
  ASSUME IInv,
         NEW t \in Tasks, t # "dialog", Post(t),
         ~pending, wpc # "waiting", wpc' \in Places \ {"raised", "waiting", "asleep"},
         wpc' \in Turn <=> wpc \in Turn,
         notices' \in 0 .. MaxNotices,
         t \in Resets \/ wpc' \notin {"free", "saving"},
         UNCHANGED <<handler, thinking, warned, gateVars, jobVars, typed>>
  PROVE  IInv'
<1> USE DEF IInv
<1>1. /\ tasks' \in Seq(Tasks) /\ phase' = phase
      /\ NoneQueued(tasks) => NoneQueued(tasks')
      /\ phase \notin Live => tasks' = <<>>
      /\ phase \in Live /\ t \in Resets => Settles(tasks', thinking)
  BY PostTask
<1>2. TypeOK'
  BY <1>1 DEF TypeOK, Tasks, gateVars, jobVars
<1>3. Gate'
  BY <1>1 DEF Gate, NoDialog, Clearing, gateVars
<1>4. Calm'
  BY <1>1 DEF Calm, Submitting, jobVars
<1>5. Chosen' /\ AnswerIsTheChoice' /\ Sourced'
  BY DEF Chosen, AnswerIsTheChoice, Sourced, gateVars
<1> QED
  BY <1>2, <1>3, <1>4, <1>5

LEMMA NoticeInv ==
  ASSUME IInv, Notice
  PROVE  IInv'
<1> USE DEF IInv
<1>1. /\ Post("append")
      /\ UNCHANGED <<handler, thinking, warned, gateVars, jobVars, wpc, typed>>
      /\ notices' \in 0 .. MaxNotices
  BY BoundsAssumption DEF Notice, TypeOK
<1>2. "append" \in Tasks /\ "append" # "dialog" /\ "append" \in Resets
  BY DEF Tasks, Closures, Resets
<1>3. /\ tasks' \in Seq(Tasks) /\ phase' = phase
      /\ NoneQueued(tasks) => NoneQueued(tasks')
      /\ OneQueued(tasks) => OneQueued(tasks')
      /\ phase \notin Live => tasks' = <<>> /\ NoneQueued(tasks')
      /\ phase \in Live => Settles(tasks', thinking)
  BY <1>1, <1>2, PostTask
<1>4. TypeOK'
  BY <1>1, <1>3 DEF TypeOK, Tasks, gateVars, jobVars
<1>5. Gate'
  BY <1>1, <1>3 DEF Gate, NoDialog, Clearing, gateVars
<1>6. Calm'
  BY <1>1, <1>3 DEF Calm
<1> QED
  BY <1>1, <1>4, <1>5, <1>6, QuietInv DEF jobVars

LEMMA WorkerInv ==
  ASSUME IInv, WorkerStep
  PROVE  IInv'
<1> USE DEF IInv
<1>0. notices \in 0 .. MaxNotices /\ wpc \in Places
  BY DEF TypeOK
<1>1. CASE StartJob
  <2>1. /\ wpc = "free" /\ jobs # <<>> /\ jobs' = Tail(jobs)
        /\ \/ wpc' = "turn" /\ running' = TRUE
           \/ wpc' = "creating" /\ running' = running
        /\ UNCHANGED <<tasks, phase, handler, thinking, warned, gateVars, typed, notices>>
    BY <1>1 DEF StartJob
  <2>2. jobs' \in Seq(JobKinds)
    BY <2>1 DEF TypeOK
  <2>3. /\ wpc' \in Places /\ running' \in BOOLEAN
        /\ (running' <=> wpc' \in Turn)
    <3>1. CASE wpc' = "turn" /\ running' = TRUE
      BY <3>1 DEF Places, Turn
    <3>2. CASE wpc' = "creating" /\ running' = running
      BY <2>1, <3>2 DEF TypeOK, Places, Turn
    <3> QED
      BY <2>1, <3>1, <3>2
  <2>4. TypeOK'
    BY <2>1, <2>2, <2>3 DEF TypeOK, gateVars
  <2>5. ~pending
    BY <2>1 DEF Gate
  <2>6. Gate' /\ Calm'
    BY <2>1, <2>5 DEF Gate, NoDialog, Clearing, Calm, gateVars
  <2>7. Chosen' /\ AnswerIsTheChoice' /\ Sourced'
    BY <2>1 DEF Chosen, AnswerIsTheChoice, Sourced, gateVars
  <2> QED
    BY <2>4, <2>6, <2>7
<1>2. CASE \E c \in Calls : Raise(c)
  <2>1. PICK c \in Calls : Raise(c)
    BY <1>2
  <2>2. /\ wpc = "turn" /\ wpc' = "raised"
        /\ asks < MaxAsks /\ asks' = asks + 1
        /\ request' = [ask |-> asks + 1, call |-> c]
        /\ result' = "deny" /\ pending' = TRUE
        /\ UNCHANGED <<tasks, phase, handler, thinking, warned, dialog, rules, confirmed, answers,
                       jobVars, typed, notices>>
    BY <2>1 DEF Raise
  <2>3. asks' \in 0 .. MaxAsks /\ asks + 1 \in 1 .. MaxAsks
    BY <2>2, BoundsAssumption DEF TypeOK
  <2>4. request' \in Requests
    BY <2>2, <2>3 DEF Requests
  <2>5. /\ wpc' \in Places /\ running' \in BOOLEAN /\ (running' <=> wpc' \in Turn)
        /\ result' \in Choices
    BY <2>2 DEF TypeOK, Places, Turn, Choices, jobVars
  <2>6. TypeOK'
    BY <2>2, <2>3, <2>4, <2>5 DEF TypeOK, jobVars
  <2>7. ~pending
    BY <2>2 DEF Gate
  <2>8. Gate' /\ Calm'
    BY <2>2, <2>4, <2>7 DEF Gate, NoDialog, Clearing, Calm
  <2>9. Chosen' /\ AnswerIsTheChoice' /\ Sourced'
    BY <2>2 DEF Chosen, AnswerIsTheChoice, Sourced
  <2> QED
    BY <2>6, <2>8, <2>9
<1>3. CASE PostDialog
  <2>1. /\ wpc = "raised" /\ Post("dialog") /\ wpc' = "waiting"
        /\ UNCHANGED <<handler, thinking, warned, gateVars, jobVars, typed, notices>>
    BY <1>3 DEF PostDialog
  <2>2. pending /\ NoneQueued(tasks) /\ NoDialog
    BY <2>1 DEF Gate
  <2>3. "dialog" \in Tasks
    BY DEF Tasks, Closures
  <2>4. /\ tasks' \in Seq(Tasks) /\ phase' = phase
        /\ phase \in Live => OneQueued(tasks')
        /\ phase \notin Live => tasks' = <<>> /\ NoneQueued(tasks')
    BY <2>1, <2>2, <2>3, PostTask
  <2>5. /\ wpc' \in Places /\ running' \in BOOLEAN /\ (running' <=> wpc' \in Turn)
    BY <2>1 DEF TypeOK, Places, Turn, jobVars
  <2>6. TypeOK'
    BY <2>1, <2>4, <2>5 DEF TypeOK, Tasks, gateVars, jobVars
  <2>7. Gate' /\ Calm'
    BY <2>1, <2>2, <2>4 DEF Gate, NoDialog, Clearing, Calm, gateVars
  <2>8. Chosen' /\ AnswerIsTheChoice' /\ Sourced'
    BY <2>1, <2>2 DEF Chosen, AnswerIsTheChoice, Sourced, gateVars
  <2> QED
    BY <2>6, <2>7, <2>8
<1>4. CASE Sleep
  <2>1. /\ wpc = "waiting" /\ pending /\ wpc' = "asleep"
        /\ UNCHANGED <<tasks, phase, handler, thinking, warned, gateVars, jobVars, typed, notices>>
    BY <1>4 DEF Sleep
  <2>2. TypeOK'
    BY <2>1 DEF TypeOK, Places, Turn, gateVars, jobVars
  <2>3. Gate' /\ Calm'
    BY <2>1 DEF Gate, NoDialog, Clearing, Calm, gateVars
  <2>4. Chosen' /\ AnswerIsTheChoice' /\ Sourced'
    BY <2>1 DEF Chosen, AnswerIsTheChoice, Sourced, gateVars
  <2> QED
    BY <2>2, <2>3, <2>4
<1>5. CASE Return
  <2>1. /\ wpc = "waiting" /\ ~pending /\ wpc' = "turn"
        /\ answers' = answers \union
             {[request |-> request, ok |-> result \in {"allow", "forever"}]}
        /\ UNCHANGED <<tasks, phase, handler, thinking, warned, dialog, pending, request, result,
                       rules, asks, confirmed, jobVars, typed, notices>>
    BY <1>5 DEF Return
  <2>2. /\ request \in Requests
        /\ [request |-> request, choice |-> result] \in confirmed
    BY <2>1 DEF Chosen
  <2> DEFINE ok == result \in {"allow", "forever"}
             a == [request |-> request, ok |-> ok]
             d == [request |-> request, choice |-> result]
  <2>3. ok \in BOOLEAN /\ (ok <=> result # "deny")
    BY DEF TypeOK, Choices
  <2>4. answers' \subseteq [request : Requests, ok : BOOLEAN]
    <3> HIDE DEF ok
    <3>1. a \in [request : Requests, ok : BOOLEAN]
      BY <2>2, <2>3
    <3>2. answers' = answers \union {a}
      BY <2>1 DEF ok
    <3> QED
      BY <3>1, <3>2 DEF TypeOK
  <2>5. wpc' \in Places /\ (running <=> wpc' \in Turn)
    BY <2>1 DEF TypeOK, Places, Turn
  <2>6. TypeOK'
    BY <2>1, <2>4, <2>5 DEF TypeOK, jobVars
  <2>7. Gate' /\ Calm'
    BY <2>1 DEF Gate, NoDialog, Clearing, Calm
  <2>8. AnswerIsTheChoice'
    <3>1. d \in confirmed /\ d.request = a.request /\ a.ok = (d.choice # "deny")
      BY <2>2, <2>3
    <3>2. \A b \in answers : \E e \in confirmed : e.request = b.request /\ b.ok = (e.choice # "deny")
      BY DEF AnswerIsTheChoice
    <3> QED
      BY <2>1, <3>1, <3>2 DEF AnswerIsTheChoice
  <2>9. Chosen' /\ Sourced'
    BY <2>1 DEF Chosen, Sourced
  <2> QED
    BY <2>6, <2>7, <2>8, <2>9
<1>6. CASE ShowPlan \/ ResumeThinking \/ Reply \/ CreateTells \/ CreateEnds
  <2>1. \E t \in {"append", "think", "unthink"} :
          /\ Post(t)
          /\ \/ wpc = "turn" /\ wpc' = "info" /\ t = "append"
             \/ wpc = "info" /\ wpc' = "turn" /\ t = "think"
             \/ wpc = "turn" /\ wpc' = "saving" /\ t = "append"
             \/ wpc = "creating" /\ wpc' = "created" /\ t = "append"
             \/ wpc = "created" /\ wpc' = "free" /\ t = "unthink"
    BY <1>6 DEF ShowPlan, ResumeThinking, Reply, CreateTells, CreateEnds, PostNext
  <2>2. PICK t \in {"append", "think", "unthink"} :
          /\ Post(t)
          /\ \/ wpc = "turn" /\ wpc' = "info" /\ t = "append"
             \/ wpc = "info" /\ wpc' = "turn" /\ t = "think"
             \/ wpc = "turn" /\ wpc' = "saving" /\ t = "append"
             \/ wpc = "creating" /\ wpc' = "created" /\ t = "append"
             \/ wpc = "created" /\ wpc' = "free" /\ t = "unthink"
    BY <2>1
  <2>3. /\ UNCHANGED <<handler, thinking, warned, gateVars, jobVars, typed>>
        /\ notices' \in 0 .. MaxNotices
    BY <1>0, <1>6, BoundsAssumption
    DEF ShowPlan, ResumeThinking, Reply, CreateTells, CreateEnds, PostNext
  <2>4. /\ t \in Tasks /\ t # "dialog"
        /\ wpc # "waiting" /\ wpc' \in Places \ {"raised", "waiting", "asleep"}
        /\ wpc' \in Turn <=> wpc \in Turn
        /\ t \in Resets \/ wpc' \notin {"free", "saving"}
    BY <2>2 DEF Tasks, Closures, Resets, Places, Turn
  <2>5. ~pending
    BY <2>2 DEF Gate
  <2> QED
    BY <2>2, <2>3, <2>4, <2>5, PostingInv
<1>7. CASE Saved
  <2>1. /\ wpc = "saving" /\ wpc' = "free" /\ running' = FALSE
        /\ UNCHANGED <<tasks, phase, handler, thinking, warned, gateVars, jobs, typed, notices>>
    BY <1>7 DEF Saved
  <2>2. TypeOK'
    BY <2>1 DEF TypeOK, Places, Turn, gateVars
  <2>3. Gate' /\ Calm'
    BY <2>1 DEF Gate, NoDialog, Clearing, Calm, Submitting, gateVars
  <2>4. Chosen' /\ AnswerIsTheChoice' /\ Sourced'
    BY <2>1 DEF Chosen, AnswerIsTheChoice, Sourced, gateVars
  <2> QED
    BY <2>2, <2>3, <2>4
<1> QED
  BY <1>1, <1>2, <1>3, <1>4, <1>5, <1>6, <1>7 DEF WorkerStep

-----------------------------------------------------------------------------
(* The theorems.                                                           *)

\* The invariant holds of every behaviour.
THEOREM Invariance == Spec => []IInv
<1>1. IInv /\ [Next]_vars => IInv'
  <2> SUFFICES ASSUME IInv, [Next]_vars PROVE IInv'
    OBVIOUS
  <2>1. CASE UNCHANGED vars
    <3> USE <2>1 DEF vars, gateVars, jobVars, IInv
    <3>1. TypeOK'
      BY DEF TypeOK
    <3>2. Gate' /\ Calm'
      BY DEF Gate, NoDialog, Clearing, Calm, Submitting
    <3>3. Chosen' /\ AnswerIsTheChoice' /\ Sourced'
      BY DEF Chosen, AnswerIsTheChoice, Sourced
    <3> QED
      BY <3>1, <3>2, <3>3
  <2> QED
    BY <2>1, LoopInv, HandlerInv, OtherTasksInv, DialogInv, WorkerInv, NoticeInv
    DEF Next, UiStep
<1> QED
  BY <1>1, InitInv, PTL DEF Spec

\* Types, and taskRunning_ up exactly while a turn's job runs, for any bounds.
THEOREM TypeCorrect == Spec => []TypeOK
BY Invariance, PTL DEF IInv

\* waitForPermission returns what the user chose for this question, however keys,
\* closures and the worker interleave.
THEOREM ConsentIsTheUsers == Spec => []AnswerIsTheChoice
BY Invariance, PTL DEF IInv

\* A call goes unasked only by a rule of the file, or by one that comes from the choice
\* "forever" on a dialog that showed the call it is made of, whatever rules there are and
\* whatever calls they cover.
THEOREM RulesAreTheUsers == Spec => []RulesFromConsent
<1>1. IInv => RulesFromConsent
  BY DEF IInv, Sourced, RulesFromConsent, Passes
<1> QED
  BY <1>1, Invariance, PTL

\* While the loop runs, a pending request is on the screen or on its way there.
THEOREM RequestsAreShown == Spec => []DialogPromised
<1>1. IInv => DialogPromised
  BY DEF IInv, Gate, DialogPromised, OneQueued, Live
<1> QED
  BY <1>1, Invariance, PTL

\* The input is open again whenever nothing is queued, submitted or running.
THEOREM InputComesBack == Spec => []NotStuckThinking
<1>1. IInv => NotStuckThinking
  BY DEF IInv, TypeOK, Calm, Settles, NotStuckThinking, Submitting, Live
<1> QED
  BY <1>1, Invariance, PTL

=============================================================================
