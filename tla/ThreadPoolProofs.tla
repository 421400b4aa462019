-------------------------- MODULE ThreadPoolProofs --------------------------
(***************************************************************************)
(* ThreadPool for any number of workers, callers and tasks: its type       *)
(* invariant, the two safety properties of a pool (no accepted task is     *)
(* stranded, a task is in one place) and the refinement of JobQueue.       *)
(*                                                                         *)
(* NoTaskStranded is not inductive: that a caller past its test of stop_   *)
(* has met no exited worker follows from the mutex, so the invariant says  *)
(* who holds the mutex (MutexHeld), that stop_ is set exactly when the     *)
(* destructor has begun (StopSet) and that hands are full exactly between  *)
(* taking and returning (HandsFull).                                       *)
(***************************************************************************)
EXTENDS ThreadPool, TLAPS

\* The mutex is held across steps by the thread inside an open critical section.
MutexHeld ==
  /\ \A w \in Workers : worker[w] = "deciding" <=> mutex = w
  /\ \A c \in Callers : caller[c] = "admitted" <=> mutex = c

\* A worker has a task in hand while it runs it, a caller until it has pushed it.
HandsFull ==
  /\ \A w \in Workers : worker[w] = "running" <=> task[w] # NoJob
  /\ \A c \in Callers : caller[c] = "admitted" <=> offer[c] # NoJob

\* Workers leave only after the destructor has set stop_, and it returns only
\* when they all have.
StopSet ==
  /\ stop <=> dtor # "live"
  /\ (\E w \in Workers : worker[w] = "exited") => stop
  /\ dtor = "joined" => \A w \in Workers : worker[w] = "exited"

IInv == TypeOK /\ MutexHeld /\ HandsFull /\ StopSet /\ NoTaskStranded /\ OnePlace

-----------------------------------------------------------------------------
(* Sequences as queues.                                                    *)

\* Pushing adds the element to the set of queued ones, and keeps a queue of
\* distinct elements distinct when the element is new.
LEMMA PushQueue ==
  ASSUME NEW S, NEW s \in Seq(S), NEW e \in S
  PROVE  /\ Append(s, e) \in Seq(S)
         /\ {Append(s, e)[i] : i \in DOMAIN Append(s, e)} = {s[i] : i \in DOMAIN s} \union {e}
         /\ (/\ \A i, k \in DOMAIN s : s[i] = s[k] => i = k
             /\ e \notin {s[i] : i \in DOMAIN s})
            => \A i, k \in DOMAIN Append(s, e) : Append(s, e)[i] = Append(s, e)[k] => i = k
<1>1. /\ Append(s, e) \in Seq(S)
      /\ DOMAIN s = 1..Len(s)
      /\ DOMAIN Append(s, e) = 1..(Len(s) + 1)
      /\ Len(s) \in Nat
      /\ \A i \in 1..Len(s) : Append(s, e)[i] = s[i]
      /\ Append(s, e)[Len(s) + 1] = e
  OBVIOUS
<1>2. 1..(Len(s) + 1) = (1..Len(s)) \union {Len(s) + 1}
  BY <1>1
<1>3. {Append(s, e)[i] : i \in DOMAIN Append(s, e)} = {s[i] : i \in DOMAIN s} \union {e}
  BY <1>1, <1>2
<1>4. ASSUME \A i, k \in DOMAIN s : s[i] = s[k] => i = k,
             e \notin {s[i] : i \in DOMAIN s}
      PROVE  \A i, k \in DOMAIN Append(s, e) : Append(s, e)[i] = Append(s, e)[k] => i = k
  BY <1>1, <1>2, <1>4
<1> QED
  BY <1>1, <1>3, <1>4

\* Popping removes the head, and only the head, from a queue of distinct elements.
LEMMA PopQueue ==
  ASSUME NEW S, NEW s \in Seq(S), s # <<>>,
         \A i, k \in DOMAIN s : s[i] = s[k] => i = k
  PROVE  /\ Tail(s) \in Seq(S)
         /\ Head(s) \in S
         /\ Head(s) \in {s[i] : i \in DOMAIN s}
         /\ {Tail(s)[i] : i \in DOMAIN Tail(s)} = {s[i] : i \in DOMAIN s} \ {Head(s)}
         /\ \A i, k \in DOMAIN Tail(s) : Tail(s)[i] = Tail(s)[k] => i = k
<1>1. /\ Tail(s) \in Seq(S)
      /\ Len(s) \in Nat \ {0}
      /\ DOMAIN s = 1..Len(s)
      /\ DOMAIN Tail(s) = 1..(Len(s) - 1)
      /\ Head(s) = s[1]
      /\ s[1] \in S
      /\ \A i \in 1..(Len(s) - 1) : Tail(s)[i] = s[i + 1]
  OBVIOUS
<1>2. {Tail(s)[i] : i \in DOMAIN Tail(s)} \subseteq {s[i] : i \in DOMAIN s} \ {Head(s)}
  <2> SUFFICES ASSUME NEW i \in 1..(Len(s) - 1)
               PROVE  Tail(s)[i] \in {s[k] : k \in DOMAIN s} \ {Head(s)}
    BY <1>1
  <2>1. i + 1 \in DOMAIN s /\ 1 \in DOMAIN s /\ i + 1 # 1
    BY <1>1
  <2> QED
    BY <1>1, <2>1
<1>3. {s[i] : i \in DOMAIN s} \ {Head(s)} \subseteq {Tail(s)[i] : i \in DOMAIN Tail(s)}
  <2> SUFFICES ASSUME NEW k \in DOMAIN s, s[k] # Head(s)
               PROVE  s[k] \in {Tail(s)[i] : i \in DOMAIN Tail(s)}
    OBVIOUS
  <2>1. k - 1 \in 1..(Len(s) - 1) /\ Tail(s)[k - 1] = s[k]
    BY <1>1
  <2> QED
    BY <1>1, <2>1
<1>4. \A i, k \in DOMAIN Tail(s) : Tail(s)[i] = Tail(s)[k] => i = k
  BY <1>1
<1>5. Head(s) \in {s[i] : i \in DOMAIN s}
  BY <1>1
<1> QED
  BY <1>1, <1>2, <1>3, <1>4, <1>5
-----------------------------------------------------------------------------
(* The inductive invariant.                                                *)

LEMMA InitInv == Init => IInv
<1> SUFFICES ASSUME Init PROVE IInv
  OBVIOUS
<1> USE DEF Init
<1>a. tasks \in Seq(Jobs)
  OBVIOUS
<1>b. worker \in [Workers -> WorkerStates] /\ caller \in [Callers -> CallerStates]
  BY DEF WorkerStates, CallerStates
<1>1. TypeOK
  BY <1>a, <1>b DEF TypeOK, DtorStates
<1>2. MutexHeld /\ HandsFull /\ StopSet /\ NoTaskStranded
  BY ThreadsAssumption DEF MutexHeld, HandsFull, StopSet, NoTaskStranded
<1>3. OnePlace
  BY DEF OnePlace, InQueue, InHand, Offered
<1> QED
  BY <1>1, <1>2, <1>3 DEF IInv

\* The steps that move no task from one place to another keep OnePlace.
LEMMA StillOnePlace ==
  ASSUME OnePlace, UNCHANGED <<tasks, task, offer, refused, done>>
  PROVE  OnePlace'
<1>1. InQueue' = InQueue /\ InHand' = InHand /\ Offered' = Offered
  BY DEF InQueue, InHand, Offered
<1> QED
  BY <1>1 DEF OnePlace

LEMMA WorkerInv ==
  ASSUME IInv, NEW w \in Workers, WorkerStep(w) \/ WakeSpuriously(w)
  PROVE  IInv'
<1> USE DEF IInv, workerVars, callerVars
<1> DEFINE Control == MutexHeld /\ HandsFull /\ StopSet /\ NoTaskStranded
<1>1. CASE FindNothing(w)
  <2>1. TypeOK'
    BY <1>1 DEF FindNothing, TypeOK, WorkerStates
  <2>2. Control'
    BY <1>1, ThreadsAssumption
       DEF FindNothing, TypeOK, MutexHeld, HandsFull, StopSet, NoTaskStranded
  <2> QED
    BY <1>1, <2>1, <2>2, StillOnePlace DEF FindNothing
<1>2. CASE Park(w)
  <2>1. TypeOK'
    BY <1>2 DEF Park, TypeOK, WorkerStates
  <2>2. Control'
    BY <1>2, ThreadsAssumption
       DEF Park, TypeOK, MutexHeld, HandsFull, StopSet, NoTaskStranded
  <2> QED
    BY <1>2, <2>1, <2>2, StillOnePlace DEF Park
<1>3. CASE Take(w)
  <2>a. tasks \in Seq(Jobs) /\ tasks # <<>> /\ tasks' = Tail(tasks)
    BY <1>3 DEF Take, TypeOK
  <2>b. \A i, k \in DOMAIN tasks : tasks[i] = tasks[k] => i = k
    BY DEF OnePlace
  <2>c. /\ Tail(tasks) \in Seq(Jobs)
        /\ Head(tasks) \in Jobs
        /\ Head(tasks) \in {tasks[i] : i \in DOMAIN tasks}
        /\ {Tail(tasks)[i] : i \in DOMAIN Tail(tasks)} =
              {tasks[i] : i \in DOMAIN tasks} \ {Head(tasks)}
        /\ \A i, k \in DOMAIN Tail(tasks) : Tail(tasks)[i] = Tail(tasks)[k] => i = k
    BY <2>a, <2>b, PopQueue
  <2>1. /\ Tail(tasks) \in Seq(Jobs)
        /\ Head(tasks) \in Jobs
        /\ Head(tasks) \in InQueue
        /\ InQueue' = InQueue \ {Head(tasks)}
        /\ \A i, k \in DOMAIN Tail(tasks) : Tail(tasks)[i] = Tail(tasks)[k] => i = k
    BY <2>a, <2>c DEF InQueue
  <2>2. TypeOK'
    BY <1>3, <2>1 DEF Take, TypeOK, WorkerStates
  <2>3. Control'
    BY <1>3, <2>1, JobsAssumption, ThreadsAssumption
       DEF Take, TypeOK, MutexHeld, HandsFull, StopSet, NoTaskStranded
  <2>4. task[w] = NoJob
    BY <1>3 DEF Take, HandsFull
  <2>5. InHand' = InHand \union {Head(tasks)}
    BY <1>3, <2>1, <2>4, JobsAssumption DEF Take, TypeOK, InHand
  <2>6. Offered' = Offered
    BY <1>3 DEF Take, Offered
  <2>7. \A u, v \in Workers : task'[u] = task'[v] /\ task'[u] # NoJob => u = v
    BY <1>3, <2>1 DEF Take, TypeOK, OnePlace, InHand
  <2>8. OnePlace'
    BY <1>3, <2>1, <2>5, <2>6, <2>7 DEF Take, OnePlace
  <2> QED
    BY <2>2, <2>3, <2>8
<1>4. CASE Return(w)
  <2>1. task[w] \in Jobs /\ task[w] \in InHand
    BY <1>4 DEF Return, TypeOK, HandsFull, InHand
  <2>2. TypeOK'
    BY <1>4, <2>1 DEF Return, TypeOK, WorkerStates
  <2>3. Control'
    BY <1>4, ThreadsAssumption
       DEF Return, TypeOK, MutexHeld, HandsFull, StopSet, NoTaskStranded
  <2>4. InHand' = InHand \ {task[w]}
    BY <1>4, <2>1 DEF Return, TypeOK, OnePlace, InHand
  <2>5. InQueue' = InQueue /\ Offered' = Offered
    BY <1>4 DEF Return, InQueue, Offered
  <2>6. OnePlace'
    BY <1>4, <2>1, <2>4, <2>5 DEF Return, TypeOK, OnePlace
  <2> QED
    BY <2>2, <2>3, <2>6
<1>5. CASE Exit(w)
  <2>1. TypeOK'
    BY <1>5 DEF Exit, TypeOK, WorkerStates
  <2>2. Control'
    BY <1>5, ThreadsAssumption
       DEF Exit, TypeOK, MutexHeld, HandsFull, StopSet, NoTaskStranded
  <2> QED
    BY <1>5, <2>1, <2>2, StillOnePlace DEF Exit
<1>6. CASE WakeSpuriously(w)
  <2>1. TypeOK'
    BY <1>6 DEF WakeSpuriously, TypeOK, WorkerStates
  <2>2. Control'
    BY <1>6 DEF WakeSpuriously, TypeOK, MutexHeld, HandsFull, StopSet, NoTaskStranded
  <2> QED
    BY <1>6, <2>1, <2>2, StillOnePlace DEF WakeSpuriously
<1> QED
  BY <1>1, <1>2, <1>3, <1>4, <1>5, <1>6 DEF WorkerStep

LEMMA CallerInv ==
  ASSUME IInv, NEW c \in Callers,
         (\E j \in Jobs : Admit(c, j) \/ Refuse(c, j)) \/ Push(c) \/ SubmitNotify(c)
  PROVE  IInv'
<1> USE DEF IInv, workerVars, callerVars
<1> DEFINE Control == MutexHeld /\ HandsFull /\ StopSet /\ NoTaskStranded
<1>1. ASSUME NEW j \in Jobs, Admit(c, j)
      PROVE  IInv'
  <2>1. TypeOK'
    BY <1>1 DEF Admit, TypeOK, CallerStates
  <2>2. Control'
    BY <1>1, ThreadsAssumption, JobsAssumption
       DEF Admit, TypeOK, MutexHeld, HandsFull, StopSet, NoTaskStranded
  <2>3. offer[c] = NoJob
    BY <1>1 DEF Admit, HandsFull
  <2>4. Offered' = Offered \union {j}
    BY <1>1, <2>3, JobsAssumption DEF Admit, TypeOK, Offered
  <2>5. InQueue' = InQueue /\ InHand' = InHand
    BY <1>1 DEF Admit, InQueue, InHand
  <2>6. \A d, e \in Callers : offer'[d] = offer'[e] /\ offer'[d] # NoJob => d = e
    BY <1>1 DEF Admit, Fresh, TypeOK, OnePlace, Offered
  <2>7. OnePlace'
    BY <1>1, <2>4, <2>5, <2>6 DEF Admit, Fresh, OnePlace
  <2> QED
    BY <2>1, <2>2, <2>7
<1>2. ASSUME NEW j \in Jobs, Refuse(c, j)
      PROVE  IInv'
  <2>1. TypeOK'
    BY <1>2 DEF Refuse, TypeOK
  <2>2. Control'
    BY <1>2 DEF Refuse, TypeOK, MutexHeld, HandsFull, StopSet, NoTaskStranded
  <2>3. InQueue' = InQueue /\ InHand' = InHand /\ Offered' = Offered
    BY <1>2 DEF Refuse, InQueue, InHand, Offered
  <2>4. OnePlace'
    BY <1>2, <2>3 DEF Refuse, Fresh, OnePlace
  <2> QED
    BY <2>1, <2>2, <2>4
<1>3. CASE Push(c)
  <2>1. offer[c] \in Jobs /\ offer[c] \in Offered
    BY <1>3 DEF Push, TypeOK, HandsFull, Offered
  <2>2. tasks \in Seq(Jobs) /\ tasks' = Append(tasks, offer[c])
    BY <1>3 DEF Push, TypeOK
  <2>3. /\ \A i, k \in DOMAIN tasks : tasks[i] = tasks[k] => i = k
        /\ offer[c] \notin {tasks[i] : i \in DOMAIN tasks}
    BY <2>1 DEF OnePlace, InQueue
  <2>4. /\ Append(tasks, offer[c]) \in Seq(Jobs)
        /\ {Append(tasks, offer[c])[i] : i \in DOMAIN Append(tasks, offer[c])} =
              {tasks[i] : i \in DOMAIN tasks} \union {offer[c]}
        /\ \A i, k \in DOMAIN Append(tasks, offer[c]) :
              Append(tasks, offer[c])[i] = Append(tasks, offer[c])[k] => i = k
    BY <2>1, <2>2, <2>3, PushQueue
  <2>5. InQueue' = InQueue \union {offer[c]}
    BY <2>2, <2>4 DEF InQueue
  <2>6. TypeOK'
    BY <1>3, <2>2, <2>4 DEF Push, TypeOK, CallerStates
  <2>7. \A w \in Workers : worker[w] # "exited"
    BY <1>3 DEF Push, NoTaskStranded
  <2>8. Control'
    BY <1>3, <2>7, ThreadsAssumption
       DEF Push, TypeOK, MutexHeld, HandsFull, StopSet, NoTaskStranded
  <2>9. InHand' = InHand
    BY <1>3 DEF Push, InHand
  <2>10. Offered' = Offered \ {offer[c]}
    BY <1>3, <2>1 DEF Push, TypeOK, OnePlace, Offered
  <2>11. \A d, e \in Callers : offer'[d] = offer'[e] /\ offer'[d] # NoJob => d = e
    BY <1>3 DEF Push, TypeOK, OnePlace
  <2>12. OnePlace'
    BY <1>3, <2>1, <2>2, <2>4, <2>5, <2>9, <2>10, <2>11 DEF Push, OnePlace
  <2> QED
    BY <2>6, <2>8, <2>12
<1>4. CASE SubmitNotify(c)
  <2>1. /\ worker' \in [Workers -> WorkerStates]
        /\ \A v \in Workers :
             worker'[v] = worker[v] \/ (worker[v] = "parked" /\ worker'[v] = "idle")
    <3>1. CASE \E v \in {u \in Workers : worker[u] = "parked"} :
                 worker' = [worker EXCEPT ![v] = "idle"]
      BY <3>1 DEF TypeOK, WorkerStates
    <3>2. CASE UNCHANGED worker
      BY <3>2 DEF TypeOK
    <3> QED
      BY <1>4, <3>1, <3>2 DEF SubmitNotify, WakeOne
  <2>2. TypeOK'
    BY <1>4, <2>1 DEF SubmitNotify, TypeOK, CallerStates
  <2>3. Control'
    BY <1>4, <2>1
       DEF SubmitNotify, TypeOK, MutexHeld, HandsFull, StopSet, NoTaskStranded
  <2> QED
    BY <1>4, <2>2, <2>3, StillOnePlace DEF SubmitNotify
<1> QED
  BY <1>1, <1>2, <1>3, <1>4

LEMMA DestructorInv ==
  ASSUME IInv, StoreStop \/ NotifyAll \/ Join
  PROVE  IInv'
<1> USE DEF IInv, workerVars, callerVars
<1> DEFINE Control == MutexHeld /\ HandsFull /\ StopSet /\ NoTaskStranded
<1>1. CASE StoreStop
  <2>1. TypeOK' /\ Control'
    BY <1>1
       DEF StoreStop, TypeOK, DtorStates, MutexHeld, HandsFull, StopSet, NoTaskStranded
  <2> QED
    BY <1>1, <2>1, StillOnePlace DEF StoreStop
<1>2. CASE NotifyAll
  <2>1. TypeOK'
    BY <1>2 DEF NotifyAll, TypeOK, WorkerStates, DtorStates
  <2>2. Control'
    BY <1>2 DEF NotifyAll, TypeOK, MutexHeld, HandsFull, StopSet, NoTaskStranded
  <2> QED
    BY <1>2, <2>1, <2>2, StillOnePlace DEF NotifyAll
<1>3. CASE Join
  <2>1. TypeOK' /\ Control'
    BY <1>3
       DEF Join, TypeOK, DtorStates, MutexHeld, HandsFull, StopSet, NoTaskStranded
  <2> QED
    BY <1>3, <2>1, StillOnePlace DEF Join
<1> QED
  BY <1>1, <1>2, <1>3

LEMMA NextInv == IInv /\ [Next]_vars => IInv'
<1> SUFFICES ASSUME IInv, [Next]_vars PROVE IInv'
  OBVIOUS
<1>1. CASE UNCHANGED vars
  <2>1. (TypeOK /\ MutexHeld /\ HandsFull /\ StopSet /\ NoTaskStranded)'
    BY <1>1
       DEF vars, IInv, TypeOK, MutexHeld, HandsFull, StopSet, NoTaskStranded
  <2> QED
    BY <1>1, <2>1, StillOnePlace DEF vars, IInv
<1>2. CASE Next
  BY <1>2, WorkerInv, CallerInv, DestructorInv DEF Next
<1> QED
  BY <1>1, <1>2

-----------------------------------------------------------------------------
(* The theorems.                                                           *)

\* The invariant of util/ThreadPool.h, for any number of threads and tasks.
THEOREM Invariance == Spec => []IInv
  BY InitInv, NextInv, PTL DEF Spec

\* Every variable of the pool keeps its type.
THEOREM TypeCorrect == Spec => []TypeOK
<1>1. IInv => TypeOK
  BY DEF IInv
<1> QED
  BY <1>1, Invariance, PTL

\* The destructor strands no task that submit accepted, however many threads
\* race to submit, take and leave.
THEOREM NothingStranded == Spec => []NoTaskStranded
<1>1. IInv => NoTaskStranded
  BY DEF IInv
<1> QED
  BY <1>1, Invariance, PTL

\* A task is queued, in hand, refused or done, and only one of these, once.
THEOREM RunsOnce == Spec => []OnePlace
<1>1. IInv => OnePlace
  BY DEF IInv
<1> QED
  BY <1>1, Invariance, PTL

-----------------------------------------------------------------------------
(* The pool implements JobQueue.                                           *)

LEMMA InitRefines == Init => JQ!Init
  BY DEF Init, JQ!Init, InHand, Phase

\* A step that moves no task and does not end the destructor's phase is a
\* stuttering step of the queue.
LEMMA Stutters ==
  ASSUME UNCHANGED <<tasks, task, refused, done>>, Phase' = Phase
  PROVE  UNCHANGED JQ!jqVars
<1>1. InHand' = InHand
  BY DEF InHand
<1> QED
  BY <1>1 DEF JQ!jqVars

LEMMA WorkerRefines ==
  ASSUME IInv, NEW w \in Workers, WorkerStep(w) \/ WakeSpuriously(w)
  PROVE  [JQ!Next]_(JQ!jqVars)
<1> USE DEF IInv, workerVars, callerVars
<1>1. CASE Take(w)
  <2>1. InHand' = InHand \union {Head(tasks)}
    <3>1. Head(tasks) \in Jobs
      BY <1>1 DEF Take, TypeOK
    <3>2. task[w] = NoJob
      BY <1>1 DEF Take, HandsFull
    <3> QED
      BY <1>1, <3>1, <3>2, JobsAssumption DEF Take, TypeOK, InHand
  <2>2. JQ!Start
    BY <1>1, <2>1 DEF Take, JQ!Start, Phase
  <2> QED
    BY <2>2 DEF JQ!Next
<1>2. CASE Return(w)
  <2>1. task[w] \in Jobs /\ task[w] \in InHand
    BY <1>2 DEF Return, TypeOK, HandsFull, InHand
  <2>2. InHand' = InHand \ {task[w]}
    BY <1>2, <2>1 DEF Return, TypeOK, OnePlace, InHand
  <2>3. JQ!Finish(task[w])
    BY <1>2, <2>1, <2>2 DEF Return, JQ!Finish, Phase
  <2> QED
    BY <2>1, <2>3 DEF JQ!Next
<1>3. CASE FindNothing(w) \/ Park(w) \/ Exit(w) \/ WakeSpuriously(w)
  BY <1>3, Stutters DEF FindNothing, Park, Exit, WakeSpuriously, Phase
<1> QED
  BY <1>1, <1>2, <1>3 DEF WorkerStep

LEMMA CallerRefines ==
  ASSUME IInv, NEW c \in Callers,
         (\E j \in Jobs : Admit(c, j) \/ Refuse(c, j)) \/ Push(c) \/ SubmitNotify(c)
  PROVE  [JQ!Next]_(JQ!jqVars)
<1> USE DEF IInv, workerVars, callerVars
<1>1. ASSUME NEW j \in Jobs, Refuse(c, j)
      PROVE  [JQ!Next]_(JQ!jqVars)
  <2>1. InHand' = InHand
    BY <1>1 DEF Refuse, InHand
  <2>2. Phase' = Phase /\ Phase # "open"
    BY <1>1 DEF Refuse, Phase, StopSet
  <2>3. JQ!Refuse(j)
    BY <1>1, <2>1, <2>2 DEF Refuse, Fresh, InQueue, JQ!Refuse, JQ!Fresh, JQ!PendingSet
  <2> QED
    BY <2>3 DEF JQ!Next
<1>2. CASE Push(c)
  <2>1. offer[c] \in Jobs /\ offer[c] \in Offered
    BY <1>2 DEF Push, TypeOK, HandsFull, Offered
  <2>2. JQ!Fresh(offer[c])
    BY <2>1 DEF OnePlace, InQueue, JQ!Fresh, JQ!PendingSet
  <2>3. dtor # "joined"
    BY <1>2, WorkersAssumption DEF Push, NoTaskStranded, StopSet
  <2>4. InHand' = InHand /\ Phase' = Phase /\ Phase # "closed"
    BY <1>2, <2>3 DEF Push, InHand, Phase
  <2>5. JQ!Accept(offer[c])
    BY <1>2, <2>2, <2>4 DEF Push, JQ!Accept
  <2> QED
    BY <2>1, <2>5 DEF JQ!Next
<1>3. CASE (\E j \in Jobs : Admit(c, j)) \/ SubmitNotify(c)
  BY <1>3, Stutters DEF Admit, SubmitNotify, Phase
<1> QED
  BY <1>1, <1>2, <1>3

LEMMA DestructorRefines ==
  ASSUME IInv, StoreStop \/ NotifyAll \/ Join
  PROVE  [JQ!Next]_(JQ!jqVars)
<1> USE DEF IInv, workerVars, callerVars
<1>1. CASE StoreStop
  <2>1. InHand' = InHand /\ Phase = "open" /\ Phase' = "closing"
    BY <1>1 DEF StoreStop, InHand, Phase
  <2>2. JQ!BeginClose
    BY <1>1, <2>1 DEF StoreStop, JQ!BeginClose
  <2> QED
    BY <2>2 DEF JQ!Next
<1>2. CASE NotifyAll
  BY <1>2, Stutters DEF NotifyAll, Phase
<1>3. CASE Join
  <2>1. tasks = <<>>
    BY <1>3, WorkersAssumption DEF Join, NoTaskStranded
  <2>2. InHand = {}
    BY <1>3 DEF Join, HandsFull, InHand
  <2>3. InHand' = InHand /\ Phase = "closing" /\ Phase' = "closed"
    BY <1>3 DEF Join, InHand, Phase
  <2>4. JQ!Close
    BY <1>3, <2>1, <2>2, <2>3 DEF Join, JQ!Close
  <2> QED
    BY <2>4 DEF JQ!Next
<1> QED
  BY <1>1, <1>2, <1>3

LEMMA NextRefines == IInv /\ [Next]_vars => [JQ!Next]_(JQ!jqVars)
<1> SUFFICES ASSUME IInv, [Next]_vars PROVE [JQ!Next]_(JQ!jqVars)
  OBVIOUS
<1>1. CASE UNCHANGED vars
  BY <1>1, Stutters DEF vars, Phase
<1>2. CASE Next
  BY <1>2, WorkerRefines, CallerRefines, DestructorRefines DEF Next
<1> QED
  BY <1>1, <1>2

\* Whatever the threads do, the pool behaves as the abstract queue: jobs start
\* in the order of their acceptance, each once, none is refused before the
\* destructor begins, and it returns only when every accepted job has.
THEOREM PoolRefinesQueue == Spec => ImplementsJobQueue
  BY InitRefines, NextRefines, Invariance, PTL DEF Spec, ImplementsJobQueue, JQ!Spec

=============================================================================
