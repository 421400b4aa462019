-------------------------- MODULE AgentLoopProofs ---------------------------
(***************************************************************************)
(* The executor and the loop, for any limits, any tools, any set of gated  *)
(* tools, batches of any length and any answers of the model.              *)
(*                                                                         *)
(* A batch stops at its first failure, gated tools run with consent only,  *)
(* and the results answer the calls one for one. None of these is          *)
(* inductive alone. That nothing runs after a failure needs aborted_ to    *)
(* say that a failure has been recorded (AbortedMeans) and the position to *)
(* be fresh until it is executed (Progress).                               *)
(*                                                                         *)
(* The batches' invariant is carried by every step of the loop. That a     *)
(* turn is quiet once it has noted a cancellation needs to know that a     *)
(* noted cancellation leaves the token tripped and the loop short of a     *)
(* request (CancelSeen).                                                   *)
(*                                                                         *)
(* The conversation left behind: whatever fails or is cancelled, calls are *)
(* answered, a turn ends with the assistant's word, what the model has not *)
(* been shown is not cut, and nothing said is lost. Compaction inserts its *)
(* note between calls and their results, which is why an answer is looked  *)
(* for beyond such notes.                                                  *)
(***************************************************************************)
EXTENDS AgentLoop, TLAPS

-----------------------------------------------------------------------------
(* The executor.                                                           *)

\* One result per position passed; inside a call the position is one of the queue's and the
\* batch is not aborted; a position is not executed before its call.
Progress ==
  /\ at = Len(results) + 1
  /\ at <= Len(queue) + 1
  /\ stage \in {"asking", "executing", "thrown"} => at <= Len(queue) /\ ~aborted
  /\ stage \in {"next", "asking"} => at \notin executed
  /\ \A i \in executed : i <= at

AbortedMeans == aborted <=> \E j \in DOMAIN results : results[j].outcome \in Failures

ExecInv ==
  ExecTypeOK /\ Progress /\ AbortedMeans /\ StopsAtFailure /\ RunsWithConsent /\ AnswersInOrder

\* What appending one result does to the sequence of results.
LEMMA AppendResult ==
  ASSUME NEW rs \in Seq(Results), NEW r \in Results
  PROVE  /\ Append(rs, r) \in Seq(Results)
         /\ Len(Append(rs, r)) = Len(rs) + 1
         /\ DOMAIN Append(rs, r) = 1 .. Len(rs) + 1
         /\ DOMAIN rs = 1 .. Len(rs)
         /\ Len(rs) \in Nat
         /\ \A i \in 1 .. Len(rs) : Append(rs, r)[i] = rs[i]
         /\ Append(rs, r)[Len(rs) + 1] = r
  OBVIOUS

LEMMA ExecInitInv == ExecInit => ExecInv
<1> SUFFICES ASSUME ExecInit PROVE ExecInv
  OBVIOUS
<1>a. queue \in Seq(Uses) /\ results \in Seq(Results)
  BY DEF ExecInit
<1>1. ExecTypeOK
  BY <1>a DEF ExecInit, ExecTypeOK
<1>2. Progress /\ AbortedMeans
  BY DEF ExecInit, Progress, AbortedMeans
<1>3. StopsAtFailure /\ RunsWithConsent /\ AnswersInOrder
  BY DEF ExecInit, StopsAtFailure, RunsWithConsent, AnswersInOrder, Exhausted
<1> QED
  BY <1>1, <1>2, <1>3 DEF ExecInv

LEMMA BeginInv ==
  ASSUME NEW uses \in Seq(Uses), Begin(uses)
  PROVE  ExecInv'
<1>a. queue' \in Seq(Uses) /\ results' \in Seq(Results)
  BY DEF Begin
<1>1. ExecTypeOK'
  BY <1>a DEF Begin, ExecTypeOK
<1>2. Progress' /\ AbortedMeans'
  BY DEF Begin, Progress, AbortedMeans
<1>3. StopsAtFailure' /\ RunsWithConsent' /\ AnswersInOrder'
  BY DEF Begin, StopsAtFailure, RunsWithConsent, AnswersInOrder, Exhausted
<1> QED
  BY <1>1, <1>2, <1>3 DEF ExecInv

\* A step that appends an outcome for the current call keeps the invariant when it is a
\* skip of an aborted batch, or the first outcome of one that is not: a failure if it aborts
\* the batch, a refusal if the call has not been executed.
LEMMA AnswerInv ==
  ASSUME ExecInv, NEW outcome \in Outcomes,
         stage \in {"next", "asking", "executing"}, at <= Len(queue),
         stage' = "next", results' = Answer(outcome), at' = at + 1,
         UNCHANGED <<queue, granted, executed>>,
         aborted' \in BOOLEAN,
         outcome = "skipped" <=> aborted,
         aborted' <=> aborted \/ outcome \in Failures,
         outcome \in {"skipped", "denied"} => stage \in {"next", "asking"}
  PROVE  ExecInv'
<1> DEFINE r == [use |-> queue[at], outcome |-> outcome]
<1>1. /\ r \in Results /\ r.outcome = outcome /\ r.use = queue[at]
      /\ at = Len(results) + 1
      /\ results \in Seq(Results)
      /\ at \in 1 .. Len(queue)
      /\ executed \subseteq Nat
  BY DEF ExecInv, ExecTypeOK, Progress, Results
<1>2. /\ results' \in Seq(Results)
      /\ Len(results') = at
      /\ DOMAIN results' = 1 .. at
      /\ DOMAIN results = 1 .. at - 1
      /\ \A i \in 1 .. at - 1 : results'[i] = results[i]
      /\ results'[at] = r
  BY <1>1, AppendResult DEF Answer
<1> HIDE DEF r
<1>3. ExecTypeOK'
  BY <1>1, <1>2 DEF ExecInv, ExecTypeOK
<1>4. Progress'
  BY <1>1, <1>2 DEF ExecInv, Progress
<1>5. AbortedMeans'
  BY <1>1, <1>2 DEF ExecInv, AbortedMeans, Failures
<1>6. StopsAtFailure'
  <2> SUFFICES ASSUME NEW i \in 1 .. at
               PROVE  LET failedBefore == \E j \in 1 .. i - 1 : results'[j].outcome \in Failures
                      IN  /\ failedBefore <=> results'[i].outcome = "skipped"
                          /\ failedBefore => \A k \in executed : k < i
    BY <1>1, <1>2 DEF StopsAtFailure
  <2>1. CASE i < at
    <3>1. i \in DOMAIN results /\ results'[i] = results[i]
      BY <2>1, <1>1, <1>2
    <3>2. \A j \in 1 .. i - 1 : results'[j] = results[j]
      BY <2>1, <1>1, <1>2
    <3>3. LET failedBefore == \E j \in 1 .. i - 1 : results[j].outcome \in Failures
          IN  /\ failedBefore <=> results[i].outcome = "skipped"
              /\ failedBefore => \A k \in executed : k < i
      BY <3>1 DEF ExecInv, StopsAtFailure
    <3> QED
      BY <3>1, <3>2, <3>3
  <2>2. CASE i = at
    <3>1. aborted <=> \E j \in 1 .. at - 1 : results'[j].outcome \in Failures
      BY <1>1, <1>2 DEF ExecInv, AbortedMeans
    <3>2. ASSUME aborted PROVE \A k \in executed : k < at
      BY <1>1, <3>2 DEF ExecInv, Progress
    <3> QED
      BY <2>2, <1>1, <1>2, <3>1, <3>2
  <2> QED
    BY <2>1, <2>2, <1>1
<1>7. RunsWithConsent'
  <2>1. ASSUME outcome \in {"skipped", "denied"} PROVE at \notin executed
    BY <2>1 DEF ExecInv, Progress
  <2>2. \A i \in executed : NeedsPermission(i)' => i \in granted'
    BY DEF ExecInv, RunsWithConsent, NeedsPermission
  <2>3. \A i \in 1 .. at : results'[i].outcome \in {"denied", "skipped"} => i \notin executed
    BY <1>1, <1>2, <2>1 DEF ExecInv, RunsWithConsent
  <2> QED
    BY <1>2, <2>2, <2>3 DEF RunsWithConsent
<1>8. AnswersInOrder'
  BY <1>1, <1>2 DEF ExecInv, AnswersInOrder, Exhausted
<1> QED
  BY <1>3, <1>4, <1>5, <1>6, <1>7, <1>8 DEF ExecInv

\* A step that answers nothing and, if it executes the current call, has the consent.
LEMMA QuietInv ==
  ASSUME ExecInv, UNCHANGED <<queue, at, results, aborted>>,
         stage' \in {"idle", "asking", "executing", "thrown"},
         stage' \in {"asking", "executing", "thrown"} => at <= Len(queue) /\ ~aborted,
         stage' = "asking" => at \notin executed',
         granted' \in {granted, granted \union {at}},
         \/ executed' = executed
         \/ /\ executed' = executed \union {at}
            /\ ~aborted
            /\ NeedsPermission(at) => at \in granted'
  PROVE  ExecInv'
<1>1. /\ at = Len(results) + 1 /\ results \in Seq(Results) /\ at \in Nat
      /\ DOMAIN results = 1 .. at - 1
      /\ executed \subseteq Nat
  BY DEF ExecInv, ExecTypeOK, Progress
<1>2. ExecTypeOK'
  BY <1>1 DEF ExecInv, ExecTypeOK
<1>3. Progress'
  <2>1. at <= Len(queue) + 1 /\ \A i \in executed : i <= at
    BY DEF ExecInv, Progress
  <2>2. \A i \in executed' : i <= at
    <3>1. at <= at
      BY <1>1
    <3>2. executed' \subseteq executed \union {at}
      OBVIOUS
    <3> QED
      BY <2>1, <3>1, <3>2
  <2>3. stage' \in {"next", "asking"} => at \notin executed'
    OBVIOUS
  <2> QED
    BY <1>1, <2>1, <2>2, <2>3 DEF Progress
<1>4. AbortedMeans'
  BY DEF ExecInv, AbortedMeans
<1>5. StopsAtFailure'
  <2>1. CASE executed' = executed
    BY <2>1 DEF ExecInv, StopsAtFailure
  <2>2. CASE ~aborted
    <3>1. \A i \in DOMAIN results, j \in 1 .. at - 1 :
            j \in 1 .. i - 1 => results[j].outcome \notin Failures
      BY <1>1, <2>2 DEF ExecInv, AbortedMeans
    <3>2. \A i \in DOMAIN results : \A j \in 1 .. i - 1 : results[j].outcome \notin Failures
      BY <1>1, <3>1
    <3> QED
      BY <3>2 DEF ExecInv, StopsAtFailure
  <2> QED
    BY <2>1, <2>2
<1>6. RunsWithConsent'
  <2>1. \A i \in executed' : queue[i].tool \in Gated => i \in granted'
    BY DEF ExecInv, RunsWithConsent, NeedsPermission
  <2>2. \A i \in DOMAIN results : i \in executed' => i \in executed
    BY <1>1
  <2>3. \A i \in DOMAIN results : results[i].outcome \in {"denied", "skipped"} => i \notin executed'
    BY <2>2 DEF ExecInv, RunsWithConsent
  <2> QED
    BY <2>1, <2>3 DEF RunsWithConsent, NeedsPermission
<1>7. AnswersInOrder'
  BY DEF ExecInv, AnswersInOrder, Exhausted
<1> QED
  BY <1>2, <1>3, <1>4, <1>5, <1>6, <1>7 DEF ExecInv

\* run() is left, normally or by an exception.
LEMMA DiscardInv == ExecInv /\ Discard => ExecInv'
  BY QuietInv DEF Discard

\* Every step of run()'s loop keeps the invariant.
LEMMA StepInv ==
  ASSUME ExecInv, ExecStep
  PROVE  ExecInv'
<1> USE DEF Outcomes, Failures
<1>0. aborted \in BOOLEAN
  BY DEF ExecInv, ExecTypeOK
<1>1. CASE Skip
  BY <1>0, <1>1, AnswerInv DEF Skip, More
<1>2. CASE Ask
  BY <1>2, QuietInv DEF Ask, More, ExecInv, Progress
<1>3. CASE Execute
  BY <1>3, QuietInv DEF Execute, More
<1>4. CASE Allow
  BY <1>4, QuietInv DEF Allow, ExecInv, Progress
<1>5. CASE Deny
  BY <1>0, <1>5, AnswerInv DEF Deny, ExecInv, Progress
<1>6. CASE Succeed
  BY <1>0, <1>6, AnswerInv DEF Succeed, ExecInv, Progress
<1>7. CASE Fail
  BY <1>0, <1>7, AnswerInv DEF Fail, ExecInv, Progress
<1>8. CASE Throw
  BY <1>8, QuietInv DEF Throw, ExecInv, Progress
<1> QED
  BY <1>1, <1>2, <1>3, <1>4, <1>5, <1>6, <1>7, <1>8 DEF ExecStep

\* A step that leaves the executor alone.
LEMMA StutterInv == ExecInv /\ UNCHANGED execVars => ExecInv'
  BY DEF ExecInv, execVars, ExecTypeOK, Progress, AbortedMeans, StopsAtFailure, RunsWithConsent,
         AnswersInOrder, NeedsPermission, Exhausted

LEMMA ExecNextInv == ExecInv /\ [ExecNext]_execVars => ExecInv'
<1> SUFFICES ASSUME ExecInv, [ExecNext]_execVars PROVE ExecInv'
  OBVIOUS
<1>1. ASSUME NEW uses \in Seq(Uses), Begin(uses) PROVE ExecInv'
  BY <1>1, BeginInv
<1>2. CASE ExecStep
  BY <1>2, StepInv
<1>3. CASE Discard
  BY <1>3, DiscardInv
<1>4. CASE UNCHANGED execVars
  BY <1>4, StutterInv
<1> QED
  BY <1>1, <1>2, <1>3, <1>4 DEF ExecNext

-----------------------------------------------------------------------------

\* The executor on its own, batch after batch: its invariant.
THEOREM ExecInvariance == ExecSpec => []ExecInv
<1> QED
  BY ExecInitInv, ExecNextInv, PTL DEF ExecSpec

-----------------------------------------------------------------------------
(* The loop.                                                                 *)

\* Where the loop is: an executor exists exactly during a batch, and the counters are below
\* their limits where the code goes on.
InPlace ==
  /\ pc = "batch" <=> stage # "idle"
  /\ pc \in {"sending", "batch"} => iter < MaxIterations
  /\ pc = "critic" => round + 1 < Rounds

\* A cancellation of the user's has been noted since the user last spoke.
Noted(ms) ==
  \E i \in DOMAIN ms :
    ms[i].kind = "cancelled" /\ \A k \in i .. Len(ms) : ms[k].kind # "user"

CancelSeen ==
  pc \notin {"idle", "crashed"} /\ Noted(msgs) => cancel /\ pc \notin {"sending", "batch"}

LoopTypeOK ==
  /\ pc \in Places
  /\ mode \in Modes
  /\ msgs \in Seq(Message)
  /\ iter \in 0 .. MaxIterations
  /\ round \in 0 .. Rounds - 1
  /\ todo \in Seq({"step", "synthesis"}) /\ Len(todo) <= MaxSteps
  /\ cancel \in BOOLEAN
  /\ turns \in 0 .. MaxTurns
  /\ sent \in Nat

LoopInv == LoopTypeOK /\ InPlace /\ CancelSeen /\ NothingAfterCancelled

IInv == ExecInv /\ LoopInv

-----------------------------------------------------------------------------
(* Conversations.                                                          *)

LEMMA SayMessage ==
  ASSUME NEW kind \in Kinds
  PROVE  Say(kind) \in Message /\ Say(kind).kind = kind
<1>1. <<>> \in Seq(Uses) /\ <<>> \in Seq(Results)
  OBVIOUS
<1> QED
  BY <1>1 DEF Say, Message, Forms

\* What a failed request appends: a note, of a cancellation only with the token tripped.
LEMMA FailureNoted ==
  ASSUME RequestFails
  PROVE  /\ pc = "sending" /\ UNCHANGED <<sent, execVars>>
         /\ \E m \in Message : /\ m.kind \in Notes /\ m.uses = <<>>
                               /\ m.kind = "cancelled" => cancel
                               /\ RunReturns(Append(msgs, m))
<1>1. PICK kind \in Reasons, form \in {"whole", "torn"} : RunReturns(Append(msgs, Note(kind, form)))
  BY DEF RequestFails
<1>2. kind \in Notes /\ (kind = "cancelled" => cancel)
  BY DEF Reasons, Notes
<1>3. Say(kind) \in Message
  BY <1>2, SayMessage DEF Notes, Kinds, AssistantKinds
<1>4. /\ Note(kind, form) \in Message
      /\ Note(kind, form).kind = kind /\ Note(kind, form).uses = <<>>
  BY <1>3 DEF Note, Say, Message, Forms
<1> QED
  BY <1>1, <1>2, <1>4 DEF RequestFails

\* Appending a message keeps the quiet when the message is no answer, or when no
\* cancellation has been noted; and it notes one only if it is such a note.
LEMMA AppendQuiet ==
  ASSUME NEW ms \in Seq(Message), NEW m \in Message
  PROVE  /\ Append(ms, m) \in Seq(Message)
         /\ QuietAfterCancel(ms) /\ (m.kind \in {"reply", "results"} => ~Noted(ms))
              => QuietAfterCancel(Append(ms, m))
         /\ Noted(Append(ms, m)) => Noted(ms) \/ m.kind = "cancelled"
         /\ m.kind = "user" => ~Noted(Append(ms, m))
<1> DEFINE ns == Append(ms, m)
           n  == Len(ms)
<1>1. /\ ns \in Seq(Message) /\ Len(ns) = n + 1 /\ n \in Nat
      /\ DOMAIN ns = 1 .. n + 1 /\ DOMAIN ms = 1 .. n
      /\ \A i \in 1 .. n : ns[i] = ms[i]
      /\ ns[n + 1] = m
  OBVIOUS
<1> HIDE DEF ns, n
<1>2. ASSUME QuietAfterCancel(ms), m.kind \in {"reply", "results"} => ~Noted(ms)
      PROVE  QuietAfterCancel(ns)
  <2> SUFFICES ASSUME NEW i \in 1 .. n + 1, NEW j \in 1 .. n + 1, i < j,
                      ns[i].kind = "cancelled", ns[j].kind \in {"reply", "results"}
               PROVE  \E k \in i .. j : ns[k].kind = "user"
    BY <1>1 DEF QuietAfterCancel
  <2>1. i \in 1 .. n /\ ms[i].kind = "cancelled"
    BY <1>1
  <2>2. CASE j \in 1 .. n
    <3>1. PICK k \in i .. j : ms[k].kind = "user"
      BY <1>1, <1>2, <2>1, <2>2 DEF QuietAfterCancel
    <3> QED
      BY <1>1, <2>1, <2>2, <3>1
  <2>3. CASE j = n + 1
    <3>1. ~Noted(ms)
      BY <1>1, <1>2, <2>3
    <3>2. PICK k \in i .. n : ms[k].kind = "user"
      BY <1>1, <2>1, <3>1 DEF Noted, n
    <3> QED
      BY <1>1, <2>1, <2>3, <3>2
  <2> QED
    BY <1>1, <2>2, <2>3
<1>3. ASSUME Noted(ns), m.kind # "cancelled" PROVE Noted(ms)
  <2>1. PICK i \in 1 .. n + 1 :
          ns[i].kind = "cancelled" /\ \A k \in i .. n + 1 : ns[k].kind # "user"
    BY <1>1, <1>3 DEF Noted
  <2>2. i \in 1 .. n /\ ms[i].kind = "cancelled"
    BY <1>1, <1>3, <2>1
  <2>3. \A k \in i .. n : ms[k].kind # "user"
    BY <1>1, <2>1, <2>2
  <2> QED
    BY <1>1, <2>2, <2>3 DEF Noted, n
<1>4. ASSUME m.kind = "user" PROVE ~Noted(ns)
  BY <1>1, <1>4 DEF Noted
<1> QED
  BY <1>1, <1>2, <1>3, <1>4 DEF ns

\* What compaction leaves: the same kinds in the same order, the note before the last.
LEMMA CompactedKinds ==
  ASSUME NEW ms \in Seq(Message), ms # <<>>, NEW form \in Forms, KeepRecent \in Nat
  PROVE  /\ Compacted(ms, form) \in Seq(Message)
         /\ Len(Compacted(ms, form)) = Len(ms) + 1
         /\ \A i \in 1 .. Len(ms) - 1 : Compacted(ms, form)[i].kind = ms[i].kind
         /\ Compacted(ms, form)[Len(ms)].kind = "compaction"
         /\ Compacted(ms, form)[Len(ms) + 1].kind = ms[Len(ms)].kind
<1> DEFINE n == Len(ms)
           cut == [i \in DOMAIN ms |->
                     IF i <= n - KeepRecent /\ ms[i].kind = "results" /\ ms[i].form = "whole"
                     THEN [ms[i] EXCEPT !.form = form] ELSE ms[i]]
           note == Say("compaction")
<1>1. n \in Nat \ {0} /\ DOMAIN ms = 1 .. n
  OBVIOUS
<1>2. note \in Message /\ note.kind = "compaction"
  BY SayMessage DEF Kinds
<1>3. \A i \in 1 .. n : cut[i] \in Message /\ cut[i].kind = ms[i].kind
  <2> TAKE i \in 1 .. n
  <2>1. ms[i] \in Message
    BY <1>1
  <2>2. [ms[i] EXCEPT !.form = form] \in Message
        /\ [ms[i] EXCEPT !.form = form].kind = ms[i].kind
    BY <2>1 DEF Message
  <2> QED
    BY <1>1, <2>1, <2>2
<1>4. cut \in Seq(Message) /\ Len(cut) = n
  <2>1. cut \in [1 .. n -> Message]
    BY <1>1, <1>3
  <2> QED
    BY <1>1, <2>1
<1> HIDE DEF cut, note
<1>5. Compacted(ms, form) = SubSeq(cut, 1, n - 1) \o <<note>> \o SubSeq(cut, n, n)
  BY <1>4 DEF Compacted, InsertAt, cut, note
<1>6. /\ SubSeq(cut, 1, n - 1) \in Seq(Message) /\ Len(SubSeq(cut, 1, n - 1)) = n - 1
      /\ \A i \in 1 .. n - 1 : SubSeq(cut, 1, n - 1)[i] = cut[i]
  BY <1>1, <1>4
<1>7. /\ SubSeq(cut, n, n) \in Seq(Message) /\ Len(SubSeq(cut, n, n)) = 1
      /\ SubSeq(cut, n, n)[1] = cut[n]
  BY <1>1, <1>4
<1>8. <<note>> \in Seq(Message) /\ Len(<<note>>) = 1 /\ <<note>>[1] = note
  BY <1>2
<1> DEFINE a == SubSeq(cut, 1, n - 1)
           b == SubSeq(cut, n, n)
           ab == a \o <<note>>
<1>9. /\ ab \in Seq(Message) /\ Len(ab) = n
      /\ \A i \in 1 .. n - 1 : ab[i] = cut[i]
      /\ ab[n] = note
  BY <1>1, <1>6, <1>8
<1>10. /\ ab \o b \in Seq(Message) /\ Len(ab \o b) = n + 1
       /\ \A i \in 1 .. n : (ab \o b)[i] = ab[i]
       /\ (ab \o b)[n + 1] = cut[n]
  <2> HIDE DEF ab
  <2> QED
    BY <1>1, <1>7, <1>9
<1>11. Compacted(ms, form) = ab \o b
  BY <1>5
<1> HIDE DEF ab, b, n
<1>12. \A i \in 1 .. n - 1 : (ab \o b)[i].kind = ms[i].kind
  BY <1>1, <1>3, <1>9, <1>10
<1>13. (ab \o b)[n].kind = "compaction" /\ (ab \o b)[n + 1].kind = ms[n].kind
  BY <1>1, <1>2, <1>3, <1>9, <1>10
<1> QED
  BY <1>10, <1>11, <1>12, <1>13 DEF n

\* Compaction of a conversation without a noted cancellation notes none, and keeps the quiet.
LEMMA CompactedQuiet ==
  ASSUME NEW ms \in Seq(Message), ms # <<>>, NEW form \in Forms, KeepRecent \in Nat,
         QuietAfterCancel(ms), ~Noted(ms)
  PROVE  QuietAfterCancel(Compacted(ms, form)) /\ ~Noted(Compacted(ms, form))
<1> DEFINE ns == Compacted(ms, form)
           n  == Len(ms)
           \* Where a message of the result came from, the note aside.
           from == [i \in 1 .. n + 1 |-> IF i = n + 1 THEN n ELSE i]
           to == [i \in 1 .. n |-> IF i = n THEN n + 1 ELSE i]
<1>1. /\ ns \in Seq(Message) /\ Len(ns) = n + 1 /\ n \in Nat \ {0}
      /\ DOMAIN ns = 1 .. n + 1 /\ DOMAIN ms = 1 .. n
      /\ \A i \in 1 .. n - 1 : ns[i].kind = ms[i].kind
      /\ ns[n].kind = "compaction"
      /\ ns[n + 1].kind = ms[n].kind
  <2>1. ns \in Seq(Message)
    BY CompactedKinds
  <2> QED
    BY <2>1, CompactedKinds
<1> HIDE DEF ns, n
<1>2. /\ from[n + 1] = n /\ to[n] = n + 1
      /\ \A i \in 1 .. n - 1 : from[i] = i /\ to[i] = i
  BY <1>1
<1> HIDE DEF from, to
<1>3. \A i \in 1 .. n + 1 : i # n => from[i] \in 1 .. n /\ ns[i].kind = ms[from[i]].kind
  BY <1>1, <1>2
<1>4. \A i \in 1 .. n : to[i] \in 1 .. n + 1 /\ ns[to[i]].kind = ms[i].kind
  BY <1>1, <1>2
<1>5. \A i, j \in 1 .. n + 1 : i # n /\ j # n /\ i < j => from[i] < from[j]
  BY <1>1, <1>2
<1>6. \A i, j \in 1 .. n + 1, k \in 1 .. n :
        i # n /\ j # n /\ from[i] <= k /\ k <= from[j] => i <= to[k] /\ to[k] <= j
  BY <1>1, <1>2
<1>7. QuietAfterCancel(ns)
  <2> SUFFICES ASSUME NEW i \in 1 .. n + 1, NEW j \in 1 .. n + 1, i < j,
                      ns[i].kind = "cancelled", ns[j].kind \in {"reply", "results"}
               PROVE  \E k \in i .. j : ns[k].kind = "user"
    BY <1>1 DEF QuietAfterCancel
  <2>1. i # n /\ j # n
    BY <1>1
  <2>2. /\ from[i] \in DOMAIN ms /\ from[j] \in DOMAIN ms /\ from[i] < from[j]
        /\ ms[from[i]].kind = "cancelled" /\ ms[from[j]].kind \in {"reply", "results"}
    BY <1>1, <1>3, <1>5, <2>1
  <2>3. PICK k \in from[i] .. from[j] : ms[k].kind = "user"
    BY <2>2 DEF QuietAfterCancel
  <2>4. k \in 1 .. n /\ from[i] <= k /\ k <= from[j]
    BY <1>1, <2>2, <2>3
  <2>5. to[k] \in 1 .. n + 1 /\ i <= to[k] /\ to[k] <= j
    BY <1>4, <1>6, <2>1, <2>4
  <2>6. to[k] \in i .. j /\ ns[to[k]].kind = "user"
    BY <1>1, <1>4, <2>3, <2>4, <2>5
  <2> QED
    BY <2>6
<1>8. ~Noted(ns)
  <2> SUFFICES ASSUME NEW i \in 1 .. n + 1, ns[i].kind = "cancelled",
                      \A k \in i .. n + 1 : ns[k].kind # "user"
               PROVE  FALSE
    BY <1>1 DEF Noted
  <2>1. i # n
    BY <1>1
  <2>2. from[i] \in DOMAIN ms /\ ms[from[i]].kind = "cancelled"
    BY <1>1, <1>3, <2>1
  <2>3. PICK k \in from[i] .. n : ms[k].kind = "user"
    BY <2>2 DEF Noted, n
  <2>4. k \in 1 .. n /\ from[i] <= k /\ k <= from[n + 1]
    BY <1>1, <1>2, <2>2, <2>3
  <2>5. to[k] \in 1 .. n + 1 /\ i <= to[k]
    BY <1>1, <1>4, <1>6, <2>1, <2>4
  <2>6. to[k] \in i .. n + 1 /\ ns[to[k]].kind = "user"
    BY <1>1, <1>4, <2>3, <2>4, <2>5
  <2> QED
    BY <2>6
<1> QED
  BY <1>7, <1>8 DEF ns

-----------------------------------------------------------------------------
(* The invariant.                                                          *)

\* The model's message is typed.
LEMMA ReplyTyped ==
  ASSUME msgs \in Seq(Message), NEW r \in Seq(Tools)
  PROVE  /\ ReplyMessage(r) \in Message /\ ReplyMessage(r).kind = "reply"
         /\ ReplyMessage(r).uses \in Seq(Uses)
<1> DEFINE uses == [k \in DOMAIN r |-> [tool |-> r[k], id |-> <<Len(msgs) + 1, k>>]]
<1>1. Len(r) \in Nat /\ DOMAIN r = 1 .. Len(r) /\ Len(msgs) + 1 \in Nat
  OBVIOUS
<1>2. \A k \in 1 .. Len(r) : [tool |-> r[k], id |-> <<Len(msgs) + 1, k>>] \in Uses
  BY <1>1 DEF Uses
<1>3. uses \in [1 .. Len(r) -> Uses]
  BY <1>1, <1>2
<1>4. uses \in Seq(Uses)
  BY <1>1, <1>3
<1> HIDE DEF uses
<1>5. ReplyMessage(r) = [kind |-> "reply", results |-> <<>>, form |-> "whole", uses |-> uses]
  BY DEF ReplyMessage, uses
<1>6. <<>> \in Seq(Results)
  OBVIOUS
<1> QED
  BY <1>4, <1>5, <1>6 DEF Message, Kinds, AssistantKinds, Forms

\* The counters may start at zero.
LEMMA Zeroes ==
  /\ 0 \in 0 .. MaxIterations /\ 0 \in 0 .. Rounds - 1 /\ 0 \in 0 .. MaxTurns
  /\ 0 <= MaxSteps
  BY BoundsAssumption

LEMMA InitInv == Init => IInv
<1> SUFFICES ASSUME Init PROVE IInv
  OBVIOUS
<1>1. ExecInv
  BY ExecInitInv DEF Init
<1>2. msgs \in Seq(Message) /\ NothingAfterCancelled
  BY HistoriesAssumption DEF Init, NothingAfterCancelled
<1>3. /\ todo \in Seq({"step", "synthesis"}) /\ Len(todo) = 0
      /\ sent \in Nat
  BY <1>2 DEF Init
<1>4. LoopTypeOK
  BY <1>2, <1>3, Zeroes DEF Init, LoopTypeOK, Places, Modes
<1>5. InPlace /\ CancelSeen
  BY DEF Init, ExecInit, InPlace, CancelSeen
<1> QED
  BY <1>1, <1>2, <1>4, <1>5 DEF IInv, LoopInv

\* During a request and a batch no cancellation has been noted.
LEMMA NotNoted == IInv /\ pc \in {"sending", "batch"} => ~Noted(msgs)
  BY DEF IInv, LoopInv, CancelSeen

\* A run that returns with a quiet conversation, in which a noted cancellation means a
\* tripped token, keeps the invariant.
LEMMA ReturnInv ==
  ASSUME IInv, NEW ms \in Seq(Message), RunReturns(ms), UNCHANGED sent,
         ExecInv', stage' = "idle",
         QuietAfterCancel(ms), Noted(ms) => cancel
  PROVE  IInv'
<1>1. LoopTypeOK /\ cancel' = cancel
  BY DEF IInv, LoopInv, RunReturns
<1>2. CASE NextPrompt(ms)
  <2> DEFINE prompt == Say(Head(todo))
  <2>1. /\ Head(todo) \in {"step", "synthesis"}
        /\ Tail(todo) \in Seq({"step", "synthesis"}) /\ Len(Tail(todo)) <= MaxSteps
    BY <1>1, <1>2, BoundsAssumption DEF NextPrompt, LoopTypeOK
  <2>2. prompt \in Message /\ prompt.kind \in {"step", "synthesis"}
    BY <2>1, SayMessage DEF Kinds
  <2> HIDE DEF prompt
  <2>3. /\ Append(ms, prompt) \in Seq(Message)
        /\ QuietAfterCancel(Append(ms, prompt))
        /\ Noted(Append(ms, prompt)) => cancel
    BY <2>2, AppendQuiet
  <2>4. msgs' = Append(ms, prompt)
    BY <1>2 DEF NextPrompt, prompt
  <2>5. LoopTypeOK'
    BY <1>1, <1>2, <2>1, <2>3, <2>4, BoundsAssumption
       DEF NextPrompt, RunReturns, LoopTypeOK, Places
  <2>6. InPlace' /\ CancelSeen' /\ NothingAfterCancelled'
    BY <1>1, <1>2, <2>3, <2>4 DEF NextPrompt, InPlace, CancelSeen, NothingAfterCancelled
  <2> QED
    BY <2>5, <2>6 DEF IInv, LoopInv
<1>3. CASE LastRun(ms, Rounds)
  <2>1. LoopTypeOK'
    BY <1>1, <1>3 DEF LastRun, RunReturns, LoopTypeOK, Places
  <2>2. InPlace' /\ CancelSeen' /\ NothingAfterCancelled'
    BY <1>1, <1>3 DEF LastRun, RunReturns, InPlace, CancelSeen, NothingAfterCancelled
  <2> QED
    BY <2>1, <2>2 DEF IInv, LoopInv
<1> QED
  BY <1>2, <1>3 DEF RunReturns

\* The same for a run that returns after appending a note.
LEMMA ReturnNoteInv ==
  ASSUME IInv, NEW m \in Message, m.kind \in Notes, RunReturns(Append(msgs, m)), UNCHANGED sent,
         ExecInv', stage' = "idle",
         Noted(msgs) \/ m.kind = "cancelled" => cancel
  PROVE  IInv'
<1>1. m.kind \notin {"reply", "results"}
  BY DEF Notes
<1>2. msgs \in Seq(Message) /\ QuietAfterCancel(msgs)
  BY DEF IInv, LoopInv, LoopTypeOK, NothingAfterCancelled
<1> DEFINE ms == Append(msgs, m)
<1>3. ms \in Seq(Message) /\ QuietAfterCancel(ms) /\ (Noted(ms) => cancel)
  BY <1>1, <1>2, AppendQuiet
<1>4. RunReturns(ms)
  OBVIOUS
<1> HIDE DEF ms
<1> QED
  BY <1>3, <1>4, ReturnInv

\* Submission and the requests of the wrappers.
LEMMA WrapperInv ==
  ASSUME IInv,
         (\E m \in Modes : Submit(m)) \/ CriticSatisfied \/ CriticObjects \/ NoPlan \/ Plan
           \/ SideRequestFails \/ SideRequestThrows
  PROVE  IInv'
<1>1. LoopTypeOK /\ InPlace /\ CancelSeen /\ QuietAfterCancel(msgs) /\ ExecInv
  BY DEF IInv, LoopInv, NothingAfterCancelled
<1>2. /\ msgs \in Seq(Message) /\ Len(msgs) \in Nat
      /\ \A kind \in Kinds : Say(kind) \in Message /\ Say(kind).kind = kind
  BY <1>1, SayMessage DEF LoopTypeOK
<1>3. UNCHANGED execVars
  BY DEF Submit, CriticSatisfied, CriticObjects, NoPlan, Plan, SideRequestFails, SideRequestThrows
<1>4. ExecInv' /\ stage' = stage
  BY <1>1, <1>3, StutterInv DEF execVars
<1>5. ASSUME NEW m \in Modes, Submit(m) PROVE IInv'
  <2>1. /\ msgs' \in Seq(Message) /\ QuietAfterCancel(msgs') /\ ~Noted(msgs')
    BY <1>1, <1>2, <1>5, AppendQuiet DEF Submit, Kinds
  <2>2. todo' \in Seq({"step", "synthesis"}) /\ Len(todo') = 0
    BY <1>5 DEF Submit
  <2>3. LoopTypeOK'
    <3>1. turns' \in 0 .. MaxTurns
      BY <1>1, <1>5, BoundsAssumption DEF Submit, LoopTypeOK
    <3>2. pc' \in Places /\ cancel' \in BOOLEAN /\ mode' \in Modes
      BY <1>5 DEF Submit, Places
    <3> QED
      BY <1>1, <1>5, <2>1, <2>2, <3>1, <3>2, Zeroes DEF Submit, LoopTypeOK
  <2>4. InPlace' /\ CancelSeen' /\ NothingAfterCancelled'
    BY <1>1, <1>4, <1>5, <2>1 DEF Submit, InPlace, CancelSeen, NothingAfterCancelled
  <2> QED
    BY <1>4, <2>3, <2>4 DEF IInv, LoopInv
<1>6. CASE CriticSatisfied \/ NoPlan \/ SideRequestFails \/ SideRequestThrows
  <2>1. /\ UNCHANGED <<mode, msgs, iter, round, todo, cancel, turns>>
        /\ pc \in {"critic", "planner"} /\ pc' \in {"idle", "top", "crashed"}
        /\ sent' \in Nat
    BY <1>1, <1>2, <1>6
       DEF CriticSatisfied, NoPlan, SideRequestFails, SideRequestThrows, Send, LoopTypeOK
  <2>2. LoopTypeOK'
    BY <1>1, <2>1 DEF LoopTypeOK, Places
  <2>3. InPlace' /\ CancelSeen' /\ NothingAfterCancelled'
    BY <1>1, <1>4, <2>1 DEF InPlace, CancelSeen, NothingAfterCancelled
  <2> QED
    BY <1>4, <2>2, <2>3 DEF IInv, LoopInv
<1>7. CASE CriticObjects
  <2>1. /\ msgs' \in Seq(Message) /\ QuietAfterCancel(msgs')
        /\ Noted(msgs') => Noted(msgs)
    BY <1>1, <1>2, <1>7, AppendQuiet DEF CriticObjects, Kinds
  <2>2. sent' \in Nat /\ iter' = 0 /\ round' = round + 1 /\ round + 1 < Rounds
    BY <1>1, <1>2, <1>7 DEF CriticObjects, Send, LoopTypeOK, InPlace
  <2>3. LoopTypeOK'
    BY <1>1, <1>7, <2>1, <2>2, BoundsAssumption DEF CriticObjects, LoopTypeOK, Places
  <2>4. InPlace' /\ CancelSeen' /\ NothingAfterCancelled'
    BY <1>1, <1>4, <1>7, <2>1 DEF CriticObjects, InPlace, CancelSeen, NothingAfterCancelled
  <2> QED
    BY <1>4, <2>3, <2>4 DEF IInv, LoopInv
<1>8. CASE Plan
  <2>1. PICK n \in 1 .. MaxSteps :
          /\ msgs' = msgs \o <<Say("plan"), Say(Head(Prompts(n)))>>
          /\ todo' = Tail(Prompts(n))
    BY <1>8 DEF Plan
  <2>2. n \in Nat /\ 1 <= n /\ n <= MaxSteps
    BY <2>1, BoundsAssumption
  <2>3. Prompts(n) \in Seq({"step", "synthesis"}) /\ Len(Prompts(n)) = n + 1
    <3>1. Prompts(n) \in [1 .. n + 1 -> {"step", "synthesis"}]
      BY <2>2 DEF Prompts
    <3> QED
      BY <2>2, <3>1
  <2>4. /\ Head(Prompts(n)) \in {"step", "synthesis"}
        /\ Tail(Prompts(n)) \in Seq({"step", "synthesis"})
        /\ Len(Tail(Prompts(n))) = n
    BY <2>2, <2>3
  <2> DEFINE one == Append(msgs, Say("plan"))
             two == Append(one, Say(Head(Prompts(n))))
  <2>5. /\ one \in Seq(Message) /\ QuietAfterCancel(one)
        /\ Noted(one) => Noted(msgs)
    BY <1>1, <1>2, AppendQuiet DEF Kinds, AssistantKinds
  <2>6. Say(Head(Prompts(n))) \in Message /\ Say(Head(Prompts(n))).kind \in {"step", "synthesis"}
    BY <1>2, <2>4 DEF Kinds
  <2>7. msgs' = two
    BY <1>2, <2>1, <2>6 DEF Kinds, AssistantKinds
  <2> HIDE DEF one
  <2>8. two \in Seq(Message) /\ QuietAfterCancel(two) /\ (Noted(two) => Noted(one))
    BY <2>5, <2>6, AppendQuiet
  <2> HIDE DEF two
  <2>9. sent' \in Nat
    BY <1>1, <1>2, <1>8 DEF Plan, Send, LoopTypeOK
  <2>10. LoopTypeOK'
    BY <1>1, <1>8, <2>1, <2>2, <2>4, <2>7, <2>8, <2>9 DEF Plan, LoopTypeOK, Places
  <2>11. InPlace' /\ CancelSeen' /\ NothingAfterCancelled'
    BY <1>1, <1>4, <1>8, <2>5, <2>7, <2>8
       DEF Plan, InPlace, CancelSeen, NothingAfterCancelled
  <2> QED
    BY <1>4, <2>10, <2>11 DEF IInv, LoopInv
<1> QED
  BY <1>5, <1>6, <1>7, <1>8

\* The top of the loop and the model's answer.
LEMMA RequestInv ==
  ASSUME IInv,
         ReachLimit \/ NoticeCancel \/ AskModel \/ RequestFails
           \/ (\E r \in Responses : Answered(r) \/ CallsTools(r))
  PROVE  IInv'
<1>1. LoopTypeOK /\ InPlace /\ CancelSeen /\ QuietAfterCancel(msgs) /\ ExecInv
  BY DEF IInv, LoopInv, NothingAfterCancelled
<1>2. msgs \in Seq(Message) /\ Len(msgs) \in Nat
  BY <1>1 DEF LoopTypeOK
<1>3. ASSUME UNCHANGED execVars PROVE ExecInv' /\ stage' = stage
  BY <1>1, <1>3, StutterInv DEF execVars
<1>4. CASE ReachLimit
  <2>1. stage' = "idle" /\ (Noted(msgs) => cancel)
    BY <1>1, <1>3, <1>4 DEF ReachLimit, InPlace, CancelSeen
  <2>2. Say("limit") \in Message /\ Say("limit").kind = "limit"
    BY SayMessage DEF Kinds, AssistantKinds, Notes
  <2> QED
    BY <1>3, <1>4, <2>1, <2>2, ReturnNoteInv DEF ReachLimit, Notes
<1>5. CASE NoticeCancel
  <2>1. stage' = "idle" /\ cancel
    BY <1>1, <1>3, <1>5 DEF NoticeCancel, InPlace
  <2>2. Say("cancelled") \in Message /\ Say("cancelled").kind = "cancelled"
    BY SayMessage DEF Kinds, AssistantKinds, Notes
  <2> QED
    BY <1>3, <1>5, <2>1, <2>2, ReturnNoteInv DEF NoticeCancel, Notes
<1>6. CASE RequestFails
  <2>1. stage' = "idle" /\ ~Noted(msgs)
    BY <1>1, <1>3, <1>6, NotNoted DEF RequestFails, InPlace
  <2>2. PICK m \in Message : /\ m.kind \in Notes /\ (m.kind = "cancelled" => cancel)
                             /\ RunReturns(Append(msgs, m))
    BY <1>6, FailureNoted
  <2> QED
    BY <1>3, <1>6, <2>1, <2>2, ReturnNoteInv DEF RequestFails
<1>7. CASE AskModel
  <2>1. pc = "top" /\ ~cancel /\ ~Noted(msgs)
    BY <1>1, <1>7 DEF AskModel, CancelSeen
  <2>2. msgs' \in Seq(Message) /\ QuietAfterCancel(msgs') /\ ~Noted(msgs')
    <3>1. CASE msgs' = msgs
      BY <1>1, <1>2, <2>1, <3>1
    <3>2. ASSUME NEW form \in Forms, MayCompact(msgs), msgs' = Compacted(msgs, form)
          PROVE  msgs' \in Seq(Message) /\ QuietAfterCancel(msgs') /\ ~Noted(msgs')
      <4>1. KeepRecent \in Nat /\ msgs # <<>>
        BY <1>2, <3>2, BoundsAssumption DEF MayCompact
      <4>2. Compacted(msgs, form) \in Seq(Message)
        BY <1>2, <4>1, CompactedKinds
      <4>3. QuietAfterCancel(Compacted(msgs, form)) /\ ~Noted(Compacted(msgs, form))
        BY <1>1, <1>2, <2>1, <4>1, CompactedQuiet
      <4> QED
        BY <3>2, <4>2, <4>3
    <3> QED
      BY <1>7, <3>1, <3>2 DEF AskModel
  <2>3. sent' \in Nat
    BY <1>1, <1>7, <2>2 DEF AskModel, Send, LoopTypeOK
  <2>4. LoopTypeOK'
    BY <1>1, <1>7, <2>2, <2>3 DEF AskModel, LoopTypeOK, Places
  <2>5. InPlace' /\ CancelSeen' /\ NothingAfterCancelled'
    BY <1>1, <1>3, <1>7, <2>2 DEF AskModel, InPlace, CancelSeen, NothingAfterCancelled
  <2> QED
    BY <1>3, <1>7, <2>4, <2>5 DEF AskModel, IInv, LoopInv
<1>8. ASSUME NEW r \in Responses, Answered(r) PROVE IInv'
  <2> DEFINE ms == Append(msgs, ReplyMessage(r))
  <2>1. ReplyMessage(r) \in Message /\ ReplyMessage(r).kind = "reply"
    BY <1>2, ReplyTyped, ResponsesAssumption
  <2>2. ~Noted(msgs) /\ stage' = "idle"
    BY <1>1, <1>3, <1>8, NotNoted DEF Answered, InPlace
  <2>3. ms \in Seq(Message) /\ QuietAfterCancel(ms) /\ ~Noted(ms)
    BY <1>1, <1>2, <2>1, <2>2, AppendQuiet
  <2>4. RunReturns(ms) /\ UNCHANGED <<sent, execVars>>
    BY <1>8 DEF Answered
  <2> HIDE DEF ms
  <2> QED
    BY <1>3, <2>2, <2>3, <2>4, ReturnInv
<1>9. ASSUME NEW r \in Responses, CallsTools(r) PROVE IInv'
  <2>1. /\ ReplyMessage(r) \in Message /\ ReplyMessage(r).kind = "reply"
        /\ ReplyMessage(r).uses \in Seq(Uses)
    BY <1>2, ReplyTyped, ResponsesAssumption
  <2>2. ExecInv' /\ stage' = "next"
    BY <1>9, <2>1, BeginInv DEF CallsTools, Begin
  <2>3. ~Noted(msgs)
    BY <1>9, NotNoted DEF CallsTools
  <2>4. msgs' \in Seq(Message) /\ QuietAfterCancel(msgs') /\ ~Noted(msgs')
    BY <1>1, <1>2, <1>9, <2>1, <2>3, AppendQuiet DEF CallsTools
  <2>5. LoopTypeOK'
    BY <1>1, <1>9, <2>4 DEF CallsTools, LoopTypeOK, Places
  <2>6. InPlace' /\ CancelSeen' /\ NothingAfterCancelled'
    BY <1>1, <1>9, <2>2, <2>4 DEF CallsTools, InPlace, CancelSeen, NothingAfterCancelled
  <2> QED
    BY <2>2, <2>5, <2>6 DEF IInv, LoopInv
<1> QED
  BY <1>4, <1>5, <1>6, <1>7, <1>8, <1>9

\* The batch: its steps, its normal end and its end by an exception.
LEMMA BatchInv ==
  ASSUME IInv, RunBatch \/ BatchReturns \/ BatchThrows
  PROVE  IInv'
<1>1. LoopTypeOK /\ InPlace /\ CancelSeen /\ QuietAfterCancel(msgs) /\ ExecInv
  BY DEF IInv, LoopInv, NothingAfterCancelled
<1>2. msgs \in Seq(Message) /\ pc = "batch" /\ ~Noted(msgs)
  BY <1>1, NotNoted DEF LoopTypeOK, RunBatch, BatchReturns, BatchThrows
<1>3. CASE RunBatch
  <2>1. ExecInv'
    BY <1>1, <1>3, StepInv DEF RunBatch
  <2>2. stage' # "idle"
    BY <1>3 DEF RunBatch, ExecStep, Skip, Ask, Execute, Allow, Deny, Succeed, Fail, Throw, More
  <2>3. LoopTypeOK' /\ CancelSeen' /\ NothingAfterCancelled'
    BY <1>1, <1>3 DEF RunBatch, loopVars, LoopTypeOK, CancelSeen, NothingAfterCancelled
  <2>4. InPlace'
    BY <1>1, <1>2, <1>3, <2>2 DEF RunBatch, loopVars, InPlace
  <2> QED
    BY <2>1, <2>3, <2>4 DEF IInv, LoopInv
<1>4. CASE BatchReturns
  <2>1. ExecInv' /\ stage' = "idle"
    BY <1>1, <1>4, DiscardInv DEF BatchReturns, Discard
  <2>2. PICK form \in {"whole", "torn"} :
          msgs' = msgs \o IF mode = "reflection" THEN <<ResultsMessage(form), Say("selfcheck")>>
                                                 ELSE <<ResultsMessage(form)>>
    BY <1>4 DEF BatchReturns
  <2> DEFINE m == ResultsMessage(form)
             one == Append(msgs, m)
             two == Append(one, Say("selfcheck"))
  <2>3. m \in Message /\ m.kind = "results"
    <3>1. results \in Seq(Results) /\ <<>> \in Seq(Uses)
      BY <1>1 DEF ExecInv, ExecTypeOK
    <3> QED
      BY <3>1 DEF ResultsMessage, Message, Kinds, Forms
  <2>4. Say("selfcheck") \in Message /\ Say("selfcheck").kind = "selfcheck"
    BY SayMessage DEF Kinds
  <2> HIDE DEF m
  <2>5. msgs' \in {one, two}
    <3>1. msgs' = msgs \o <<m, Say("selfcheck")>> \/ msgs' = msgs \o <<m>>
      BY <2>2 DEF m
    <3>2. msgs \o <<m>> = one
      BY <1>2, <2>3
    <3>3. msgs \o <<m, Say("selfcheck")>> = two
      BY <1>2, <2>3, <2>4
    <3> QED
      BY <3>1, <3>2, <3>3
  <2>6. one \in Seq(Message) /\ QuietAfterCancel(one) /\ ~Noted(one)
    BY <1>1, <1>2, <2>3, AppendQuiet
  <2> HIDE DEF one
  <2>7. two \in Seq(Message) /\ QuietAfterCancel(two) /\ ~Noted(two)
    BY <2>4, <2>6, AppendQuiet
  <2> HIDE DEF two
  <2>8. msgs' \in Seq(Message) /\ QuietAfterCancel(msgs') /\ ~Noted(msgs')
    BY <2>5, <2>6, <2>7
  <2>9. LoopTypeOK'
    BY <1>1, <1>2, <1>4, <2>8, BoundsAssumption DEF BatchReturns, LoopTypeOK, InPlace, Places
  <2>10. InPlace' /\ CancelSeen' /\ NothingAfterCancelled'
    BY <1>1, <1>4, <2>1, <2>8 DEF BatchReturns, InPlace, CancelSeen, NothingAfterCancelled
  <2> QED
    BY <2>1, <2>9, <2>10 DEF IInv, LoopInv
<1>5. CASE BatchThrows
  <2>1. ExecInv' /\ stage' = "idle"
    BY <1>1, <1>5, DiscardInv DEF BatchThrows, Discard
  <2>2. Say("fault") \in Message /\ Say("fault").kind = "fault"
    BY SayMessage DEF Kinds, AssistantKinds, Notes
  <2> QED
    BY <1>2, <1>5, <2>1, <2>2, ReturnNoteInv DEF BatchThrows, Notes
<1> QED
  BY <1>3, <1>4, <1>5

LEMMA NextInv == IInv /\ [Next]_vars => IInv'
<1> SUFFICES ASSUME IInv, [Next]_vars PROVE IInv'
  OBVIOUS
<1>1. CASE TripCancel
  <2>1. ExecInv'
    BY <1>1, StutterInv DEF TripCancel, IInv
  <2>2. LoopInv'
    BY <1>1 DEF TripCancel, IInv, LoopInv, LoopTypeOK, InPlace, CancelSeen, NothingAfterCancelled,
                execVars
  <2> QED
    BY <2>1, <2>2 DEF IInv
<1>2. CASE UNCHANGED vars
  <2>1. ExecInv'
    BY <1>2, StutterInv DEF vars, IInv
  <2>2. LoopInv'
    BY <1>2 DEF vars, loopVars, execVars, IInv, LoopInv, LoopTypeOK, InPlace, CancelSeen,
                NothingAfterCancelled
  <2> QED
    BY <2>1, <2>2 DEF IInv
<1> QED
  BY <1>1, <1>2, WrapperInv, RequestInv, BatchInv DEF Next

-----------------------------------------------------------------------------
(* The theorems.                                                           *)

\* The inductive invariant holds of every behaviour of the loop.
THEOREM Invariance == Spec => []IInv
<1> QED
  BY InitInv, NextInv, PTL DEF Spec

\* The types and the bounds of the counters (the iteration limit, the reflection rounds).
THEOREM TypeCorrect == Spec => []TypeOK
<1>1. IInv => TypeOK
  BY DEF IInv, ExecInv, LoopInv, LoopTypeOK, TypeOK
<1> QED
  BY <1>1, Invariance, PTL

\* In every batch of every run, nothing runs after the first failure.
THEOREM BatchesStop == Spec => []StopsAtFailure
<1>1. IInv => StopsAtFailure
  BY DEF IInv, ExecInv
<1> QED
  BY <1>1, Invariance, PTL

\* In every batch of every run, a gated tool runs only if the user allowed that call.
THEOREM ToolsRunWithConsent == Spec => []RunsWithConsent
<1>1. IInv => RunsWithConsent
  BY DEF IInv, ExecInv
<1> QED
  BY <1>1, Invariance, PTL

\* In every batch of every run, the results answer the calls one for one and in order.
THEOREM BatchesAnswer == Spec => []AnswersInOrder
<1>1. IInv => AnswersInOrder
  BY DEF IInv, ExecInv
<1> QED
  BY <1>1, Invariance, PTL

\* In every mode, once a turn has noted the user's cancellation, the token being tripped, the
\* model answers nothing more in it. Nothing is said of a note that reads the same because an
\* error's text says "aborted" (Reasons).
THEOREM QuietOnceCancelled == Spec => []NothingAfterCancelled
<1>1. IInv => NothingAfterCancelled
  BY DEF IInv, LoopInv
<1> QED
  BY <1>1, Invariance, PTL

-----------------------------------------------------------------------------
(* The conversation: its inductive invariant, beside IInv.                 *)

AllAnswered(ms) == \A i \in 1 .. Len(ms) : ms[i].uses # <<>> => AnsweredAt(ms, i)
AllButLast(ms) == \A i \in 1 .. Len(ms) - 1 : ms[i].uses # <<>> => AnsweredAt(ms, i)

\* During a batch the last message has the calls the executor is at work on.
Calls == IF pc = "batch" THEN msgs # <<>> /\ msgs[Len(msgs)].uses = queue /\ AllButLast(msgs)
                         ELSE AllAnswered(msgs)

Spoke(ms) == ms # <<>> /\ ms[Len(ms)].kind \in AssistantKinds
Unplanned == mode = "plan" /\ msgs # <<>> /\ msgs[Len(msgs)].kind = "user"

Ends ==
  /\ pc = "critic" => Spoke(msgs)
  /\ pc = "planner" => Unplanned
  /\ pc = "idle" /\ turns > 0 => Spoke(msgs) \/ Unplanned

ConvInv == IInv /\ Calls /\ Ends

-----------------------------------------------------------------------------
(* Conversations that grow.                                                *)

LEMMA Grown ==
  ASSUME NEW ms \in Seq(Message), NEW m \in Message
  PROVE  /\ Append(ms, m) \in Seq(Message) /\ Append(ms, m) # <<>>
         /\ Len(ms) \in Nat /\ Len(Append(ms, m)) = Len(ms) + 1
         /\ \A i \in 1 .. Len(ms) : Append(ms, m)[i] = ms[i]
         /\ Append(ms, m)[Len(ms) + 1] = m
OBVIOUS

\* An answer stays one when the conversation grows.
LEMMA StillAnswered ==
  ASSUME NEW ms \in Seq(Message), NEW m \in Message, NEW i \in 1 .. Len(ms), AnsweredAt(ms, i)
  PROVE  AnsweredAt(Append(ms, m), i)
<1> DEFINE ns == Append(ms, m)
<1>1. Len(ms) \in Nat /\ Len(ns) = Len(ms) + 1 /\ \A k \in 1 .. Len(ms) : ns[k] = ms[k]
  BY Grown
<1>2. PICK j \in i + 1 .. Len(ms) :
        /\ \A k \in i + 1 .. j - 1 : ms[k].kind = "compaction"
        /\ ms[j].kind = "fault" \/ Answers(ms[j], ms[i].uses)
  BY DEF AnsweredAt
<1> HIDE DEF ns
<1>3. j \in i + 1 .. Len(ns) /\ ns[j] = ms[j] /\ ns[i] = ms[i]
      /\ \A k \in i + 1 .. j - 1 : ns[k] = ms[k]
  BY <1>1, <1>2
<1>4. AnsweredAt(ns, i)
  BY <1>2, <1>3 DEF AnsweredAt
<1> QED  BY <1>4 DEF ns

LEMMA AppendAnswered ==
  ASSUME NEW ms \in Seq(Message), NEW m \in Message, AllAnswered(ms)
  PROVE  /\ AllButLast(Append(ms, m))
         /\ m.uses = <<>> => AllAnswered(Append(ms, m))
<1> DEFINE ns == Append(ms, m)
<1>1. /\ Len(ms) \in Nat /\ Len(ns) = Len(ms) + 1 /\ ns[Len(ms) + 1] = m
      /\ \A k \in 1 .. Len(ms) : ns[k] = ms[k]
  BY Grown
<1>2. \A i \in 1 .. Len(ms) : ms[i].uses # <<>> => AnsweredAt(ns, i)
  BY StillAnswered DEF AllAnswered
<1> HIDE DEF ns
<1>3. AllButLast(ns) /\ (m.uses = <<>> => AllAnswered(ns))
  BY <1>1, <1>2 DEF AllButLast, AllAnswered
<1> QED  BY <1>3 DEF ns

\* The last message's calls are answered by what is appended.
LEMMA AnswerAppended ==
  ASSUME NEW ms \in Seq(Message), ms # <<>>, AllButLast(ms), NEW m \in Message, m.uses = <<>>,
         m.kind = "fault" \/ Answers(m, ms[Len(ms)].uses)
  PROVE  AllAnswered(Append(ms, m))
<1> DEFINE ns == Append(ms, m)
           n == Len(ms)
<1>1. /\ n \in Nat \ {0} /\ Len(ns) = n + 1 /\ ns[n + 1] = m
      /\ \A k \in 1 .. n : ns[k] = ms[k]
  <2>1. n # 0
    OBVIOUS
  <2> QED  BY <2>1, Grown
<1>2. \A i \in 1 .. n - 1 : ms[i].uses # <<>> => AnsweredAt(ns, i)
  <2> SUFFICES ASSUME NEW i \in 1 .. n - 1, ms[i].uses # <<>> PROVE AnsweredAt(ns, i)
    OBVIOUS
  <2>1. i \in 1 .. Len(ms) /\ AnsweredAt(ms, i)
    BY <1>1 DEF AllButLast
  <2> QED  BY <2>1, StillAnswered
<1> HIDE DEF ns, n
<1>3. AnsweredAt(ns, n)
  <2>1. n + 1 \in n + 1 .. Len(ns) /\ \A k \in n + 1 .. (n + 1) - 1 : ns[k].kind = "compaction"
    BY <1>1
  <2>2. ns[n + 1].kind = "fault" \/ Answers(ns[n + 1], ns[n].uses)
    BY <1>1 DEF n
  <2> QED  BY <2>1, <2>2 DEF AnsweredAt
<1>4. AllAnswered(ns)
  BY <1>1, <1>2, <1>3 DEF AllAnswered
<1> QED  BY <1>4 DEF ns

\* What compaction leaves of the messages: all but the text of results.
LEMMA CompactedFields ==
  ASSUME NEW ms \in Seq(Message), ms # <<>>, NEW form \in Forms, KeepRecent \in Nat
  PROVE  LET ns == Compacted(ms, form)
             n == Len(ms)
         IN  /\ \A i \in 1 .. n - 1 : ns[i].uses = ms[i].uses /\ ns[i].results = ms[i].results
             /\ ns[n].uses = <<>>
             /\ ns[n + 1].uses = ms[n].uses /\ ns[n + 1].results = ms[n].results
             /\ \A i \in 1 .. n : ms[i].kind # "results" \/ i > n - KeepRecent
                  => ns[IF i = n THEN n + 1 ELSE i] = ms[i]
             /\ \A i \in 1 .. n - 1 : SaysTheSame(ms[i], ns[i])
             /\ SaysTheSame(ms[n], ns[n + 1])
<1> DEFINE n == Len(ms)
           cut == [i \in DOMAIN ms |->
                     IF i <= n - KeepRecent /\ ms[i].kind = "results" /\ ms[i].form = "whole"
                     THEN [ms[i] EXCEPT !.form = form] ELSE ms[i]]
           note == Say("compaction")
           a == SubSeq(cut, 1, n - 1)
           b == SubSeq(cut, n, n)
<1>1. n \in Nat \ {0} /\ DOMAIN ms = 1 .. n
  OBVIOUS
<1>2. note \in Message /\ note.uses = <<>>
  BY SayMessage DEF Kinds, Say
<1>3. \A i \in 1 .. n : cut[i] \in Message /\ cut[i].uses = ms[i].uses /\ cut[i].results = ms[i].results
  <2> TAKE i \in 1 .. n
  <2>1. ms[i] \in Message
    BY <1>1
  <2>2. LET m == [ms[i] EXCEPT !.form = form]
        IN  m \in Message /\ m.uses = ms[i].uses /\ m.results = ms[i].results
    BY <2>1 DEF Message
  <2> QED  BY <1>1, <2>1, <2>2
<1>4. \A i \in 1 .. n : ms[i].kind # "results" \/ i > n - KeepRecent => cut[i] = ms[i]
  BY <1>1
<1>5. cut \in Seq(Message) /\ Len(cut) = n
  <2>1. cut \in [1 .. n -> Message]
    BY <1>1, <1>3
  <2> QED  BY <1>1, <2>1
<1>6. \A i \in 1 .. n : SaysTheSame(ms[i], cut[i])
  <2> TAKE i \in 1 .. n
  <2>1. ms[i] \in Message /\ cut[i] \in {ms[i], [ms[i] EXCEPT !.form = form]}
        /\ (ms[i].kind # "results" => cut[i] = ms[i])
    BY <1>1
  <2>2. [ms[i] EXCEPT !.form = form].form = form
    BY <2>1 DEF Message
  <2> QED  BY <2>1, <2>2 DEF SaysTheSame
<1> HIDE DEF cut, note
<1>7. Compacted(ms, form) = a \o <<note>> \o b
  BY <1>5 DEF Compacted, InsertAt, cut, note
<1>8. /\ SubSeq(cut, 1, n - 1) \in Seq(Message) /\ Len(SubSeq(cut, 1, n - 1)) = n - 1
      /\ \A i \in 1 .. n - 1 : SubSeq(cut, 1, n - 1)[i] = cut[i]
  BY <1>1, <1>5
<1>9. SubSeq(cut, n, n) \in Seq(Message) /\ Len(SubSeq(cut, n, n)) = 1 /\ SubSeq(cut, n, n)[1] = cut[n]
  BY <1>1, <1>5
<1>10. <<note>> \in Seq(Message) /\ Len(<<note>>) = 1 /\ <<note>>[1] = note
  BY <1>2
<1> DEFINE ab == SubSeq(cut, 1, n - 1) \o <<note>>
<1>11. ab \in Seq(Message) /\ Len(ab) = n /\ (\A i \in 1 .. n - 1 : ab[i] = cut[i]) /\ ab[n] = note
  BY <1>1, <1>8, <1>10
<1>12. Compacted(ms, form) = ab \o b
  BY <1>7
<1>13. (\A i \in 1 .. n : (ab \o b)[i] = ab[i]) /\ (ab \o b)[n + 1] = cut[n]
  <2> HIDE DEF ab
  <2> QED  BY <1>1, <1>9, <1>11
<1> HIDE DEF ab, b, n
<1>14. \A i \in 1 .. n - 1 : (ab \o b)[i] = cut[i]
  BY <1>1, <1>11, <1>13
<1>15. /\ \A i \in 1 .. n - 1 : (ab \o b)[i].uses = ms[i].uses /\ (ab \o b)[i].results = ms[i].results
       /\ (ab \o b)[n].uses = <<>>
       /\ (ab \o b)[n + 1].uses = ms[n].uses /\ (ab \o b)[n + 1].results = ms[n].results
  BY <1>1, <1>2, <1>3, <1>11, <1>13, <1>14
<1>16. \A i \in 1 .. n : ms[i].kind # "results" \/ i > n - KeepRecent
                         => (ab \o b)[IF i = n THEN n + 1 ELSE i] = ms[i]
  <2> TAKE i \in 1 .. n
  <2>1. CASE i = n
    <3>1. n > n - KeepRecent \/ ms[n].kind # "results" => cut[n] = ms[n]
      BY <1>1, <1>4
    <3> QED  BY <1>13, <2>1, <3>1
  <2>2. CASE i # n
    <3>1. i \in 1 .. n - 1
      BY <1>1, <2>2
    <3> QED  BY <1>4, <1>14, <2>2, <3>1
  <2> QED  BY <2>1, <2>2
<1>17. (\A i \in 1 .. n - 1 : SaysTheSame(ms[i], (ab \o b)[i])) /\ SaysTheSame(ms[n], (ab \o b)[n + 1])
  <2>1. ASSUME NEW i \in 1 .. n - 1 PROVE SaysTheSame(ms[i], (ab \o b)[i])
    <3>1. n \in Nat /\ i \in 1 .. n
      BY <1>1
    <3>2. (ab \o b)[i] = cut[i]
      BY <1>14
    <3> QED  BY <1>6, <3>1, <3>2
  <2>2. n \in 1 .. n /\ (ab \o b)[n + 1] = cut[n]
    BY <1>1, <1>13
  <2>3. SaysTheSame(ms[n], cut[n])
    BY <1>6, <2>2
  <2> QED  BY <2>1, <2>2, <2>3
<1> QED  BY <1>12, <1>15, <1>16, <1>17 DEF n

\* Compaction leaves calls answered, with its own note in between perhaps.
LEMMA CompactedAnswered ==
  ASSUME NEW ms \in Seq(Message), ms # <<>>, NEW form \in Forms, KeepRecent \in Nat, AllAnswered(ms)
  PROVE  AllAnswered(Compacted(ms, form))
<1> DEFINE ns == Compacted(ms, form)
           n == Len(ms)
<1>1. n \in Nat \ {0}
  OBVIOUS
<1>2. /\ Len(ns) = n + 1
      /\ \A i \in 1 .. n - 1 : ns[i].kind = ms[i].kind
      /\ ns[n].kind = "compaction" /\ ns[n + 1].kind = ms[n].kind
  BY CompactedKinds
<1>3. /\ \A i \in 1 .. n - 1 : ns[i].uses = ms[i].uses /\ ns[i].results = ms[i].results
      /\ ns[n].uses = <<>>
      /\ ns[n + 1].uses = ms[n].uses /\ ns[n + 1].results = ms[n].results
  BY CompactedFields
<1>4. \A i \in 1 .. n : ms[i].uses # <<>> => AnsweredAt(ms, i)
  BY DEF AllAnswered
<1>5. ~AnsweredAt(ms, n)
  BY <1>1 DEF AnsweredAt
<1>6. ASSUME NEW i \in 1 .. n - 1, ns[i].uses # <<>> PROVE AnsweredAt(ns, i)
  <2>1. PICK j \in i + 1 .. n :
          /\ \A k \in i + 1 .. j - 1 : ms[k].kind = "compaction"
          /\ ms[j].kind = "fault" \/ Answers(ms[j], ms[i].uses)
    BY <1>1, <1>3, <1>4, <1>6 DEF AnsweredAt
  <2> HIDE DEF ns, n
  <2>2. CASE j < n
    <3>1. j \in i + 1 .. Len(ns) /\ ns[j].kind = ms[j].kind /\ ns[j].results = ms[j].results
          /\ ns[i].uses = ms[i].uses
      BY <1>1, <1>2, <1>3, <2>1, <2>2
    <3>2. \A k \in i + 1 .. j - 1 : ns[k].kind = "compaction"
      BY <1>1, <1>2, <2>1, <2>2
    <3> QED  BY <2>1, <3>1, <3>2 DEF AnsweredAt, Answers
  <2>3. CASE j = n
    <3>1. n + 1 \in i + 1 .. Len(ns) /\ ns[n + 1].kind = ms[j].kind /\ ns[n + 1].results = ms[j].results
          /\ ns[i].uses = ms[i].uses
      BY <1>1, <1>2, <1>3, <2>1, <2>3
    <3>2. \A k \in i + 1 .. (n + 1) - 1 : ns[k].kind = "compaction"
      BY <1>1, <1>2, <2>1, <2>3
    <3> QED  BY <2>1, <3>1, <3>2 DEF AnsweredAt, Answers
  <2> QED  BY <1>1, <2>1, <2>2, <2>3
<1>7. ns[n].uses = <<>> /\ ns[n + 1].uses = <<>>
  BY <1>1, <1>3, <1>4, <1>5
<1> HIDE DEF ns, n
<1>8. AllAnswered(ns)
  BY <1>1, <1>2, <1>6, <1>7 DEF AllAnswered
<1> QED  BY <1>8 DEF ns

-----------------------------------------------------------------------------
(* The steps.                                                              *)

LEMMA SayFields ==
  ASSUME NEW kind \in Kinds
  PROVE  Say(kind) \in Message /\ Say(kind).kind = kind /\ Say(kind).uses = <<>>
BY SayMessage DEF Say

LEMMA PromptsTyped == \A n \in 1 .. MaxSteps : Head(Prompts(n)) \in {"step", "synthesis"}
<1> TAKE n \in 1 .. MaxSteps
<1>1. n \in Nat /\ 1 <= n
  BY BoundsAssumption
<1>2. Prompts(n) \in [1 .. n + 1 -> {"step", "synthesis"}]
  BY <1>1 DEF Prompts
<1>3. Prompts(n) \in Seq({"step", "synthesis"}) /\ Len(Prompts(n)) = n + 1
  BY <1>1, <1>2
<1> QED  BY <1>1, <1>3

\* A run that returns with every call answered and the assistant's word.
LEMMA ReturnConv ==
  ASSUME IInv, NEW ms \in Seq(Message), AllAnswered(ms), Spoke(ms), RunReturns(ms)
  PROVE  Calls' /\ Ends'
<1>1. CASE NextPrompt(ms)
  <2>1. Head(todo) \in {"step", "synthesis"}
    BY <1>1 DEF NextPrompt, IInv, LoopInv, LoopTypeOK
  <2>2. Say(Head(todo)) \in Message /\ Say(Head(todo)).uses = <<>>
    BY <2>1, SayFields DEF Kinds
  <2>3. AllAnswered(Append(ms, Say(Head(todo))))
    BY <2>2, AppendAnswered
  <2> QED  BY <1>1, <2>3 DEF NextPrompt, Calls, Ends
<1>2. CASE LastRun(ms, Rounds)
  BY <1>2 DEF LastRun, Calls, Ends
<1> QED  BY <1>1, <1>2 DEF RunReturns

\* The same for a run that returns after appending a note.
LEMMA NoteConv ==
  ASSUME IInv, AllAnswered(msgs), NEW m \in Message, m.kind \in Notes, m.uses = <<>>,
         RunReturns(Append(msgs, m))
  PROVE  Calls' /\ Ends'
<1> DEFINE ms == Append(msgs, m)
<1>1. msgs \in Seq(Message) /\ m.kind \in AssistantKinds
  BY DEF IInv, LoopInv, LoopTypeOK, AssistantKinds
<1>2. ms \in Seq(Message) /\ AllAnswered(ms)
  BY <1>1, AppendAnswered
<1>3. Spoke(ms)
  BY <1>1, Grown DEF Spoke
<1> HIDE DEF ms
<1>4. RunReturns(ms)
  BY DEF ms
<1> QED  BY <1>2, <1>3, <1>4, ReturnConv

LEMMA WrapperConv ==
  ASSUME ConvInv,
         (\E m \in Modes : Submit(m)) \/ CriticSatisfied \/ CriticObjects \/ NoPlan \/ Plan
           \/ SideRequestFails \/ SideRequestThrows
  PROVE  Calls' /\ Ends'
<1>1. pc \in {"idle", "critic", "planner"} /\ AllAnswered(msgs) /\ msgs \in Seq(Message)
  BY DEF Submit, CriticSatisfied, CriticObjects, NoPlan, Plan, SideRequestFails, SideRequestThrows,
         ConvInv, Calls, IInv, LoopInv, LoopTypeOK
<1>2. ASSUME NEW m \in Modes, Submit(m) PROVE Calls' /\ Ends'
  <2>1. AllAnswered(msgs') /\ msgs' # <<>> /\ msgs'[Len(msgs')].kind = "user"
    BY <1>1, <1>2, SayFields, AppendAnswered, Grown DEF Submit, Kinds
  <2> QED  BY <1>2, <2>1 DEF Submit, Calls, Ends, Unplanned
<1>3. CASE CriticObjects
  <2>1. AllAnswered(msgs')
    BY <1>1, <1>3, SayFields, AppendAnswered DEF CriticObjects, Kinds
  <2> QED  BY <1>3, <2>1 DEF CriticObjects, Calls, Ends
<1>4. CASE Plan
  <2>1. PICK n \in 1 .. MaxSteps : msgs' = msgs \o <<Say("plan"), Say(Head(Prompts(n)))>>
    BY <1>4 DEF Plan
  <2>2. Head(Prompts(n)) \in {"step", "synthesis"}
    BY <2>1, PromptsTyped
  <2> DEFINE one == Append(msgs, Say("plan"))
  <2>3. Say("plan") \in Message /\ Say("plan").uses = <<>>
    BY SayFields DEF Kinds, AssistantKinds
  <2>4. Say(Head(Prompts(n))) \in Message /\ Say(Head(Prompts(n))).uses = <<>>
    BY <2>2, SayFields DEF Kinds
  <2>5. msgs' = Append(one, Say(Head(Prompts(n))))
    BY <1>1, <2>1, <2>3, <2>4
  <2>6. one \in Seq(Message) /\ AllAnswered(one)
    BY <1>1, <2>3, AppendAnswered
  <2> HIDE DEF one
  <2>7. AllAnswered(msgs')
    BY <2>4, <2>5, <2>6, AppendAnswered
  <2> QED  BY <1>4, <2>7 DEF Plan, Calls, Ends
<1>5. CASE CriticSatisfied \/ NoPlan \/ SideRequestFails \/ SideRequestThrows
  <2>1. msgs' = msgs /\ mode' = mode /\ pc' \in {"idle", "top", "crashed"}
    BY <1>5 DEF CriticSatisfied, NoPlan, SideRequestFails, SideRequestThrows
  <2>2. pc' = "idle" => Spoke(msgs) \/ Unplanned
    BY <1>5 DEF CriticSatisfied, NoPlan, SideRequestFails, SideRequestThrows, ConvInv, Ends
  <2> QED  BY <1>1, <2>1, <2>2 DEF Calls, Ends, Unplanned
<1> QED  BY <1>2, <1>3, <1>4, <1>5

LEMMA RequestConv ==
  ASSUME ConvInv,
         ReachLimit \/ NoticeCancel \/ AskModel \/ RequestFails
           \/ (\E r \in Responses : Answered(r) \/ CallsTools(r))
  PROVE  Calls' /\ Ends'
<1>1. pc \in {"top", "sending"} /\ AllAnswered(msgs) /\ msgs \in Seq(Message) /\ IInv
  BY DEF ReachLimit, NoticeCancel, AskModel, RequestFails, Answered, CallsTools, ConvInv, Calls, IInv,
         LoopInv, LoopTypeOK
<1>2. CASE ReachLimit
  <2>1. Say("limit") \in Message /\ Say("limit").kind = "limit" /\ Say("limit").uses = <<>>
    BY SayFields DEF Kinds, AssistantKinds, Notes
  <2> QED  BY <1>1, <1>2, <2>1, NoteConv DEF ReachLimit, Notes
<1>3. CASE NoticeCancel
  <2>1. Say("cancelled") \in Message /\ Say("cancelled").kind = "cancelled" /\ Say("cancelled").uses = <<>>
    BY SayFields DEF Kinds, AssistantKinds, Notes
  <2> QED  BY <1>1, <1>3, <2>1, NoteConv DEF NoticeCancel, Notes
<1>4. CASE RequestFails
  BY <1>1, <1>4, FailureNoted, NoteConv
<1>5. CASE AskModel
  <2>1. ASSUME NEW form \in Forms, MayCompact(msgs) PROVE AllAnswered(Compacted(msgs, form))
    <3>1. KeepRecent \in Nat /\ msgs # <<>>
      BY <1>1, <2>1, BoundsAssumption DEF MayCompact
    <3> QED  BY <1>1, <3>1, CompactedAnswered
  <2>2. AllAnswered(msgs')
    BY <1>1, <1>5, <2>1 DEF AskModel
  <2> QED  BY <1>5, <2>2 DEF AskModel, Calls, Ends
<1>6. ASSUME NEW r \in Responses, Answered(r) PROVE Calls' /\ Ends'
  <2> DEFINE ms == Append(msgs, ReplyMessage(r))
  <2>1. ReplyMessage(r) \in Message /\ ReplyMessage(r).kind = "reply"
    BY <1>1, ReplyTyped, ResponsesAssumption
  <2>2. ReplyMessage(r).uses = <<>>
    <3>1. r = <<>> /\ DOMAIN r = {}
      BY <1>6 DEF Answered
    <3> QED  BY <3>1 DEF ReplyMessage
  <2>3. ms \in Seq(Message) /\ AllAnswered(ms) /\ Spoke(ms)
    BY <1>1, <2>1, <2>2, AppendAnswered, Grown DEF Spoke, AssistantKinds
  <2>4. RunReturns(ms)
    BY <1>6 DEF Answered
  <2> HIDE DEF ms
  <2> QED  BY <1>1, <2>3, <2>4, ReturnConv
<1>7. ASSUME NEW r \in Responses, CallsTools(r) PROVE Calls' /\ Ends'
  <2>1. ReplyMessage(r) \in Message
    BY <1>1, ReplyTyped, ResponsesAssumption
  <2>2. /\ msgs' = Append(msgs, ReplyMessage(r)) /\ queue' = ReplyMessage(r).uses /\ pc' = "batch"
    BY <1>7 DEF CallsTools, Begin
  <2>3. AllButLast(msgs') /\ msgs' # <<>> /\ msgs'[Len(msgs')] = ReplyMessage(r)
    BY <1>1, <2>1, <2>2, AppendAnswered, Grown
  <2> QED  BY <2>2, <2>3 DEF Calls, Ends
<1> QED  BY <1>2, <1>3, <1>4, <1>5, <1>6, <1>7

LEMMA BatchConv ==
  ASSUME ConvInv, RunBatch \/ BatchReturns \/ BatchThrows
  PROVE  Calls' /\ Ends'
<1>1. /\ pc = "batch" /\ msgs \in Seq(Message) /\ IInv /\ ExecInv
      /\ msgs # <<>> /\ msgs[Len(msgs)].uses = queue /\ AllButLast(msgs)
  BY DEF RunBatch, BatchReturns, BatchThrows, ConvInv, Calls, IInv, LoopInv, LoopTypeOK
<1>2. CASE RunBatch
  <2>1. queue' = queue /\ UNCHANGED loopVars
    BY <1>2 DEF RunBatch, ExecStep, Skip, Ask, Execute, Allow, Deny, Succeed, Fail, Throw
  <2> QED  BY <1>1, <2>1 DEF loopVars, Calls, Ends
<1>3. CASE BatchReturns
  <2>1. PICK form \in {"whole", "torn"} :
          msgs' = msgs \o IF mode = "reflection" THEN <<ResultsMessage(form), Say("selfcheck")>>
                                                 ELSE <<ResultsMessage(form)>>
    BY <1>3 DEF BatchReturns
  <2> DEFINE m == ResultsMessage(form)
             one == Append(msgs, m)
             two == Append(one, Say("selfcheck"))
  <2>2. m \in Message /\ m.kind = "results" /\ m.uses = <<>> /\ m.results = results
    <3>1. results \in Seq(Results) /\ <<>> \in Seq(Uses)
      BY <1>1 DEF ExecInv, ExecTypeOK
    <3> QED  BY <3>1 DEF ResultsMessage, Message, Kinds, Forms
  <2>3. queue = [k \in DOMAIN results |-> results[k].use]
    <3>1. results \in Seq(Results) /\ queue \in Seq(Uses)
      BY <1>1 DEF ExecInv, ExecTypeOK
    <3>2. Len(results) = Len(queue) /\ \A k \in DOMAIN results : results[k].use = queue[k]
      BY <1>1, <1>3 DEF BatchReturns, ExecInv, AnswersInOrder
    <3>3. DOMAIN results = DOMAIN queue /\ queue = [k \in DOMAIN queue |-> queue[k]]
      BY <3>1, <3>2
    <3> QED  BY <3>2, <3>3
  <2>4. Say("selfcheck") \in Message /\ Say("selfcheck").uses = <<>>
    BY SayFields DEF Kinds
  <2>5. Answers(m, msgs[Len(msgs)].uses)
    BY <1>1, <2>2, <2>3 DEF Answers
  <2> HIDE DEF m
  <2>6. msgs' \in {one, two}
    <3>1. msgs' = msgs \o <<m, Say("selfcheck")>> \/ msgs' = msgs \o <<m>>
      BY <2>1 DEF m
    <3>2. msgs \o <<m>> = one
      BY <1>1, <2>2
    <3>3. msgs \o <<m, Say("selfcheck")>> = two
      BY <1>1, <2>2, <2>4
    <3> QED  BY <3>1, <3>2, <3>3
  <2>7. one \in Seq(Message) /\ AllAnswered(one)
    BY <1>1, <2>2, <2>5, AnswerAppended
  <2> HIDE DEF one
  <2>8. AllAnswered(two)
    BY <2>4, <2>7, AppendAnswered
  <2>9. AllAnswered(msgs')
    BY <2>6, <2>7, <2>8
  <2> QED  BY <1>3, <2>9 DEF BatchReturns, Calls, Ends
<1>4. CASE BatchThrows
  <2> DEFINE ms == Append(msgs, Say("fault"))
  <2>1. Say("fault") \in Message /\ Say("fault").kind = "fault" /\ Say("fault").uses = <<>>
    BY SayFields DEF Kinds, AssistantKinds, Notes
  <2>2. ms \in Seq(Message) /\ AllAnswered(ms)
    BY <1>1, <2>1, AnswerAppended
  <2>3. Spoke(ms)
    BY <1>1, <2>1, Grown DEF Spoke, AssistantKinds, Notes
  <2>4. RunReturns(ms)
    BY <1>4 DEF BatchThrows
  <2> HIDE DEF ms
  <2> QED  BY <1>1, <2>2, <2>3, <2>4, ReturnConv
<1> QED  BY <1>2, <1>3, <1>4

-----------------------------------------------------------------------------
(* Results the model has not been shown, and how far from the end they are. *)

\* The results after position s that no note of cancellation follows.
Fresh(ms, s) ==
  {i \in s + 1 .. Len(ms) : /\ ms[i].kind = "results"
                            /\ \A k \in i + 1 .. Len(ms) : ms[k].kind # "cancelled"}
Near(ms, s, d) == \A i \in Fresh(ms, s) : Len(ms) - i <= d

\* The limit's note, the next prompt or the user's next message may still come before the
\* request that shows them.
Timely ==
  ~Torn(msgs) =>
    /\ pc \in {"sending", "batch"} => Fresh(msgs, sent) = {}
    /\ pc = "top" => Near(msgs, sent, IF iter < MaxIterations THEN 3 ELSE 1)
    /\ pc \in {"idle", "critic"} => Near(msgs, sent, 2)
    /\ Fresh(msgs, sent) # {} => MaxIterations > 0

LEMMA FreshAppended ==
  ASSUME NEW ms \in Seq(Message), NEW m \in Message, NEW s \in Nat
  PROVE  /\ Torn(ms) => Torn(Append(ms, m))
         /\ m.kind # "results" => Fresh(Append(ms, m), s) \subseteq Fresh(ms, s)
         /\ m.kind = "cancelled" => Fresh(Append(ms, m), s) = {}
         /\ m.kind = "results" => Fresh(Append(ms, m), s) \subseteq Fresh(ms, s) \union {Len(ms) + 1}
         /\ \A d \in Nat : m.kind # "results" /\ Near(ms, s, d) => Near(Append(ms, m), s, d + 1)
<1> DEFINE ns == Append(ms, m)
           n == Len(ms)
<1>1. /\ n \in Nat /\ Len(ns) = n + 1 /\ ns[n + 1] = m /\ (\A k \in 1 .. n : ns[k] = ms[k])
      /\ DOMAIN ms = 1 .. n /\ DOMAIN ns = 1 .. n + 1
  BY Grown
<1> HIDE DEF ns
<1>2. Torn(ms) => Torn(ns)
  BY <1>1 DEF Torn
<1> HIDE DEF n
<1>3. ASSUME NEW i \in Fresh(ns, s), i # n + 1 PROVE i \in Fresh(ms, s) /\ m.kind # "cancelled"
  <2>1. /\ i \in s + 1 .. n + 1 /\ ns[i].kind = "results"
        /\ \A k \in i + 1 .. n + 1 : ns[k].kind # "cancelled"
    BY <1>1 DEF Fresh
  <2>2. i \in s + 1 .. n /\ i \in 1 .. n /\ n + 1 \in i + 1 .. n + 1
    BY <1>1, <1>3, <2>1
  <2>3. \A k \in i + 1 .. n : k \in 1 .. n /\ k \in i + 1 .. n + 1
    BY <1>1, <2>2
  <2>4. ms[i].kind = "results" /\ \A k \in i + 1 .. n : ms[k].kind # "cancelled"
    BY <1>1, <2>1, <2>2, <2>3
  <2> QED  BY <1>1, <2>1, <2>2, <2>4 DEF Fresh, n
<1>4. n + 1 \in Fresh(ns, s) => m.kind = "results"
  BY <1>1 DEF Fresh
<1>5. ASSUME NEW d \in Nat, m.kind # "results", Near(ms, s, d) PROVE Near(ns, s, d + 1)
  <2> SUFFICES ASSUME NEW i \in Fresh(ns, s) PROVE Len(ns) - i <= d + 1
    BY DEF Near
  <2>1. i \in Fresh(ms, s)
    BY <1>3, <1>4, <1>5
  <2>2. i \in Int /\ n - i <= d
    BY <1>1, <1>5, <2>1 DEF Near, Fresh, n
  <2> QED  BY <1>1, <2>2
<1>6. m.kind = "cancelled" => m.kind # "results"
  OBVIOUS
<1> QED  BY <1>2, <1>3, <1>4, <1>5, <1>6 DEF ns, n

\* Once a request has gone out nothing is fresh.
LEMMA FreshSent == ASSUME NEW ms \in Seq(Message) PROVE Fresh(ms, Len(ms)) = {}
<1>1. Len(ms) \in Nat
  OBVIOUS
<1> QED  BY <1>1 DEF Fresh

LEMMA ReturnTimely ==
  ASSUME IInv, NEW ms \in Seq(Message), RunReturns(ms), UNCHANGED sent,
         ~Torn(ms) => Near(ms, sent, 2) /\ (Fresh(ms, sent) # {} => MaxIterations > 0)
  PROVE  Timely'
<1>1. sent \in Nat
  BY DEF IInv, LoopInv, LoopTypeOK
<1>2. CASE NextPrompt(ms)
  <2>1. Head(todo) \in {"step", "synthesis"}
    BY <1>2 DEF NextPrompt, IInv, LoopInv, LoopTypeOK
  <2> DEFINE m == Say(Head(todo))
  <2>2. m \in Message /\ m.kind # "results"
    BY <2>1, SayFields DEF Kinds
  <2>3. msgs' = Append(ms, m) /\ pc' = "top" /\ iter' = 0 /\ sent' = sent
    BY <1>2 DEF NextPrompt
  <2> HIDE DEF m
  <2> SUFFICES ASSUME ~Torn(msgs') PROVE Timely'
    BY DEF Timely
  <2>4. ~Torn(ms) /\ Fresh(msgs', sent) \subseteq Fresh(ms, sent) /\ Near(msgs', sent, 3)
    BY <1>1, <2>2, <2>3, FreshAppended
  <2>5. Fresh(msgs', sent) # {} => MaxIterations > 0
    BY <2>4
  <2>6. Near(msgs', sent, IF iter' < MaxIterations THEN 3 ELSE 1)
    BY <2>3, <2>4, <2>5 DEF Near
  <2> QED  BY <2>3, <2>5, <2>6 DEF Timely
<1>3. CASE LastRun(ms, Rounds)
  <2>1. msgs' = ms /\ pc' \in {"critic", "idle"} /\ sent' = sent
    BY <1>3 DEF LastRun
  <2> QED  BY <2>1 DEF Timely
<1> QED  BY <1>2, <1>3 DEF RunReturns

\* A run that returns with a note, when nothing was fresh but as far as given.
LEMMA NoteTimely ==
  ASSUME IInv, NEW m \in Message, m.kind # "results", RunReturns(Append(msgs, m)), UNCHANGED sent,
         ~Torn(msgs) => /\ Near(msgs, sent, 1) \/ m.kind = "cancelled"
                        /\ Fresh(msgs, sent) # {} => MaxIterations > 0
  PROVE  Timely'
<1> DEFINE ms == Append(msgs, m)
<1>1. msgs \in Seq(Message) /\ sent \in Nat
  BY DEF IInv, LoopInv, LoopTypeOK
<1>2. ms \in Seq(Message)
  BY <1>1, Grown
<1>3. ~Torn(ms) => Near(ms, sent, 2) /\ (Fresh(ms, sent) # {} => MaxIterations > 0)
  BY <1>1, FreshAppended DEF Near
<1> HIDE DEF ms
<1>4. RunReturns(ms)
  BY DEF ms
<1> QED  BY <1>2, <1>3, <1>4, ReturnTimely

LEMMA WrapperTimely ==
  ASSUME IInv, Timely,
         (\E m \in Modes : Submit(m)) \/ CriticSatisfied \/ CriticObjects \/ NoPlan \/ Plan
           \/ SideRequestFails \/ SideRequestThrows
  PROVE  Timely'
<1>1. msgs \in Seq(Message) /\ sent \in Nat /\ Len(msgs) \in Nat
  BY DEF IInv, LoopInv, LoopTypeOK
<1>2. ASSUME NEW m \in Modes, Submit(m) PROVE Timely'
  <2>1. Say("user") \in Message /\ Say("user").kind # "results"
    BY SayFields DEF Kinds
  <2>2. /\ pc = "idle" /\ pc' \in {"planner", "top"} /\ iter' = 0 /\ sent' = sent
        /\ msgs' = Append(msgs, Say("user"))
    BY <1>2 DEF Submit
  <2> SUFFICES ASSUME ~Torn(msgs') PROVE Timely'
    BY DEF Timely
  <2>3. ~Torn(msgs) /\ Fresh(msgs', sent) \subseteq Fresh(msgs, sent)
    BY <1>1, <2>1, <2>2, FreshAppended
  <2>4. Near(msgs', sent, 3)
    BY <1>1, <2>1, <2>2, <2>3, FreshAppended DEF Timely
  <2>5. Fresh(msgs', sent) # {} => MaxIterations > 0
    BY <2>2, <2>3 DEF Timely
  <2>6. Near(msgs', sent, IF iter' < MaxIterations THEN 3 ELSE 1)
    BY <2>2, <2>4, <2>5 DEF Near
  <2> QED  BY <2>2, <2>5, <2>6 DEF Timely
<1>3. CASE CriticObjects
  <2>1. Say("critique") \in Message /\ Say("critique").kind # "results"
    BY SayFields DEF Kinds
  <2>2. msgs' = Append(msgs, Say("critique")) /\ sent' = Len(msgs)
    BY <1>3 DEF CriticObjects, Send
  <2>3. Fresh(msgs', sent') = {}
    BY <1>1, <2>1, <2>2, FreshAppended, FreshSent
  <2> QED  BY <2>3 DEF Timely, Near
<1>4. CASE Plan
  <2>1. PICK n \in 1 .. MaxSteps : msgs' = msgs \o <<Say("plan"), Say(Head(Prompts(n)))>>
    BY <1>4 DEF Plan
  <2>2. Head(Prompts(n)) \in {"step", "synthesis"}
    BY <2>1, PromptsTyped
  <2> DEFINE one == Append(msgs, Say("plan"))
  <2>3. Say("plan") \in Message /\ Say("plan").kind # "results"
    BY SayFields DEF Kinds, AssistantKinds
  <2>4. Say(Head(Prompts(n))) \in Message /\ Say(Head(Prompts(n))).kind # "results"
    BY <2>2, SayFields DEF Kinds
  <2>5. msgs' = Append(one, Say(Head(Prompts(n)))) /\ sent' = Len(msgs)
    BY <1>1, <1>4, <2>1, <2>3, <2>4 DEF Plan, Send
  <2>6. one \in Seq(Message) /\ Fresh(one, Len(msgs)) = {}
    BY <1>1, <2>3, FreshAppended, FreshSent, Grown
  <2> HIDE DEF one
  <2>7. Fresh(msgs', sent') = {}
    BY <1>1, <2>4, <2>5, <2>6, FreshAppended
  <2> QED  BY <2>7 DEF Timely, Near
<1>5. CASE CriticSatisfied \/ NoPlan \/ SideRequestFails
  <2>1. Fresh(msgs', sent') = {}
    BY <1>1, <1>5, FreshSent DEF CriticSatisfied, NoPlan, SideRequestFails, Send
  <2> QED  BY <2>1 DEF Timely, Near
<1>6. CASE SideRequestThrows
  BY <1>6 DEF SideRequestThrows, Timely
<1> QED  BY <1>2, <1>3, <1>4, <1>5, <1>6

LEMMA RequestTimely ==
  ASSUME IInv, Timely,
         ReachLimit \/ NoticeCancel \/ AskModel \/ RequestFails
           \/ (\E r \in Responses : Answered(r) \/ CallsTools(r))
  PROVE  Timely'
<1>1. msgs \in Seq(Message) /\ sent \in Nat /\ Len(msgs) \in Nat
  BY DEF IInv, LoopInv, LoopTypeOK
<1>2. \A kind \in Notes : Say(kind) \in Message /\ Say(kind).kind = kind /\ kind # "results"
  BY SayFields DEF Kinds, AssistantKinds, Notes
<1>3. CASE ReachLimit
  <2>1. RunReturns(Append(msgs, Say("limit"))) /\ UNCHANGED sent /\ pc = "top" /\ ~(iter < MaxIterations)
    BY <1>3, BoundsAssumption DEF ReachLimit, IInv, LoopInv, LoopTypeOK
  <2> QED  BY <1>2, <2>1, NoteTimely DEF Notes, Timely
<1>4. CASE NoticeCancel
  <2>1. RunReturns(Append(msgs, Say("cancelled"))) /\ UNCHANGED sent
    BY <1>4 DEF NoticeCancel
  <2>2. iter < MaxIterations /\ MaxIterations \in Nat /\ iter \in Nat
    BY <1>4, BoundsAssumption DEF NoticeCancel, IInv, LoopInv, LoopTypeOK
  <2> QED  BY <1>2, <2>1, <2>2, NoteTimely DEF Notes
<1>5. CASE RequestFails
  <2>1. PICK m \in Message : m.kind \in Notes /\ RunReturns(Append(msgs, m))
    BY <1>5, FailureNoted
  <2>2. UNCHANGED sent /\ m.kind # "results" /\ (~Torn(msgs) => Fresh(msgs, sent) = {})
    BY <1>5, <2>1 DEF RequestFails, Timely, Notes
  <2> QED  BY <2>1, <2>2, NoteTimely DEF Near
<1>6. CASE AskModel
  <2>1. msgs' \in Seq(Message)
    BY <1>6, NextInv DEF IInv, LoopInv, LoopTypeOK, Next
  <2>2. ~Torn(msgs') => sent' = Len(msgs')
    BY <1>6 DEF AskModel, Send
  <2>3. ~Torn(msgs') => Fresh(msgs', sent') = {}
    BY <2>1, <2>2, FreshSent
  <2> QED  BY <2>3 DEF Timely, Near
<1>7. ASSUME NEW r \in Responses, Answered(r) \/ CallsTools(r) PROVE Timely'
  <2> DEFINE m == ReplyMessage(r)
  <2>1. m \in Message /\ m.kind = "reply" /\ m.kind # "results"
    BY <1>1, ReplyTyped, ResponsesAssumption
  <2>2. ~Torn(msgs) /\ pc = "sending" /\ UNCHANGED sent
    BY <1>7 DEF Answered, CallsTools
  <2>3. Fresh(msgs, sent) = {}
    BY <2>2 DEF Timely
  <2>4. CASE Answered(r)
    <3>1. RunReturns(Append(msgs, m))
      BY <2>4 DEF Answered
    <3> HIDE DEF m
    <3> QED  BY <2>1, <2>2, <2>3, <3>1, NoteTimely DEF Near
  <2>5. CASE CallsTools(r)
    <3>1. msgs' = Append(msgs, m)
      BY <2>5 DEF CallsTools
    <3> HIDE DEF m
    <3>2. Fresh(msgs', sent') = {}
      BY <1>1, <2>1, <2>2, <2>3, <3>1, FreshAppended
    <3> QED  BY <3>2 DEF Timely, Near
  <2> QED  BY <1>7, <2>4, <2>5
<1> QED  BY <1>3, <1>4, <1>5, <1>6, <1>7

LEMMA BatchTimely ==
  ASSUME IInv, Timely, RunBatch \/ BatchReturns \/ BatchThrows
  PROVE  Timely'
<1>1. msgs \in Seq(Message) /\ sent \in Nat /\ Len(msgs) \in Nat /\ pc = "batch" /\ ExecInv
  BY DEF RunBatch, BatchReturns, BatchThrows, IInv, LoopInv, LoopTypeOK
<1>2. iter \in Nat /\ iter < MaxIterations /\ MaxIterations \in Nat
  BY <1>1, BoundsAssumption DEF IInv, LoopInv, LoopTypeOK, InPlace
<1>3. ~Torn(msgs) => Fresh(msgs, sent) = {}
  BY <1>1 DEF Timely
<1>4. CASE RunBatch
  BY <1>4 DEF RunBatch, loopVars, Timely
<1>5. CASE BatchReturns
  <2>1. PICK form \in {"whole", "torn"} :
          msgs' = msgs \o IF mode = "reflection" THEN <<ResultsMessage(form), Say("selfcheck")>>
                                                 ELSE <<ResultsMessage(form)>>
    BY <1>5 DEF BatchReturns
  <2> DEFINE m == ResultsMessage(form)
             one == Append(msgs, m)
             two == Append(one, Say("selfcheck"))
  <2>2. m \in Message /\ m.kind = "results"
    <3>1. results \in Seq(Results) /\ <<>> \in Seq(Uses)
      BY <1>1 DEF ExecInv, ExecTypeOK
    <3> QED  BY <3>1 DEF ResultsMessage, Message, Kinds, Forms
  <2>3. Say("selfcheck") \in Message /\ Say("selfcheck").kind # "results"
    BY SayFields DEF Kinds
  <2> HIDE DEF m
  <2>4. msgs' \in {one, two}
    <3>1. msgs' = msgs \o <<m, Say("selfcheck")>> \/ msgs' = msgs \o <<m>>
      BY <2>1 DEF m
    <3>2. msgs \o <<m>> = one
      BY <1>1, <2>2
    <3>3. msgs \o <<m, Say("selfcheck")>> = two
      BY <1>1, <2>2, <2>3
    <3> QED  BY <3>1, <3>2, <3>3
  <2>5. /\ one \in Seq(Message) /\ Len(one) = Len(msgs) + 1
        /\ ~Torn(one) => Fresh(one, sent) \subseteq {Len(one)}
    BY <1>1, <1>3, <2>2, FreshAppended, Grown
  <2> HIDE DEF one
  <2>6. ~Torn(one) => Near(one, sent, 0)
    BY <1>1, <2>5 DEF Near
  <2>7. ~Torn(two) => ~Torn(one) /\ Near(two, sent, 1)
    <3>1. Torn(one) => Torn(two)
      BY <1>1, <2>3, <2>5, FreshAppended
    <3>2. \A d \in Nat : Near(one, sent, d) => Near(two, sent, d + 1)
      BY <1>1, <2>3, <2>5, FreshAppended
    <3>3. Near(one, sent, 0) => Near(two, sent, 0 + 1)
      <4> HIDE DEF two
      <4> QED  BY <3>2
    <3> QED  BY <2>6, <3>1, <3>3
  <2>8. Near(one, sent, 0) => Near(one, sent, 1)
    BY <1>1, <2>5 DEF Near, Fresh
  <2>9. ~Torn(msgs') => Near(msgs', sent, 1)
    <3> HIDE DEF two, Near, Torn
    <3>1. CASE msgs' = one
      BY <2>6, <2>8, <3>1
    <3>2. CASE msgs' = two
      BY <2>7, <3>2
    <3> QED  BY <2>4, <3>1, <3>2
  <2>10. msgs' \in Seq(Message) /\ Len(msgs') \in Nat
    BY <2>3, <2>4, <2>5, Grown
  <2>11. Near(msgs', sent, 1) => Near(msgs', sent, 3)
    BY <1>1, <2>10 DEF Near, Fresh
  <2>12. pc' = "top" /\ sent' = sent
    BY <1>5 DEF BatchReturns
  <2> QED  BY <1>2, <2>9, <2>11, <2>12 DEF Timely
<1>6. CASE BatchThrows
  <2>1. Say("fault") \in Message /\ Say("fault").kind # "results"
    BY SayFields DEF Kinds, AssistantKinds, Notes
  <2>2. RunReturns(Append(msgs, Say("fault"))) /\ UNCHANGED sent
    BY <1>6 DEF BatchThrows
  <2> QED  BY <1>3, <2>1, <2>2, NoteTimely DEF Near
<1> QED  BY <1>4, <1>5, <1>6

\* All but compaction only add to the conversation's end.
KeepsPrefix == Len(msgs) <= Len(msgs') /\ \A i \in 1 .. Len(msgs) : msgs'[i] = msgs[i]

LEMMA ReturnKeeps ==
  ASSUME IInv, NEW m \in Message, RunReturns(Append(msgs, m))
  PROVE  KeepsPrefix
<1> DEFINE ms == Append(msgs, m)
<1>1. /\ ms \in Seq(Message) /\ Len(msgs) \in Nat /\ Len(ms) = Len(msgs) + 1
      /\ \A k \in 1 .. Len(msgs) : ms[k] = msgs[k]
  BY Grown DEF IInv, LoopInv, LoopTypeOK
<1> HIDE DEF ms
<1>2. RunReturns(ms)
  BY DEF ms
<1>3. CASE NextPrompt(ms)
  <2>1. Head(todo) \in {"step", "synthesis"}
    BY <1>3 DEF NextPrompt, IInv, LoopInv, LoopTypeOK
  <2>2. Say(Head(todo)) \in Message /\ msgs' = Append(ms, Say(Head(todo)))
    BY <1>3, <2>1, SayFields DEF NextPrompt, Kinds
  <2> QED  BY <1>1, <2>2, Grown DEF KeepsPrefix
<1>4. CASE LastRun(ms, Rounds)
  BY <1>1, <1>4 DEF LastRun, KeepsPrefix
<1> QED  BY <1>2, <1>3, <1>4 DEF RunReturns

LEMMA StepsKeep ==
  ASSUME IInv, [Next]_vars
  PROVE  \/ KeepsPrefix
         \/ AskModel /\ MayCompact(msgs) /\ \E form \in Forms : msgs' = Compacted(msgs, form)
<1>1. msgs \in Seq(Message) /\ Len(msgs) \in Nat /\ ExecInv
  BY DEF IInv, LoopInv, LoopTypeOK
<1>2. \A kind \in Kinds : Say(kind) \in Message
  BY SayFields
<1>3. CASE msgs' = msgs
  BY <1>1, <1>3 DEF KeepsPrefix
<1>4. ASSUME NEW m \in Message, msgs' = Append(msgs, m) PROVE KeepsPrefix
  BY <1>1, <1>4, Grown DEF KeepsPrefix
<1>5. CASE (\E m \in Modes : Submit(m)) \/ CriticObjects
  BY <1>2, <1>4, <1>5 DEF Submit, CriticObjects, Kinds
<1>6. CASE CriticSatisfied \/ NoPlan \/ SideRequestFails \/ SideRequestThrows \/ RunBatch \/ TripCancel
           \/ UNCHANGED vars
  BY <1>3, <1>6 DEF CriticSatisfied, NoPlan, SideRequestFails, SideRequestThrows, RunBatch, TripCancel,
                    vars, loopVars
<1>7. CASE Plan
  <2>1. PICK n \in 1 .. MaxSteps : msgs' = msgs \o <<Say("plan"), Say(Head(Prompts(n)))>>
    BY <1>7 DEF Plan
  <2>2. Say("plan") \in Message /\ Say(Head(Prompts(n))) \in Message
    BY <1>2, <2>1, PromptsTyped DEF Kinds, AssistantKinds
  <2> QED  BY <1>1, <2>1, <2>2 DEF KeepsPrefix
<1>8. CASE ReachLimit \/ NoticeCancel \/ RequestFails \/ BatchThrows
  <2>1. \A kind \in Notes : Say(kind) \in Message
    BY <1>2 DEF Kinds, AssistantKinds
  <2>2. \E m \in Message : RunReturns(Append(msgs, m))
    BY <1>8, <2>1, FailureNoted DEF ReachLimit, NoticeCancel, BatchThrows, Notes
  <2> QED  BY <2>2, ReturnKeeps
<1>9. ASSUME NEW r \in Responses, Answered(r) \/ CallsTools(r) PROVE KeepsPrefix
  <2>1. ReplyMessage(r) \in Message
    BY <1>1, ReplyTyped, ResponsesAssumption
  <2> QED  BY <1>4, <1>9, <2>1, ReturnKeeps DEF Answered, CallsTools
<1>10. CASE BatchReturns
  <2>1. PICK form \in {"whole", "torn"} :
          msgs' = msgs \o IF mode = "reflection" THEN <<ResultsMessage(form), Say("selfcheck")>>
                                                 ELSE <<ResultsMessage(form)>>
    BY <1>10 DEF BatchReturns
  <2>2. ResultsMessage(form) \in Message /\ Say("selfcheck") \in Message
    <3>1. results \in Seq(Results) /\ <<>> \in Seq(Uses)
      BY <1>1 DEF ExecInv, ExecTypeOK
    <3> QED  BY <1>2, <3>1 DEF ResultsMessage, Message, Kinds, Forms
  <2> QED  BY <1>1, <2>1, <2>2 DEF KeepsPrefix
<1>11. CASE AskModel
  BY <1>3, <1>11 DEF AskModel
<1> QED  BY <1>5, <1>6, <1>7, <1>8, <1>9, <1>10, <1>11 DEF Next

-----------------------------------------------------------------------------
(* The theorems.                                                           *)

\* The invariant of the conversation: outside a batch every call is answered, and where a
\* turn may end the assistant has spoken last.
THEOREM ConversationInvariant == Spec => []ConvInv
<1>1. Init => ConvInv
  <2> SUFFICES ASSUME Init PROVE ConvInv
    OBVIOUS
  <2>1. msgs \in Seq(Message) /\ \A i \in DOMAIN msgs : msgs[i].uses # <<>> => AnsweredAt(msgs, i)
    BY HistoriesAssumption DEF Init
  <2>2. DOMAIN msgs = 1 .. Len(msgs)
    BY <2>1
  <2>3. Calls /\ Ends
    BY <2>1, <2>2 DEF Init, Calls, Ends, AllAnswered
  <2> QED  BY <2>3, InitInv DEF ConvInv
<1>2. ConvInv /\ [Next]_vars => ConvInv'
  <2> SUFFICES ASSUME ConvInv, [Next]_vars PROVE Calls' /\ Ends'
    BY NextInv DEF ConvInv
  <2>1. CASE TripCancel
    BY <2>1 DEF TripCancel, execVars, ConvInv, Calls, Ends, Unplanned
  <2>2. CASE UNCHANGED vars
    BY <2>2 DEF vars, loopVars, execVars, ConvInv, Calls, Ends, Unplanned
  <2> QED  BY <2>1, <2>2, WrapperConv, RequestConv, BatchConv DEF Next
<1> QED  BY <1>1, <1>2, PTL DEF Spec

\* However a batch ends and whatever is compacted, no calls are left without their results
\* or the note of the exception that lost them (query_loop, compactMessages).
THEOREM CallsAreAnswered == Spec => []CallsAnswered
<1>1. ConvInv => CallsAnswered
  <2> SUFFICES ASSUME ConvInv, NEW i \in DOMAIN msgs, msgs[i].uses # <<>>, ~AnsweredAt(msgs, i)
               PROVE  /\ \A j \in i + 1 .. Len(msgs) : msgs[j].kind = "compaction"
                      /\ pc = "batch" /\ queue = msgs[i].uses
    BY DEF CallsAnswered
  <2>1. DOMAIN msgs = 1 .. Len(msgs) /\ Len(msgs) \in Nat
    BY DEF ConvInv, IInv, LoopInv, LoopTypeOK
  <2>2. pc = "batch" /\ msgs[Len(msgs)].uses = queue /\ AllButLast(msgs)
    BY <2>1 DEF ConvInv, Calls, AllAnswered
  <2>3. i = Len(msgs)
    BY <2>1, <2>2 DEF AllButLast
  <2> QED  BY <2>1, <2>2, <2>3
<1> QED  BY <1>1, ConversationInvariant, PTL

\* In every mode and after every failure a turn ends with the assistant's word, unless the
\* planner's request failed.
THEOREM TurnsEndWithAssistant == Spec => []EndsWithAssistant
<1>1. ConvInv => EndsWithAssistant
  BY DEF ConvInv, Ends, Spoke, Unplanned, EndsWithAssistant, Last
<1> QED  BY <1>1, ConversationInvariant, PTL

\* What the model has not been shown is not cut, for any number of submissions, runs and
\* tool batches, as long as compaction spares four messages (the code's kCompactionKeepRecent
\* is six) and the turn is not cancelled before the next request.
THEOREM CutsAreShown ==
  ASSUME KeepRecent >= 4
  PROVE  Spec => CutOnlyAfterShown
<1>1. Init => IInv /\ Timely
  <2> SUFFICES ASSUME Init PROVE Timely
    BY InitInv
  <2>1. msgs \in Seq(Message) /\ sent = Len(msgs)
    BY HistoriesAssumption DEF Init
  <2>2. Fresh(msgs, sent) = {}
    BY <2>1, FreshSent
  <2> QED  BY <2>2 DEF Timely, Near
<1>2. IInv /\ Timely /\ [Next]_vars => (IInv /\ Timely)'
  <2> SUFFICES ASSUME IInv, Timely, [Next]_vars PROVE Timely'
    BY NextInv
  <2>1. CASE TripCancel \/ UNCHANGED vars
    BY <2>1 DEF TripCancel, vars, loopVars, Timely
  <2> QED  BY <2>1, WrapperTimely, RequestTimely, BatchTimely DEF Next
<1>3. IInv /\ Timely /\ [Next]_vars
        => \A i \in sent + 1 .. Len(msgs) :
             (\A k \in i + 1 .. Len(msgs) : msgs[k].kind # "cancelled")
               => \E j \in {i, i + 1} \intersect DOMAIN msgs' : msgs'[j] = msgs[i]
  <2> SUFFICES ASSUME IInv, Timely, [Next]_vars, NEW i \in sent + 1 .. Len(msgs),
                      \A k \in i + 1 .. Len(msgs) : msgs[k].kind # "cancelled"
               PROVE  \E j \in {i, i + 1} \intersect DOMAIN msgs' : msgs'[j] = msgs[i]
    OBVIOUS
  <2>1. /\ msgs \in Seq(Message) /\ msgs' \in Seq(Message) /\ sent \in Nat /\ i \in 1 .. Len(msgs)
        /\ Len(msgs) \in Nat
    BY NextInv DEF IInv, LoopInv, LoopTypeOK
  <2>2. CASE KeepsPrefix
    <3>1. i \in DOMAIN msgs' /\ msgs'[i] = msgs[i]
      BY <2>1, <2>2 DEF KeepsPrefix
    <3> QED  BY <3>1
  <2>3. ASSUME NEW form \in Forms, AskModel, MayCompact(msgs), msgs' = Compacted(msgs, form)
        PROVE  \E j \in {i, i + 1} \intersect DOMAIN msgs' : msgs'[j] = msgs[i]
    <3>1. msgs[i].kind # "results" \/ i > Len(msgs) - KeepRecent
      <4>1. msgs[i].kind = "results" => i \in Fresh(msgs, sent)
        BY <2>1 DEF Fresh
      <4>2. pc = "top" /\ ~Torn(msgs) /\ iter < MaxIterations
        BY <2>3 DEF AskModel, MayCompact
      <4>3. msgs[i].kind = "results" => Len(msgs) - i <= 3
        BY <4>1, <4>2 DEF Timely, Near
      <4> QED  BY <2>1, <4>3, BoundsAssumption
    <3>2. KeepRecent \in Nat /\ msgs # <<>>
      BY <2>1, BoundsAssumption
    <3> DEFINE j == IF i = Len(msgs) THEN Len(msgs) + 1 ELSE i
    <3>3. msgs'[j] = msgs[i]
      BY <2>1, <2>3, <3>1, <3>2, CompactedFields
    <3>4. Len(msgs') = Len(msgs) + 1
      BY <2>1, <2>3, <3>2, CompactedKinds
    <3>5. j \in {i, i + 1} /\ j \in DOMAIN msgs'
      BY <2>1, <3>4
    <3> HIDE DEF j
    <3> QED  BY <3>3, <3>5
  <2> QED  BY <2>2, <2>3, StepsKeep DEF Next
<1> QED  BY <1>1, <1>2, <1>3, PTL DEF Spec, CutOnlyAfterShown

\* Nothing said is lost, changed or moved, over any number of submissions, runs and
\* compactions: each step adds to the end of the conversation, or one note in between.
THEOREM NothingSaidIsLost == Spec => HistoryKept
<1> DEFINE Kept(p, i) == LET j == IF i < p THEN i ELSE i + 1
                         IN  j \in DOMAIN msgs' /\ SaysTheSame(msgs[i], msgs'[j])
<1>1. IInv /\ [Next]_vars
        => \E p \in 1 .. Len(msgs) + 1 :
             /\ \A i \in DOMAIN msgs : Kept(p, i)
             /\ p <= Len(msgs) => msgs'[p].kind = "compaction"
  <2> SUFFICES ASSUME IInv, [Next]_vars
               PROVE  \E p \in 1 .. Len(msgs) + 1 :
                        /\ \A i \in DOMAIN msgs : Kept(p, i)
                        /\ p <= Len(msgs) => msgs'[p].kind = "compaction"
    OBVIOUS
  <2>1. /\ msgs \in Seq(Message) /\ msgs' \in Seq(Message) /\ Len(msgs) \in Nat /\ Len(msgs') \in Nat
        /\ DOMAIN msgs = 1 .. Len(msgs) /\ DOMAIN msgs' = 1 .. Len(msgs')
    BY NextInv DEF IInv, LoopInv, LoopTypeOK
  <2>2. CASE KeepsPrefix
    <3>1. \A i \in DOMAIN msgs : i < Len(msgs) + 1 /\ i \in DOMAIN msgs' /\ msgs'[i] = msgs[i]
      BY <2>1, <2>2 DEF KeepsPrefix
    <3>2. \A i \in DOMAIN msgs : Kept(Len(msgs) + 1, i)
      BY <3>1 DEF SaysTheSame
    <3>3. Len(msgs) + 1 \in 1 .. Len(msgs) + 1 /\ ~(Len(msgs) + 1 <= Len(msgs))
      BY <2>1
    <3> HIDE DEF Kept
    <3> QED  BY <3>2, <3>3
  <2>3. ASSUME NEW form \in Forms, MayCompact(msgs), msgs' = Compacted(msgs, form)
        PROVE  \E p \in 1 .. Len(msgs) + 1 :
                 /\ \A i \in DOMAIN msgs : Kept(p, i)
                 /\ p <= Len(msgs) => msgs'[p].kind = "compaction"
    <3> DEFINE n == Len(msgs)
    <3>1. n \in Nat \ {0} /\ msgs # <<>> /\ KeepRecent \in Nat
      BY <2>1, <2>3, BoundsAssumption DEF MayCompact
    <3>2. DOMAIN msgs' = 1 .. n + 1 /\ msgs'[n].kind = "compaction"
      BY <2>1, <2>3, <3>1, CompactedKinds
    <3>3. (\A i \in 1 .. n - 1 : SaysTheSame(msgs[i], msgs'[i])) /\ SaysTheSame(msgs[n], msgs'[n + 1])
      BY <2>1, <2>3, <3>1, CompactedFields
    <3>4. ASSUME NEW i \in DOMAIN msgs PROVE Kept(n, i)
      <4>1. i \in 1 .. n
        BY <2>1
      <4>2. CASE i < n
        <5>1. i \in 1 .. n - 1 /\ i \in DOMAIN msgs'
          BY <3>1, <3>2, <4>1, <4>2
        <5> QED  BY <3>3, <4>2, <5>1
      <4>3. CASE i = n
        <5>1. n + 1 \in DOMAIN msgs' /\ ~(n < n)
          BY <3>1, <3>2
        <5> QED  BY <3>3, <4>3, <5>1
      <4> QED  BY <3>1, <4>1, <4>2, <4>3
    <3>5. n \in 1 .. n + 1
      BY <3>1
    <3> HIDE DEF Kept
    <3> QED  BY <3>2, <3>4, <3>5
  <2> HIDE DEF Kept
  <2> QED  BY <2>2, <2>3, StepsKeep
<1>2. Spec => []IInv
  BY Invariance
<1> QED  BY <1>1, <1>2, PTL DEF Spec, HistoryKept

=============================================================================
