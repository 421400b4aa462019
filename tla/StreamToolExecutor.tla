------------------------- MODULE StreamToolExecutor -------------------------
(***************************************************************************)
(* src/core/StreamToolExecutor.cpp: the tool calls of one response are     *)
(* executed one after the other, after asking the user where the tool      *)
(* needs permission, and the batch is aborted by the first refusal or      *)
(* failure: every later call is answered "skipped" without running.        *)
(*                                                                         *)
(* AgentLoop::query_loop makes a fresh executor for each response, enqueues *)
(* all its calls and runs it once. The optional allowLookup_ and           *)
(* allowForeverHook_ are left out: nothing under src/ sets them.           *)
(* executor_ is ToolRegistry::invoke, which turns an unknown tool and a    *)
(* ToolError into an error result and lets any other exception through.    *)
(***************************************************************************)
EXTENDS Naturals, Sequences

CONSTANTS
  Tools,           \* the tool names a response may call, known or not
  Gated            \* the tools registered with needsPermission

VARIABLES
  stage,           \* where run() is: "idle" before and after it
  queue,           \* queue_
  at,              \* the position of the call being dealt with
  results,         \* results_, each with the call it answers and its outcome
  aborted,         \* aborted_
  granted,         \* positions the user has allowed
  executed         \* positions handed to executor_

execVars == <<stage, queue, at, results, aborted, granted, executed>>

\* A tool_use block. Its id is abstracted to where the model said it: the length the
\* conversation had then, and the position in the message.
Uses == [tool : Tools, id : Nat \X Nat]
Outcomes == {"ok", "error", "denied", "skipped"}
Failures == {"error", "denied"}
Results == [use : Uses, outcome : Outcomes]

ExecInit ==
  /\ stage = "idle"
  /\ queue = <<>>
  /\ at = 1
  /\ results = <<>>
  /\ aborted = FALSE
  /\ granted = {}
  /\ executed = {}

\* A fresh executor, every call enqueued, run() entered.
Begin(uses) ==
  /\ stage = "idle"
  /\ uses # <<>>
  /\ stage' = "next"
  /\ queue' = uses
  /\ at' = 1
  /\ results' = <<>>
  /\ aborted' = FALSE
  /\ granted' = {}
  /\ executed' = {}

-----------------------------------------------------------------------------
(* The loop of run().                                                      *)

NeedsPermission(i) == queue[i].tool \in Gated
More == stage = "next" /\ at <= Len(queue)
Exhausted == stage = "next" /\ at > Len(queue)

Answer(outcome) == Append(results, [use |-> queue[at], outcome |-> outcome])

\* Mutant: a skipped call is left without a result.
SkipWithoutResult ==
  /\ More /\ aborted
  /\ at' = at + 1
  /\ UNCHANGED <<stage, queue, results, aborted, granted, executed>>

\* After the first failure a call is answered and neither asked about nor run.
Skip ==
  /\ More /\ aborted
  /\ results' = Answer("skipped")
  /\ at' = at + 1
  /\ UNCHANGED <<stage, queue, aborted, granted, executed>>

\* betweenAsksYield_, then asker_.
Ask ==
  /\ More /\ ~aborted
  /\ NeedsPermission(at)
  /\ stage' = "asking"
  /\ UNCHANGED <<queue, at, results, aborted, granted, executed>>

\* Mutant: whether the tool needs permission is not looked up.
ExecuteUnasked ==
  /\ More /\ ~aborted
  /\ stage' = "executing"
  /\ executed' = executed \union {at}
  /\ UNCHANGED <<queue, at, results, aborted, granted>>

\* No permission needed: executor_ is called.
Execute ==
  /\ More /\ ~aborted
  /\ ~NeedsPermission(at)
  /\ stage' = "executing"
  /\ executed' = executed \union {at}
  /\ UNCHANGED <<queue, at, results, aborted, granted>>

Allow ==
  /\ stage = "asking"
  /\ stage' = "executing"
  /\ granted' = granted \union {at}
  /\ executed' = executed \union {at}
  /\ UNCHANGED <<queue, at, results, aborted>>

\* Mutant: a refusal is answered and the batch goes on.
DenyAndGoOn ==
  /\ stage = "asking"
  /\ stage' = "next"
  /\ results' = Answer("denied")
  /\ at' = at + 1
  /\ UNCHANGED <<queue, aborted, granted, executed>>

Deny ==
  /\ stage = "asking"
  /\ stage' = "next"
  /\ results' = Answer("denied")
  /\ aborted' = TRUE
  /\ at' = at + 1
  /\ UNCHANGED <<queue, granted, executed>>

Succeed ==
  /\ stage = "executing"
  /\ stage' = "next"
  /\ results' = Answer("ok")
  /\ at' = at + 1
  /\ UNCHANGED <<queue, aborted, granted, executed>>

Fail ==
  /\ stage = "executing"
  /\ stage' = "next"
  /\ results' = Answer("error")
  /\ aborted' = TRUE
  /\ at' = at + 1
  /\ UNCHANGED <<queue, granted, executed>>

\* An exception other than ToolError leaves run(), and the results are lost: a tool's own,
\* or that of the asker, which reads fields of the call's input whatever its JSON type is.
Throw ==
  /\ stage \in {"asking", "executing"}
  /\ stage' = "thrown"
  /\ UNCHANGED <<queue, at, results, aborted, granted, executed>>

\* run() has returned or thrown and the executor is destroyed.
Discard ==
  /\ stage' = "idle"
  /\ UNCHANGED <<queue, at, results, aborted, granted, executed>>

ExecStep == Skip \/ Ask \/ Execute \/ Allow \/ Deny \/ Succeed \/ Fail \/ Throw

ExecNext ==
  \/ \E uses \in Seq(Uses) : Begin(uses)
  \/ ExecStep
  \/ (Exhausted \/ stage = "thrown") /\ Discard

ExecSpec == ExecInit /\ [][ExecNext]_execVars

-----------------------------------------------------------------------------
(* Properties.                                                             *)

ExecTypeOK ==
  /\ stage \in {"idle", "next", "asking", "executing", "thrown"}
  /\ queue \in Seq(Uses)
  /\ at \in Nat
  /\ results \in Seq(Results)
  /\ aborted \in BOOLEAN
  /\ granted \subseteq Nat
  /\ executed \subseteq Nat

\* After the first refusal or failure nothing else of the batch is run, and what is
\* answered is "skipped"; before it nothing is skipped. (run() lines 111-153.)
StopsAtFailure ==
  \A i \in DOMAIN results :
    LET failedBefore == \E j \in 1 .. i - 1 : results[j].outcome \in Failures
    IN  /\ failedBefore <=> results[i].outcome = "skipped"
        /\ failedBefore => \A k \in executed : k < i

\* No tool that needs permission runs unless the user allowed that very call, and a
\* call answered "denied" or "skipped" has not run. (execute_one lines 66-91.)
RunsWithConsent ==
  /\ \A i \in executed : NeedsPermission(i) => i \in granted
  /\ \A i \in DOMAIN results : results[i].outcome \in {"denied", "skipped"} => i \notin executed

\* The results answer the calls one for one and in order, and they are all there when
\* the batch is exhausted, whatever was skipped: an unanswered call makes the next
\* request malformed. (run() lines 105-154.)
AnswersInOrder ==
  /\ \A i \in DOMAIN results : i \in DOMAIN queue /\ results[i].use = queue[i]
  /\ Exhausted => Len(results) = Len(queue)

=============================================================================
