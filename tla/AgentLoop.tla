----------------------------- MODULE AgentLoop ------------------------------
(***************************************************************************)
(* src/core/AgentLoop.cpp with the tool executor it drives: one submission *)
(* at a time is answered in one of three modes. A run asks the model, has  *)
(* the tools it calls executed, and asks again until the model answers     *)
(* without calls, the user cancels, a request fails or the iteration limit *)
(* is met; Reflection puts a critic between runs and Plan-and-Execute puts *)
(* a planner before them. What is kept is the conversation: which messages *)
(* are appended, inserted or cut, and by whom.                             *)
(*                                                                         *)
(* A message is its kind, the calls or the results it carries, and the     *)
(* form its text has: whole, cut by compaction, or torn, that is, not      *)
(* valid UTF-8 (a tool's raw output, an HTTP error's body, or a character  *)
(* split by compaction's substr). json::dump throws on a torn message.     *)
(*                                                                         *)
(* The token is tripped at any time by another thread and reset by the     *)
(* next submission only.                                                   *)
(***************************************************************************)
EXTENDS StreamToolExecutor, SequencesExt

CONSTANTS
  MaxIterations,   \* maxIterations_
  Rounds,          \* runWithReflection's maxRounds
  MaxSteps,        \* runPlanExecute's maxSteps
  KeepRecent,      \* kCompactionKeepRecent
  Responses,       \* what the model may answer: the tools it calls, none in a final answer
  Histories,       \* the conversations a submission may find
  MaxTurns         \* bound: submissions

VARIABLES
  pc,              \* where the worker is; "idle" between submissions
  mode,            \* the ChatMode locked in by the submission
  msgs,            \* the conversation
  iter,            \* query's iteration
  round,           \* runWithReflection's round
  todo,            \* the prompts runPlanExecute has left, one run each
  cancel,          \* *cancel_
  turns,           \* submissions so far
  sent             \* ghost: Len(msgs) when a request last went out, or what was found

loopVars == <<pc, mode, msgs, iter, round, todo, cancel, turns, sent>>
vars == <<execVars, loopVars>>

ASSUME BoundsAssumption ==
  /\ {MaxIterations, KeepRecent, MaxTurns} \subseteq Nat
  /\ {Rounds, MaxSteps} \subseteq Nat \ {0}
ASSUME ResponsesAssumption == Responses \subseteq Seq(Tools)

Modes == {"chat", "reflection", "plan"}
\* "crashed": an exception nobody catches has left the worker's job.
Places == {"idle", "top", "sending", "batch", "critic", "planner", "crashed"}

\* Why run or query left a note. "aborted" reads like "cancelled" (friendlyCancelError): the
\* text of the LlmError, an HTTP error's body in it, says "aborted", but nobody cancelled.
Notes == {"cancelled", "aborted", "fault", "limit"}
AssistantKinds == {"reply", "plan"} \union Notes
Kinds == {"system", "user", "results", "selfcheck", "compaction", "critique", "step", "synthesis"}
           \union AssistantKinds

Forms == {"whole", "cut", "torn"}
Message == [kind : Kinds, uses : Seq(Uses), results : Seq(Results), form : Forms]

Say(kind) == [kind |-> kind, uses |-> <<>>, results |-> <<>>, form |-> "whole"]

\* After a note of the user's cancellation the model answers nothing and no result is added
\* until the user's next message.
QuietAfterCancel(ms) ==
  \A i, j \in DOMAIN ms :
    i < j /\ ms[i].kind = "cancelled" /\ ms[j].kind \in {"reply", "results"}
      => \E k \in i .. j : ms[k].kind = "user"

\* The calls of message i are answered: the first message after it that is no compaction
\* note has their results in order, or is the note of an exception.
Answers(m, uses) ==
  /\ m.kind = "results"
  /\ uses = [k \in DOMAIN m.results |-> m.results[k].use]
AnsweredAt(ms, i) ==
  \E j \in i + 1 .. Len(ms) :
    /\ \A k \in i + 1 .. j - 1 : ms[k].kind = "compaction"
    /\ ms[j].kind = "fault" \/ Answers(ms[j], ms[i].uses)

\* A conversation a submission finds is one that earlier submissions left.
ASSUME HistoriesAssumption ==
  /\ Histories \subseteq Seq(Message)
  /\ \A h \in Histories : QuietAfterCancel(h)
  /\ \A h \in Histories : \A i \in DOMAIN h : h[i].uses # <<>> => AnsweredAt(h, i)

Init ==
  /\ ExecInit
  /\ pc = "idle"
  /\ mode = "chat"
  /\ msgs \in Histories
  /\ iter = 0
  /\ round = 0
  /\ todo = <<>>
  /\ cancel = FALSE
  /\ turns = 0
  /\ sent = Len(msgs)

\* No JSON text can be made of the conversation.
Torn(ms) == \E i \in DOMAIN ms : ms[i].form = "torn"

-----------------------------------------------------------------------------
(* The wrappers: what a submission starts, and what follows a run.         *)

\* App's onSubmit: the user's message, the mode, the reset token, the mode's entry.
Submit(m) ==
  /\ pc = "idle"
  /\ turns < MaxTurns
  /\ mode' = m
  /\ msgs' = Append(msgs, Say("user"))
  /\ cancel' = FALSE
  /\ turns' = turns + 1
  /\ pc' = IF m = "plan" THEN "planner" ELSE "top"
  /\ iter' = 0 /\ round' = 0 /\ todo' = <<>>
  /\ UNCHANGED <<sent, execVars>>

\* run returns with the conversation ms, and what called it goes on: with the next prompt
\* of the plan, with the critic, or back to the App.
NextPrompt(ms) ==
  /\ todo # <<>>
  /\ msgs' = Append(ms, Say(Head(todo)))
  /\ todo' = Tail(todo)
  /\ pc' = "top"
  /\ iter' = 0

LastRun(ms, rounds) ==
  /\ todo = <<>>
  /\ msgs' = ms
  /\ pc' = IF mode = "reflection" /\ round + 1 < rounds THEN "critic" ELSE "idle"
  /\ UNCHANGED <<todo, iter>>

\* Mutant: the critic is asked after the last round too.
CriticizeOnceMore(ms) ==
  /\ NextPrompt(ms) \/ LastRun(ms, Rounds + 1)
  /\ UNCHANGED <<mode, round, cancel, turns>>

RunReturns(ms) ==
  /\ NextPrompt(ms) \/ LastRun(ms, Rounds)
  /\ UNCHANGED <<mode, round, cancel, turns>>

\* The request is sent: from here on the model has been shown the conversation.
Send(ms) == sent' = IF Torn(ms) THEN sent ELSE Len(ms)

\* The critic's answer ends the reflection or is fed back and another run starts. The
\* request looks at no cancel token.
CriticSatisfied ==
  /\ pc = "critic" /\ ~Torn(msgs)
  /\ pc' = "idle"
  /\ Send(msgs)
  /\ UNCHANGED <<mode, msgs, iter, round, todo, cancel, turns, execVars>>

CriticObjects ==
  /\ pc = "critic" /\ ~Torn(msgs)
  /\ pc' = "top"
  /\ iter' = 0
  /\ round' = round + 1
  /\ msgs' = Append(msgs, Say("critique"))
  /\ Send(msgs)
  /\ UNCHANGED <<mode, todo, cancel, turns, execVars>>

\* The planner's steps, of which at most MaxSteps are run, or none.
Prompts(n) == [i \in 1 .. n + 1 |-> IF i <= n THEN "step" ELSE "synthesis"]

NoPlan ==
  /\ pc = "planner" /\ ~Torn(msgs)
  /\ pc' = "top"
  /\ Send(msgs)
  /\ UNCHANGED <<mode, msgs, iter, round, todo, cancel, turns, execVars>>

Plan ==
  /\ pc = "planner" /\ ~Torn(msgs)
  /\ \E n \in 1 .. MaxSteps :
       /\ msgs' = msgs \o <<Say("plan"), Say(Head(Prompts(n)))>>
       /\ todo' = Tail(Prompts(n))
  /\ pc' = "top"
  /\ Send(msgs)
  /\ UNCHANGED <<mode, iter, round, cancel, turns, execVars>>

\* An LlmError of the critic or the planner is caught by the App, which goes idle; the
\* exception of a torn conversation is not, and the process terminates.
SideRequestFails ==
  /\ pc \in {"critic", "planner"} /\ ~Torn(msgs)
  /\ pc' = "idle"
  /\ Send(msgs)
  /\ UNCHANGED <<mode, msgs, iter, round, todo, cancel, turns, execVars>>

SideRequestThrows ==
  /\ pc \in {"critic", "planner"} /\ Torn(msgs)
  /\ pc' = "crashed"
  /\ UNCHANGED <<mode, msgs, iter, round, todo, cancel, turns, sent, execVars>>

-----------------------------------------------------------------------------
(* query and query_loop.                                                   *)

\* messagesSerializedSize over the threshold is left open: it depends on the data.
MayCompact(ms) == Len(ms) > KeepRecent + 1 /\ ~Torn(ms)

\* Mutant: everything but the last message is cut.
CompactedButLast(ms, form) ==
  LET cut == [i \in DOMAIN ms |->
                IF i < Len(ms) /\ ms[i].kind = "results" /\ ms[i].form = "whole"
                THEN [ms[i] EXCEPT !.form = form] ELSE ms[i]]
  IN  InsertAt(cut, Len(ms), Say("compaction"))

\* Mutant: the middle is dropped.
CompactedAway(ms, form) ==
  InsertAt(SelectSeq(ms, LAMBDA m : m.kind # "results"), Len(ms), Say("compaction"))

\* compactMessages: results before the last KeepRecent messages are cut (form: "whole" when
\* none is long enough), and the note goes in before the last message.
Compacted(ms, form) ==
  LET cut == [i \in DOMAIN ms |->
                IF i <= Len(ms) - KeepRecent /\ ms[i].kind = "results" /\ ms[i].form = "whole"
                THEN [ms[i] EXCEPT !.form = form] ELSE ms[i]]
  IN  InsertAt(cut, Len(ms), Say("compaction"))

\* Mutant: the limit leaves no note.
StopSilently ==
  /\ pc = "top" /\ iter >= MaxIterations
  /\ RunReturns(msgs)
  /\ UNCHANGED <<sent, execVars>>

\* The top of the loop: the limit, the token, compaction, and the request goes out.
ReachLimit ==
  /\ pc = "top" /\ iter >= MaxIterations
  /\ RunReturns(Append(msgs, Say("limit")))
  /\ UNCHANGED <<sent, execVars>>

\* Mutant: the token is consumed by the run that sees it.
NoticeAndConsume ==
  /\ pc = "top" /\ iter < MaxIterations
  /\ cancel
  /\ NextPrompt(Append(msgs, Say("cancelled"))) \/ LastRun(Append(msgs, Say("cancelled")), Rounds)
  /\ cancel' = FALSE
  /\ UNCHANGED <<mode, round, turns, sent, execVars>>

NoticeCancel ==
  /\ pc = "top" /\ iter < MaxIterations
  /\ cancel
  /\ RunReturns(Append(msgs, Say("cancelled")))
  /\ UNCHANGED <<sent, execVars>>

AskModel ==
  /\ pc = "top" /\ iter < MaxIterations
  /\ ~cancel
  /\ \/ msgs' = msgs
     \/ /\ MayCompact(msgs)
        /\ \E form \in Forms : msgs' = Compacted(msgs, form)
  /\ pc' = "sending"
  /\ Send(msgs')
  /\ UNCHANGED <<mode, iter, round, todo, cancel, turns, execVars>>

\* The model's message. Its calls get ids nobody has used.
ReplyMessage(r) ==
  [kind |-> "reply", results |-> <<>>, form |-> "whole",
   uses |-> [k \in DOMAIN r |-> [tool |-> r[k], id |-> <<Len(msgs) + 1, k>>]]]

Answered(r) ==
  /\ pc = "sending" /\ ~Torn(msgs)
  /\ r = <<>>
  /\ RunReturns(Append(msgs, ReplyMessage(r)))
  /\ UNCHANGED <<sent, execVars>>

CallsTools(r) ==
  /\ pc = "sending" /\ ~Torn(msgs)
  /\ r # <<>>
  /\ msgs' = Append(msgs, ReplyMessage(r))
  /\ pc' = "batch"
  /\ Begin(ReplyMessage(r).uses)
  /\ UNCHANGED <<mode, iter, round, todo, cancel, turns, sent>>

\* What a failed request is noted as. A torn conversation fails with json's exception, which
\* is no LlmError. An LlmError is a cancellation when the token is tripped or when its text
\* says "aborted"; any other exception is a fault, tripped or not.
Reasons ==
  {"fault"} \union (IF Torn(msgs) THEN {} ELSE IF cancel THEN {"cancelled"} ELSE {"aborted"})

\* The note holds the error's text, and with it the body of an HTTP error as it came.
Note(kind, form) == [Say(kind) EXCEPT !.form = form]

RequestFails ==
  /\ pc = "sending"
  /\ \E kind \in Reasons, form \in {"whole", "torn"} :
       /\ Torn(msgs) => form = "whole"
       /\ RunReturns(Append(msgs, Note(kind, form)))
  /\ UNCHANGED <<sent, execVars>>

RunBatch ==
  /\ pc = "batch"
  /\ ExecStep
  /\ UNCHANGED loopVars

\* A success may be torn output.
ResultsMessage(form) ==
  [kind |-> "results", uses |-> <<>>, results |-> results, form |-> form]

BatchReturns ==
  /\ pc = "batch" /\ Exhausted
  /\ \E form \in {"whole", "torn"} :
       /\ form = "torn" => \E i \in DOMAIN results : results[i].outcome = "ok"
       /\ msgs' = msgs \o IF mode = "reflection" THEN <<ResultsMessage(form), Say("selfcheck")>>
                                                 ELSE <<ResultsMessage(form)>>
  /\ Discard
  /\ pc' = "top"
  /\ iter' = iter + 1
  /\ UNCHANGED <<mode, round, todo, cancel, turns, sent>>

\* Mutant: the exception is swallowed and the loop goes on.
SwallowException ==
  /\ pc = "batch" /\ stage = "thrown"
  /\ Discard
  /\ pc' = "top"
  /\ iter' = iter + 1
  /\ UNCHANGED <<mode, msgs, round, todo, cancel, turns, sent>>

\* The exception of a tool: the calls of this message stay without results.
BatchThrows ==
  /\ pc = "batch" /\ stage = "thrown"
  /\ Discard
  /\ RunReturns(Append(msgs, Say("fault")))
  /\ UNCHANGED sent

-----------------------------------------------------------------------------

\* Another thread trips the token.
TripCancel ==
  /\ pc \notin {"idle", "crashed"}
  /\ ~cancel
  /\ cancel' = TRUE
  /\ UNCHANGED <<pc, mode, msgs, iter, round, todo, turns, sent, execVars>>

Next ==
  \/ \E m \in Modes : Submit(m)
  \/ CriticSatisfied \/ CriticObjects
  \/ NoPlan \/ Plan
  \/ SideRequestFails \/ SideRequestThrows
  \/ ReachLimit \/ NoticeCancel \/ AskModel
  \/ \E r \in Responses : Answered(r) \/ CallsTools(r)
  \/ RequestFails
  \/ RunBatch \/ BatchReturns \/ BatchThrows
  \/ TripCancel

Spec == Init /\ [][Next]_vars

-----------------------------------------------------------------------------
(* Properties.                                                             *)

\* The type invariant, with the bounds of the counters.
TypeOK ==
  /\ ExecTypeOK
  /\ pc \in Places
  /\ mode \in Modes
  /\ msgs \in Seq(Message)
  /\ iter \in 0 .. MaxIterations
  /\ round \in 0 .. Rounds - 1
  /\ todo \in Seq({"step", "synthesis"}) /\ Len(todo) <= MaxSteps
  /\ cancel \in BOOLEAN
  /\ turns \in 0 .. MaxTurns
  /\ sent \in Nat

\* Every message that calls tools is answered: what follows it, compaction notes aside,
\* is one result per call, in the calls' order, or the note of an exception; and while
\* nothing follows it the executor is at work on exactly those calls.
CallsAnswered ==
  \A i \in DOMAIN msgs : msgs[i].uses # <<>> =>
    \/ /\ \A j \in i + 1 .. Len(msgs) : msgs[j].kind = "compaction"
       /\ pc = "batch"
       /\ queue = msgs[i].uses
    \/ AnsweredAt(msgs, i)

\* What the model has not been shown stays as it is: KeepRecent covers everything the code
\* may append between a result and the request that shows it, unless the user cancels the
\* turn in between (each run left and each later submission may then add two more messages).
CutOnlyAfterShown ==
  [][\A i \in sent + 1 .. Len(msgs) :
       (\A k \in i + 1 .. Len(msgs) : msgs[k].kind # "cancelled")
         => \E j \in {i, i + 1} \intersect DOMAIN msgs' : msgs'[j] = msgs[i]]_vars

\* n is m, but for the text of results.
SaysTheSame(m, n) == n = m \/ (m.kind = "results" /\ n = [m EXCEPT !.form = n.form])

\* Whatever happens to a turn, nothing said is lost, changed or moved, but for the text of
\* results: a step adds to the conversation's end, or one compaction note in between.
HistoryKept ==
  [][\E p \in 1 .. Len(msgs) + 1 :
       /\ \A i \in DOMAIN msgs :
            LET j == IF i < p THEN i ELSE i + 1
            IN  j \in DOMAIN msgs' /\ SaysTheSame(msgs[i], msgs'[j])
       /\ p <= Len(msgs) => msgs'[p].kind = "compaction"]_vars

\* Once a turn has noted the user's cancellation, the token being tripped, the model answers
\* nothing more in it and no tool is called, in whatever mode: later runs of the turn see the
\* token too. A note "aborted" is no such end, although the user reads the same words in it:
\* the critic or the next step of the plan asks again and is answered.
NothingAfterCancelled == QuietAfterCancel(msgs)

\* A turn ends with the assistant's word, unless the planner's request failed: the next
\* user message never follows another one or unanswered results.
EndsWithAssistant ==
  pc = "idle" /\ turns > 0 =>
    \/ Last(msgs).kind \in AssistantKinds
    \/ mode = "plan" /\ Last(msgs).kind = "user"

\* Compaction "does not affect the conversation" (AgentLoop.cpp:167): results directly
\* follow the message whose calls they answer, as the model's API requires.
ResultsFollowCalls ==
  \A i \in DOMAIN msgs : msgs[i].kind = "results" =>
    i > 1 /\ Answers(msgs[i], msgs[i - 1].uses)

=============================================================================
