----------------------------- MODULE LlmStream -----------------------------
(***************************************************************************)
(* src/llm: one streamed request. The server's body is a sequence of       *)
(* lines; libcurl hands its bytes to the write callback in chunks cut      *)
(* anywhere, and the parser keeps the unfinished line between two calls.   *)
(* The transfer ends well or with an error status, is cut off by the       *)
(* server, or is given up (cancel, the timeout, the network).              *)
(*                                                                         *)
(* A line is an event and is two pieces long: the second ends it. Texts    *)
(* and arguments are sequences of the pieces they arrived in.              *)
(***************************************************************************)
EXTENDS Naturals, Sequences, SequencesExt, FiniteSets

CONSTANTS
  Bodies,       \* the bodies the server may send: sequences of events
  MaxRequests   \* bound: requests

\* What a line says. A "skip" line is a comment, an event name, an empty line, [DONE],
\* no JSON, or JSON without choices. An empty name or piece is a field that is absent.
Event == [k : {"skip", "finish"}, v : STRING]
         \union [k : {"text", "think"}, v : STRING \ {""}]
         \union [k : {"tool"}, idx : {1, 2}, name : STRING, v : STRING]

ASSUME BodiesAssumption == Bodies \subseteq Seq(Event)
ASSUME RequestsAssumption == MaxRequests \in Nat

VARIABLES
  phase,        \* "idle", "streaming", or "done" with the reply, or "failed"
  body, pos,    \* the body and how many of its pieces have been handed over
  buffer,       \* buffer_
  parser,       \* the other members of the parser, and the deltas it passed on
  requests

streamVars == <<phase, body, pos, buffer, parser, requests>>

NoTool == [name |-> "", args |-> <<>>]
Fresh == [content |-> <<>>, reasoning |-> <<>>, tools |-> <<>>, finish |-> "", shown |-> <<>>]

StreamInit ==
  /\ phase = "idle" /\ body = <<>> /\ pos = 0
  /\ buffer = <<>> /\ parser = Fresh /\ requests = 0

\* The pieces of the body: line i is <<i, 1>> and <<i, 2>>.
Pieces(b) == [j \in 1 .. 2 * Len(b) |-> <<(j + 1) \div 2, 2 - (j % 2)>>]

-----------------------------------------------------------------------------
(* StreamParser.                                                           *)

\* tools_.resize
Sized(tools, n) == [i \in 1 .. (IF n > Len(tools) THEN n ELSE Len(tools)) |->
                      IF i <= Len(tools) THEN tools[i] ELSE NoTool]

Accumulated(tool, e) ==
  [name |-> IF e.name = "" THEN tool.name ELSE e.name,
   args |-> IF e.v = "" THEN tool.args ELSE Append(tool.args, e.v)]

WithFragment(tools, e) == [Sized(tools, e.idx) EXCEPT ![e.idx] = Accumulated(@, e)]

ProcessLine(p, e) ==
  CASE e.k = "skip" -> p
    [] e.k = "finish" -> [p EXCEPT !.finish = e.v]
    [] e.k = "text" -> [p EXCEPT !.content = Append(@, e.v), !.shown = Append(@, e)]
    [] e.k = "think" -> [p EXCEPT !.reasoning = Append(@, e.v), !.shown = Append(@, e)]
    [] e.k = "tool" -> [p EXCEPT !.tools = WithFragment(@, e)]

\* The event of a line; half a line is no JSON.
Said(line) == IF Len(line) = 2 THEN body[line[1][1]] ELSE [k |-> "skip", v |-> ""]

TakePiece(acc, u) ==
  IF u[2] = 1 THEN [acc EXCEPT !.buf = Append(@, u)]
              ELSE [buf |-> <<>>, p |-> ProcessLine(acc.p, Said(Append(acc.buf, u)))]

ReadPieces(acc, pieces) == FoldLeft(TakePiece, acc, pieces)

\* A parser that looks at one chunk at a time.
FeedForgetting(chunk) ==
  LET r == FoldLeft(TakePiece, [buf |-> <<>>, p |-> parser], chunk) IN
  buffer' = <<>> /\ parser' = r.p

\* feed: the complete lines of the buffer and the chunk, and the rest for the next call.
Feed(chunk) ==
  LET r == ReadPieces([buf |-> buffer, p |-> parser], chunk) IN
  buffer' = r.buf /\ parser' = r.p

\* Arguments that do not parse are {}, here the empty sequence. Those of a call parse when
\* both their pieces are there.
CallOf(tool) == [name |-> tool.name, args |-> IF Len(tool.args) = 2 THEN tool.args ELSE <<>>]

\* The place of a number in a set of them, and the number at a place.
Place(i, set) == Cardinality({j \in set : j <= i})
Nth(c, set) == CHOOSE i \in set : Place(i, set) = c

\* What has no name is no call.
Finish ==
  LET named == {i \in DOMAIN parser.tools : parser.tools[i].name # ""} IN
  [text |-> parser.content, reasoning |-> parser.reasoning, finish |-> parser.finish,
   calls |-> [c \in 1 .. Cardinality(named) |-> CallOf(parser.tools[Nth(c, named)])]]

-----------------------------------------------------------------------------
(* DefaultLlmClient::doSendStream over HttpTransport::postStream.          *)

Request ==
  /\ phase = "idle" /\ requests < MaxRequests
  /\ requests' = requests + 1
  /\ \E b \in Bodies : body' = b
  /\ phase' = "streaming" /\ pos' = 0 /\ buffer' = <<>> /\ parser' = Fresh

Chunk ==
  /\ phase = "streaming"
  /\ \E q \in pos + 1 .. 2 * Len(body) :
       /\ Feed(SubSeq(Pieces(body), pos + 1, q))
       /\ pos' = q
  /\ UNCHANGED <<phase, body, requests>>

\* The transfer ends where the server ends it, in mid-line too, and the status is 2xx.
Complete ==
  /\ phase = "streaming"
  /\ phase' = "done"
  /\ UNCHANGED <<body, pos, buffer, parser, requests>>

\* Another status, or libcurl gives up: LlmError after the deltas already
\* shown, and what was parsed is lost.
Fail ==
  /\ phase = "streaming"
  /\ phase' = "failed"
  /\ body' = <<>> /\ pos' = 0 /\ buffer' = <<>> /\ parser' = Fresh
  /\ UNCHANGED requests

\* The caller has the reply or the exception.
Handed ==
  /\ phase \in {"done", "failed"}
  /\ phase' = "idle"
  /\ body' = <<>> /\ pos' = 0 /\ buffer' = <<>> /\ parser' = Fresh
  /\ UNCHANGED requests

StreamStep == Request \/ Chunk \/ Complete \/ Fail

-----------------------------------------------------------------------------

\* The lines that arrived whole: those of some kinds, and those about the call of an index.
Arrived == 1 .. pos \div 2
Of(kinds) == {i \in Arrived : body[i].k \in kinds}
Naming(idx) == {i \in Of({"tool"}) : body[i].idx = idx /\ body[i].name # ""}
Arguing(idx) == {i \in Of({"tool"}) : body[i].idx = idx /\ body[i].v # ""}

\* s is what these lines say, one after the other.
InOrder(s, lines, says) ==
  /\ Len(s) = Cardinality(lines)
  /\ \A i \in lines : s[Place(i, lines)] = says[i]

Value == [i \in Arrived |-> body[i].v]
Called == {idx \in {1, 2} : Naming(idx) # {}}

\* However the body was cut into chunks, the reply that is handed over is that of its
\* whole lines: the text, the reasoning, the last reason for the end, and of every call
\* the last name and the arguments, joined across its fragments and apart from those of
\* the other calls; and what was shown on the way is the reply's text and reasoning
\* (OpenAIStreamParser::feed).
StreamEqualsWhole == phase = "done" =>
  /\ InOrder(Finish.text, Of({"text"}), Value)
  /\ InOrder(Finish.reasoning, Of({"think"}), Value)
  /\ InOrder(parser.shown, Of({"text", "think"}), body)
  /\ Of({"finish"}) # {} => Finish.finish = body[Max(Of({"finish"}))].v
  /\ Len(Finish.calls) = Cardinality(Called)
  /\ \A idx \in Called :
       LET call == Finish.calls[Place(idx, Called)] IN
       /\ call.name = body[Max(Naming(idx))].name
       /\ IF Cardinality(Arguing(idx)) = 2 THEN InOrder(call.args, Arguing(idx), Value)
                                           ELSE call.args = <<>>

=============================================================================
