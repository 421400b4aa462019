----------------------------- MODULE Transcript -----------------------------
(***************************************************************************)
(* What the view shows of a turn (src/ui/ReplView.cpp): its rows and the   *)
(* streamed text. The worker, the sub-agents and the UI thread post        *)
(* closures, and the UI thread runs them one by one: a history is a        *)
(* sequence of closures. A row is its kind and a number that tells it.     *)
(***************************************************************************)
EXTENDS Naturals, Sequences, SequencesExt

Blank == [rows |-> <<>>, text |-> <<>>, reasoning |-> <<>>, thinking |-> FALSE]
Row(kind, n) == [kind |-> kind, n |-> n]
Placeholder == Row("thinking", 0)

WithoutPlaceholder(rows) == SelectSeq(rows, LAMBDA r : r # Placeholder)

\* A message, an error or a notice: the placeholder goes, and with it the stream.
AppendMessage(view, row) ==
  [rows |-> Append(WithoutPlaceholder(view.rows), row), text |-> <<>>, reasoning |-> <<>>, thinking |-> FALSE]

\* The calls of a reply before they run, and each with its result.
AppendToolUses(view, uses) == [view EXCEPT !.rows = @ \o [i \in DOMAIN uses |-> Row("use", uses[i])]]
AppendToolCall(view, use) == [view EXCEPT !.rows = Append(@, Row("result", use))]

ClearMessages(view) == Blank

AppendDelta(view, text, reasoning) == [view EXCEPT !.text = @ \o text, !.reasoning = @ \o reasoning]

SetThinking(view, v) ==
  [view EXCEPT !.thinking = v, !.rows = IF v THEN Append(@, Placeholder) ELSE WithoutPlaceholder(@)]

Run(view, c) ==
  CASE c.k = "message" -> AppendMessage(view, Row(c.by, c.n))
    [] c.k = "uses" -> AppendToolUses(view, c.uses)
    [] c.k = "call" -> AppendToolCall(view, c.n)
    [] c.k = "clear" -> ClearMessages(view)
    [] c.k = "delta" -> AppendDelta(view, c.text, c.reasoning)
    [] c.k = "think" -> SetThinking(view, c.v)

Shown(closures) == FoldLeft(Run, Blank, closures)

\* The streamed text is drawn in the place of the placeholder.
OnScreen(view) == IF Placeholder \in ToSet(view.rows) THEN view.text ELSE <<>>

-----------------------------------------------------------------------------

\* When a turn's closures have run, among the closures of others in any order, the view
\* thinks no longer, shows no placeholder and holds back no streamed text.
Settled(closures) ==
  LET view == Shown(closures) IN
  ~view.thinking /\ Placeholder \notin ToSet(view.rows) /\ view.text = <<>> /\ view.reasoning = <<>>

RowsOf(c) ==
  CASE c.k = "message" -> <<Row(c.by, c.n)>>
    [] c.k = "uses" -> [i \in DOMAIN c.uses |-> Row("use", c.uses[i])]
    [] c.k = "call" -> <<Row("result", c.n)>>
    [] OTHER -> <<>>

LastClear(closures) == Max({0} \union {i \in DOMAIN closures : closures[i].k = "clear"})

\* A row stays where it was put until the conversation is cleared: what is shown, the
\* placeholder apart, is what was posted since, in that order, whoever posted it.
RowsInOrder(closures) ==
  LET since == SubSeq(closures, LastClear(closures) + 1, Len(closures)) IN
  WithoutPlaceholder(Shown(closures).rows) = FlattenSeq([i \in DOMAIN since |-> RowsOf(since[i])])

\* As long as nothing but the stream and its calls came since the thinking began, all that
\* was streamed is on the screen.
StreamOnScreen(closures) ==
  (closures[1] = [k |-> "think", v |-> TRUE] /\ \A i \in 2 .. Len(closures) : closures[i].k \in {"delta", "uses", "call"})
    => OnScreen(Shown(closures)) =
         FlattenSeq([i \in DOMAIN closures |-> IF closures[i].k = "delta" THEN closures[i].text ELSE <<>>])

=============================================================================
