------------------------------ MODULE JsonScan ------------------------------
(***************************************************************************)
(* extractFirstJsonObject of src/commands/ResourceGenerator.cpp: the first *)
(* balanced object of the model's answer. A character is one of the four   *)
(* the scan tells apart, or "x".                                           *)
(***************************************************************************)
EXTENDS Naturals, Sequences, FiniteSets

Characters == {"{", "}", "quote", "backslash", "x"}
Positions(text, c) == {i \in DOMAIN text : text[i] = c}
First(s) == CHOOSE i \in s : \A j \in s : i <= j

Begin == [depth |-> 0, inString |-> FALSE, escape |-> FALSE, end |-> 0, at |-> 0]

\* One turn of the loop; after the end was found the rest is not looked at.
Scan(st, c) ==
  LET now == [st EXCEPT !.at = @ + 1] IN
  IF st.end # 0 THEN st
  ELSE IF st.inString
    THEN [now EXCEPT !.escape = ~st.escape /\ c = "backslash",
                     !.inString = st.escape \/ c # "quote"]
  ELSE CASE c = "quote" -> [now EXCEPT !.inString = TRUE]
         [] c = "{" -> [now EXCEPT !.depth = @ + 1]
         [] c = "}" -> [now EXCEPT !.depth = @ - 1, !.end = IF st.depth = 1 THEN now.at ELSE 0]
         [] OTHER -> now

\* The state after each number of turns.
Scanned(text) == LET state[n \in 0 .. Len(text)] == IF n = 0 THEN Begin ELSE Scan(state[n - 1], text[n]) IN state

ExtractFirstJsonObject(text) ==
  IF Positions(text, "{") = {} THEN <<>>
  ELSE LET start == First(Positions(text, "{"))
           rest == SubSeq(text, start, Len(text))
       IN  SubSeq(rest, 1, Scanned(rest)[Len(rest)].end)

-----------------------------------------------------------------------------

\* Where a character of an object is in a string: an odd number of quotes before it is
\* not behind a backslash of the string.
Escaped(t, i) ==
  LET run == {n \in 0 .. i - 1 : \A j \in i - n .. i - 1 : t[j] = "backslash"}
      longest == CHOOSE n \in run : \A m \in run : m <= n
  IN  longest % 2 = 1
Quotes(t) == {i \in Positions(t, "quote") : ~Escaped(t, i)}
Outside(t, c) == {i \in Positions(t, c) : Cardinality({q \in Quotes(t) : q < i}) % 2 = 0}
Closed(t, n) == Cardinality({i \in Outside(t, "{") : i <= n}) = Cardinality({i \in Outside(t, "}") : i <= n})

\* The result is what begins at the first brace and ends where, strings apart, as many
\* braces are closed as were opened; nothing when there is no such end. A backslash
\* outside of a string, which no JSON has, is left out of the comparison.
IsFirstObject(text, result) ==
  LET starts == Positions(text, "{")
      t == SubSeq(text, First(starts), Len(text))
      ends == {n \in Outside(t, "}") : Closed(t, n)}
  IN  IF starts = {} THEN result = <<>>
      ELSE Outside(t, "backslash") = {} =>
             result = (IF ends = {} THEN <<>> ELSE SubSeq(t, 1, First(ends)))

=============================================================================
