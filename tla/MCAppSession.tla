---------------------------- MODULE MCAppSession ----------------------------
(***************************************************************************)
(* AppSession for TLC: two session ids, two messages, one restart, one     *)
(* notice that opens the input in mid-turn.                                *)
(***************************************************************************)
EXTENDS AppSession

\* Where the vector was a job reads no message, or what was there.
MCResidues == {<<>>}
\* What was there only: a message in the wrong file came there by the id a turn captured.
MCNoResidues == {}

\* Every start is used up, or no key is pressed any more.
Terminated == ui \in {"down", "choosing", "open", "picker"} /\ ~Busy /\ UNCHANGED vars

MCSpec == Init /\ [][Next \/ Terminated]_vars /\ Fairness

=============================================================================
