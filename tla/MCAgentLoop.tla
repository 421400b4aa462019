---------------------------- MODULE MCAgentLoop -----------------------------
(***************************************************************************)
(* AgentLoop for TLC: a tool that needs permission and one that does not,  *)
(* answers that call none or both, one submission that finds an empty      *)
(* conversation or an earlier turn with an answered call in it. App keeps  *)
(* the system prompt apart (App.cpp:80), so neither holds one.             *)
(***************************************************************************)
EXTENDS AgentLoop

MCResponses == {<<>>, <<"write", "read">>}

OldUse == [tool |-> "read", id |-> <<1, 1>>]
OldTurn ==
  <<Say("user"),
    [Say("reply") EXCEPT !.uses = <<OldUse>>],
    [Say("results") EXCEPT !.results = <<[use |-> OldUse, outcome |-> "ok"]>>],
    Say("reply")>>
MCHistories == {<<>>, OldTurn}

\* Between submissions, and when the process has gone, nothing has to happen.
Terminated ==
  /\ pc = "crashed" \/ (pc = "idle" /\ turns = MaxTurns)
  /\ UNCHANGED vars

MCSpec == Init /\ [][Next \/ Terminated]_vars

=============================================================================
