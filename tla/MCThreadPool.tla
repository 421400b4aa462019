---------------------------- MODULE MCThreadPool ----------------------------
(***************************************************************************)
(* ThreadPool for TLC: two workers (the sub-agent pool of README.md:199),  *)
(* two callers, three tasks. Two workers are needed for a notification to  *)
(* reach the wrong one, two callers for two pushes before a notification,  *)
(* three tasks for a queue of two behind a running one. No symmetry: the   *)
(* run checks liveness.                                                    *)
(***************************************************************************)
EXTENDS ThreadPool

\* The only state in which nothing is left to do: the destructor has returned.
Terminated == dtor = "joined" /\ UNCHANGED vars

MCSpec == Init /\ [][Next \/ Terminated]_vars /\ Fairness

=============================================================================
