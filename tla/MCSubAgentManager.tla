------------------------- MODULE MCSubAgentManager --------------------------
(***************************************************************************)
(* SubAgentManager for TLC: two tasks, one outside thread that waits, a    *)
(* pool of one or of two threads (bgThreads 0, 1 or 2, chosen initially)   *)
(* and a token that is set or null. With one thread the second task is     *)
(* queued behind the first and the first may wait for it; with two each    *)
(* may wait for the other. No symmetry: the run checks liveness.           *)
(***************************************************************************)
EXTENDS SubAgentManager

\* The only state in which nothing is left to do: the destructor has returned.
Terminated == phase = "closed" /\ UNCHANGED vars

MCSpec == Init /\ [][Next \/ Terminated]_vars /\ Fairness

=============================================================================
