------------------------------- MODULE MCMcp -------------------------------
(***************************************************************************)
(* The instance of Mcp that TLC checks: one server or two, the turn's      *)
(* thread and one sub-agent's.                                             *)
(***************************************************************************)
EXTENDS Mcp
=============================================================================
