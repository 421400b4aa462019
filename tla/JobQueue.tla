------------------------------ MODULE JobQueue ------------------------------
(***************************************************************************)
(* What a task pool promises to the code that submits to it, whatever the  *)
(* number of its threads: a submitted job is accepted or refused, once;    *)
(* accepted jobs start in the order of their acceptance and each starts    *)
(* once; a job is refused only after the owner has begun to close the      *)
(* pool; and the pool is closed only when every accepted job has returned. *)
(*                                                                         *)
(* This is the abstract specification util/ThreadPool.h is shown to        *)
(* implement (module ThreadPool), and the pool the sub-agent manager is    *)
(* built on (module SubAgentManager).                                      *)
(***************************************************************************)
EXTENDS Naturals, Sequences

CONSTANT Jobs        \* the jobs that may be submitted, each at most once

VARIABLES
  pending,           \* accepted jobs that have not started, oldest first
  running,           \* jobs started and not returned
  finished,          \* jobs that have returned
  refused,           \* jobs the pool did not take
  phase              \* "open", "closing" or "closed"

jqVars == <<pending, running, finished, refused, phase>>

PendingSet == {pending[i] : i \in DOMAIN pending}

\* A job nobody has submitted yet.
Fresh(j) == j \notin PendingSet \union running \union finished \union refused

Init ==
  /\ pending = <<>>
  /\ running = {}
  /\ finished = {}
  /\ refused = {}
  /\ phase = "open"

Accept(j) ==
  /\ phase # "closed"
  /\ Fresh(j)
  /\ pending' = Append(pending, j)
  /\ UNCHANGED <<running, finished, refused, phase>>

Refuse(j) ==
  /\ phase # "open"
  /\ Fresh(j)
  /\ refused' = refused \union {j}
  /\ UNCHANGED <<pending, running, finished, phase>>

Start ==
  /\ pending # <<>>
  /\ running' = running \union {Head(pending)}
  /\ pending' = Tail(pending)
  /\ UNCHANGED <<finished, refused, phase>>

Finish(j) ==
  /\ j \in running
  /\ running' = running \ {j}
  /\ finished' = finished \union {j}
  /\ UNCHANGED <<pending, refused, phase>>

BeginClose ==
  /\ phase = "open"
  /\ phase' = "closing"
  /\ UNCHANGED <<pending, running, finished, refused>>

Close ==
  /\ phase = "closing"
  /\ pending = <<>>
  /\ running = {}
  /\ phase' = "closed"
  /\ UNCHANGED <<pending, running, finished, refused>>

Next ==
  \/ \E j \in Jobs : Accept(j) \/ Refuse(j) \/ Finish(j)
  \/ Start
  \/ BeginClose
  \/ Close

Spec == Init /\ [][Next]_jqVars

=============================================================================
