------------------------------- MODULE UiLoop -------------------------------
(***************************************************************************)
(* FTXUI's event loop (vendored under src/third_party) as the program uses *)
(* it. One thread runs it. Closures come by Post from any thread and keys  *)
(* from the terminal; both are tasks of one FIFO queue. A frame is drawn,  *)
(* then all the keys typed meanwhile are queued at once, then tasks run    *)
(* until there is none: no key gets between a task and what it posts.      *)
(* Exit is a posted task too; tasks behind it still run, and what is       *)
(* posted once the loop has ended never does.                              *)
(***************************************************************************)
EXTENDS Naturals, Sequences

VARIABLES
  tasks,   \* task_runner's queue
  phase    \* where the loop is

Phases == {"frame", "tasks", "quitting", "ended", "gone"}

UiInit == tasks = <<>> /\ phase = "frame"

Posted(q, t) == IF phase \in {"ended", "gone"} THEN q ELSE Append(q, t)

Fetch(keys) ==
  /\ phase = "frame"
  /\ keys # <<>> \/ tasks # <<>>
  /\ tasks' = tasks \o keys
  /\ phase' = "tasks"

\* The task at the head of the queue is taken out to run.
Take(t) ==
  /\ phase \in {"tasks", "quitting"}
  /\ tasks # <<>>
  /\ t = Head(tasks)
  /\ tasks' = Tail(tasks)

\* No task is left: the next frame, or the end once ExitNow has run.
Idle ==
  /\ phase = "tasks" /\ tasks = <<>>
  /\ phase' = "frame"
  /\ UNCHANGED tasks

Stop ==
  /\ phase = "quitting" /\ tasks = <<>>
  /\ phase' = "ended"
  /\ UNCHANGED tasks

ExitNow == phase' = "quitting"

=============================================================================
