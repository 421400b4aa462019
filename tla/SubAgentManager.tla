-------------------------- MODULE SubAgentManager ---------------------------
(***************************************************************************)
(* src/subagent/SubAgentManager.cpp: sub-agents run in the background on a *)
(* pool of their own. The task table, the life of each task on its worker, *)
(* waitFor and its condition variable, the shared cancel token, shutdown   *)
(* and the destructor. The pool is the JobQueue that ThreadPool is shown   *)
(* to implement, with a fixed number of workers.                           *)
(*                                                                         *)
(* A background sub-agent runs an AgentLoop with the tools its definition  *)
(* lists, and those may be the manager's own: it may start another task    *)
(* and it may wait for one, holding its thread meanwhile.                  *)
(*                                                                         *)
(* What a task answers is abstracted to the status it ends with. The       *)
(* loop's own steps are the subject of module AgentLoop.                   *)
(***************************************************************************)
EXTENDS Naturals, Sequences, FiniteSets

CONSTANTS
  Tasks,           \* the tasks runAsync may create, next_id_ taken as identity
  Clients,         \* threads outside the pool that call waitFor
  MaxThreads,      \* the largest bgThreads considered
  NoTask           \* not waiting

ASSUME ThreadsAssumption == MaxThreads \in Nat \ {0}
ASSUME NamesAssumption == NoTask \notin Tasks /\ Tasks \intersect Clients = {}

VARIABLES
  threads,         \* the pool's workers: a parameter, fixed by the constructor
  status,          \* info.status; "none" before the task is in the table
  step,            \* where the task is between runAsync and the end of runWorker
  verdict,         \* the final_status runWorker has computed and not stored yet
  told,            \* the statuses ui_notify_ has been given, in order
  cancel,          \* the shared token: "null", "clear" or "tripped"
  shut,            \* shutdown: "no", "marking", "done"
  unmarked,        \* shutdown's snapshot of the table, less the tasks dealt with
  marked,          \* the tasks shutdown has cancelled and not notified yet
  waiting,         \* the task each waiter is blocked on in waitFor
  woken,           \* blocked waiters that have been notified
  queue, active, returned, refusals, phase       \* the pool, as a JobQueue

poolVars == <<queue, active, returned, refusals, phase>>
taskVars == <<threads, status, step, verdict, told>>
shutVars == <<shut, unmarked, marked>>
waitVars == <<waiting, woken>>
vars == <<threads, status, step, verdict, told, cancel, shut, unmarked, marked, waiting, woken,
          queue, active, returned, refusals, phase>>

Pool == INSTANCE JobQueue
          WITH Jobs <- Tasks, pending <- queue, running <- active,
               finished <- returned, refused <- refusals

Waiters == Clients \union Tasks
Settled == {"Completed", "Failed", "Cancelled"}
Statuses == {"none", "Pending", "Running"} \union Settled

\* "absent": not created; "listed": in the table, not submitted; "queued";
\* "taken": on a worker, nothing done; "marked": status Running stored;
\* "running": inside SubAgentRunner::run; "resumed": back from a wait in it;
\* "judged": final status known; "stored": final status stored, nobody
\* notified; "notified": waiters notified, UI not told; "over".
Steps == {"absent", "listed", "queued", "taken", "marked", "running", "resumed",
          "judged", "stored", "notified", "over"}

\* The tasks on a worker.
OnWorker == {t \in Tasks : step[t] \notin {"absent", "listed", "queued", "over"}}

IsSettled(t) == status[t] \in Settled

Init ==
  /\ \E bgThreads \in 0..MaxThreads :
       threads = IF bgThreads = 0 THEN 1 ELSE bgThreads
  /\ status = [t \in Tasks |-> "none"]
  /\ step = [t \in Tasks |-> "absent"]
  /\ verdict = [t \in Tasks |-> "none"]
  /\ told = [t \in Tasks |-> <<>>]
  /\ cancel \in {"null", "clear"}
  /\ shut = "no"
  /\ unmarked = {}
  /\ marked = {}
  /\ waiting = [w \in Waiters |-> NoTask]
  /\ woken = {}
  /\ Pool!Init

-----------------------------------------------------------------------------
(* runAsync: the table entry, then the submission. It does not look at     *)
(* shutting_down_.                                                         *)

RunAsync(t) ==
  /\ phase = "open"
  /\ step[t] = "absent"
  /\ step' = [step EXCEPT ![t] = "listed"]
  /\ status' = [status EXCEPT ![t] = "Pending"]
  /\ UNCHANGED <<threads, verdict, told, cancel, shutVars, waitVars, poolVars>>

Submit(t) ==
  /\ step[t] = "listed"
  /\ Pool!Accept(t)
  /\ step' = [step EXCEPT ![t] = "queued"]
  /\ UNCHANGED <<threads, status, verdict, told, cancel, shutVars, waitVars>>

-----------------------------------------------------------------------------
(* runWorker and finalize.                                                 *)

Take(t) ==
  /\ step[t] = "queued"
  /\ queue # <<>> /\ Head(queue) = t
  /\ Cardinality(active) < threads
  /\ Pool!Start
  /\ step' = [step EXCEPT ![t] = "taken"]
  /\ UNCHANGED <<threads, status, verdict, told, cancel, shutVars, waitVars>>

\* Mutant: a worker leaves a task alone once shutdown has begun.
SkipWhenShut(t) ==
  /\ step[t] = "taken"
  /\ IF shut = "no"
     THEN /\ step' = [step EXCEPT ![t] = "marked"]
          /\ status' = [status EXCEPT ![t] = "Running"]
          /\ UNCHANGED poolVars
     ELSE /\ step' = [step EXCEPT ![t] = "over"]
          /\ Pool!Finish(t)
          /\ UNCHANGED status
  /\ UNCHANGED <<threads, verdict, told, cancel, shutVars, waitVars>>

\* The status becomes Running whatever it was.
MarkRunning(t) ==
  /\ step[t] = "taken"
  /\ step' = [step EXCEPT ![t] = "marked"]
  /\ status' = [status EXCEPT ![t] = "Running"]
  /\ UNCHANGED <<threads, verdict, told, cancel, shutVars, waitVars, poolVars>>

\* ui_notify_ is given a snapshot read under a second locking of task->mu.
TellStarted(t) ==
  /\ step[t] = "marked"
  /\ step' = [step EXCEPT ![t] = "running"]
  /\ told' = [told EXCEPT ![t] = Append(@, status[t])]
  /\ UNCHANGED <<threads, status, verdict, cancel, shutVars, waitVars, poolVars>>

\* Mutant: the final status defaults to the one the task has.
ReturnsAsItIs(t) ==
  /\ step[t] \in {"running", "resumed"}
  /\ waiting[t] = NoTask
  /\ step' = [step EXCEPT ![t] = "judged"]
  /\ verdict' = [verdict EXCEPT ![t] = status[t]]
  /\ UNCHANGED <<threads, status, told, cancel, shutVars, waitVars, poolVars>>

\* The runner returns; the token is read (by cancelRequested, then once more).
RunReturns(t) ==
  /\ step[t] \in {"running", "resumed"}
  /\ waiting[t] = NoTask
  /\ step' = [step EXCEPT ![t] = "judged"]
  /\ verdict' = [verdict EXCEPT ![t] =
                   IF cancel = "tripped" THEN "Cancelled" ELSE "Completed"]
  /\ UNCHANGED <<threads, status, told, cancel, shutVars, waitVars, poolVars>>

RunThrows(t) ==
  /\ step[t] \in {"running", "resumed"}
  /\ waiting[t] = NoTask
  /\ step' = [step EXCEPT ![t] = "judged"]
  /\ verdict' = [verdict EXCEPT ![t] = "Failed"]
  /\ UNCHANGED <<threads, status, told, cancel, shutVars, waitVars, poolVars>>

\* The final status is stored under task->mu, whatever the status was.
Finalize(t) ==
  /\ step[t] = "judged"
  /\ step' = [step EXCEPT ![t] = "stored"]
  /\ status' = [status EXCEPT ![t] = verdict[t]]
  /\ UNCHANGED <<threads, verdict, told, cancel, shutVars, waitVars, poolVars>>

\* done_cv.notify_all of one task.
WakeAll(t) == woken' = woken \union {w \in Waiters : waiting[w] = t}

\* Mutant: finalize notifies nobody.
NotifyNobody(t) ==
  /\ step[t] = "stored"
  /\ step' = [step EXCEPT ![t] = "notified"]
  /\ UNCHANGED <<threads, status, verdict, told, cancel, shutVars, waitVars, poolVars>>


Notify(t) ==
  /\ step[t] = "stored"
  /\ step' = [step EXCEPT ![t] = "notified"]
  /\ WakeAll(t)
  /\ UNCHANGED <<threads, status, verdict, told, cancel, shutVars, waiting, poolVars>>

\* Mutant: the worker does not go back to the queue.
TellAndHang(t) ==
  /\ step[t] = "notified"
  /\ step' = [step EXCEPT ![t] = "over"]
  /\ told' = [told EXCEPT ![t] = Append(@, verdict[t])]
  /\ UNCHANGED <<threads, status, verdict, cancel, shutVars, waitVars, poolVars>>

\* ui_notify_ is given the snapshot finalize took; the worker is free again.
TellEnded(t) ==
  /\ step[t] = "notified"
  /\ step' = [step EXCEPT ![t] = "over"]
  /\ told' = [told EXCEPT ![t] = Append(@, verdict[t])]
  /\ Pool!Finish(t)
  /\ UNCHANGED <<threads, status, verdict, cancel, shutVars, waitVars>>

-----------------------------------------------------------------------------
(* waitFor, reached directly or through get_subagent_result(wait = true).  *)
(* The predicate is evaluated under task->mu: a settled task is answered   *)
(* at once and a waiter blocks only on an unsettled one.                   *)

Block(w, t) ==
  /\ waiting[w] = NoTask
  /\ status[t] # "none" /\ ~IsSettled(t)
  /\ waiting' = [waiting EXCEPT ![w] = t]

ClientWaits(w, t) ==
  /\ phase = "open"
  /\ Block(w, t)
  /\ UNCHANGED <<woken, taskVars, cancel, shutVars, poolVars>>

\* A background sub-agent waits for another task (bound: once per run).
TaskWaits(u, t) ==
  /\ step[u] = "running"
  /\ u # t
  /\ Block(u, t)
  /\ step' = [step EXCEPT ![u] = "resumed"]
  /\ UNCHANGED <<woken, threads, status, verdict, told, cancel, shutVars, poolVars>>

\* A notified waiter evaluates the predicate again: it returns, or blocks again
\* when the status has moved on to an unsettled one in between.
Recheck(w) ==
  /\ w \in woken
  /\ woken' = woken \ {w}
  /\ waiting' = IF IsSettled(waiting[w]) THEN [waiting EXCEPT ![w] = NoTask] ELSE waiting
  /\ UNCHANGED <<taskVars, cancel, shutVars, poolVars>>

\* Mutant: a wait that times out cancels the task it waited for.
TimeoutCancels(w) ==
  /\ waiting[w] # NoTask
  /\ waiting' = [waiting EXCEPT ![w] = NoTask]
  /\ woken' = woken \ {w}
  /\ status' = [status EXCEPT ![waiting[w]] = "Cancelled"]
  /\ UNCHANGED <<threads, step, verdict, told, cancel, shutVars, poolVars>>

\* wait_for gives up and waitFor returns the status as it is.
Timeout(w) ==
  /\ waiting[w] # NoTask
  /\ waiting' = [waiting EXCEPT ![w] = NoTask]
  /\ woken' = woken \ {w}
  /\ UNCHANGED <<taskVars, cancel, shutVars, poolVars>>

-----------------------------------------------------------------------------
(* The token is the App's: exit and /sessions trip it, /sessions and the   *)
(* next submission clear it again.                                         *)

TripCancel ==
  /\ cancel = "clear"
  /\ cancel' = "tripped"
  /\ UNCHANGED <<taskVars, shutVars, waitVars, poolVars>>

ClearCancel ==
  /\ shut = "no"
  /\ cancel = "tripped"
  /\ cancel' = "clear"
  /\ UNCHANGED <<taskVars, shutVars, waitVars, poolVars>>

-----------------------------------------------------------------------------
(* shutdown and the destructor.                                            *)

\* The guard, the token and the snapshot of the table.
Shutdown ==
  /\ shut = "no"
  /\ shut' = "marking"
  /\ cancel' = IF cancel = "null" THEN "null" ELSE "tripped"
  /\ unmarked' = {t \in Tasks : status[t] # "none"}
  /\ UNCHANGED <<marked, taskVars, waitVars, poolVars>>

\* Mutant: shutdown cancels every task of the snapshot.
MarkEvery(t) ==
  /\ shut = "marking"
  /\ t \in unmarked /\ marked = {}
  /\ unmarked' = unmarked \ {t}
  /\ status' = [status EXCEPT ![t] = "Cancelled"]
  /\ marked' = {t}
  /\ UNCHANGED <<threads, shut, step, verdict, told, cancel, waitVars, poolVars>>

\* Each task of the snapshot is cancelled unless it is settled.
MarkCancelled(t) ==
  /\ shut = "marking"
  /\ t \in unmarked /\ marked = {}
  /\ unmarked' = unmarked \ {t}
  /\ IF IsSettled(t)
     THEN UNCHANGED <<status, marked>>
     ELSE /\ status' = [status EXCEPT ![t] = "Cancelled"]
          /\ marked' = {t}
  /\ UNCHANGED <<threads, shut, step, verdict, told, cancel, waitVars, poolVars>>

NotifyMarked(t) ==
  /\ t \in marked
  /\ marked' = {}
  /\ WakeAll(t)
  /\ UNCHANGED <<shut, unmarked, taskVars, cancel, waiting, poolVars>>

ShutdownReturns ==
  /\ shut = "marking"
  /\ unmarked = {} /\ marked = {}
  /\ shut' = "done"
  /\ UNCHANGED <<unmarked, marked, taskVars, cancel, waitVars, poolVars>>

\* bg_pool_.reset() in the destructor, after shutdown. Callers are assumed to be
\* out of the manager by then, as for any object being destroyed: main destroys
\* the App, whose destructor joins its own worker, before the manager. (A
\* background sub-agent inside runAsync at this point would use a null bg_pool_.)
DestroyPool ==
  /\ shut = "done"
  /\ \A t \in Tasks : step[t] # "listed"
  /\ \A w \in Clients : waiting[w] = NoTask
  /\ Pool!BeginClose
  /\ UNCHANGED <<taskVars, cancel, shutVars, waitVars>>

Joined ==
  /\ Pool!Close
  /\ UNCHANGED <<taskVars, cancel, shutVars, waitVars>>

-----------------------------------------------------------------------------

WorkerStep(t) ==
  \/ Take(t) \/ MarkRunning(t) \/ TellStarted(t)
  \/ RunReturns(t) \/ RunThrows(t)
  \/ Finalize(t) \/ Notify(t) \/ TellEnded(t)

ShutdownStep ==
  \/ \E t \in Tasks : MarkCancelled(t) \/ NotifyMarked(t)
  \/ ShutdownReturns

Next ==
  \/ \E t \in Tasks : RunAsync(t) \/ Submit(t) \/ WorkerStep(t)
  \/ \E w \in Clients, t \in Tasks : ClientWaits(w, t)
  \/ \E u, t \in Tasks : TaskWaits(u, t)
  \/ \E w \in Waiters : Recheck(w) \/ Timeout(w)
  \/ TripCancel \/ ClearCancel
  \/ Shutdown \/ ShutdownStep \/ DestroyPool \/ Joined

Spec == Init /\ [][Next]_vars

(* Threads are scheduled, and SubAgentRunner::run returns: an LLM call has *)
(* a 120 s limit, a tool 30 s, and the loop an iteration limit. Nobody has *)
(* to create tasks, to wait, to touch the token or to shut down; timeouts  *)
(* are left out so that a missed notification shows.                       *)
Fairness ==
  /\ \A t \in Tasks : WF_vars(Submit(t)) /\ WF_vars(WorkerStep(t))
  /\ \A w \in Waiters : WF_vars(Recheck(w))
  /\ WF_vars(ShutdownStep)
  /\ WF_vars(Joined)

FairSpec == Spec /\ Fairness

-----------------------------------------------------------------------------
(* Properties.                                                             *)

\* The type invariant.
TypeOK ==
  /\ threads \in 1..MaxThreads
  /\ status \in [Tasks -> Statuses]
  /\ step \in [Tasks -> Steps]
  /\ verdict \in [Tasks -> Settled \union {"none"}]
  /\ told \in [Tasks -> Seq(Statuses)]
  /\ cancel \in {"null", "clear", "tripped"}
  /\ shut \in {"no", "marking", "done"}
  /\ unmarked \in SUBSET Tasks
  /\ marked \in SUBSET Tasks
  /\ waiting \in [Waiters -> Tasks \union {NoTask}]
  /\ woken \in SUBSET Waiters
  /\ queue \in Seq(Tasks)
  /\ active \in SUBSET Tasks
  /\ returned \in SUBSET Tasks
  /\ refusals \in SUBSET Tasks
  /\ phase \in {"open", "closing", "closed"}

\* When the manager is gone every task it ever listed has an outcome, and it is
\* the outcome of a worker: shutdown's mark and the draining of the queue leave
\* no task pending or running.
AllSettledAtEnd ==
  phase = "closed" =>
    \A t \in Tasks : status[t] # "none" => IsSettled(t) /\ step[t] = "over"

\* The last status the UI is told is the status the task keeps, whatever shutdown
\* did between the worker's snapshot and its notification.
UiToldTheOutcome ==
  \A t \in Tasks : step[t] = "over" => told[t][Len(told[t])] = status[t]

\* Until shutdown is called an outcome is final: no second writer changes it.
OutcomeFinal ==
  [][\A t \in Tasks : shut = "no" /\ IsSettled(t) => status'[t] = status[t]]_vars

\* A waiter asleep on a task that has settled is woken without its timeout,
\* unless the status moves on first.
SleeperWakes ==
  \A w \in Waiters, t \in Tasks :
    (waiting[w] = t /\ IsSettled(t)) ~> (waiting[w] # t \/ ~IsSettled(t))

\* Provided waits time out, every task gets an outcome and keeps it from some
\* point on, even when background sub-agents occupy every thread waiting for
\* tasks queued behind them or for each other.
TimeoutsFire == \A w \in Waiters : WF_vars(Timeout(w))
EveryTaskSettles ==
  TimeoutsFire => \A t \in Tasks : (status[t] = "Pending") ~> [](IsSettled(t))

\* shutdown "mark[s] any still-running tasks Cancelled" (SubAgentManager.h:72-73),
\* and the status a test reads afterwards is Cancelled (SubAgentManagerTest.cpp:269):
\* a task marked Cancelled stays Cancelled.
CancelledStays ==
  [][\A t \in Tasks : status[t] = "Cancelled" => status'[t] = "Cancelled"]_vars

=============================================================================
