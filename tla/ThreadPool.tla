----------------------------- MODULE ThreadPool -----------------------------
(***************************************************************************)
(* src/util/ThreadPool.h: a fixed set of worker threads, one mutex, one    *)
(* condition variable, a FIFO of tasks and an atomic stop flag which the   *)
(* destructor stores WITHOUT the mutex.                                    *)
(*                                                                         *)
(* A critical section is one step unless another thread can see inside it. *)
(* Two can be seen into, because the destructor takes no lock: a worker    *)
(* that has evaluated the wait predicate to false and has not blocked yet  *)
(* ("deciding"), and a caller between submit's test of stop_ and its push  *)
(* ("admitted"). Both hold the mutex in between.                           *)
(*                                                                         *)
(* A task that throws ends the process (no handler in the worker loop) and *)
(* is not modelled; a caller is any thread that may call submit.           *)
(***************************************************************************)
EXTENDS Naturals, Sequences, FiniteSets

CONSTANTS
  Workers,          \* the pool's threads
  Callers,          \* the threads that call submit
  Jobs,             \* the tasks, each submitted at most once
  Nobody,           \* the mutex is free
  NoJob             \* no task in hand

\* SubAgentManager raises a thread count of 0 to 1 and App uses 1, so there is
\* always a worker.
ASSUME WorkersAssumption == Workers # {}
ASSUME ThreadsAssumption ==
  /\ Workers \intersect Callers = {}
  /\ Nobody \notin Workers \union Callers
ASSUME JobsAssumption == NoJob \notin Jobs

VARIABLES
  stop,             \* stop_
  tasks,            \* tasks_
  mutex,            \* queueMutex_: the thread holding it across steps, or Nobody
  worker,           \* where each worker is in its loop
  task,             \* the local variable task of each worker
  caller,           \* where each caller is in submit
  offer,            \* the parameter task of submit
  refused,          \* the tasks for which submit returned false
  done,             \* the tasks that have returned
  dtor              \* where the destructor is

vars == <<stop, tasks, mutex, worker, task, caller, offer, refused, done, dtor>>
workerVars == <<worker, task, done>>
callerVars == <<caller, offer, refused>>

WorkerStates == {"idle", "deciding", "parked", "running", "exited"}
CallerStates == {"out", "admitted", "pushed"}
DtorStates   == {"live", "stopping", "joining", "joined"}

InQueue == {tasks[i] : i \in DOMAIN tasks}
InHand  == {task[w] : w \in Workers} \ {NoJob}
Offered == {offer[c] : c \in Callers} \ {NoJob}

Fresh(j) == j \notin InQueue \union InHand \union Offered \union refused \union done

-----------------------------------------------------------------------------
(* The constructor: the threads are created before it returns.             *)

Init ==
  /\ stop = FALSE
  /\ tasks = <<>>
  /\ mutex = Nobody
  /\ worker = [w \in Workers |-> "idle"]
  /\ task = [w \in Workers |-> NoJob]
  /\ caller = [c \in Callers |-> "out"]
  /\ offer = [c \in Callers |-> NoJob]
  /\ refused = {}
  /\ done = {}
  /\ dtor = "live"

-----------------------------------------------------------------------------
(* The worker loop.                                                        *)

\* The wait predicate is false: the worker goes on to block, holding the mutex.
FindNothing(w) ==
  /\ worker[w] = "idle"
  /\ mutex = Nobody
  /\ ~stop /\ tasks = <<>>
  /\ mutex' = w
  /\ worker' = [worker EXCEPT ![w] = "deciding"]
  /\ UNCHANGED <<stop, tasks, task, done, dtor, callerVars>>

\* wait releases the mutex and blocks in one step, whatever stop_ is by now.
Park(w) ==
  /\ worker[w] = "deciding"
  /\ worker' = [worker EXCEPT ![w] = "parked"]
  /\ mutex' = Nobody
  /\ UNCHANGED <<stop, tasks, task, done, dtor, callerVars>>

\* A condition variable may wake without a notification.
WakeSpuriously(w) ==
  /\ worker[w] = "parked"
  /\ worker' = [worker EXCEPT ![w] = "idle"]
  /\ UNCHANGED <<stop, tasks, mutex, task, done, dtor, callerVars>>

\* Mutant: the task is run from the front and never popped.
TakeWithoutPop(w) ==
  /\ worker[w] = "idle"
  /\ mutex = Nobody
  /\ tasks # <<>>
  /\ worker' = [worker EXCEPT ![w] = "running"]
  /\ task' = [task EXCEPT ![w] = Head(tasks)]
  /\ UNCHANGED <<stop, tasks, mutex, done, dtor, callerVars>>

\* Mutant: the newest task is taken first.
TakeNewest(w) ==
  /\ worker[w] = "idle"
  /\ mutex = Nobody
  /\ tasks # <<>>
  /\ worker' = [worker EXCEPT ![w] = "running"]
  /\ task' = [task EXCEPT ![w] = tasks[Len(tasks)]]
  /\ tasks' = SubSeq(tasks, 1, Len(tasks) - 1)
  /\ UNCHANGED <<stop, mutex, done, dtor, callerVars>>

Take(w) ==
  /\ worker[w] = "idle"
  /\ mutex = Nobody
  /\ tasks # <<>>
  /\ worker' = [worker EXCEPT ![w] = "running"]
  /\ task' = [task EXCEPT ![w] = Head(tasks)]
  /\ tasks' = Tail(tasks)
  /\ UNCHANGED <<stop, mutex, done, dtor, callerVars>>

\* task() returns, outside the mutex.
Return(w) ==
  /\ worker[w] = "running"
  /\ worker' = [worker EXCEPT ![w] = "idle"]
  /\ task' = [task EXCEPT ![w] = NoJob]
  /\ done' = done \union {task[w]}
  /\ UNCHANGED <<stop, tasks, mutex, dtor, callerVars>>

\* Mutant: a worker leaves as soon as stop_ is set, whatever is queued.
ExitAtStop(w) ==
  /\ worker[w] = "idle"
  /\ mutex = Nobody
  /\ stop
  /\ worker' = [worker EXCEPT ![w] = "exited"]
  /\ UNCHANGED <<stop, tasks, mutex, task, done, dtor, callerVars>>

Exit(w) ==
  /\ worker[w] = "idle"
  /\ mutex = Nobody
  /\ stop /\ tasks = <<>>
  /\ worker' = [worker EXCEPT ![w] = "exited"]
  /\ UNCHANGED <<stop, tasks, mutex, task, done, dtor, callerVars>>

-----------------------------------------------------------------------------
(* submit, while the object exists.                                        *)

\* Mutant: stop_ is tested before the mutex is taken.
AdmitUnlocked(c, j) ==
  /\ dtor # "joined"
  /\ caller[c] = "out"
  /\ mutex = Nobody
  /\ Fresh(j)
  /\ ~stop
  /\ caller' = [caller EXCEPT ![c] = "admitted"]
  /\ offer' = [offer EXCEPT ![c] = j]
  /\ UNCHANGED <<stop, tasks, mutex, refused, dtor, workerVars>>

Admit(c, j) ==
  /\ dtor # "joined"
  /\ caller[c] = "out"
  /\ mutex = Nobody
  /\ Fresh(j)
  /\ ~stop
  /\ mutex' = c
  /\ caller' = [caller EXCEPT ![c] = "admitted"]
  /\ offer' = [offer EXCEPT ![c] = j]
  /\ UNCHANGED <<stop, tasks, refused, dtor, workerVars>>

Refuse(c, j) ==
  /\ dtor # "joined"
  /\ caller[c] = "out"
  /\ mutex = Nobody
  /\ Fresh(j)
  /\ stop
  /\ refused' = refused \union {j}
  /\ UNCHANGED <<stop, tasks, mutex, caller, offer, dtor, workerVars>>

\* Mutant: the task pushed is one already moved from.
PushMovedFrom(c) ==
  /\ caller[c] = "admitted"
  /\ tasks' = Append(tasks, NoJob)
  /\ caller' = [caller EXCEPT ![c] = "pushed"]
  /\ offer' = [offer EXCEPT ![c] = NoJob]
  /\ mutex' = Nobody
  /\ UNCHANGED <<stop, refused, dtor, workerVars>>

Push(c) ==
  /\ caller[c] = "admitted"
  /\ tasks' = Append(tasks, offer[c])
  /\ caller' = [caller EXCEPT ![c] = "pushed"]
  /\ offer' = [offer EXCEPT ![c] = NoJob]
  /\ mutex' = Nobody
  /\ UNCHANGED <<stop, refused, dtor, workerVars>>

\* notify_one: one of the blocked workers, any of them; nothing if there is none.
WakeOne ==
  LET parked == {w \in Workers : worker[w] = "parked"}
  IN  \/ \E w \in parked : worker' = [worker EXCEPT ![w] = "idle"]
      \/ parked = {} /\ UNCHANGED worker

\* Mutant: submit forgets to notify.
SubmitNotifyForgotten(c) ==
  /\ caller[c] = "pushed"
  /\ caller' = [caller EXCEPT ![c] = "out"]
  /\ UNCHANGED <<stop, tasks, mutex, task, offer, refused, done, dtor, worker>>

SubmitNotify(c) ==
  /\ caller[c] = "pushed"
  /\ WakeOne
  /\ caller' = [caller EXCEPT ![c] = "out"]
  /\ UNCHANGED <<stop, tasks, mutex, task, offer, refused, done, dtor>>

-----------------------------------------------------------------------------
(* The destructor: it never takes the mutex.                               *)

StoreStop ==
  /\ dtor = "live"
  /\ stop' = TRUE
  /\ dtor' = "stopping"
  /\ UNCHANGED <<tasks, mutex, workerVars, callerVars>>

\* Mutant: the destructor wakes one worker only.
NotifyOne ==
  /\ dtor = "stopping"
  /\ WakeOne
  /\ dtor' = "joining"
  /\ UNCHANGED <<stop, tasks, mutex, task, done, callerVars>>

NotifyAll ==
  /\ dtor = "stopping"
  /\ worker' = [w \in Workers |-> IF worker[w] = "parked" THEN "idle" ELSE worker[w]]
  /\ dtor' = "joining"
  /\ UNCHANGED <<stop, tasks, mutex, task, done, callerVars>>

\* The last join returns. A caller still inside submit would outlive the object
\* (its own misuse), so callers are assumed to be out by then.
Join ==
  /\ dtor = "joining"
  /\ \A w \in Workers : worker[w] = "exited"
  /\ \A c \in Callers : caller[c] = "out"
  /\ dtor' = "joined"
  /\ UNCHANGED <<stop, tasks, mutex, workerVars, callerVars>>

-----------------------------------------------------------------------------

WorkerStep(w) ==
  FindNothing(w) \/ Park(w) \/ Take(w) \/ Return(w) \/ Exit(w)

Next ==
  \/ \E w \in Workers : WorkerStep(w) \/ WakeSpuriously(w)
  \/ \E c \in Callers :
       \/ \E j \in Jobs : Admit(c, j) \/ Refuse(c, j)
       \/ Push(c)
       \/ SubmitNotify(c)
  \/ StoreStop \/ NotifyAll \/ Join

Spec == Init /\ [][Next]_vars

(* The scheduler runs every started thread, tasks return, and the owner,   *)
(* once in the destructor, goes on. Nobody has to submit or to destroy, and *)
(* the standard promises no spurious wake-up.                              *)
Fairness ==
  /\ \A w \in Workers : WF_vars(WorkerStep(w))
  /\ \A c \in Callers : WF_vars(Push(c)) /\ WF_vars(SubmitNotify(c))
  /\ WF_vars(NotifyAll)
  /\ WF_vars(Join)

FairSpec == Spec /\ Fairness

-----------------------------------------------------------------------------
(* Properties.                                                             *)

\* The type invariant.
TypeOK ==
  /\ stop \in BOOLEAN
  /\ tasks \in Seq(Jobs)
  /\ mutex \in Workers \union Callers \union {Nobody}
  /\ worker \in [Workers -> WorkerStates]
  /\ task \in [Workers -> Jobs \union {NoJob}]
  /\ caller \in [Callers -> CallerStates]
  /\ offer \in [Callers -> Jobs \union {NoJob}]
  /\ refused \in SUBSET Jobs
  /\ done \in SUBSET Jobs
  /\ dtor \in DtorStates

\* A task submit accepted cannot be stranded by the destructor: once a worker
\* has left its loop, nothing is queued and no caller that read stop_ as false
\* is still about to push. This is what testing stop_ inside submit's critical
\* section is for.
NoTaskStranded ==
  (\E w \in Workers : worker[w] = "exited") =>
    /\ tasks = <<>>
    /\ \A c \in Callers : caller[c] # "admitted"

\* A task is in one place only: queued once, or in the hands of one worker or
\* of one caller, or refused, or done. No task runs twice or runs though
\* submit returned false.
OnePlace ==
  /\ \A i, k \in DOMAIN tasks : tasks[i] = tasks[k] => i = k
  /\ \A v, w \in Workers : task[v] = task[w] /\ task[v] # NoJob => v = w
  /\ \A c, d \in Callers : offer[c] = offer[d] /\ offer[c] # NoJob => c = d
  /\ InQueue \intersect (InHand \union Offered \union refused \union done) = {}
  /\ InHand \intersect (Offered \union refused \union done) = {}
  /\ Offered \intersect (refused \union done) = {}
  /\ refused \intersect done = {}

\* The pool is a JobQueue: its queue, the tasks in the workers' hands, the
\* finished and the refused ones, and the destructor's progress, follow the
\* abstract specification step by step.
Phase ==
  CASE dtor = "live"   -> "open"
    [] dtor = "joined" -> "closed"
    [] OTHER           -> "closing"

JQ == INSTANCE JobQueue
        WITH pending <- tasks, running <- InHand, finished <- done, phase <- Phase

ImplementsJobQueue == JQ!Spec

\* Every accepted task is run to its end, even when the destructor has started
\* meanwhile and although wake-ups may be lost: notify_one comes after the push,
\* and workers drain the queue before they leave.
AcceptedTaskRuns ==
  \A j \in Jobs : (j \in Offered) ~> (j \in done)

\* The destructor returns provided no worker is between its test of the wait
\* predicate and its sleep when notify_all fires: that window is the only way
\* it can hang.
DestructorReturnsUnraced ==
  (dtor = "stopping" /\ \A w \in Workers : worker[w] # "deciding") ~> (dtor = "joined")

\* "Worker threads drain via ThreadPool's destructor" (SubAgentManager.h:73-74):
\* once the destructor has notified the workers it joins them all and returns.
DestructorReturns == (dtor = "joining") ~> (dtor = "joined")

=============================================================================
