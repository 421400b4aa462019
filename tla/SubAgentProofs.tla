--------------------------- MODULE SubAgentProofs ---------------------------
(***************************************************************************)
(* The safety of the sub-agents' manager for any tasks, waiters and        *)
(* threads: outcomes are final until shutdown, the UI is told the one that *)
(* stays, and when the pool is gone every task has one.                    *)
(***************************************************************************)
EXTENDS SubAgentManager, SequenceTheorems, TLAPS

-----------------------------------------------------------------------------
(* The inductive invariant.                                                *)

OnSteps == {"taken", "marked", "running", "resumed", "judged", "stored", "notified"}
After == {"stored", "notified", "over"}

\* Where a task is, the pool agrees: it is in the queue once, on a worker, or gone. Closing
\* begins after shutdown with nobody inside runAsync.
Pooled ==
  /\ \A i \in 1 .. Len(queue) : step[queue[i]] = "queued"
  /\ \A i, j \in 1 .. Len(queue) : queue[i] = queue[j] => i = j
  /\ \A t \in Tasks : step[t] = "queued" => \E i \in 1 .. Len(queue) : queue[i] = t
  /\ \A t \in Tasks : step[t] \in OnSteps => t \in active
  /\ phase # "open" => \A t \in Tasks : step[t] # "listed"
  /\ phase = "closed" => queue = <<>> /\ active = {}

\* A worker's verdict, once stored, is the status, and what the UI is told last; before
\* shutdown nothing else settles a task.
Outcome(t) ==
  /\ step[t] = "absent" <=> status[t] = "none"
  /\ step[t] \in After \union {"judged"} => verdict[t] \in Settled
  /\ step[t] \in After => status[t] = verdict[t]
  /\ step[t] = "over" => told[t] # <<>> /\ told[t][Len(told[t])] = verdict[t]
  /\ shut = "no" /\ IsSettled(t) => step[t] \in After

Outcomes == \A t \in Tasks : Outcome(t)

Snapshot == \A t \in unmarked : status[t] # "none"

ManagerInv == TypeOK /\ Pooled /\ Outcomes /\ Snapshot

-----------------------------------------------------------------------------
(* Queues.                                                                 *)

LEMMA Popped ==
  ASSUME NEW S, NEW q \in Seq(S), q # <<>>
  PROVE  /\ Tail(q) \in Seq(S) /\ Head(q) \in S /\ Head(q) = q[1] /\ 1 \in 1 .. Len(q)
         /\ Len(q) \in Nat /\ Len(Tail(q)) = Len(q) - 1
         /\ \A i \in 1 .. Len(Tail(q)) : i + 1 \in 1 .. Len(q) /\ Tail(q)[i] = q[i + 1]
<1>1. Len(q) \in Nat /\ Len(q) # 0
  BY EmptySeq, LenProperties
<1>2. Tail(q) \in Seq(S) /\ Head(q) \in S /\ Len(Tail(q)) = Len(q) - 1
      /\ \A i \in 1 .. Len(Tail(q)) : Tail(q)[i] = q[i + 1]
  BY HeadTailProperties
<1> QED  BY <1>1, <1>2

LEMMA Pushed ==
  ASSUME NEW S, NEW q \in Seq(S), NEW x \in S
  PROVE  /\ Append(q, x) \in Seq(S) /\ Append(q, x) # <<>>
         /\ Len(q) \in Nat /\ Len(Append(q, x)) = Len(q) + 1
         /\ \A i \in 1 .. Len(q) : Append(q, x)[i] = q[i]
         /\ Append(q, x)[Len(q) + 1] = x
BY AppendProperties, LenProperties

-----------------------------------------------------------------------------
(* What steps of a kind keep.                                              *)

\* A step that moves a task on its worker, or puts it into the table.
LEMMA PoolKept ==
  ASSUME TypeOK, Pooled, UNCHANGED poolVars, NEW t \in Tasks, NEW x \in Steps,
         step' = [step EXCEPT ![t] = x],
         \/ step[t] \in OnSteps /\ x \in OnSteps
         \/ step[t] = "absent" /\ x = "listed" /\ phase = "open"
  PROVE  Pooled'
<1>1. queue' = queue /\ active' = active /\ phase' = phase
  BY DEF poolVars
<1>2. step'[t] = x /\ \A u \in Tasks : u # t => step'[u] = step[u]
  BY DEF TypeOK
<1>3. \A i \in 1 .. Len(queue) : queue[i] \in Tasks /\ queue[i] # t
  <2>1. \A i \in 1 .. Len(queue) : queue[i] \in Tasks
    BY LenProperties DEF TypeOK
  <2> QED  BY <2>1 DEF Pooled, OnSteps
<1>4. \A u \in Tasks : step'[u] = "queued" => step[u] = "queued"
  BY <1>2 DEF OnSteps
<1>5. \A u \in Tasks : step'[u] \in OnSteps => step[u] \in OnSteps
  BY <1>2 DEF OnSteps
<1>6. phase # "open" => \A u \in Tasks : step'[u] # "listed"
  BY <1>2 DEF Pooled, OnSteps
<1> QED  BY <1>1, <1>2, <1>3, <1>4, <1>5, <1>6 DEF Pooled

LEMMA PoolStays == ASSUME Pooled, UNCHANGED <<step, poolVars>> PROVE Pooled'
BY DEF Pooled, poolVars

\* A step that touches one task at most.
LEMMA OutcomesKept ==
  ASSUME TypeOK, Outcomes, NEW t \in Tasks, Outcome(t)',
         \A u \in Tasks \ {t} : /\ step'[u] = step[u] /\ status'[u] = status[u]
                                /\ verdict'[u] = verdict[u] /\ told'[u] = told[u],
         shut' = "no" => shut = "no"
  PROVE  Outcomes'
BY DEF Outcomes, Outcome, IsSettled

LEMMA OutcomesStay ==
  ASSUME Outcomes, UNCHANGED <<step, status, verdict, told>>, shut' = "no" => shut = "no"
  PROVE  Outcomes'
BY DEF Outcomes, Outcome, IsSettled

-----------------------------------------------------------------------------
(* The steps of a task.                                                    *)

LEMMA RunAsyncKeeps == ASSUME ManagerInv, NEW t \in Tasks, RunAsync(t) PROVE ManagerInv'
<1> USE DEF shutVars, waitVars, poolVars
<1>1. TypeOK'
  BY DEF ManagerInv, RunAsync, TypeOK, Steps, Statuses
<1>2. Pooled'
  BY PoolKept DEF ManagerInv, RunAsync, Steps
<1>3. Outcome(t)'
  BY DEF ManagerInv, RunAsync, TypeOK, Outcome, After, IsSettled, Settled
<1>4. Outcomes'
  BY <1>3, OutcomesKept DEF ManagerInv, RunAsync, TypeOK
<1>5. Snapshot'
  BY DEF ManagerInv, RunAsync, TypeOK, Snapshot
<1> QED  BY <1>1, <1>2, <1>4, <1>5 DEF ManagerInv

LEMMA SubmitKeeps == ASSUME ManagerInv, NEW t \in Tasks, Submit(t) PROVE ManagerInv'
<1>1. /\ queue' = Append(queue, t) /\ phase # "closed" /\ step[t] = "listed"
      /\ step' = [step EXCEPT ![t] = "queued"]
      /\ UNCHANGED <<active, returned, refusals, phase, threads, status, verdict, told, cancel,
                     shutVars, waitVars>>
  BY DEF Submit, Pool!Accept
<1>2. /\ queue' \in Seq(Tasks) /\ Len(queue) \in Nat /\ Len(queue') = Len(queue) + 1
      /\ \A i \in 1 .. Len(queue) : queue'[i] = queue[i]
      /\ queue'[Len(queue) + 1] = t
  BY <1>1, Pushed DEF ManagerInv, TypeOK
<1>3. TypeOK'
  BY <1>1, <1>2 DEF ManagerInv, TypeOK, Steps, shutVars, waitVars
<1>4. step'[t] = "queued" /\ \A u \in Tasks : u # t => step'[u] = step[u]
  BY <1>1 DEF ManagerInv, TypeOK
<1>5. \A i \in 1 .. Len(queue) : queue[i] \in Tasks /\ queue[i] # t
  <2>1. \A i \in 1 .. Len(queue) : queue[i] \in Tasks
    BY LenProperties DEF ManagerInv, TypeOK
  <2> QED  BY <1>1, <2>1 DEF ManagerInv, Pooled
<1>6. Pooled'
  <2>1. \A i \in 1 .. Len(queue') : step'[queue'[i]] = "queued"
    BY <1>2, <1>4, <1>5 DEF ManagerInv, Pooled
  <2>2. \A i, j \in 1 .. Len(queue') : queue'[i] = queue'[j] => i = j
    BY <1>2, <1>5 DEF ManagerInv, Pooled
  <2>3. \A u \in Tasks : step'[u] = "queued" => \E i \in 1 .. Len(queue') : queue'[i] = u
    <3>1. ASSUME NEW u \in Tasks, u # t, step'[u] = "queued"
          PROVE  \E i \in 1 .. Len(queue') : queue'[i] = u
      <4>1. PICK i \in 1 .. Len(queue) : queue[i] = u
        BY <1>4, <3>1 DEF ManagerInv, Pooled
      <4> QED  BY <1>2, <4>1
    <3> QED  BY <1>2, <3>1
  <2>4. \A u \in Tasks : step'[u] \in OnSteps => u \in active
    BY <1>4 DEF ManagerInv, Pooled, OnSteps
  <2>5. phase # "open" => \A u \in Tasks : step'[u] # "listed"
    BY <1>4 DEF ManagerInv, Pooled
  <2> QED  BY <1>1, <2>1, <2>2, <2>3, <2>4, <2>5 DEF Pooled
<1>7. Outcome(t)'
  BY <1>1, <1>4 DEF ManagerInv, Outcomes, Outcome, After, IsSettled, shutVars
<1>8. Outcomes'
  BY <1>1, <1>4, <1>7, OutcomesKept DEF ManagerInv, shutVars
<1>9. Snapshot'
  BY <1>1 DEF ManagerInv, Snapshot, shutVars
<1> QED  BY <1>3, <1>6, <1>8, <1>9 DEF ManagerInv

LEMMA TakeKeeps == ASSUME ManagerInv, NEW t \in Tasks, Take(t) PROVE ManagerInv'
<1>1. /\ queue # <<>> /\ Head(queue) = t /\ queue' = Tail(queue) /\ active' = active \union {t}
      /\ step[t] = "queued" /\ step' = [step EXCEPT ![t] = "taken"]
      /\ UNCHANGED <<returned, refusals, phase, threads, status, verdict, told, cancel, shutVars,
                     waitVars>>
  BY DEF Take, Pool!Start
<1>2. /\ queue' \in Seq(Tasks) /\ queue[1] = t /\ 1 \in 1 .. Len(queue)
      /\ Len(queue) \in Nat /\ Len(queue') = Len(queue) - 1
      /\ \A i \in 1 .. Len(queue') : i + 1 \in 1 .. Len(queue) /\ queue'[i] = queue[i + 1]
  BY <1>1, Popped DEF ManagerInv, TypeOK
<1>3. TypeOK'
  BY <1>1, <1>2 DEF ManagerInv, TypeOK, Steps, shutVars, waitVars
<1>4. step'[t] = "taken" /\ \A u \in Tasks : u # t => step'[u] = step[u]
  BY <1>1 DEF ManagerInv, TypeOK
<1>5. \A i \in 1 .. Len(queue) : queue[i] \in Tasks
  BY LenProperties DEF ManagerInv, TypeOK
<1>6. Pooled'
  <2>1. \A i \in 1 .. Len(queue') : step'[queue'[i]] = "queued"
    <3>1. ASSUME NEW i \in 1 .. Len(queue') PROVE queue[i + 1] # t /\ step[queue[i + 1]] = "queued"
      BY <1>2 DEF ManagerInv, Pooled
    <3> QED  BY <1>2, <1>4, <1>5, <3>1
  <2>2. \A i, j \in 1 .. Len(queue') : queue'[i] = queue'[j] => i = j
    <3>1. ASSUME NEW i \in 1 .. Len(queue'), NEW j \in 1 .. Len(queue'), queue'[i] = queue'[j]
          PROVE  i + 1 = j + 1
      BY <1>2, <3>1 DEF ManagerInv, Pooled
    <3> QED  BY <1>2, <3>1
  <2>3. ASSUME NEW u \in Tasks, step'[u] = "queued" PROVE \E i \in 1 .. Len(queue') : queue'[i] = u
    <3>1. u # t /\ step[u] = "queued"
      BY <1>4, <2>3
    <3>2. PICK i \in 1 .. Len(queue) : queue[i] = u
      BY <3>1 DEF ManagerInv, Pooled
    <3>3. i - 1 \in 1 .. Len(queue') /\ (i - 1) + 1 = i
      BY <1>2, <3>1, <3>2
    <3> QED  BY <1>2, <3>2, <3>3
  <2>4. \A u \in Tasks : step'[u] \in OnSteps => u \in active'
    BY <1>1, <1>4 DEF ManagerInv, Pooled
  <2>5. phase # "open" => \A u \in Tasks : step'[u] # "listed"
    BY <1>4 DEF ManagerInv, Pooled
  <2>6. phase # "closed"
    BY <1>1 DEF ManagerInv, Pooled
  <2> QED  BY <1>1, <2>1, <2>2, <2>3, <2>4, <2>5, <2>6 DEF Pooled
<1>7. Outcome(t)'
  BY <1>1, <1>4 DEF ManagerInv, Outcomes, Outcome, After, IsSettled, shutVars
<1>8. Outcomes'
  BY <1>1, <1>4, <1>7, OutcomesKept DEF ManagerInv, shutVars
<1>9. Snapshot'
  BY <1>1 DEF ManagerInv, Snapshot, shutVars
<1> QED  BY <1>3, <1>6, <1>8, <1>9 DEF ManagerInv

\* The steps on a worker before the last.
OnWorkerStep(t) ==
  MarkRunning(t) \/ TellStarted(t) \/ RunReturns(t) \/ RunThrows(t) \/ Finalize(t) \/ Notify(t)

LEMMA OnWorkerKeeps == ASSUME ManagerInv, NEW t \in Tasks, OnWorkerStep(t) PROVE ManagerInv'
<1> USE DEF shutVars, waitVars
<1>1. PICK x \in OnSteps : step' = [step EXCEPT ![t] = x]
  BY DEF OnWorkerStep, MarkRunning, TellStarted, RunReturns, RunThrows, Finalize, Notify, OnSteps
<1>2. step[t] \in OnSteps /\ UNCHANGED poolVars /\ shut' = shut /\ unmarked' = unmarked
  BY DEF OnWorkerStep, MarkRunning, TellStarted, RunReturns, RunThrows, Finalize, Notify, OnSteps
<1>3. Pooled'
  BY <1>1, <1>2, PoolKept DEF ManagerInv, OnSteps, Steps
<1>4. verdict[t] \in Settled \/ step[t] # "judged"
  BY DEF ManagerInv, Outcomes, Outcome
<1>5. TypeOK'
  <2>1. step' \in [Tasks -> Steps]
    BY <1>1 DEF ManagerInv, TypeOK, OnSteps, Steps
  <2>2. status' \in [Tasks -> Statuses] /\ verdict' \in [Tasks -> Settled \union {"none"}]
        /\ woken' \in SUBSET Waiters
    BY <1>4 DEF ManagerInv, TypeOK, OnWorkerStep, MarkRunning, TellStarted, RunReturns, RunThrows,
                Finalize, Notify, WakeAll, Statuses, Settled
  <2>3. told' \in [Tasks -> Seq(Statuses)]
    <3>1. Append(told[t], status[t]) \in Seq(Statuses)
      BY Pushed DEF ManagerInv, TypeOK
    <3> QED  BY <3>1 DEF ManagerInv, TypeOK, OnWorkerStep, MarkRunning, TellStarted, RunReturns,
                         RunThrows, Finalize, Notify
  <2>4. UNCHANGED <<threads, cancel, shut, unmarked, marked, waiting>>
    BY DEF OnWorkerStep, MarkRunning, TellStarted, RunReturns, RunThrows, Finalize, Notify
  <2> QED  BY <1>2, <2>1, <2>2, <2>3, <2>4 DEF ManagerInv, TypeOK, poolVars
<1>6. \A u \in Tasks \ {t} : /\ step'[u] = step[u] /\ status'[u] = status[u]
                             /\ verdict'[u] = verdict[u] /\ told'[u] = told[u]
  BY DEF ManagerInv, TypeOK, OnWorkerStep, MarkRunning, TellStarted, RunReturns, RunThrows, Finalize, Notify
<1>7. Outcome(t)'
  <2> USE DEF ManagerInv, TypeOK, Outcomes, Outcome, After, IsSettled, Settled
  <2>1. CASE MarkRunning(t)
    BY <2>1 DEF MarkRunning
  <2>2. CASE TellStarted(t)
    BY <2>2 DEF TellStarted
  <2>3. CASE RunReturns(t)
    BY <2>3 DEF RunReturns
  <2>4. CASE RunThrows(t)
    BY <2>4 DEF RunThrows
  <2>5. CASE Finalize(t)
    BY <2>5 DEF Finalize
  <2>6. CASE Notify(t)
    BY <2>6 DEF Notify
  <2> QED  BY <2>1, <2>2, <2>3, <2>4, <2>5, <2>6 DEF OnWorkerStep
<1>8. Outcomes'
  BY <1>2, <1>6, <1>7, OutcomesKept DEF ManagerInv
<1>9. Snapshot'
  <2>1. \A u \in Tasks : status[u] # "none" => status'[u] # "none"
    BY <1>4 DEF ManagerInv, TypeOK, OnWorkerStep, MarkRunning, TellStarted, RunReturns, RunThrows,
                Finalize, Notify, Settled
  <2> QED  BY <1>2, <2>1 DEF ManagerInv, Snapshot, TypeOK
<1> QED  BY <1>3, <1>5, <1>8, <1>9 DEF ManagerInv

LEMMA TellEndedKeeps == ASSUME ManagerInv, NEW t \in Tasks, TellEnded(t) PROVE ManagerInv'
<1>1. /\ step[t] = "notified" /\ step' = [step EXCEPT ![t] = "over"]
      /\ told' = [told EXCEPT ![t] = Append(@, verdict[t])]
      /\ active' = active \ {t} /\ returned' = returned \union {t}
      /\ UNCHANGED <<queue, refusals, phase, threads, status, verdict, cancel, shutVars, waitVars>>
  BY DEF TellEnded, Pool!Finish
<1>2. verdict[t] \in Settled /\ status[t] = verdict[t]
  BY <1>1 DEF ManagerInv, Outcomes, Outcome, After
<1>3. told[t] \in Seq(Statuses) /\ verdict[t] \in Statuses
  BY <1>2 DEF ManagerInv, TypeOK, Statuses
<1>4. /\ told'[t] \in Seq(Statuses) /\ told'[t] # <<>>
      /\ told'[t][Len(told'[t])] = verdict[t]
  <2>1. told'[t] = Append(told[t], verdict[t])
    BY <1>1 DEF ManagerInv, TypeOK
  <2> QED  BY <1>3, <2>1, Pushed
<1>5. TypeOK'
  <2>1. told' \in [Tasks -> Seq(Statuses)]
    BY <1>1, <1>4 DEF ManagerInv, TypeOK
  <2> QED  BY <1>1, <2>1 DEF ManagerInv, TypeOK, Steps, shutVars, waitVars
<1>6. step'[t] = "over" /\ \A u \in Tasks : u # t => step'[u] = step[u]
  BY <1>1 DEF ManagerInv, TypeOK
<1>7. Pooled'
  <2>1. \A i \in 1 .. Len(queue) : queue[i] \in Tasks
    BY LenProperties DEF ManagerInv, TypeOK
  <2>2. \A i \in 1 .. Len(queue) : step'[queue[i]] = "queued"
    BY <1>1, <1>6, <2>1 DEF ManagerInv, Pooled
  <2> QED  BY <1>1, <1>6, <2>2 DEF ManagerInv, Pooled, OnSteps
<1>8. Outcome(t)'
  BY <1>1, <1>2, <1>4, <1>6 DEF ManagerInv, Outcomes, Outcome, After, IsSettled, Settled, shutVars
<1>9. \A u \in Tasks \ {t} : told'[u] = told[u]
  BY <1>1 DEF ManagerInv, TypeOK
<1>10. Outcomes'
  BY <1>1, <1>6, <1>8, <1>9, OutcomesKept DEF ManagerInv, shutVars
<1>11. Snapshot'
  BY <1>1 DEF ManagerInv, Snapshot, shutVars
<1> QED  BY <1>5, <1>7, <1>10, <1>11 DEF ManagerInv

-----------------------------------------------------------------------------
(* Waits, the token, shutdown and the destructor.                          *)

LEMMA WaitingKeeps ==
  ASSUME ManagerInv,
         \/ \E w \in Clients, t \in Tasks : ClientWaits(w, t)
         \/ \E w \in Waiters : Recheck(w) \/ Timeout(w)
         \/ TripCancel \/ ClearCancel
  PROVE  ManagerInv'
<1> USE DEF taskVars, shutVars, waitVars
<1>1. UNCHANGED <<taskVars, shutVars, poolVars>>
  BY DEF ClientWaits, Recheck, Timeout, TripCancel, ClearCancel
<1>2. cancel' \in {"null", "clear", "tripped"} /\ woken' \in SUBSET Waiters
      /\ waiting' \in [Waiters -> Tasks \union {NoTask}]
  <2>1. CASE \E w \in Clients, t \in Tasks : ClientWaits(w, t)
    BY <2>1 DEF ManagerInv, TypeOK, ClientWaits, Block, Waiters
  <2>2. CASE \E w \in Waiters : Recheck(w) \/ Timeout(w)
    BY <2>2 DEF ManagerInv, TypeOK, Recheck, Timeout
  <2>3. CASE TripCancel \/ ClearCancel
    BY <2>3 DEF ManagerInv, TypeOK, TripCancel, ClearCancel
  <2> QED  BY <2>1, <2>2, <2>3
<1>3. TypeOK'
  BY <1>1, <1>2 DEF ManagerInv, TypeOK, poolVars
<1>4. Pooled' /\ Outcomes'
  BY <1>1, PoolStays, OutcomesStay DEF ManagerInv
<1>5. Snapshot'
  BY <1>1 DEF ManagerInv, Snapshot
<1> QED  BY <1>3, <1>4, <1>5 DEF ManagerInv

LEMMA TaskWaitsKeeps == ASSUME ManagerInv, NEW u \in Tasks, NEW t \in Tasks, TaskWaits(u, t) PROVE ManagerInv'
<1> USE DEF shutVars
<1>1. /\ step[u] = "running" /\ step' = [step EXCEPT ![u] = "resumed"]
      /\ waiting' = [waiting EXCEPT ![u] = t]
      /\ UNCHANGED <<woken, threads, status, verdict, told, cancel, shutVars, poolVars>>
  BY DEF TaskWaits, Block
<1>2. TypeOK'
  BY <1>1 DEF ManagerInv, TypeOK, Steps, Waiters, poolVars
<1>3. Pooled'
  BY <1>1, PoolKept DEF ManagerInv, OnSteps, Steps
<1>4. Outcome(u)'
  BY <1>1 DEF ManagerInv, TypeOK, Outcomes, Outcome, After, IsSettled
<1>5. Outcomes'
  BY <1>1, <1>4, OutcomesKept DEF ManagerInv, TypeOK
<1>6. Snapshot'
  BY <1>1 DEF ManagerInv, Snapshot
<1> QED  BY <1>2, <1>3, <1>5, <1>6 DEF ManagerInv

LEMMA ShutdownKeeps ==
  ASSUME ManagerInv, Shutdown \/ ShutdownReturns \/ \E t \in Tasks : NotifyMarked(t)
  PROVE  ManagerInv'
<1> USE DEF taskVars, waitVars
<1>1. UNCHANGED <<taskVars, poolVars>> /\ (shut' = "no" => shut = "no")
  BY DEF Shutdown, ShutdownReturns, NotifyMarked
<1>2. TypeOK'
  BY DEF ManagerInv, TypeOK, Shutdown, ShutdownReturns, NotifyMarked, WakeAll, poolVars
<1>3. Pooled' /\ Outcomes'
  BY <1>1, PoolStays, OutcomesStay DEF ManagerInv
<1>4. Snapshot'
  BY <1>1 DEF ManagerInv, Snapshot, Shutdown, ShutdownReturns, NotifyMarked
<1> QED  BY <1>2, <1>3, <1>4 DEF ManagerInv

LEMMA MarkCancelledKeeps == ASSUME ManagerInv, NEW t \in Tasks, MarkCancelled(t) PROVE ManagerInv'
<1> USE DEF waitVars
<1>1. /\ t \in unmarked /\ unmarked' = unmarked \ {t} /\ shut = "marking" /\ shut' = shut
      /\ UNCHANGED <<threads, step, verdict, told, cancel, waiting, woken, poolVars>>
      /\ status[t] # "none"
  BY DEF MarkCancelled, ManagerInv, Snapshot
<1>2. \A u \in Tasks : u # t => status'[u] = status[u]
  BY DEF MarkCancelled, ManagerInv, TypeOK
<1>3. IF IsSettled(t) THEN status'[t] = status[t] ELSE status'[t] = "Cancelled"
  BY DEF MarkCancelled, ManagerInv, TypeOK
<1>4. TypeOK'
  BY <1>1 DEF ManagerInv, TypeOK, MarkCancelled, Statuses, Settled, poolVars
<1>5. Pooled'
  BY <1>1, PoolStays DEF ManagerInv
<1>6. Outcome(t)'
  <2>1. step[t] \in After => IsSettled(t)
    BY DEF ManagerInv, Outcomes, Outcome, IsSettled
  <2> QED  BY <1>1, <1>3, <2>1 DEF ManagerInv, Outcomes, Outcome
<1>7. Outcomes'
  BY <1>1, <1>2, <1>6, OutcomesKept DEF ManagerInv
<1>8. Snapshot'
  BY <1>1, <1>2 DEF ManagerInv, TypeOK, Snapshot
<1> QED  BY <1>4, <1>5, <1>7, <1>8 DEF ManagerInv

LEMMA ClosingKeeps == ASSUME ManagerInv, DestroyPool \/ Joined PROVE ManagerInv'
<1> USE DEF taskVars, shutVars, waitVars
<1>1. UNCHANGED <<queue, active, returned, refusals, taskVars, cancel, shutVars, waitVars>>
      /\ phase' \in {"closing", "closed"}
  BY DEF DestroyPool, Joined, Pool!BeginClose, Pool!Close
<1>2. TypeOK'
  BY <1>1 DEF ManagerInv, TypeOK
<1>3. Pooled'
  BY <1>1 DEF ManagerInv, Pooled, DestroyPool, Joined, Pool!BeginClose, Pool!Close
<1>4. Outcomes'
  BY <1>1, OutcomesStay DEF ManagerInv
<1>5. Snapshot'
  BY <1>1 DEF ManagerInv, Snapshot
<1> QED  BY <1>2, <1>3, <1>4, <1>5 DEF ManagerInv

-----------------------------------------------------------------------------
(* The theorems.                                                           *)

\* The inductive invariant: the pool and the table agree on where a task is, and from a
\* worker's verdict on nobody but that worker changes its status.
THEOREM ManagerInvariant == Spec => []ManagerInv
<1>1. Init => ManagerInv
  <2> SUFFICES ASSUME Init PROVE ManagerInv
    OBVIOUS
  <2>1. queue = <<>> /\ active = {} /\ returned = {} /\ refusals = {} /\ phase = "open"
    BY DEF Init, Pool!Init
  <2>2. threads \in 1 .. MaxThreads
    BY ThreadsAssumption DEF Init
  <2>3. TypeOK
    BY <2>1, <2>2, EmptySeq DEF Init, TypeOK, Statuses, Steps
  <2>4. Pooled
    BY <2>1, EmptySeq DEF Init, Pooled, OnSteps
  <2>5. Outcomes /\ Snapshot
    BY DEF Init, Outcomes, Outcome, Snapshot, After, IsSettled, Settled
  <2> QED  BY <2>3, <2>4, <2>5 DEF ManagerInv
<1>2. ManagerInv /\ [Next]_vars => ManagerInv'
  <2>1. ASSUME ManagerInv, UNCHANGED vars PROVE ManagerInv'
    <3>1. TypeOK' /\ Snapshot'
      BY <2>1 DEF ManagerInv, TypeOK, Snapshot, vars
    <3>2. Pooled' /\ Outcomes'
      BY <2>1, PoolStays, OutcomesStay DEF ManagerInv, vars, poolVars
    <3> QED  BY <3>1, <3>2 DEF ManagerInv
  <2> QED  BY <2>1, RunAsyncKeeps, SubmitKeeps, TakeKeeps, OnWorkerKeeps, TellEndedKeeps, WaitingKeeps,
              TaskWaitsKeeps, ShutdownKeeps, MarkCancelledKeeps, ClosingKeeps
              DEF Next, WorkerStep, OnWorkerStep, ShutdownStep
<1> QED  BY <1>1, <1>2, PTL DEF Spec

\* Every variable has its type, whatever sub-agents start and wait for.
THEOREM ManagerTypeCorrect == Spec => []TypeOK
<1>1. ManagerInv => TypeOK
  BY DEF ManagerInv
<1> QED  BY <1>1, ManagerInvariant, PTL

\* When the pool is gone, every task of the table has a worker's outcome: the destructor
\* drains the queue, and shutdown's mark stops no worker (SubAgentManager.cpp, shutdown).
THEOREM AllSettled == Spec => []AllSettledAtEnd
<1>1. ManagerInv => AllSettledAtEnd
  <2> SUFFICES ASSUME ManagerInv, phase = "closed", NEW t \in Tasks, status[t] # "none"
               PROVE  IsSettled(t) /\ step[t] = "over"
    BY DEF AllSettledAtEnd
  <2>1. step[t] \notin {"absent", "listed"} \union OnSteps
    BY DEF ManagerInv, Pooled, Outcomes, Outcome
  <2>2. step[t] # "queued"
    BY EmptySeq DEF ManagerInv, Pooled
  <2>3. step[t] = "over"
    BY <2>1, <2>2 DEF ManagerInv, TypeOK, Steps, OnSteps
  <2> QED  BY <2>3 DEF ManagerInv, Outcomes, Outcome, IsSettled, After
<1> QED  BY <1>1, ManagerInvariant, PTL

\* The snapshot the worker shows the UI last is the status the task keeps (finalize).
THEOREM UiIsTold == Spec => []UiToldTheOutcome
<1>1. ManagerInv => UiToldTheOutcome
  BY DEF ManagerInv, Outcomes, Outcome, UiToldTheOutcome, After
<1> QED  BY <1>1, ManagerInvariant, PTL

\* Until shutdown is called only the worker settles a task, once.
THEOREM OutcomesAreFinal == Spec => OutcomeFinal
<1>1. ManagerInv /\ [Next]_vars => \A t \in Tasks : shut = "no" /\ IsSettled(t) => status'[t] = status[t]
  <2> SUFFICES ASSUME ManagerInv, [Next]_vars, NEW t \in Tasks, shut = "no", IsSettled(t)
               PROVE  status'[t] = status[t]
    OBVIOUS
  <2>1. step[t] \in After /\ status[t] # "none"
    BY DEF ManagerInv, Outcomes, Outcome, IsSettled, Settled
  <2>2. ASSUME NEW u \in Tasks, RunAsync(u) \/ MarkRunning(u) \/ Finalize(u) PROVE status'[t] = status[t]
    <3>1. u # t
      BY <2>1, <2>2 DEF RunAsync, MarkRunning, Finalize, After
    <3> QED  BY <2>2, <3>1 DEF RunAsync, MarkRunning, Finalize, ManagerInv, TypeOK
  <2>3. CASE status' = status
    BY <2>3
  <2>4. \/ status' = status
        \/ \E u \in Tasks : RunAsync(u) \/ MarkRunning(u) \/ Finalize(u)
    BY DEF Next, WorkerStep, ShutdownStep, vars, taskVars, Submit, Take, TellStarted, RunReturns, RunThrows,
           Notify, TellEnded, ClientWaits, TaskWaits, Recheck, Timeout, TripCancel, ClearCancel, Shutdown,
           MarkCancelled, NotifyMarked, ShutdownReturns, DestroyPool, Joined
  <2> QED  BY <2>2, <2>3, <2>4
<1> QED  BY <1>1, ManagerInvariant, PTL DEF Spec, OutcomeFinal

=============================================================================
