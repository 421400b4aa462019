# miniclaude-cpp: a TLA+ model of its core

miniclaude-cpp is a coding assistant for the terminal: a text user interface over
an agent loop that talks to a language model, runs the tools it calls after asking
for permission, delegates to sub-agents, keeps sessions on disk and speaks to MCP
servers. These modules specify the parts in which the order of events matters,
check them with TLC on small instances, and prove the most important facts with
TLAPS for every value of the constants.

Paths below are relative to `src/src/`.

## 1. Inventory

### Threads

* the **UI thread** runs FTXUI's loop, `App::onSubmit`, the commands and the
  permission dialog;
* the **turn worker**, one thread of the App's `ThreadPool`, runs the agent loop of
  the submission and saves the session;
* the **background workers**, two threads of `SubAgentManager`'s `ThreadPool`, run
  sub-agents;
* `main` builds everything, connects the MCP servers, and destroys it in reverse order.

They share the conversation, the cancel token, `taskRunning_`, the permission
request, the sub-agents' table, two queues, the clients of the MCP servers, and the
registries of skills, commands and sub-agents with the files behind them.

### Components

| component | state | operations | hard behaviour | what makes it correct |
|---|---|---|---|---|
| Thread pool `util/ThreadPool.h` | queue, stop flag, where each worker is | submit, worker loop, destructor | stop flag stored without the mutex; lost wake-ups | an accepted task runs exactly once; the destructor returns |
| Background sub-agents `subagent/` | task table, status of each, the shared token | runAsync, runWorker, finalize, waitFor, shutdown | shutdown and worker write one status; waits that hold a pool thread | outcomes are final, waiters wake, every task gets an outcome |
| Tool-call executor `core/StreamToolExecutor.cpp` | queue of calls, results, the abort flag | enqueue, run | failure in the middle of a batch | stop at the first failure, run only what was allowed, answer all |
| Agent loop `core/AgentLoop.cpp` | the conversation, iteration, round, steps left | run, runWithReflection, runPlanExecute, compaction | cancellation at any point, exceptions, limits, history editing | the conversation stays well formed and nothing said is lost |
| Permission dialog and REPL `ui/ReplView.cpp` | pending request, its result, the dialog, the thinking flag, FTXUI's queue | ask, answer, enter a line, post, exit | a worker blocked on a condition variable the UI must signal; closures of three threads in one queue | an answer is the choice made for that very question; every question is shown; the input comes back |
| Application session `ui/App.cpp`, `main.cpp`, `ui/ResumePicker.cpp` | messages, session id, taskRunning_ | start, submit, /clear, /sessions, delete, exit | test-then-set of taskRunning_; saving under a captured id; a crash anywhere | an accepted message is saved; a session's file holds its own conversation |
| Session store `sessions/` | one file per session | save, load, list, remove | temporary file and rename, two writers | a reader sees a complete session; a resumed one means the same |
| Permission rules `core/PermissionStore.cpp` | rules per tool | load, save, isAllowed, allowForever | a pattern that does not compile | a consent lasts |
| MCP client `mcp/` | connection state, request ids, pipes, child processes | connect, list, call, shutdown | stray lines, servers that die or ignore SIGTERM | an answer belongs to its call; nobody hangs; no child is left |
| LLM client, stream parser, provider `llm/` | bytes not yet parsed, fragments of calls | send, feed, finish, encode, decode | chunks cut anywhere | the same answer however the stream is cut; requests the service accepts |
| LRU cache `util/LruCache.h` | list and map | get, put | limits | list and map agree, the oldest leaves |
| Slash commands `commands/` | templates, the menu | route a line, create a skill, command, sub-agent, rule | names that clash; two creators of one file; failed writes | the menu and the router agree; what was created is kept |
| Registries `skills/`, `subagent/SubAgentRegistry.cpp`, `rules/` | definitions read from files | discover, add, reload | memory and file differ | a restart changes nothing |
| Tools, config, rendering | files, processes, layout | - | I/O only | - |

How they interact: `App::onSubmit` appends the user's message, resets the token and
submits a closure to its pool. The closure runs one of the loop's three modes; the
loop sends the conversation, has the executor run the calls of the answer, and the
executor asks through `ReplView::askPermission`, which blocks the worker until the
UI thread answers. Sub-agent tools reach `SubAgentManager`, which builds another loop
on its own pool. Exit and `/sessions` trip the token both share. A tool of an MCP server
is a call through its client's mutex and pipes, from the turn's thread or a sub-agent's;
the `create_...` tools write a file and change a registry from the same threads, as the
`/create_...` lines do from the UI thread and the pool's worker.

The hazards, each at its line and with the properties that watch it, are listed in
`PROJECT.json`.

## 2. Plan

Done, in this order: `JobQueue` and `ThreadPool` (everything runs on it),
`SubAgentManager` over `JobQueue`, `StreamToolExecutor`, `AgentLoop` over it, `UiLoop`
and `ReplView` over it, and the proofs of the pool, the executor, the loop and the
view; then `SessionStore` and `AppSession` over it, `Mcp`, `LlmStream` and `Resources`
composed in `ModelTurn`, and the algorithms without a state of their own as operators:
`Wire`, `LruCache`, `JsonScan`, `Transcript`, `PermissionStore`, `CommandRouter`; then the
proofs of the session, the MCP client, the sub-agents' manager and the conversation; then
those of the turn (stream, resources), of what compaction leaves of the history, and of
three algorithms for inputs of any length.

Left:

1. The other statements about operators (`Wire`, `Transcript`, `PermissionStore`), for
   conversations, closures and rules of any length.
2. The built-in tools that edit files, with a background sub-agent editing the same one.

## 3. Modules

### JobQueue and ThreadPool

`JobQueue` says what a pool promises: accepted jobs are started in the order they
were accepted, each once, by a bounded number of workers; after closing begins nothing
is accepted, and it is closed only when everything accepted has finished.

`ThreadPool` is the code at the grain of its critical sections. A critical section is
one step unless someone can see into it, and the destructor, which takes no lock, can:
so a worker between its predicate and its sleep (`deciding`), and a caller between the
test of `stop_` and the push (`admitted`), are states of their own, holding the mutex.
`worker`, `task`, `caller`, `offer` are the local variables of the threads. A task
that throws ends the process and is not modelled. A caller is assumed to be out of
`submit` when the object dies, as C++ requires of any object.

### SubAgentManager

One action per lock-delimited step of `runAsync`, `runWorker`, `finalize`, `waitFor`,
`shutdown` and the destructor; the pool is an instance of `JobQueue`, which
`ThreadPool` is shown to implement. `told` records what the UI has been told. A
background sub-agent may itself start a task or wait for one, because the tools its
definition lists may be the manager's own (`SubAgentResultTool.cpp`); each waits at
most once per run (a bound). What the agent answers is abstracted to the status it
leads to.

Assumed: when the pool is destroyed no outside thread is inside the manager. `main`
destroys the App first, which joins its worker. The one caller this does not cover is
a background sub-agent in `runAsync` while `bg_pool_.reset()` has already set the
pointer to null; it is recorded as a hazard.

### StreamToolExecutor and AgentLoop

`StreamToolExecutor` is one batch: for each call, skip it (after a failure), ask or
execute, and then its outcome. `granted` and `executed` are ghosts: the positions the
user allowed and those handed to the tool. The rule look-up hooks
(`allowLookup_`, `allowForeverHook_`) are left out: nothing in the program sets them
(the rules are consulted in `ReplView` instead).

`AgentLoop` extends it. `msgs` is the conversation: each message is its kind, the calls
or results it carries, and its form: whole, cut by compaction, or torn, that is, not
valid UTF-8, of which `json::dump` makes an exception; a tool's output may be torn, and
so may the note of a failed request, which quotes the body of an HTTP error. Such a note
is "fault", "cancelled" or "aborted". The last two read alike to the user:
`run` takes an error for a cancellation when the token is tripped, and also when the
error's text happens to contain "aborted", with the token as it was. The answer of the model is a
choice among `Responses`; the critic may be satisfied or object; the planner may give
no step, or up to `MaxSteps`. The threshold of compaction depends on bytes and is left
to chance wherever the number of messages permits it. `sent` is a ghost: how much of
the conversation the model has been shown, beginning with what was found.

| TLA+ | code |
|---|---|
| `Submit` | `App::onSubmit`: message, mode, token, closure |
| `AskModel`, `ReachLimit`, `NoticeCancel` | the top of the loop in `query` |
| `Answered`, `CallsTools`, `RequestFails` | the answer in `query_loop`, the handlers of `run` |
| `RunBatch`, `BatchReturns`, `BatchThrows` | the executor's run and what follows it |
| `RunReturns` | return to `runWithReflection`, `runPlanExecute` or the App |
| `CriticSatisfied`, `CriticObjects` | `criticReview` and what the reflection makes of it |
| `NoPlan`, `Plan` | `planSteps`, the plan message and the first step |
| `SideRequestFails`, `SideRequestThrows` | the App's handler of `LlmError`; an exception it does not handle |

### UiLoop and ReplView

`UiLoop` is FTXUI's loop as the program uses it (vendored under `src/third_party`):
one FIFO queue of tasks, closures posted by any thread, keys fetched together between
a frame and the run of the queue, and an exit that is itself a posted task. Closures
posted once the loop has ended are dropped.

`ReplView` extends it with the view's state that other threads depend on and with the
one worker of the App's pool. `pending`, `request`, `result` are
`permissionPending_`, `permissionRequest_`, `permissionResult_`; `dialog` is the request
the object in `permissionDialogRaw_` was built for, which need not be the request that
is pending. A rule covers the calls its pattern matches, and the store starts with the
file's rules, or none when the file is absent or cannot be read (`Loaded`). Which rule a
call makes, which rules the file may hold and what each covers are constants
(`RuleOf`, `Stored`, `Covers`), to which `MCReplView` gives the values of the operators of
`PermissionStore`. `handler` is where the UI thread is inside a handler that makes several calls,
so that the worker can run between them. `confirmed` and `answers` are histories of
the choices made on dialogs and of what `waitForPermission` returned.

| TLA+ | code |
|---|---|
| `Type`, `LoopTurns` | `RunOnce`: fetching keys, running tasks, drawing, stopping |
| `AnswerDialog`, `HandlerClears` | the event handler while a dialog is up: `Confirm` or `Deny`, `grantPermission`, then the reset of the dialog |
| `EnterLine`, `HandlerPosts`, `HandlerSubmits` | `onEnter`, then `onSubmit`'s posts and `pool.submit` in their order (`After`) |
| `CtrlC`, `IgnoreEsc` | the rest of the event handler |
| `RunAppend`, `RunThinking`, `RunDialog`, `RunExit` | the closures of `appendMessage`, `setThinking`, `waitForPermission`, `Exit` |
| `Passes`, `Remember` | `isAllowed` and `allowForever` of the rules in memory |
| `Raise`, `PostDialog`, `Sleep`, `Return` | `waitForPermission` on the worker |
| `StartJob`, `ShowPlan`, `ResumeThinking`, `Reply`, `Saved` | the job of a turn: what it posts, and `taskRunning_` |
| `CreateTells`, `CreateEnds` | the job of a `/create_` command |
| `Notice` | `setOnToolCall` and `setUiNotify`, called by background workers |
| `DestroyView` | the App's members destroyed in reverse order, the view before the pool |

A line is its text with the Enter that ends it. While a request is pending the input is
hidden and only a command the completion menu has half written can still be
submitted, which is why `EnterLine` has a choice there. What a turn asks, when it ends,
and whether a Ctrl+C finds text to copy or comes within two seconds of the last is left to
chance. `/sessions` opens a loop of its own and belongs to `AppSession`.

### SessionStore and AppSession

`SessionStore` is the files: `files[s]` is the conversation in `session.json`, `Missing`, or
`Torn` when it is no whole JSON; `tmp` the sessions with a temporary file. A save is two steps,
`BeginSave` (directory, truncation of the temporary file) and `EndSave` (the write,
the close, the rename), so that another thread, a deletion or a crash comes between. `shared`
is a history: sessions two threads were saving at once.

`AppSession` extends it with the UI thread, the pool's worker and the process. The view
is reduced to `thinking_` and the closures that set it, the turn to the message it may
add. `mixed` is a history: sessions with a turn under way when the conversation was
replaced, which `SavedWhenIdle`, `DeletedStays` and `AcceptedIsSaved` except and
`SessionsApart` is about.

| TLA+ | code |
|---|---|
| `Start`, `ChooseAtStart` | `main`: a new session, the latest, or one from the list |
| `Submit`, `Refuse`, `Clear`, `Quit` | `App::onSubmit` after `onEnter`'s guard |
| `Sessions`, `StopWaiting`, `Delete`, `Back`, `Switch`, `LeavePicker` | `onSessionsCommand` and the list it opens |
| `SaveTurn`, `UiSave` | `saveTurn` on the UI thread |
| `StartTurn`, `Answer`, `Show`, `Snapshot`, `EndTurn` | the job of a submission: the flag, the loop, the view, the copy of the messages and its save |
| `Notice`, `RunPosted` | the callbacks of sub-agents, the closures |
| `CtrlC`, `Destroy`, `Leave`, `Crash` | the exit, the App's members destroyed in reverse order, the pool joined, SIGKILL |

The members are destroyed before the pool is joined, so a turn still queued or
running at exit goes on without view and conversation (`ui = "gone"`). What its save
then copies is undefined: `Readings` is what the vector held or one of `Residues`, and the
process may also end on the spot (`Crash`). Nothing is claimed of such a turn: `SavedWhenIdle` speaks of
the App while it is up, and `AcceptedIsSaved` is met by its end.

### Mcp

One server is a child process and two pipes, `inbox` and `out`; `call[t]` is the request
thread t reads the answer of, with the client's mutex in its hands. A line is reduced to what
`deserializeResponse` and `readResponse` tell apart: an answer, an error, one of odd
types, a request of the server's own, a notification, junk. `main` starts the servers
one after the other (`Spawn`, `Ask`, `Connected`, `Listed`, `Booted`), threads call
(`Call`, `Skip`, `Returned`), the manager's destructor ends (`Exit`, `Disconnect`,
`Ended`). `AnswerIsOwn` is told by `n`, a number of the whole run, where the code
compares `id`, a number of one client. The program may end otherwise: "terminated" by an
exception nobody catches, "killed" by SIGPIPE.

### LlmStream, Resources and ModelTurn

`LlmStream` is one streamed request. The body is a sequence of events, each a line of
two pieces; `Chunk` hands over any number of pieces, so that a chunk ends within a
line, between lines, or holds many. `Feed`, `ProcessLine`, `Finish` are the parser's.

`Resources` is what `/create_...` and the `create_...` tools do: a creator is at
`generate`, `check`, `open`, `write` or `register`, a file is a sequence of lines
(`Written`), and what is read of it goes through `ParseFrontmatter`. A description of
two lines and a body with leading blanks are there because the file cannot hold
them. `raced` is a history: kinds two creators worked at together.

`ModelTurn` composes them: the calls of a reply run one after the other on the turn's
thread until one fails; a sub-agent calls the tools its definition lists whenever it
does; the user types lines; the program is started again. `WorkerFree` is the pool's one
worker, on which turns and jobs exclude each other.

### Operators

Modules without variables, whose statements TLC evaluates over bounded inputs as
assumptions of `MCModelTurn` and `MCReplView`:

| module | code | statement |
|---|---|---|
| `Wire` | `Session.cpp`, `OpenAIProvider.cpp` | a resumed conversation makes the same request; requests have the form the service insists on; an answer comes back as it was |
| `LruCache` | `LruCache.h` | after any history it holds the keys used last, with their last values |
| `JsonScan` | `extractFirstJsonObject` | the text found is the first object whose braces outside strings are balanced |
| `Transcript` | the closures of `ReplView` | a turn leaves nothing behind; rows keep their order; the stream is on the screen |
| `PermissionStore` | `PermissionStore.cpp` | a consent lasts, nothing is lost, no rule is there twice |
| `CommandRouter` | `CommandRouter.cpp`, `onSubmit` | what the menu offers is what runs; a skill shows its arguments |

A text is a sequence of pieces or characters of a small alphabet throughout. For the cache,
the scan and the menu `OperatorProofs` shows the statement for inputs of any length.

## 4. Runs

| run | instance | shows |
|---|---|---|
| `pool` | 2 workers, 2 callers, 3 tasks | all safety, refinement of `JobQueue`, accepted tasks run, the destructor returns unless raced |
| `pool_hang` | 2 workers, 1 caller, 1 task | the destructor can hang (a finding) |
| `subagent` | 2 tasks, 1 outside waiter, 1 or 2 threads | outcomes, waiters, settling, the UI |
| `subagent_shutdown` | 1 task, 1 thread | a Cancelled mark is overwritten (a finding) |
| `agent_loop` | 2 tools, 2 calls per batch, 2 iterations, 2 rounds, 1 plan step, fresh or used conversation | the executor's and the loop's safety |
| `agent_loop_compaction` | the same with one round | the compaction note splits calls from results (a finding) |
| `repl_view` | 3 calls, of which a rule made of one covers another, 1 rule of the file, 3 keys, up to 2 per frame, 2 questions, 1 notice | consent, rules, the dialog and the input, and that every question reaches the screen |
| `repl_view_exit` | 1 call, 2 keys, 1 question | the view is destroyed under a running job (a finding) |
| `app_session` | 2 sessions, 2 messages, 2 starts, 1 visit to the list, 1 notice | files whole, saved when idle, deletions, accepted messages saved |
| `app_session_mix` | the same | a session's file gets another's messages (a finding) |
| `mcp` | 2 servers, 2 threads, 6 calls, 1 stray line | answers, children, nobody hangs |
| `model_turn` | 4 bodies of up to 8 pieces, 1 request, 2 creations, 1 sub-agent | the reply, what was created, memory and files; and the operators `Wire`, `LruCache`, `JsonScan` |

Why the bounds suffice. *Pool*: the defects of such a pool need one worker asleep, one
deciding or running, and a caller in between; three tasks make FIFO order and
a second task behind a busy pool visible. *Sub-agents*: with one thread and two tasks
one waits for a task queued behind it, with two threads they wait for each other; both
instances are in the run because the thread count is chosen in `Init`. *Loop*: two
calls, one needing permission and one not, cover every order of refusal, failure and
skipping; two iterations reach the limit after a full one; two rounds put a run after
a critic; a plan of one step is followed by the synthesis, so two runs of a turn
follow each other; the used conversation, an earlier turn with an answered call, makes
compaction possible within the turn and lets a result be old enough to be cut.
Conversations hold no system prompt because the App never puts one there. `KeepRecent` is 4 in the run and 6 in
the code: three messages at most come between a result and the request that shows it, so 4 is
the least that spares it. One submission is what TLC can explore; the theorems of
section 5 hold for any number. *View*: three keys are a message and two more, enough to answer two
questions, to submit again, or to press Ctrl+C twice; two keys in one frame let a key be
handled before the frame that would show why it is wrong; two questions let the second
meet the dialog of the first, and three calls let a rule made of one, or the file's, meet a
question about another that it covers or does not. *Sessions*: two sessions and two messages let a turn of one be under way, or
queued behind another, when the other is opened, cleared or deleted; a second start reads what a crash
left. The destroyed conversation is read as it was or as empty. *MCP*: one stray line puts a client a line behind, the calls after it meet the
answers of the ones before; two servers let one fail while the other is up. *Turn*: two
creations are the least that race, or meet what a failed one left; a call of two
fragments, mixed with those of another, is cut at every piece. The operators are
evaluated over conversations of two messages with two blocks of every type, five
operations of a cache of up to three, texts of six characters, three to five closures.

Fairness. Threads that were started are scheduled, and a task of the pool returns
(weak fairness of each worker's steps, of a caller inside `submit`, of a destructor
that has begun). Nobody is obliged to submit, destroy, trip the token or shut
down. For sub-agents the run of an agent returns: a request has a limit of 120 s, a
tool of 30 s, and the loop an iteration limit. Time limits of `waitFor` are not
assumed in `SleeperWakes`, so a missing notification would show, and assumed in
`EveryTaskSettles`, which needs them: a pool whose threads all wait for tasks queued
behind them moves only when a wait expires. The loop has no liveness property: its
requests may fail at will and every counter is bounded, so it ends by its shape.

For the view the UI loop runs its tasks and the worker, unless it is asleep, goes on; the
user need not press any key, and a turn need not end. `DialogAppears` asks only that the
question be shown: that it is answered is up to the user.

For the session the pool's worker goes on, and a turn ends: its requests have time limits
and its questions an answer. Nothing is asked of the user or of the UI thread. For MCP the threads of the program run, and a server with a
request answers it or exits (a server may be silent: then the code waits for ever, and
no property could hold; a finding). `model_turn` has no liveness property.

Deadlock is checked everywhere. The `MC` modules add one stuttering action for the end
of each life (pool joined, nothing left to submit, process gone), so any other state
without a successor is reported.

## 5. Proofs

`ThreadPoolProofs` proves, for any finite or infinite sets of workers, callers and
tasks, `TypeOK`, `NoTaskStranded`, `OnePlace` and `ImplementsJobQueue`. The inductive
invariant says in addition who holds the mutex in which state, that a worker leaves
only after `stop_` and finds the queue empty, and that an admitted caller was admitted
before any worker left: the mutex in its hands is why a worker cannot leave then.
`stop_` being stored without the mutex does not break this, because it is only ever
tested under it. The assumptions are those of the module: there is a worker, threads
are distinct, the sentinels are no members.

`AgentLoopProofs` first proves the executor's invariant (`ExecInv`) for a batch of any
length: results answer a prefix of the queue, a failure among them is exactly
`aborted`, what has run is no later than the position in hand, and what runs gated is
granted. It is then carried through the loop (a batch begins fresh and the
executor is discarded after it) and adds what `NothingAfterCancelled` needs: after a
note of cancellation, and until the next user message, the token is still tripped
whenever the loop is about to ask, and no request is out. The note may come from the loop
or from a request that failed; behind both stands the token, which only a submission resets.
A note that only the words of an error bring about is of a kind of its own ("aborted"):
nothing is proved of it, because the rounds of reflection and the steps of a plan go on
asking after it (section 6). The theorem holds for any
number of iterations, rounds and steps, and any conversation that satisfied it before.

Its last part proves what the loop leaves behind: `CallsAnswered`,
`EndsWithAssistant` and `CutOnlyAfterShown`, for any number of submissions (the run has one).
`Calls` says that every call is answered, but during a batch the last message's, which are
the executor's queue; an answer is looked for beyond notes of compaction because a request
may compact between the two. `Ends` says who has spoken last where a turn may end. For the cuts
`Timely` bounds how far from the end a result may be that no request has shown: the note of
the limit, the next prompt or the user's next message may follow it, and the self-check
before them, hence the assumption of the theorem that compaction spares four messages. A
cancelled turn is excepted with reason: each run of the plan and each later submission
cancelled at once adds two messages and shows none, and any number of spared messages may be
used up. Assumed of the conversation found is that its calls are answered; what it holds
counts as shown.

`HistoryKept` needs only the types of the state: every step but a request leaves the
conversation or adds to its end, and a request may compact it first (`StepsKeep`), which
changes nothing but the text of results and puts one note before the last message
(`CompactedFields`).

`SubAgentProofs` proves `TypeOK`, `AllSettledAtEnd`, `UiToldTheOutcome` and `OutcomeFinal`
for any tasks, waiters and number of threads. `Pooled` says that the table and the pool
agree: a task is in the queue once, on a worker, or done, and closing begins with nobody
inside `runAsync`. `Outcome` says that from the store of its verdict on a task's status is
that verdict, which is the last thing the UI is told, and that before `shutdown` nothing
else settles a task. After it the mark Cancelled may, and only until the
worker stores its own (the finding of `subagent_shutdown`), so that at the end
every task has the outcome of its worker. Assumed are a positive thread limit and that the
sentinel is no task.

`ReplViewProofs` proves the view's safety for any calls, keys, questions and notices.
Its invariant has three parts beside the types. `Gate` says where a pending request is:
about to be posted, queued exactly once with no dialog up, or shown by the dialog; and
that without a pending request there is neither a closure nor a dialog, but for the
reset that the handler of the answering key has still to do. No key runs inside a
handler, so none reaches a new question on an old dialog. `Chosen` says that what the
worker is about to return was confirmed for its request. `Calm` is behind
`NotStuckThinking`: with nothing submitted and the worker free or saving, the queue ends with
the thinking off, every `setThinking(true)` in it being followed by a closure that resets it.
`Sourced` says of every
rule in memory that the file had it or that it is made of a call allowed forever on the
dialog that showed it, whence `RulesFromConsent`. Assumed are that the bounds are naturals,
that `None` is no request, and that every call makes a rule and every rule covers some set of calls,
which may be any (`CoversAssumption`).

`McpProofs` proves `TypeOK`, `AnswerIsOwn` and `ChildrenReaped` for any number of servers
and calls. That an answer is the call's own does not follow from the comparison of ids
alone. The invariant adds `Own`: what is in a client's pipes bears an id given out
before, and whatever bears the id of the call under way is that call's, because an id is
never given out twice on one client and two calls never share one; an answer left behind by a
call that was given up keeps its old id for good. `Order` is behind the children: the
end visits the servers in order, and those before `at` have none left. Assumed are that
the bounds are naturals and the threads what the module says they are.

`AppSessionProofs` proves `TypeOK`, `FilesWhole`, `SavedWhenIdle` and `DeletedStays` for any
sessions, messages, starts and notices. None of the three is inductive. `Store` says of a
session that only one thread saves at a time that its saver has open the temporary file it
made, or one that was deleted. `Savers` and `Captured` say who may save under which id: the UI
thread under the current one, the worker under the one its turn captured, which is the
current one, or both are among those left in mid-turn. So when a turn of an undisturbed session
ends, nobody else is saving it, and `Current` holds: what its saver carries is what
the user sees, since nothing but the turn itself adds to the conversation while
taskRunning_ is up. `Current` ends with the conversation: once the App is destroyed it
says nothing. `Known` says that an id is given out once, that only such an id has a
file, and that a deleted session is not the current one, hence no turn's. Assumed are that the
user's and the worker's are the only threads that save, and that the sentinels are
no ids and no conversations, and that what a destroyed vector reads as is some sequence of messages.

`ModelTurnProofs` proves `TypeOK`, `StreamEqualsWhole`, `CreatedIsKept` and
`SameAfterRestart` for any bodies, chunks, creators and numbers of creations. A body is a
sequence of lines of any length, and the parser is a fold over the pieces of a chunk; the
invariant of the stream says that it is at every moment what the lines read so far say
(`Means`), with half a line in the buffer (`Rest`). That each piece keeps this, and that
two cuts of a line are one line, is shown by induction over the pieces; that the calls
come out in the order of their indexes, each with the fragments of its own, is what the
reference says of the whole body. For the resources `Apart` says that past
the test for a name there is one creator or the race has been noticed, `Opening` that who opens a
file unnoticed finds none, `Writing` whose number an unfinished file bears, and `Same` that
memory and files agree about everything that nobody is writing. Assumed are that the user,
a job and the turn are among the creators, that what sub-agents may create are kinds of
resources, and that the bounds are naturals.

`OperatorProofs` proves of three algorithms, for inputs of any length, what TLC evaluates
for small ones. The cache (`CacheHoldsTheLatest`): after any history of gets and puts, its
list is in the order of the last uses, bears the values last put, and lacks a used key
only when it is full of keys used later (`Ordered`). A get that hits, a put of a key that
is there and a put that drops the last entry are one step, an entry in front of a rest that
was in order (`ToFront`). Keys, values and the limit are arbitrary but for a limit
of zero, for which the code takes the last entry of an empty list; the program makes no such
cache. The scan for a JSON object (`ExtractsTheFirstObject`): between two
turns its flags are what the reference says by counting, that is whether an odd number
of quotes that are not escaped lies behind, whether the longest run of backslashes is odd,
and how many braces are open (`Scanning`). The hypothesis is that of the statement, no
backslash outside of strings. The menu (`MenuAndRouterAgree`): whatever finite sets of names the
templates and skills have taken.

Induction over data goes through the least number for which a statement fails: the library's
induction theorems take an operator and cannot be instantiated, but `WFMin` takes a set, and
`SetInduction` follows from it. A recursion is written as a function of the number of
turns, and a lemma for each shows that the function exists.

Only model-checked: all liveness (`AcceptedTaskRuns`, `DestructorReturnsUnraced`,
`SleeperWakes`, `EveryTaskSettles`, `DialogAppears`, `AcceptedIsSaved`, `NothingHangs`), and
the statements about the operators of `Wire`, `Transcript` and `PermissionStore`, and
`SkillShowsArguments`, which rest on `SelectSeq` and `FlattenSeq`. Every safety
and action property of a passing run is stated by a theorem.

## 6. Where code and words differ

Shown by a run: the pool's destructor may hang although the manager relies on it to
drain (`pool_hang`); `shutdown` marks tasks Cancelled and their workers overwrite it
(`subagent_shutdown`); compaction separates calls from results
(`agent_loop_compaction`); the view and the conversation are destroyed before the pool
that uses them, although the comment on their order calls it the safer one
(`repl_view_exit`); a session's file comes to hold another session's messages, although
two comments say the switch in mid-turn is taken care of (`app_session_mix`).

Noted while modelling, without a run:

* `core/AgentLoop.cpp:196-200` describes a second request inside `query_loop` after the
  self-check prompt; there is none, the prompt goes out with the next iteration.
* `core/AgentLoop.cpp:249-250` and the executor rely on `ToolRegistry::invoke` to turn
  exceptions into results; it does so for `ToolError` only. The model has `Throw`.
* `core/AgentLoop.cpp:167` says the user is told once of a compaction; a note is
  inserted at every iteration over the threshold.
* `core/AgentLoop.cpp:146`: the six messages spared do not suffice after a cancellation: the
  results of a cancelled turn may be cut before any request has shown them.
* `core/AgentLoop.cpp:330` calls other exceptions not fatal. A tool result that is not
  UTF-8, or that `substr` at line 162 makes so, fails every later request of the
  conversation, and outside `run` (critic, planner, saving) nothing catches it.
* `core/AgentLoop.cpp:97` says that errors other than a cancellation keep their text; line 323
  takes any error whose text contains "aborted" for one, the body of an HTTP error
  included (`llm/DefaultLlmClient.cpp:52`), and the critic or the next step goes on asking.
* `core/AgentLoop.cpp:338`: with an empty final answer the text of an earlier turn is returned.
* `util/ThreadPool.h:15` says tasks run serially; with two threads they only start in
  order.
* `core/PermissionStore.h:39`, and the repository's README, say a rule is added and
  written to disk; the App's store reads the file once, in its constructor
  (`core/PermissionStore.cpp:40`), and nothing ever saves it: the rule ends with the program.
* The repository's README says the rules go into the system prompt; the TUI keeps a
  system prompt and never sends it.
* `ui/App.cpp:448` tells the user to cancel a turn with Ctrl+C, which warns and exits;
  no key cancels a turn.
* `ui/App.cpp:314-345` gives the sub-agents' manager callbacks that capture the App,
  which is destroyed before the manager.
* `sessions/SessionStore.cpp:46-54` does not test the write: on a full disk a shortened
  file is renamed over the good one.
* `mcp/McpManager.cpp:56` lets `connect`'s exception out of `registerAllTools`, past
  `main`: one server that answers wrongly at the start ends the program. Writing to a
  server that has exited ends it too, by SIGPIPE (`mcp/StdioTransport.cpp:125`).
* `main.cpp:248` and `mcp/McpManager.h:46` speak of a cancel token that reaches the
  clients; nothing sets it.
* `mcp/McpClient.cpp:156`: after one stray line a client is a line behind for good, and
  each of its calls fails with a mismatch.
* `commands/CreateResourceTool.cpp:295` captures a parameter by reference that is gone
  when `create_rule` runs; the rule has no immediate effect, although its description says so.
* `commands/CreateResourceTool.cpp:211` offers a whitelist of tools for a new sub-agent,
  which only becomes words of its description.
* `ui/App.cpp:179` says the registries have a mutex; they have none.
* `commands/CreateCommands.cpp:62`: a failed write leaves a file that stands in the way of
  the next attempt.
* `ui/App.cpp:409`: templates and skills named `create_...` or `exit` are in the menu and
  cannot be run.
* `ui/ReplView.cpp:1307`: a sub-agent's notice hides the rest of the stream.

## 7. Not modelled

* The built-in tools: file and process I/O; in `AgentLoop` a tool succeeds, fails or throws.
* Drawing, completion, scrolling, the mouse, Markdown tables, the welcome screen: layout.
* The configuration file, the command line, the one-shot and console modes: parsing and
  straight-line code without a second actor.
* libcurl and the servers behind it, a regular expression's grammar: external, reduced to
  what the code tells apart.
* The second call of `McpManager::registerAllTools`: nothing in the program makes it.
* Data races on containers (the registries, the messages): a step of a model is one
  outcome, and these have none; each is taken as one step.
* `main`'s order of destruction (background workers may outlive the client and the
  registry they use): a use after the end of life has no successor state.
