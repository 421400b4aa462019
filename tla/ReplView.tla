------------------------------ MODULE ReplView ------------------------------
(***************************************************************************)
(* src/ui/ReplView.cpp and the part of src/ui/App.cpp that drives it: the  *)
(* view belongs to the UI thread, the pool's only worker runs the turns,   *)
(* and a turn that needs permission sleeps until the user has answered a   *)
(* dialog. What the two share is the permission request, under             *)
(* permissionMutex_, and closures posted to the UI loop.                   *)
(*                                                                         *)
(* Left to chance: what a turn asks and when it ends, notices of sub-      *)
(* agents, keys. A line is text followed by Enter. The conversation, the   *)
(* token and the sessions are not in this module.                          *)
(***************************************************************************)
EXTENDS UiLoop

CONSTANTS
  Calls,        \* tool calls that need permission: a tool with its input
  RuleOf,       \* the rule allowForever makes of a call
  Stored,       \* the rules in the file at the start that have a tool and a pattern
  Covers,       \* the calls a rule allows: of its tool, with an input its pattern is found in
  Batch,        \* bound: keys typed during one frame
  MaxKeys,      \* bound: keys typed in all
  MaxAsks,      \* bound: questions put to the user
  MaxNotices,   \* bound: messages of plans and sub-agents
  None

VARIABLES
  handler,      \* the statement at which the running UI handler is
  thinking,     \* thinking_
  warned,       \* ctrlCWarning_
  dialog,       \* the request permissionDialogRaw_ was built for, or None
  pending,      \* permissionPending_
  request,      \* permissionRequest_
  result,       \* permissionResult_
  rules,        \* permStore's rules_
  jobs,         \* App's pool: submitted jobs that no worker has taken
  running,      \* *taskRunning_
  wpc,          \* where the worker is
  typed, asks, notices,
  confirmed,    \* history: the choices made, with the request the dialog showed
  answers       \* history: what waitForPermission returned

gateVars == <<dialog, pending, request, result, rules, asks, confirmed, answers>>
jobVars == <<jobs, running>>
vars == <<tasks, phase, handler, thinking, warned, gateVars, jobVars, wpc, typed, notices>>

ASSUME BoundsAssumption == {Batch, MaxKeys, MaxAsks, MaxNotices} \subseteq Nat
ASSUME NoneAssumption == None \notin [ask : Nat, call : Calls]

Rules == {RuleOf[c] : c \in Calls} \union Stored
ASSUME CoversAssumption == DOMAIN RuleOf = Calls /\ Covers \in [Rules -> SUBSET Calls]

Choices == {"allow", "forever", "deny"}
JobKinds == {"say", "create"}
Lines == {"say", "create", "command", "quit"}
Keys == Lines \union {"esc", "ctrl-c"}
Closures == {"append", "think", "unthink", "dialog", "exit"}
Statements == {"done", "append", "exit", "clear dialog",
               "say append", "say think", "say submit", "create think", "create submit"}

Turn == {"turn", "info", "raised", "waiting", "asleep", "saving"}
Places == {"free", "creating", "created"} \union Turn

Requests == [ask : 1 .. MaxAsks, call : Calls]

\* PermissionStore's constructor: all the rules of the file, or none when there is no file
\* or it cannot be read.
Loaded == {Stored, {}}

\* isAllowed and allowForever. What is added is kept in memory only.
Passes(c) == \E r \in rules : c \in Covers[r]
Remember(c) == rules \union {RuleOf[c]}

Init ==
  /\ UiInit
  /\ handler = "done"
  /\ thinking = FALSE /\ warned = FALSE
  /\ dialog = None /\ pending = FALSE /\ request = None /\ result = "deny"
  /\ rules \in Loaded
  /\ jobs = <<>> /\ running = FALSE
  /\ wpc = "free"
  /\ typed = 0 /\ asks = 0 /\ notices = 0
  /\ confirmed = {} /\ answers = {}

Post(t) == tasks' = Posted(tasks, t) /\ UNCHANGED phase

-----------------------------------------------------------------------------
(* The UI thread: the loop, the keys, the closures.                        *)

Type(keys) ==
  /\ typed + Len(keys) <= MaxKeys
  /\ typed' = typed + Len(keys)
  /\ Fetch(keys)
  /\ UNCHANGED <<handler, thinking, warned, gateVars, jobVars, wpc, notices>>

LoopTurns ==
  /\ handler = "done"
  /\ Idle \/ Stop
  /\ UNCHANGED <<handler, thinking, warned, gateVars, jobVars, wpc, typed, notices>>

\* App::run returns and the App is destroyed: the view first, the pool after it.
DestroyView ==
  /\ phase = "ended"
  /\ phase' = "gone"
  /\ UNCHANGED <<tasks, handler, thinking, warned, gateVars, jobVars, wpc, typed, notices>>

Run(t) == handler = "done" /\ Take(t)

DialogUp == pending /\ dialog # None

\* Mutant: a plain yes leaves a rule too.
GrantAndRemember(c) ==
  /\ result' = c
  /\ rules' = IF c # "deny" THEN Remember(request.call) ELSE rules
  /\ pending' = FALSE
  /\ wpc' = IF wpc = "asleep" THEN "waiting" ELSE wpc

\* grantPermission: under the mutex, the rule included; the sleeper is woken.
Grant(c) ==
  /\ result' = c
  /\ rules' = IF c = "forever" THEN Remember(request.call) ELSE rules
  /\ pending' = FALSE
  /\ wpc' = IF wpc = "asleep" THEN "waiting" ELSE wpc

\* A key while the dialog is up: Enter confirms the selected entry, which keys of the line
\* may have moved; Esc denies.
AnswerDialog(k, c) ==
  /\ Run(k) /\ k \in Lines \union {"esc"}
  /\ DialogUp
  /\ k = "esc" => c = "deny"
  /\ Grant(c)
  /\ confirmed' = confirmed \union {[request |-> dialog, choice |-> c]}
  /\ handler' = "clear dialog"
  /\ UNCHANGED <<phase, thinking, warned, dialog, request, asks, answers, jobVars, typed, notices>>

\* Where onSubmit begins with a line: a message, or the commands that post or submit.
OnSubmit(line) ==
  CASE line = "quit" -> "exit"
    [] line = "command" -> "append"
    [] line = "create" -> "create think"
    [] line = "say" -> IF running THEN "append" ELSE "say append"

\* A line in the input: while the view is thinking only /quit passes onEnter. While a
\* request is pending the input is hidden, but for Enter on the beginning of a command,
\* which is completed and submitted.
EnterLine(l) ==
  /\ Run(l) /\ l \in Lines
  /\ ~DialogUp
  /\ \/ /\ pending => l \in {"command", "quit"}
        /\ handler' = IF thinking /\ l # "quit" THEN "done" ELSE OnSubmit(l)
     \/ /\ pending
        /\ UNCHANGED handler
  /\ UNCHANGED <<phase, thinking, warned, gateVars, jobVars, wpc, typed, notices>>

\* Ctrl+C warns, or exits when it comes while the warning stands (two seconds). The dialog
\* swallows it, and so does the input when it has text to copy.
CtrlC ==
  /\ Run("ctrl-c")
  /\ \/ UNCHANGED <<warned, handler>>
     \/ ~DialogUp /\ warned' = TRUE /\ UNCHANGED handler
     \/ ~DialogUp /\ warned /\ handler' = "exit" /\ UNCHANGED warned
  /\ UNCHANGED <<phase, thinking, gateVars, jobVars, wpc, typed, notices>>

IgnoreEsc ==
  /\ Run("esc") /\ ~DialogUp
  /\ UNCHANGED <<phase, handler, thinking, warned, gateVars, jobVars, wpc, typed, notices>>

\* Mutant: the dialog stays when the worker has asked again meanwhile.
ClearUnlessPending == dialog' = IF pending THEN dialog ELSE None

ClearDialog == dialog' = None

\* Mutant: the worker starts before the view is told.
SubmitBeforeThink(at) ==
  CASE at = "say append" -> "say submit"
    [] at = "say submit" -> "say think"
    [] at = "create think" -> "create submit"
    [] OTHER -> "done"

\* The order of onSubmit's and handleCreateCommand's calls.
After(at) ==
  CASE at = "say append" -> "say think"
    [] at = "say think" -> "say submit"
    [] at = "create think" -> "create submit"
    [] OTHER -> "done"

\* The running handler goes on: what App posts or submits, or the view's clean-up.
HandlerPosts ==
  /\ \/ handler \in {"append", "say append"} /\ Post("append")
     \/ handler \in {"say think", "create think"} /\ Post("think")
     \/ handler = "exit" /\ Post("exit")
  /\ handler' = After(handler)
  /\ UNCHANGED <<thinking, warned, gateVars, jobVars, wpc, typed, notices>>

HandlerSubmits ==
  /\ \/ handler = "say submit" /\ jobs' = Append(jobs, "say")
     \/ handler = "create submit" /\ jobs' = Append(jobs, "create")
  /\ handler' = After(handler)
  /\ UNCHANGED <<tasks, phase, thinking, warned, gateVars, running, wpc, typed, notices>>

HandlerClears ==
  /\ handler = "clear dialog"
  /\ ClearDialog
  /\ handler' = After(handler)
  /\ UNCHANGED <<tasks, phase, thinking, warned, pending, request, result, rules, asks,
                 confirmed, answers, jobVars, wpc, typed, notices>>

\* The closures of appendMessage (it ends the thinking), setThinking, Exit.
RunAppend ==
  /\ Run("append")
  /\ thinking' = FALSE
  /\ UNCHANGED <<phase, handler, warned, gateVars, jobVars, wpc, typed, notices>>

RunThinking ==
  /\ \/ Run("think") /\ thinking' = TRUE
     \/ Run("unthink") /\ thinking' = FALSE
  /\ UNCHANGED <<phase, handler, warned, gateVars, jobVars, wpc, typed, notices>>

RunExit ==
  /\ Run("exit")
  /\ ExitNow
  /\ UNCHANGED <<handler, thinking, warned, gateVars, jobVars, wpc, typed, notices>>

\* The closure of waitForPermission.
RunDialog ==
  /\ Run("dialog")
  /\ dialog' = request
  /\ UNCHANGED <<phase, handler, thinking, warned, pending, request, result, rules, asks, confirmed,
                 answers, jobVars, wpc, typed, notices>>

UiStep ==
  \/ LoopTurns \/ HandlerPosts \/ HandlerSubmits \/ HandlerClears
  \/ \E k \in Keys, c \in Choices : AnswerDialog(k, c)
  \/ \E l \in Lines : EnterLine(l)
  \/ CtrlC \/ IgnoreEsc
  \/ RunAppend \/ RunThinking \/ RunExit \/ RunDialog

-----------------------------------------------------------------------------
(* The worker.                                                             *)

StartJob ==
  /\ wpc = "free" /\ jobs # <<>>
  /\ jobs' = Tail(jobs)
  /\ IF Head(jobs) = "say" THEN wpc' = "turn" /\ running' = TRUE
                           ELSE wpc' = "creating" /\ UNCHANGED running
  /\ UNCHANGED <<tasks, phase, handler, thinking, warned, gateVars, typed, notices>>

\* Mutant: the view does not hear of the request.
RaiseUnposted(c) ==
  /\ wpc = "turn" /\ ~Passes(c)
  /\ asks < MaxAsks
  /\ asks' = asks + 1
  /\ request' = [ask |-> asks + 1, call |-> c]
  /\ result' = "deny"
  /\ pending' = TRUE
  /\ wpc' = "waiting"
  /\ UNCHANGED <<tasks, phase, handler, thinking, warned, dialog, rules, confirmed, answers,
                 jobVars, typed, notices>>

\* waitForPermission. A call that a rule covers returns true at once and changes nothing.
\* For any other the request is set, the dialog posted, and the worker sleeps while the
\* request is pending.
Raise(c) ==
  /\ wpc = "turn" /\ ~Passes(c)
  /\ asks < MaxAsks
  /\ asks' = asks + 1
  /\ request' = [ask |-> asks + 1, call |-> c]
  /\ result' = "deny"
  /\ pending' = TRUE
  /\ wpc' = "raised"
  /\ UNCHANGED <<tasks, phase, handler, thinking, warned, dialog, rules, confirmed, answers,
                 jobVars, typed, notices>>

PostDialog ==
  /\ wpc = "raised"
  /\ Post("dialog")
  /\ wpc' = "waiting"
  /\ UNCHANGED <<handler, thinking, warned, gateVars, jobVars, typed, notices>>

Sleep ==
  /\ wpc = "waiting" /\ pending
  /\ wpc' = "asleep"
  /\ UNCHANGED <<tasks, phase, handler, thinking, warned, gateVars, jobVars, typed, notices>>

Return ==
  /\ wpc = "waiting" /\ ~pending
  /\ answers' = answers \union {[request |-> request, ok |-> result \in {"allow", "forever"}]}
  /\ wpc' = "turn"
  /\ UNCHANGED <<tasks, phase, handler, thinking, warned, dialog, pending, request, result, rules,
                 asks, confirmed, jobVars, typed, notices>>

\* Plan mode shows the plan and resumes the thinking; the answer ends the turn, which is
\* saved before taskRunning_ falls.
PostNext(from, t, to) ==
  /\ wpc = from
  /\ Post(t)
  /\ wpc' = to
  /\ UNCHANGED <<handler, thinking, warned, gateVars, jobVars, typed>>

ShowPlan ==
  /\ notices < MaxNotices
  /\ notices' = notices + 1
  /\ PostNext("turn", "append", "info")

ResumeThinking == PostNext("info", "think", "turn") /\ UNCHANGED notices

Reply == PostNext("turn", "append", "saving") /\ UNCHANGED notices

\* Mutant: the flag is not taken down.
SavedAndBusy ==
  /\ wpc = "saving"
  /\ wpc' = "free"
  /\ UNCHANGED <<tasks, phase, handler, thinking, warned, gateVars, jobVars, typed, notices>>

Saved ==
  /\ wpc = "saving"
  /\ wpc' = "free"
  /\ running' = FALSE
  /\ UNCHANGED <<tasks, phase, handler, thinking, warned, gateVars, jobs, typed, notices>>

\* A /create_ job tells what it made, then ends the thinking.
CreateTells == PostNext("creating", "append", "created") /\ UNCHANGED notices
CreateEnds == PostNext("created", "unthink", "free") /\ UNCHANGED notices

WorkerStep ==
  /\ phase # "gone"
  /\ \/ StartJob
     \/ \E c \in Calls : Raise(c)
     \/ PostDialog \/ Sleep \/ Return
     \/ ShowPlan \/ ResumeThinking \/ Reply \/ Saved
     \/ CreateTells \/ CreateEnds

\* A background sub-agent called a tool or ended: App shows a message, whatever goes on.
Notice ==
  /\ phase # "gone"
  /\ notices < MaxNotices
  /\ notices' = notices + 1
  /\ Post("append")
  /\ UNCHANGED <<handler, thinking, warned, gateVars, jobVars, wpc, typed>>

-----------------------------------------------------------------------------

Next ==
  \/ \E n \in 0 .. Batch : \E keys \in [1 .. n -> Keys] : Type(keys)
  \/ UiStep \/ DestroyView
  \/ WorkerStep \/ Notice

Spec == Init /\ [][Next]_vars

\* The loop runs as long as it has tasks, a turn that is not asleep goes on, and the user
\* need not press any key.
Fairness ==
  /\ WF_vars(UiStep)
  /\ WF_vars(Type(<<>>))
  /\ WF_vars(WorkerStep)

FairSpec == Spec /\ Fairness

-----------------------------------------------------------------------------
(* Properties.                                                             *)

\* The type invariant; taskRunning_ is up exactly while a turn's job runs.
TypeOK ==
  /\ tasks \in Seq(Keys \union Closures)
  /\ phase \in Phases
  /\ handler \in Statements
  /\ thinking \in BOOLEAN /\ warned \in BOOLEAN
  /\ dialog \in Requests \union {None}
  /\ pending \in BOOLEAN
  /\ request \in Requests \union {None}
  /\ result \in Choices
  /\ rules \subseteq Rules
  /\ jobs \in Seq(JobKinds)
  /\ wpc \in Places
  /\ running \in BOOLEAN /\ (running <=> wpc \in Turn)
  /\ typed \in 0 .. MaxKeys /\ asks \in 0 .. MaxAsks /\ notices \in 0 .. MaxNotices
  /\ confirmed \subseteq [request : Requests, choice : Choices]
  /\ answers \subseteq [request : Requests, ok : BOOLEAN]

\* A tool's permission is what the user chose on the dialog that showed this very call for
\* this very question: no default, no stale dialog, no answer to an earlier question.
AnswerIsTheChoice ==
  \A a \in answers : \E d \in confirmed :
    d.request = a.request /\ a.ok = (d.choice # "deny")

\* A call goes unasked only by a rule of the file read at the start, or by one made of a call
\* that the user allowed forever on the dialog that showed that call. (Such a rule may cover
\* other calls than the one shown: its pattern is looked for in their input.)
RulesFromConsent ==
  \A c \in Calls : Passes(c) =>
    \E r \in rules :
      /\ c \in Covers[r]
      /\ r \in Stored \/ \E d \in confirmed : d.choice = "forever" /\ RuleOf[d.request.call] = r

\* The worker never waits for a dialog that nobody will show: while the loop runs, a
\* pending request is on the screen, in the queue, or about to be posted.
DialogPromised ==
  pending /\ phase \in {"frame", "tasks", "quitting"} =>
    \/ wpc = "raised"
    \/ \E i \in DOMAIN tasks : tasks[i] = "dialog"
    \/ dialog = request

\* The user is not locked out: when nothing is queued, submitted or running, the input is
\* open again, in whatever order the threads posted.
NotStuckThinking ==
  tasks = <<>> /\ handler = "done" /\ jobs = <<>> /\ wpc = "free" /\ phase \in {"frame", "tasks"}
    => ~thinking

\* Every question reaches the screen, unless the loop ends.
DialogAppears ==
  pending ~> (DialogUp /\ dialog = request) \/ phase \in {"ended", "gone"}

\* "replView is constructed last ... which is safer" (App.cpp:58): the view must then still
\* be there while a job, which calls it, is running or queued.
ViewOutlivesJobs == phase = "gone" => wpc = "free" /\ jobs = <<>>

=============================================================================
