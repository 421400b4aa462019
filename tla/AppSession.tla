----------------------------- MODULE AppSession -----------------------------
(***************************************************************************)
(* src/ui/App.cpp with the start of main: the UI thread takes lines,       *)
(* clears, switches and deletes sessions and exits; the pool's worker runs *)
(* the turns. They share the vector of messages, and the session id a turn *)
(* is saved under is the one captured when it was submitted. The process   *)
(* may die at any statement and be started again.                          *)
(*                                                                         *)
(* A turn is what AgentLoop makes of it: it may add a message, and ends.   *)
(* The view is reduced to thinking_ and the closures that set it (ReplView *)
(* has the rest). A copy of messages is taken in one step.                 *)
(*                                                                         *)
(* At exit the vector is destroyed before the pool is joined: a turn then  *)
(* still under way saves whatever it reads where the vector was.           *)
(***************************************************************************)
EXTENDS SessionStore

CONSTANTS
  MaxSends,     \* bound: messages the user sends
  MaxStarts,    \* bound: starts of the program
  MaxVisits,    \* bound: openings of the session list in mid-session
  MaxNotices,   \* bound: messages of sub-agents and refusals
  Residues      \* what a job may read of messages once the vector is destroyed

VARIABLES
  ui,           \* where the UI thread is
  after,        \* and where it goes once saveTurn is done
  sessionId,    \* sessionId_
  messages,     \* the vector the threads share
  cancel,       \* *cancel_
  running,      \* *taskRunning_
  jobs,         \* the pool's queue: the session each job captured
  turn,         \* the session the running turn captured, or Missing
  thinking, posts,   \* thinking_, and closures that will set it
  wpc,          \* where the worker is
  made,         \* ids given out
  sent, starts, visits, notices,
  mixed,        \* history: sessions with a turn under way when messages were replaced
  deleted       \* history: sessions the user deleted

viewVars == <<thinking, posts>>
turnVars == <<jobs, turn, running, wpc>>
histVars == <<mixed, deleted>>
bounds == <<made, sent, starts, visits, notices>>
vars == <<storeVars, ui, after, sessionId, messages, cancel, viewVars, turnVars, bounds, histVars>>

Message == [by : Ids, n : 0 .. MaxSends, role : {"user", "assistant"}]

ASSUME BoundsAssumption == {MaxSends, MaxStarts, MaxVisits, MaxNotices} \subseteq Nat
ASSUME ResiduesAssumption == Residues \subseteq Seq(Message)
ASSUME IdsAssumption == Ids \subseteq Nat
ASSUME ThreadsAssumption == Threads = {"ui", "worker"}
ASSUME SentinelAssumption == Missing \notin Ids /\ Missing # Torn /\ {Missing, Torn} \cap Seq(Message) = {}

Init ==
  /\ StoreInit
  /\ ui = "down" /\ after = "down"
  /\ sessionId = Missing /\ messages = <<>>
  /\ cancel = FALSE /\ running = FALSE
  /\ jobs = <<>> /\ turn = Missing /\ wpc = "free"
  /\ thinking = FALSE /\ posts = <<>>
  /\ made = {} /\ sent = 0 /\ starts = 0 /\ visits = 0 /\ notices = 0
  /\ mixed = {} /\ deleted = {}

Busy == jobs # <<>> \/ wpc # "free"

\* newId: an id never given out before. Ids are names, so which one is all the same.
NewId(s) ==
  /\ s \in Ids \ made /\ \A x \in Ids \ made : s <= x
  /\ made' = made \union {s}

-----------------------------------------------------------------------------
(* main: the session the program begins with.                              *)

OpenFresh(s) ==
  /\ NewId(s)
  /\ ui' = "open" /\ sessionId' = s /\ messages' = <<>>

\* The data is the file's; one that does not load gets a new id.
OpenSaved(s) ==
  /\ ui' = "open" /\ sessionId' = s /\ messages' = files[s]
  /\ UNCHANGED made

Start ==
  /\ ui = "down" /\ starts < MaxStarts
  /\ starts' = starts + 1
  /\ \/ \E s \in Ids : OpenFresh(s)
     \/ \E s \in Latest : OpenSaved(s)
     \/ ui' = "choosing" /\ UNCHANGED <<sessionId, messages, made>>
  /\ UNCHANGED <<storeVars, after, cancel, viewVars, turnVars, sent, visits, notices, histVars>>

ChooseAtStart ==
  /\ ui = "choosing"
  /\ \/ \E s \in Ids : Readable(s) /\ OpenSaved(s)
     \/ \E s \in Ids : OpenFresh(s)
  /\ UNCHANGED <<storeVars, after, cancel, viewVars, turnVars, sent, starts, visits, notices, histVars>>

-----------------------------------------------------------------------------
(* The UI thread.                                                          *)

\* Two closures of a kind behind each other are as good as one; none outlives the view.
Posted(ts) == IF posts # <<>> /\ posts[Len(posts)] = ts[1] THEN posts \o Tail(ts) ELSE posts \o ts
Post(ts) == posts' = IF ui = "gone" THEN posts ELSE Posted(ts)

\* The closures: a message ends the thinking, setThinking sets it.
RunPosted ==
  /\ ui = "open" /\ posts # <<>>
  /\ thinking' = (Head(posts) = "think")
  /\ posts' = Tail(posts)
  /\ UNCHANGED <<storeVars, ui, after, sessionId, messages, cancel, turnVars, bounds, histVars>>

\* onEnter drops every line but /quit while the view is thinking.
Entered == ui = "open" /\ ~thinking

\* onSubmit with a message or a prompt: refused while a turn is marked running.
Refuse ==
  /\ Entered /\ running
  /\ notices < MaxNotices /\ notices' = notices + 1
  /\ Post(<<"show">>)
  /\ UNCHANGED <<storeVars, ui, after, sessionId, messages, cancel, thinking, turnVars, made, sent,
                 starts, visits, histVars>>

Submit ==
  /\ Entered /\ ~running
  /\ sent < MaxSends /\ sent' = sent + 1
  /\ messages' = Append(messages, [by |-> sessionId, n |-> sent + 1, role |-> "user"])
  /\ Post(<<"show", "think">>)
  /\ cancel' = FALSE
  /\ jobs' = Append(jobs, sessionId)
  /\ UNCHANGED <<storeVars, ui, after, sessionId, thinking, turn, running, wpc, made, starts,
                 visits, notices, histVars>>

\* saveTurn begins; the UI thread is in it until the rename.
SaveTurn(s, conversation, next) ==
  /\ BeginSave("ui", s, conversation)
  /\ ui' = "saving" /\ after' = next

\* The sessions a turn under way was captured in, and the one the view turns to.
Mixed(next) == mixed \union (IF Busy THEN {jobs[i] : i \in DOMAIN jobs} \union ({turn} \ {Missing})
                                          \union {sessionId, next}
                                     ELSE {})

\* /clear: no message is kept (none has the role System), a new id is saved at once.
Clear ==
  /\ Entered
  /\ \E s \in Ids :
       /\ NewId(s)
       /\ sessionId' = s /\ messages' = <<>>
       /\ SaveTurn(s, <<>>, "open")
       /\ mixed' = Mixed(s)
  /\ Post(<<"show">>)
  /\ UNCHANGED <<cancel, thinking, turnVars, sent, starts, visits, notices, deleted>>

\* /sessions: a running turn is cancelled and waited for, six seconds at most.
Sessions ==
  /\ Entered
  /\ visits < MaxVisits /\ visits' = visits + 1
  /\ cancel' = (cancel \/ running)
  /\ ui' = "waiting"
  /\ UNCHANGED <<storeVars, after, sessionId, messages, viewVars, turnVars, made, sent, starts, notices,
                 histVars>>

\* Either the turn is over or the time is: the state does not tell.
StopWaiting ==
  /\ ui = "waiting"
  /\ SaveTurn(sessionId, messages, "picker")
  /\ UNCHANGED <<sessionId, messages, cancel, viewVars, turnVars, bounds, histVars>>

\* Mutant: any session of the list may be deleted.
DeleteAny ==
  /\ ui \in {"choosing", "picker"}
  /\ \E s \in Ids : Readable(s) /\ Removed(s) /\ deleted' = deleted \union {s}
  /\ UNCHANGED <<ui, after, sessionId, messages, cancel, viewVars, turnVars, bounds, mixed>>

\* x, then y: one of the list, never the current session.
Delete ==
  /\ ui \in {"choosing", "picker"}
  /\ \E s \in Ids : /\ Readable(s)
                    /\ ui = "picker" => s # sessionId
                    /\ Removed(s) /\ deleted' = deleted \union {s}
  /\ UNCHANGED <<ui, after, sessionId, messages, cancel, viewVars, turnVars, bounds, mixed>>

\* The end of onSessionsCommand.
Back == ui' = "open" /\ cancel' = (cancel /\ running)

\* Mutant: the old session's messages are not cleared.
SwitchAppending ==
  /\ ui = "picker"
  /\ \E s \in Ids \ {sessionId} :
       /\ Readable(s)
       /\ sessionId' = s /\ messages' = messages \o files[s]
       /\ mixed' = Mixed(s)
  /\ Post(<<"show">>)
  /\ Back
  /\ UNCHANGED <<storeVars, after, thinking, turnVars, bounds, deleted>>

Switch ==
  /\ ui = "picker"
  /\ \E s \in Ids \ {sessionId} :
       /\ Readable(s)
       /\ sessionId' = s /\ messages' = files[s]
       /\ mixed' = Mixed(s)
  /\ Post(<<"show">>)
  /\ Back
  /\ UNCHANGED <<storeVars, after, thinking, turnVars, bounds, deleted>>

LeavePicker ==
  /\ ui = "picker"
  /\ Back
  /\ UNCHANGED <<storeVars, after, sessionId, messages, viewVars, turnVars, bounds, histVars>>

\* Ctrl+C twice saves the session and exits, /quit exits.
CtrlC ==
  /\ ui = "open"
  /\ cancel' = TRUE
  /\ SaveTurn(sessionId, messages, "leaving")
  /\ UNCHANGED <<sessionId, messages, viewVars, turnVars, bounds, histVars>>

Quit ==
  /\ ui = "open"
  /\ ui' = "leaving"
  /\ UNCHANGED <<storeVars, after, sessionId, messages, cancel, viewVars, turnVars, bounds, histVars>>

UiSave ==
  /\ ui = "saving"
  /\ EndSave("ui")
  /\ ui' = after /\ after' = "down"
  /\ UNCHANGED <<sessionId, messages, cancel, viewVars, turnVars, bounds, histVars>>

-----------------------------------------------------------------------------
(* The worker: the job onSubmit gives the pool.                            *)

\* Mutant: the turn is not marked as running.
StartTurnUnmarked ==
  /\ wpc = "free" /\ jobs # <<>>
  /\ turn' = Head(jobs) /\ jobs' = Tail(jobs)
  /\ wpc' = "turn"
  /\ UNCHANGED <<storeVars, ui, after, sessionId, messages, cancel, running, viewVars, bounds, histVars>>

StartTurn ==
  /\ wpc = "free" /\ jobs # <<>>
  /\ turn' = Head(jobs) /\ jobs' = Tail(jobs)
  /\ running' = TRUE /\ wpc' = "turn"
  /\ UNCHANGED <<storeVars, ui, after, sessionId, messages, cancel, viewVars, bounds, histVars>>

\* The loop adds the model's message to the vector; a turn that fails adds none.
Answer ==
  /\ wpc = "turn"
  /\ wpc' = "answered"
  /\ messages' = Append(messages, [by |-> turn, n |-> 0, role |-> "assistant"])
  /\ UNCHANGED <<storeVars, ui, after, sessionId, cancel, viewVars, jobs, turn, running, bounds,
                 histVars>>

\* The reply or the error is shown.
Show ==
  /\ wpc \in {"turn", "answered"}
  /\ wpc' = "shown"
  /\ Post(<<"show">>)
  /\ UNCHANGED <<storeVars, ui, after, sessionId, messages, cancel, thinking, jobs, turn, running,
                 bounds, histVars>>

\* What a job reads of the vector. Reading it once it is destroyed is undefined: what was there
\* or anything else. (That the read ends the process is a Crash.)
Readings == IF ui = "gone" THEN Residues \union {messages} ELSE {messages}

\* Mutant: a turn that failed is not saved.
SnapshotIfAnswered ==
  /\ wpc = "shown"
  /\ IF messages # <<>> /\ messages[Len(messages)].role = "assistant"
     THEN /\ wpc' = "saving"
          /\ \E c \in Readings : BeginSave("worker", turn, c)
          /\ UNCHANGED <<turn, running>>
     ELSE /\ wpc' = "free" /\ running' = FALSE /\ turn' = Missing
          /\ UNCHANGED storeVars
  /\ UNCHANGED <<ui, after, sessionId, messages, cancel, viewVars, jobs, bounds, histVars>>

Snapshot ==
  /\ wpc = "shown"
  /\ wpc' = "saving"
  /\ \E c \in Readings : BeginSave("worker", turn, c)
  /\ UNCHANGED <<ui, after, sessionId, messages, cancel, viewVars, jobs, turn, running, bounds,
                 histVars>>

\* The rename, and taskRunning_ falls.
EndTurn ==
  /\ wpc = "saving"
  /\ EndSave("worker")
  /\ wpc' = "free" /\ running' = FALSE /\ turn' = Missing
  /\ UNCHANGED <<ui, after, sessionId, messages, cancel, viewVars, jobs, bounds, histVars>>

WorkerStep ==
  \/ StartTurn \/ Answer \/ Show \/ Snapshot \/ EndTurn

\* A sub-agent's tool call or end is shown, which ends the thinking in mid-turn.
Notice ==
  /\ ui \notin {"down", "gone"} /\ notices < MaxNotices
  /\ notices' = notices + 1
  /\ Post(<<"show">>)
  /\ UNCHANGED <<storeVars, ui, after, sessionId, messages, cancel, thinking, turnVars, made, sent,
                 starts, visits, histVars>>

-----------------------------------------------------------------------------
(* The end of the process: App is destroyed and the pool joined, or a      *)
(* crash.                                                                  *)

\* The members go in the reverse of their order: the view and messages first, whatever the
\* pool is doing. From here messages stands for what is left where the vector was.
Destroy ==
  /\ ui = "leaving"
  /\ ui' = "gone"
  /\ thinking' = FALSE /\ posts' = <<>>
  /\ UNCHANGED <<storeVars, after, sessionId, messages, cancel, turnVars, bounds, histVars>>

Down ==
  /\ ui' = "down" /\ after' = "down"
  /\ sessionId' = Missing /\ messages' = <<>>
  /\ cancel' = FALSE /\ running' = FALSE
  /\ jobs' = <<>> /\ turn' = Missing /\ wpc' = "free"
  /\ thinking' = FALSE /\ posts' = <<>>
  /\ StoreDies
  /\ UNCHANGED <<bounds, histVars>>

\* ~ThreadPool returns when everything queued has run.
Leave == ui = "gone" /\ ~Busy /\ Down
Crash == ui # "down" /\ Down

UiStep ==
  \/ RunPosted \/ Refuse \/ Submit
  \/ Clear \/ Sessions \/ StopWaiting \/ Delete \/ Switch \/ LeavePicker
  \/ CtrlC \/ Quit \/ UiSave

Next == Start \/ ChooseAtStart \/ UiStep \/ WorkerStep \/ Notice \/ Destroy \/ Leave \/ Crash

\* The pool's thread goes on, and a turn ends: its requests have time limits and its
\* questions an answer. Nothing is asked of the user.
Fairness == WF_vars(WorkerStep)

Spec == Init /\ [][Next]_vars /\ Fairness

-----------------------------------------------------------------------------
(* Properties.                                                             *)

Places == {"free", "turn", "answered", "shown", "saving"}

\* Every variable has its type; taskRunning_ is up exactly while a job runs (App.cpp:486 and
\* 526), and there is a session whenever the user can type (main.cpp:218-242).
TypeOK ==
  /\ files \in [Ids -> Seq(Message) \union {Missing, Torn}]
  /\ tmp \subseteq Ids
  /\ newer \subseteq Ids \X Ids
  /\ saver \in [Threads -> [id : Ids \union {Missing}, data : Seq(Message),
                            on : {"tmp", "file", "gone", "none"}]]
  /\ ui \in {"down", "choosing", "open", "saving", "waiting", "picker", "leaving", "gone"}
  /\ after \in {"down", "open", "picker", "leaving"}
  /\ sessionId \in Ids \union {Missing} /\ (sessionId = Missing => ui \in {"down", "choosing"})
  /\ messages \in Seq(Message)
  /\ cancel \in BOOLEAN /\ running \in BOOLEAN /\ thinking \in BOOLEAN
  /\ jobs \in Seq(Ids) /\ turn \in Ids \union {Missing} /\ wpc \in Places
  /\ (turn = Missing <=> wpc = "free") /\ (running <=> wpc # "free")
  /\ posts \in Seq({"show", "think"})
  /\ made \subseteq Ids /\ shared \subseteq Ids /\ mixed \subseteq Ids /\ deleted \subseteq Ids
  /\ sent \in 0 .. MaxSends /\ starts \in 0 .. MaxStarts
  /\ visits \in 0 .. MaxVisits /\ notices \in 0 .. MaxNotices

\* Whenever the process dies, each session's file is a whole conversation, old or new: save
\* goes through a temporary file and rename (SessionStore.cpp:39). Only a session that two
\* threads were saving at one time is excepted: they share the temporary file.
FilesWhole == \A s \in Ids \ shared : files[s] # Torn

\* When no turn is queued or running, what the user sees as the conversation is what the
\* session's file holds, in every order of submissions, notices, restarts and saves
\* (App.cpp:510-526); and so when the loop has been left, until the vector is destroyed. Of a
\* turn that is still under way then nothing is said: what it saves is undefined.
SavedWhenIdle ==
  /\ ui \in {"open", "leaving"}
  /\ ~Busy
  /\ sessionId \notin mixed \union shared
  /\ messages # <<>>
  => files[sessionId] = messages

\* A session the user deleted stays deleted (ResumePicker.cpp:79-116 lets all but the current
\* one go): no save of a later or an unfinished turn brings it back, unless the user had left
\* it in the middle of a turn.
DeletedStays == \A s \in deleted \ mixed : files[s] = Missing

Stored(n) == \E s \in Ids : Readable(s) /\ \E i \in DOMAIN files[s] : files[s][i] = [by |-> s, n |-> n, role |-> "user"]

\* Once a message is in the conversation, its session's file will hold it, whether the turn
\* succeeds or fails and though another turn be queued before it: unless App is destroyed or
\* the process ends before, or the session was left in mid-turn or is saved by two threads at
\* once.
AcceptedIsSaved ==
  \A n \in 1 .. MaxSends :
    (\E i \in DOMAIN messages : messages[i].n = n)
      ~> (Stored(n) \/ sessionId \in mixed \union shared \/ ui \in {"gone", "down"})

\* What ReplView.cpp:1211 (other input is kept from competing with the worker for messages)
\* and App.cpp:446 (onSessionsCommand takes care of a switch in mid-turn) promise: a
\* session's file holds its own conversation. The code does not keep it.
SessionsApart == \A s \in Ids : Readable(s) => \A i \in DOMAIN files[s] : files[s][i].by = s

=============================================================================
