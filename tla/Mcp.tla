-------------------------------- MODULE Mcp --------------------------------
(***************************************************************************)
(* src/mcp: the manager connects the configured servers one after the      *)
(* other while main starts, and the threads that run tools call them: the  *)
(* turn's and the background sub-agents'. A client's mutex is held from    *)
(* the writing of a request to the end of its answer, so that a thread     *)
(* waiting for it has not begun its call. A server is a child process at   *)
(* the end of two pipes: it answers, emits lines of its own, ignores       *)
(* SIGTERM or exits whenever it likes.                                     *)
(*                                                                         *)
(* No cancel token reaches a client: nobody calls setCancelToken. A line   *)
(* is reduced to what the client tells apart. The pipe of requests is      *)
(* never full.                                                             *)
(***************************************************************************)
EXTENDS Naturals, Sequences

CONSTANTS
  Servers,      \* the number of configured servers: they are 1 .. Servers
  Callers,      \* threads that run tools
  Turn,         \* the one that is joined before the manager is destroyed
  MaxCalls,     \* bound: calls of tools
  MaxNoise      \* bound: lines the servers emit unasked

ASSUME ServersAssumption == Servers \in Nat
ASSUME CallersAssumption == Turn \in Callers /\ "main" \notin Callers
ASSUME McpBoundsAssumption == {MaxCalls, MaxNoise} \subseteq Nat

VARIABLES
  prog,         \* the program: "boot" in registerAllTools, "ending" in shutdownAll
  at,           \* the server main is at, in either
  state,        \* state_ of each client
  nextId,       \* next_id_ of each client
  failed,       \* failed of each server's entry
  tools,        \* the server's tools are in the registry
  child,        \* the child process: "none" before and after, "dead" when not yet reaped
  inbox, out,   \* the pipes: requests to the server, lines from it
  call,         \* of each thread: the request it reads the answer of
  got,          \* history: of the last call that returned text
  calls, noise

clientVars == <<state, nextId, failed, tools>>
mcpVars == <<prog, at, clientVars, child, inbox, out, call, got, calls, noise>>

All == 1 .. Servers
Threads == Callers \union {"main"}
Methods == {"initialize", "tools/list", "tools/call"}
NoCall == [on |-> 0, id |-> 0, n |-> 0, method |-> "tools/call"]

\* A request. n tells the calls of the whole run apart, id those of one client.
Request == [on : Nat, id : Nat, n : Nat, method : Methods]

\* An answer echoes its request's id. "odd" is one whose members have types the client
\* does not expect, "ask" a request of the server's own (ping), with a number of its own.
\* "note" has no id, "junk" is no JSON or is empty.
Line == [kind : {"answer", "error", "odd", "ask", "note", "junk"}, id : Nat, of : Nat]

Alive == prog \in {"boot", "up", "ending"}
Free(s) == \A t \in Threads : call[t].on # s

McpInit ==
  /\ prog = "boot" /\ at = 1
  /\ state = [s \in All |-> "Disconnected"] /\ nextId = [s \in All |-> 1]
  /\ failed = [s \in All |-> FALSE] /\ tools = [s \in All |-> FALSE]
  /\ child = [s \in All |-> "none"]
  /\ inbox = [s \in All |-> <<>>] /\ out = [s \in All |-> <<>>]
  /\ call = [t \in Threads |-> NoCall] /\ got = [n |-> 0, of |-> 0]
  /\ calls = 0 /\ noise = 0

-----------------------------------------------------------------------------
(* Requests and answers.                                                   *)

\* Writing a request under the client's mutex: the id is the client's next. Nothing in
\* the program handles SIGPIPE: a write to a server that is gone ends the process.
Send(t, s, method) ==
  /\ Free(s)
  /\ nextId' = [nextId EXCEPT ![s] = @ + 1]
  /\ IF child[s] = "up"
       THEN /\ call' = [call EXCEPT ![t] = [on |-> s, id |-> nextId[s], n |-> calls + 1, method |-> method]]
            /\ inbox' = [inbox EXCEPT ![s] = Append(@, call'[t])]
            /\ prog' = prog
       ELSE prog' = "killed" /\ UNCHANGED <<call, inbox>>
  /\ calls' = calls + 1
  /\ UNCHANGED out

\* Without the test of the id.
OutcomeUnchecked(c, l) ==
  CASE l.kind = "junk" -> "McpError"
    [] l.kind = "odd" -> "type_error"
    [] l.kind = "error" -> "refused"
    [] OTHER -> "ok"

\* What the client makes of a line with an id: connect looks at no id.
Outcome(c, l) ==
  CASE l.kind = "junk" -> "McpError"
    [] l.kind = "odd" -> "type_error"
    [] c.method # "initialize" /\ l.id # c.id -> "McpError"
    [] l.kind = "error" -> "refused"
    [] OTHER -> "ok"

\* readResponse skips a line without an id and takes the next other one, or finds the
\* pipe at its end.
Skip(t) ==
  LET s == call[t].on IN
  /\ Alive /\ call[t] # NoCall /\ out[s] # <<>> /\ Head(out[s]).kind = "note"
  /\ out' = [out EXCEPT ![s] = Tail(@)]
  /\ UNCHANGED <<prog, at, clientVars, child, inbox, call, got, calls, noise>>

\* The reader that takes the end of the pipe for a pause.
TakeLines(t, outcome) ==
  LET s == call[t].on IN
  /\ call[t] # NoCall /\ call' = [call EXCEPT ![t] = NoCall]
  /\ out[s] # <<>> /\ Head(out[s]).kind # "note"
  /\ Outcome(call[t], Head(out[s])) = outcome
  /\ out' = [out EXCEPT ![s] = Tail(@)]
  /\ UNCHANGED <<child, inbox, noise>>

Take(t, outcome) ==
  LET s == call[t].on IN
  /\ call[t] # NoCall /\ call' = [call EXCEPT ![t] = NoCall]
  /\ \/ /\ out[s] # <<>> /\ Head(out[s]).kind # "note"
        /\ Outcome(call[t], Head(out[s])) = outcome
        /\ out' = [out EXCEPT ![s] = Tail(@)]
     \/ out[s] = <<>> /\ child[s] # "up" /\ outcome = "McpError" /\ UNCHANGED out
  /\ UNCHANGED <<child, inbox, noise>>

-----------------------------------------------------------------------------
(* main: registerAllTools, server by server.                               *)

NextServer == at' = at + 1
Booting(s) == prog = "boot" /\ at = s /\ call["main"] = NoCall

\* start: no pipe or no fork, or a child whose pipes are closed again, or a child.
Spawn(s) ==
  /\ Booting(s) /\ state[s] = "Disconnected"
  /\ \/ /\ child' \in {child, [child EXCEPT ![s] = "up"]}
        /\ state' = [state EXCEPT ![s] = "Error"]
        /\ failed' = [failed EXCEPT ![s] = TRUE]
        /\ NextServer
     \/ /\ child' = [child EXCEPT ![s] = "up"]
        /\ state' = [state EXCEPT ![s] = "Initializing"]
        /\ UNCHANGED <<at, failed>>
  /\ UNCHANGED <<prog, nextId, tools, inbox, out, call, got, calls, noise>>

\* The rest of connect, once the child is there, and the request of listTools.
Ask(s) ==
  /\ Booting(s)
  /\ \/ state[s] = "Initializing" /\ Send("main", s, "initialize")
     \/ state[s] = "Ready" /\ Send("main", s, "tools/list")
  /\ UNCHANGED <<at, state, failed, tools, child, out, got, noise>>

\* connect has its answer. What it throws reaches main, which catches nothing.
Connected(s) ==
  /\ prog = "boot" /\ at = s /\ call["main"].method = "initialize"
  /\ \/ \E o \in {"McpError", "type_error"} : Take("main", o)
        /\ prog' = "terminated" /\ UNCHANGED <<at, state, failed>>
     \/ /\ Take("main", "refused")
        /\ state' = [state EXCEPT ![s] = "Error"] /\ failed' = [failed EXCEPT ![s] = TRUE]
        /\ NextServer /\ UNCHANGED prog
     \/ /\ Take("main", "ok")      \* and notifications/initialized is written
        /\ IF child[s] = "up" THEN state' = [state EXCEPT ![s] = "Ready"] /\ UNCHANGED prog
                              ELSE prog' = "killed" /\ UNCHANGED state
        /\ UNCHANGED <<at, failed>>
  /\ UNCHANGED <<nextId, tools, got, calls>>

\* listTools has its answer: an McpError fails the server, any other exception ends main.
Listed(s) ==
  /\ prog = "boot" /\ at = s /\ call["main"].method = "tools/list"
  /\ \/ \E o \in {"McpError", "refused"} : Take("main", o)
        /\ failed' = [failed EXCEPT ![s] = TRUE] /\ NextServer /\ UNCHANGED <<prog, tools>>
     \/ Take("main", "type_error") /\ prog' = "terminated" /\ UNCHANGED <<at, failed, tools>>
     \/ /\ Take("main", "ok")
        /\ tools' = [tools EXCEPT ![s] = TRUE] /\ NextServer /\ UNCHANGED <<prog, failed>>
  /\ UNCHANGED <<state, nextId, got, calls>>

Booted ==
  /\ prog = "boot" /\ at > Servers
  /\ prog' = "up"
  /\ UNCHANGED <<at, clientVars, child, inbox, out, call, got, calls, noise>>

-----------------------------------------------------------------------------
(* The threads that run tools.                                             *)

\* callTool of a tool in the registry. A client that is not ready throws.
Call(t, s) ==
  /\ prog = "up" \/ (prog = "ending" /\ t # Turn)
  /\ t \in Callers /\ call[t] = NoCall
  /\ tools[s] /\ state[s] = "Ready"
  /\ calls < MaxCalls
  /\ Send(t, s, "tools/call")
  /\ UNCHANGED <<at, state, failed, tools, child, got, noise>>

\* The text of the answer, empty for a line that has no result, or the tool's error.
Returned(t) ==
  /\ Alive /\ t \in Callers
  /\ \/ LET c == call[t] l == Head(out[c.on]) IN
        /\ Take(t, "ok")
        /\ got' = [n |-> c.n, of |-> l.of]
     \/ \E o \in {"McpError", "refused", "type_error"} : Take(t, o) /\ UNCHANGED got
  /\ UNCHANGED <<prog, at, clientVars, calls>>

-----------------------------------------------------------------------------
(* The end: the pool, and with it the turn's thread, is joined with the    *)
(* application; then the manager is destroyed, the sub-agents still there. *)

Exit ==
  /\ prog = "up" /\ call[Turn] = NoCall
  /\ prog' = "ending" /\ at' = 1
  /\ UNCHANGED <<clientVars, child, inbox, out, call, got, calls, noise>>

\* A shutdown that stops at SIGTERM, which a server may ignore.
DisconnectPolitely(s) ==
  /\ prog = "ending" /\ at = s /\ Free(s)
  /\ child' \in {child, [child EXCEPT ![s] = "none"]}
  /\ state' = [state EXCEPT ![s] = "Disconnected"]
  /\ inbox' = [inbox EXCEPT ![s] = <<>>] /\ out' = [out EXCEPT ![s] = <<>>]
  /\ NextServer
  /\ UNCHANGED <<prog, nextId, failed, tools, call, got, calls, noise>>

\* A disconnect that does not wait for the client's mutex.
DisconnectAtOnce(s) ==
  /\ prog = "ending" /\ at = s
  /\ child' = [child EXCEPT ![s] = "none"]
  /\ state' = [state EXCEPT ![s] = "Disconnected"]
  /\ inbox' = [inbox EXCEPT ![s] = <<>>] /\ out' = [out EXCEPT ![s] = <<>>]
  /\ NextServer
  /\ UNCHANGED <<prog, nextId, failed, tools, call, got, calls, noise>>

\* disconnect waits for the client's mutex; shutdown sends SIGTERM, waits, sends SIGKILL
\* and reaps, a child that was gone before as well.
Disconnect(s) ==
  /\ prog = "ending" /\ at = s /\ Free(s)
  /\ child' = [child EXCEPT ![s] = "none"]
  /\ state' = [state EXCEPT ![s] = "Disconnected"]
  /\ inbox' = [inbox EXCEPT ![s] = <<>>] /\ out' = [out EXCEPT ![s] = <<>>]
  /\ NextServer
  /\ UNCHANGED <<prog, nextId, failed, tools, call, got, calls, noise>>

Ended ==
  /\ prog = "ending" /\ at > Servers
  /\ prog' = "ended"
  /\ UNCHANGED <<at, clientVars, child, inbox, out, call, got, calls, noise>>

-----------------------------------------------------------------------------
(* The servers.                                                            *)

Emit(s, l) == out' = [out EXCEPT ![s] = Append(@, l)]

Answer(s) ==
  /\ Alive /\ child[s] = "up" /\ inbox[s] # <<>>
  /\ LET r == Head(inbox[s]) IN
       \E k \in {"answer", "error", "odd"} : Emit(s, [kind |-> k, id |-> r.id, of |-> r.n])
  /\ inbox' = [inbox EXCEPT ![s] = Tail(@)]
  /\ UNCHANGED <<prog, at, clientVars, child, call, got, calls, noise>>

Chatter(s) ==
  /\ Alive /\ child[s] = "up" /\ state[s] \in {"Initializing", "Ready"}
  /\ noise < MaxNoise /\ noise' = noise + 1
  /\ \E l \in {[kind |-> k, id |-> 0, of |-> 0] : k \in {"note", "junk"}}
           \union {[kind |-> "ask", id |-> i, of |-> 0] : i \in 1 .. nextId[s]} : Emit(s, l)
  /\ UNCHANGED <<prog, at, clientVars, child, inbox, call, got, calls>>

Die(s) ==
  /\ Alive /\ child[s] = "up"
  /\ child' = [child EXCEPT ![s] = "dead"] /\ inbox' = [inbox EXCEPT ![s] = <<>>]
  /\ UNCHANGED <<prog, at, clientVars, out, call, got, calls, noise>>

-----------------------------------------------------------------------------

MainStep ==
  \/ Booted \/ Ended
  \/ \E s \in All : Spawn(s) \/ Ask(s) \/ Connected(s) \/ Listed(s) \/ Disconnect(s)

McpStep ==
  \/ MainStep \/ Exit
  \/ \E t \in Threads : Skip(t)
  \/ \E t \in Callers : Returned(t) \/ \E s \in All : Call(t, s)
  \/ \E s \in All : Answer(s) \/ Chatter(s) \/ Die(s)

\* The process is gone.
Halted == ~Alive /\ UNCHANGED mcpVars

Next == McpStep \/ Halted

\* The threads run; a server with a request answers it or exits.
Fairness ==
  /\ WF_mcpVars(MainStep)
  /\ \A t \in Threads : WF_mcpVars(Skip(t))
  /\ \A t \in Callers : WF_mcpVars(Returned(t))
  /\ \A s \in All : WF_mcpVars(inbox[s] # <<>> /\ (Answer(s) \/ Die(s)))

Spec == McpInit /\ [][Next]_mcpVars /\ Fairness

-----------------------------------------------------------------------------

\* Each variable has its type, and a thread reads an answer only of a client whose
\* transport is there: its state is past start and no disconnect ran under it.
TypeOK ==
  /\ prog \in {"boot", "up", "ending", "ended", "terminated", "killed"} /\ at \in Nat
  /\ state \in [All -> {"Disconnected", "Initializing", "Ready", "Error"}]
  /\ nextId \in [All -> Nat] /\ failed \in [All -> BOOLEAN] /\ tools \in [All -> BOOLEAN]
  /\ child \in [All -> {"none", "up", "dead"}]
  /\ inbox \in [All -> Seq(Request)] /\ out \in [All -> Seq(Line)]
  /\ call \in [Threads -> Request]
  /\ got \in [n : Nat, of : Nat] /\ calls \in Nat /\ noise \in Nat
  /\ \A t \in Threads : call[t] # NoCall =>
       call[t].on \in All /\ state[call[t].on] \in {"Initializing", "Ready"}

\* The text a call returns is the answer to that very call or no text at all, whatever
\* the server emitted before and whichever call was given up with its answer still to
\* come (McpClient::sendRequest, the id).
AnswerIsOwn == got.of \in {0, got.n}

\* When the program has ended in the ordinary way it leaves no server behind, not the one
\* that ignores SIGTERM, not one whose start failed half-way, and none unreaped
\* (StdioTransport::shutdown, McpManager::shutdownAll).
ChildrenReaped == prog = "ended" => \A s \in All : child[s] = "none"

\* As long as every server answers what it is asked or exits, nobody waits for ever: not
\* main as it starts, not a call, not the exit that waits for a sub-agent's call
\* (StdioTransport::readLine, the end of the pipe).
NothingHangs ==
  /\ prog \in {"boot", "ending"} ~> prog \notin {"boot", "ending"}
  /\ \A t \in Callers : call[t] # NoCall ~> (call[t] = NoCall \/ ~Alive)

=============================================================================
