----------------------------- MODULE ModelTurn -----------------------------
(***************************************************************************)
(* A turn of the model and the resources it creates: LlmStream's reply     *)
(* gives the calls of tools, which the executor runs one after the other   *)
(* on the turn's thread; background sub-agents call the same tools on      *)
(* threads of their own, and the user types /create_... lines meanwhile. A *)
(* job of /create_... without a body and a turn share the pool's one       *)
(* worker. How the loop goes on after the results is in AgentLoop.         *)
(***************************************************************************)
EXTENDS LlmStream, Resources

CONSTANT SubAgentTools   \* the kinds whose create_... tool the sub-agents' definitions name

ASSUME TurnAssumption == "turn" \in Creators /\ SubAgentTools \subseteq Kinds

VARIABLE asked        \* what the turn's calls still to run are to create: a sequence of kinds

vars == <<streamVars, resVars, asked>>

SubAgents == Creators \ {"ui", "job", "turn"}
KindOf == [create_skill |-> "skill", create_command |-> "command",
           create_agent |-> "agent", create_rule |-> "rule"]

Init == StreamInit /\ ResInit /\ asked = <<>>

\* A pool of more than one worker.
NoTurn == phase = "idle" /\ asked = <<>> /\ making["turn"] = Idle
WorkerFree == NoTurn /\ making["job"] = Idle

Stream ==
  /\ ~dead
  /\ \/ Request /\ WorkerFree
     \/ Chunk \/ Complete \/ Fail
  /\ UNCHANGED <<resVars, asked>>

\* The calls of a reply up to the first that is an error: its tool is unknown, or its arguments
\* did not parse and give no name to create. The executor skips what comes after an error.
StartCalls ==
  /\ ~dead /\ Handed
  /\ asked' = IF phase = "failed" THEN <<>>
              ELSE LET calls == Finish.calls
                       good == {n \in 0 .. Len(calls) : \A i \in 1 .. n : calls[i].name \in DOMAIN KindOf /\ calls[i].args # <<>>}
                   IN  [i \in 1 .. Max(good) |-> KindOf[calls[i].name]]
  /\ UNCHANGED resVars

\* The executor takes the next call when the one before it is over.
RunCall ==
  /\ ~dead /\ asked # <<>>
  /\ ToolCall("turn", Head(asked))
  /\ asked' = Tail(asked)
  /\ UNCHANGED streamVars

\* A sub-agent's own turn comes to a call of a create_... tool, whenever it does; its
\* registry is the program's, filtered by the definition's list of tools.
SubAgentCalls(c) ==
  /\ ~dead
  /\ \E kind \in SubAgentTools : ToolCall(c, kind)
  /\ UNCHANGED <<streamVars, asked>>

UserCreates ==
  /\ ~dead
  /\ \E kind \in Kinds : FastPath(kind) \/ (WorkerFree /\ SlowPath(kind))
  /\ UNCHANGED <<streamVars, asked>>

\* A step of a creation; when one of the turn's ends with an error its other calls are skipped.
Create(c) ==
  /\ ~dead
  /\ Generate(c) \/ Check(c) \/ Open(c) \/ Write(c) \/ Register(c)
  /\ asked' = IF c = "turn" /\ making'[c] = Idle /\ told' = told THEN <<>> ELSE asked
  /\ UNCHANGED streamVars

Reload == ~dead /\ ReloadSkills /\ UNCHANGED <<streamVars, asked>>

StartAgain ==
  /\ Restart
  /\ phase' = "idle" /\ body' = <<>> /\ pos' = 0 /\ buffer' = <<>> /\ parser' = Fresh
  /\ asked' = <<>>
  /\ UNCHANGED requests

Next ==
  \/ Stream \/ StartCalls \/ RunCall \/ UserCreates \/ Reload \/ StartAgain
  \/ \E c \in Creators : Create(c)
  \/ \E c \in SubAgents : SubAgentCalls(c)

Spec == Init /\ [][Next]_vars

\* Each variable has its type, a reply's calls begin only once it is whole, and the
\* worker has one thing to do: a turn or a job.
TypeOK ==
  /\ phase \in {"idle", "streaming", "done", "failed"}
  /\ pos \in 0 .. 2 * Len(body) /\ Len(buffer) <= 1
  /\ asked \in BoundedSeq(Kinds, 2)
  /\ \A c \in Creators : making[c].pc \in {"idle", "generate", "check", "open", "write", "register"}
  /\ \A k \in Kinds : file[k] # None => file[k].n \in 0 .. creates
  /\ told \subseteq [kind : Kinds, n : 1 .. creates] /\ raced \subseteq Kinds
  /\ ~(phase = "idle" /\ asked = <<>> /\ making["turn"] = Idle) => making["job"] = Idle
  /\ phase # "idle" => asked = <<>> /\ making["turn"] = Idle

=============================================================================
