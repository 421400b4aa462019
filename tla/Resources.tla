----------------------------- MODULE Resources -----------------------------
(***************************************************************************)
(* src/commands with the registries of skills, commands, sub-agents and    *)
(* rules: a resource is a file under ~/.aicoder and an entry in memory.    *)
(* It is created by a line /create_... with a body (on the UI thread), by  *)
(* one without (on the pool's worker, which asks the model for the body)   *)
(* or by the model's create_... tools (on the turn's thread, or on that of *)
(* a background sub-agent). All of them write the file the same way: test  *)
(* that there is none, open, write, and then put the entry into memory.    *)
(* The user reloads the skills or starts the program again, the process    *)
(* may die.                                                                *)
(*                                                                         *)
(* One name stands for all: resources of different names share nothing.    *)
(***************************************************************************)
EXTENDS Naturals, Sequences, SequencesExt, FiniteSets

CONSTANTS
  Creators,     \* "ui", "job", "turn" and the background sub-agents
  MaxCreates    \* bound: creations begun

Kinds == {"skill", "command", "agent", "rule"}

ASSUME CreatorsAssumption == {"ui", "job"} \subseteq Creators
ASSUME CreatesAssumption == MaxCreates \in Nat

VARIABLES
  file,         \* the file of each kind, a sequence of lines, or None
  project,      \* the kinds with a file of this name under the project's directory
  known,        \* what memory holds of each kind: [desc, body] or None
  making,       \* what each creator is at
  creates,
  dead,         \* the process has been brought down
  told,         \* history: successes told, [kind, file]
  raced         \* history: kinds two creators worked at side by side

resVars == <<file, project, known, making, creates, dead, told, raced>>

None == [t |-> "none"]
Idle == [pc |-> "idle"]

\* A line of a file: a mark, a key with its value, or one of a text, which names the
\* creation it is of.
Line(t, n) == [t |-> t, n |-> n]
Mark == Line("---", 0)
TheProjects == [desc |-> <<Line("text", 0)>>, body |-> <<Line("text", 0)>>]

\* What reaches a file, plain or not: the tools and the model may give a description of
\* two lines and a body that begins with an empty one.
Given(n) ==
  {[desc |-> <<Line("text", n)>>, body |-> <<Line("text", n)>>],
   [desc |-> <<Line("text", n), Line("more", n)>>, body |-> <<Line("blank", n), Line("text", n)>>]}

-----------------------------------------------------------------------------
(* The file's form.                                                        *)

\* What writeResource writes.
Written(kind, desc, body) ==
  <<Mark, Line("name", 0)>>
    \o (IF kind = "rule" /\ desc = <<>> THEN <<>> ELSE <<[desc[1] EXCEPT !.t = "description"]>> \o Tail(desc))
    \o <<Mark>> \o body

\* parseFrontmatter: the second mark ends the head, of which only "key: value" lines count;
\* the body loses its leading blanks. Without a second mark all of it is the body.
ParseFrontmatter(lines) ==
  LET marks == {i \in 2 .. Len(lines) : lines[i] = Mark}
      end == CHOOSE i \in marks : \A j \in marks : i <= j
      head == SelectSeq(SubSeq(lines, 1, end), LAMBDA l : l.t = "description")
      rest == SubSeq(lines, end + 1, Len(lines))
      solid == {i \in DOMAIN rest : rest[i].t # "blank"}
      first == CHOOSE i \in solid : \A j \in solid : i <= j
  IN  IF lines = <<>> \/ lines[1] # Mark \/ marks = {}
        THEN [desc |-> <<>>, body |-> lines]
        ELSE [desc |-> [i \in DOMAIN head |-> [head[i] EXCEPT !.t = "text"]],
              body |-> IF solid = {} THEN <<>> ELSE SubSeq(rest, first, Len(rest))]

\* The rules are joined into the prompt as they are, head and all.
Parsed(kind, lines) == IF kind = "rule" THEN [desc |-> <<>>, body |-> lines] ELSE ParseFrontmatter(lines)

\* discover, at the start: the project's file of the name comes after the global one.
Discovered(kind) ==
  IF kind \in project THEN TheProjects
  ELSE IF file[kind] = None THEN None ELSE Parsed(kind, file[kind].lines)

ResInit ==
  /\ file = [k \in Kinds |-> None]
  /\ project \in {{}, {"skill", "command"}}
  /\ known = [k \in Kinds |-> IF k \in project THEN TheProjects ELSE None]
  /\ making = [c \in Creators |-> Idle]
  /\ creates = 0 /\ dead = FALSE /\ told = {} /\ raced = {}

-----------------------------------------------------------------------------
(* Where a creation begins: the kind, what is still to do, and what the    *)
(* user or the model gave.                                                 *)

Work(c, kind, pc, desc, body) ==
  /\ making[c] = Idle /\ creates < MaxCreates
  /\ creates' = creates + 1
  /\ making' = [making EXCEPT ![c] = [pc |-> pc, kind |-> kind, desc |-> desc, body |-> body, n |-> creates + 1]]
  /\ UNCHANGED <<file, project, known, dead, told, raced>>

\* parseCreateArgs: "name description | body" is one line, and its parts are trimmed.
Typed(n) == {g \in Given(n) : Len(g.desc) = 1}

\* handleCreateCommand with a body: all of it runs on the UI thread.
FastPath(kind) == \E g \in Typed(creates + 1) : Work("ui", kind, "check", g.desc, g.body)

\* The same without one: the worker asks the model.
SlowPath(kind) == Work("job", kind, "generate", <<>>, <<>>)

\* maybeGenerateBody: a call of a tool comes with a body or has to get one.
WithBody(c, kind, desc, body) ==
  Work(c, kind, "generate", desc, <<>>) \/ Work(c, kind, "check", desc, body)

SkillTool(c) == \E g \in Given(creates + 1) : WithBody(c, "skill", g.desc, g.body)
CommandTool(c) == \E g \in Given(creates + 1) : WithBody(c, "command", g.desc, g.body)

\* The tools the sub-agent is to be confined to become words of its description.
AgentTool(c) == \E g \in Given(creates + 1) : WithBody(c, "agent", g.desc, g.body)

\* create_rule takes no description.
RuleTool(c) == \E g \in Given(creates + 1) : WithBody(c, "rule", <<>>, g.body)

ToolCall(c, kind) ==
  CASE kind = "skill" -> SkillTool(c) [] kind = "command" -> CommandTool(c)
    [] kind = "agent" -> AgentTool(c) [] kind = "rule" -> RuleTool(c)

\* The model's answer: an object with a body, or the whole text where there is no object,
\* none that parses, or none with a body.
Answers(n) == Given(n)

\* generateResource: the request may fail and the answer may be empty. A tool keeps its own
\* description, the worker takes the model's.
Generate(c) ==
  /\ making[c].pc = "generate"
  /\ \/ making' = [making EXCEPT ![c] = Idle]
     \/ \E a \in Answers(making[c].n) :
          making' = [making EXCEPT ![c].pc = "check", ![c].body = a.body,
                                   ![c].desc = IF c = "job" THEN a.desc ELSE @]
  /\ UNCHANGED <<file, project, known, creates, dead, told, raced>>

-----------------------------------------------------------------------------
(* writeResource, call by call.                                            *)

Rivals(c) == {d \in Creators \ {c} : making[d].pc \in {"open", "write", "register"} /\ making[d].kind = making[c].kind}

Proceed(c, pc) == making' = [making EXCEPT ![c].pc = pc]
Exists(kind) == file[kind] # None

\* Without the test that there is no file.
CheckNothing(c) ==
  /\ making[c].pc = "check"
  /\ raced' = IF Rivals(c) # {} THEN raced \union {making[c].kind} ELSE raced
  /\ Proceed(c, "open")
  /\ UNCHANGED <<file, project, known, creates, dead, told>>

\* createSkill and its like: the path is the kind's, and an existing file is an error.
Check(c) ==
  /\ making[c].pc = "check"
  /\ raced' = IF Rivals(c) # {} THEN raced \union {making[c].kind} ELSE raced
  /\ IF Exists(making[c].kind) THEN making' = [making EXCEPT ![c] = Idle] ELSE Proceed(c, "open")
  /\ UNCHANGED <<file, project, known, creates, dead, told>>

\* Opening truncates; the directory or the file may not be made.
Open(c) ==
  /\ making[c].pc = "open"
  /\ \/ /\ file' = [file EXCEPT ![making[c].kind] = [lines |-> <<>>, n |-> making[c].n]]
        /\ Proceed(c, "write")
     \/ making' = [making EXCEPT ![c] = Idle] /\ UNCHANGED file
  /\ UNCHANGED <<project, known, creates, dead, told, raced>>

\* The lines that fit where not all of them do.
Fits == 3

\* All of it, or what fits: the outcome is then an error and the file stays.
Write(c) ==
  /\ making[c].pc = "write"
  /\ LET w == making[c] all == Written(w.kind, w.desc, w.body) IN
       \/ /\ file' = [file EXCEPT ![w.kind] = [lines |-> all, n |-> w.n]]
          /\ Proceed(c, "register")
       \/ /\ file' = [file EXCEPT ![w.kind] = [lines |-> SubSeq(all, 1, Fits), n |-> 0]]
          /\ making' = [making EXCEPT ![c] = Idle]
  /\ UNCHANGED <<project, known, creates, dead, told, raced>>

-----------------------------------------------------------------------------
(* The entry in memory, and the success told.                              *)

\* writeAndRegister, and the same of handleCreateCommand's two ways.
Succeed(c) ==
  /\ making' = [making EXCEPT ![c] = Idle]
  /\ told' = told \union {[kind |-> making[c].kind, n |-> making[c].n]}

AsGiven(w) == [desc |-> w.desc, body |-> w.body]

\* The skill taken from the arguments and not from the file.
AddSkillAsGiven(c) ==
  /\ making[c].kind = "skill"
  /\ known' = [known EXCEPT !["skill"] = AsGiven(making[c])]
  /\ Succeed(c) /\ UNCHANGED dead

\* SkillRegistry::addOne and SubAgentRegistry::addOne read the file back.
AddSkill(c) ==
  /\ making[c].kind = "skill"
  /\ known' = [known EXCEPT !["skill"] = Parsed("skill", file["skill"].lines)]
  /\ Succeed(c) /\ UNCHANGED dead

AddAgent(c) ==
  /\ making[c].kind = "agent"
  /\ known' = [known EXCEPT !["agent"] = Parsed("agent", file["agent"].lines)]
  /\ Succeed(c) /\ UNCHANGED dead

\* A command goes to the router as it was given.
InjectCommand(c) ==
  /\ making[c].kind = "command"
  /\ known' = [known EXCEPT !["command"] = AsGiven(making[c])]
  /\ Succeed(c) /\ UNCHANGED dead

\* A rule of the user's is added to the prompt. The tool's callback is a reference to a
\* parameter that is gone: the call does nothing or brings the process down.
AppendRule(c) ==
  /\ making[c].kind = "rule"
  /\ \/ /\ c \in {"ui", "job"} /\ known' = [known EXCEPT !["rule"] = AsGiven(making[c])]
        /\ Succeed(c) /\ UNCHANGED dead
     \/ c \notin {"ui", "job"} /\ Succeed(c) /\ UNCHANGED <<known, dead>>
     \/ c \notin {"ui", "job"} /\ dead' = TRUE /\ UNCHANGED <<known, making, told>>

Register(c) ==
  /\ making[c].pc = "register"
  /\ AddSkill(c) \/ AddAgent(c) \/ InjectCommand(c) \/ AppendRule(c)
  /\ UNCHANGED <<file, project, creates, raced>>

-----------------------------------------------------------------------------
(* /reload-skills, the end of the process and the next start of it.        *)

ReloadSkills ==
  /\ making["ui"] = Idle
  /\ known["skill"] # Discovered("skill")
  /\ known' = [known EXCEPT !["skill"] = Discovered("skill")]
  /\ UNCHANGED <<file, project, making, creates, dead, told, raced>>

\* The user's kill -9 and exit alike.
Restart ==
  /\ known' = [k \in Kinds |-> Discovered(k)]
  /\ making' = [c \in Creators |-> Idle]
  /\ dead' = FALSE
  /\ UNCHANGED <<file, project, creates, told, raced>>

-----------------------------------------------------------------------------

\* What a success was told of is in the file, whole, as long as the file is there, except
\* where two creators worked at the same resource at the same time (writeResource: the
\* test and the opening are two calls).
CreatedIsKept == \A s \in told :
  \/ s.kind \in raced
  \/ file[s.kind] # None /\ file[s.kind].n = s.n

\* When nothing is being created, memory holds of a skill, a command and a sub-agent what
\* the next start would read from the files: a resource does not change by a restart. Out
\* of this are a resource two creators worked at, one the project has too, and one whose
\* file was never finished; a command may differ where its file cannot hold what was given.
SameAfterRestart == (\A c \in Creators : making[c] = Idle) /\ ~dead =>
  \A k \in Kinds \ {"rule"} :
    \/ k \in raced \union project
    \/ file[k] # None /\ file[k].n = 0
    \/ known[k] = Discovered(k)
    \/ k = "command" /\ file[k] # None /\ file[k].lines = Written(k, known[k].desc, known[k].body)

=============================================================================
