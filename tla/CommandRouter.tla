--------------------------- MODULE CommandRouter ---------------------------
(***************************************************************************)
(* What a line with a slash runs: src/ui/App.cpp's onSubmit looks first,   *)
(* then src/commands/CommandRouter.cpp, which offers the menu as well. A   *)
(* line is a name and arguments; a text is a sequence of pieces, and "$"   *)
(* stands for $ARGUMENTS. Templates and skills are functions of names.     *)
(***************************************************************************)
EXTENDS Naturals, Sequences, SequencesExt

Arguments == "$"

\* The program's own, as the menu lists them; those that take no arguments are lines.
Own == <<"quit", "clear", "sessions", "agents", "skills", "reload-skills">>
Creating == <<"create_skill", "create_command", "create_agent", "create_rule">>
Prefixed == ToSet(Creating) \union {"create_other"}   \* the names that begin so

\* replaceAll of $ARGUMENTS goes on behind what it put in.
Expanded(body, args) == FlattenSeq([i \in DOMAIN body |-> IF body[i] = Arguments THEN args ELSE <<body[i]>>])

Template(body, args) == [runs |-> "template", prompt |-> Expanded(body, args)]

\* A skill's body takes the arguments where it has a place for them, and behind them
\* otherwise.
Skill(body, args) ==
  [runs |-> "skill",
   prompt |-> IF Arguments \in ToSet(body) THEN Expanded(body, args)
              ELSE IF args # <<>> THEN args \o body ELSE body]

\* The templates come before the skills; anything else is a message to the model.
Handle(name, args, templates, skills) ==
  IF name \in ToSet(Own) \union {"exit"} /\ args = <<>> THEN [runs |-> name, prompt |-> <<>>]
  ELSE IF name \in DOMAIN templates THEN Template(templates[name], args)
  ELSE IF name \in DOMAIN skills THEN Skill(skills[name], args)
  ELSE [runs |-> "message", prompt |-> <<>>]

\* onSubmit: every line that begins with /create_ is taken before the router.
OnSubmit(name, args, templates, skills) ==
  IF name \in Prefixed THEN [runs |-> IF name \in ToSet(Creating) THEN name ELSE "unknown", prompt |-> args]
  ELSE Handle(name, args, templates, skills)

\* commands: the menu.
Commands(templates, skills) ==
  [i \in DOMAIN (Own \o Creating) |-> [name |-> (Own \o Creating)[i], runs |-> (Own \o Creating)[i]]]
    \o SetToSeq({[name |-> n, runs |-> "template"] : n \in DOMAIN templates})
    \o SetToSeq({[name |-> n, runs |-> "skill"] : n \in DOMAIN skills})

-----------------------------------------------------------------------------

\* What a name typed alone runs is the first entry of that name in the menu: whatever
\* names the templates and skills have taken, the menu and the router agree. Two kinds of
\* names are never reached: exit, and those that begin with create_.
MenuRuns(templates, skills) ==
  LET menu == Commands(templates, skills) IN
  \A i \in DOMAIN menu :
    (menu[i].name \notin {"exit", "create_other"} /\ \A j \in 1 .. i - 1 : menu[j].name # menu[i].name)
      => OnSubmit(menu[i].name, <<>>, templates, skills).runs = menu[i].runs

\* A skill that is called with arguments shows them to the model, placeholder or not
\* (CommandRouter.cpp:77), and its own text as well.
SkillShowsArguments(name, args, skills) ==
  LET o == OnSubmit(name, args, <<>>, skills)
      own == SelectSeq(skills[name], LAMBDA x : x # Arguments)
  IN  o.runs = "skill" =>
        /\ ToSet(args) \union ToSet(own) \subseteq ToSet(o.prompt)
        /\ Arguments \in ToSet(args) \/ Arguments \notin ToSet(o.prompt)

=============================================================================
