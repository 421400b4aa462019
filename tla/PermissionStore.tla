-------------------------- MODULE PermissionStore --------------------------
(***************************************************************************)
(* src/core/PermissionStore.cpp: the calls the user allowed for ever, as   *)
(* rules of a tool and a pattern. A call's input is matched as its text;   *)
(* a text is a sequence of pieces, and that of an object begins with "{".  *)
(* Each operation runs under the mutex.                                    *)
(***************************************************************************)
EXTENDS Naturals, Sequences, SequencesExt

Rule(tool, pattern) == [tool |-> tool, pattern |-> pattern]

\* serializeInput: of an object.
Payload(input) == <<"{">> \o input \o <<"}">>

\* std::regex: "{" repeats nothing at the beginning and does not compile; "." is any piece.
Compiles(pattern) == pattern = <<>> \/ pattern[1] # "{"
FoundAt(pattern, text, i, wild) ==
  \A j \in DOMAIN pattern : text[i + j] = pattern[j] \/ (wild /\ pattern[j] = ".")
Found(pattern, text, wild) ==
  \E i \in 0 .. Len(text) - Len(pattern) : FoundAt(pattern, text, i, wild)

\* A pattern that does not compile is looked for as it is.
IsAllowed(rules, tool, input) ==
  \E i \in DOMAIN rules :
    rules[i].tool = tool /\ Found(rules[i].pattern, Payload(input), Compiles(rules[i].pattern))

AllowForever(rules, tool, input) ==
  IF Rule(tool, Payload(input)) \in ToSet(rules) THEN rules ELSE Append(rules, Rule(tool, Payload(input)))

\* The file's rules; one without a tool or a pattern is left out when they are read.
Save(rules) == rules
Load(saved) == SelectSeq(saved, LAMBDA r : r.tool # "" /\ r.pattern # <<>>)

\* The start of the program: what the user wrote into the file.
Constructed(saved) == IF saved = "corrupt" THEN <<>> ELSE Load(saved)

\* An operation: a call that is allowed for ever, or the file written and read again.
Applied(rules, op) == IF op.tool = "" THEN Load(Save(rules)) ELSE AllowForever(rules, op.tool, op.input)
Rules(saved, ops) == FoldLeft(Applied, Constructed(saved), ops)

-----------------------------------------------------------------------------

\* A call the user allowed for ever is allowed ever after, through later consents and the
\* file; what the user wrote into the file stays beside it, and no rule is there twice
\* (PermissionStore::isAllowed, allowForever, load).
ConsentLasts(saved, ops) ==
  LET rules == Rules(saved, ops) IN
  /\ saved # "corrupt" => ToSet(Load(saved)) \subseteq ToSet(rules)
  /\ \A i \in DOMAIN ops : ops[i].tool # "" => IsAllowed(rules, ops[i].tool, ops[i].input)
  /\ IsInjective(rules)

=============================================================================
