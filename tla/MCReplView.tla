----------------------------- MODULE MCReplView -----------------------------
(***************************************************************************)
(* ReplView for TLC: calls that may be allowed forever, rules as           *)
(* PermissionStore makes and matches them, keys typed in pairs, so that a  *)
(* key is handled before the frame that shows its effect.                  *)
(***************************************************************************)
EXTENDS ReplView

Store == INSTANCE PermissionStore

\* The rule made of the first call covers the second too, whose input holds the first's as an
\* object; the file may have a rule for edit whatever its input.
Bash == [tool |-> "bash", input |-> <<"a">>]
Nested == [tool |-> "bash", input |-> <<"x", "{", "a", "}">>]
Edit == [tool |-> "edit", input |-> <<"a">>]
MCCalls == {Bash, Nested, Edit}
MCExitCalls == {Edit}
MCStored == {Store!Rule("edit", <<".">>)}
MCRuleOf == [c \in Calls |-> Store!Rule(c.tool, Store!Payload(c.input))]
MCCovers == [r \in Rules |-> {c \in Calls : Store!IsAllowed(<<r>>, c.tool, c.input)}]

\* No key is left, or the view is gone: only what needs neither goes on.
Terminated ==
  /\ typed = MaxKeys \/ phase = "gone"
  /\ UNCHANGED vars

MCSpec == Init /\ [][Next \/ Terminated]_vars /\ Fairness

-----------------------------------------------------------------------------
(* What the view shows, what was allowed for ever, what a line runs.       *)

View == INSTANCE Transcript
Router == INSTANCE CommandRouter

Msg(by, n) == [k |-> "message", by |-> by, n |-> n]
Think(v) == [k |-> "think", v |-> v]
Delta(text) == [k |-> "delta", text |-> text, reasoning |-> text]
Done(n) == [k |-> "call", n |-> n]

\* A turn with two calls and one that plans, each ending with a reply or an error, and a
\* job of /create_skill.
EndMessages == {Msg("model", 9), Msg("error", 9)}
Turns ==
  {<<Think(TRUE), Delta(<<"a">>), [k |-> "uses", uses |-> <<1, 2>>], Done(1), Done(2), Delta(<<"b">>), r>> : r \in EndMessages}
  \union {<<Think(TRUE), Msg("model", 8), Think(TRUE), Delta(<<"a">>), Delta(<<"b">>), r>> : r \in EndMessages}
  \union {<<Think(TRUE), Msg("model", 8), Msg("model", 9), Think(FALSE)>>}

\* What others post meanwhile.
OthersPost == {Msg("notice", 1), Msg("notice", 2), [k |-> "clear"]}
Put(s, i, c) == SubSeq(s, 1, i) \o <<c>> \o SubSeq(s, i + 1, Len(s))
Interleaved(s) ==
  {s} \union UNION {{Put(s, i, c) : i \in 0 .. Len(s)} : c \in OthersPost}
Histories == UNION {UNION {{h} \union {x \in Interleaved(h) : View!IsInjective(x)} : h \in Interleaved(t)} : t \in Turns}

\* The view after every turn, with up to two closures of others in between (ReplView.cpp).
ASSUME SettledAssumption == \A h \in Histories : View!Settled(h)
ASSUME RowsAssumption == \A h \in Histories : View!RowsInOrder(h)
ASSUME StreamAssumption == \A h \in Histories : \A n \in 1 .. Len(h) : View!StreamOnScreen(SubSeq(h, 1, n))

\* Every history of up to four consents and reloads over four files (PermissionStore.cpp).
Consents == {[tool |-> t, input |-> i] : t \in {"bash", "edit"}, i \in {<<>>, <<"a">>, <<"a", "{", "}">>}}
Reading == [tool |-> "", input |-> <<>>]
Files == {"corrupt", <<>>, <<Store!Rule("bash", <<"a", ".">>), Store!Rule("", <<"a">>)>>,
          <<Store!Rule("edit", <<"{", "a">>), Store!Rule("edit", <<>>)>>}
ASSUME ConsentAssumption ==
  \A saved \in Files, ops \in View!BoundedSeq(Consents \union {Reading}, 4) : Store!ConsentLasts(saved, ops)

\* Templates and skills of every name that means something to the program (CommandRouter.cpp).
Names == {"clear", "exit", "create_rule", "create_other", "review"}
Named == UNION {[s -> {<<"x">>, <<"$", "x", "$">>}] : s \in SUBSET Names}
ASSUME MenuAssumption ==
  \A templates \in Named, skills \in Named : Router!MenuRuns(templates, skills)
ASSUME ArgumentsAssumption ==
  \A skills \in Named : \A name \in DOMAIN skills, args \in {<<>>, <<"y">>, <<"$">>} :
    Router!SkillShowsArguments(name, args, skills)

=============================================================================
