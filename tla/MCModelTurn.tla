---------------------------- MODULE MCModelTurn ----------------------------
(***************************************************************************)
(* The instance of ModelTurn that TLC checks: replies with text, reasoning *)
(* and up to two calls whose fragments are mixed, and one sub-agent.       *)
(***************************************************************************)
EXTENDS ModelTurn

W == INSTANCE Wire
Cache == INSTANCE LruCache
Scanner == INSTANCE JsonScan

MCSubAgentTools == {"skill", "rule"}
MCCreators == {"ui", "job", "turn", "sub"}

Says(k, v) == [k |-> k, v |-> v]
Frag(i, name, v) == [k |-> "tool", idx |-> i, name |-> name, v |-> v]

Talk == <<Says("think", "a"), Says("text", "b"), Says("skip", ""), Says("text", "c")>>
Twice == <<Frag(1, "create_skill", "1"), Frag(2, "create_skill", "1"), Frag(1, "", "2"), Frag(2, "", "2")>>
Others == <<Frag(2, "create_rule", "1"), Frag(2, "", "2"), Frag(1, "create_command", "1"), Frag(1, "", "2")>>
Agent == <<Frag(1, "create_agent", "1"), Frag(1, "", "2"), Says("finish", "tool_calls")>>

MCBodies == {Talk, Twice, Others, Agent}

-----------------------------------------------------------------------------
(* The forms of messages: conversations of up to two messages, with blocks *)
(* of every type.                                                          *)

Blocks == {W!TextBlock(<<>>), W!TextBlock(<<"a">>), W!ToolUse("1", "edit", "{}"), W!ToolUse("2", "edit", "{}"),
           W!ToolResult("1", <<"a">>, FALSE)}
Messages == {W!Msg(r, c, t) : r \in W!Roles, c \in BoundedSeq(Blocks, 2), t \in {<<>>, <<"a">>}}
WireAnswers == [role : {"assistant"}, content : {W!Null, <<>>, <<"a">>}, reasoning : {<<>>, <<"a">>},
                calls : BoundedSeq({<<"1", "edit", "{}">>, <<"2", "edit", "{}">>}, 2)]

\* A resumed conversation is the same for the model (Session.cpp).
ASSUME ResumedAssumption == \A m \in Messages : W!ResumedIsTheSame(<<m>>) /\ W!ResumedIsTheSame(<<m, m>>)

\* What is sent has the form the service insists on, and an answer comes back as it was
\* (OpenAIProvider.cpp).
ASSUME RequestAssumption == \A m, n \in Messages : W!RequestIsAccepted(<<m, n>>)
ASSUME AnswerAssumption == \A w \in WireAnswers : W!AnswerComesBack(w)

\* What the cache holds after every history of up to five operations on three keys (LruCache.h).
Operations == [key : {"a", "b", "c"}, value : {0, 1}]
ASSUME CacheAssumption ==
  \A ops \in BoundedSeq(Operations, 5), maxSize \in 1 .. 3 : Cache!HoldsTheLatest(ops, maxSize)

\* The object found in every text of up to six characters (ResourceGenerator.cpp).
ASSUME ScanAssumption ==
  \A text \in BoundedSeq(Scanner!Characters, 6) :
    Scanner!IsFirstObject(text, Scanner!ExtractFirstJsonObject(text))

=============================================================================
