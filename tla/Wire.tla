-------------------------------- MODULE Wire --------------------------------
(***************************************************************************)
(* The two forms a message takes outside the program: in a session's file  *)
(* (src/sessions/Session.cpp) and in a request to the model, with the      *)
(* model's whole answer as well (src/llm/OpenAIProvider.cpp).              *)
(*                                                                         *)
(* A text is a sequence of pieces; null is a member that is there and      *)
(* null. A tool's input is a value: dumping and parsing it gives it back.  *)
(***************************************************************************)
EXTENDS Naturals, Sequences, SequencesExt

Roles == {"system", "user", "assistant", "tool"}
Null == <<"null">>

TextBlock(t) == [type |-> "text", text |-> t]
ToolUse(id, name, input) == [type |-> "tool_use", id |-> id, name |-> name, input |-> input]
ToolResult(id, t, err) == [type |-> "tool_result", tool_use_id |-> id, content |-> t, is_error |-> err]
Msg(role, content, reasoning) == [role |-> role, content |-> content, reasoning |-> reasoning]

OfType(content, type) == SelectSeq(content, LAMBDA b : b.type = type)
Joined(content) == FlattenSeq([i \in DOMAIN OfType(content, "text") |-> OfType(content, "text")[i].text])

-----------------------------------------------------------------------------
(* Session.cpp. A file another program wrote may hold roles and blocks of  *)
(* other names.                                                            *)

\* blockToJson and blockFromJson keep every member of the three kinds of blocks.
BlockFromJson(j) == IF j.type \in {"text", "tool_use", "tool_result"} THEN <<j>> ELSE <<>>

\* The reasoning is written of the assistant's messages only.
MessageToJson(m) ==
  [role |-> m.role, content |-> m.content,
   reasoning |-> IF m.role = "assistant" THEN m.reasoning ELSE <<>>]

\* A message of another role is left out, and so is a block of another type.
MessageFromJson(j) ==
  IF j.role \in Roles
    THEN <<Msg(j.role, FlattenSeq([i \in DOMAIN j.content |-> BlockFromJson(j.content[i])]), j.reasoning)>>
    ELSE <<>>

SessionToJson(messages) == [i \in DOMAIN messages |-> MessageToJson(messages[i])]
SessionFromJson(js) == FlattenSeq([i \in DOMAIN js |-> MessageFromJson(js[i])])

-----------------------------------------------------------------------------
(* OpenAIProvider.cpp.                                                     *)

\* The assistant's content: its text, or null beside calls, or the empty text.
Content(text, calls) == IF text # <<>> THEN text ELSE IF calls # <<>> THEN Null ELSE <<>>

EncodeMessage(m) ==
  LET text == Joined(m.content) uses == OfType(m.content, "tool_use") results == OfType(m.content, "tool_result") IN
  IF m.role = "tool"
    THEN [i \in DOMAIN results |-> [role |-> "tool", of |-> results[i].tool_use_id, content |-> results[i].content]]
  ELSE IF m.role = "assistant"
    THEN <<[role |-> "assistant", content |-> Content(text, uses), reasoning |-> m.reasoning,
            calls |-> [i \in DOMAIN uses |-> <<uses[i].id, uses[i].name, uses[i].input>>]]>>
  ELSE <<[role |-> m.role, content |-> text]>>

EncodeRequest(messages) == FlattenSeq([i \in DOMAIN messages |-> EncodeMessage(messages[i])])

\* The message of a whole answer: text first, then the calls.
DecodeResponse(w) ==
  Msg("assistant",
      (IF w.content \in {Null, <<>>} THEN <<>> ELSE <<TextBlock(w.content)>>)
        \o [i \in DOMAIN w.calls |-> ToolUse(w.calls[i][1], w.calls[i][2], w.calls[i][3])],
      w.reasoning)

-----------------------------------------------------------------------------

\* A conversation that was saved and resumed is the same conversation for the model
\* (messageToJson, messageFromJson, encodeRequest).
ResumedIsTheSame(messages) ==
  EncodeRequest(SessionFromJson(SessionToJson(messages))) = EncodeRequest(messages)

\* Every message of the assistant has its content or its calls set, which the service
\* insists on, and every result of a tool is a message of its own (encodeRequest).
RequestIsAccepted(messages) ==
  LET ws == EncodeRequest(messages)
      results == FlattenSeq([i \in DOMAIN messages |->
                   IF messages[i].role = "tool" THEN OfType(messages[i].content, "tool_result") ELSE <<>>])
      answers == SelectSeq(ws, LAMBDA w : w.role = "tool")
  IN  /\ \A i \in DOMAIN ws : ws[i].role = "assistant" => ws[i].content # Null \/ ws[i].calls # <<>>
      /\ [i \in DOMAIN results |-> results[i].tool_use_id] = [i \in DOMAIN answers |-> answers[i].of]

\* An answer that is decoded and sent again in the next request is the answer.
AnswerComesBack(w) ==
  EncodeMessage(DecodeResponse(w)) = <<[w EXCEPT !.content = Content(IF @ = Null THEN <<>> ELSE @, w.calls)]>>

=============================================================================
