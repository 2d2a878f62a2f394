-------------------------- MODULE MCAgentProvider --------------------------
(* Instances of AgentProvider for TLC. *)
EXTENDS AgentProvider

Call(id, name, args) == [id |-> id, name |-> name, args |-> args]
Says(role, content) == [role |-> role, content |-> content, called |-> FALSE, calls |-> <<>>, ref |-> ""]
Uses(content, calls) == [role |-> "assistant", content |-> content, called |-> TRUE, calls |-> calls, ref |-> ""]
Returns(ref, content) == [role |-> "tool", content |-> content, called |-> FALSE, calls |-> <<>>, ref |-> ref]

\* Two calls, results of them in two texts of one value, and what is refused.
RawMessages ==
  {Says("user", "text"), Says("user", "parts"), Says("user", "media"), Says("system", "text"),
   Says("developer", "JSON"), Says("assistant", "null"), Says("assistant", "text"), Says("critic", "text"),
   Uses("null", <<Call("c1", "f", "ARGS")>>),
   Uses("text", <<Call("c1", "f", "null"), Call("c2", "g", "object")>>),
   Uses("null", <<Call("c2", "f", "text")>>), Uses("null", <<>>),
   Returns("c1", "JSON"), Returns("c1", "object"), Returns("c2", "text"), Returns("c2", "parts"), Returns("", "null")}

Plain(messages) == [messages |-> messages, tools |-> <<>>, choice |-> "", format |-> "", stream |-> FALSE]

\* Every conversation of up to three messages, and every choice of the rest.
MCRawRequests ==
  {Plain(messages) : messages \in UNION {[1 .. n -> RawMessages] : n \in 0 .. 3}} \cup
  [messages : {<<Says("user", "text")>>}, tools : {<<>>, <<"f">>, <<"f", "g">>, <<"f", "f">>},
   choice : {"", "f"}, format : {"", "text", "json_object", "json_schema", "xml"}, stream : BOOLEAN]

Answer(content, called, calls, finish) ==
  [content |-> content, called |-> called, calls |-> calls, finish |-> finish]

MCAnswers ==
  {Answer("text", FALSE, <<>>, finish) : finish \in {"", "stop", "length", "tool_calls", "other"}} \cup
  {Answer(content, FALSE, <<>>, "") : content \in {"null", "JSON", "parts"}} \cup
  {Answer(content, TRUE, <<Call("c1", "f", args)>>, finish) :
     content \in {"null", "json"}, args \in {"null", "ARGS", "text"}, finish \in {"", "stop"}} \cup
  {Answer("null", TRUE, <<Call("c2", "g", "args"), Call("c1", "f", "object")>>, "tool_calls"),
   Answer("text", TRUE, <<Call("c1", "f", "args"), Call("c1", "g", "args")>>, ""),
   Answer("text", TRUE, <<>>, "")}
=============================================================================
