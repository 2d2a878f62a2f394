--------------------------- MODULE AgentProtocol ---------------------------
(***************************************************************************)
(* The conversions between the chat completions of a local program, the    *)
(* canonical conversation and the messages of the bridge                   *)
(* (internal/v2/agentprotocol). They are pure: operators, no state.        *)
(*                                                                         *)
(* A raw message is what a program sent, a message is canonical. Of a      *)
(* value of JSON only what the conversions tell apart is kept: "json" is a  *)
(* text that is the canonical form of a value, "JSON" another text of the   *)
(* same value, "object" the value itself, "text" a text that is no JSON,    *)
(* "parts" a list of parts that spell "text", "media" a list with another   *)
(* kind of part. Arguments of a call are objects: "args" and "empty" are    *)
(* the canonical texts of two of them.                                      *)
(***************************************************************************)
EXTENDS Naturals, Sequences, FiniteSets, SequencesExt

Roles == {"system", "developer", "user", "assistant", "tool"}
RawContents == {"null", "", "text", "parts", "media", "json", "JSON", "object"}
RawArguments == {"null", "object", "empty", "args", "ARGS", "text"}

Contents == {"", "text", "json", "JSON"}
Arguments == {"empty", "args"}

\* What a program may send and the agent may answer, once it is read as JSON.
RawCalls == Seq([id : STRING, name : STRING, args : RawArguments])
RawMessageRecords ==
  [role : STRING, content : RawContents, called : BOOLEAN, calls : RawCalls, ref : STRING]
RawRequestRecords ==
  [messages : Seq(RawMessageRecords), tools : Seq(STRING), choice : STRING, format : STRING, stream : BOOLEAN]
RawAnswers == [content : RawContents, called : BOOLEAN, calls : RawCalls, finish : STRING]

\* calls are those of the tool_calls, of which there are none when they are not given.
CallsGiven(m) == m.calls # <<>> => m.called

-----------------------------------------------------------------------------
(***************************************************************************)
(* Values.                                                                 *)
(***************************************************************************)
\* The content of a message: text, or parts that are all text.
ContentOK(content) == content \notin {"media", "object"}
Content(content) ==
  CASE content = "null" -> "" [] content = "parts" -> "text" [] OTHER -> content

\* canonicalContent, for what the agent answers: a value that is no text is
\* replaced by its text.
AnyContent(content) ==
  CASE content = "null" -> "" [] content \in {"object", "parts", "media"} -> "json" [] OTHER -> content

\* What a tool returns: parts like those of a message, or any other value.
ResultOK(content) == content # "media"
Result(content) == IF content = "parts" THEN Content(content) ELSE AnyContent(content)

\* canonicalJSONObject: arguments come as an object, as its text, or not at all.
ArgumentsOK(args) == args # "text"
Argument(args) ==
  CASE args = "null" -> "empty" [] args \in {"object", "ARGS"} -> "args" [] OTHER -> args

CallIds(calls) == {calls[k].id : k \in DOMAIN calls}
CallNames(calls) == {calls[k].name : k \in DOMAIN calls}
Distinct(calls) == Cardinality(CallIds(calls)) = Len(calls)

\* decodeToolCalls.
CallsOK(calls) ==
  /\ calls # <<>> /\ Distinct(calls)
  /\ \A k \in DOMAIN calls : calls[k].id # "" /\ calls[k].name # "" /\ ArgumentsOK(calls[k].args)
Calls(calls) == [k \in DOMAIN calls |-> [calls[k] EXCEPT !.args = Argument(calls[k].args)]]

-----------------------------------------------------------------------------
(***************************************************************************)
(* DecodeRequest. A raw request has its messages, the names of its tools,   *)
(* the name of the tool it chooses or "", its response_format and stream.   *)
(***************************************************************************)
\* called: the message has tool_calls that are not null.
BugMessageOK(m, known) ==
  /\ m.role \in Roles
  /\ IF m.role = "tool" THEN ResultOK(m.content) ELSE ContentOK(m.content)
  /\ m.called => m.role = "assistant" /\ CallsOK(m.calls)
  /\ m.role = "assistant" => m.called \/ Content(m.content) # ""
MessageOK(m, known) ==
  /\ m.role \in Roles
  /\ IF m.role = "tool" THEN ResultOK(m.content) ELSE ContentOK(m.content)
  /\ m.called => m.role = "assistant" /\ CallsOK(m.calls)
  /\ m.role = "assistant" => m.called \/ Content(m.content) # ""
  /\ m.role = "tool" => m.ref \in known

\* The ids of the calls in the messages before the i-th.
Known(messages, i) == UNION {CallIds(messages[j].calls) : j \in 1 .. i - 1}

\* An id is of one call in the whole conversation.
MessagesOK(messages) ==
  /\ messages # <<>>
  /\ \A i \in DOMAIN messages :
       /\ MessageOK(messages[i], Known(messages, i))
       /\ CallIds(messages[i].calls) \cap Known(messages, i) = {}

ToolsOK(tools) == "" \notin ToSet(tools) /\ Cardinality(ToSet(tools)) = Len(tools)

Decodable(raw) ==
  /\ MessagesOK(raw.messages)
  /\ ToolsOK(raw.tools)
  /\ raw.choice # "" => raw.choice \in ToSet(raw.tools)
  /\ raw.format \in {"", "text", "json_object", "json_schema"}

\* ref: the call whose result a tool message is.
Message(m) ==
  [role |-> m.role, content |-> IF m.role = "tool" THEN Result(m.content) ELSE Content(m.content),
   calls |-> Calls(m.calls), ref |-> IF m.role = "tool" THEN m.ref ELSE ""]

DecodeRequest(raw) ==
  [messages |-> [i \in DOMAIN raw.messages |-> Message(raw.messages[i])],
   tools |-> raw.tools, choice |-> raw.choice, format |-> raw.format, stream |-> raw.stream]

-----------------------------------------------------------------------------
(***************************************************************************)
(* The context optimizer.                                                  *)
(***************************************************************************)
\* The result of a tool that is JSON becomes the canonical text of its value.
Normalized(m) ==
  IF m.role = "tool" /\ m.content = "JSON" THEN [m EXCEPT !.content = "json"] ELSE m

BugDeduplicable(m) == m.role # "assistant"
Deduplicable(m) == m.role \in {"system", "developer", "tool"}

\* A message is compared with the last one that is kept.
Keep(kept, m) ==
  IF kept # <<>> /\ Deduplicable(m) /\ Last(kept) = Normalized(m)
  THEN kept ELSE Append(kept, Normalized(m))

\* What is kept of the first i messages.
Kept(messages) ==
  LET kept[i \in 0 .. Len(messages)] == IF i = 0 THEN <<>> ELSE Keep(kept[i - 1], messages[i])
  IN kept

Optimize(conversation) == [conversation EXCEPT !.messages = Kept(@)[Len(@)]]

-----------------------------------------------------------------------------
(***************************************************************************)
(* The bridge.                                                             *)
(***************************************************************************)
\* validateCanonicalConversation, which refuses what EncodeBridgeRequest is given.
Encodable(conversation) ==
  LET messages == conversation.messages IN
    /\ messages # <<>>
    /\ \A i \in DOMAIN messages : LET m == messages[i] IN
         /\ m.role \in Roles
         /\ m.role = "tool" => m.ref \in Known(messages, i)
         /\ m.role # "tool" => m.ref = ""
         /\ m.calls # <<>> => m.role = "assistant" /\ Distinct(m.calls)
         /\ CallIds(m.calls) \cap Known(messages, i) = {}
         /\ "" \notin CallIds(m.calls) \cup CallNames(m.calls)
    /\ ToolsOK(conversation.tools)

\* DecodeBridgeCompletion. An answer has content, tool_calls when called, and a
\* finish_reason or "". Without the conversation that was asked, tools and format
\* are not looked at.
AnswerOK(a) ==
  /\ a.called => CallsOK(a.calls)
  /\ AnyContent(a.content) # "" \/ a.called
  /\ a.finish \in {"", "stop", "tool_calls", "length", "content_filter"}
  /\ a.called => a.finish \in {"", "tool_calls"}

DeclaredOK(a, conversation) == CallNames(a.calls) \subseteq ToSet(conversation.tools)
FormatOK(a, conversation) ==
  conversation.format \in {"json_object", "json_schema"} => AnyContent(a.content) \in {"json", "JSON"}

Acceptable(a, conversation) ==
  AnswerOK(a) /\ DeclaredOK(a, conversation) /\ FormatOK(a, conversation)

Completion(a) ==
  [content |-> AnyContent(a.content), calls |-> Calls(a.calls),
   finish |-> IF a.finish # "" THEN a.finish ELSE IF a.called THEN "tool_calls" ELSE "stop"]

-----------------------------------------------------------------------------
(***************************************************************************)
(* What the program gets: one body, or a stream of chunks.                  *)
(***************************************************************************)
\* EncodeCompletion: the choice of the body. Its finish_reason and message are read
\* as an answer is.
EncodeCompletion(c) ==
  [content |-> c.content, called |-> c.calls # <<>>, calls |-> c.calls, finish |-> c.finish]

NoDeltas == [role |-> "", content |-> "", calls |-> <<>>, finish |-> ""]

\* BufferedCompletionChunks, without the last one, which is [DONE].
BugChunks(c) ==
  << [NoDeltas EXCEPT !.role = "assistant", !.content = c.content,
        !.calls = [k \in DOMAIN c.calls |->
          [index |-> 0, id |-> c.calls[k].id, name |-> c.calls[k].name, args |-> c.calls[k].args]]],
     [NoDeltas EXCEPT !.finish = c.finish] >>
Chunks(c) ==
  << [NoDeltas EXCEPT !.role = "assistant", !.content = c.content,
        !.calls = [k \in DOMAIN c.calls |->
          [index |-> k - 1, id |-> c.calls[k].id, name |-> c.calls[k].name, args |-> c.calls[k].args]]],
     [NoDeltas EXCEPT !.finish = c.finish] >>

\* EncodeStreamChunk leaves empty fields out, DecodeStreamChunk reads those that
\* are missing as empty.
EncodeStreamChunk(chunk) ==
  [field \in {f \in DOMAIN chunk : chunk[f] # NoDeltas[f]} |-> chunk[field]]
DecodeStreamChunk(wire) ==
  [field \in DOMAIN NoDeltas |-> IF field \in DOMAIN wire THEN wire[field] ELSE NoDeltas[field]]

\* AssembleStreamCompletion: fragments are joined by the index of their call. Of a
\* text that came in several fragments no more is kept than that it is one.
Places(chunks) == UNION {{i} \X DOMAIN chunks[i].calls : i \in DOMAIN chunks}
Fragment(chunks, place) == chunks[place[1]].calls[place[2]]
Indexes(chunks) == {Fragment(chunks, p).index : p \in Places(chunks)}
OfCall(chunks, index) == {p \in Places(chunks) : Fragment(chunks, p).index = index}
Values(chunks, index, field) == {Fragment(chunks, p)[field] : p \in OfCall(chunks, index)} \ {""}
Finishes(chunks) == {chunks[i].finish : i \in DOMAIN chunks} \ {""}

Only(values) == CHOOSE v \in values : TRUE
Joined(texts) ==
  LET parts == {k \in DOMAIN texts : texts[k] # ""}
  IN IF parts = {} THEN "" ELSE IF Cardinality(parts) = 1 THEN texts[Only(parts)] ELSE "joined"

\* The k-th of a set of numbers.
Nth(numbers, k) == CHOOSE i \in numbers : Cardinality({j \in numbers : j < i}) = k - 1

AssembledCall(chunks, index) ==
  [id |-> Only(Values(chunks, index, "id")), name |-> Only(Values(chunks, index, "name")),
   args |-> Joined([p \in OfCall(chunks, index) |-> Fragment(chunks, p).args])]

Assembled(chunks) ==
  [content |-> Joined([i \in DOMAIN chunks |-> chunks[i].content]),
   called |-> Indexes(chunks) # {},
   calls |-> [k \in 1 .. Cardinality(Indexes(chunks)) |-> AssembledCall(chunks, Nth(Indexes(chunks), k))],
   finish |-> IF Finishes(chunks) = {} THEN "" ELSE Only(Finishes(chunks))]

\* No conflict, and every call has its id and its name.
Assembles(chunks) ==
  /\ Cardinality(Finishes(chunks)) <= 1
  /\ \A index \in Indexes(chunks), field \in {"id", "name"} :
       Cardinality(Values(chunks, index, field)) = 1
  /\ AnswerOK(Assembled(chunks))
=============================================================================
