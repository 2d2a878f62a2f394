--------------------------- MODULE AgentProvider ---------------------------
(***************************************************************************)
(* The HTTP server of the Agent side and its handlers                      *)
(* (internal/v2/agentbroker/provider.go), over what the broker promises    *)
(* (AgentRequest), with the conversions of AgentProtocol.                  *)
(*                                                                         *)
(* A client is one request for a completion. Its handler reads, decodes,   *)
(* optimizes and enqueues it, and waits: itself, or, when the client wants  *)
(* a stream, with a goroutine that puts the result in a channel.            *)
(***************************************************************************)
EXTENDS AgentProtocol

CONSTANTS
  Clients,        \* requests for a completion
  RawRequests,    \* what they may ask, as DecodeRequest gets it
  Answers,        \* what the agent may answer, as DecodeBridgeCompletion gets it
  NoCompletion,
  MaxKeepalives   \* keepalive comments of a stream that the model has

ASSUME ProviderAssumption ==
  /\ MaxKeepalives \in Nat /\ NoCompletion \notin {Completion(a) : a \in Answers}
  /\ \A raw \in RawRequests :
       raw \in RawRequestRecords /\ \A i \in DOMAIN raw.messages : CallsGiven(raw.messages[i])
  /\ \A a \in Answers : a \in RawAnswers /\ CallsGiven(a)

Completions == {Completion(a) : a \in {b \in Answers : AnswerOK(b)}}

VARIABLES
  provider,  \* the snapshot, and the server
  closing,   \* where Close stands
  down,      \* the broker is shut down
  promise,   \* what the broker promised each client's request
  pc,        \* where the handler stands
  asked,     \* what the client sent, until the agent has read it
  payload,   \* the conversation that was enqueued
  waiter,    \* the goroutine of a stream and the channel to its handler
  pending,   \* what the handler still has to write
  reply,     \* what the client has got
  gone,      \* the client has left: the context of its request is done
  ticks      \* keepalives it was sent

serverVars == <<provider, closing, down>>
requestVars == <<promise, asked, payload>>
vars == <<serverVars, requestVars, pc, waiter, pending, reply, gone, ticks>>

Broker == INSTANCE AgentRequest WITH Requests <- Clients, Completions <- Completions, None <- NoCompletion

Nothing == [messages |-> <<>>, tools |-> <<>>, choice |-> "", format |-> "", stream |-> FALSE]

\* A body, an error, or the events of a stream.
Kinds == {"body", "error", "open", "chunk", "done"}
Event(kind, value) == [kind |-> kind, value |-> value]

Init ==
  /\ provider = [state |-> "stopped", server |-> FALSE, open |-> FALSE, error |-> FALSE]
  /\ closing = "no" /\ down = FALSE
  /\ Broker!Init
  /\ pc = [c \in Clients |-> "idle"]
  /\ asked = [c \in Clients |-> Nothing] /\ payload = [c \in Clients |-> Nothing]
  /\ waiter = [c \in Clients |-> "none"]
  /\ pending = [c \in Clients |-> <<>>] /\ reply = [c \in Clients |-> <<>>]
  /\ gone = [c \in Clients |-> FALSE] /\ ticks = [c \in Clients |-> 0]

At(c, p) == pc[c] = p
Go(c, p) == pc' = [pc EXCEPT ![c] = p]
Active(c) == pc[c] \notin {"idle", "over"}

-----------------------------------------------------------------------------
(***************************************************************************)
(* The server. open: requests arrive, of new connections or of those there *)
(* are; the second goes on when Serve has failed.                          *)
(***************************************************************************)
Start ==
  /\ provider.state = "stopped" /\ closing = "no"
  /\ provider' \in {[provider EXCEPT !.state = "running", !.server = TRUE, !.open = TRUE],
                    [provider EXCEPT !.state = "failed", !.error = TRUE]}
  /\ UNCHANGED <<closing, down, requestVars, pc, waiter, pending, reply, gone, ticks>>

ServeFails ==
  /\ provider.state = "running" /\ provider.open
  /\ provider' = [provider EXCEPT !.state = "failed", !.error = TRUE]
  /\ UNCHANGED <<closing, down, requestVars, pc, waiter, pending, reply, gone, ticks>>

BugCloseBegins ==
  /\ closing = "no"
  /\ closing' = IF provider.server THEN "broker" ELSE "only broker"
  /\ UNCHANGED <<provider, down, requestVars, pc, waiter, pending, reply, gone, ticks>>
CloseBegins ==
  /\ closing = "no"
  /\ closing' = IF provider.server THEN "broker" ELSE "only broker"
  /\ provider' = [provider EXCEPT !.server = FALSE]
  /\ UNCHANGED <<down, requestVars, pc, waiter, pending, reply, gone, ticks>>

Stopped(failed) == provider' = [state |-> "stopped", server |-> FALSE, open |-> FALSE, error |-> failed]

\* Broker.Shutdown fails every request that is open.
CloseBroker ==
  /\ closing \in {"broker", "only broker"}
  /\ down' = TRUE
  /\ promise' = [c \in Clients |->
       IF promise[c].phase = "open" THEN [promise[c] EXCEPT !.phase = "failed"] ELSE promise[c]]
  /\ asked' = [c \in Clients |-> Nothing]
  /\ payload' = [c \in Clients |-> [payload[c] EXCEPT !.messages = <<>>]]
  /\ IF closing = "broker" THEN closing' = "shutdown" /\ UNCHANGED provider
                           ELSE closing' = "done" /\ Stopped(FALSE)
  /\ UNCHANGED <<pc, waiter, pending, reply, gone, ticks>>

\* server.Shutdown: nothing new comes in, and it waits for the handlers, for the
\* time that Close was given.
ShutdownBegins ==
  /\ closing = "shutdown"
  /\ closing' = "draining" /\ provider' = [provider EXCEPT !.open = FALSE]
  /\ UNCHANGED <<down, requestVars, pc, waiter, pending, reply, gone, ticks>>

ShutdownEnds ==
  /\ closing = "draining"
  /\ Stopped(\E c \in Clients : Active(c)) /\ closing' = "done"
  /\ UNCHANGED <<down, requestVars, pc, waiter, pending, reply, gone, ticks>>

-----------------------------------------------------------------------------
(***************************************************************************)
(* The broker, as AgentRequest has it. What the agent has read, or will    *)
(* never read, is not needed again.                                        *)
(***************************************************************************)
Becomes(c, q) ==
  /\ promise' = [promise EXCEPT ![c] = q]
  /\ asked' = [asked EXCEPT ![c] = Nothing]
  /\ payload' = [payload EXCEPT ![c].messages = <<>>]

Hand(c) ==
  LET q == [promise[c] EXCEPT !.handed = TRUE] IN
    /\ ~promise[c].handed /\ Broker!Hand(promise[c], q) /\ Becomes(c, q)
    /\ UNCHANGED <<serverVars, pc, waiter, pending, reply, gone, ticks>>

\* An answer that is not acceptable is refused, and the agent may send another.
Settle(c, a) ==
  LET q == [promise[c] EXCEPT !.phase = "settled", !.completion = Completion(a)] IN
    /\ Acceptable(a, payload[c]) /\ Broker!Settle(promise[c], q) /\ Becomes(c, q)
    /\ UNCHANGED <<serverVars, pc, waiter, pending, reply, gone, ticks>>

\* The deadline passes, or the bridge is lost.
Fail(c) ==
  LET q == [promise[c] EXCEPT !.phase = "failed"] IN
    /\ Broker!Fail(promise[c], q) /\ Becomes(c, q)
    /\ UNCHANGED <<serverVars, pc, waiter, pending, reply, gone, ticks>>

-----------------------------------------------------------------------------
(***************************************************************************)
(* handleChatCompletions.                                                  *)
(***************************************************************************)
Writes(c, events) == pending' = [pending EXCEPT ![c] = events] /\ Go(c, "writing")
Error(code) == <<Event("error", code)>>

Arrive(c) ==
  /\ provider.open /\ At(c, "idle") /\ Go(c, "reading")
  /\ UNCHANGED <<serverVars, requestVars, waiter, pending, reply, gone, ticks>>

\* The body is too large, is no JSON, or does not come.
ReadFails(c) ==
  /\ At(c, "reading") /\ Writes(c, Error("bad request"))
  /\ UNCHANGED <<serverVars, requestVars, waiter, reply, gone, ticks>>

\* Enqueue refuses a request when it is shut down, when there is no bridge or no
\* room, and when it is too large or cannot be encoded for the bridge.
Refusals(conversation) ==
  {"unavailable"} \cup (IF down THEN {} ELSE {"busy"})
                  \cup (IF down \/ Encodable(conversation) THEN {} ELSE {"unconvertible"})

Enqueue(c, raw, conversation) ==
  /\ ~down /\ Encodable(conversation)
  /\ promise' = [promise EXCEPT ![c] = [Broker!New EXCEPT !.phase = "open"]]
  /\ asked' = [asked EXCEPT ![c] = raw] /\ payload' = [payload EXCEPT ![c] = conversation]
  /\ Go(c, IF raw.stream THEN "opening" ELSE "waiting")
  /\ UNCHANGED pending

Handles(c, raw) ==
  LET conversation == Optimize(DecodeRequest(raw)) IN
    \/ ~Decodable(raw) /\ Writes(c, Error("bad request")) /\ UNCHANGED requestVars
    \/ /\ Decodable(raw) /\ UNCHANGED requestVars
       /\ \E code \in Refusals(conversation) : Writes(c, Error(code))
    \/ Decodable(raw) /\ Enqueue(c, raw, conversation)

Read(c) ==
  /\ At(c, "reading") /\ \E raw \in RawRequests : Handles(c, raw)
  /\ UNCHANGED <<serverVars, waiter, reply, gone, ticks>>

\* How Wait ends.
WaitResults == {"answered", "failed", "gave up"}

\* RequestHandle.Wait returns the completion or the error ("failed") of a request
\* that is done; or it gives the request up, whatever became of it, because the
\* client has left or its timer fired ("gave up"). The code of a timer is the one
\* of a request that failed by its deadline, AGENT_REQUEST_TIMEOUT.
Answered(c) ==
  LET q == [promise[c] EXCEPT !.phase = "answered", !.answer = promise[c].completion] IN
    promise[c].phase = "settled" /\ Broker!Answer(promise[c], q) /\ Becomes(c, q)
Unanswered(c) ==
  LET q == [promise[c] EXCEPT !.phase = "answered"] IN
    promise[c].phase = "failed" /\ Broker!Answer(promise[c], q) /\ Becomes(c, q)
Forgotten(c) ==
  LET q == [promise[c] EXCEPT !.phase = "answered"] IN
    Broker!Abandon(promise[c], q) /\ Becomes(c, q)
BugLeft(c) == FALSE
Left(c) == gone[c] /\ Forgotten(c)

Wait(c) ==
  /\ At(c, "waiting")
  /\ \/ Answered(c) /\ Writes(c, <<Event("body", EncodeCompletion(promise[c].completion))>>)
     \/ Unanswered(c) /\ Writes(c, Error("failed"))
     \/ Left(c) /\ Go(c, "over") /\ UNCHANGED pending
  /\ UNCHANGED <<serverVars, waiter, reply, gone, ticks>>

\* Its timer has the deadline that the request had when it went to sleep, and a
\* completion may come after it has looked at the deadline again.
WaitTimesOut(c) ==
  /\ At(c, "waiting") /\ Forgotten(c) /\ Writes(c, Error("gave up"))
  /\ UNCHANGED <<serverVars, waiter, reply, gone, ticks>>

-----------------------------------------------------------------------------
(***************************************************************************)
(* handleStreamingCompletion.                                              *)
(***************************************************************************)
\* What is written to a client that has left is lost.
Got(c, event) == reply' = IF gone[c] THEN reply ELSE [reply EXCEPT ![c] = Append(@, event)]

OpenStream(c) ==
  /\ At(c, "opening") /\ Go(c, "selecting")
  /\ waiter' = [waiter EXCEPT ![c] = "waiting"]
  /\ Got(c, Event("open", ""))
  /\ UNCHANGED <<serverVars, requestVars, pending, gone, ticks>>

\* The goroutine puts the result in the channel, which has room for it, whether
\* the handler is still there or not.
WaiterReturns(c) ==
  /\ waiter[c] = "waiting"
  /\ \/ Answered(c) /\ waiter' = [waiter EXCEPT ![c] = "answered"]
     \/ Unanswered(c) /\ waiter' = [waiter EXCEPT ![c] = "failed"]
     \/ Left(c) /\ waiter' = [waiter EXCEPT ![c] = "gave up"]
  /\ UNCHANGED <<serverVars, pc, pending, reply, gone, ticks>>

WaiterTimesOut(c) ==
  /\ waiter[c] = "waiting" /\ Forgotten(c) /\ waiter' = [waiter EXCEPT ![c] = "gave up"]
  /\ UNCHANGED <<serverVars, pc, pending, reply, gone, ticks>>

Keepalive(c) ==
  /\ At(c, "selecting") /\ ticks[c] < MaxKeepalives
  /\ ticks' = [ticks EXCEPT ![c] = @ + 1]
  /\ UNCHANGED <<serverVars, requestVars, pc, waiter, pending, reply, gone>>

\* writeSSECompletion, or the error; [DONE] is the end of both.
Events(c) ==
  LET chunks == Chunks(promise[c].answer) IN
    (IF waiter[c] # "answered" THEN Error(waiter[c])
     ELSE [i \in DOMAIN chunks |-> Event("chunk", EncodeStreamChunk(chunks[i]))])
    \o <<Event("done", "")>>

TakeResult(c) ==
  /\ At(c, "selecting") /\ waiter[c] \in WaitResults
  /\ Writes(c, Events(c))
  /\ waiter' = [waiter EXCEPT ![c] = "none"]
  /\ UNCHANGED <<serverVars, requestVars, reply, gone, ticks>>

LeaveStream(c) ==
  /\ At(c, "selecting") /\ gone[c] /\ Go(c, "over")
  /\ UNCHANGED <<serverVars, requestVars, waiter, pending, reply, gone, ticks>>

-----------------------------------------------------------------------------
Write(c) ==
  /\ At(c, "writing")
  /\ Got(c, Head(pending[c]))
  /\ pending' = [pending EXCEPT ![c] = Tail(@)]
  /\ IF Len(pending[c]) = 1 THEN Go(c, "over") ELSE UNCHANGED pc
  /\ UNCHANGED <<serverVars, requestVars, waiter, gone, ticks>>

Disconnect(c) ==
  /\ Active(c) /\ ~gone[c] /\ gone' = [gone EXCEPT ![c] = TRUE]
  /\ UNCHANGED <<serverVars, requestVars, pc, waiter, pending, reply, ticks>>

Handler(c) ==
  \/ Wait(c) \/ OpenStream(c) \/ TakeResult(c) \/ LeaveStream(c) \/ Write(c)

Next ==
  \/ Start \/ ServeFails \/ CloseBegins \/ CloseBroker \/ ShutdownBegins \/ ShutdownEnds
  \/ \E c \in Clients :
       \/ Arrive(c) \/ Read(c) \/ ReadFails(c) \/ Disconnect(c)
       \/ Hand(c) \/ Fail(c) \/ \E a \in Answers : Settle(c, a)
       \/ Handler(c) \/ WaitTimesOut(c) \/ Keepalive(c)
       \/ WaiterReturns(c) \/ WaiterTimesOut(c)

Spec == Init /\ [][Next]_vars

\* Goroutines run and Close goes on; reading ends when the client has left. The
\* agent, the clients and the timers are not fair: the heartbeat of the broker may
\* move a deadline for ever.
FairSpec ==
  /\ Spec
  /\ \A c \in Clients :
       /\ WF_vars(Handler(c)) /\ WF_vars(WaiterReturns(c))
       /\ WF_vars(gone[c] /\ ReadFails(c))
  /\ WF_vars(CloseBroker \/ ShutdownBegins \/ ShutdownEnds)

-----------------------------------------------------------------------------
(***************************************************************************)
(* Properties.                                                             *)
(***************************************************************************)
\* The variables, the snapshot and the stages have the values the code gives them.
TypeOK ==
  /\ provider \in [state : {"stopped", "running", "failed"}, server : BOOLEAN, open : BOOLEAN, error : BOOLEAN]
  /\ closing \in {"no", "broker", "only broker", "shutdown", "draining", "done"}
  /\ provider.server => closing = "no"
  /\ provider.state = "running" => provider.open \/ closing = "draining"
  /\ {down} \cup {gone[c] : c \in Clients} \subseteq BOOLEAN
  /\ promise \in [Clients -> Broker!Promises]
  /\ pc \in [Clients -> {"idle", "reading", "waiting", "opening", "selecting", "writing", "over"}]
  /\ waiter \in [Clients -> {"none", "waiting"} \cup WaitResults]
  /\ ticks \in [Clients -> 0 .. MaxKeepalives]
  /\ \A c \in Clients :
       /\ \A event \in ToSet(pending[c]) \cup ToSet(reply[c]) : event.kind \in Kinds
       /\ pending[c] # <<>> <=> At(c, "writing")
       /\ waiter[c] = "answered" => promise[c].answer # NoCompletion

\* What a client makes of a reply without an error: of a body, or of what a stream
\* brings before [DONE], with the repository's own decoder.
Kind(c, k) == \E event \in ToSet(reply[c]) : event.kind = k
Heard(c) ==
  LET chunks == SubSeq(reply[c], 2, Len(reply[c]) - 1)
      decoded == [i \in DOMAIN chunks |-> DecodeStreamChunk(chunks[i].value)]
      answer == IF Kind(c, "body") THEN Head(reply[c]).value ELSE Assembled(decoded)
  IN IF AnswerOK(answer) /\ (Kind(c, "body") \/ Assembles(decoded)) THEN Completion(answer) ELSE NoCompletion

\* A client that stays gets one reply, of which [DONE] is the end when it asked for
\* a stream. Without an error the reply is the completion that the agent was told
\* was accepted, to the call and the finish_reason. With one, no completion had
\* been accepted, unless the handler itself gave the request up: then one may have
\* been, between its look at the deadline and its end (handle.go:51-60), and is
\* lost. The completion crosses the broker, the waiter's channel, the chunks and
\* their encoding.
Delivered ==
  \A c \in Clients :
    LET kinds == [i \in DOMAIN reply[c] |-> reply[c][i].kind]
        complete == kinds # <<>> /\ Last(kinds) \in {"body", "done"}
    IN /\ At(c, "over") /\ ~gone[c] =>
            \/ kinds \in {<<"body">>, <<"error">>, <<"open", "error", "done">>}
            \/ kinds = <<"open", "chunk", "chunk", "done">>
       /\ complete /\ ~Kind(c, "error") =>
            promise[c].answer # NoCompletion /\ Heard(c) = promise[c].completion
       /\ Kind(c, "error") /\ Event("error", "gave up") \notin ToSet(reply[c]) =>
            promise[c].completion = NoCompletion

\* The bridge never refuses to encode what was decoded: a program learns at once,
\* and by its code, what is wrong with a request (docs/AGENT_GUIDE.md:266). Two
\* validations, one on raw messages and one on optimized ones, must agree. Sizes
\* are left out: a request too large for the bridge (broker.go:328) is refused
\* with the code of one that cannot be encoded.
NeverUnconvertible ==
  \A c \in Clients : \A event \in ToSet(pending[c]) \cup ToSet(reply[c]) :
    event.kind = "error" => event.value # "unconvertible"

\* The optimizer "does not compress or delete the meaning of the user's task"
\* (docs/PROTOCOL.md:168): every message that was sent is there, in order, with the
\* same calls and the same content or value; only neighbours that mean the same may
\* be one message, and never those of the user or of the assistant.
Meaning(content) == IF content = "JSON" THEN "json" ELSE content
MeansSame(m, kept) ==
  /\ kept.role = m.role /\ kept.calls = Message(m).calls /\ kept.ref = Message(m).ref
  /\ IF m.role = "tool" THEN Meaning(kept.content) = Meaning(Message(m).content)
                        ELSE kept.content = Message(m).content

WordsKept ==
  \A c \in Clients : asked[c] # Nothing =>
    LET sent == asked[c].messages
        kept == payload[c].messages
    IN \E place \in [DOMAIN sent -> DOMAIN kept] :
         /\ place[1] = 1 /\ place[Len(sent)] = Len(kept)
         /\ \A i \in DOMAIN sent : MeansSame(sent[i], kept[place[i]])
         /\ \A i \in DOMAIN sent \ {1} :
              \/ place[i] = place[i - 1] + 1
              \/ place[i] = place[i - 1] /\ sent[i].role \notin {"user", "assistant"}

\* When a client leaves, and when the provider is closed, nothing is left behind:
\* the handler and its goroutine end, and the broker forgets the request, whose
\* place others wait for. No timer is needed for it.
Released ==
  \A c \in Clients :
    Active(c) /\ ~At(c, "reading") /\ (gone[c] \/ down) ~>
      At(c, "over") /\ waiter[c] # "waiting" /\ promise[c].phase \in {"new", "answered"}

=============================================================================
