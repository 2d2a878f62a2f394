------------------------- MODULE AgentBrokerSafety -------------------------
(***************************************************************************)
(* Safety theorems of AgentBroker, for every number of requests, bridges,  *)
(* exchanges and completions and every configuration New can produce.      *)
(***************************************************************************)
EXTENDS AgentBroker, SequenceTheorems, TLAPS

USE DEF Ids, Generations

----------------------------------------------------------------------------
(* Types.                                                                  *)

LEMMA IdleIsCall == Idle \in Calls
<1>1. <<>> \in Inboxes
  <2>1. <<>> \in [1 .. 0 -> Responses]
    OBVIOUS
  <2> QED
    BY <2>1, BoundsAssumption DEF Inboxes
<1>2. /\ 0 \in Generations /\ 0 \in 0 .. WaitTimeout
      /\ 0 \in 0 .. MaxInflight /\ 0 \in 0 .. MaxBatchBytes
  BY ConfigAssumption, BoundsAssumption
<1> QED
  BY <1>1, <1>2 DEF Idle, Calls, Pcs

LEMMA InboxTail ==
  ASSUME NEW s \in Inboxes, s # <<>>
  PROVE  Tail(s) \in Inboxes /\ Head(s) \in Responses
<1>1. PICK n \in 0 .. MaxResponses : s \in [1 .. n -> Responses]
  BY DEF Inboxes
<1>2. s \in Seq(Responses) /\ Len(s) = n /\ n \in Nat
  BY <1>1, BoundsAssumption
<1>3. n # 0
  BY <1>1, <1>2
<1>4. Tail(s) \in [1 .. n - 1 -> Responses] /\ Head(s) \in Responses
  BY <1>2, <1>3, HeadTailProperties, LenProperties, EmptySeq
<1>5. n - 1 \in 0 .. MaxResponses
  BY <1>2, <1>3, BoundsAssumption
<1>6. \E m \in 0 .. MaxResponses : Tail(s) \in [1 .. m -> Responses]
  BY <1>4, <1>5
<1> HIDE DEF Inboxes
<1> QED
  BY <1>4, <1>6, Zenon DEF Inboxes

LEMMA SignalledType ==
  ASSUME NEW c \in [Exchanges -> Calls]
  PROVE  Signalled(c) \in [Exchanges -> Calls]
BY DEF Signalled, Calls

LEMMA PcType ==
  ASSUME NEW c \in [Exchanges -> Calls], NEW e \in Exchanges, NEW p \in Pcs
  PROVE  [c EXCEPT ![e].pc = p] \in [Exchanges -> Calls]
<1>1. [c[e] EXCEPT !.pc = p] \in Calls
  BY DEF Calls
<1> QED
  BY <1>1

LEMMA SweptType ==
  ASSUME TypeOK
  PROVE  /\ SweptState \in [Ids -> States]
         /\ SweptBound \in [Ids -> Generations]
         /\ SweptBridge \in {0, bridge}
         /\ SweptLease \in 0 .. BridgeLease
         /\ SweptCall \in [Exchanges -> Calls]
<1>1. SweptState \in [Ids -> States]
  BY DEF TypeOK, SweptState, States, TerminalStates
<1>2. SweptBound \in [Ids -> Generations]
  BY <1>1, BoundsAssumption DEF TypeOK, SweptBound, Detached
<1>3. SweptLease \in 0 .. BridgeLease
  BY ConfigAssumption DEF TypeOK, SweptLease
<1>4. SweptCall \in [Exchanges -> Calls]
  BY SignalledType DEF TypeOK, SweptCall
<1> QED
  BY <1>1, <1>2, <1>3, <1>4 DEF SweptBridge

LEMMA CleanReceiptsType ==
  ASSUME TypeOK
  PROVE  CleanReceipts \in [Ids -> [bridge : Generations, payload : Payloads \cup {NoPayload},
                                    ttl : 0 .. ReceiptTTL]]
BY BoundsAssumption, ConfigAssumption DEF TypeOK, CleanReceipts, NoReceipt

LEMMA RenewedType ==
  ASSUME TypeOK, NEW st, NEW bd, NEW b
  PROVE  RenewedDeadline(st, bd, b) \in [Ids -> 0 .. RequestTimeout]
BY ConfigAssumption DEF TypeOK, RenewedDeadline

LEMMA JudgedType ==
  ASSUME TypeOK, NEW e \in Exchanges, call[e].inbox # <<>>,
         NEW v \in Verdicts, NEW more \in BOOLEAN
  PROVE  Judged(e, v, more) \in [Exchanges -> Calls]
<1> DEFINE c == call[e]
           r == Head(c.inbox)
           x == [id |-> r.id, payload |-> r.payload, verdict |-> v]
           f == c.followup \/ more
           d == [c EXCEPT !.inbox = Tail(c.inbox), !.verdicts = c.verdicts \cup {x},
                          !.followup = f]
<1>1. c \in Calls /\ Tail(c.inbox) \in Inboxes /\ r \in Responses
  BY InboxTail DEF TypeOK, Calls
<1>2. x \in [id : Ids \cup {0}, payload : Payloads \cup {NoPayload}, verdict : Verdicts]
  BY <1>1 DEF Responses
<1>3. f \in BOOLEAN
  BY Zenon
<1>4. Judged(e, v, more) = [call EXCEPT ![e] = d]
  BY DEF Judged
<1> HIDE DEF x, f, r
<1>5. d \in Calls
  BY <1>1, <1>2, <1>3 DEF Calls
<1> HIDE DEF d
<1> QED
  BY <1>4, <1>5 DEF TypeOK

LEMMA DeliverType ==
  ASSUME TypeOK, NEW e \in Exchanges, NEW i \in Ids, Fits(e, i), Deliver(e, i)
  PROVE  /\ state' \in [Ids -> States]
         /\ deadline' \in [Ids -> 0 .. RequestTimeout]
         /\ delivered' \in [Ids -> BOOLEAN]
         /\ call' \in [Exchanges -> Calls]
<1> USE ConfigAssumption
<1>1. RequestTimeout \in 0 .. RequestTimeout /\ "RUNNING" \in States
  BY DEF States, ActiveStates, InflightStates
<1>2. /\ state' \in [Ids -> States]
      /\ deadline' \in [Ids -> 0 .. RequestTimeout]
      /\ delivered' \in [Ids -> BOOLEAN]
  BY <1>1 DEF Deliver, TypeOK
<1>3. call[e] \in Calls
  BY DEF TypeOK
<1>4. call[e].bytes + Size[i] \in 0 .. MaxBatchBytes
  BY <1>3 DEF Fits, Calls
<1>5. [call[e] EXCEPT !.batch = @ \cup {i}, !.bytes = @ + Size[i]] \in Calls
  BY <1>3, <1>4 DEF Calls
<1>6. call' = [call EXCEPT ![e] = [call[e] EXCEPT !.batch = @ \cup {i}, !.bytes = @ + Size[i]]]
  BY <1>3 DEF Deliver, TypeOK, Calls
<1> QED
  BY <1>2, <1>5, <1>6 DEF TypeOK

LEMMA CompactedType ==
  ASSUME queue \in Seq(Ids), NEW i \in Ids
  PROVE  Compacted(i) \in Seq(Ids)
<1>1. CASE \E k \in DOMAIN queue : queue[k] = i
  <2> DEFINE at == CHOOSE k \in DOMAIN queue : queue[k] = i
             rest == [k \in 1 .. Len(queue) - 1 |-> IF k < at THEN queue[k] ELSE queue[k + 1]]
  <2>1. at \in 1 .. Len(queue) /\ Len(queue) - 1 \in Nat
    BY <1>1, LenProperties
  <2>2. \A k \in 1 .. Len(queue) - 1 : queue[k] \in Ids /\ queue[k + 1] \in Ids
    <3> SUFFICES ASSUME NEW k \in 1 .. Len(queue) - 1
                 PROVE  queue[k] \in Ids /\ queue[k + 1] \in Ids
      OBVIOUS
    <3>1. k \in 1 .. Len(queue) /\ k + 1 \in 1 .. Len(queue)
      BY <2>1
    <3> QED
      BY <3>1, ElementOfSeq
  <2>3. rest \in [1 .. Len(queue) - 1 -> Ids]
    BY <2>2
  <2>4. rest \in Seq(Ids)
    BY <2>1, <2>3
  <2> QED
    BY <1>1, <2>4 DEF Compacted
<1> QED
  BY <1>1 DEF Compacted

LEMMA ForgetType ==
  ASSUME TypeOK, NEW i \in Ids, NEW how \in {"none", "DISCONNECTED"} \cup TerminalStates,
         Forget(i, how), call' \in [Exchanges -> Calls]
  PROVE  TypeOK'
<1>1. 0 \in 0 .. RequestTimeout /\ 0 \in Generations /\ "GONE" \in States
  BY BoundsAssumption, ConfigAssumption DEF TypeOK, States
<1>2. queue' \in Seq(Ids)
  BY CompactedType DEF Forget, TypeOK
<1> QED
  BY <1>1, <1>2 DEF Forget, TypeOK, bridgeVars

LEMMA TypeInit == Init => TypeOK
<1> SUFFICES ASSUME Init PROVE TypeOK
  OBVIOUS
<1>1. /\ 0 \in Generations /\ 0 \in 0 .. BridgeLease /\ 0 \in 0 .. RequestTimeout
      /\ 0 \in 0 .. ReceiptTTL /\ 0 \in 0 .. 0 /\ <<>> \in Seq(Ids)
  BY BoundsAssumption, ConfigAssumption
<1> QED
  BY <1>1, IdleIsCall DEF Init, TypeOK, States, NoReceipt

LEMMA TypeNext == TypeOK /\ [Next]_vars => TypeOK'
<1> SUFFICES ASSUME TypeOK, [Next]_vars PROVE TypeOK'
  OBVIOUS
<1> USE BoundsAssumption, ConfigAssumption
<1>t. /\ BridgeLease \in 0 .. BridgeLease /\ RequestTimeout \in 0 .. RequestTimeout
      /\ WaitTimeout \in 0 .. WaitTimeout /\ ReceiptTTL \in 0 .. ReceiptTTL
      /\ 0 \in 0 .. BridgeLease /\ 0 \in 0 .. RequestTimeout
      /\ opened \in Nat /\ 0 \in 0 .. opened /\ bridge \in 0 .. opened
      /\ 0 \in Generations /\ bridge \in Generations
  BY DEF TypeOK
<1>s. /\ SweptState \in [Ids -> States]
      /\ SweptBound \in [Ids -> Generations]
      /\ SweptBridge \in {0, bridge}
      /\ SweptLease \in 0 .. BridgeLease
      /\ SweptCall \in [Exchanges -> Calls]
      /\ Signalled(call) \in [Exchanges -> Calls]
  BY SweptType, SignalledType DEF TypeOK
<1>1. CASE OpenResume
  <2>1. bound' \in [Ids -> Generations]
    BY <1>1, <1>s, <1>t DEF OpenResume, AdoptedBound
  <2> QED
    BY <1>1, <1>s, <1>t, <2>1, RenewedType DEF OpenResume, TypeOK, clientVars
<1>2. CASE OpenNew
  <2>1. opened' \in Generations /\ bridge' \in 0 .. opened' /\ bridge' \in Generations
    BY <1>2, <1>t DEF OpenNew, TypeOK
  <2>2. bound' \in [Ids -> Generations]
    BY <1>2, <1>s, <2>1 DEF OpenNew, Rebound
  <2> QED
    BY <1>2, <1>s, <1>t, <2>1, <2>2, RenewedType DEF OpenNew, TypeOK, clientVars
<1>3. CASE Close
  <2>1. bound' \in [Ids -> Generations]
    BY <1>3, <1>s, <1>t DEF Close, Detached, TypeOK
  <2> QED
    BY <1>3, <1>s, <1>t, <2>1 DEF Close, TypeOK, clientVars
<1>4. CASE Shutdown
  <2>1. state' \in [Ids -> States]
    BY <1>4 DEF Shutdown, Failed, TypeOK, States, TerminalStates
  <2> QED
    BY <1>4, <1>s, <1>t, <2>1 DEF Shutdown, TypeOK, clientVars
<1>5. CASE EnqueueRefused
  BY <1>5, <1>s, <1>t DEF EnqueueRefused, Sweep, TypeOK, clientVars
<1>6. CASE Snapshot
  BY <1>6, <1>s, <1>t, CleanReceiptsType DEF Snapshot, Sweep, TypeOK, clientVars
<1>7. CASE Heartbeat
  <2>1. CASE RenewDue
    <3>1. bound' \in [Ids -> Generations]
      BY <1>7, <2>1, <1>t DEF Heartbeat, AdoptedBound, TypeOK
    <3>2. deadline' \in [Ids -> 0 .. RequestTimeout]
      BY <1>7, <2>1, RenewedType DEF Heartbeat
    <3> QED
      BY <1>7, <2>1, <3>1, <3>2, <1>t DEF Heartbeat, TypeOK, clientVars
  <2>2. CASE ~RenewDue
    BY <1>7, <2>2, <1>s, <1>t DEF Heartbeat, Sweep, TypeOK, clientVars
  <2> QED
    BY <2>1, <2>2
<1>8. CASE Tick
  <2>1. \A m \in Nat : \A n \in 0 .. m : Less(n) \in 0 .. m
    BY DEF Less
  <2>2. call' \in [Exchanges -> Calls]
    <3> SUFFICES ASSUME NEW e \in Exchanges
                 PROVE  [call[e] EXCEPT !.timer = Less(@)] \in Calls
      BY <1>8 DEF Tick
    <3>1. call[e] \in Calls /\ Less(call[e].timer) \in 0 .. WaitTimeout
      BY <2>1 DEF TypeOK, Calls
    <3> QED
      BY <3>1 DEF Calls
  <2>3. receipt' \in [Ids -> [bridge : Generations, payload : Payloads \cup {NoPayload},
                              ttl : 0 .. ReceiptTTL]]
    BY <1>8, <2>1 DEF Tick, TypeOK
  <2>4. /\ deadline' \in [Ids -> 0 .. RequestTimeout]
        /\ clientTimer' \in [Ids -> 0 .. RequestTimeout]
        /\ lease' \in 0 .. BridgeLease
    BY <1>8, <2>1 DEF Tick, TypeOK
  <2> QED
    BY <1>8, <2>2, <2>3, <2>4 DEF Tick, TypeOK
<1>9. ASSUME NEW e \in Exchanges, ExchangeBegin(e)
      PROVE  TypeOK'
  <2>1. call' \in [Exchanges -> Calls]
    <3>1. PICK inbox \in Inboxes, progress \in SUBSET Known, room \in 1 .. MaxInflight :
            call' = [SweptCall EXCEPT ![e] =
              [Idle EXCEPT !.pc = "enter", !.bridge = SweptBridge, !.timer = WaitTimeout,
                           !.room = room, !.inbox = inbox, !.progress = progress]]
      BY <1>9 DEF ExchangeBegin
    <3>2. /\ progress \in SUBSET Ids /\ room \in 0 .. MaxInflight
          /\ SweptBridge \in Generations
      BY <1>s, <1>t DEF Known, TypeOK
    <3>3. [Idle EXCEPT !.pc = "enter", !.bridge = SweptBridge, !.timer = WaitTimeout,
                       !.room = room, !.inbox = inbox, !.progress = progress] \in Calls
      BY <1>t, <3>2, IdleIsCall DEF Calls, Pcs
    <3> QED
      BY <1>s, <3>1, <3>3
  <2> QED
    BY <1>9, <1>s, <1>t, <2>1, CleanReceiptsType
    DEF ExchangeBegin, TypeOK, bridgeVars, clientVars
<1>10. ASSUME NEW e \in Exchanges, ExchangeTurn(e)
       PROVE  TypeOK'
  <2>1. call' \in [Exchanges -> Calls]
    <3>1. \A p \in Pcs : [SweptCall EXCEPT ![e].pc = p] \in [Exchanges -> Calls]
      BY <1>s, PcType
    <3>2. [SweptCall EXCEPT ![e] = Idle] \in [Exchanges -> Calls]
      BY <1>s, IdleIsCall
    <3>3. call' = [SweptCall EXCEPT ![e] = Idle]
            \/ \E p \in Pcs : call' = [SweptCall EXCEPT ![e].pc = p]
      BY <1>10 DEF ExchangeTurn, Pcs, LockedPcs
    <3> QED
      BY <3>1, <3>2, <3>3
  <2>2. lease' \in 0 .. BridgeLease
    BY <1>10, <1>s, <1>t DEF ExchangeTurn
  <2> QED
    BY <1>10, <1>s, <1>t, <2>1, <2>2, CleanReceiptsType DEF ExchangeTurn, TypeOK, clientVars
<1>11. ASSUME NEW e \in Exchanges, Respond(e)
       PROVE  TypeOK'
  <2> DEFINE r == Head(call[e].inbox)
             i == r.id
  <2>1. /\ Tail(call[e].inbox) \in Inboxes /\ r \in Responses
        /\ call[e] \in Calls
    BY <1>11, InboxTail DEF Respond, TypeOK, Calls
  <2>2. /\ i \in Ids \cup {0} /\ r.payload \in Payloads \cup {NoPayload}
        /\ r.body # "unreadable" => i \in Ids /\ r.payload \in Payloads
        /\ Answerable(e, i) => i \in Ids
    BY <2>1 DEF Responses, Answerable
  <2>3. \A v \in Verdicts, more \in BOOLEAN : Judged(e, v, more) \in [Exchanges -> Calls]
    BY <1>11, JudgedType DEF Respond
  <2>4. ASSUME NEW v \in Verdicts, Refuse(e, v)
        PROVE  TypeOK'
    BY <2>3, <2>4 DEF Refuse, TypeOK, bridgeVars, requestVars, clientVars
  <2>5. ASSUME Answerable(e, i), Retry(e, i)
        PROVE  TypeOK'
    <3>1. call' \in [Exchanges -> Calls]
      <4>1. "rejected" \in Verdicts
        BY DEF Verdicts
      <4>2. Judged(e, "rejected", FALSE) \in [Exchanges -> Calls]
        BY <2>3, <4>1, Zenon
      <4> QED
        BY <2>5, <4>2, SignalledType DEF Retry
    <3> QED
      BY <2>2, <2>5, <3>1, <1>t DEF Retry, TypeOK, bridgeVars, clientVars, States,
                                  ActiveStates, InflightStates
  <2>6. ASSUME Answerable(e, i), r.body = "fit", Accept(e, i, r.payload)
        PROVE  TypeOK'
    <3>1. call' \in [Exchanges -> Calls]
      <4>1. "completed" \in Verdicts /\ Tool(r.payload) \in BOOLEAN
        BY DEF Verdicts, Tool
      <4>2. Judged(e, "completed", Tool(r.payload)) \in [Exchanges -> Calls]
        BY <2>3, <4>1, Zenon
      <4> QED
        BY <2>6, <4>2, SignalledType DEF Accept
    <3>2. state' \in [Ids -> States]
      BY <2>2, <2>6 DEF Accept, TypeOK, States, TerminalStates, SettledStates
    <3>3. receipt' \in [Ids -> [bridge : Generations, payload : Payloads \cup {NoPayload},
                                ttl : 0 .. ReceiptTTL]]
      BY <2>1, <2>2, <2>6, <1>t DEF Accept, TypeOK, Calls
    <3> QED
      BY <2>2, <2>6, <3>1, <3>2, <3>3 DEF Accept, TypeOK, bridgeVars, clientVars
  <2>7. ASSUME r.body # "unreadable", call' = Judged(e, "duplicate", Tool(r.payload)),
               UNCHANGED <<bridgeVars, requestVars, receipt, clientVars>>
        PROVE  TypeOK'
    <3>1. call' \in [Exchanges -> Calls]
      <4>1. "duplicate" \in Verdicts /\ Tool(r.payload) \in BOOLEAN
        BY DEF Verdicts, Tool
      <4> QED
        BY <2>3, <2>7, <4>1, Zenon
    <3> QED
      BY <2>7, <3>1 DEF TypeOK, bridgeVars, requestVars, clientVars
  <2> QED
    BY <1>11, <2>4, <2>5, <2>6, <2>7 DEF Respond, Verdicts
<1>12. ASSUME NEW e \in Exchanges, Progress(e)
       PROVE  TypeOK'
  <2>1. call' \in [Exchanges -> Calls]
    BY <1>12, PcType DEF Progress, TypeOK, Pcs, LockedPcs
  <2>2. deadline' \in [Ids -> 0 .. RequestTimeout]
    BY <1>12, <1>t DEF Progress, TypeOK
  <2> QED
    BY <1>12, <2>1, <2>2 DEF Progress, TypeOK, bridgeVars, clientVars
<1>13. ASSUME NEW e \in Exchanges, Redeliver(e)
       PROVE  TypeOK'
  <2>1. PICK i \in Undelivered(e) : Fits(e, i) /\ Deliver(e, i)
    BY <1>13 DEF Redeliver
  <2>2. i \in Ids
    BY DEF Undelivered, OnBridge, Inflight
  <2> QED
    BY <1>13, <2>1, <2>2, DeliverType DEF Redeliver, TypeOK, bridgeVars, clientVars
<1>14. ASSUME NEW e \in Exchanges, RedeliverDone(e)
       PROVE  TypeOK'
  <2>1. call' \in [Exchanges -> Calls]
    BY <1>14, PcType DEF RedeliverDone, TypeOK, Pcs, LockedPcs
  <2> QED
    BY <1>14, <2>1 DEF RedeliverDone, TypeOK, bridgeVars, requestVars, clientVars
<1>15. ASSUME NEW e \in Exchanges, ClaimSkip(e)
       PROVE  TypeOK'
  <2>1. queue' \in Seq(Ids)
    BY <1>15, HeadTailProperties DEF ClaimSkip, MayClaim, TypeOK
  <2> QED
    BY <1>15, <2>1 DEF ClaimSkip, TypeOK, bridgeVars, clientVars
<1>16. ASSUME NEW e \in Exchanges, ClaimHead(e)
       PROVE  TypeOK'
  <2>1. queue' \in Seq(Ids) /\ Head(queue) \in Ids
    BY <1>16, HeadTailProperties DEF ClaimHead, MayClaim, TypeOK
  <2>2. bound' \in [Ids -> Generations]
    <3>1. call[e].bridge \in Generations
      BY DEF TypeOK, Calls
    <3> QED
      BY <1>16, <3>1 DEF ClaimHead, TypeOK
  <2> QED
    BY <1>16, <2>1, <2>2, DeliverType DEF ClaimHead, TypeOK, bridgeVars, clientVars
<1>17. ASSUME NEW e \in Exchanges, BatchDone(e)
       PROVE  TypeOK'
  <2>1. call' \in [Exchanges -> Calls]
    <3>1. CASE call' = [call EXCEPT ![e] = Idle]
      BY <3>1, IdleIsCall DEF TypeOK
    <3>2. CASE call' = [call EXCEPT ![e].pc = "wait", ![e].notified = FALSE]
      <4>1. [call[e] EXCEPT !.pc = "wait", !.notified = FALSE] \in Calls
        <5>1. call[e] \in Calls /\ "wait" \in Pcs
          BY DEF TypeOK, Pcs
        <5> QED
          BY <5>1 DEF Calls
      <4>2. call' = [call EXCEPT ![e] = [call[e] EXCEPT !.pc = "wait", !.notified = FALSE]]
        BY <3>2 DEF TypeOK, Calls
      <4> QED
        BY <4>1, <4>2 DEF TypeOK
    <3> QED
      BY <1>17, <3>1, <3>2 DEF BatchDone
  <2> QED
    BY <1>17, <2>1 DEF BatchDone, TypeOK, bridgeVars, requestVars, clientVars
<1>18. ASSUME NEW e \in Exchanges, ExchangeWake(e) \/ ExchangeCancel(e)
       PROVE  TypeOK'
  <2>1. call' \in [Exchanges -> Calls]
    <3>1. CASE ExchangeWake(e)
      BY <3>1, PcType DEF ExchangeWake, TypeOK, Pcs
    <3>2. CASE ExchangeCancel(e)
      BY <3>2, IdleIsCall DEF ExchangeCancel, TypeOK
    <3> QED
      BY <1>18, <3>1, <3>2
  <2> QED
    BY <1>18, <2>1
    DEF ExchangeWake, ExchangeCancel, TypeOK, bridgeVars, requestVars, clientVars
<1>19. ASSUME NEW e \in Exchanges, ExchangeTimeout(e)
       PROVE  TypeOK'
  <2>1. call' \in [Exchanges -> Calls]
    BY <1>19, <1>s, IdleIsCall DEF ExchangeTimeout, TimedOut
  <2>2. lease' \in 0 .. BridgeLease
    BY <1>19, <1>s, <1>t DEF ExchangeTimeout
  <2> QED
    BY <1>19, <1>s, <1>t, <2>1, <2>2 DEF ExchangeTimeout, TypeOK, clientVars
<1>20. ASSUME NEW i \in Ids, Enqueue(i)
       PROVE  TypeOK'
  <2>1. queue' \in Seq(Ids)
    BY <1>20 DEF Enqueue, TypeOK
  <2>2. state' \in [Ids -> States]
    BY <1>20, <1>s DEF Enqueue, States, ActiveStates
  <2>3. deadline' \in [Ids -> 0 .. RequestTimeout] /\ bound' \in [Ids -> Generations]
    BY <1>20, <1>s, <1>t DEF Enqueue, TypeOK
  <2> QED
    BY <1>20, <1>s, <2>1, <2>2, <2>3 DEF Enqueue, TypeOK, bridgeVars
<1>21. ASSUME NEW i \in Ids, ReadDeadline(i) \/ TimerFires(i)
       PROVE  TypeOK'
  <2>1. CASE ReadDeadline(i)
    BY <2>1 DEF ReadDeadline, TypeOK, bridgeVars, requestVars
  <2>2. CASE TimerFires(i)
    BY <2>2 DEF TimerFires, TypeOK, bridgeVars, requestVars
  <2> QED
    BY <1>21, <2>1, <2>2
<1>22. ASSUME NEW i \in Ids, Collect(i)
       PROVE  TypeOK'
  <2>1. state[i] \in {"none", "DISCONNECTED"} \cup TerminalStates
    BY <1>22 DEF Collect
  <2>2. call' \in [Exchanges -> Calls]
    BY <1>22 DEF Collect, TypeOK
  <2> QED
    BY <1>22, <2>1, <2>2, ForgetType DEF Collect
<1>23. ASSUME NEW i \in Ids, Disconnect(i) \/ GiveUp(i)
       PROVE  TypeOK'
  <2>1. PICK how \in {"none", "DISCONNECTED"} \cup TerminalStates : TerminateAndForget(i, how)
    BY <1>23 DEF Disconnect, GiveUp, TerminalStates
  <2>2. Forget(i, how) /\ call' \in [Exchanges -> Calls]
    BY <1>s, <2>1 DEF TerminateAndForget, TypeOK
  <2> QED
    BY <2>2, ForgetType
<1>24. CASE UNCHANGED vars
  BY <1>24 DEF vars, bridgeVars, requestVars, clientVars, TypeOK
<1> QED
  BY <1>1, <1>2, <1>3, <1>4, <1>5, <1>6, <1>7, <1>8, <1>9, <1>10, <1>11, <1>12, <1>13,
     <1>14, <1>15, <1>16, <1>17, <1>18, <1>19, <1>20, <1>21, <1>22, <1>23, <1>24
  DEF Next, ExchangeSteps, ClientSteps

\* Every variable always has the type broker.go gives it: deadlines, leases and
\* timers never exceed what the configuration sets them to, a batch never
\* exceeds its byte budget.
THEOREM TypeCorrect == Spec => []TypeOK
BY TypeInit, TypeNext, PTL DEF Spec

----------------------------------------------------------------------------
(* What one step may do to one request.                                    *)

\* A request starts once, changes while it is active, and is forgotten.
StateStep(i) ==
  \/ state'[i] = state[i]
  \/ state[i] = "FREE" /\ state'[i] = "QUEUED"
  \/ Active(i) /\ state'[i] \in ActiveStates \cup TerminalStates
  \/ state'[i] = "GONE"

\* A completion is stored in the step that settles its active request.
ResultStep(i) ==
  \/ result'[i] = result[i]
  \/ Active(i) /\ result'[i] \in Payloads /\ state'[i] \in SettledStates

\* A receipt is written with that completion, and kept or dropped afterwards.
ReceiptStep(i) ==
  \/ receipt'[i] = NoReceipt
  \/ receipt[i] # NoReceipt /\ receipt'[i].payload = receipt[i].payload
  \/ Active(i) /\ receipt'[i].payload = result'[i] /\ state'[i] \in SettledStates

RequestStep(i) == StateStep(i) /\ ResultStep(i) /\ ReceiptStep(i)

\* The sweep that begins an operation.
LEMMA SweptStep ==
  ASSUME TypeOK, NEW i \in Ids
  PROVE  /\ SweptState[i] = state[i] \/ (Active(i) /\ SweptState[i] = "TIMED_OUT")
         /\ CleanReceipts[i] = NoReceipt \/ CleanReceipts[i] = receipt[i]
         /\ SweptState[i] \in ActiveStates => Active(i)
BY DEF SweptState, Lapsed, CleanReceipts, Active, ActiveStates, InflightStates

LEMMA RequestSteps ==
  ASSUME TypeOK, [Next]_vars, NEW i \in Ids
  PROVE  RequestStep(i)
<1> USE DEF RequestStep, StateStep, ResultStep, ReceiptStep
<1>k. UNCHANGED receipt => ReceiptStep(i)
  OBVIOUS
<1>r. receipt' = CleanReceipts => ReceiptStep(i)
  BY SweptStep
<1>s. state' = SweptState => StateStep(i)
  BY SweptStep DEF TerminalStates
<1>1. CASE OpenResume
  BY <1>1, <1>s DEF OpenResume
<1>2. CASE OpenNew
  BY <1>2, <1>s DEF OpenNew
<1>3. CASE Close
  BY <1>3, <1>s DEF Close
<1>4. CASE Shutdown
  BY <1>4 DEF Shutdown, Failed, TerminalStates, TypeOK
<1>5. CASE EnqueueRefused
  BY <1>5, <1>s DEF EnqueueRefused, Sweep
<1>6. CASE Snapshot
  BY <1>6, <1>s, <1>r DEF Snapshot, Sweep
<1>7. CASE Heartbeat
  BY <1>7, <1>s DEF Heartbeat, Sweep
<1>8. CASE Tick
  <2>1. receipt[i] \in [bridge : Generations, payload : Payloads \cup {NoPayload},
                        ttl : 0 .. ReceiptTTL]
    BY DEF TypeOK
  <2>2. receipt'[i] = [receipt[i] EXCEPT !.ttl = Less(@)]
    BY <1>8 DEF Tick
  <2>3. receipt'[i].payload = receipt[i].payload
    BY <2>1, <2>2
  <2>4. receipt[i] = NoReceipt => receipt'[i] = NoReceipt
    <3> SUFFICES ASSUME receipt[i] = NoReceipt PROVE receipt'[i] = NoReceipt
      OBVIOUS
    <3>1. receipt'[i] = [NoReceipt EXCEPT !.ttl = 0]
      BY <2>2 DEF NoReceipt, Less
    <3> QED
      BY <3>1 DEF NoReceipt
  <2> QED
    BY <1>8, <2>3, <2>4 DEF Tick
<1>9. ASSUME NEW e \in Exchanges, ExchangeBegin(e) \/ ExchangeTurn(e)
      PROVE  RequestStep(i)
  BY <1>9, <1>s, <1>r DEF ExchangeBegin, ExchangeTurn
<1>10. ASSUME NEW e \in Exchanges, Respond(e)
       PROVE  RequestStep(i)
  <2> DEFINE r == Head(call[e].inbox)
  <2>1. r \in Responses
    BY <1>10, InboxTail DEF Respond, TypeOK, Calls
  <2>2. ASSUME NEW v, Refuse(e, v)
        PROVE  RequestStep(i)
    BY <2>2 DEF Refuse, requestVars
  <2>3. ASSUME Answerable(e, r.id), Retry(e, r.id)
        PROVE  RequestStep(i)
    BY <2>3 DEF Retry, Answerable, ActiveStates, InflightStates, TypeOK
  <2>4. ASSUME r.body = "fit", Answerable(e, r.id), Accept(e, r.id, r.payload)
        PROVE  RequestStep(i)
    <3>1. r.payload \in Payloads
      BY <2>1, <2>4 DEF Responses
    <3> QED
      BY <2>4, <3>1 DEF Accept, Answerable, TerminalStates, SettledStates, TypeOK
  <2>5. ASSUME UNCHANGED <<requestVars, receipt>>
        PROVE  RequestStep(i)
    BY <2>5 DEF requestVars
  <2> QED
    BY <1>10, <2>2, <2>3, <2>4, <2>5 DEF Respond
<1>11. ASSUME NEW e \in Exchanges, Progress(e)
       PROVE  RequestStep(i)
  BY <1>11 DEF Progress
<1>12. ASSUME NEW e \in Exchanges, Redeliver(e)
       PROVE  RequestStep(i)
  BY <1>12 DEF Redeliver, Deliver, Undelivered, OnBridge, Inflight, Active, ActiveStates,
               InflightStates, TypeOK
<1>13. ASSUME NEW e \in Exchanges, ClaimHead(e)
       PROVE  RequestStep(i)
  BY <1>13 DEF ClaimHead, Deliver, Claimable, Active, ActiveStates, InflightStates, TypeOK
<1>14. ASSUME NEW e \in Exchanges,
              RedeliverDone(e) \/ ClaimSkip(e) \/ BatchDone(e) \/ ExchangeWake(e)
                \/ ExchangeCancel(e)
       PROVE  RequestStep(i)
  BY <1>14 DEF RedeliverDone, ClaimSkip, BatchDone, ExchangeWake, ExchangeCancel, requestVars
<1>15. ASSUME NEW e \in Exchanges, ExchangeTimeout(e)
       PROVE  RequestStep(i)
  BY <1>15, <1>s DEF ExchangeTimeout
<1>16. ASSUME NEW j \in Ids, Enqueue(j)
       PROVE  RequestStep(i)
  <2>1. state' = [SweptState EXCEPT ![j] = "QUEUED"] /\ state[j] = "FREE"
    BY <1>16 DEF Enqueue
  <2>2. StateStep(i)
    BY <2>1, SweptStep DEF TerminalStates, SweptState
  <2> QED
    BY <1>16, <2>2 DEF Enqueue
<1>17. ASSUME NEW j \in Ids, ReadDeadline(j) \/ TimerFires(j)
       PROVE  RequestStep(i)
  BY <1>17 DEF ReadDeadline, TimerFires, requestVars
<1>18. ASSUME NEW j \in Ids, Collect(j) \/ Disconnect(j) \/ GiveUp(j)
       PROVE  RequestStep(i)
  BY <1>18 DEF Collect, Disconnect, GiveUp, TerminateAndForget, Forget, TypeOK
<1>19. CASE UNCHANGED vars
  BY <1>19 DEF vars, requestVars
<1> QED
  BY <1>1, <1>2, <1>3, <1>4, <1>5, <1>6, <1>7, <1>8, <1>9, <1>10, <1>11, <1>12, <1>13,
     <1>14, <1>15, <1>16, <1>17, <1>18, <1>19
  DEF Next, ExchangeSteps, ClientSteps

----------------------------------------------------------------------------
(* The inductive invariant: the invariants themselves, and the facts that   *)
(* tie a completion to the state of its request and what its client is told.*)

\* Only a request that is settled, or was, has a completion.
ResultSettled ==
  \A i \in Ids : result[i] # NoPayload => state[i] \in SettledStates \cup {"GONE"}

\* What an exchange acknowledged is a completion.
Acknowledged ==
  \A e \in Exchanges : \A v \in call[e].verdicts :
    v.verdict \in {"completed", "duplicate"} =>
      /\ v.id \in Ids /\ v.payload \in Payloads
      /\ result[v.id] = v.payload

\* Wait returns once, as it forgets the request, and a request with a
\* completion is never reported to its client as failed.
ClientTold ==
  \A i \in Ids :
    /\ outcome[i] # "none" => state[i] = "GONE"
    /\ result[i] # NoPayload =>
         outcome[i] \in SettledStates \cup {"none", "DISCONNECTED", "TIMED_OUT"}

ResultInv == ReceiptSound /\ ResultSettled /\ Acknowledged /\ ClientTold
IInv == TypeOK /\ BridgeInv /\ ResultInv

----------------------------------------------------------------------------
(* Completions and receipts.                                               *)

LEMMA StatesDisjoint ==
  /\ ActiveStates \cap (TerminalStates \cup {"FREE", "GONE"}) = {}
  /\ TerminalStates \cap {"FREE", "GONE"} = {}
  /\ SettledStates \subseteq TerminalStates
BY DEF ActiveStates, InflightStates, TerminalStates, SettledStates

\* A terminal state is left only for GONE, and a completion never changes.
LEMMA EndsOnceStep ==
  ASSUME TypeOK, ResultSettled, [Next]_vars, NEW i \in Ids
  PROVE  /\ state[i] \in TerminalStates => state'[i] \in {state[i], "GONE"}
         /\ state[i] = "GONE" => state'[i] = "GONE"
         /\ result[i] # NoPayload => result'[i] = result[i]
<1>1. RequestStep(i)
  BY RequestSteps
<1>2. Active(i) => result[i] = NoPayload
  BY StatesDisjoint DEF ResultSettled, Active
<1> QED
  BY <1>1, <1>2, StatesDisjoint DEF RequestStep, StateStep, ResultStep, Active

LEMMA ReceiptNext ==
  ASSUME TypeOK, ReceiptSound, ResultSettled, [Next]_vars
  PROVE  ReceiptSound' /\ ResultSettled'
<1> SUFFICES ASSUME NEW i \in Ids
             PROVE  /\ receipt'[i] # NoReceipt =>
                         /\ receipt'[i].payload = result'[i]
                         /\ state'[i] \in SettledStates \cup {"GONE"}
                    /\ result'[i] # NoPayload => state'[i] \in SettledStates \cup {"GONE"}
  BY DEF ReceiptSound, ResultSettled
<1>1. RequestStep(i)
  BY RequestSteps
<1>2. state[i] \in SettledStates \cup {"GONE"} =>
        state'[i] \in SettledStates \cup {"GONE"} /\ result'[i] = result[i]
  BY <1>1, StatesDisjoint DEF RequestStep, StateStep, ResultStep, Active
<1> QED
  BY <1>1, <1>2 DEF RequestStep, ReceiptStep, ResultStep, ReceiptSound, ResultSettled

\* Wait returns by Collect, with the state its request ended in, or because the
\* client left or its timer ended the wait; no other step touches an outcome.
ToldStep(i) ==
  \/ outcome'[i] = outcome[i]
  \/ state'[i] = "GONE" /\ outcome'[i] \in {"DISCONNECTED", "TIMED_OUT"}
  \/ /\ state'[i] = "GONE" /\ outcome'[i] = state[i]
     /\ state[i] \in TerminalStates

LEMMA ToldSteps ==
  ASSUME TypeOK, [Next]_vars, NEW i \in Ids
  PROVE  ToldStep(i)
<1> USE DEF ToldStep
<1>1. CASE OpenResume \/ OpenNew \/ Close \/ Shutdown
  BY <1>1 DEF OpenResume, OpenNew, Close, Shutdown, clientVars
<1>2. CASE EnqueueRefused \/ Snapshot \/ Heartbeat \/ Tick
  BY <1>2 DEF EnqueueRefused, Snapshot, Heartbeat, Sweep, Tick, clientVars
<1>3. ASSUME NEW e \in Exchanges, Respond(e)
      PROVE  ToldStep(i)
  BY <1>3 DEF Respond, Refuse, Retry, Accept, clientVars
<1>4. ASSUME NEW e \in Exchanges,
             ExchangeBegin(e) \/ ExchangeTurn(e) \/ Progress(e) \/ Redeliver(e)
               \/ RedeliverDone(e)
      PROVE  ToldStep(i)
  BY <1>4 DEF ExchangeBegin, ExchangeTurn, Progress, Redeliver, RedeliverDone, clientVars
<1>5. ASSUME NEW e \in Exchanges,
             ClaimSkip(e) \/ ClaimHead(e) \/ BatchDone(e) \/ ExchangeWake(e)
               \/ ExchangeCancel(e) \/ ExchangeTimeout(e)
      PROVE  ToldStep(i)
  BY <1>5 DEF ClaimSkip, ClaimHead, BatchDone, ExchangeWake, ExchangeCancel,
              ExchangeTimeout, clientVars
<1>6. ASSUME NEW j \in Ids, Enqueue(j) \/ ReadDeadline(j) \/ TimerFires(j)
      PROVE  ToldStep(i)
  BY <1>6 DEF Enqueue, ReadDeadline, TimerFires
<1>7. ASSUME NEW j \in Ids, Collect(j) \/ Disconnect(j) \/ GiveUp(j)
      PROVE  ToldStep(i)
  BY <1>7 DEF Collect, Disconnect, GiveUp, TerminateAndForget, Forget, TypeOK
<1>8. CASE UNCHANGED vars
  BY <1>8 DEF vars, clientVars
<1> QED
  BY <1>1, <1>2, <1>3, <1>4, <1>5, <1>6, <1>7, <1>8 DEF Next, ExchangeSteps, ClientSteps

LEMMA ClientToldNext ==
  ASSUME TypeOK, ResultSettled, ClientTold, [Next]_vars
  PROVE  ClientTold'
<1> SUFFICES ASSUME NEW i \in Ids
             PROVE  /\ outcome'[i] # "none" => state'[i] = "GONE"
                    /\ result'[i] # NoPayload =>
                         outcome'[i] \in SettledStates \cup {"none", "DISCONNECTED", "TIMED_OUT"}
  BY DEF ClientTold
<1>1. RequestStep(i) /\ ToldStep(i)
  BY RequestSteps, ToldSteps
<1>2. state[i] = "GONE" => state'[i] = "GONE"
  BY EndsOnceStep
<1>3. Active(i) => state[i] # "GONE"
  BY StatesDisjoint DEF Active
\* A completion stored in this step finds its client still waiting.
<1>4. CASE result'[i] = result[i]
  <2>1. result[i] # NoPayload /\ state[i] \in TerminalStates => state[i] \in SettledStates
    BY StatesDisjoint DEF ResultSettled
  <2> QED
    BY <1>1, <1>2, <1>4, <2>1 DEF ToldStep, ClientTold
<1>5. CASE Active(i) /\ state'[i] \in SettledStates
  BY <1>1, <1>3, <1>5, StatesDisjoint DEF ToldStep, ClientTold
<1> QED
  BY <1>1, <1>4, <1>5 DEF RequestStep, ResultStep

\* signalLocked changes nothing of a call but its notification.
LEMMA SignalledFields ==
  ASSUME NEW c \in [Exchanges -> Calls], NEW f \in Exchanges
  PROVE  /\ Signalled(c)[f].pc = c[f].pc
         /\ Signalled(c)[f].bridge = c[f].bridge
         /\ Signalled(c)[f].room = c[f].room
         /\ Signalled(c)[f].bytes = c[f].bytes
         /\ Signalled(c)[f].batch = c[f].batch
         /\ Signalled(c)[f].verdicts = c[f].verdicts
         /\ Signalled(c)[f].inbox = c[f].inbox
BY DEF Signalled, Calls

LEMMA SweptFields ==
  ASSUME TypeOK, NEW f \in Exchanges
  PROVE  /\ SweptCall[f].pc = call[f].pc
         /\ SweptCall[f].bridge = call[f].bridge
         /\ SweptCall[f].room = call[f].room
         /\ SweptCall[f].bytes = call[f].bytes
         /\ SweptCall[f].batch = call[f].batch
         /\ SweptCall[f].verdicts = call[f].verdicts
         /\ SweptCall[f].inbox = call[f].inbox
BY SignalledFields DEF SweptCall, TypeOK

\* An exchange keeps the verdicts it has, loses all when it returns, or adds
\* one: an acknowledgement only for the completion that is the result.
VerdictStep(f) ==
  \A v \in call'[f].verdicts :
    \/ v \in call[f].verdicts
    \/ v.verdict \notin {"completed", "duplicate"}
    \/ v.id \in Ids /\ v.payload \in Payloads /\ result'[v.id] = v.payload

LEMMA VerdictSteps ==
  ASSUME TypeOK, ReceiptSound, [Next]_vars, NEW f \in Exchanges
  PROVE  VerdictStep(f)
<1> USE DEF VerdictStep
<1>t. call \in [Exchanges -> Calls]
  BY DEF TypeOK
<1>s. call' \in {call, SweptCall, Signalled(call)} => VerdictStep(f)
  BY <1>t, SweptFields, SignalledFields
<1>i. Idle.verdicts = {}
  BY DEF Idle
<1>1. CASE OpenResume \/ OpenNew \/ Close \/ Shutdown
  BY <1>1, <1>s DEF OpenResume, OpenNew, Close, Shutdown
<1>2. CASE EnqueueRefused \/ Snapshot \/ Heartbeat
  BY <1>2, <1>s DEF EnqueueRefused, Snapshot, Heartbeat, Sweep
<1>3. CASE Tick
  <2>1. call'[f] = [call[f] EXCEPT !.timer = Less(@)]
    BY <1>3 DEF Tick
  <2>2. call[f] \in Calls
    BY <1>t
  <2>3. call'[f].verdicts = call[f].verdicts
    BY <2>1, <2>2 DEF Calls
  <2> QED
    BY <2>3
<1>4. ASSUME NEW e \in Exchanges, ExchangeBegin(e)
      PROVE  VerdictStep(f)
  <2>1. SweptCall \in [Exchanges -> Calls]
    BY SweptType
  <2>2. CASE f = e
    <3>1. call'[f].verdicts = {}
      BY <1>4, <2>1, <2>2 DEF ExchangeBegin, Idle
    <3> QED
      BY <3>1
  <2>3. CASE f # e
    BY <1>4, <2>1, <2>3, SweptFields DEF ExchangeBegin
  <2> QED
    BY <2>2, <2>3
<1>5. ASSUME NEW e \in Exchanges, ExchangeTurn(e) \/ ExchangeTimeout(e)
      PROVE  VerdictStep(f)
  <2>1. SweptCall \in [Exchanges -> Calls] /\ SweptCall[e] \in Calls
    BY SweptType
  <2>2. \/ call' = [SweptCall EXCEPT ![e] = Idle]
        \/ \E p \in Pcs : call' = [SweptCall EXCEPT ![e].pc = p]
    BY <1>5 DEF ExchangeTurn, ExchangeTimeout, TimedOut, Pcs, LockedPcs
  <2>3. call'[f].verdicts \in {{}, SweptCall[f].verdicts}
    BY <1>i, <2>1, <2>2 DEF Calls
  <2> QED
    BY <2>3, SweptFields
<1>6. ASSUME NEW e \in Exchanges, Respond(e)
      PROVE  VerdictStep(f)
  <2> DEFINE r == Head(call[e].inbox)
  <2>1. r \in Responses /\ call[e] \in Calls
    BY <1>6, InboxTail DEF Respond, TypeOK, Calls
  <2>2. r.body # "unreadable" => r.id \in Ids /\ r.payload \in Payloads
    BY <2>1 DEF Responses
  <2>3. ASSUME NEW w \in Verdicts, NEW more \in BOOLEAN,
               NEW v \in Judged(e, w, more)[f].verdicts, v \notin call[f].verdicts
        PROVE  v.verdict = w /\ v.id = r.id /\ v.payload = r.payload
    BY <1>t, <2>1, <2>3 DEF Judged, Calls
  <2>4. \A w \in Verdicts, more \in BOOLEAN : Judged(e, w, more) \in [Exchanges -> Calls]
    BY <1>6, <2>1, JudgedType DEF Respond
  <2> HIDE DEF r
  <2>5. ASSUME NEW w \in Verdicts, w \notin {"completed", "duplicate"},
               call' = Judged(e, w, FALSE) \/ call' = Signalled(Judged(e, w, FALSE))
        PROVE  VerdictStep(f)
    <3>1. Judged(e, w, FALSE) \in [Exchanges -> Calls]
      BY <2>4, Zenon
    <3>2. call'[f].verdicts = Judged(e, w, FALSE)[f].verdicts
      BY <2>5, <3>1, SignalledFields
    <3>3. \A v \in Judged(e, w, FALSE)[f].verdicts : v \in call[f].verdicts \/ v.verdict = w
      BY <2>3, Zenon
    <3> QED
      BY <2>5, <3>2, <3>3
  <2>6. ASSUME NEW w \in Verdicts, r.body # "unreadable", result'[r.id] = r.payload,
               \/ call' = Judged(e, w, Tool(r.payload))
               \/ call' = Signalled(Judged(e, w, Tool(r.payload)))
        PROVE  VerdictStep(f)
    <3>0. Tool(r.payload) \in BOOLEAN
      BY DEF Tool
    <3> DEFINE j == Judged(e, w, Tool(r.payload))
    <3>1. j \in [Exchanges -> Calls]
      BY <2>4, <3>0, Zenon
    <3>3. \A v \in j[f].verdicts :
            v \in call[f].verdicts \/ (v.id = r.id /\ v.payload = r.payload)
      BY <2>3, <3>0, Zenon
    <3> HIDE DEF j
    <3>2. call'[f].verdicts = j[f].verdicts
      BY <2>6, <3>1, SignalledFields DEF j
    <3> QED
      BY <2>2, <2>6, <3>2, <3>3
  <2>7. CASE \E w \in {"rejected", "conflict", "inactive"} : Refuse(e, w)
    BY <2>5, <2>7 DEF Refuse, Verdicts
  <2>8. CASE Retry(e, r.id)
    BY <2>5, <2>8 DEF Retry, Verdicts
  <2>9. CASE /\ r.body # "unreadable" /\ receipt[r.id] # NoReceipt /\ Repeats(e, r)
             /\ call' = Judged(e, "duplicate", Tool(r.payload))
             /\ UNCHANGED <<bridgeVars, requestVars, receipt, clientVars>>
    <3>1. result'[r.id] = r.payload /\ "duplicate" \in Verdicts
      BY <2>2, <2>9 DEF ReceiptSound, Repeats, requestVars, Verdicts
    <3> QED
      BY <2>6, <2>9, <3>1
  <2>10. CASE r.body = "fit" /\ Accept(e, r.id, r.payload)
    <3>1. result'[r.id] = r.payload /\ "completed" \in Verdicts
      BY <2>2, <2>10 DEF Accept, Verdicts, TypeOK
    <3> QED
      BY <2>6, <2>10, <3>1 DEF Accept
  <2> QED
    BY <1>6, <2>7, <2>8, <2>9, <2>10 DEF Respond, r
<1>7. ASSUME NEW e \in Exchanges, Redeliver(e) \/ ClaimHead(e)
      PROVE  VerdictStep(f)
  <2>1. PICK i : Deliver(e, i)
    BY <1>7 DEF Redeliver, ClaimHead
  <2>2. call'[f].verdicts = call[f].verdicts
    BY <1>t, <2>1 DEF Deliver, Calls
  <2> QED
    BY <2>2
<1>8. ASSUME NEW e \in Exchanges,
             Progress(e) \/ RedeliverDone(e) \/ ClaimSkip(e) \/ BatchDone(e)
               \/ ExchangeWake(e) \/ ExchangeCancel(e)
      PROVE  VerdictStep(f)
  <2>1. \/ call' = call \/ call' = [call EXCEPT ![e] = Idle]
        \/ call' = [call EXCEPT ![e].pc = "wait", ![e].notified = FALSE]
        \/ \E p \in Pcs : call' = [call EXCEPT ![e].pc = p]
    BY <1>8 DEF Progress, RedeliverDone, ClaimSkip, BatchDone, ExchangeWake, ExchangeCancel,
                Pcs, LockedPcs
  <2>2. call'[f].verdicts \in {{}, call[f].verdicts}
    BY <1>t, <1>i, <2>1 DEF Calls
  <2> QED
    BY <2>2
<1>9. ASSUME NEW j \in Ids, Enqueue(j) \/ ClientSteps(j) \/ Disconnect(j)
      PROVE  VerdictStep(f)
  BY <1>9, <1>s DEF Enqueue, ClientSteps, ReadDeadline, TimerFires, Collect, GiveUp,
                    Disconnect, TerminateAndForget
<1>10. CASE UNCHANGED vars
  BY <1>10 DEF vars
<1> QED
  BY <1>1, <1>2, <1>3, <1>4, <1>5, <1>6, <1>7, <1>8, <1>9, <1>10 DEF Next, ExchangeSteps

LEMMA AcknowledgedNext ==
  ASSUME TypeOK, ResultInv, [Next]_vars
  PROVE  Acknowledged'
<1> SUFFICES ASSUME NEW f \in Exchanges, NEW v \in call'[f].verdicts,
                    v.verdict \in {"completed", "duplicate"}
             PROVE  /\ v.id \in Ids /\ v.payload \in Payloads
                    /\ result'[v.id] = v.payload
  BY DEF Acknowledged
<1>1. VerdictStep(f)
  BY VerdictSteps DEF ResultInv
<1>2. \A i \in Ids : result[i] # NoPayload => result'[i] = result[i]
  BY EndsOnceStep DEF ResultInv
<1> QED
  BY <1>1, <1>2, PayloadsAssumption DEF VerdictStep, ResultInv, Acknowledged

----------------------------------------------------------------------------
(* The bridge, its requests and the exchange at work under the mutex.       *)

\* The sweep keeps the binding: an idle bridge whose lease has passed closes
\* and leaves its queued requests without a bridge.
LEMMA SweptBinding ==
  ASSUME TypeOK, BridgeBinding, NEW i \in Ids, SweptState[i] \in ActiveStates
  PROVE  Active(i) /\ SweptBound[i] = SweptBridge
<1>1. Active(i) /\ bound[i] = bridge
  BY SweptStep DEF BridgeBinding
<1> QED
  BY <1>1 DEF SweptBound, SweptBridge, Detached

\* With the mutex free no exchange is in the middle of its turn.
LEMMA FreeFields ==
  ASSUME TypeOK, LockFree, NEW f \in Exchanges
  PROVE  /\ call[f].pc \notin LockedPcs
         /\ SweptCall[f].pc \notin LockedPcs
         /\ Signalled(call)[f].pc \notin LockedPcs
<1>1. call \in [Exchanges -> Calls]
  BY DEF TypeOK
<1> QED
  BY <1>1, SweptFields, SignalledFields DEF LockFree

\* Where the bridge and its requests are left by an operation that sweeps, or
\* does less, and adopts none: all stay bound to the bridge there is.
LEMMA SweptBridgeInv ==
  ASSUME TypeOK, BridgeInv, LockFree, closed' = closed, bridge' = SweptBridge,
         bound' = SweptBound, state' = SweptState,
         \A f \in Exchanges : call'[f].pc \notin LockedPcs
  PROVE  BridgeInv'
<1>1. BridgeBinding'
  BY SweptBinding DEF BridgeInv, BridgeBinding, Active
<1>2. HolderIsCurrent'
  BY DEF HolderIsCurrent
<1>3. ClosedIsQuiet'
  BY SweptStep DEF BridgeInv, ClosedIsQuiet, ActiveIds, Active, SweptBridge
<1> QED
  BY <1>1, <1>2, <1>3 DEF BridgeInv

\* An exchange at work changes neither the bridge nor any other exchange, and
\* makes active only requests of its own bridge.
LEMMA HolderBridgeInv ==
  ASSUME TypeOK, BridgeInv, NEW e \in Exchanges, call[e].pc \in LockedPcs,
         UNCHANGED bridgeVars,
         \A f \in Exchanges : /\ call'[f].bridge = call[f].bridge
                              /\ f # e => call'[f].pc = call[f].pc,
         \A i \in Ids : state'[i] \in ActiveStates =>
           Active(i) /\ bound'[i] \in {bound[i], call[e].bridge}
  PROVE  BridgeInv'
<1>1. /\ ~closed /\ bridge # 0 /\ call[e].bridge = bridge
      /\ \A f \in Exchanges : call[f].pc \in LockedPcs => f = e
  BY DEF BridgeInv, HolderIsCurrent
<1>2. BridgeBinding'
  BY <1>1 DEF BridgeInv, BridgeBinding, Active, bridgeVars
<1>3. HolderIsCurrent'
  BY <1>1 DEF HolderIsCurrent, bridgeVars
<1>4. ClosedIsQuiet'
  BY <1>1 DEF ClosedIsQuiet, bridgeVars
<1> QED
  BY <1>2, <1>3, <1>4 DEF BridgeInv

LEMMA BridgeNext ==
  ASSUME TypeOK, BridgeInv, [Next]_vars
  PROVE  BridgeInv'
<1>t. call \in [Exchanges -> Calls] /\ SweptCall \in [Exchanges -> Calls]
  BY SweptType DEF TypeOK
<1>f. LockFree /\ call' \in {call, SweptCall, Signalled(call)} =>
        \A f \in Exchanges : call'[f].pc \notin LockedPcs
  BY FreeFields
<1>h. (\A f \in Exchanges : call'[f].pc \notin LockedPcs) => HolderIsCurrent'
  BY DEF HolderIsCurrent
<1>1. CASE OpenResume
  <2>1. SweptBridge = bridge /\ bridge # 0
    BY <1>1 DEF OpenResume, SweptBridge
  <2>2. BridgeBinding'
    BY <1>1, <2>1, SweptBinding DEF OpenResume, BridgeBinding, Active, AdoptedBound, BridgeInv
  <2> QED
    BY <1>1, <1>f, <1>h, <2>2 DEF OpenResume, BridgeInv, ClosedIsQuiet
<1>2. CASE OpenNew
  <2>1. BridgeBinding'
    BY <1>2 DEF OpenNew, BridgeBinding, Active, Rebound
  <2> QED
    BY <1>2, <1>f, <1>h, <2>1 DEF OpenNew, BridgeInv, ClosedIsQuiet
<1>3. CASE Close
  <2>1. BridgeBinding'
    BY <1>3, SweptStep DEF Close, BridgeBinding, Active, Detached, BridgeInv
  <2> QED
    BY <1>3, <1>f, <1>h, <2>1 DEF Close, BridgeInv, ClosedIsQuiet
<1>4. CASE Shutdown
  <2>1. \A i \in Ids : ~Active(i)'
    BY <1>4, StatesDisjoint DEF Shutdown, Failed, Active, TerminalStates
  <2> QED
    BY <1>4, <1>f, <1>h, <2>1 DEF Shutdown, BridgeInv, BridgeBinding, ClosedIsQuiet, ActiveIds
<1>5. CASE EnqueueRefused \/ Snapshot
  BY <1>5, <1>f, SweptBridgeInv DEF EnqueueRefused, Snapshot, Sweep
<1>6. CASE Heartbeat
  <2>1. CASE RenewDue
    <3>1. BridgeBinding'
      BY <1>6, <2>1 DEF Heartbeat, BridgeBinding, Active, AdoptedBound, BridgeInv
    <3> QED
      BY <1>6, <2>1, <1>f, <1>h, <3>1 DEF Heartbeat, BridgeInv, ClosedIsQuiet
  <2>2. CASE ~RenewDue
    BY <1>6, <2>2, <1>f, SweptBridgeInv DEF Heartbeat, Sweep
  <2> QED
    BY <2>1, <2>2
<1>7. CASE Tick
  <2>1. \A f \in Exchanges : call'[f].pc = call[f].pc
    BY <1>7, <1>t DEF Tick, Calls
  <2>2. \A f \in Exchanges : call'[f].pc \notin LockedPcs
    BY <1>7, <2>1 DEF Tick, LockFree
  <2> QED
    BY <1>7, <1>h, <2>2
    DEF Tick, BridgeInv, BridgeBinding, ClosedIsQuiet, ActiveIds, Active
<1>8. ASSUME NEW e \in Exchanges, ExchangeBegin(e)
      PROVE  BridgeInv'
  <2>1. \A f \in Exchanges : call'[f].pc \notin LockedPcs
    <3>1. call'[e].pc = "enter"
      BY <1>8, <1>t DEF ExchangeBegin, Idle
    <3>2. \A f \in Exchanges \ {e} : call'[f] = SweptCall[f]
      BY <1>8, <1>t DEF ExchangeBegin
    <3> QED
      BY <1>8, <3>1, <3>2, FreeFields DEF ExchangeBegin, LockedPcs
  <2>2. SweptBridge = bridge
    BY <1>8 DEF ExchangeBegin, SweptBridge
  <2> QED
    BY <1>8, <2>1, <2>2, SweptBridgeInv DEF ExchangeBegin, bridgeVars
<1>9. ASSUME NEW e \in Exchanges, ExchangeTurn(e)
      PROVE  BridgeInv'
  <2>1. CASE BridgeHeld(e)
    <3>1. BridgeBinding'
      BY <1>9, SweptBinding DEF ExchangeTurn, BridgeBinding, Active, BridgeInv
    <3>2. /\ ~closed' /\ bridge' # 0 /\ SweptCall[e].bridge = bridge'
      BY <1>9, <2>1, SweptFields DEF ExchangeTurn, BridgeHeld
    <3>3. PICK p \in Pcs : call' = [SweptCall EXCEPT ![e].pc = p]
      BY <1>9, <2>1 DEF ExchangeTurn, Pcs, LockedPcs
    <3>4. /\ call'[e].bridge = SweptCall[e].bridge
          /\ \A f \in Exchanges : f # e => call'[f] = SweptCall[f]
      BY <1>t, <3>3 DEF Calls
    <3>5. HolderIsCurrent'
      BY <1>9, <3>2, <3>4, FreeFields DEF HolderIsCurrent, ExchangeTurn
    <3> QED
      BY <3>1, <3>2, <3>5 DEF BridgeInv, ClosedIsQuiet
  <2>2. CASE ~BridgeHeld(e)
    <3>1. \A f \in Exchanges : call'[f] \in {Idle, SweptCall[f]}
      BY <1>9, <1>t, <2>2 DEF ExchangeTurn
    <3>2. \A f \in Exchanges : call'[f].pc \notin LockedPcs
      BY <1>9, <3>1, FreeFields DEF ExchangeTurn, Idle, LockedPcs
    <3> QED
      BY <1>9, <3>2, SweptBridgeInv DEF ExchangeTurn
  <2> QED
    BY <2>1, <2>2
<1>10. ASSUME NEW e \in Exchanges, ExchangeTimeout(e)
       PROVE  BridgeInv'
  <2>1. \A f \in Exchanges : call'[f] \in {Idle, SweptCall[f]}
    BY <1>10, <1>t DEF ExchangeTimeout, TimedOut
  <2>2. \A f \in Exchanges : call'[f].pc \notin LockedPcs
    BY <1>10, <2>1, FreeFields DEF ExchangeTimeout, Idle, LockedPcs
  <2> QED
    BY <1>10, <2>2, SweptBridgeInv DEF ExchangeTimeout
<1>11. ASSUME NEW e \in Exchanges, Respond(e)
       PROVE  BridgeInv'
  <2>1. call[e].pc \in LockedPcs /\ call[e].inbox # <<>>
    BY <1>11 DEF Respond, LockedPcs
  <2>2. PICK v \in Verdicts, more \in BOOLEAN :
          call' = Judged(e, v, more) \/ call' = Signalled(Judged(e, v, more))
    <3>1. \A p : Tool(p) \in BOOLEAN
      BY DEF Tool
    <3> QED
      BY <1>11, <3>1 DEF Respond, Refuse, Retry, Accept, Verdicts
  <2>3. Judged(e, v, more) \in [Exchanges -> Calls]
    BY <2>1, JudgedType
  <2>4. \A f \in Exchanges : /\ Judged(e, v, more)[f].bridge = call[f].bridge
                             /\ Judged(e, v, more)[f].pc = call[f].pc
    BY <1>t DEF Judged, Calls
  <2>5. \A f \in Exchanges : call'[f].bridge = call[f].bridge /\ call'[f].pc = call[f].pc
    BY <2>2, <2>3, <2>4, SignalledFields
  <2>6. UNCHANGED bridgeVars /\ bound' = bound
    BY <1>11 DEF Respond, Refuse, Retry, Accept, requestVars
  <2>7. \A i \in Ids : state'[i] \in ActiveStates => Active(i)
    BY <1>11, StatesDisjoint DEF Respond, Refuse, Retry, Accept, requestVars, TypeOK,
                                 Answerable, Active, SettledStates
  <2> QED
    BY <2>1, <2>5, <2>6, <2>7, HolderBridgeInv
<1>12. ASSUME NEW e \in Exchanges, Redeliver(e) \/ ClaimHead(e)
       PROVE  BridgeInv'
  <2>1. PICK i \in Ids : Deliver(e, i) /\ Active(i)
    BY <1>12, HeadTailProperties
    DEF Redeliver, ClaimHead, Claimable, MayClaim, Undelivered, OnBridge, Inflight, Active,
        ActiveStates, TypeOK
  <2>2. call[e].pc \in LockedPcs
    BY <1>12 DEF Redeliver, ClaimHead, LockedPcs
  <2>3. \A f \in Exchanges : call'[f].bridge = call[f].bridge /\ call'[f].pc = call[f].pc
    BY <1>t, <2>1 DEF Deliver, Calls
  <2>4. \A j \in Ids : state'[j] \in ActiveStates => Active(j)
    BY <2>1 DEF Deliver, Active, TypeOK
  <2>5. \A j \in Ids : bound'[j] \in {bound[j], call[e].bridge}
    BY <1>12 DEF Redeliver, ClaimHead, TypeOK
  <2>6. UNCHANGED bridgeVars
    BY <1>12 DEF Redeliver, ClaimHead
  <2> QED
    BY <2>2, <2>3, <2>4, <2>5, <2>6, HolderBridgeInv
<1>13. ASSUME NEW e \in Exchanges,
              Progress(e) \/ RedeliverDone(e) \/ ClaimSkip(e)
       PROVE  BridgeInv'
  <2>1. call[e].pc \in LockedPcs
    BY <1>13 DEF Progress, RedeliverDone, ClaimSkip, LockedPcs
  <2>2. call' = call \/ \E p \in Pcs : call' = [call EXCEPT ![e].pc = p]
    BY <1>13 DEF Progress, RedeliverDone, ClaimSkip, Pcs, LockedPcs
  <2>3. \A f \in Exchanges : /\ call'[f].bridge = call[f].bridge
                             /\ f # e => call'[f].pc = call[f].pc
    BY <1>t, <2>2 DEF Calls
  <2>4. UNCHANGED <<bridgeVars, state, bound>>
    BY <1>13 DEF Progress, RedeliverDone, ClaimSkip, requestVars
  <2> QED
    BY <2>1, <2>3, <2>4, HolderBridgeInv DEF Active
<1>14. ASSUME NEW e \in Exchanges, BatchDone(e) \/ ExchangeWake(e) \/ ExchangeCancel(e)
       PROVE  BridgeInv'
  <2>1. UNCHANGED <<bridgeVars, requestVars>>
    BY <1>14 DEF BatchDone, ExchangeWake, ExchangeCancel
  <2>2. \/ call' = [call EXCEPT ![e] = Idle]
        \/ call' = [call EXCEPT ![e].pc = "wait", ![e].notified = FALSE]
        \/ call' = [call EXCEPT ![e].pc = "again"]
    BY <1>14 DEF BatchDone, ExchangeWake, ExchangeCancel
  <2>3. call'[e].pc \notin LockedPcs /\ \A f \in Exchanges : f # e => call'[f] = call[f]
    BY <1>t, <2>2 DEF Calls, Idle, LockedPcs
  <2>4. HolderIsCurrent'
    BY <2>1, <2>3 DEF BridgeInv, HolderIsCurrent, bridgeVars
  <2> QED
    BY <2>1, <2>4
    DEF BridgeInv, BridgeBinding, ClosedIsQuiet, ActiveIds, Active, bridgeVars, requestVars
<1>15. ASSUME NEW j \in Ids, Enqueue(j)
       PROVE  BridgeInv'
  <2>1. /\ SweptBridge = bridge /\ ~closed /\ UNCHANGED bridgeVars
        /\ state' = [SweptState EXCEPT ![j] = "QUEUED"]
        /\ bound' = [SweptBound EXCEPT ![j] = bridge]
    BY <1>15 DEF Enqueue, SweptBridge
  <2>2. BridgeBinding'
    BY <2>1, SweptType, SweptBinding DEF BridgeBinding, Active, BridgeInv, bridgeVars
  <2>3. HolderIsCurrent'
    BY <1>15, <1>f, <1>h DEF Enqueue
  <2> QED
    BY <2>1, <2>2, <2>3 DEF BridgeInv, ClosedIsQuiet, bridgeVars
<1>16. ASSUME NEW j \in Ids, ReadDeadline(j) \/ TimerFires(j)
       PROVE  BridgeInv'
  BY <1>16 DEF ReadDeadline, TimerFires, bridgeVars, requestVars, BridgeInv, BridgeBinding,
               HolderIsCurrent, ClosedIsQuiet, ActiveIds, Active
<1>17. ASSUME NEW j \in Ids, Collect(j) \/ Disconnect(j) \/ GiveUp(j)
       PROVE  BridgeInv'
  <2>1. PICK how : Forget(j, how)
    BY <1>17 DEF Collect, Disconnect, GiveUp, TerminateAndForget
  <2>2. LockFree /\ call' \in {call, Signalled(call)}
    BY <1>17 DEF Collect, Disconnect, GiveUp, TerminateAndForget
  <2>3. \A i \in Ids : Active(i)' => Active(i) /\ bound'[i] = bound[i]
    BY <2>1, StatesDisjoint DEF Forget, Active, TypeOK
  <2> QED
    BY <1>f, <1>h, <2>1, <2>2, <2>3
    DEF Forget, bridgeVars, BridgeInv, BridgeBinding, ClosedIsQuiet, ActiveIds
<1>18. CASE UNCHANGED vars
  BY <1>18 DEF vars, bridgeVars, requestVars, BridgeInv, BridgeBinding, HolderIsCurrent,
               ClosedIsQuiet, ActiveIds, Active
<1> QED
  BY <1>1, <1>2, <1>3, <1>4, <1>5, <1>6, <1>7, <1>8, <1>9, <1>10, <1>11, <1>12, <1>13,
     <1>14, <1>15, <1>16, <1>17, <1>18
  DEF Next, ExchangeSteps, ClientSteps

----------------------------------------------------------------------------
(* The theorems.                                                           *)

LEMMA IInvInit == Init => IInv
<1> SUFFICES ASSUME Init PROVE IInv
  OBVIOUS
<1>1. \A i \in Ids : ~Active(i)
  BY DEF Init, Active, ActiveStates, InflightStates
<1>2. BridgeInv
  BY <1>1 DEF Init, BridgeInv, BridgeBinding, HolderIsCurrent, ClosedIsQuiet, ActiveIds,
              Idle, LockedPcs
<1>3. ResultInv
  BY DEF Init, ResultInv, ReceiptSound, ResultSettled, Acknowledged, ClientTold, Idle
<1> QED
  BY <1>2, <1>3, TypeInit DEF IInv

LEMMA IInvNext == IInv /\ [Next]_vars => IInv'
<1> SUFFICES ASSUME IInv, [Next]_vars PROVE IInv'
  OBVIOUS
<1>1. TypeOK'
  BY TypeNext DEF IInv
<1>2. BridgeInv'
  BY BridgeNext DEF IInv
<1>3. ResultInv'
  BY ReceiptNext, AcknowledgedNext, ClientToldNext DEF IInv, ResultInv
<1> QED
  BY <1>1, <1>2, <1>3 DEF IInv

\* The invariant holds of every reachable state.
THEOREM Inductive == Spec => []IInv
BY IInvInit, IInvNext, PTL DEF Spec

\* A request that waits for its completion belongs to the bridge that is open, an
\* exchange at work under the mutex holds that bridge, and nothing waits after
\* Shutdown, through every Open, Close, lease and heartbeat.
THEOREM BridgeHolds == Spec => []BridgeInv
<1>1. IInv => BridgeInv
  BY DEF IInv
<1> QED
  BY <1>1, Inductive, PTL

\* A receipt stands for the completion its request really got.
THEOREM ReceiptHolds == Spec => []ReceiptSound
<1>1. IInv => ReceiptSound
  BY DEF IInv, ResultInv
<1> QED
  BY <1>1, Inductive, PTL

\* What acceptResponsesLocked acknowledges, first or again, is the one completion
\* of its request, and the request's client is not told that it failed, unless
\* it left or its timer had ended the wait.
THEOREM AcknowledgedHolds == Spec => []AcknowledgedIsResult
<1>1. IInv => AcknowledgedIsResult
  BY PayloadsAssumption DEF IInv, ResultInv, Acknowledged, ClientTold, AcknowledgedIsResult
<1> QED
  BY <1>1, Inductive, PTL

\* A request ends once and keeps its completion: finishLocked is never undone.
THEOREM EndsOnceHolds == Spec => EndsOnce
<1>1. IInv /\ [Next]_vars =>
        [\A i \in Ids :
           /\ state[i] \in TerminalStates => state'[i] \in {state[i], "GONE"}
           /\ state[i] = "GONE" => state'[i] = "GONE"
           /\ result[i] # NoPayload => result'[i] = result[i]]_vars
  BY EndsOnceStep DEF IInv, ResultInv
<1> QED
  BY <1>1, Inductive, PTL DEF Spec, EndsOnce
=============================================================================
