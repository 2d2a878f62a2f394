------------------------- MODULE AgentBrokerPromise -------------------------
(***************************************************************************)
(* Theorems of AgentBroker about what its two kinds of callers may rely on: *)
(* a sleeping Exchange misses no request, and each request keeps the        *)
(* promise of AgentRequest, over any number of requests, bridges,           *)
(* exchanges and completions.                                              *)
(***************************************************************************)
EXTENDS AgentBrokerQueue, WellFoundedInduction

----------------------------------------------------------------------------
(* The batch of an exchange.                                               *)

\* The batch of nextBatchLocked: an exchange asked for at least one request, and
\* once it has redelivered nothing there was nothing to redeliver.
BatchInv ==
  \A e \in Exchanges :
    /\ call[e].pc # "idle" => call[e].room > 0
    /\ call[e].batch = {} => call[e].bytes = 0
    /\ call[e].pc = "claim" /\ call[e].batch = {} => Inflight = {}

\* A set of requests has an oldest one.
LEMMA OldestExists ==
  ASSUME NEW S, S \subseteq Ids, S # {}
  PROVE  \E i \in S : Oldest(S, i)
<1>1. S \subseteq Nat
  BY BoundsAssumption DEF Ids
<1>2. PICK i \in S : \A j \in S : ~ (<<j, i>> \in OpToRel(<, Nat))
  BY <1>1, NatLessThanWellFounded, WFMin
<1>3. \A j \in S : ~ (j < i)
  BY <1>1, <1>2 DEF OpToRel
<1>4. \A j \in S : i <= j
  BY <1>1, <1>3
<1> QED
  BY <1>4 DEF Oldest

\* An empty batch has room for any request.
LEMMA EmptyBatchFits ==
  ASSUME TypeOK, BatchInv, NEW e \in Exchanges, call[e].pc # "idle", call[e].batch = {},
         NEW i \in Ids
  PROVE  Fits(e, i) /\ Cardinality(call[e].batch) < call[e].room
<1>1. Cardinality(call[e].batch) = 0
  BY FS_EmptySet
<1>2. call[e].bytes = 0 /\ call[e].room > 0
  BY DEF BatchInv
<1>3. Size[i] \in 1 .. MaxBatchBytes /\ MaxBatchBytes \in Nat
  BY ConfigAssumption
<1> QED
  BY <1>1, <1>2, <1>3 DEF Fits

\* The exchange at work holds the open bridge, so what is in flight is its own.
LEMMA InflightOnBridge ==
  ASSUME TypeOK, BridgeInv, NEW e \in Exchanges, call[e].pc \in LockedPcs
  PROVE  call[e].bridge = bridge /\ OnBridge(e) = Inflight
<1>1. call[e].bridge = bridge
  BY DEF BridgeInv, HolderIsCurrent
<1>2. \A i \in Inflight : bound[i] = bridge
  BY StateNames DEF BridgeInv, BridgeBinding, Inflight, Active
<1> QED
  BY <1>1, <1>2 DEF OnBridge

\* The redelivery stops with an empty batch only when nothing is in flight.
LEMMA NothingToRedeliver ==
  ASSUME TypeOK, BridgeInv, BatchInv, NEW e \in Exchanges, RedeliverDone(e),
         call[e].batch = {}
  PROVE  Inflight = {}
<1>1. call[e].pc = "redeliver"
  BY DEF RedeliverDone
<1>2. Undelivered(e) = Inflight
  BY <1>1, InflightOnBridge DEF Undelivered, LockedPcs
<1>3. \A i \in Inflight : ~Oldest(Inflight, i)
  BY <1>1, <1>2, EmptyBatchFits DEF RedeliverDone, Inflight
<1>4. Inflight \subseteq Ids
  BY DEF Inflight
<1> QED
  BY <1>3, <1>4, OldestExists

\* An exchange goes to sleep only when no request waits for an agent.
LEMMA NothingToClaim ==
  ASSUME QInv, BatchInv, NEW e \in Exchanges, BatchDone(e), call'[e].pc = "wait"
  PROVE  ActiveIds = {} /\ call[e].bridge = bridge
<1>t. TypeOK /\ BridgeInv /\ QueueFIFO
  BY DEF QInv, IInv, QueueInv
<1>1. call[e].pc = "claim"
  BY DEF BatchDone
<1>2. call[e].batch = {}
  <2>1. ASSUME call' = [call EXCEPT ![e] = Idle]
        PROVE  FALSE
    BY <1>t, <2>1 DEF TypeOK, Idle
  <2> QED
    BY <2>1 DEF BatchDone
<1>3. Inflight = {} /\ OnBridge(e) = {} /\ call[e].bridge = bridge
  BY <1>t, <1>1, <1>2, InflightOnBridge DEF BatchInv, LockedPcs
<1>4. Cardinality(OnBridge(e)) < MaxInflight
  BY <1>3, FS_EmptySet, ConfigAssumption
<1>5. queue = <<>>
  <2> SUFFICES ASSUME queue # <<>> PROVE FALSE
    OBVIOUS
  <2>1. Head(queue) \in Ids
    BY <1>t, HeadTailProperties DEF TypeOK
  <2>2. Fits(e, Head(queue)) /\ Cardinality(call[e].batch) < call[e].room
    BY <1>t, <1>1, <1>2, <2>1, EmptyBatchFits
  <2> QED
    BY <1>4, <2>2 DEF BatchDone, MayClaim
<1>6. \A i \in Ids : state[i] # "QUEUED"
  BY <1>t, <1>5 DEF QueueFIFO
<1> QED
  BY <1>3, <1>6, StateNames DEF ActiveIds, Active, Inflight

----------------------------------------------------------------------------
(* What a step may do to an exchange.                                      *)

\* An exchange begins with an empty batch, and only adds to it.
BatchStep(f) ==
  \/ call'[f].pc = "idle" /\ call'[f].bytes = 0
  \/ call'[f].pc = "enter" /\ call'[f].room > 0 /\ call'[f].bytes = 0
  \/ /\ call[f].pc # "idle" /\ call'[f].pc # "idle" /\ call'[f].room = call[f].room
     /\ \/ call'[f].batch = call[f].batch /\ call'[f].bytes = call[f].bytes
        \/ call'[f].batch # {}
     /\ call'[f].pc = "claim" => call[f].pc = "claim" \/ RedeliverDone(f)
  \/ call'[f].pc = call[f].pc /\ call'[f].batch = call[f].batch
     /\ call'[f].bytes = call[f].bytes /\ call'[f].room = call[f].room

LEMMA BatchSteps ==
  ASSUME TypeOK, [Next]_vars, NEW f \in Exchanges
  PROVE  BatchStep(f)
<1> USE DEF BatchStep
<1>t. call \in [Exchanges -> Calls] /\ SweptCall \in [Exchanges -> Calls]
  BY SweptType DEF TypeOK
<1>s. call' \in {call, SweptCall, Signalled(call)} => BatchStep(f)
  BY <1>t, SweptFields, SignalledFields
<1>i. Idle.pc = "idle" /\ Idle.batch = {} /\ Idle.bytes = 0
  BY DEF Idle
<1>1. CASE OpenResume \/ OpenNew \/ Close \/ Shutdown
  BY <1>1, <1>s DEF OpenResume, OpenNew, Close, Shutdown
<1>2. CASE EnqueueRefused \/ Snapshot \/ Heartbeat
  BY <1>2, <1>s DEF EnqueueRefused, Snapshot, Heartbeat, Sweep
<1>3. CASE Tick
  <2>1. call'[f] = [call[f] EXCEPT !.timer = Less(@)] /\ call[f] \in Calls
    BY <1>3, <1>t DEF Tick
  <2> QED
    BY <2>1 DEF Calls
<1>4. ASSUME NEW e \in Exchanges, ExchangeBegin(e)
      PROVE  BatchStep(f)
  <2>1. PICK inbox \in Inboxes, progress \in SUBSET Known, room \in 1 .. MaxInflight :
          call' = [SweptCall EXCEPT ![e] =
               [Idle EXCEPT !.pc = "enter", !.bridge = SweptBridge, !.timer = WaitTimeout,
                            !.room = room, !.inbox = inbox, !.progress = progress]]
    BY <1>4 DEF ExchangeBegin
  <2>2. CASE f = e
    <3>1. call'[f].pc = "enter" /\ call'[f].room = room /\ call'[f].bytes = 0
      BY <1>t, <2>1, <2>2 DEF Idle
    <3> QED
      BY <3>1
  <2>3. CASE f # e
    BY <1>t, <2>1, <2>3, SweptFields
  <2> QED
    BY <2>2, <2>3
<1>5. ASSUME NEW e \in Exchanges, ExchangeTurn(e) \/ ExchangeTimeout(e)
      PROVE  BatchStep(f)
  <2>1. CASE f # e
    <3>1. call'[f] = SweptCall[f]
      BY <1>5, <1>t, <2>1 DEF ExchangeTurn, ExchangeTimeout, TimedOut
    <3> QED
      BY <3>1, SweptFields
  <2>2. CASE f = e /\ call' = [SweptCall EXCEPT ![e] = Idle]
    BY <1>i, <1>t, <2>2
  <2>3. CASE /\ f = e /\ call[e].pc \in {"enter", "again"}
             /\ \E p \in {"respond", "redeliver"} : call' = [SweptCall EXCEPT ![e].pc = p]
    <3>1. PICK p \in {"respond", "redeliver"} : call' = [SweptCall EXCEPT ![e].pc = p]
      BY <2>3
    <3>2. /\ call'[f].pc = p /\ call'[f].room = SweptCall[f].room
          /\ call'[f].batch = SweptCall[f].batch /\ call'[f].bytes = SweptCall[f].bytes
      BY <1>t, <2>3, <3>1 DEF Calls
    <3> QED
      BY <2>3, <3>2, SweptFields
  <2> QED
    BY <1>5, <2>1, <2>2, <2>3 DEF ExchangeTurn, ExchangeTimeout, TimedOut
<1>6. ASSUME NEW e \in Exchanges, Respond(e)
      PROVE  BatchStep(f)
  <2>1. PICK v \in Verdicts, more \in BOOLEAN :
          call' = Judged(e, v, more) \/ call' = Signalled(Judged(e, v, more))
    <3>1. \A p : Tool(p) \in BOOLEAN
      BY DEF Tool
    <3> QED
      BY <1>6, <3>1 DEF Respond, Refuse, Retry, Accept, Verdicts
  <2>2. Judged(e, v, more) \in [Exchanges -> Calls] /\ call[e].inbox # <<>>
    BY <1>6, JudgedType DEF Respond
  <2> DEFINE j == Judged(e, v, more)
  <2>3. /\ j[f].pc = call[f].pc /\ j[f].room = call[f].room
        /\ j[f].batch = call[f].batch /\ j[f].bytes = call[f].bytes
    BY <1>t DEF Judged, Calls
  <2> HIDE DEF j
  <2>4. /\ call'[f].pc = j[f].pc /\ call'[f].room = j[f].room
        /\ call'[f].batch = j[f].batch /\ call'[f].bytes = j[f].bytes
    BY <2>1, <2>2, SignalledFields DEF j
  <2> QED
    BY <2>3, <2>4
<1>7. ASSUME NEW e \in Exchanges, Redeliver(e) \/ ClaimHead(e)
      PROVE  BatchStep(f)
  <2>1. PICK i : Deliver(e, i)
    BY <1>7 DEF Redeliver, ClaimHead
  <2>2. /\ call'[f].pc = call[f].pc /\ call'[f].room = call[f].room
        /\ f # e => call'[f].batch = call[f].batch /\ call'[f].bytes = call[f].bytes
        /\ f = e => i \in call'[f].batch
    BY <1>t, <2>1 DEF Deliver, Calls
  <2>3. call[e].pc # "idle"
    BY <1>7 DEF Redeliver, ClaimHead
  <2>4. f = e => (call'[f].pc = "claim" => call[f].pc = "claim")
    BY <2>2
  <2> QED
    BY <2>2, <2>3, <2>4
<1>8. ASSUME NEW e \in Exchanges,
             Progress(e) \/ RedeliverDone(e) \/ ClaimSkip(e) \/ BatchDone(e)
               \/ ExchangeWake(e) \/ ExchangeCancel(e)
      PROVE  BatchStep(f)
  <2>1. CASE f # e
    <3>1. call'[f] = call[f]
      BY <1>8, <1>t, <2>1 DEF Progress, RedeliverDone, ClaimSkip, BatchDone, ExchangeWake,
                              ExchangeCancel
    <3> QED
      BY <3>1
  <2>2. CASE call' = [call EXCEPT ![e] = Idle]
    <3>1. f = e => call'[f] = Idle
      BY <1>t, <2>2
    <3> QED
      BY <1>i, <2>1, <3>1
  <2>3. CASE call' = call
    BY <2>3
  <2>4. ASSUME f = e, call[e].pc # "idle",
               NEW p \in {"redeliver", "claim", "again"},
               call' = [call EXCEPT ![e].pc = p], p = "claim" => RedeliverDone(e)
        PROVE  BatchStep(f)
    <3>1. /\ call'[f].pc = p /\ call'[f].room = call[f].room
          /\ call'[f].batch = call[f].batch /\ call'[f].bytes = call[f].bytes
      BY <1>t, <2>4 DEF Calls
    <3> QED
      BY <2>4, <3>1
  <2>5. CASE /\ f = e /\ call[e].pc = "claim"
             /\ call' = [call EXCEPT ![e].pc = "wait", ![e].notified = FALSE]
    <3>1. /\ call'[f].pc = "wait" /\ call'[f].room = call[f].room
          /\ call'[f].batch = call[f].batch /\ call'[f].bytes = call[f].bytes
      BY <1>t, <2>5 DEF Calls
    <3> QED
      BY <2>5, <3>1
  <2>6. CASE Progress(e)
    BY <2>1, <2>2, <2>3, <2>4, <2>5, <2>6 DEF Progress
  <2>7. CASE RedeliverDone(e)
    BY <2>1, <2>2, <2>3, <2>4, <2>5, <2>7 DEF RedeliverDone
  <2>8. CASE ClaimSkip(e) \/ BatchDone(e)
    BY <2>1, <2>2, <2>3, <2>4, <2>5, <2>8 DEF ClaimSkip, BatchDone
  <2>9. CASE ExchangeWake(e) \/ ExchangeCancel(e)
    BY <2>1, <2>2, <2>3, <2>4, <2>5, <2>9 DEF ExchangeWake, ExchangeCancel
  <2> QED
    BY <1>8, <2>6, <2>7, <2>8, <2>9
<1>9. ASSUME NEW j \in Ids, Enqueue(j) \/ ClientSteps(j) \/ Disconnect(j)
      PROVE  BatchStep(f)
  BY <1>9, <1>s DEF Enqueue, ClientSteps, ReadDeadline, TimerFires, Collect, GiveUp,
                    Disconnect, TerminateAndForget
<1>10. CASE UNCHANGED vars
  BY <1>10 DEF vars
<1> HIDE DEF BatchStep
<1>11. ASSUME NEW e \in Exchanges, ExchangeBegin(e) \/ ExchangeSteps(e) \/ ExchangeCancel(e)
       PROVE  BatchStep(f)
  BY <1>4, <1>5, <1>6, <1>7, <1>8, <1>11 DEF ExchangeSteps
<1> QED
  BY <1>1, <1>2, <1>3, <1>9, <1>10, <1>11 DEF Next

\* While an exchange claims, the mutex keeps everyone else's requests as they are.
LEMMA ClaimingAlone ==
  ASSUME QInv, [Next]_vars, NEW f \in Exchanges, call[f].pc = "claim",
         call'[f].pc = "claim", call'[f].batch = {}
  PROVE  Inflight' = Inflight
<1>t. TypeOK /\ BridgeInv /\ call \in [Exchanges -> Calls]
  BY DEF QInv, IInv, TypeOK
<1>1. ~LockFree
  BY DEF LockFree, LockedPcs
<1>2. \A e \in Exchanges : call[e].pc \in {"respond", "redeliver"} => FALSE
  BY <1>t DEF BridgeInv, HolderIsCurrent, LockedPcs
<1>3. UNCHANGED state => Inflight' = Inflight
  BY DEF Inflight
<1>4. ASSUME NEW e \in Exchanges, ClaimHead(e)
      PROVE  FALSE
  <2>1. e = f
    BY <1>t, <1>4 DEF ClaimHead, BridgeInv, HolderIsCurrent, LockedPcs
  <2>2. Head(queue) \in call'[f].batch
    BY <1>t, <1>4, <2>1 DEF ClaimHead, Deliver, Calls
  <2> QED
    BY <2>2
<1>5. ASSUME NEW e \in Exchanges,
             ClaimSkip(e) \/ BatchDone(e) \/ ExchangeWake(e) \/ ExchangeCancel(e)
      PROVE  UNCHANGED state
  BY <1>5 DEF ClaimSkip, BatchDone, ExchangeWake, ExchangeCancel, requestVars
<1>6. UNCHANGED vars => UNCHANGED state
  BY DEF vars, requestVars
<1> QED
  BY <1>1, <1>2, <1>3, <1>4, <1>5, <1>6
  DEF Next, ExchangeSteps, ClientSteps, OpenResume, OpenNew, Close, Shutdown, EnqueueRefused,
      Snapshot, Sweep, Heartbeat, Tick, ExchangeBegin, ExchangeTurn, Respond, Progress,
      Redeliver, RedeliverDone, ExchangeTimeout, Enqueue, ReadDeadline, Collect, TimerFires,
      GiveUp, Disconnect

LEMMA BatchNext ==
  ASSUME QInv, BatchInv, [Next]_vars
  PROVE  BatchInv'
<1>t. TypeOK /\ TypeOK' /\ BridgeInv
  BY TypeNext DEF QInv, IInv
<1> SUFFICES ASSUME NEW f \in Exchanges
             PROVE  /\ call'[f].pc # "idle" => call'[f].room > 0
                    /\ call'[f].batch = {} => call'[f].bytes = 0
                    /\ call'[f].pc = "claim" /\ call'[f].batch = {} => Inflight' = {}
  BY DEF BatchInv
<1>1. BatchStep(f)
  BY <1>t, BatchSteps
<1>2. /\ call'[f].pc # "idle" => call'[f].room > 0
      /\ call'[f].batch = {} => call'[f].bytes = 0
  BY <1>1 DEF BatchStep, BatchInv
<1>3. ASSUME call'[f].pc = "claim", call'[f].batch = {}
      PROVE  Inflight' = {}
  <2>1. /\ call[f].batch = {}
        /\ call[f].pc = "claim" \/ RedeliverDone(f)
    BY <1>1, <1>3 DEF BatchStep
  <2>2. CASE call[f].pc = "claim"
    BY <1>3, <2>1, <2>2, ClaimingAlone DEF BatchInv
  <2>3. CASE RedeliverDone(f)
    BY <1>t, <2>1, <2>3, NothingToRedeliver DEF RedeliverDone, requestVars, Inflight
  <2> QED
    BY <2>1, <2>2, <2>3
<1> QED
  BY <1>2, <1>3

----------------------------------------------------------------------------
(* The sleep.                                                              *)

\* An exchange that sleeps unsignalled went to sleep in this step, or slept
\* through a step that opened no bridge and made no request wait.
AsleepStep(f) ==
  call'[f].pc = "wait" /\ ~call'[f].notified =>
    \/ BatchDone(f) /\ call'[f].bridge = call[f].bridge
    \/ /\ call[f].pc = "wait" /\ ~call[f].notified
       /\ call'[f].bridge = call[f].bridge
       /\ bridge' = bridge /\ ActiveIds' \subseteq ActiveIds

\* A signal wakes every sleeping exchange.
LEMMA SignalledAsleep ==
  ASSUME NEW c \in [Exchanges -> Calls], NEW f \in Exchanges, Signalled(c)[f].pc = "wait"
  PROVE  Signalled(c)[f].notified
<1>1. c[f].pc = "wait"
  BY SignalledFields
<1>2. Signalled(c)[f] = [c[f] EXCEPT !.notified = TRUE] /\ c[f] \in Calls
  BY <1>1 DEF Signalled
<1> QED
  BY <1>2 DEF Calls

\* The sweep lets an exchange sleep on only if the bridge stays.
LEMMA SweptAsleep ==
  ASSUME TypeOK, NEW f \in Exchanges, SweptCall[f].pc = "wait", ~SweptCall[f].notified
  PROVE  SweptCall = call /\ SweptBridge = bridge
BY SignalledAsleep DEF SweptCall, SweptBridge, TypeOK

LEMMA SweptActive ==
  ASSUME TypeOK, state' = SweptState
  PROVE  ActiveIds' \subseteq ActiveIds
BY SweptStep DEF ActiveIds, Active

LEMMA AsleepSteps ==
  ASSUME QInv, [Next]_vars, NEW f \in Exchanges
  PROVE  AsleepStep(f)
<1> SUFFICES ASSUME call'[f].pc = "wait", ~call'[f].notified
             PROVE  AsleepStep(f)
  BY DEF AsleepStep
<1> USE DEF AsleepStep
<1>t. TypeOK /\ call \in [Exchanges -> Calls] /\ SweptCall \in [Exchanges -> Calls]
  BY SweptType DEF QInv, IInv, TypeOK
<1>g. call' # Signalled(call)
  BY <1>t, SignalledAsleep
<1>k. UNCHANGED state => ActiveIds' \subseteq ActiveIds
  BY DEF ActiveIds, Active
<1>w. ASSUME SweptCall[f] = call'[f], state' = SweptState, bridge' = SweptBridge \/ bridge' = bridge
      PROVE  AsleepStep(f)
  BY <1>t, <1>w, SweptAsleep, SweptActive
<1>i. Idle.pc = "idle"
  BY DEF Idle
<1>1. CASE OpenResume \/ EnqueueRefused \/ Snapshot
  BY <1>1, <1>w DEF OpenResume, EnqueueRefused, Snapshot, Sweep
<1>2. CASE OpenNew \/ Shutdown
  BY <1>2, <1>g DEF OpenNew, Shutdown
<1>3. CASE Close
  BY <1>3, <1>g, <1>w DEF Close
<1>4. CASE Heartbeat
  BY <1>4, <1>k, <1>w DEF Heartbeat, Sweep
<1>5. CASE Tick
  <2>1. call'[f] = [call[f] EXCEPT !.timer = Less(@)] /\ call[f] \in Calls
    BY <1>5, <1>t DEF Tick
  <2>2. /\ call'[f].pc = call[f].pc /\ call'[f].notified = call[f].notified
        /\ call'[f].bridge = call[f].bridge
    BY <2>1 DEF Calls
  <2> QED
    BY <1>5, <1>k, <2>2 DEF Tick
<1>6. ASSUME NEW e \in Exchanges, ExchangeBegin(e) \/ ExchangeTurn(e) \/ ExchangeTimeout(e)
      PROVE  AsleepStep(f)
  <2>1. state' = SweptState /\ (bridge' = SweptBridge \/ bridge' = bridge)
    BY <1>6 DEF ExchangeBegin, ExchangeTurn, ExchangeTimeout, bridgeVars
  <2>2. f # e
    <3>1. CASE ExchangeBegin(e)
      <4>1. call'[e].pc = "enter"
        BY <1>t, <3>1 DEF ExchangeBegin, Idle
      <4> QED
        BY <4>1
    <3>2. CASE call' = [SweptCall EXCEPT ![e] = Idle]
      BY <1>i, <1>t, <3>2
    <3>3. CASE \E p \in {"respond", "redeliver"} : call' = [SweptCall EXCEPT ![e].pc = p]
      <4>1. call'[e].pc \in {"respond", "redeliver"}
        BY <1>t, <3>3 DEF Calls
      <4> QED
        BY <4>1
    <3> QED
      BY <1>6, <3>1, <3>2, <3>3 DEF ExchangeTurn, ExchangeTimeout, TimedOut
  <2>3. call'[f] = SweptCall[f]
    BY <1>6, <1>t, <2>2 DEF ExchangeBegin, ExchangeTurn, ExchangeTimeout, TimedOut
  <2> QED
    BY <1>w, <2>1, <2>3
<1>7. ASSUME NEW e \in Exchanges, Respond(e)
      PROVE  AsleepStep(f)
  <2>1. PICK v \in Verdicts, more \in BOOLEAN :
          \/ call' = Signalled(Judged(e, v, more))
          \/ call' = Judged(e, v, more) /\ UNCHANGED <<bridge, state>>
    <3>1. \A p : Tool(p) \in BOOLEAN
      BY DEF Tool
    <3> QED
      BY <1>7, <3>1 DEF Respond, Refuse, Retry, Accept, Verdicts, bridgeVars, requestVars
  <2>2. Judged(e, v, more) \in [Exchanges -> Calls]
    BY <1>7, <1>t, JudgedType DEF Respond
  <2>3. call' = Judged(e, v, more) /\ UNCHANGED <<bridge, state>>
    BY <2>1, <2>2, SignalledAsleep
  <2>4. /\ call'[f].pc = call[f].pc /\ call'[f].notified = call[f].notified
        /\ call'[f].bridge = call[f].bridge
    BY <1>t, <2>3 DEF Judged, Calls
  <2> QED
    BY <1>k, <2>3, <2>4
<1>8. ASSUME NEW e \in Exchanges, Redeliver(e) \/ ClaimHead(e)
      PROVE  AsleepStep(f)
  <2>1. PICK i : Deliver(e, i) /\ (i \in Ids => Active(i)) /\ bridge' = bridge
    BY <1>8, StateNames DEF Redeliver, ClaimHead, Claimable, Undelivered, OnBridge, Inflight,
                            Active, bridgeVars
  <2>2. /\ call'[f].pc = call[f].pc /\ call'[f].notified = call[f].notified
        /\ call'[f].bridge = call[f].bridge
    BY <1>t, <2>1 DEF Deliver, Calls
  <2>3. ActiveIds' \subseteq ActiveIds
    BY <1>t, <2>1, StateNames DEF Deliver, ActiveIds, Active, TypeOK
  <2> QED
    BY <2>1, <2>2, <2>3
<1>9. ASSUME NEW e \in Exchanges,
             Progress(e) \/ RedeliverDone(e) \/ ClaimSkip(e) \/ ExchangeWake(e)
               \/ ExchangeCancel(e)
      PROVE  AsleepStep(f)
  <2>1. UNCHANGED <<bridge, state>>
    BY <1>9 DEF Progress, RedeliverDone, ClaimSkip, ExchangeWake, ExchangeCancel, bridgeVars,
                requestVars
  <2>2. \/ call' = call \/ call' = [call EXCEPT ![e] = Idle]
        \/ \E p \in {"redeliver", "claim", "again"} : call' = [call EXCEPT ![e].pc = p]
    BY <1>9 DEF Progress, RedeliverDone, ClaimSkip, ExchangeWake, ExchangeCancel
  <2>3. CASE call' = call
    BY <1>k, <2>1, <2>3
  <2>4. CASE f # e
    <3>1. call'[f] = call[f]
      BY <1>t, <2>2, <2>4
    <3> QED
      BY <1>k, <2>1, <3>1
  <2>5. CASE f = e /\ call' # call
    <3>1. call'[f].pc \in {"idle", "redeliver", "claim", "again"}
      BY <1>t, <1>i, <2>2, <2>5 DEF Calls
    <3> QED
      BY <3>1
  <2> QED
    BY <2>3, <2>4, <2>5
<1>10. ASSUME NEW e \in Exchanges, BatchDone(e)
       PROVE  AsleepStep(f)
  <2>1. UNCHANGED <<bridge, state>>
    BY <1>10 DEF BatchDone, bridgeVars, requestVars
  <2>2. CASE f # e
    <3>1. call'[f] = call[f]
      BY <1>10, <1>t, <2>2 DEF BatchDone
    <3> QED
      BY <1>k, <2>1, <3>1
  <2>3. CASE f = e /\ call' = [call EXCEPT ![e] = Idle]
    <3>1. call'[f].pc = "idle"
      BY <1>t, <1>i, <2>3
    <3> QED
      BY <3>1
  <2>4. CASE f = e /\ call' = [call EXCEPT ![e].pc = "wait", ![e].notified = FALSE]
    <3>1. call'[f].bridge = call[f].bridge
      BY <1>t, <2>4 DEF Calls
    <3> QED
      BY <1>10, <2>4, <3>1
  <2> QED
    BY <1>10, <2>2, <2>3, <2>4 DEF BatchDone
<1>11. ASSUME NEW i \in Ids, Enqueue(i)
       PROVE  AsleepStep(f)
  BY <1>11, <1>g DEF Enqueue
<1>12. ASSUME NEW i \in Ids, ReadDeadline(i) \/ TimerFires(i)
       PROVE  AsleepStep(f)
  BY <1>12, <1>k DEF ReadDeadline, TimerFires, bridgeVars, requestVars
<1>13. ASSUME NEW i \in Ids, Collect(i) \/ Disconnect(i) \/ GiveUp(i)
       PROVE  AsleepStep(f)
  <2>1. /\ state' = [state EXCEPT ![i] = "GONE"] /\ bridge' = bridge
        /\ call' = call \/ call' = Signalled(call)
    BY <1>13 DEF Collect, Disconnect, GiveUp, TerminateAndForget, Forget, bridgeVars
  <2>2. ActiveIds' \subseteq ActiveIds
    BY <1>t, <2>1, StateNames DEF ActiveIds, Active, TypeOK
  <2> QED
    BY <1>g, <2>1, <2>2
<1>14. CASE UNCHANGED vars
  BY <1>14, <1>k DEF vars, bridgeVars, requestVars
<1> QED
  BY <1>1, <1>2, <1>3, <1>4, <1>5, <1>6, <1>7, <1>8, <1>9, <1>10, <1>11, <1>12, <1>13, <1>14
  DEF Next, ExchangeSteps, ClientSteps

LEMMA WakeupNext ==
  ASSUME QInv, BatchInv, NoLostWakeup, [Next]_vars
  PROVE  NoLostWakeup'
<1> SUFFICES ASSUME NEW f \in Exchanges, call'[f].pc = "wait", ~call'[f].notified
             PROVE  call'[f].bridge = bridge' /\ ActiveIds' = {}
  BY DEF NoLostWakeup
<1>1. AsleepStep(f)
  BY AsleepSteps
<1>2. CASE BatchDone(f) /\ call'[f].bridge = call[f].bridge
  <2>1. UNCHANGED <<bridge, state>>
    BY <1>2 DEF BatchDone, bridgeVars, requestVars
  <2> QED
    BY <1>2, <2>1, NothingToClaim DEF ActiveIds, Active
<1>3. CASE /\ call[f].pc = "wait" /\ ~call[f].notified /\ call'[f].bridge = call[f].bridge
           /\ bridge' = bridge /\ ActiveIds' \subseteq ActiveIds
  BY <1>3 DEF NoLostWakeup
<1> QED
  BY <1>1, <1>2, <1>3 DEF AsleepStep

----------------------------------------------------------------------------
(* The promise.                                                            *)

\* A client has returned exactly when its request is forgotten, and only then
\* has it an outcome.
AnswerInv ==
  \A i \in Ids : /\ client[i] = "returned" <=> state[i] = "GONE"
                 /\ outcome[i] = "none" <=> state[i] # "GONE"

\* Only forgetting a request answers its client or ends the wait.
OutcomeStep(i) ==
  \/ /\ outcome'[i] = outcome[i]
     /\ state'[i] = "GONE" <=> state[i] = "GONE"
     /\ client'[i] = "returned" <=> client[i] = "returned"
  \/ /\ client[i] \in {"select", "giveup"} /\ client'[i] = "returned"
     /\ state'[i] = "GONE" /\ delivered'[i] = delivered[i] /\ result'[i] = result[i]
     /\ \/ outcome'[i] \in {"DISCONNECTED", "TIMED_OUT"}
        \/ state[i] \in TerminalStates /\ outcome'[i] = state[i]

LEMMA SweptGone ==
  ASSUME TypeOK, state' = SweptState, NEW i \in Ids
  PROVE  state'[i] = "GONE" <=> state[i] = "GONE"
BY SweptStep, StateNames DEF Active

LEMMA ForgetOutcome ==
  ASSUME TypeOK, NEW i \in Ids, NEW j \in Ids, NEW how, Forget(j, how),
         client[j] \in {"select", "giveup"},
         how \in {"DISCONNECTED", "TIMED_OUT"} \/ (state[j] \in TerminalStates /\ how = state[j])
  PROVE  OutcomeStep(i)
<1>1. /\ state' = [state EXCEPT ![j] = "GONE"] /\ state \in [Ids -> States]
      /\ client' = [client EXCEPT ![j] = "returned"] /\ DOMAIN client = Ids
      /\ outcome' = [outcome EXCEPT ![j] = how] /\ DOMAIN outcome = Ids
      /\ delivered' = delivered /\ result' = result
  BY DEF Forget, TypeOK
<1>2. CASE i = j
  BY <1>1, <1>2 DEF OutcomeStep
<1>3. CASE i # j
  BY <1>1, <1>3 DEF OutcomeStep
<1> QED
  BY <1>2, <1>3

LEMMA OutcomeSteps ==
  ASSUME QInv, [Next]_vars, NEW i \in Ids
  PROVE  OutcomeStep(i)
<1>t. TypeOK
  BY DEF QInv, IInv
<1>s. state' = SweptState /\ UNCHANGED clientVars => OutcomeStep(i)
  BY <1>t, SweptGone DEF OutcomeStep, clientVars
<1>k. UNCHANGED <<state, client, outcome>> => OutcomeStep(i)
  BY DEF OutcomeStep
<1>1. CASE OpenResume \/ OpenNew \/ Close \/ EnqueueRefused \/ Snapshot
  BY <1>1, <1>s DEF OpenResume, OpenNew, Close, EnqueueRefused, Snapshot, Sweep
<1>2. CASE Shutdown
  <2>1. state'[i] = "GONE" <=> state[i] = "GONE"
    BY <1>2, <1>t, StateNames DEF Shutdown, Failed, Active
  <2> QED
    BY <1>2, <2>1 DEF Shutdown, clientVars, OutcomeStep
<1>3. CASE Heartbeat
  BY <1>3, <1>s, <1>k DEF Heartbeat, Sweep, clientVars
<1>4. CASE Tick
  BY <1>4, <1>k DEF Tick
<1>5. ASSUME NEW e \in Exchanges, ExchangeBegin(e) \/ ExchangeTurn(e) \/ ExchangeTimeout(e)
      PROVE  OutcomeStep(i)
  BY <1>5, <1>s DEF ExchangeBegin, ExchangeTurn, ExchangeTimeout
<1>6. ASSUME NEW e \in Exchanges, Respond(e)
      PROVE  OutcomeStep(i)
  <2> DEFINE h == Head(call[e].inbox).id
  <2>0. TypeOK /\ DeliveredInflight /\ InboxesKnown
    BY <1>t DEF QInv, StartInv
  <2>1. Answerable(e, h) => h \in Ids /\ state[h] \in InflightStates
    BY <1>6, <2>0, RespondTarget
  <2>2. \/ state' = state
        \/ Answerable(e, h) /\ state' = [state EXCEPT ![h] = "FAILED_RETRYABLE"]
        \/ Answerable(e, h) /\ state' = [state EXCEPT ![h] = "WAITING_TOOL"]
        \/ Answerable(e, h) /\ state' = [state EXCEPT ![h] = "COMPLETED"]
    BY <1>6 DEF Respond, Refuse, Retry, Accept, requestVars
  <2>3. UNCHANGED clientVars
    BY <1>6 DEF Respond, Refuse, Retry, Accept
  <2> HIDE DEF h
  <2>4. state'[i] = "GONE" <=> state[i] = "GONE"
    BY <1>t, <2>1, <2>2, StateNames DEF TypeOK
  <2> QED
    BY <2>3, <2>4 DEF OutcomeStep, clientVars
<1>7. ASSUME NEW e \in Exchanges, Redeliver(e) \/ ClaimHead(e)
      PROVE  OutcomeStep(i)
  <2>1. PICK h : state' = [state EXCEPT ![h] = "RUNNING"] /\ (h \in Ids => Active(h))
    BY <1>7, StateNames DEF Redeliver, ClaimHead, Claimable, Undelivered, OnBridge, Inflight,
                            Active, Deliver
  <2>2. state'[i] = "GONE" <=> state[i] = "GONE"
    BY <1>t, <2>1, StateNames DEF TypeOK, Active
  <2> QED
    BY <1>7, <2>2 DEF Redeliver, ClaimHead, OutcomeStep, clientVars
<1>8. ASSUME NEW e \in Exchanges,
             Progress(e) \/ RedeliverDone(e) \/ ClaimSkip(e) \/ BatchDone(e)
               \/ ExchangeWake(e) \/ ExchangeCancel(e)
      PROVE  OutcomeStep(i)
  BY <1>8, <1>k DEF Progress, RedeliverDone, ClaimSkip, BatchDone, ExchangeWake,
                    ExchangeCancel, requestVars, clientVars
<1>9. ASSUME NEW j \in Ids, Enqueue(j)
      PROVE  OutcomeStep(i)
  <2>1. state'[i] = "GONE" <=> state[i] = "GONE"
    BY <1>9, <1>t, SweptStep, StateNames DEF Enqueue, SweptState, TypeOK, Active
  <2>2. client[j] # "returned"
    BY <1>9, <1>t DEF Enqueue, QInv, StartInv, ClientStarted
  <2> QED
    BY <1>9, <1>t, <2>1, <2>2 DEF Enqueue, OutcomeStep, TypeOK
<1>10. ASSUME NEW j \in Ids, ReadDeadline(j) \/ TimerFires(j)
       PROVE  OutcomeStep(i)
  BY <1>10, <1>t DEF ReadDeadline, TimerFires, requestVars, OutcomeStep, TypeOK
<1>11. ASSUME NEW j \in Ids, Collect(j) \/ Disconnect(j) \/ GiveUp(j)
       PROVE  OutcomeStep(i)
  BY <1>11, <1>t, ForgetOutcome DEF Collect, Disconnect, GiveUp, TerminateAndForget
<1>12. CASE UNCHANGED vars
  BY <1>12, <1>k DEF vars, requestVars, clientVars
<1> QED
  BY <1>1, <1>2, <1>3, <1>4, <1>5, <1>6, <1>7, <1>8, <1>9, <1>10, <1>11, <1>12
  DEF Next, ExchangeSteps, ClientSteps

LEMMA AnswerNext ==
  ASSUME QInv, AnswerInv, [Next]_vars
  PROVE  AnswerInv'
<1> SUFFICES ASSUME NEW i \in Ids
             PROVE  /\ client'[i] = "returned" <=> state'[i] = "GONE"
                    /\ outcome'[i] = "none" <=> state'[i] # "GONE"
  BY DEF AnswerInv
<1>1. OutcomeStep(i)
  BY OutcomeSteps
<1> QED
  BY <1>1, StateNames DEF OutcomeStep, AnswerInv

\* A request is handed out while it is open.
HandStep(i) ==
  \/ delivered'[i] = delivered[i]
  \/ Active(i) /\ state'[i] \in ActiveStates /\ delivered'[i] = TRUE

\* Only the completion of a request that was handed out settles it.
SettleStep(i) ==
  Active(i) /\ state'[i] \in SettledStates => delivered[i] = TRUE /\ result'[i] \in Payloads

LEMMA HandSteps ==
  ASSUME QInv, [Next]_vars, NEW i \in Ids
  PROVE  HandStep(i)
<1>t. TypeOK
  BY DEF QInv, IInv
<1>1. CASE \E h \in Ids : Claims(h)
  <2>1. PICK h \in Ids : Claims(h)
    BY <1>1
  <2> QED
    BY <1>t, <2>1, StateNames DEF Claims, HandStep, Active, TypeOK
<1>2. UNCHANGED delivered => HandStep(i)
  BY DEF HandStep
<1> QED
  BY <1>1, <1>2, StepKinds DEF Calm, Skips, Enqueue, Forget

LEMMA SettleSteps ==
  ASSUME QInv, [Next]_vars, NEW i \in Ids
  PROVE  SettleStep(i)
<1> SUFFICES ASSUME Active(i), state'[i] \in SettledStates
             PROVE  delivered[i] = TRUE /\ result'[i] \in Payloads
  BY DEF SettleStep
<1>t. TypeOK
  BY DEF QInv, IInv
<1>n. SettledStates = {"WAITING_TOOL", "COMPLETED"}
  BY DEF SettledStates
<1>s. state' # SweptState /\ state' # state
  BY <1>t, <1>n, SweptStep, StateNames DEF Active
<1>1. ~ (OpenResume \/ OpenNew \/ Close \/ EnqueueRefused \/ Snapshot \/ Heartbeat \/ Tick)
  BY <1>s DEF OpenResume, OpenNew, Close, EnqueueRefused, Snapshot, Sweep, Heartbeat, Tick
<1>2. ~Shutdown
  BY <1>n DEF Shutdown, Failed
<1>3. ASSUME NEW e \in Exchanges
      PROVE  ~ (ExchangeBegin(e) \/ ExchangeTurn(e) \/ ExchangeTimeout(e) \/ Progress(e)
                \/ RedeliverDone(e) \/ ClaimSkip(e) \/ BatchDone(e) \/ ExchangeWake(e)
                \/ ExchangeCancel(e))
  BY <1>s DEF ExchangeBegin, ExchangeTurn, ExchangeTimeout, Progress, RedeliverDone, ClaimSkip,
              BatchDone, ExchangeWake, ExchangeCancel, requestVars
<1>4. ASSUME NEW e \in Exchanges
      PROVE  ~ (Redeliver(e) \/ ClaimHead(e))
  <2>1. \A h : ~ (state' = [state EXCEPT ![h] = "RUNNING"])
    BY <1>t, <1>n, StateNames DEF Active, TypeOK
  <2> QED
    BY <2>1 DEF Redeliver, ClaimHead, Deliver
<1>5. ASSUME NEW j \in Ids
      PROVE  ~ (Enqueue(j) \/ ClientSteps(j) \/ Disconnect(j))
  <2>1. state' # [SweptState EXCEPT ![j] = "QUEUED"] /\ state' # [state EXCEPT ![j] = "GONE"]
    BY <1>t, <1>n, SweptStep, StateNames DEF Active, TypeOK, SweptState
  <2> QED
    BY <1>s, <2>1 DEF Enqueue, ClientSteps, ReadDeadline, TimerFires, Collect, GiveUp, Disconnect,
                      TerminateAndForget, Forget, requestVars
<1>6. ~ UNCHANGED vars
  BY <1>s DEF vars, requestVars
<1>7. ASSUME NEW e \in Exchanges, Respond(e)
      PROVE  delivered[i] = TRUE /\ result'[i] \in Payloads
  <2> DEFINE r == Head(call[e].inbox)
  <2>1. r \in Responses
    BY <1>7, <1>t, InboxTail DEF Respond, TypeOK, Calls
  <2>2. r.body = "fit" /\ Answerable(e, r.id) /\ Accept(e, r.id, r.payload)
    <3>1. ~ (state' = [state EXCEPT ![r.id] = "FAILED_RETRYABLE"])
      BY <1>t, <1>n, StateNames DEF Active, TypeOK
    <3> QED
      BY <1>7, <1>s, <3>1 DEF Respond, Refuse, Retry, requestVars
  <2>3. r.id \in Ids /\ delivered[r.id] /\ r.payload \in Payloads
    BY <1>7, <1>t, <2>1, <2>2, RespondTarget DEF QInv, StartInv, Responses
  <2>4. r.id = i
    BY <1>s, <1>t, <1>n, <2>2, <2>3, StateNames DEF Accept, TypeOK, Active
  <2> HIDE DEF r
  <2> QED
    BY <1>t, <2>2, <2>3, <2>4 DEF Accept, TypeOK
<1> QED
  BY <1>1, <1>2, <1>3, <1>4, <1>5, <1>6, <1>7 DEF Next, ExchangeSteps

----------------------------------------------------------------------------
(* The refinement.                                                         *)

LEMMA PhaseNames ==
  ASSUME NEW i \in Ids, TypeOK
  PROVE  /\ state[i] = "FREE" => PhaseOf(i) = "new"
         /\ Active(i) => PhaseOf(i) = "open"
         /\ state[i] \in SettledStates => PhaseOf(i) = "settled"
         /\ state[i] = "GONE" => PhaseOf(i) = "answered"
         /\ state[i] \in {"TIMED_OUT", "FAILED_FINAL"} => PhaseOf(i) = "failed"
BY StateNames DEF PhaseOf, Active, SettledStates

LEMMA PhaseNamesNext ==
  ASSUME NEW i \in Ids, TypeOK'
  PROVE  /\ state'[i] = "FREE" => PhaseOf(i)' = "new"
         /\ state'[i] \in ActiveStates => PhaseOf(i)' = "open"
         /\ state'[i] \in SettledStates => PhaseOf(i)' = "settled"
         /\ state'[i] = "GONE" => PhaseOf(i)' = "answered"
         /\ state'[i] \in {"TIMED_OUT", "FAILED_FINAL"} => PhaseOf(i)' = "failed"
BY StateNames DEF PhaseOf, Active, SettledStates

PInv == QInv /\ BatchInv /\ NoLostWakeup /\ AnswerInv

\* A promise with two fields replaced.
LEMMA AnsweredFields ==
  ASSUME NEW i, NEW v
  PROVE  [PromiseOf(i) EXCEPT !.phase = "answered", !.answer = v] =
           [phase |-> "answered", handed |-> delivered[i], completion |-> result[i],
            answer |-> v]
<1> DEFINE p == [PromiseOf(i) EXCEPT !.phase = "answered", !.answer = v]
<1>1. p \in [phase : {"answered"}, handed : {delivered[i]}, completion : {result[i]},
             answer : {v}]
  BY DEF PromiseOf
<1> HIDE DEF p
<1>2. p = [phase |-> "answered", handed |-> delivered[i], completion |-> result[i],
           answer |-> v]
  BY <1>1
<1> QED
  BY <1>2 DEF p

LEMMA SettledFields ==
  ASSUME NEW i, NEW v
  PROVE  [PromiseOf(i) EXCEPT !.phase = "settled", !.completion = v] =
           [phase |-> "settled", handed |-> delivered[i], completion |-> v,
            answer |-> AnswerOf(i)]
<1> DEFINE p == [PromiseOf(i) EXCEPT !.phase = "settled", !.completion = v]
<1>1. p \in [phase : {"settled"}, handed : {delivered[i]}, completion : {v},
             answer : {AnswerOf(i)}]
  BY DEF PromiseOf
<1> HIDE DEF p
<1>2. p = [phase |-> "settled", handed |-> delivered[i], completion |-> v,
           answer |-> AnswerOf(i)]
  BY <1>1
<1> QED
  BY <1>2 DEF p

PromiseStep(i) ==
  Promised!Step(PromiseOf(i), PromiseOf(i)') \/ PromiseOf(i)' = PromiseOf(i)

\* A request that its client forgets is answered, or abandoned.
LEMMA ForgottenPromise ==
  ASSUME PInv, PInv', NEW i \in Ids, OutcomeStep(i),
         client[i] \in {"select", "giveup"}, client'[i] = "returned"
  PROVE  PromiseStep(i)
<1>t. TypeOK /\ TypeOK'
  BY DEF PInv, QInv, IInv
<1>1. /\ state[i] \notin {"FREE", "GONE"} /\ outcome[i] = "none" /\ AnswerOf(i) = NoPayload
  BY DEF PInv, AnswerInv, QInv, StartInv, ClientStarted, AnswerOf, SettledStates
<1>2. /\ state'[i] = "GONE" /\ delivered'[i] = delivered[i] /\ result'[i] = result[i]
      /\ \/ outcome'[i] \in {"DISCONNECTED", "TIMED_OUT"}
         \/ state[i] \in TerminalStates /\ outcome'[i] = state[i]
  BY DEF OutcomeStep
<1>3. PhaseOf(i)' = "answered"
  BY <1>t, <1>2, PhaseNamesNext
<1>4. PhaseOf(i) \in {"open", "settled", "failed"}
  BY <1>t, <1>1, PhaseNames, StateNames DEF Active, TypeOK, States, SettledStates
<1>5. CASE outcome'[i] \in SettledStates
  <2>1. state[i] \in SettledStates /\ AnswerOf(i)' = result[i]
    BY <1>2, <1>5 DEF AnswerOf, SettledStates
  <2>2. PhaseOf(i) = "settled"
    BY <1>t, <2>1, PhaseNames
  <2>3. PromiseOf(i)' = [PromiseOf(i) EXCEPT !.phase = "answered", !.answer = result[i]]
    <3>1. PromiseOf(i)' = [phase |-> "answered", handed |-> delivered[i],
                           completion |-> result[i], answer |-> result[i]]
      BY <1>2, <1>3, <2>1 DEF PromiseOf
    <3>2. \A v : [PromiseOf(i) EXCEPT !.phase = "answered", !.answer = v] =
                   [phase |-> "answered", handed |-> delivered[i], completion |-> result[i],
                    answer |-> v]
      BY AnsweredFields
    <3> QED
      BY <3>1, <3>2, Zenon
  <2>4. PromiseOf(i).phase = "settled" /\ PromiseOf(i).completion = result[i]
    BY <2>2 DEF PromiseOf
  <2>5. Promised!Answer(PromiseOf(i), PromiseOf(i)')
    BY <2>3, <2>4 DEF Promised!Answer
  <2> QED
    BY <2>5 DEF PromiseStep, Promised!Step
<1>6. CASE outcome'[i] \notin SettledStates
  <2>1. AnswerOf(i)' = AnswerOf(i)
    BY <1>1, <1>6 DEF AnswerOf
  <2>2. Promised!Abandon(PromiseOf(i), PromiseOf(i)')
    BY <1>2, <1>3, <1>4, <2>1 DEF Promised!Abandon, PromiseOf
  <2> QED
    BY <2>2 DEF PromiseStep, Promised!Step
<1> QED
  BY <1>5, <1>6

\* A request that its client still waits for goes on being open, settles or fails.
LEMMA KeptPromise ==
  ASSUME PInv, PInv', [Next]_vars, NEW i \in Ids,
         outcome'[i] = outcome[i], state'[i] = "GONE" <=> state[i] = "GONE"
  PROVE  PromiseStep(i)
<1> USE DEF PromiseStep
<1>t. TypeOK /\ TypeOK' /\ QInv
  BY DEF PInv, QInv, IInv
<1>1. /\ RequestStep(i) /\ HandStep(i) /\ SettleStep(i)
      /\ state[i] \in TerminalStates => state'[i] \in {state[i], "GONE"}
  BY <1>t, RequestSteps, HandSteps, SettleSteps, EndsOnceStep DEF QInv, IInv, ResultInv
<1>2. state[i] # "GONE" => /\ outcome[i] = "none" /\ outcome'[i] = "none"
                           /\ AnswerOf(i) = NoPayload /\ AnswerOf(i)' = NoPayload
  BY DEF PInv, AnswerInv, AnswerOf, SettledStates
<1>3. CASE UNCHANGED <<PhaseOf(i), AnswerOf(i)>> /\ delivered'[i] = delivered[i]
             /\ result'[i] = result[i]
  BY <1>3 DEF PromiseOf
<1>4. CASE state[i] = "GONE" \/ state[i] \in TerminalStates
  <2>1. state'[i] = state[i] /\ ~Active(i)
    BY <1>1, <1>4, StatesDisjoint DEF Active
  <2>2. result'[i] = result[i] /\ delivered'[i] = delivered[i]
    BY <1>1, <2>1 DEF RequestStep, ResultStep, HandStep
  <2>3. PhaseOf(i)' = PhaseOf(i)
    BY <1>4, <1>t, <2>1, PhaseNames, PhaseNamesNext, StateNames DEF SettledStates
  <2>4. AnswerOf(i)' = AnswerOf(i)
    BY <2>2 DEF AnswerOf
  <2> QED
    BY <1>3, <2>2, <2>3, <2>4
<1>5. CASE state[i] = "FREE"
  <2>1. ~Active(i) /\ state'[i] \in {"FREE", "QUEUED"}
    BY <1>1, <1>5, StateNames DEF Active, RequestStep, StateStep
  <2>2. delivered[i] = FALSE /\ delivered'[i] = FALSE
    BY <1>t, <1>1, <1>5, <2>1 DEF HandStep, QInv, StartInv, DeliveredInflight, TypeOK
  <2>3. result[i] = NoPayload /\ result'[i] = NoPayload
    BY <1>t, <1>1, <1>5, <2>1, StateNames
    DEF RequestStep, ResultStep, QInv, IInv, ResultInv, ResultSettled, SettledStates
  <2>4. PhaseOf(i) = "new" /\ AnswerOf(i) = NoPayload /\ AnswerOf(i)' = NoPayload
    BY <1>t, <1>2, <1>5, PhaseNames
  <2>5. CASE state'[i] = "FREE"
    <3>1. PhaseOf(i)' = "new"
      BY <1>t, <2>5, PhaseNamesNext
    <3> QED
      BY <1>3, <2>2, <2>3, <2>4, <3>1
  <2>6. CASE state'[i] = "QUEUED"
    <3>1. PhaseOf(i)' = "open"
      BY <1>t, <2>6, PhaseNamesNext, StateNames
    <3>2. Promised!Submit(PromiseOf(i), PromiseOf(i)')
      <4>1. PromiseOf(i) = Promised!New
        BY <2>2, <2>3, <2>4 DEF Promised!New, PromiseOf
      <4>2. delivered'[i] = delivered[i]
        BY <2>2
      <4>3. PromiseOf(i)' = [PromiseOf(i) EXCEPT !.phase = "open"]
        BY <2>3, <2>4, <3>1, <4>2 DEF PromiseOf
      <4> QED
        BY <4>1, <4>3 DEF Promised!Submit
    <3> QED
      BY <3>2 DEF Promised!Step
  <2> QED
    BY <2>1, <2>5, <2>6
<1>6. CASE Active(i)
  <2>1. PhaseOf(i) = "open" /\ state[i] # "GONE" /\ state'[i] # "GONE"
    BY <1>t, <1>6, PhaseNames, StateNames DEF Active
  <2>2. AnswerOf(i)' = AnswerOf(i)
    BY <1>2, <2>1
  <2>3. CASE state'[i] \in ActiveStates
    <3>1. PhaseOf(i)' = "open" /\ result'[i] = result[i]
      BY <1>t, <1>1, <2>3, PhaseNamesNext, StatesDisjoint DEF RequestStep, ResultStep
    <3>2. CASE delivered'[i] = delivered[i]
      BY <1>3, <2>1, <2>2, <3>1, <3>2
    <3>3. CASE delivered'[i] = TRUE
      <4>1. Promised!Hand(PromiseOf(i), PromiseOf(i)')
        <5>1. PromiseOf(i)' = [PromiseOf(i) EXCEPT !.handed = delivered'[i]]
          BY <2>1, <2>2, <3>1 DEF PromiseOf
        <5>2. PromiseOf(i)' = [PromiseOf(i) EXCEPT !.handed = TRUE]
          BY <3>3, <5>1, Zenon
        <5>3. PromiseOf(i).phase = "open"
          BY <2>1 DEF PromiseOf
        <5> QED
          BY <5>2, <5>3, Zenon DEF Promised!Hand
      <4> QED
        BY <4>1 DEF Promised!Step
    <3> QED
      BY <1>1, <3>2, <3>3 DEF HandStep
  <2>4. CASE state'[i] \in SettledStates
    <3>1. PhaseOf(i)' = "settled" /\ result'[i] \in Payloads /\ delivered[i] = TRUE
      BY <1>t, <1>1, <1>6, <2>4, PhaseNamesNext DEF SettleStep
    <3>2. delivered'[i] = delivered[i]
      BY <1>1, <2>4, StatesDisjoint DEF HandStep
    <3>3. Promised!Settle(PromiseOf(i), PromiseOf(i)')
      <4>1. PromiseOf(i)' = [PromiseOf(i) EXCEPT !.phase = "settled", !.completion = result'[i]]
        <5>1. PromiseOf(i)' = [phase |-> "settled", handed |-> delivered[i],
                               completion |-> result'[i], answer |-> AnswerOf(i)]
          BY <2>2, <3>1, <3>2 DEF PromiseOf
        <5> QED
          BY <5>1, SettledFields
      <4>2. PromiseOf(i).phase = "open" /\ PromiseOf(i).handed = delivered[i]
        BY <2>1 DEF PromiseOf
      <4>3. PromiseOf(i).handed
        BY <3>1, <4>2, Zenon
      <4> QED
        BY <3>1, <4>1, <4>2, <4>3, Zenon DEF Promised!Settle
    <3> QED
      BY <3>3 DEF Promised!Step
  <2>5. CASE state'[i] \in {"TIMED_OUT", "FAILED_FINAL"}
    <3>1. PhaseOf(i)' = "failed" /\ delivered'[i] = delivered[i] /\ result'[i] = result[i]
      BY <1>t, <1>1, <2>5, PhaseNamesNext, StateNames
      DEF HandStep, RequestStep, ResultStep, SettledStates
    <3>2. Promised!Fail(PromiseOf(i), PromiseOf(i)')
      BY <2>1, <2>2, <3>1 DEF Promised!Fail, PromiseOf
    <3> QED
      BY <3>2 DEF Promised!Step
  <2> QED
    BY <1>1, <1>6, <2>1, <2>3, <2>4, <2>5, StateNames
    DEF RequestStep, StateStep, Active, SettledStates
<1> QED
  BY <1>t, <1>4, <1>5, <1>6 DEF TypeOK, States, Active

LEMMA PromiseSteps ==
  ASSUME PInv, PInv', [Next]_vars, NEW i \in Ids
  PROVE  PromiseStep(i)
<1>1. OutcomeStep(i)
  BY OutcomeSteps DEF PInv
<1> QED
  BY <1>1, ForgottenPromise, KeptPromise DEF OutcomeStep

LEMMA PromiseTypeNext ==
  ASSUME TypeOK', NEW i \in Ids
  PROVE  PromiseOf(i)' \in Promised!Promises
<1>1. PhaseOf(i)' \in Promised!Phases
  BY PhaseNamesNext, StateNames DEF TypeOK, States, SettledStates, Promised!Phases
<1>2. AnswerOf(i)' \in Payloads \cup {NoPayload}
  BY DEF TypeOK, AnswerOf
<1> QED
  BY <1>1, <1>2 DEF TypeOK, PromiseOf, Promised!Promises

----------------------------------------------------------------------------
(* The theorems.                                                           *)

LEMMA PInvInit == Init => PInv
<1> SUFFICES ASSUME Init PROVE PInv
  OBVIOUS
<1>1. BatchInv /\ NoLostWakeup /\ AnswerInv
  BY DEF Init, Idle, BatchInv, NoLostWakeup, AnswerInv
<1> QED
  BY <1>1, QInvInit DEF PInv

LEMMA PInvNext == PInv /\ [Next]_vars => PInv'
BY QInvNext, BatchNext, WakeupNext, AnswerNext DEF PInv

\* The invariant holds of every reachable state.
THEOREM PromiseInductive == Spec => []PInv
BY PInvInit, PInvNext, PTL DEF Spec

\* An Exchange that sleeps on the notify channel and was not signalled misses
\* nothing: nextBatchLocked left no request behind, and every operation that
\* makes one wait, or changes the bridge, signals.
THEOREM NoLostWakeupHolds == Spec => []NoLostWakeup
<1>1. PInv => NoLostWakeup
  BY DEF PInv
<1> QED
  BY <1>1, PromiseInductive, PTL

LEMMA PromiseInit == Init => Promised!Init
<1> SUFFICES ASSUME Init, NEW i \in Ids
             PROVE  PromiseOf(i) = Promised!New
  BY DEF Promised!Init
<1>1. PhaseOf(i) = "new"
  BY TypeInit, PhaseNames DEF Init
<1>2. AnswerOf(i) = NoPayload
  BY DEF Init, AnswerOf, SettledStates
<1>3. delivered[i] = FALSE /\ result[i] = NoPayload
  BY DEF Init
<1> QED
  BY <1>1, <1>2, <1>3 DEF Promised!New, PromiseOf

LEMMA PromiseNext ==
  PInv /\ PInv' /\ [Next]_vars => [Promised!Next]_([i \in Ids |-> PromiseOf(i)])
<1> SUFFICES ASSUME PInv, PInv', [Next]_vars
             PROVE  Promised!Next
  OBVIOUS
<1>1. TypeOK'
  BY DEF PInv, QInv, IInv
<1>2. \A i \in Ids : PromiseOf(i)' \in Promised!Promises
  BY <1>1, PromiseTypeNext
<1> QED
  BY <1>2, PromiseSteps DEF Promised!Next, PromiseStep

\* The broker implements AgentRequest: whatever the bridges, leases, batches and
\* timers do, each request is answered once, with the one completion that an
\* agent which was handed it got acknowledged, or with none.
THEOREM KeepsPromiseHolds == Spec => KeepsPromise
<1>1. PInv /\ [Next]_vars => PInv'
  BY PInvNext
<1> QED
  BY <1>1, PromiseInit, PromiseNext, PromiseInductive, PTL
  DEF Spec, KeepsPromise, Promised!Spec

=============================================================================
