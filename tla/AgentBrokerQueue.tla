-------------------------- MODULE AgentBrokerQueue --------------------------
(***************************************************************************)
(* Theorems of AgentBroker about the queue and the limit in flight: the     *)
(* order of the first deliveries, and what may be in flight, over any       *)
(* number of requests, bridges and exchanges.                               *)
(***************************************************************************)
EXTENDS AgentBrokerSafety, FiniteSetTheorems

----------------------------------------------------------------------------
(* The inductive invariant.                                                *)

\* Requests are enqueued in the order of their numbers.
FreeUpward == \A i, j \in Ids : i < j /\ state[i] = "FREE" => state[j] = "FREE"

\* A client waits only for a request that was enqueued.
ClientStarted == \A i \in Ids : client[i] # "none" => state[i] # "FREE"

\* A request is in flight only once an agent was handed it.
DeliveredInflight ==
  \A i \in Ids : /\ state[i] \in {"FREE", "QUEUED"} => ~delivered[i]
                 /\ state[i] \in InflightStates => delivered[i]

\* Agents name only requests they were handed.
InboxesKnown ==
  \A e \in Exchanges : \A k \in DOMAIN call[e].inbox : call[e].inbox[k].id \in Known \cup {0}

StartInv == FreeUpward /\ ClientStarted /\ DeliveredInflight
QueueInv == QueueFIFO /\ NoOvertaking /\ InflightBounded
QInv == IInv /\ StartInv /\ InboxesKnown /\ QueueInv

LEMMA StateNames ==
  /\ ActiveStates = {"QUEUED", "RUNNING", "FAILED_RETRYABLE"}
  /\ InflightStates = {"RUNNING", "FAILED_RETRYABLE"}
  /\ TerminalStates = {"WAITING_TOOL", "COMPLETED", "TIMED_OUT", "FAILED_FINAL"}
BY DEF ActiveStates, InflightStates, TerminalStates, SettledStates

LEMMA InflightFinite == IsFiniteSet(Inflight) /\ Cardinality(Inflight) \in Nat
<1>1. IsFiniteSet(Ids)
  <2>1. 1 \in Int /\ MaxRequests \in Int
    BY BoundsAssumption
  <2> QED
    BY <2>1, FS_Interval DEF Ids
<1> QED
  BY <1>1, FS_Subset, FS_CardinalityType DEF Inflight

----------------------------------------------------------------------------
(* Responses.                                                              *)

LEMMA RespondTarget ==
  ASSUME TypeOK, DeliveredInflight, InboxesKnown, NEW e \in Exchanges, Respond(e)
  PROVE  LET i == Head(call[e].inbox).id
         IN  Answerable(e, i) => i \in Ids /\ delivered[i] /\ state[i] \in InflightStates
<1> DEFINE i == Head(call[e].inbox).id
<1>1. call[e].inbox \in Seq(Responses) /\ call[e].inbox # <<>>
  <2>1. call[e].inbox \in Inboxes
    BY DEF TypeOK, Calls
  <2> QED
    BY <2>1, BoundsAssumption DEF Respond, Inboxes
<1>2. 1 \in DOMAIN call[e].inbox /\ Head(call[e].inbox) = call[e].inbox[1]
  BY <1>1
<1>3. i \in Known \cup {0}
  BY <1>2 DEF InboxesKnown
<1> HIDE DEF i
<1>4. Answerable(e, i) => i \in Ids /\ delivered[i] /\ state[i] \in InflightStates
  BY <1>3, StateNames DEF Answerable, Known, Active, DeliveredInflight
<1> QED
  BY <1>4 DEF i

----------------------------------------------------------------------------
(* Steps that leave the queue and the first deliveries alone: requests end  *)
(* or stay in flight, clients go on.                                        *)

Calm ==
  /\ UNCHANGED <<queue, delivered>>
  /\ \A i \in Ids :
       /\ \/ state'[i] = state[i]
          \/ Active(i) /\ state'[i] \in TerminalStates
          \/ state[i] \in InflightStates /\ state'[i] \in InflightStates
       /\ client'[i] = client[i] \/ client[i] # "none"

\* The first delivery of the head of the queue.
Claims(h) ==
  /\ queue # <<>> /\ h = Head(queue) /\ queue' = Tail(queue)
  /\ state[h] = "QUEUED" /\ state' = [state EXCEPT ![h] = "RUNNING"]
  /\ delivered' = [delivered EXCEPT ![h] = TRUE]
  /\ client' = client
  /\ Cardinality(Inflight) < MaxInflight

\* The head of the queue is dropped because it does not wait any more.
Skips ==
  /\ queue # <<>> /\ state[Head(queue)] # "QUEUED" /\ queue' = Tail(queue)
  /\ UNCHANGED <<state, delivered, client>>

LEMMA SweepCalm ==
  ASSUME TypeOK, state' = SweptState, UNCHANGED <<queue, delivered, client>>
  PROVE  Calm
BY SweptStep, StateNames DEF Calm

LEMMA StepKinds ==
  ASSUME QInv, [Next]_vars
  PROVE  \/ Calm \/ Skips \/ \E h \in Ids : Claims(h)
         \/ \E i \in Ids : Enqueue(i)
         \/ \E i \in Ids, how \in {"DISCONNECTED"} \cup TerminalStates :
              Forget(i, how) /\ client[i] # "none"
<1>t. TypeOK /\ BridgeInv
  BY DEF QInv, IInv
<1>1. CASE OpenResume \/ OpenNew \/ Close
  BY <1>1, <1>t, SweepCalm DEF OpenResume, OpenNew, Close, clientVars
<1>2. CASE Shutdown
  BY <1>2, <1>t, StateNames DEF Shutdown, Failed, Calm, TypeOK, clientVars
<1>3. CASE EnqueueRefused \/ Snapshot
  BY <1>3, <1>t, SweepCalm DEF EnqueueRefused, Snapshot, Sweep, clientVars
<1>4. CASE Heartbeat
  <2>1. CASE RenewDue
    BY <1>4, <2>1 DEF Heartbeat, Calm, clientVars
  <2>2. CASE ~RenewDue
    BY <1>4, <2>2, <1>t, SweepCalm DEF Heartbeat, Sweep, clientVars
  <2> QED
    BY <2>1, <2>2
<1>5. CASE Tick
  BY <1>5 DEF Tick, Calm
<1>6. ASSUME NEW e \in Exchanges, ExchangeBegin(e) \/ ExchangeTurn(e) \/ ExchangeTimeout(e)
      PROVE  Calm
  BY <1>6, <1>t, SweepCalm DEF ExchangeBegin, ExchangeTurn, ExchangeTimeout, clientVars
<1>7. ASSUME NEW e \in Exchanges, Respond(e)
      PROVE  Calm
  <2> DEFINE i == Head(call[e].inbox).id
  <2>1. Answerable(e, i) => i \in Ids /\ state[i] \in InflightStates
    BY <1>7, <1>t, RespondTarget DEF QInv, StartInv
  <2>2. UNCHANGED <<queue, delivered, client>>
    BY <1>7 DEF Respond, Refuse, Retry, Accept, requestVars, clientVars
  <2>3. \/ state' = state
        \/ Answerable(e, i) /\ state' = [state EXCEPT ![i] = "FAILED_RETRYABLE"]
        \/ Answerable(e, i) /\ state' = [state EXCEPT ![i] = "WAITING_TOOL"]
        \/ Answerable(e, i) /\ state' = [state EXCEPT ![i] = "COMPLETED"]
    BY <1>7 DEF Respond, Refuse, Retry, Accept, requestVars
  <2> HIDE DEF i
  <2> QED
    BY <1>t, <2>1, <2>2, <2>3, StateNames DEF Calm, Active, TypeOK
<1>8. ASSUME NEW e \in Exchanges, Redeliver(e)
      PROVE  Calm
  <2>1. PICK i \in Ids : state[i] \in InflightStates /\ Deliver(e, i)
    BY <1>8 DEF Redeliver, Undelivered, OnBridge, Inflight
  <2>2. delivered[i]
    BY <2>1 DEF QInv, StartInv, DeliveredInflight
  <2>3. delivered' = delivered
    BY <1>t, <2>1, <2>2 DEF Deliver, TypeOK
  <2> QED
    BY <1>8, <1>t, <2>1, <2>3, StateNames DEF Redeliver, Deliver, Calm, TypeOK, clientVars
<1>9. ASSUME NEW e \in Exchanges,
             Progress(e) \/ RedeliverDone(e) \/ BatchDone(e) \/ ExchangeWake(e)
               \/ ExchangeCancel(e)
      PROVE  Calm
  BY <1>9 DEF Progress, RedeliverDone, BatchDone, ExchangeWake, ExchangeCancel, Calm,
              requestVars, clientVars
<1>10. ASSUME NEW e \in Exchanges, ClaimSkip(e) \/ ClaimHead(e), call[e].pc = "claim"
       PROVE  Skips \/ \E h \in Ids : Claims(h)
  <2>1. queue # <<>> /\ Head(queue) \in Ids
    BY <1>10, <1>t, HeadTailProperties DEF ClaimSkip, ClaimHead, MayClaim, TypeOK
  <2>2. call[e].bridge = bridge /\ bridge # 0
    BY <1>10, <1>t DEF BridgeInv, HolderIsCurrent, LockedPcs
  <2>3. \A i \in Ids : Active(i) => bound[i] = call[e].bridge
    BY <1>t, <2>2 DEF BridgeInv, BridgeBinding
  <2>4. CASE ClaimSkip(e)
    <3>1. state[Head(queue)] # "QUEUED"
      BY <2>1, <2>3, <2>4, StateNames DEF ClaimSkip, Claimable, Active
    <3> QED
      BY <2>1, <2>4, <3>1 DEF ClaimSkip, Skips, clientVars
  <2>5. CASE ClaimHead(e)
    <3>1. Inflight = OnBridge(e)
      BY <2>3, StateNames DEF Inflight, OnBridge, Active
    <3>2. Cardinality(Inflight) < MaxInflight
      BY <2>5, <3>1 DEF ClaimHead, MayClaim
    <3>3. Claims(Head(queue))
      BY <2>1, <2>5, <3>2 DEF ClaimHead, Claimable, Deliver, Claims, clientVars
    <3> QED
      BY <2>1, <3>3
  <2> QED
    BY <1>10, <2>4, <2>5
<1>11. ASSUME NEW i \in Ids, ReadDeadline(i) \/ TimerFires(i)
       PROVE  Calm
  BY <1>11, <1>t DEF ReadDeadline, TimerFires, Calm, requestVars, TypeOK
<1>12. ASSUME NEW i \in Ids, Collect(i) \/ Disconnect(i) \/ GiveUp(i)
       PROVE  \E how \in {"DISCONNECTED"} \cup TerminalStates :
                Forget(i, how) /\ client[i] # "none"
  BY <1>12, StateNames DEF Collect, Disconnect, GiveUp, TerminateAndForget
<1>13. CASE UNCHANGED vars
  BY <1>13 DEF vars, requestVars, clientVars, Calm
<1>14. \A e \in Exchanges : ClaimSkip(e) \/ ClaimHead(e) => call[e].pc = "claim"
  BY DEF ClaimSkip, ClaimHead
<1> QED
  BY <1>1, <1>2, <1>3, <1>4, <1>5, <1>6, <1>7, <1>8, <1>9, <1>10, <1>11, <1>12, <1>13, <1>14
  DEF Next, ExchangeSteps, ClientSteps

----------------------------------------------------------------------------
(* The invariant is kept.                                                  *)

LEMMA InflightShrinks ==
  ASSUME InflightBounded, Inflight' \subseteq Inflight
  PROVE  InflightBounded'
<1>1. Cardinality(Inflight') <= Cardinality(Inflight) /\ Cardinality(Inflight') \in Nat
  BY InflightFinite, FS_Subset, FS_CardinalityType
<1> QED
  BY <1>1, InflightFinite, ConfigAssumption DEF InflightBounded

LEMMA CalmNext ==
  ASSUME QInv, Calm
  PROVE  StartInv' /\ QueueInv'
<1>t. TypeOK /\ StartInv /\ QueueInv
  BY DEF QInv, IInv
<1>1. \A i \in Ids : /\ state'[i] = "FREE" <=> state[i] = "FREE"
                     /\ state'[i] = "QUEUED" => state[i] = "QUEUED"
                     /\ state'[i] \in InflightStates => state[i] \in InflightStates
                     /\ state[i] \in {"QUEUED"} \cup TerminalStates =>
                          state'[i] \in {"QUEUED"} \cup TerminalStates
                     /\ client'[i] = client[i] \/ client[i] # "none"
  BY StateNames DEF Calm, Active
<1>2. StartInv'
  BY <1>t, <1>1 DEF StartInv, FreeUpward, ClientStarted, DeliveredInflight, Calm
<1>3. QueueFIFO'
  <2>1. \A k \in DOMAIN queue : queue[k] \in Ids
    BY <1>t DEF TypeOK
  <2> QED
    BY <1>t, <1>1, <2>1 DEF QueueInv, QueueFIFO, Calm
<1>4. NoOvertaking'
  BY <1>t, <1>1 DEF QueueInv, NoOvertaking, Calm
<1>5. InflightBounded'
  BY <1>t, <1>1, InflightShrinks DEF QueueInv, Inflight
<1> QED
  BY <1>2, <1>3, <1>4, <1>5 DEF QueueInv

LEMMA TailOfQueue ==
  ASSUME TypeOK, QueueFIFO, queue # <<>>, queue' = Tail(queue)
  PROVE  /\ \A j, k \in DOMAIN queue' : j < k => queue'[j] < queue'[k]
         /\ \A k \in DOMAIN queue' : \E m \in DOMAIN queue : queue'[k] = queue[m] /\ m # 1
         /\ \A m \in DOMAIN queue : m # 1 => \E k \in DOMAIN queue' : queue'[k] = queue[m]
         /\ \A m \in DOMAIN queue : m # 1 => Head(queue) < queue[m]
         /\ 1 \in DOMAIN queue /\ Head(queue) = queue[1] /\ Head(queue) \in Ids
<1> DEFINE n == Len(queue)
<1>1. /\ queue \in Seq(Ids) /\ n \in Nat /\ DOMAIN queue = 1 .. n /\ n # 0
      /\ Head(queue) = queue[1] /\ Head(queue) \in Ids
  BY HeadTailProperties, EmptySeq DEF TypeOK
<1>2. /\ queue' \in Seq(Ids) /\ DOMAIN queue' = 1 .. n - 1
      /\ \A k \in 1 .. n - 1 : queue'[k] = queue[k + 1]
  BY <1>1, HeadTailProperties, LenProperties
<1>3. \A k \in 1 .. n - 1 : k + 1 \in 1 .. n /\ k + 1 # 1
  BY <1>1
<1>4. \A m \in 1 .. n : m # 1 => m - 1 \in 1 .. n - 1 /\ (m - 1) + 1 = m /\ 1 < m
  BY <1>1
<1> HIDE DEF n
<1>5. \A j, k \in 1 .. n - 1 : j < k => j + 1 < k + 1
  BY <1>1
<1>6. \A j, k \in DOMAIN queue' : j < k => queue'[j] < queue'[k]
  BY <1>1, <1>2, <1>3, <1>5 DEF QueueFIFO
<1>7. \A k \in DOMAIN queue' : \E m \in DOMAIN queue : queue'[k] = queue[m] /\ m # 1
  BY <1>1, <1>2, <1>3
<1>8. \A m \in DOMAIN queue : m # 1 => \E k \in DOMAIN queue' : queue'[k] = queue[m]
  <2> SUFFICES ASSUME NEW m \in DOMAIN queue, m # 1
               PROVE  queue'[m - 1] = queue[m] /\ m - 1 \in DOMAIN queue'
    OBVIOUS
  <2> QED
    BY <1>1, <1>2, <1>4
<1>9. 1 \in DOMAIN queue /\ \A m \in DOMAIN queue : m # 1 => Head(queue) < queue[m]
  BY <1>1, <1>4 DEF QueueFIFO
<1> QED
  BY <1>1, <1>6, <1>7, <1>8, <1>9

LEMMA SkipsNext ==
  ASSUME QInv, Skips
  PROVE  StartInv' /\ QueueInv'
<1>t. TypeOK /\ StartInv /\ QueueInv
  BY DEF QInv, IInv
<1>1. StartInv'
  BY <1>t DEF StartInv, FreeUpward, ClientStarted, DeliveredInflight, Skips
<1>2. QueueFIFO'
  BY <1>t, TailOfQueue DEF QueueInv, QueueFIFO, Skips
<1>3. NoOvertaking' /\ InflightBounded'
  BY <1>t DEF QueueInv, NoOvertaking, InflightBounded, Inflight, Skips
<1> QED
  BY <1>1, <1>2, <1>3 DEF QueueInv

LEMMA ClaimsNext ==
  ASSUME QInv, NEW h \in Ids, Claims(h)
  PROVE  StartInv' /\ QueueInv'
<1>t. TypeOK /\ StartInv /\ QueueInv
  BY DEF QInv, IInv
<1>1. \A i \in Ids : /\ state'[i] = IF i = h THEN "RUNNING" ELSE state[i]
                     /\ delivered'[i] = IF i = h THEN TRUE ELSE delivered[i]
  BY <1>t DEF Claims, TypeOK
<1>0. queue # <<>> /\ queue' = Tail(queue) /\ h = Head(queue) /\ state[h] = "QUEUED"
      /\ client' = client
  BY DEF Claims
<1>2. StartInv'
  <2>1. \A i \in Ids : /\ state'[i] = "FREE" <=> state[i] = "FREE"
                       /\ state'[i] = "QUEUED" => state[i] = "QUEUED" /\ i # h
                       /\ state'[i] \in InflightStates => i = h \/ state[i] \in InflightStates
    BY <1>0, <1>1, StateNames
  <2>2. FreeUpward' /\ ClientStarted'
    BY <1>t, <1>0, <2>1 DEF StartInv, FreeUpward, ClientStarted
  <2>3. DeliveredInflight'
    BY <1>t, <1>0, <1>1, <2>1 DEF StartInv, DeliveredInflight
  <2> QED
    BY <2>2, <2>3 DEF StartInv
<1>h. \A m \in DOMAIN queue : queue[m] \in Ids /\ (m # 1 => h < queue[m])
      /\ queue[1] = h
  <2>1. queue \in Seq(Ids)
    BY <1>t DEF TypeOK
  <2>2. \A m \in DOMAIN queue : queue[m] \in Ids
    BY <2>1, ElementOfSeq, LenProperties
  <2>3. QueueFIFO
    BY <1>t DEF QueueInv
  <2>4. \A m \in DOMAIN queue : m # 1 => Head(queue) < queue[m]
    BY <1>t, <1>0, <2>3, TailOfQueue
  <2>5. Head(queue) = queue[1]
    BY <1>t, <1>0, <2>3, TailOfQueue
  <2> QED
    BY <1>0, <2>2, <2>4, <2>5
<1>3. \A k \in DOMAIN queue' : \E m \in DOMAIN queue :
        queue'[k] = queue[m] /\ queue'[k] \in Ids /\ queue'[k] # h
  <2> SUFFICES ASSUME NEW k \in DOMAIN queue'
               PROVE  \E m \in DOMAIN queue :
                        queue'[k] = queue[m] /\ queue'[k] \in Ids /\ queue'[k] # h
    OBVIOUS
  <2>1. PICK m \in DOMAIN queue : queue'[k] = queue[m] /\ m # 1
    BY <1>t, <1>0, TailOfQueue DEF QueueInv
  <2>2. h < queue[m] /\ queue[m] \in Ids /\ h \in Ids
    BY <1>h, <2>1
  <2> QED
    BY <2>1, <2>2 DEF Ids
<1>4. QueueFIFO'
  <2>1. \A j, k \in DOMAIN queue' : j < k => queue'[j] < queue'[k]
    BY <1>t, <1>0, TailOfQueue DEF QueueInv
  <2>2. \A i \in Ids : state'[i] = "QUEUED" => \E k \in DOMAIN queue' : queue'[k] = i
    <3> SUFFICES ASSUME NEW i \in Ids, i # h, state[i] = "QUEUED"
                 PROVE  \E k \in DOMAIN queue' : queue'[k] = i
      BY <1>1
    <3>1. PICK m \in DOMAIN queue : queue[m] = i
      BY <1>t DEF QueueInv, QueueFIFO
    <3>2. m # 1
      BY <1>h, <3>1
    <3> QED
      BY <1>t, <1>0, <3>1, <3>2, TailOfQueue DEF QueueInv
  <2>3. \A k \in DOMAIN queue' : state'[queue'[k]] \in {"QUEUED"} \cup TerminalStates
    <3> SUFFICES ASSUME NEW k \in DOMAIN queue'
                 PROVE  state'[queue'[k]] \in {"QUEUED"} \cup TerminalStates
      OBVIOUS
    <3>1. PICK m \in DOMAIN queue :
            queue'[k] = queue[m] /\ queue'[k] \in Ids /\ queue'[k] # h
      BY <1>3
    <3>2. state[queue[m]] \in {"QUEUED"} \cup TerminalStates
      BY <1>t DEF QueueInv, QueueFIFO
    <3> QED
      BY <1>1, <3>1, <3>2
  <2> QED
    BY <2>1, <2>2, <2>3 DEF QueueFIFO
<1>5. NoOvertaking'
  <2> SUFFICES ASSUME NEW i \in Ids, NEW j \in Ids, i < j, state'[i] = "QUEUED"
               PROVE  ~delivered'[j]
    BY DEF NoOvertaking
  <2>1. i # h /\ state[i] = "QUEUED" /\ ~delivered[j]
    BY <1>t, <1>1 DEF QueueInv, NoOvertaking
  <2>2. h < i
    <3>1. PICK m \in DOMAIN queue : queue[m] = i
      BY <1>t, <2>1 DEF QueueInv, QueueFIFO
    <3> QED
      BY <1>h, <2>1, <3>1
  <2>3. j # h
    BY <2>2 DEF Ids
  <2>4. delivered'[j] = delivered[j]
    BY <1>t, <2>3 DEF Claims, TypeOK
  <2> QED
    BY <2>1, <2>4
<1>6. InflightBounded'
  <2>1. Inflight' = Inflight \cup {h}
    BY <1>1, StateNames DEF Inflight
  <2>2. Cardinality(Inflight') <= Cardinality(Inflight) + 1 /\ Cardinality(Inflight') \in Nat
    BY <2>1, InflightFinite, FS_AddElement
  <2> QED
    BY <2>2, InflightFinite, ConfigAssumption DEF Claims, InflightBounded
<1> QED
  BY <1>2, <1>4, <1>5, <1>6 DEF QueueInv

LEMMA EnqueueNext ==
  ASSUME QInv, NEW h \in Ids, Enqueue(h)
  PROVE  StartInv' /\ QueueInv'
<1>t. TypeOK /\ StartInv /\ QueueInv
  BY DEF QInv, IInv
<1>1. /\ state[h] = "FREE"
      /\ \A i \in Ids : i < h => state[i] # "FREE"
      /\ \A i \in Ids : i > h => state[i] = "FREE"
  BY <1>t DEF Enqueue, StartInv, FreeUpward, Ids
<1>2. \A i \in Ids : /\ i # h => state'[i] = SweptState[i] /\ client'[i] = client[i]
                     /\ i = h => state'[i] = "QUEUED"
                     /\ SweptState[i] = state[i]
                          \/ (state[i] \in ActiveStates /\ SweptState[i] = "TIMED_OUT")
  BY <1>t, SweptType, SweptStep DEF Enqueue, Active, TypeOK
<1>3. StartInv'
  BY <1>t, <1>1, <1>2, StateNames
  DEF StartInv, FreeUpward, ClientStarted, DeliveredInflight, Enqueue, Ids
<1>4. QueueFIFO'
  <2>1. /\ queue \in Seq(Ids) /\ queue' = Append(queue, h) /\ Len(queue) \in Nat
        /\ DOMAIN queue = 1 .. Len(queue)
        /\ DOMAIN queue' = 1 .. Len(queue) + 1 /\ queue'[Len(queue) + 1] = h
        /\ \A k \in DOMAIN queue : queue'[k] = queue[k] /\ queue[k] \in Ids
    BY <1>t, AppendProperties, LenProperties DEF Enqueue, TypeOK
  <2>2. \A k \in DOMAIN queue : queue[k] < h
    BY <1>t, <1>1, <2>1, StateNames DEF QueueInv, QueueFIFO, Ids
  <2>3. \A k \in DOMAIN queue' : k \in DOMAIN queue \/ k = Len(queue) + 1
    BY <2>1
  <2>4. \A j, k \in DOMAIN queue' : j < k => queue'[j] < queue'[k]
    BY <1>t, <2>1, <2>2, <2>3 DEF QueueInv, QueueFIFO
  <2>5. \A i \in Ids : state'[i] = "QUEUED" => \E k \in DOMAIN queue' : queue'[k] = i
    <3> SUFFICES ASSUME NEW i \in Ids, state'[i] = "QUEUED"
                 PROVE  \E k \in DOMAIN queue' : queue'[k] = i
      OBVIOUS
    <3>1. CASE i = h
      BY <2>1, <3>1
    <3>2. CASE i # h
      <4>1. PICK k \in DOMAIN queue : queue[k] = i
        BY <1>t, <1>2, <3>2 DEF QueueInv, QueueFIFO
      <4> QED
        BY <2>1, <4>1
    <3> QED
      BY <3>1, <3>2
  <2>6. \A k \in DOMAIN queue' : state'[queue'[k]] \in {"QUEUED"} \cup TerminalStates
    <3> SUFFICES ASSUME NEW k \in DOMAIN queue'
                 PROVE  state'[queue'[k]] \in {"QUEUED"} \cup TerminalStates
      OBVIOUS
    <3>1. CASE k \in DOMAIN queue
      <4>1. queue'[k] \in Ids /\ queue'[k] # h
            /\ state[queue'[k]] \in {"QUEUED"} \cup TerminalStates
        BY <1>t, <2>1, <2>2, <3>1 DEF QueueInv, QueueFIFO, Ids
      <4> QED
        BY <1>2, <4>1, StateNames
    <3>2. CASE k = Len(queue) + 1
      BY <1>2, <2>1, <3>2
    <3> QED
      BY <2>3, <3>1, <3>2
  <2> QED
    BY <2>4, <2>5, <2>6 DEF QueueFIFO
<1>5. NoOvertaking'
  <2> SUFFICES ASSUME NEW i \in Ids, NEW j \in Ids, i < j, state'[i] = "QUEUED"
               PROVE  ~delivered[j]
    BY DEF NoOvertaking, Enqueue
  <2>1. CASE i = h
    BY <1>t, <1>1, <2>1 DEF StartInv, DeliveredInflight, Ids
  <2>2. CASE i # h
    BY <1>t, <1>2, <2>2 DEF QueueInv, NoOvertaking
  <2> QED
    BY <2>1, <2>2
<1>6. InflightBounded'
  <2>1. Inflight' \subseteq Inflight
    BY <1>2, StateNames DEF Inflight
  <2> QED
    BY <1>t, <2>1, InflightShrinks DEF QueueInv
<1> QED
  BY <1>3, <1>4, <1>5, <1>6 DEF QueueInv

LEMMA CompactedContent ==
  ASSUME TypeOK, QueueFIFO, NEW i \in Ids
  PROVE  LET q == Compacted(i)
         IN  /\ \A j, k \in DOMAIN q : j < k => q[j] < q[k]
             /\ \A k \in DOMAIN q : \E m \in DOMAIN queue : q[k] = queue[m] /\ q[k] # i
             /\ \A m \in DOMAIN queue : queue[m] # i => \E k \in DOMAIN q : q[k] = queue[m]
<1> DEFINE n == Len(queue)
<1>0. queue \in Seq(Ids) /\ n \in Nat /\ DOMAIN queue = 1 .. n
      /\ \A k \in 1 .. n : queue[k] \in Ids
  BY LenProperties DEF TypeOK
<1>1. CASE \E k \in DOMAIN queue : queue[k] = i
  <2> DEFINE at == CHOOSE k \in DOMAIN queue : queue[k] = i
             q == [k \in 1 .. n - 1 |-> IF k < at THEN queue[k] ELSE queue[k + 1]]
  <2>1. at \in 1 .. n /\ queue[at] = i /\ Compacted(i) = q
    BY <1>0, <1>1 DEF Compacted
  <2> HIDE DEF at, n
  <2>2. /\ DOMAIN q = 1 .. n - 1
        /\ \A k \in 1 .. n - 1 : q[k] = IF k < at THEN queue[k] ELSE queue[k + 1]
    OBVIOUS
  <2> HIDE DEF q
  <2>3. \A j, k \in 1 .. n : j < k => queue[j] < queue[k]
    BY <1>0 DEF QueueFIFO
  <2>4. \A j, k \in DOMAIN q : j < k => q[j] < q[k]
    BY <1>0, <2>1, <2>2, <2>3
  <2>5. \A k \in DOMAIN q : \E m \in DOMAIN queue : q[k] = queue[m] /\ q[k] # i
    <3> SUFFICES ASSUME NEW k \in 1 .. n - 1
                 PROVE  \E m \in 1 .. n : q[k] = queue[m] /\ q[k] # i
      BY <1>0, <2>2
    <3> DEFINE m == IF k < at THEN k ELSE k + 1
    <3>1. m \in 1 .. n /\ q[k] = queue[m] /\ (m < at \/ at < m)
      BY <1>0, <2>1, <2>2
    <3> HIDE DEF m
    <3>2. queue[m] # i
      BY <1>0, <2>1, <2>3, <3>1 DEF Ids
    <3> QED
      BY <3>1, <3>2
  <2>6. \A m \in DOMAIN queue : queue[m] # i => \E k \in DOMAIN q : q[k] = queue[m]
    <3> SUFFICES ASSUME NEW m \in 1 .. n, m # at
                 PROVE  \E k \in 1 .. n - 1 : q[k] = queue[m]
      BY <1>0, <2>1, <2>2
    <3> DEFINE k == IF m < at THEN m ELSE m - 1
    <3>1. k \in 1 .. n - 1 /\ q[k] = queue[m]
      BY <1>0, <2>1, <2>2
    <3> QED
      BY <3>1
  <2> QED
    BY <2>1, <2>4, <2>5, <2>6
<1>2. CASE ~\E k \in DOMAIN queue : queue[k] = i
  BY <1>2 DEF Compacted, QueueFIFO
<1> QED
  BY <1>1, <1>2

LEMMA ForgetNext ==
  ASSUME QInv, NEW i \in Ids, NEW how, Forget(i, how), client[i] # "none"
  PROVE  StartInv' /\ QueueInv'
<1>t. TypeOK /\ StartInv /\ QueueInv
  BY DEF QInv, IInv
<1>1. /\ state[i] # "FREE"
      /\ \A j \in Ids : /\ state'[j] = IF j = i THEN "GONE" ELSE state[j]
                        /\ client'[j] = IF j = i THEN "returned" ELSE client[j]
      /\ delivered' = delivered /\ queue' = Compacted(i)
  BY <1>t DEF Forget, StartInv, ClientStarted, TypeOK
<1>2. StartInv'
  BY <1>t, <1>1, StateNames DEF StartInv, FreeUpward, ClientStarted, DeliveredInflight
<1>3. QueueFIFO'
  <2>1. \A m \in DOMAIN queue : queue[m] \in Ids
    BY <1>t DEF TypeOK
  <2> QED
    BY <1>t, <1>1, <2>1, CompactedContent DEF QueueInv, QueueFIFO
<1>4. NoOvertaking'
  BY <1>t, <1>1 DEF QueueInv, NoOvertaking
<1>5. InflightBounded'
  <2>1. Inflight' \subseteq Inflight
    BY <1>1, StateNames DEF Inflight
  <2> QED
    BY <1>t, <2>1, InflightShrinks DEF QueueInv
<1> QED
  BY <1>2, <1>3, <1>4, <1>5 DEF QueueInv

\* An exchange takes its responses from the agent once and works them off.
InboxStep(f) ==
  \/ call'[f].inbox \in {call[f].inbox, <<>>}
  \/ call[f].inbox # <<>> /\ call'[f].inbox = Tail(call[f].inbox)
  \/ \A k \in DOMAIN call'[f].inbox : call'[f].inbox[k].id \in Known \cup {0}

LEMMA InboxSteps ==
  ASSUME TypeOK, [Next]_vars, NEW f \in Exchanges
  PROVE  InboxStep(f)
<1> USE DEF InboxStep
<1>t. call \in [Exchanges -> Calls] /\ SweptCall \in [Exchanges -> Calls]
  BY SweptType DEF TypeOK
<1>s. call' \in {call, SweptCall, Signalled(call)} => InboxStep(f)
  BY <1>t, SweptFields, SignalledFields
<1>i. Idle.inbox = <<>>
  BY DEF Idle
<1>1. CASE OpenResume \/ OpenNew \/ Close \/ Shutdown
  BY <1>1, <1>s DEF OpenResume, OpenNew, Close, Shutdown
<1>2. CASE EnqueueRefused \/ Snapshot \/ Heartbeat
  BY <1>2, <1>s DEF EnqueueRefused, Snapshot, Heartbeat, Sweep
<1>3. CASE Tick
  <2>1. call'[f] = [call[f] EXCEPT !.timer = Less(@)] /\ call[f] \in Calls
    BY <1>3, <1>t DEF Tick
  <2>2. call'[f].inbox = call[f].inbox
    BY <2>1 DEF Calls
  <2> QED
    BY <2>2
<1>4. ASSUME NEW e \in Exchanges, ExchangeBegin(e)
      PROVE  InboxStep(f)
  <2>1. PICK inbox \in Inboxes, progress \in SUBSET Known, room \in 1 .. MaxInflight :
          /\ \A k \in DOMAIN inbox : inbox[k].id \in Known \cup {0}
          /\ call' = [SweptCall EXCEPT ![e] =
               [Idle EXCEPT !.pc = "enter", !.bridge = SweptBridge, !.timer = WaitTimeout,
                            !.room = room, !.inbox = inbox, !.progress = progress]]
    BY <1>4 DEF ExchangeBegin
  <2>2. CASE f = e
    <3>1. call'[f].inbox = inbox
      BY <1>t, <2>1, <2>2 DEF Idle
    <3> QED
      BY <2>1, <3>1
  <2>3. CASE f # e
    BY <1>t, <2>1, <2>3, SweptFields
  <2> QED
    BY <2>2, <2>3
<1>5. ASSUME NEW e \in Exchanges, ExchangeTurn(e) \/ ExchangeTimeout(e)
      PROVE  InboxStep(f)
  <2>1. \/ call' = [SweptCall EXCEPT ![e] = Idle]
        \/ \E p \in Pcs : call' = [SweptCall EXCEPT ![e].pc = p]
    BY <1>5 DEF ExchangeTurn, ExchangeTimeout, TimedOut, Pcs, LockedPcs
  <2>2. CASE call' = [SweptCall EXCEPT ![e] = Idle]
    <3>1. call'[f].inbox = Idle.inbox \/ call'[f].inbox = SweptCall[f].inbox
      BY <1>t, <2>2
    <3> QED
      BY <1>i, <3>1, SweptFields
  <2>3. ASSUME NEW p \in Pcs, call' = [SweptCall EXCEPT ![e].pc = p]
        PROVE  InboxStep(f)
    <3>1. call'[f].inbox = SweptCall[f].inbox
      BY <1>t, <2>3 DEF Calls
    <3> QED
      BY <3>1, SweptFields
  <2> QED
    BY <2>1, <2>2, <2>3
<1>6. ASSUME NEW e \in Exchanges, Respond(e)
      PROVE  InboxStep(f)
  <2>1. PICK v \in Verdicts, more \in BOOLEAN :
          call' = Judged(e, v, more) \/ call' = Signalled(Judged(e, v, more))
    <3>1. \A p : Tool(p) \in BOOLEAN
      BY DEF Tool
    <3> QED
      BY <1>6, <3>1 DEF Respond, Refuse, Retry, Accept, Verdicts
  <2>2. Judged(e, v, more) \in [Exchanges -> Calls] /\ call[e].inbox # <<>>
    BY <1>6, JudgedType DEF Respond
  <2>3. Judged(e, v, more)[f].inbox = IF f = e THEN Tail(call[f].inbox) ELSE call[f].inbox
    BY <1>t DEF Judged, Calls
  <2>4. call'[f].inbox = Judged(e, v, more)[f].inbox
    BY <2>1, <2>2, SignalledFields
  <2> QED
    BY <2>2, <2>3, <2>4
<1>7. ASSUME NEW e \in Exchanges, Redeliver(e) \/ ClaimHead(e)
      PROVE  InboxStep(f)
  <2>1. PICK i : Deliver(e, i)
    BY <1>7 DEF Redeliver, ClaimHead
  <2>2. call'[f].inbox = call[f].inbox
    BY <1>t, <2>1 DEF Deliver, Calls
  <2> QED
    BY <2>2
<1>8. ASSUME NEW e \in Exchanges,
             Progress(e) \/ RedeliverDone(e) \/ ClaimSkip(e) \/ BatchDone(e)
               \/ ExchangeWake(e) \/ ExchangeCancel(e)
      PROVE  InboxStep(f)
  <2>1. \/ call' = call \/ call' = [call EXCEPT ![e] = Idle]
        \/ call' = [call EXCEPT ![e].pc = "wait", ![e].notified = FALSE]
        \/ \E p \in Pcs : call' = [call EXCEPT ![e].pc = p]
    BY <1>8 DEF Progress, RedeliverDone, ClaimSkip, BatchDone, ExchangeWake, ExchangeCancel,
                Pcs, LockedPcs
  <2>2. CASE call' = [call EXCEPT ![e] = Idle]
    <3>1. call'[f].inbox = Idle.inbox \/ call'[f].inbox = call[f].inbox
      BY <1>t, <2>2
    <3> QED
      BY <1>i, <3>1
  <2>3. CASE call' # [call EXCEPT ![e] = Idle]
    <3>1. call'[f].inbox = call[f].inbox
      BY <1>t, <2>1, <2>3 DEF Calls
    <3> QED
      BY <3>1
  <2> QED
    BY <2>2, <2>3
<1>9. ASSUME NEW j \in Ids, Enqueue(j) \/ ClientSteps(j) \/ Disconnect(j)
      PROVE  InboxStep(f)
  BY <1>9, <1>s DEF Enqueue, ClientSteps, ReadDeadline, TimerFires, Collect, GiveUp,
                    Disconnect, TerminateAndForget
<1>10. CASE UNCHANGED vars
  BY <1>10 DEF vars
<1> QED
  BY <1>1, <1>2, <1>3, <1>4, <1>5, <1>6, <1>7, <1>8, <1>9, <1>10 DEF Next, ExchangeSteps

LEMMA InboxesNext ==
  ASSUME TypeOK, InboxesKnown, [Next]_vars, Known \subseteq Known'
  PROVE  InboxesKnown'
<1> SUFFICES ASSUME NEW f \in Exchanges, NEW k \in DOMAIN call'[f].inbox
             PROVE  call'[f].inbox[k].id \in Known' \cup {0}
  BY DEF InboxesKnown
<1>1. InboxStep(f)
  BY InboxSteps
<1>2. call[f].inbox \in Seq(Responses)
  <2>1. call[f].inbox \in Inboxes
    BY DEF TypeOK, Calls
  <2> QED
    BY <2>1, BoundsAssumption DEF Inboxes
<1>3. \A m \in DOMAIN call[f].inbox : call[f].inbox[m].id \in Known' \cup {0}
  BY DEF InboxesKnown
<1>4. CASE call'[f].inbox \in {call[f].inbox, <<>>}
  BY <1>3, <1>4
<1>5. CASE call[f].inbox # <<>> /\ call'[f].inbox = Tail(call[f].inbox)
  <2> DEFINE s == call[f].inbox
  <2>1. k + 1 \in DOMAIN s /\ Tail(s)[k] = s[k + 1]
    BY <1>2, <1>5, HeadTailProperties, LenProperties
  <2> QED
    BY <1>3, <1>5, <2>1
<1> QED
  BY <1>1, <1>4, <1>5 DEF InboxStep

LEMMA KnownGrows ==
  ASSUME QInv, [Next]_vars
  PROVE  Known \subseteq Known'
<1>1. TypeOK
  BY DEF QInv, IInv
<1> QED
  BY <1>1, StepKinds DEF Calm, Skips, Claims, Enqueue, Forget, Known, TypeOK

----------------------------------------------------------------------------
(* The theorems.                                                           *)

LEMMA QInvInit == Init => QInv
<1> SUFFICES ASSUME Init PROVE QInv
  OBVIOUS
<1>1. StartInv /\ InboxesKnown
  BY StateNames
  DEF Init, StartInv, FreeUpward, ClientStarted, DeliveredInflight, InboxesKnown, Idle
<1>2. QueueFIFO /\ NoOvertaking
  BY DEF Init, QueueFIFO, NoOvertaking
<1>3. InflightBounded
  <2>1. Inflight = {}
    BY StateNames DEF Init, Inflight
  <2>2. 0 <= MaxInflight
    BY ConfigAssumption
  <2> QED
    BY <2>1, <2>2, FS_EmptySet DEF InflightBounded
<1> QED
  BY <1>1, <1>2, <1>3, IInvInit DEF QInv, QueueInv

LEMMA QInvNext == QInv /\ [Next]_vars => QInv'
<1> SUFFICES ASSUME QInv, [Next]_vars PROVE QInv'
  OBVIOUS
<1>1. IInv'
  BY IInvNext DEF QInv
<1>2. InboxesKnown'
  BY InboxesNext, KnownGrows DEF QInv, IInv
<1>3. StartInv' /\ QueueInv'
  BY StepKinds, CalmNext, SkipsNext, ClaimsNext, EnqueueNext, ForgetNext
<1> QED
  BY <1>1, <1>2, <1>3 DEF QInv

\* The invariant holds of every reachable state.
THEOREM QueueInductive == Spec => []QInv
BY QInvInit, QInvNext, PTL DEF Spec

\* The queue holds every request that waits for its first delivery, once and in
\* the order of Enqueue, through timeouts, compaction and changes of bridge.
THEOREM QueueHolds == Spec => []QueueFIFO
<1>1. QInv => QueueFIFO
  BY DEF QInv, QueueInv
<1> QED
  BY <1>1, QueueInductive, PTL

\* nextBatchLocked hands out no request before an older one that still waits.
THEOREM NoOvertakingHolds == Spec => []NoOvertaking
<1>1. QInv => NoOvertaking
  BY DEF QInv, QueueInv
<1> QED
  BY <1>1, QueueInductive, PTL

\* MaxInflight bounds the requests in flight whichever bridges they came through,
\* although nextBatchLocked counts those of one bridge.
THEOREM InflightHolds == Spec => []InflightBounded
<1>1. QInv => InflightBounded
  BY DEF QInv, QueueInv
<1> QED
  BY <1>1, QueueInductive, PTL
=============================================================================
