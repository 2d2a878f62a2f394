---------------------------- MODULE AgentBroker ----------------------------
(***************************************************************************)
(* The broker between the HTTP clients of the local Agent provider and the *)
(* web agent that polls over MCP: internal/v2/agentbroker/broker.go and    *)
(* handle.go.                                                              *)
(*                                                                         *)
(* One mutex protects the broker, so an operation is one action, with one  *)
(* exception: Exchange walks over lists while it holds the mutex, and each *)
(* element is an action of its own, taken while no other action may run    *)
(* (LockFree).  A deadline is the number of ticks left before it passes.   *)
(*                                                                         *)
(* Left out: what is only reported to the agent (revision, idle count,     *)
(* previous state, resume reason, last error, timestamps).  CLAIMED is     *)
(* left within the same critical section it is entered, so a claimed       *)
(* request is RUNNING here; CANCELED is never assigned by the code.        *)
(***************************************************************************)
EXTENDS Naturals, Sequences, FiniteSets

CONSTANTS
  MaxRequests,     \* bound: requests enqueued in one behaviour
  MaxGenerations,  \* bound: bridges opened in one behaviour
  MaxResponses,    \* bound: responses carried by one exchange
  MaxProgress,     \* bound: requests one exchange reports progress on
  Exchanges,       \* the calls of Exchange that can be in progress at once
  Payloads,        \* completions, told apart by their fingerprints
  ToolCalls,       \* the completions whose finish_reason is tool_calls
  NoPayload,       \* no completion yet
  MaxPending, MaxInflight, MaxBatchBytes,
  Size,            \* payload bytes of each request
  RequestTimeout, WaitTimeout, BridgeLease, ReceiptTTL  \* in ticks

Ids == 1 .. MaxRequests
Generations == 0 .. MaxGenerations   \* 0 is the empty bridge id

ASSUME BoundsAssumption ==
  /\ MaxRequests \in Nat /\ MaxGenerations \in Nat /\ MaxResponses \in Nat
  /\ MaxProgress \in Nat
ASSUME PayloadsAssumption ==
  /\ ToolCalls \subseteq Payloads
  /\ NoPayload \notin Payloads
\* What New leaves in the configuration whatever it is given.
ASSUME ConfigAssumption ==
  /\ MaxPending \in Nat \ {0} /\ MaxInflight \in 1 .. MaxPending
  /\ MaxBatchBytes \in Nat \ {0} /\ Size \in [Ids -> 1 .. MaxBatchBytes]
  /\ RequestTimeout \in Nat \ {0} /\ WaitTimeout \in Nat \ {0}
  /\ BridgeLease \in Nat \ {0} /\ BridgeLease > WaitTimeout
  /\ ReceiptTTL \in Nat \ {0}

VARIABLES
  bridge,      \* generation of the bridge that is open, 0 = none
  lease,       \* ticks until bridgeDeadline
  opened,      \* generations used so far: a bridge id is never used twice
  closed,      \* Shutdown ran
  queue,       \* ids waiting for their first delivery
  state,       \* lifecycle state of each request
  bound,       \* the bridge each request belongs to
  deadline,    \* ticks until each request's deadline
  delivered,   \* delivery > 0
  result,      \* the completion of each request, kept here after it is forgotten
  receipt,     \* acknowledged responses, to recognise their repetition
  call,        \* the local state of each Exchange call
  client,      \* where each request's RequestHandle.Wait is
  clientTimer, \* the timer of that Wait
  outcome      \* how it returned

bridgeVars == <<bridge, lease, opened, closed>>
requestVars == <<queue, state, bound, deadline, delivered, result>>
clientVars == <<client, clientTimer, outcome>>
vars == <<bridgeVars, requestVars, receipt, call, clientVars>>

----------------------------------------------------------------------------
(* Lifecycle states.  FREE: not enqueued yet; GONE: deleted from the map.  *)

InflightStates == {"RUNNING", "FAILED_RETRYABLE"}
ActiveStates == {"QUEUED"} \cup InflightStates
SettledStates == {"WAITING_TOOL", "COMPLETED"}
TerminalStates == SettledStates \cup {"TIMED_OUT", "FAILED_FINAL"}
States == ActiveStates \cup TerminalStates \cup {"FREE", "GONE"}

Active(i) == state[i] \in ActiveStates
Inflight == {i \in Ids : state[i] \in InflightStates}
ActiveIds == {i \in Ids : Active(i)}

(* What an agent can put in a response: an id it was handed (0 stands for   *)
(* an id or a response that is missing or unknown), and a completion that   *)
(* is unreadable, or readable but unfit for the conversation or announced   *)
(* under the wrong event, or fit.                                           *)
Responses ==
  [id : Ids \cup {0}, body : {"unreadable"}, payload : {NoPayload}]
    \cup [id : Ids, body : {"unfit", "fit"}, payload : Payloads]
Inboxes == UNION {[1 .. n -> Responses] : n \in 0 .. MaxResponses}

Verdicts == {"rejected", "conflict", "duplicate", "inactive", "completed"}
NoReceipt == [bridge |-> 0, payload |-> NoPayload, ttl |-> 0]
Idle == [pc |-> "idle", bridge |-> 0, timer |-> 0, room |-> 0, bytes |-> 0,
         inbox |-> <<>>, progress |-> {}, batch |-> {}, verdicts |-> {},
         followup |-> FALSE, notified |-> FALSE]

LockedPcs == {"respond", "redeliver", "claim"}
Pcs == LockedPcs \cup {"idle", "enter", "again", "wait"}
LockFree == \A e \in Exchanges : call[e].pc \notin LockedPcs

(* signalLocked: every exchange that waits on the current notify channel    *)
(* sees it closed.                                                          *)
BugSignalled(c) ==
  LET asleep == {e \in Exchanges : c[e].pc = "wait"}
  IN  IF asleep = {} THEN c ELSE [c EXCEPT ![CHOOSE e \in asleep : TRUE].notified = TRUE]

Signalled(c) ==
  [e \in Exchanges |-> IF c[e].pc = "wait" THEN [c[e] EXCEPT !.notified = TRUE]
                       ELSE c[e]]

----------------------------------------------------------------------------
(* What every operation does first: expireRequestsLocked, then              *)
(* expireBridgeLocked on the requests that are left.                        *)

Lapsed(i) == Active(i) /\ deadline[i] = 0

SweptState == [i \in Ids |-> IF Lapsed(i) THEN "TIMED_OUT" ELSE state[i]]

\* expireBridgeLocked keeps a bridge whose lease has passed while a request
\* it delivered is still in flight.
BridgeStale ==
  /\ bridge # 0 /\ lease = 0
  /\ \A i \in Ids : SweptState[i] \in InflightStates => bound[i] # bridge

\* The requests that lose their bridge when it closes, st being their states.
Detached(st) ==
  [i \in Ids |-> IF st[i] \in ActiveStates /\ bound[i] = bridge THEN 0 ELSE bound[i]]

SweptBridge == IF BridgeStale THEN 0 ELSE bridge
SweptLease == IF BridgeStale THEN 0 ELSE lease
SweptBound == IF BridgeStale THEN Detached(SweptState) ELSE bound
SweptCall ==
  IF BridgeStale \/ \E i \in Ids : Lapsed(i) THEN Signalled(call) ELSE call

\* cleanupReceiptsLocked
CleanReceipts ==
  [i \in Ids |-> IF receipt[i].ttl = 0 THEN NoReceipt ELSE receipt[i]]

\* heartbeatLocked: the open bridge b adopts the active requests that have
\* none and renews the deadline of every active request it owns.
AdoptedBound(st, bd, b) ==
  [i \in Ids |-> IF st[i] \in ActiveStates /\ bd[i] = 0 THEN b ELSE bd[i]]
RenewedDeadline(st, bd, b) ==
  [i \in Ids |-> IF st[i] \in ActiveStates /\ AdoptedBound(st, bd, b)[i] = b
                 THEN RequestTimeout ELSE deadline[i]]

\* Open gives every active request to the bridge it creates.
Rebound(st, b) ==
  [i \in Ids |-> IF st[i] \in ActiveStates THEN b ELSE SweptBound[i]]

----------------------------------------------------------------------------
(* The operations that are one critical section.                           *)

\* Open when a bridge is there: the caller resumes it.
OpenResume ==
  /\ LockFree /\ ~closed
  /\ SweptBridge # 0
  /\ state' = SweptState
  /\ bound' = AdoptedBound(SweptState, SweptBound, bridge)
  /\ deadline' = RenewedDeadline(SweptState, SweptBound, bridge)
  /\ lease' = BridgeLease
  /\ call' = SweptCall
  /\ UNCHANGED <<bridge, opened, closed, queue, delivered, result, receipt, clientVars>>

\* Open when there is none: a new generation takes over the active requests.
OpenNew ==
  /\ LockFree /\ ~closed
  /\ SweptBridge = 0
  /\ opened < MaxGenerations
  /\ opened' = opened + 1
  /\ bridge' = opened + 1
  /\ lease' = BridgeLease
  /\ state' = SweptState
  /\ bound' = Rebound(SweptState, opened + 1)
  /\ deadline' = RenewedDeadline(SweptState, Rebound(SweptState, opened + 1), opened + 1)
  /\ call' = Signalled(call)
  /\ UNCHANGED <<closed, queue, delivered, result, receipt, clientVars>>

\* Close, called by the agent, with or without a bridge to close.
Close ==
  /\ LockFree /\ ~closed
  /\ bridge' = 0 /\ lease' = 0
  /\ state' = SweptState
  /\ bound' = Detached(SweptState)
  /\ call' = IF bridge # 0 THEN Signalled(call) ELSE SweptCall
  /\ UNCHANGED <<opened, closed, queue, deadline, delivered, result, receipt, clientVars>>

\* Enqueue, called by the provider, which then waits on the handle.
Enqueue(i) ==
  /\ LockFree /\ ~closed
  /\ state[i] = "FREE" /\ \A j \in 1 .. i - 1 : state[j] # "FREE"
  /\ SweptBridge # 0
  /\ Cardinality({j \in Ids : SweptState[j] \in ActiveStates}) < MaxPending
  /\ state' = [SweptState EXCEPT ![i] = "QUEUED"]
  /\ bound' = [SweptBound EXCEPT ![i] = bridge]
  /\ deadline' = [deadline EXCEPT ![i] = RequestTimeout]
  /\ queue' = Append(queue, i)
  /\ client' = [client EXCEPT ![i] = "read"]
  /\ call' = Signalled(call)
  /\ UNCHANGED <<bridgeVars, delivered, result, receipt, clientTimer, outcome>>

\* The sweep is all that is left of an operation that returns early: Enqueue
\* without a bridge, with the broker full or with a request too large.
Sweep ==
  /\ LockFree
  /\ state' = SweptState
  /\ bound' = SweptBound
  /\ bridge' = SweptBridge /\ lease' = SweptLease
  /\ call' = SweptCall
  /\ UNCHANGED <<opened, closed, queue, deadline, delivered, result, clientVars>>

EnqueueRefused == ~closed /\ Sweep /\ UNCHANGED receipt

\* Snapshot, and an Exchange that finds no bridge.
Snapshot == Sweep /\ receipt' = CleanReceipts

\* One turn of heartbeatLoop.
BugRenewDue == ActiveIds # {}
RenewDue == bridge # 0 /\ ActiveIds # {}

Heartbeat ==
  /\ LockFree /\ ~closed
  /\ IF RenewDue
     THEN /\ lease' = BridgeLease
          /\ bound' = AdoptedBound(state, bound, bridge)
          /\ deadline' = RenewedDeadline(state, bound, bridge)
          /\ UNCHANGED <<bridge, opened, closed, queue, state, delivered, result,
                         receipt, call, clientVars>>
     ELSE Sweep /\ UNCHANGED receipt

Failed == [i \in Ids |-> IF Active(i) THEN "FAILED_FINAL" ELSE state[i]]

Shutdown ==
  /\ LockFree /\ ~closed
  /\ closed' = TRUE
  /\ state' = Failed
  /\ bridge' = 0 /\ lease' = 0
  /\ call' = Signalled(call)
  /\ UNCHANGED <<opened, queue, bound, deadline, delivered, result, receipt, clientVars>>

----------------------------------------------------------------------------
(* Exchange: a first critical section captures the bridge, each turn of the *)
(* loop is another one, and the call sleeps between turns.                  *)

Known == {i \in Ids : delivered[i]}   \* the ids an agent was handed

ExchangeBegin(e) ==
  /\ LockFree /\ ~closed
  /\ call[e].pc = "idle"
  /\ SweptBridge # 0
  /\ \E inbox \in Inboxes, progress \in SUBSET Known, room \in 1 .. MaxInflight :
       /\ \A k \in DOMAIN inbox : inbox[k].id \in Known \cup {0}
       /\ Cardinality(progress) <= MaxProgress
       /\ call' = [SweptCall EXCEPT ![e] =
            [Idle EXCEPT !.pc = "enter", !.bridge = SweptBridge, !.timer = WaitTimeout,
                         !.room = room, !.inbox = inbox, !.progress = progress]]
  /\ state' = SweptState
  /\ bound' = SweptBound
  /\ receipt' = CleanReceipts
  /\ UNCHANGED <<bridgeVars, queue, deadline, delivered, result, clientVars>>

\* requireBridgeLocked on a bridge captured earlier.
BugBridgeHeld(e) == ~closed /\ SweptBridge # 0
BridgeHeld(e) == ~closed /\ call[e].bridge # 0 /\ call[e].bridge = SweptBridge

\* The top of the loop; the responses are processed on the first turn only.
ExchangeTurn(e) ==
  /\ LockFree
  /\ call[e].pc \in {"enter", "again"}
  /\ state' = SweptState
  /\ bound' = SweptBound
  /\ bridge' = SweptBridge
  /\ receipt' = CleanReceipts
  /\ IF BridgeHeld(e)
     THEN /\ lease' = BridgeLease
          /\ call' = [SweptCall EXCEPT ![e].pc =
                        IF call[e].pc = "enter" THEN "respond" ELSE "redeliver"]
     ELSE /\ lease' = SweptLease
          /\ call' = [SweptCall EXCEPT ![e] = Idle]
  /\ UNCHANGED <<opened, closed, queue, deadline, delivered, result, clientVars>>

----------------------------------------------------------------------------
(* acceptResponsesLocked, one response at a time.                          *)

\* An active request of the bridge the exchange captured.
BugAnswerable(e, i) == i # 0 /\ bound[i] = call[e].bridge
Answerable(e, i) == i # 0 /\ Active(i) /\ bound[i] = call[e].bridge

Tool(p) == p \in ToolCalls

\* The call after the response is dealt with: verdict v, and whether the
\* agent should expect a follow-up request.
Judged(e, v, more) ==
  LET c == call[e]
      r == Head(c.inbox)
      judgement == [id |-> r.id, payload |-> r.payload, verdict |-> v]
  IN  [call EXCEPT ![e] = [c EXCEPT !.inbox = Tail(c.inbox),
                                    !.verdicts = c.verdicts \cup {judgement},
                                    !.followup = c.followup \/ more]]

\* The response is refused and changes nothing.
Refuse(e, v) ==
  /\ call' = Judged(e, v, FALSE)
  /\ UNCHANGED <<bridgeVars, requestVars, receipt, clientVars>>

\* The response is refused and its request marked retryable (markRetryableLocked).
Retry(e, i) ==
  /\ call' = Signalled(Judged(e, "rejected", FALSE))
  /\ state' = [state EXCEPT ![i] = "FAILED_RETRYABLE"]
  /\ deadline' = [deadline EXCEPT ![i] = RequestTimeout]
  /\ UNCHANGED <<bridgeVars, queue, bound, delivered, result, receipt, clientVars>>

\* The response completes request i (finishLocked).
Accept(e, i, p) ==
  /\ call' = Signalled(Judged(e, "completed", Tool(p)))
  /\ state' = [state EXCEPT ![i] = IF Tool(p) THEN "WAITING_TOOL" ELSE "COMPLETED"]
  /\ result' = [result EXCEPT ![i] = p]
  /\ receipt' = [receipt EXCEPT ![i] = [bridge |-> call[e].bridge, payload |-> p,
                                       ttl |-> ReceiptTTL]]
  /\ UNCHANGED <<bridgeVars, queue, bound, deadline, delivered, clientVars>>

\* The same completion as the one acknowledged, from the same bridge.
BugRepeats(e, r) == receipt[r.id].bridge = call[e].bridge
Repeats(e, r) ==
  receipt[r.id].bridge = call[e].bridge /\ receipt[r.id].payload = r.payload

Respond(e) ==
  /\ call[e].pc = "respond" /\ call[e].inbox # <<>>
  /\ LET r == Head(call[e].inbox)
         i == r.id
     IN  \/ /\ r.body = "unreadable"
            /\ IF Answerable(e, i) THEN Retry(e, i) ELSE Refuse(e, "rejected")
         \/ /\ r.body # "unreadable" /\ receipt[i] # NoReceipt
            /\ IF Repeats(e, r)
               THEN /\ call' = Judged(e, "duplicate", Tool(r.payload))
                    /\ UNCHANGED <<bridgeVars, requestVars, receipt, clientVars>>
               ELSE Refuse(e, "conflict")
         \/ /\ r.body # "unreadable" /\ receipt[i] = NoReceipt
            /\ ~Answerable(e, i)
            /\ Refuse(e, "inactive")
         \/ /\ r.body = "unfit" /\ receipt[i] = NoReceipt
            /\ Answerable(e, i)
            /\ Retry(e, i)
         \/ /\ r.body = "fit" /\ receipt[i] = NoReceipt
            /\ Answerable(e, i)
            /\ Accept(e, i, r.payload)

\* acceptProgressLocked on all the items, and nextBatchLocked is next.
Progress(e) ==
  /\ call[e].pc = "respond" /\ call[e].inbox = <<>>
  /\ deadline' = [i \in Ids |-> IF i \in call[e].progress /\ Answerable(e, i)
                                THEN RequestTimeout ELSE deadline[i]]
  /\ call' = [call EXCEPT ![e].pc = "redeliver"]
  /\ UNCHANGED <<bridgeVars, queue, state, bound, delivered, result, receipt, clientVars>>

----------------------------------------------------------------------------
(* nextBatchLocked, one request at a time.  The requests in flight are      *)
(* delivered again first, oldest first; ids are in the order of creation.   *)

BugOnBridge(e) == {i \in Ids : state[i] = "FAILED_RETRYABLE" /\ bound[i] = call[e].bridge}
OnBridge(e) == {i \in Inflight : bound[i] = call[e].bridge}
Undelivered(e) == OnBridge(e) \ call[e].batch
Fits(e, i) ==
  /\ Cardinality(call[e].batch) < call[e].room
  /\ call[e].bytes + Size[i] <= MaxBatchBytes

\* appendRequest: the request joins the batch and is RUNNING.
Deliver(e, i) ==
  /\ state' = [state EXCEPT ![i] = "RUNNING"]
  /\ deadline' = [deadline EXCEPT ![i] = RequestTimeout]
  /\ delivered' = [delivered EXCEPT ![i] = TRUE]
  /\ call' = [call EXCEPT ![e].batch = @ \cup {i}, ![e].bytes = @ + Size[i]]

Oldest(S, i) == i \in S /\ \A j \in S : i <= j

Redeliver(e) ==
  /\ call[e].pc = "redeliver"
  /\ \E i \in Undelivered(e) :
       /\ Oldest(Undelivered(e), i)
       /\ Fits(e, i)
       /\ Deliver(e, i)
  /\ UNCHANGED <<bridgeVars, queue, bound, result, receipt, clientVars>>

RedeliverDone(e) ==
  /\ call[e].pc = "redeliver"
  /\ \A i \in Undelivered(e) : Oldest(Undelivered(e), i) => ~Fits(e, i)
  /\ call' = [call EXCEPT ![e].pc = "claim"]
  /\ UNCHANGED <<bridgeVars, requestVars, receipt, clientVars>>

\* The condition of the loop that takes requests off the queue.
MayClaim(e) ==
  /\ Cardinality(call[e].batch) < call[e].room
  /\ Cardinality(OnBridge(e)) < MaxInflight
  /\ queue # <<>>

BugClaimable(e, i) == bound[i] \in {0, call[e].bridge}
BugClaimableFirst(e, i) == state[i] = "QUEUED" /\ Fits(e, i)
Claimable(e, i) == state[i] = "QUEUED" /\ bound[i] \in {0, call[e].bridge}

\* The head of the queue timed out before anyone took it.
ClaimSkip(e) ==
  /\ call[e].pc = "claim" /\ MayClaim(e)
  /\ ~Claimable(e, Head(queue))
  /\ queue' = Tail(queue)
  /\ UNCHANGED <<bridgeVars, state, bound, deadline, delivered, result, receipt, call,
                 clientVars>>

ClaimHead(e) ==
  /\ call[e].pc = "claim" /\ MayClaim(e)
  /\ Claimable(e, Head(queue)) /\ Fits(e, Head(queue))
  /\ queue' = Tail(queue)
  /\ bound' = [bound EXCEPT ![Head(queue)] = call[e].bridge]
  /\ Deliver(e, Head(queue))
  /\ UNCHANGED <<bridgeVars, result, receipt, clientVars>>

\* The batch is complete: Exchange returns requests, or results, or sleeps.
BatchDone(e) ==
  /\ call[e].pc = "claim"
  /\ MayClaim(e) => Claimable(e, Head(queue)) /\ ~Fits(e, Head(queue))
  /\ IF call[e].batch # {} \/ (call[e].verdicts # {} /\ ~call[e].followup)
     THEN call' = [call EXCEPT ![e] = Idle]
     ELSE call' = [call EXCEPT ![e].pc = "wait", ![e].notified = FALSE]
  /\ UNCHANGED <<bridgeVars, requestVars, receipt, clientVars>>

----------------------------------------------------------------------------
(* The sleep: a signal, the timer or the caller's context ends it, in any   *)
(* order when several are ready.                                            *)

ExchangeWake(e) ==
  /\ call[e].pc = "wait" /\ call[e].notified
  /\ call' = [call EXCEPT ![e].pc = "again"]
  /\ UNCHANGED <<bridgeVars, requestVars, receipt, clientVars>>

ExchangeCancel(e) ==
  /\ call[e].pc = "wait"
  /\ call' = [call EXCEPT ![e] = Idle]
  /\ UNCHANGED <<bridgeVars, requestVars, receipt, clientVars>>

BugTimedOut(e) ==
  IF BridgeHeld(e)
  THEN [SweptCall EXCEPT ![e].pc = "again", ![e].timer = WaitTimeout]
  ELSE [SweptCall EXCEPT ![e] = Idle]
TimedOut(e) == [SweptCall EXCEPT ![e] = Idle]

ExchangeTimeout(e) ==
  /\ LockFree
  /\ call[e].pc = "wait" /\ call[e].timer = 0
  /\ state' = SweptState
  /\ bound' = SweptBound
  /\ bridge' = SweptBridge
  /\ lease' = IF BridgeHeld(e) THEN BridgeLease ELSE SweptLease
  /\ call' = TimedOut(e)
  /\ UNCHANGED <<opened, closed, queue, deadline, delivered, result, receipt, clientVars>>

----------------------------------------------------------------------------
(* RequestHandle.Wait.  Only this call deletes its request.                *)

\* compactQueueLocked; the queue holds an id at most once (QueueFIFO).
BugCompacted(i) == queue
Compacted(i) ==
  IF \E k \in DOMAIN queue : queue[k] = i
  THEN LET at == CHOOSE k \in DOMAIN queue : queue[k] = i
       IN  [k \in 1 .. Len(queue) - 1 |-> IF k < at THEN queue[k] ELSE queue[k + 1]]
  ELSE queue

\* The request leaves the map, and Wait returns the given way.
Forget(i, how) ==
  /\ state' = [state EXCEPT ![i] = "GONE"]
  /\ deadline' = [deadline EXCEPT ![i] = 0]
  /\ bound' = [bound EXCEPT ![i] = 0]
  /\ queue' = Compacted(i)
  /\ client' = [client EXCEPT ![i] = "returned"]
  /\ clientTimer' = [clientTimer EXCEPT ![i] = 0]
  /\ outcome' = [outcome EXCEPT ![i] = how]
  /\ UNCHANGED <<bridgeVars, delivered, result, receipt>>

\* terminateAndForget: a request still active is finished, which signals.
TerminateAndForget(i, how) ==
  /\ Forget(i, how)
  /\ call' = IF Active(i) THEN Signalled(call) ELSE call

ReadDeadline(i) ==
  /\ LockFree
  /\ client[i] = "read"
  /\ client' = [client EXCEPT ![i] = "select"]
  /\ clientTimer' = [clientTimer EXCEPT ![i] = deadline[i]]
  /\ UNCHANGED <<bridgeVars, requestVars, receipt, call, outcome>>

\* The done channel is closed, and result() takes the outcome.
Collect(i) ==
  /\ LockFree
  /\ client[i] = "select" /\ state[i] \in TerminalStates
  /\ Forget(i, state[i])
  /\ UNCHANGED call

\* The HTTP client goes away.
Disconnect(i) ==
  /\ LockFree
  /\ client[i] = "select"
  /\ TerminateAndForget(i, "DISCONNECTED")

\* The timer fires, and the deadline may have been renewed since it was set.
TimerFires(i) ==
  /\ LockFree
  /\ client[i] = "select" /\ clientTimer[i] = 0
  /\ client' = [client EXCEPT ![i] = IF deadline[i] > 0 THEN "read" ELSE "giveup"]
  /\ UNCHANGED <<bridgeVars, requestVars, receipt, call, clientTimer, outcome>>

\* terminateAndForget takes the mutex again after the deadline was read.
GiveUp(i) ==
  /\ LockFree
  /\ client[i] = "giveup"
  /\ TerminateAndForget(i, "TIMED_OUT")

----------------------------------------------------------------------------
(* Time.  now is read once per critical section, so it does not pass in one.*)

BugLess(n) == n - 1
Less(n) == IF n > 0 THEN n - 1 ELSE 0

Tick ==
  /\ LockFree
  /\ lease' = Less(lease)
  /\ deadline' = [i \in Ids |-> Less(deadline[i])]
  /\ clientTimer' = [i \in Ids |-> Less(clientTimer[i])]
  /\ receipt' = [i \in Ids |-> [receipt[i] EXCEPT !.ttl = Less(@)]]
  /\ call' = [e \in Exchanges |-> [call[e] EXCEPT !.timer = Less(@)]]
  /\ UNCHANGED <<bridge, opened, closed, queue, state, bound, delivered, result, client,
                 outcome>>

----------------------------------------------------------------------------
Init ==
  /\ bridge = 0 /\ lease = 0 /\ opened = 0 /\ closed = FALSE
  /\ queue = <<>>
  /\ state = [i \in Ids |-> "FREE"]
  /\ bound = [i \in Ids |-> 0]
  /\ deadline = [i \in Ids |-> 0]
  /\ delivered = [i \in Ids |-> FALSE]
  /\ result = [i \in Ids |-> NoPayload]
  /\ receipt = [i \in Ids |-> NoReceipt]
  /\ call = [e \in Exchanges |-> Idle]
  /\ client = [i \in Ids |-> "none"]
  /\ clientTimer = [i \in Ids |-> 0]
  /\ outcome = [i \in Ids |-> "none"]

ExchangeSteps(e) ==
  \/ ExchangeTurn(e) \/ Respond(e) \/ Progress(e)
  \/ Redeliver(e) \/ RedeliverDone(e)
  \/ ClaimSkip(e) \/ ClaimHead(e) \/ BatchDone(e)
  \/ ExchangeWake(e) \/ ExchangeTimeout(e)

ClientSteps(i) == ReadDeadline(i) \/ Collect(i) \/ TimerFires(i) \/ GiveUp(i)

Next ==
  \/ OpenResume \/ OpenNew \/ Close \/ Shutdown
  \/ EnqueueRefused \/ Snapshot \/ Heartbeat \/ Tick
  \/ \E e \in Exchanges : ExchangeBegin(e) \/ ExchangeSteps(e) \/ ExchangeCancel(e)
  \/ \E i \in Ids : Enqueue(i) \/ ClientSteps(i) \/ Disconnect(i)

Spec == Init /\ [][Next]_vars

----------------------------------------------------------------------------
(* Safety.                                                                 *)

Calls == [pc : Pcs, bridge : Generations, timer : 0 .. WaitTimeout,
          room : 0 .. MaxInflight, bytes : 0 .. MaxBatchBytes,
          inbox : Inboxes, progress : SUBSET Ids, batch : SUBSET Ids,
          verdicts : SUBSET [id : Ids \cup {0}, payload : Payloads \cup {NoPayload},
                             verdict : Verdicts],
          followup : BOOLEAN, notified : BOOLEAN]

\* Every variable has the type broker.go gives it.
TypeOK ==
  /\ bridge \in 0 .. opened /\ opened \in Generations /\ closed \in BOOLEAN
  /\ lease \in 0 .. BridgeLease
  /\ queue \in Seq(Ids)
  /\ state \in [Ids -> States]
  /\ bound \in [Ids -> Generations]
  /\ deadline \in [Ids -> 0 .. RequestTimeout]
  /\ delivered \in [Ids -> BOOLEAN]
  /\ result \in [Ids -> Payloads \cup {NoPayload}]
  /\ receipt \in [Ids -> [bridge : Generations, payload : Payloads \cup {NoPayload},
                          ttl : 0 .. ReceiptTTL]]
  /\ call \in [Exchanges -> Calls]
  /\ client \in [Ids -> {"none", "read", "select", "giveup", "returned"}]
  /\ clientTimer \in [Ids -> 0 .. RequestTimeout]
  /\ outcome \in [Ids -> {"none", "DISCONNECTED"} \cup TerminalStates]

\* A request that still waits for its completion belongs to the bridge that is
\* open, and to none when none is: Open, Close, the lease and Shutdown leave no
\* request behind that an agent of another bridge could answer.
BridgeBinding == \A i \in Ids : Active(i) => bound[i] = bridge

\* An exchange that works on responses and batches under the mutex still holds
\* the bridge it captured in an earlier critical section, and is the only one.
HolderIsCurrent ==
  \A e \in Exchanges : call[e].pc \in LockedPcs =>
    /\ ~closed /\ bridge # 0 /\ call[e].bridge = bridge
    /\ \A f \in Exchanges : call[f].pc \in LockedPcs => f = e

\* The queue holds every request not delivered yet, once, in the order of
\* Enqueue, whatever timed out, was compacted away or changed bridge meanwhile.
QueueFIFO ==
  /\ \A j, k \in DOMAIN queue : j < k => queue[j] < queue[k]
  /\ \A i \in Ids : state[i] = "QUEUED" => \E k \in DOMAIN queue : queue[k] = i
  /\ \A k \in DOMAIN queue : state[queue[k]] \in {"QUEUED"} \cup TerminalStates

\* No request overtakes an older one that still waits for its first delivery,
\* even when the older one is too large for what is left of a batch.
NoOvertaking ==
  \A i, j \in Ids : i < j /\ state[i] = "QUEUED" => ~delivered[j]

\* MaxInflight bounds the requests handed to agents across closed, expired and
\* reopened bridges, although each batch counts those of its own bridge only.
InflightBounded == Cardinality(Inflight) <= MaxInflight

\* An exchange that sleeps and was not signalled misses nothing: its bridge is
\* the open one and no request waits for an agent.
NoLostWakeup ==
  \A e \in Exchanges : call[e].pc = "wait" /\ ~call[e].notified =>
    call[e].bridge = bridge /\ ActiveIds = {}

\* A receipt stands for a completion that was really given to its request, and
\* the request can no longer be answered otherwise.
ReceiptSound ==
  \A i \in Ids : receipt[i] # NoReceipt =>
    receipt[i].payload = result[i] /\ state[i] \in SettledStates \cup {"GONE"}

\* What an exchange acknowledges, first or again, is the one completion of its
\* request, and the client is not told that its request failed.  The client
\* gets that completion unless it left, or its own timer ended the wait before
\* it collected it: Wait may give up on a request completed meanwhile.
AcknowledgedIsResult ==
  \A e \in Exchanges : \A v \in call[e].verdicts :
    v.verdict \in {"completed", "duplicate"} =>
      /\ result[v.id] = v.payload
      /\ outcome[v.id] \in SettledStates \cup {"none", "DISCONNECTED", "TIMED_OUT"}

\* After Shutdown no request is left waiting and no bridge is open.
ClosedIsQuiet == closed => bridge = 0 /\ ActiveIds = {}

\* Whatever bridges are opened, closed, replaced, expire or are shut down between
\* the turns of an exchange, requests and exchanges belong to the one that is open.
BridgeInv == BridgeBinding /\ HolderIsCurrent /\ ClosedIsQuiet

\* A request ends once: its done channel is closed by one finish, and neither a
\* late response, a retry mark, a sweep nor a delivery revives it.
EndsOnce ==
  [][\A i \in Ids :
       /\ state[i] \in TerminalStates => state'[i] \in {state[i], "GONE"}
       /\ state[i] = "GONE" => state'[i] = "GONE"
       /\ result[i] # NoPayload => result'[i] = result[i]]_vars

----------------------------------------------------------------------------
(* The broker keeps the promise of AgentRequest.                           *)

PhaseOf(i) ==
  CASE state[i] = "FREE" -> "new"
    [] Active(i) -> "open"
    [] state[i] \in SettledStates -> "settled"
    [] state[i] = "GONE" -> "answered"
    [] OTHER -> "failed"

AnswerOf(i) == IF outcome[i] \in SettledStates THEN result[i] ELSE NoPayload

PromiseOf(i) ==
  [phase |-> PhaseOf(i), handed |-> delivered[i], completion |-> result[i],
   answer |-> AnswerOf(i)]

Promised ==
  INSTANCE AgentRequest WITH Requests <- Ids, Completions <- Payloads, None <- NoPayload,
                             promise <- [i \in Ids |-> PromiseOf(i)]

\* Every step of the broker is a step of AgentRequest for each request, or
\* changes no promise: a client is answered once, with the one completion an
\* agent that was handed the request got acknowledged, or with an error.
KeepsPromise == Promised!Spec

----------------------------------------------------------------------------
(* Liveness.  Time passes; heartbeatLoop ticks; a goroutine that asks for   *)
(* the mutex gets it, and a select that finds a case ready again and again  *)
(* takes it.  Nothing is assumed of the agent or of the HTTP clients.       *)

Fairness ==
  /\ SF_vars(Tick)
  /\ SF_vars(Heartbeat)
  /\ \A e \in Exchanges :
       /\ SF_vars(ExchangeTurn(e)) /\ SF_vars(ExchangeTimeout(e))
       /\ WF_vars(Respond(e) \/ Progress(e) \/ Redeliver(e) \/ RedeliverDone(e)
                  \/ ClaimSkip(e) \/ ClaimHead(e) \/ BatchDone(e))
  /\ \A i \in Ids :
       /\ SF_vars(Collect(i))
       /\ SF_vars(ReadDeadline(i) \/ TimerFires(i) \/ GiveUp(i))

FairSpec == Spec /\ Fairness

Waiting(i) == client[i] \in {"read", "select", "giveup"}

\* Exchange returns within its bounded wait, whatever becomes of its bridge.
ExchangeReturns == \A e \in Exchanges : (call[e].pc # "idle") ~> (call[e].pc = "idle")

\* A request whose agent never comes back is answered: with no bridge open, the
\* deadline is not renewed for ever.
OrphanAnswered ==
  <>[](bridge = 0) => \A i \in Ids : Waiting(i) ~> client[i] = "returned"
=============================================================================
