---------------------------- MODULE AgentRequest ----------------------------
(***************************************************************************)
(* What the broker promises about each request, with no bridge, queue,     *)
(* lease, timer or exchange in sight: a request is open until it fails or   *)
(* is settled by one completion of an agent that was handed it, and its     *)
(* client is answered once, with that completion or with none.             *)
(*                                                                         *)
(* One critical section of the broker may move several requests, so a step  *)
(* lets every request take a step of its own or stay.                      *)
(***************************************************************************)
CONSTANTS Requests, Completions, None

VARIABLE promise

Phases == {"new", "open", "settled", "failed", "answered"}
Promises == [phase : Phases, handed : BOOLEAN,
             completion : Completions \cup {None}, answer : Completions \cup {None}]

New == [phase |-> "new", handed |-> FALSE, completion |-> None, answer |-> None]

Init == promise = [i \in Requests |-> New]

\* Each step relates a promise p to the next one q.
Submit(p, q) == p = New /\ q = [New EXCEPT !.phase = "open"]
Hand(p, q) == p.phase = "open" /\ q = [p EXCEPT !.handed = TRUE]
Settle(p, q) ==
  /\ p.phase = "open" /\ p.handed
  /\ \E c \in Completions : q = [p EXCEPT !.phase = "settled", !.completion = c]
Fail(p, q) == p.phase = "open" /\ q = [p EXCEPT !.phase = "failed"]
Answer(p, q) ==
  \/ p.phase = "settled" /\ q = [p EXCEPT !.phase = "answered", !.answer = p.completion]
  \/ p.phase = "failed" /\ q = [p EXCEPT !.phase = "answered"]
\* The client leaves, or stops waiting, whatever became of its request.
Abandon(p, q) ==
  p.phase \in {"open", "settled", "failed"} /\ q = [p EXCEPT !.phase = "answered"]

Step(p, q) ==
  \/ Submit(p, q) \/ Hand(p, q) \/ Settle(p, q) \/ Fail(p, q)
  \/ Answer(p, q) \/ Abandon(p, q)

Next ==
  /\ promise' \in [Requests -> Promises]
  /\ \A i \in Requests : Step(promise[i], promise'[i]) \/ promise'[i] = promise[i]

Spec == Init /\ [][Next]_promise
=============================================================================
