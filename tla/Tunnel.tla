------------------------------- MODULE Tunnel -------------------------------
(***************************************************************************)
(* The managers of the tunnel-client process (internal/v2/tunnel/          *)
(* client.go): start, restart with backoff, close. Each service has one    *)
(* manager per tunnel; this module has one for each service, of the coding *)
(* tunnel. The agent's is another instance of the same code.               *)
(*                                                                         *)
(* Every critical section of Manager.mu is an operator on the record of    *)
(* the manager. A restart token is compared with the current one and with  *)
(* nothing else, so of the timers under way it is enough to know whether   *)
(* there is one with the current token, and how many there are with an old *)
(* one.                                                                    *)
(***************************************************************************)
EXTENDS Naturals, FiniteSets

CONSTANTS
  NumServices,  \* services, and so managers, that may be created
  MaxRestarts   \* defaultMaxRestarts

ASSUME TunnelAssumption == NumServices \in Nat \ {0} /\ MaxRestarts \in Nat

Services == 1 .. NumServices

\* Of the processes that a manager starts at most one is not over, as OneTunnel
\* says; a second name is for one that should not be there.
Names == {1, 2}
NoProcess == 0

VARIABLE tunnel  \* tunnel[g]: the manager of the service g

\* "exited" is a process whose Wait has not come back to the manager.
ProcessStates == {"none", "alive", "killed", "exited"}
TunnelStates == {"stopped", "disabled", "blocked", "failed", "running", "restarting"}

\* process is Manager.process, victim the one that Close has taken out of it, stop
\* what Close returned. armed: a timer with the current token is under way; stale
\* counts the others.
Managers ==
  [state : TunnelStates, closed : BOOLEAN, process : Names \cup {NoProcess},
   victim : Names \cup {NoProcess}, run : [Names -> ProcessStates],
   restarts : 0 .. MaxRestarts, armed : BOOLEAN, stale : Nat, stop : {"none", "clean", "failed"}]
NewManager ==
  [state |-> "stopped", closed |-> FALSE, process |-> NoProcess, victim |-> NoProcess,
   run |-> [n \in Names |-> "none"], restarts |-> 0, armed |-> FALSE, stale |-> 0, stop |-> "none"]

Live(m) == {n \in Names : m.run[n] \in {"alive", "killed"}}

-----------------------------------------------------------------------------
(***************************************************************************)
(* What is done while Manager.mu is held.                                  *)
(***************************************************************************)
\* restartToken++
Disarmed(m) ==
  [m EXCEPT !.armed = FALSE, !.stale = IF m.armed THEN m.stale + 1 ELSE m.stale]

BugScheduled(m) ==
  CASE m.closed -> m
    [] ~m.closed /\ m.restarts > MaxRestarts -> [m EXCEPT !.state = "failed"]
    [] OTHER -> [Disarmed(m) EXCEPT !.restarts = m.restarts + 1, !.armed = TRUE, !.state = "restarting"]
\* scheduleRestartLocked: the failed attempt counts, and the next one waits.
Scheduled(m) ==
  CASE m.closed -> m
    [] ~m.closed /\ m.restarts >= MaxRestarts -> [m EXCEPT !.state = "failed"]
    [] OTHER -> [Disarmed(m) EXCEPT !.restarts = m.restarts + 1, !.armed = TRUE, !.state = "restarting"]

\* launchLocked
Launched(m, n) == [m EXCEPT !.process = n, !.state = "running", !.run[n] = "alive"]
Launches(m) ==
  {Launched(m, n) : n \in {i \in Names : m.run[i] = "none"}} \cup {Scheduled([m EXCEPT !.state = "failed"])}

\* Start. The executable may be missing.
Started(m, enabled, key) ==
  CASE ~enabled -> {[m EXCEPT !.state = "disabled"]}
    [] enabled /\ ~key -> {[m EXCEPT !.state = "blocked"]}
    [] OTHER -> {[m EXCEPT !.state = "failed"]} \cup Launches([Disarmed(m) EXCEPT !.restarts = 0])

\* restartAfter, when a timer has fired. current says that it has the current token.
BugMayRestart(m, current) == m.process = NoProcess
MayRestart(m, current) == ~m.closed /\ m.process = NoProcess /\ current
Fired(m, current) ==
  LET spent == IF current THEN [m EXCEPT !.armed = FALSE] ELSE [m EXCEPT !.stale = m.stale - 1]
  IN  IF MayRestart(m, current) THEN Launches(spent) ELSE {spent}

\* The end of wait. stable says that the process had run for stableRuntime. A
\* process that is still the manager's is not that of a closed manager.
BugWaited(m, n, stable) ==
  LET over == [m EXCEPT !.run[n] = "none"]
  IN  IF m.process # n THEN over ELSE [over EXCEPT !.process = NoProcess]
Waited(m, n, stable) ==
  LET over == [m EXCEPT !.run[n] = "none"]
      free == [over EXCEPT !.process = NoProcess, !.restarts = IF stable THEN 0 ELSE m.restarts]
  IN  IF m.process # n THEN over ELSE Scheduled(free)

\* Close takes the process away from wait and makes every timer void.
Closed(m, enabled) ==
  [Disarmed(m) EXCEPT !.closed = TRUE, !.victim = m.process, !.process = NoProcess,
                      !.state = IF enabled THEN "stopped" ELSE "disabled"]

-----------------------------------------------------------------------------
(***************************************************************************)
(* The steps of a manager on its own.                                      *)
(***************************************************************************)
Becomes(g, m) == tunnel' = [tunnel EXCEPT ![g] = m]

\* A process ends, of itself or because it was killed.
Exit(g, n) ==
  /\ n \in Live(tunnel[g])
  /\ Becomes(g, [tunnel[g] EXCEPT !.run[n] = "exited"])

Wait(g, n) ==
  /\ tunnel[g].run[n] = "exited"
  /\ \E stable \in BOOLEAN : Becomes(g, Waited(tunnel[g], n, stable))

Fire(g, current) ==
  /\ IF current THEN tunnel[g].armed ELSE tunnel[g].stale > 0
  /\ \E m \in Fired(tunnel[g], current) : Becomes(g, m)

\* The rest of Close, outside the mutex: Kill, and the wait for the process. A
\* process that has ended but was not yet waited for may refuse to be killed,
\* which counts as a failure like any other; only after wait it does not.
VictimState(g) == IF tunnel[g].victim = NoProcess THEN "none" ELSE tunnel[g].run[tunnel[g].victim]

CloseKills(g) ==
  /\ VictimState(g) \in {"alive", "exited"}
  /\ Becomes(g, IF VictimState(g) = "alive"
                  THEN [tunnel[g] EXCEPT !.run[tunnel[g].victim] = "killed"] ELSE tunnel[g])

BugMayReturn(g) == TRUE
MayReturn(g) == VictimState(g) = "none"
CloseReturns(g) ==
  /\ MayReturn(g)
  /\ Becomes(g, [tunnel[g] EXCEPT !.stop = "clean"])

CloseFails(g) ==
  /\ tunnel[g].victim # NoProcess
  /\ Becomes(g, [tunnel[g] EXCEPT !.stop = "failed"])

=============================================================================
