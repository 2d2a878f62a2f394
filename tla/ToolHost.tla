------------------------------ MODULE ToolHost ------------------------------
(***************************************************************************)
(* The Codex tool host of a coding service: the persistent processes that  *)
(* coding_exec starts and that run on after the call that started them     *)
(* (internal/v2/codextoolhost/host.go), with what the host uses of a       *)
(* command's handle (internal/codex/command.go).                           *)
(*                                                                         *)
(* The host has no goroutine but the watcher of each process. Its          *)
(* operations run in the goroutines of its callers: task[c] is where the   *)
(* call c stands inside the host. Calls are numbered as they arrive. One   *)
(* starts at most one process, so the process of c is named c.             *)
(***************************************************************************)
EXTENDS Naturals, FiniteSets

CONSTANTS
  NumCalls,       \* the calls of the MCP server
  Paths,          \* the workspaces
  MaxPersistent,  \* maxPersistentProcesses
  MaxRecords,     \* maxPersistentRecords
  None            \* no call, no workspace

ASSUME HostAssumption ==
  /\ NumCalls \in Nat
  /\ MaxPersistent \in Nat \ {0}
  /\ MaxRecords \in Nat
  /\ None \notin (1 .. NumCalls) \cup Paths

Calls == 1 .. NumCalls

VARIABLES
  host,     \* "none" until the first coding_open resolves it, "open" or "closed"
  process,  \* process[c]: the process that the call c started
  task      \* task[c]: what the call c does inside the host

hostVars == <<host, process, task>>

\* "launched" is a process that is not yet in Host.processes, "gone" one that is
\* not or no longer in it. alive says that its handle is not done, asked is
\* stopRequested, order stands for startedAt.
ProcessStates == {"none", "launched", "running", "stopping", "exited", "stopped", "gone"}
LiveStates == {"running", "stopping"}
TerminalProcess == {"exited", "stopped"}

Processes ==
  [state : ProcessStates, path : Paths \cup {None}, order : Nat, alive : BOOLEAN, asked : BOOLEAN]
NoProcess == [state |-> "none", path |-> None, order |-> 0, alive |-> FALSE, asked |-> FALSE]

Tasks ==
  [pc : {"idle", "starting", "launched", "command", "stopping", "await", "returned"},
   path : Paths \cup {None}, todo : SUBSET Calls, waits : Calls \cup {None}, ok : BOOLEAN]
Rest == [pc |-> "idle", path |-> None, todo |-> {}, waits |-> None, ok |-> TRUE]

\* Host.processes, and those of them that the limit counts.
Registered == {p \in Calls : process[p].state \in LiveStates \cup TerminalProcess}
Running == {p \in Calls : process[p].state \in LiveStates}
Terminal == {p \in Calls : process[p].state \in TerminalProcess}

HostInit ==
  /\ host = "none"
  /\ process = [p \in Calls |-> NoProcess]
  /\ task = [c \in Calls |-> Rest]

-----------------------------------------------------------------------------
(***************************************************************************)
(* Entering the host. What these do is done in one step with the caller's. *)
(***************************************************************************)
Enter(c, t) == task' = [task EXCEPT ![c] = t]
Return(c, ok) == Enter(c, [task[c] EXCEPT !.pc = "returned", !.ok = ok])

\* The service resolves its host when it opens a repository.
Resolve == host' = IF host = "none" THEN "open" ELSE host

\* A persistent start is admitted by what is in the map at this moment.
Admitted == host = "open" /\ Cardinality(Running) < MaxPersistent

HostStart(c, w) ==
  /\ IF Admitted THEN Enter(c, [Rest EXCEPT !.pc = "starting", !.path = w])
                 ELSE Return(c, FALSE)
  /\ UNCHANGED <<host, process>>

\* A foreground command.
HostRun(c, w) ==
  /\ IF host = "open" THEN Enter(c, [Rest EXCEPT !.pc = "command", !.path = w])
                      ELSE Return(c, FALSE)
  /\ UNCHANGED <<host, process>>

\* One process, named by the caller: lookupPersistent wants it in the map and
\* in the caller's workspace.
HostStop(c, w, p) ==
  /\ p \in Registered /\ process[p].path = w
  /\ Enter(c, [Rest EXCEPT !.pc = "stopping", !.todo = {p}])
  /\ UNCHANGED <<host, process>>

\* The processes of a workspace, as the map holds them at this moment.
HostStopWorkspace(c, w) ==
  /\ Enter(c, [Rest EXCEPT !.pc = "stopping", !.todo = {p \in Registered : process[p].path = w}])
  /\ UNCHANGED <<host, process>>

\* The processes are left to StopWorkspace.
BugHostClose(c) ==
  /\ Return(c, TRUE)
  /\ host' = IF host = "open" THEN "closed" ELSE host
  /\ UNCHANGED process
HostClose(c) ==
  /\ IF host = "open"
       THEN Enter(c, [Rest EXCEPT !.pc = "stopping", !.todo = Registered])
       ELSE Return(c, TRUE)
  /\ host' = IF host = "open" THEN "closed" ELSE host
  /\ UNCHANGED process

-----------------------------------------------------------------------------
(***************************************************************************)
(* Inside the host.                                                        *)
(***************************************************************************)
\* StartCommand has the app-server run the command: the process lives.
Launch(c) ==
  /\ task[c].pc = "starting"
  /\ Enter(c, [task[c] EXCEPT !.pc = "launched"])
  /\ process' = [process EXCEPT ![c] =
       [NoProcess EXCEPT !.state = "launched", !.path = task[c].path, !.alive = TRUE,
                         !.order = Cardinality({p \in Calls : process[p].order > 0}) + 1]]
  /\ UNCHANGED host

\* A policy, the runtime directories or the app-server refuse.
StartFails(c) ==
  /\ task[c].pc = "starting"
  /\ Return(c, FALSE)
  /\ UNCHANGED <<host, process>>

Discarded(c) == [process EXCEPT ![c].state = "gone", ![c].alive = FALSE]

\* The process enters the map, unless the host was closed meanwhile.
MayRegister == host = "open"
Register(c) ==
  /\ task[c].pc = "launched"
  /\ process' = IF MayRegister THEN [process EXCEPT ![c].state = "running"] ELSE Discarded(c)
  /\ Return(c, MayRegister)
  /\ UNCHANGED host

\* WriteProcessState fails.
StateWriteFails(c) ==
  /\ task[c].pc = "launched"
  /\ process' = Discarded(c)
  /\ Return(c, FALSE)
  /\ UNCHANGED host

\* The command ends, its context is cancelled or its time is over.
CommandEnds(c) ==
  /\ task[c].pc = "command"
  /\ \E ok \in BOOLEAN : Return(c, ok)
  /\ UNCHANGED <<host, process>>

\* stopPersistent: a process that runs is marked and its handle is stopped. It
\* is waited for, unless stopping the handle fails.
Stopped(p) == [process EXCEPT ![p].state = "stopping", ![p].asked = TRUE, ![p].alive = FALSE]
AskToStop(c) ==
  /\ task[c].pc = "stopping"
  /\ \E p \in task[c].todo \cap Running :
       /\ process' = Stopped(p)
       /\ \/ Enter(c, [task[c] EXCEPT !.pc = "await", !.todo = @ \ {p}, !.waits = p])
          \/ Enter(c, [task[c] EXCEPT !.todo = @ \ {p}, !.ok = FALSE])
  /\ UNCHANGED host

\* A process that ended before it was asked is fine, one that is not in the map
\* any more is an error.
NothingToStop(c) ==
  /\ task[c].pc = "stopping"
  /\ \E p \in task[c].todo \ Running :
       Enter(c, [task[c] EXCEPT !.todo = @ \ {p}, !.ok = @ /\ p \in Terminal])
  /\ UNCHANGED <<host, process>>

\* The watcher closed the process's done channel.
Awaited(c) ==
  /\ task[c].pc = "await"
  /\ process[task[c].waits].state \notin LiveStates
  /\ Enter(c, [task[c] EXCEPT !.pc = "stopping", !.waits = None])
  /\ UNCHANGED <<host, process>>

\* The caller's context or five seconds end the wait.
BugAwaitTimesOut(c) ==  \* and the error is lost
  /\ task[c].pc = "await"
  /\ Enter(c, [task[c] EXCEPT !.pc = "stopping", !.waits = None])
  /\ UNCHANGED <<host, process>>
AwaitTimesOut(c) ==
  /\ task[c].pc = "await"
  /\ Enter(c, [task[c] EXCEPT !.pc = "stopping", !.waits = None, !.ok = FALSE])
  /\ UNCHANGED <<host, process>>

StopsDone(c) ==
  /\ task[c].pc = "stopping" /\ task[c].todo = {}
  /\ Return(c, task[c].ok)
  /\ UNCHANGED <<host, process>>

-----------------------------------------------------------------------------
\* A command ends by itself.
Exit(p) ==
  /\ process[p].alive
  /\ process' = [process EXCEPT ![p].alive = FALSE]
  /\ UNCHANGED <<host, task>>

\* pruneTerminalProcesses: the oldest records of processes that ended go until
\* the map is small enough or holds no other.
BugPrunable(f, p) == f[p].state \in LiveStates \cup TerminalProcess
Prunable(f, p) == f[p].state \in TerminalProcess
Pruned(f) ==
  LET ended == {p \in Calls : Prunable(f, p)}
      all == {p \in Calls : f[p].state \in LiveStates \cup TerminalProcess}
      excess == IF Cardinality(all) > MaxRecords THEN Cardinality(all) - MaxRecords ELSE 0
      older(p) == {q \in ended : f[q].order < f[p].order}
  IN  [p \in Calls |-> IF p \in ended /\ Cardinality(older(p)) < excess
                         THEN [f[p] EXCEPT !.state = "gone"] ELSE f[p]]

\* The watcher of a process whose handle is done.
Watch(p) ==
  /\ process[p].state \in LiveStates /\ ~process[p].alive
  /\ process' = Pruned([process EXCEPT
       ![p].state = IF process[p].asked THEN "stopped" ELSE "exited"])
  /\ UNCHANGED <<host, task>>

\* What a call does inside the host until it returns.
HostStep(c) ==
  \/ Launch(c) \/ StartFails(c) \/ Register(c) \/ StateWriteFails(c) \/ CommandEnds(c)
  \/ AskToStop(c) \/ NothingToStop(c) \/ Awaited(c) \/ AwaitTimesOut(c) \/ StopsDone(c)

HostTypeOK ==
  /\ host \in {"none", "open", "closed"}
  /\ process \in [Calls -> Processes]
  /\ task \in [Calls -> Tasks]
  /\ \A c \in Calls : /\ task[c].pc = "await" => task[c].waits \in Calls
                      /\ task[c].pc \in {"starting", "launched"} => task[c].path \in Paths
=============================================================================
