---------------------------- MODULE AppLifecycle ----------------------------
(***************************************************************************)
(* The application and its services: start, close, and the changes of the  *)
(* configuration that replace the running service by another (app.go,      *)
(* workspace_binding.go, internal/v2/service/service.go and default.go),   *)
(* over the managers of the tunnel.                                        *)
(*                                                                         *)
(* Services are numbered as they are created. A caller is a call of one of *)
(* the application's bound methods. Service.lifecycleMu is held from the   *)
(* first to the last step of Close.                                        *)
(***************************************************************************)
EXTENDS Tunnel

CONSTANTS
  NumCallers, \* calls of the application's methods
  NumTunnels, \* tunnel ids; each has the key of its number
  Shutdown,   \* App.shutdown, as one that closes a service
  Context,    \* the goroutine that waits for the context of Start
  Nobody      \* no holder of a mutex

Callers == 1 .. NumCallers
Closers == Callers \cup {Shutdown, Context}

ASSUME LifecycleAssumption ==
  /\ NumTunnels \in Nat /\ NumCallers \in Nat
  /\ NumServices >= 1 + 2 * NumCallers
  /\ Shutdown # Context /\ {Shutdown, Context} \cap Callers = {}
  /\ Nobody \notin Closers

NoService == 0
TunnelIds == 0 .. NumTunnels  \* 0 is "not enabled", and no key in the store

VARIABLES
  service,    \* service[g]
  app,        \* App.service; NoService stands for nil
  booted,     \* startup has returned
  mutex,      \* the holder of reconfigureMu
  disk,       \* the configuration file
  key,        \* the tunnel's key in the credential store
  op,         \* op[c]: where a caller stands
  cancelled,  \* the runtime context is done
  quitting,   \* shutdown: where it stands, and the service that it closes
  said,       \* the policy that the last update of each kind was told to be in force
  overlap,    \* two calls were under way at once
  broken      \* undoing failed: of the file, or of the credential

vars == <<tunnel, service, app, booted, mutex, disk, key, op, cancelled, quitting, said, overlap, broken>>

\* agent stands for all that a reconfiguration changes but the tunnel, access for
\* the access profile and the network access.
Configs == [tunnel : TunnelIds, agent : BOOLEAN, access : BOOLEAN, rewrite : BOOLEAN]

\* listening: the MCP server and, when it is enabled, the Agent provider. active:
\* there is a coding session or an Agent request. step: what Close does next.
ServiceRecords ==
  [state : {"absent", "running", "failed", "stopping", "stopped"}, closed : BOOLEAN,
   lock : Closers \cup {Nobody}, step : {"none", "kill", "await", "rest"},
   config : Configs, key : TunnelIds, listening : BOOLEAN, active : BOOLEAN]

Pcs == {"idle", "lock", "close", "closing", "closed", "start", "publish", "cleanup", "cleaning",
        "rollback", "restart", "republish", "restore", "over"}
Kinds == {"none", "policy", "tunnel", "agent", "delete"}
Ops ==
  [pc : Pcs, kind : Kinds, value : TunnelIds, oldKey : TunnelIds, old : Services \cup {NoService},
   next : Services \cup {NoService}, before : Configs, candidate : Configs]

NoConfig == [tunnel |-> 0, agent |-> FALSE, access |-> FALSE, rewrite |-> FALSE]
Absent == [state |-> "absent", closed |-> FALSE, lock |-> Nobody, step |-> "none",
           config |-> NoConfig, key |-> 0, listening |-> FALSE, active |-> FALSE]
NewOp == [pc |-> "idle", kind |-> "none", value |-> 0, oldKey |-> 0, old |-> NoService,
          next |-> NoService, before |-> NoConfig, candidate |-> NoConfig]

Init ==
  /\ tunnel = [g \in Services |-> NewManager]
  /\ service = [g \in Services |-> Absent]
  /\ app = NoService /\ booted = FALSE /\ mutex = Nobody
  /\ key \in TunnelIds
  /\ disk = [NoConfig EXCEPT !.tunnel = key, !.agent = TRUE]
  /\ op = [c \in Callers |-> NewOp]
  /\ cancelled = FALSE /\ quitting = [pc |-> "no", target |-> NoService]
  /\ said = [access |-> FALSE, rewrite |-> FALSE]
  /\ overlap = FALSE /\ broken = FALSE

At(c, pc) == op[c].pc = pc
Go(c, pc) == op' = [op EXCEPT ![c].pc = pc]
Busy(c) == op[c].pc \notin {"idle", "over"}

-----------------------------------------------------------------------------
(***************************************************************************)
(* A new service: NewDefault reads the file and the key, Start opens the   *)
(* ports and starts the tunnel, whose failure is no failure of Start.      *)
(***************************************************************************)
Unborn(g) == service[g].state = "absent" /\ \A h \in Services : h < g => service[h].state # "absent"

Created(state) ==
  [Absent EXCEPT !.state = state, !.config = disk, !.listening = (state = "running"),
                 !.key = IF disk.tunnel = 0 THEN 0 ELSE key]

\* The ports are the same in every configuration, so two services cannot have them.
StartSucceeds(g) ==
  /\ Unborn(g) /\ \A h \in Services : ~service[h].listening
  /\ service' = [service EXCEPT ![g] = Created("running")]
  /\ \E m \in Started(NewManager, disk.tunnel # 0, Created("running").key # 0) : Becomes(g, m)

\* When the provider cannot start, the MCP server is closed again.
BugStartFails(g) ==
  /\ Unborn(g)
  /\ service' = [service EXCEPT ![g] = [Created("failed") EXCEPT !.listening = disk.agent]]
  /\ UNCHANGED tunnel
StartFails(g) ==
  /\ Unborn(g)
  /\ service' = [service EXCEPT ![g] = Created("failed")]
  /\ UNCHANGED tunnel

NewDefaultFails == UNCHANGED <<service, tunnel>>

\* startup. A service whose Start failed is published too.
Boot ==
  /\ ~booted /\ booted' = TRUE
  /\ \/ NewDefaultFails /\ UNCHANGED app
     \/ \E g \in Services : (StartSucceeds(g) \/ StartFails(g)) /\ app' = g
  /\ UNCHANGED <<mutex, disk, key, op, cancelled, quitting, said, overlap, broken>>

-----------------------------------------------------------------------------
(***************************************************************************)
(* Close of a service. The first caller does it, the others wait for the   *)
(* mutex and find it done.                                                 *)
(***************************************************************************)
Usable(g) == ~service[g].closed /\ service[g].lock = Nobody

CloseBegins(g, who) ==
  /\ Usable(g)
  /\ service' = [service EXCEPT ![g].lock = who, ![g].closed = TRUE,
                                ![g].state = "stopping", ![g].step = "kill"]
  /\ Becomes(g, Closed(tunnel[g], service[g].config.tunnel # 0))

AlreadyClosed(g) == service[g].closed /\ service[g].lock = Nobody /\ UNCHANGED <<service, tunnel>>

CloseTunnel(g) ==
  /\ \/ /\ service[g].step = "kill" /\ CloseKills(g)
        /\ service' = [service EXCEPT ![g].step = "await"]
     \/ /\ service[g].step \in {"kill", "await"} /\ (CloseReturns(g) \/ CloseFails(g))
        /\ service' = [service EXCEPT ![g].step = "rest"]
  /\ UNCHANGED <<app, booted, mutex, disk, key, op, cancelled, quitting, said, overlap, broken>>

\* What the closer c of a service does when Close has returned.
AfterClose(c, clean) ==
  CASE At(c, "cleaning") -> "rollback"
    [] At(c, "closing") /\ clean -> "closed"
    [] OTHER -> "restart"

\* Provider, coding service, MCP server: an error of one does not stop the next.
CloseEnds(g) ==
  /\ service[g].step = "rest"
  /\ service' = [service EXCEPT ![g].lock = Nobody, ![g].step = "none", ![g].state = "stopped",
                                ![g].listening = FALSE, ![g].active = FALSE]
  /\ \E ok \in BOOLEAN :
       op' = [c \in Callers |-> IF service[g].lock = c
                THEN [op[c] EXCEPT !.pc = AfterClose(c, ok /\ tunnel[g].stop = "clean")] ELSE op[c]]
  /\ quitting' = IF service[g].lock = Shutdown THEN [quitting EXCEPT !.pc = "done"] ELSE quitting
  /\ UNCHANGED <<tunnel, app, booted, mutex, disk, key, cancelled, said, overlap, broken>>

-----------------------------------------------------------------------------
(***************************************************************************)
(* A call arrives: they are numbered in the order in which they do. The    *)
(* page that calls is loaded after startup has returned.                   *)
(***************************************************************************)
Arrives(c) ==
  /\ booted /\ At(c, "idle") /\ \A d \in Callers : d < c => ~At(d, "idle")
  /\ overlap' = (overlap \/ \E d \in Callers : Busy(d))

\* ConfigureOpenAITunnel writes its key before it reconfigures, ClearOpenAITunnel
\* deletes it. If that fails they return.
ChangeTunnel(c, t) ==
  /\ Arrives(c)
  /\ key' = t
  /\ op' = [op EXCEPT ![c] = [NewOp EXCEPT !.pc = "lock", !.kind = "tunnel", !.value = t, !.oldKey = key]]
  /\ UNCHANGED <<tunnel, service, app, booted, mutex, disk, cancelled, quitting, said, broken>>

\* SetAgentEnabled, RegenerateAgentAPIKey, RegenerateMCPIdentities; DeleteWorkspace.
ChangeOther(c, kind) ==
  /\ Arrives(c)
  /\ op' = [op EXCEPT ![c] = [NewOp EXCEPT !.pc = "lock", !.kind = kind]]
  /\ UNCHANGED <<tunnel, service, app, booted, mutex, disk, key, cancelled, quitting, said, broken>>

\* The update of a policy by the service g: file, policy and memory, while
\* lifecycleMu is held. The setters accept what the configuration accepts.
UpdatePolicy(c, g, field, value) ==
  /\ Arrives(c) /\ app = g /\ Usable(g) /\ service[g].config[field] # value
  /\ disk' = [service[g].config EXCEPT ![field] = value]
  /\ service' = [service EXCEPT ![g].config = disk']
  /\ said' = [said EXCEPT ![field] = value]
  /\ op' = [op EXCEPT ![c] = [NewOp EXCEPT !.pc = "over", !.kind = "policy"]]
  /\ UNCHANGED <<tunnel, app, booted, mutex, key, cancelled, quitting, broken>>

\* UpdateCodexAccessProfile and UpdateCodexNetworkAccess.
BugUpdateAccess(c, g, value) == UpdatePolicy(c, g, "access", value)
UpdateAccess(c, g, value) == mutex = Nobody /\ UpdatePolicy(c, g, "access", value)

\* UpdateCodexRemoteGitRewrite does not take reconfigureMu.
UpdateRewrite(c, g, value) == UpdatePolicy(c, g, "rewrite", value)

-----------------------------------------------------------------------------
(***************************************************************************)
(* reconfigure and DeleteWorkspace.                                        *)
(***************************************************************************)
\* A call that fails gives up the mutex; one that wrote a key restores it.
BugFails(c) ==
  /\ Go(c, IF op[c].kind = "tunnel" THEN "restore" ELSE "over")
  /\ UNCHANGED mutex
Fails(c) ==
  /\ Go(c, IF op[c].kind = "tunnel" THEN "restore" ELSE "over")
  /\ mutex' = Nobody
Succeeds(c) == Go(c, "over") /\ mutex' = Nobody

\* There is no service, it is busy, or the file cannot be read.
Refused(c) ==
  /\ At(c, "lock") /\ mutex = Nobody
  /\ Go(c, IF op[c].kind = "tunnel" THEN "restore" ELSE "over")
  /\ UNCHANGED <<tunnel, service, app, booted, mutex, disk, key, cancelled, quitting, said, overlap, broken>>

Candidates(c) ==
  CASE op[c].kind = "tunnel" -> {[disk EXCEPT !.tunnel = op[c].value]}
    [] op[c].kind = "agent" -> {[disk EXCEPT !.agent = b] : b \in BOOLEAN}
    [] OTHER -> {disk}

Enter(c) ==
  /\ At(c, "lock") /\ mutex = Nobody
  /\ app # NoService /\ \A g \in Services : app = g => ~service[g].active
  /\ mutex' = c
  /\ \E candidate \in Candidates(c) :
       op' = [op EXCEPT ![c] = [op[c] EXCEPT !.pc = "close", !.old = app, !.before = disk, !.candidate = candidate]]
  /\ UNCHANGED <<tunnel, service, app, booted, disk, key, cancelled, quitting, said, overlap, broken>>

CloseOld(c, g) ==
  /\ At(c, "close") /\ op[c].old = g
  /\ \/ CloseBegins(g, c) /\ Go(c, "closing")
     \/ AlreadyClosed(g) /\ Go(c, "closed")
  /\ UNCHANGED <<app, booted, mutex, disk, key, cancelled, quitting, said, overlap, broken>>

\* The file is written when the old service is closed, not before.
Save(c) ==
  /\ At(c, "closed") /\ op[c].kind # "delete"
  /\ \/ disk' = op[c].candidate /\ Go(c, "start")
     \/ UNCHANGED disk /\ Go(c, "restart")
  /\ UNCHANGED <<tunnel, service, app, booted, mutex, key, cancelled, quitting, said, overlap, broken>>

\* The workspace is deleted, or not; the service comes back in any case.
Delete(c) ==
  /\ At(c, "closed") /\ op[c].kind = "delete"
  /\ Go(c, "restart")
  /\ UNCHANGED <<tunnel, service, app, booted, mutex, disk, key, cancelled, quitting, said, overlap, broken>>

Start(c) ==
  /\ At(c, "start")
  /\ \/ NewDefaultFails /\ Go(c, "rollback")
     \/ \E g \in Services : StartSucceeds(g) /\ op' = [op EXCEPT ![c].pc = "publish", ![c].next = g]
     \/ \E g \in Services : StartFails(g) /\ op' = [op EXCEPT ![c].pc = "cleanup", ![c].next = g]
  /\ UNCHANGED <<app, booted, mutex, disk, key, cancelled, quitting, said, overlap, broken>>

CleanUp(c, g) ==
  /\ At(c, "cleanup") /\ op[c].next = g
  /\ CloseBegins(g, c) /\ Go(c, "cleaning")
  /\ UNCHANGED <<app, booted, mutex, disk, key, cancelled, quitting, said, overlap, broken>>

\* When the file cannot be put back, there is no service any more.
BugRollback(c) ==
  /\ At(c, "rollback") /\ Go(c, "restart")
  /\ UNCHANGED <<tunnel, service, app, booted, mutex, disk, key, cancelled, quitting, said, overlap, broken>>
Rollback(c) ==
  /\ At(c, "rollback")
  /\ \/ disk' = op[c].before /\ Go(c, "restart") /\ UNCHANGED <<app, mutex, broken>>
     \/ app' = NoService /\ broken' = TRUE /\ Fails(c) /\ UNCHANGED disk
  /\ UNCHANGED <<tunnel, service, booted, key, cancelled, quitting, said, overlap>>

\* restartV2Service. A service that could not start is forgotten.
Restart(c) ==
  /\ At(c, "restart")
  /\ \/ \E g \in Services :
          StartSucceeds(g) /\ op' = [op EXCEPT ![c].pc = "republish", ![c].next = g] /\ UNCHANGED <<app, mutex>>
     \/ NewDefaultFails /\ app' = NoService /\ Fails(c)
     \/ \E g \in Services : StartFails(g) /\ app' = NoService /\ Fails(c)
  /\ UNCHANGED <<booted, disk, key, cancelled, quitting, said, overlap, broken>>

Publish(c) ==
  /\ op[c].pc \in {"publish", "republish"}
  /\ app' = op[c].next
  /\ IF At(c, "publish") THEN Succeeds(c) ELSE Fails(c)
  /\ UNCHANGED <<tunnel, service, booted, disk, key, cancelled, quitting, said, overlap, broken>>

Restore(c) ==
  /\ At(c, "restore") /\ Go(c, "over")
  /\ \/ key' = op[c].oldKey /\ UNCHANGED broken
     \/ UNCHANGED key /\ broken' = TRUE
  /\ UNCHANGED <<tunnel, service, app, booted, mutex, disk, cancelled, quitting, said, overlap>>

CallerSteps(c) ==
  \/ \E g \in Services : CloseOld(c, g) \/ CleanUp(c, g)
  \/ Refused(c) \/ Enter(c) \/ Save(c) \/ Delete(c) \/ Start(c) \/ Rollback(c)
  \/ Restart(c) \/ Publish(c) \/ Restore(c)

-----------------------------------------------------------------------------
(***************************************************************************)
(* The rest of the world.                                                  *)
(***************************************************************************)
\* Remote work begins and ends while the service listens.
Work(g, active) ==
  /\ service[g].listening /\ service[g].active # active
  /\ service' = [service EXCEPT ![g].active = active]
  /\ UNCHANGED <<tunnel, app, booted, mutex, disk, key, op, cancelled, quitting, said, overlap, broken>>

Cancel ==
  /\ ~cancelled /\ cancelled' = TRUE
  /\ UNCHANGED <<tunnel, service, app, booted, mutex, disk, key, op, quitting, said, overlap, broken>>

\* The goroutine that a Start that succeeded leaves behind.
ContextCloses(g) ==
  /\ cancelled /\ service[g].listening
  /\ CloseBegins(g, Context)
  /\ UNCHANGED <<app, booted, mutex, disk, key, op, cancelled, quitting, said, overlap, broken>>

\* App.shutdown closes the service that it finds, without reconfigureMu.
Quit ==
  /\ booted /\ quitting.pc = "no"
  /\ quitting' = [pc |-> IF app = NoService THEN "done" ELSE "waiting", target |-> app]
  /\ UNCHANGED <<tunnel, service, app, booted, mutex, disk, key, op, cancelled, said, overlap, broken>>

QuitCloses(g) ==
  /\ quitting.pc = "waiting" /\ quitting.target = g
  /\ \/ CloseBegins(g, Shutdown) /\ quitting' = [quitting EXCEPT !.pc = "closing"]
     \/ AlreadyClosed(g) /\ quitting' = [quitting EXCEPT !.pc = "done"]
  /\ UNCHANGED <<app, booted, mutex, disk, key, op, cancelled, said, overlap, broken>>

TunnelStep(g) ==
  /\ \/ \E n \in Names : Exit(g, n) \/ Wait(g, n)
     \/ \E current \in BOOLEAN : Fire(g, current)
  /\ UNCHANGED <<service, app, booted, mutex, disk, key, op, cancelled, quitting, said, overlap, broken>>

Call(c) ==
  \/ \E t \in TunnelIds : ChangeTunnel(c, t)
  \/ \E kind \in {"agent", "delete"} : ChangeOther(c, kind)
  \/ \E g \in Services, value \in BOOLEAN : UpdateAccess(c, g, value) \/ UpdateRewrite(c, g, value)

Next ==
  \/ Boot \/ Cancel \/ Quit
  \/ \E c \in Callers : Call(c) \/ CallerSteps(c)
  \/ \E g \in Services :
       \/ CloseTunnel(g) \/ CloseEnds(g) \/ ContextCloses(g) \/ QuitCloses(g) \/ TunnelStep(g)
       \/ \E active \in BOOLEAN : Work(g, active)

Spec == Init /\ [][Next]_vars

\* A call that has begun goes on, and so does a Close, whose waits have deadlines.
\* The goroutine that waits for the context runs.
FairSpec ==
  /\ Spec
  /\ \A c \in Callers : WF_vars(CallerSteps(c))
  /\ \A g \in Services : WF_vars(CloseTunnel(g) \/ CloseEnds(g)) /\ WF_vars(ContextCloses(g))

-----------------------------------------------------------------------------
(***************************************************************************)
(* Properties.                                                             *)
(***************************************************************************)
Quiet == booted /\ mutex = Nobody /\ \A c \in Callers : ~Busy(c)

TypeOK ==
  /\ tunnel \in [Services -> Managers]
  /\ service \in [Services -> ServiceRecords]
  /\ app \in Services \cup {NoService}
  /\ mutex \in Callers \cup {Nobody}
  /\ disk \in Configs /\ key \in TunnelIds
  /\ op \in [Callers -> Ops]
  /\ quitting \in [pc : {"no", "waiting", "closing", "done"}, target : Services \cup {NoService}]
  /\ said \in [access : BOOLEAN, rewrite : BOOLEAN]
  /\ {booted, cancelled, overlap, broken} \subseteq BOOLEAN

\* One tunnel process at a time, over all services, and none of a manager that
\* was closed, but for a process that a Close reported it could not stop. Timers,
\* wait and Close race for Manager.process, and a service starts its own process
\* when its predecessor says that it is closed.
Unstopped(g) == tunnel[g].stop = "failed"
OneTunnel ==
  /\ \A g \in Services : tunnel[g].stop = "clean" => Live(tunnel[g]) = {}
  /\ \A g \in Services, h \in Services : \A n \in Live(tunnel[g]), i \in Live(tunnel[h]) :
       <<g, n>> # <<h, i>> => Unstopped(g) \/ Unstopped(h)

\* A tunnel that runs or restarts is looked after: what the snapshot calls running
\* has a process which somebody waits for, what it calls restarting has a timer
\* that will not be ignored.
Supervised ==
  \A g \in Services : LET m == tunnel[g] IN
    /\ m.state = "running" => m.process # NoProcess /\ m.run[m.process] # "none"
    /\ m.state = "restarting" => m.armed /\ ~m.closed /\ m.process = NoProcess
    /\ service[g].state = "running" /\ m.process = NoProcess
         => m.armed \/ m.state \in {"disabled", "blocked", "failed"}

\* No service that has its ports is out of reach: it is the application's, or the
\* call that started it is about to make it so.
NoStray ==
  \A g \in Services : service[g].listening =>
    app = g \/ \E c \in Callers : op[c].pc \in {"publish", "republish"} /\ op[c].next = g

\* The key in the store is that of the tunnel in the file, as long as no undoing
\* failed and calls did not overlap (which the user interface prevents, and
\* reconfigureMu alone does not): both are changed, or both are put back.
KeyMatchesTunnel == Quiet /\ ~overlap /\ ~broken => key = disk.tunnel

\* So does the service that runs have the key of its tunnel: when a change fails,
\* reconfigure is to "rebuild the previous runtime" (app.go:373).
RuntimeRestored ==
  Quiet /\ ~overlap /\ ~broken => \A g \in Services : app = g => service[g].key = service[g].config.tunnel

\* An access profile that was answered to be in force is in the file, and the
\* file is what the service works with, whatever calls come between.
AccessKept ==
  /\ mutex = Nobody => disk.access = said.access
  /\ mutex = Nobody => \A g \in Services : app = g => service[g].config = disk

\* Every call comes back.
CallsEnd == \A c \in Callers : Busy(c) ~> ~Busy(c)

\* When the runtime context is done every service ends, also one that a call was
\* about to start, and with it its tunnel.
CancelStopsAll ==
  cancelled ~> [](\A g \in Services : ~service[g].listening /\ (Live(tunnel[g]) = {} \/ Unstopped(g)))
=============================================================================
