-------------------------- MODULE LifecycleSafety --------------------------
(***************************************************************************)
(* Theorems of AppLifecycle and Tunnel: the tunnels of successive services *)
(* never overlap, no service is left behind with its ports, and what a     *)
(* change of the configuration wrote is kept or undone, for any number of  *)
(* calls, services, tunnels and restarts.                                  *)
(***************************************************************************)
EXTENDS AppLifecycle, TLAPS

----------------------------------------------------------------------------
(* The inductive invariant.                                                *)

\* What runs is the process of the manager, or the one that Close has taken from it;
\* a timer counts only while there is neither.
ManagerOK(m) ==
  /\ m.process # NoProcess => m.run[m.process] # "none" /\ ~m.closed /\ ~m.armed
  /\ m.victim # NoProcess \/ m.stop # "none" => m.closed
  /\ m.closed => ~m.armed
  /\ \A n \in Names : m.run[n] # "none" => n = m.process \/ n = m.victim
  /\ m.stop = "clean" => \A n \in Names : m.run[n] = "none"
  /\ m.state = "running" => m.process # NoProcess
  /\ m.state = "restarting" => m.armed

Silent(m) == m.stop = "failed" \/ \A n \in Names : m.run[n] = "none"
Supported(m) == m.process = NoProcess => m.armed \/ m.state \in {"disabled", "blocked", "failed"}

\* A service gives up its ports last: what does not listen has no tunnel any more.
ServiceOK(s, m) ==
  /\ s.state \in {"absent", "failed"} => m = NewManager
  /\ m.closed = s.closed
  /\ s.closed <=> s.state \in {"stopping", "stopped"}
  /\ s.lock # Nobody <=> s.state = "stopping"
  /\ s.step # "none" <=> s.state = "stopping"
  /\ s.step \in {"kill", "await"} => m.stop = "none"
  /\ s.step = "rest" \/ s.state = "stopped" => m.stop # "none"
  /\ s.state = "running" => s.listening /\ Supported(m)
  /\ s.listening => s.state \in {"running", "stopping"}
  /\ ~s.listening => Silent(m)

Types == tunnel \in [Services -> Managers] /\ service \in [Services -> ServiceRecords]
ServiceInv ==
  /\ \A g \in Services : ManagerOK(tunnel[g]) /\ ServiceOK(service[g], tunnel[g])
  /\ \A g, h \in Services : service[g].listening /\ service[h].listening => g = h

Fresh == {"publish", "republish"}
Replacing == {"closed", "start", "cleanup", "cleaning", "rollback", "restart"}
Holding == {"close", "closing"} \cup Replacing \cup Fresh

\* What the call relies on that has reconfigureMu, between its steps: the application
\* has the old service, which it closes before anything else, and nothing listens
\* until the new one does.
HolderOK(c) == op[c].pc \in Holding =>
  /\ mutex = c
  /\ app \in Services /\ op[c].old = app
  /\ op[c].pc # "close" => service[app].closed
  /\ op[c].pc \in Replacing => \A g \in Services : ~service[g].listening
  /\ op[c].pc \in Fresh =>
       /\ op[c].next \in Services /\ service[op[c].next].config = disk
       /\ \A g \in Services : service[g].listening => g = op[c].next
  /\ op[c].candidate.access = said.access /\ op[c].before.access = said.access

\* A call closes the old service, or the new one that did not start.
Closing(c, g) == (At(c, "closing") /\ op[c].old = g) \/ (At(c, "cleaning") /\ op[c].next = g)
LocksInv ==
  /\ \A c \in Callers : mutex = c => op[c].pc \in Holding
  /\ \A g \in Services, c \in Callers : service[g].lock = c => Closing(c, g)

BootInv == ~booted =>
  /\ app = NoService /\ mutex = Nobody
  /\ \A c \in Callers : At(c, "idle")
  /\ \A g \in Services : ~service[g].listening

CallInv == (\A c \in Callers : HolderOK(c)) /\ LocksInv /\ BootInv /\ NoStray

\* The file follows the service of the application as long as that is not closed by a
\* call that is replacing it.
DiskInv ==
  /\ disk.access = said.access
  /\ app \in Services /\ (mutex = Nobody \/ ~service[app].closed) => service[app].config = disk

\* The key of the tunnel in the file before the call, which it puts back.
OldKey(c) == IF op[c].kind = "tunnel" THEN op[c].oldKey ELSE key
KeyOK(c) ==
  /\ op[c].kind = "tunnel" => op[c].value = key
  /\ op[c].pc \in {"lock", "close", "closing", "closed", "restart", "republish", "restore"} =>
       disk.tunnel = OldKey(c)
  /\ op[c].pc \in {"start", "publish", "cleanup", "cleaning", "rollback"} => disk.tunnel = key
  /\ op[c].pc \in Holding => op[c].before.tunnel = OldKey(c)
  /\ op[c].pc \in {"close", "closing", "closed"} => op[c].candidate.tunnel = key
  /\ op[c].pc = "restore" => op[c].kind = "tunnel"
KeyInv == ~overlap =>
  /\ \A c, d \in Callers : Busy(c) /\ Busy(d) => c = d
  /\ ~broken => /\ (\A c \in Callers : ~Busy(c)) => key = disk.tunnel
                /\ \A c \in Callers : Busy(c) => KeyOK(c)

LifecycleInv == TypeOK /\ ServiceInv /\ CallInv /\ DiskInv /\ KeyInv

----------------------------------------------------------------------------
(* The managers of the tunnel.                                             *)

LEMMA NewManagerOK ==
  /\ NewManager \in Managers /\ ManagerOK(NewManager) /\ Silent(NewManager)
  /\ NewManager.process = NoProcess /\ NewManager.victim = NoProcess /\ NewManager.stop = "none"
  /\ NewManager.closed = FALSE /\ NewManager.armed = FALSE /\ NewManager.stale = 0
  /\ \A n \in Names : NewManager.run[n] = "none"
BY TunnelAssumption
   DEF NewManager, Managers, ManagerOK, Silent, Names, NoProcess, ProcessStates, TunnelStates

LEMMA DisarmedFields ==
  ASSUME NEW m \in Managers
  PROVE  /\ Disarmed(m) \in Managers /\ Disarmed(m).armed = FALSE
         /\ Disarmed(m).state = m.state /\ Disarmed(m).closed = m.closed
         /\ Disarmed(m).process = m.process /\ Disarmed(m).victim = m.victim
         /\ Disarmed(m).run = m.run /\ Disarmed(m).restarts = m.restarts
         /\ Disarmed(m).stop = m.stop
<1> DEFINE x == IF m.armed THEN m.stale + 1 ELSE m.stale
           d == [m EXCEPT !.armed = FALSE, !.stale = x]
<1>1. x \in Nat
  BY DEF Managers
<1>2. d = Disarmed(m)
  BY DEF Disarmed
<1> HIDE DEF x
<1>3. /\ d \in Managers /\ d.armed = FALSE /\ d.state = m.state /\ d.closed = m.closed
      /\ d.process = m.process /\ d.victim = m.victim /\ d.run = m.run
      /\ d.restarts = m.restarts /\ d.stop = m.stop
  BY <1>1 DEF Managers
<1> QED
  BY <1>2, <1>3

\* A restart that is scheduled has its timer, or there are no more.
LEMMA ScheduledFields ==
  ASSUME NEW m \in Managers, ~m.closed
  PROVE  LET d == Scheduled(m)
         IN  /\ d \in Managers /\ d.closed = m.closed /\ d.process = m.process
             /\ d.victim = m.victim /\ d.run = m.run /\ d.stop = m.stop
             /\ d.state \in {"failed", "restarting"} /\ (d.state = "restarting" => d.armed)
<1>1. CASE m.restarts >= MaxRestarts
  <2> DEFINE d == [m EXCEPT !.state = "failed"]
  <2>1. d = Scheduled(m)
    BY <1>1 DEF Scheduled
  <2>2. /\ d \in Managers /\ d.closed = m.closed /\ d.process = m.process /\ d.victim = m.victim
        /\ d.run = m.run /\ d.stop = m.stop /\ d.state = "failed"
    BY DEF Managers, TunnelStates
  <2> QED
    BY <2>1, <2>2
<1>2. CASE ~(m.restarts >= MaxRestarts)
  <2> DEFINE e == Disarmed(m)
             x == m.restarts + 1
             d == [e EXCEPT !.restarts = x, !.armed = TRUE, !.state = "restarting"]
  <2>1. d = Scheduled(m)
    BY <1>2 DEF Scheduled
  <2>2. x \in 0 .. MaxRestarts
    BY <1>2, TunnelAssumption DEF Managers
  <2>3. /\ e \in Managers /\ e.closed = m.closed /\ e.process = m.process /\ e.victim = m.victim
        /\ e.run = m.run /\ e.stop = m.stop
    BY DisarmedFields
  <2> HIDE DEF e, x
  <2>4. /\ d \in Managers /\ d.closed = e.closed /\ d.process = e.process /\ d.victim = e.victim
        /\ d.run = e.run /\ d.stop = e.stop /\ d.state = "restarting" /\ d.armed = TRUE
    BY <2>2, <2>3 DEF Managers, TunnelStates
  <2> QED
    BY <2>1, <2>3, <2>4
<1> QED
  BY <1>1, <1>2

\* A manager in which nothing runs and no timer is set launches a process, or tries
\* again later, or gives up.
LEMMA LaunchesFields ==
  ASSUME NEW m \in Managers, m.closed = FALSE, m.armed = FALSE, m.process = NoProcess,
         m.victim = NoProcess, m.stop = "none", \A n \in Names : m.run[n] = "none",
         NEW d \in Launches(m)
  PROVE  d \in Managers /\ ManagerOK(d) /\ d.closed = FALSE /\ d.stop = "none" /\ Supported(d)
<1>1. CASE \E n \in Names : d = Launched(m, n)
  <2>1. PICK n \in Names : d = Launched(m, n)
    BY <1>1
  <2> DEFINE r == [m.run EXCEPT ![n] = "alive"]
             e == [m EXCEPT !.process = n, !.state = "running", !.run = r]
  <2>2. e = d
    BY <2>1 DEF Launched
  <2>3. r \in [Names -> ProcessStates] /\ r[n] = "alive" /\ \A i \in Names : i # n => r[i] = "none"
    BY DEF Managers, ProcessStates
  <2>4. n # NoProcess
    BY DEF Names, NoProcess
  <2> HIDE DEF r
  <2>5. /\ e \in Managers /\ e.closed = FALSE /\ e.stop = "none" /\ e.process = n
        /\ e.victim = NoProcess /\ e.armed = FALSE /\ e.run = r /\ e.state = "running"
    BY <2>3 DEF Managers, TunnelStates
  <2> HIDE DEF e
  <2>6. ManagerOK(e) /\ Supported(e)
    BY <2>3, <2>4, <2>5 DEF ManagerOK, Supported
  <2> QED
    BY <2>2, <2>5, <2>6
<1>2. CASE d = Scheduled([m EXCEPT !.state = "failed"])
  <2> DEFINE e == [m EXCEPT !.state = "failed"]
  <2>1. /\ e \in Managers /\ e.closed = FALSE /\ e.stop = "none" /\ e.process = NoProcess
        /\ e.victim = NoProcess /\ e.run = m.run
    BY DEF Managers, TunnelStates
  <2> HIDE DEF e
  <2>2. /\ d \in Managers /\ d.closed = FALSE /\ d.process = NoProcess /\ d.victim = NoProcess
        /\ d.run = m.run /\ d.stop = "none" /\ d.state \in {"failed", "restarting"}
        /\ (d.state = "restarting" => d.armed)
    BY <1>2, <2>1, ScheduledFields DEF e
  <2> QED
    BY <2>2 DEF ManagerOK, Supported
<1> QED
  BY <1>1, <1>2 DEF Launches

LEMMA StartedFields ==
  ASSUME NEW enabled \in BOOLEAN, NEW k \in BOOLEAN, NEW d \in Started(NewManager, enabled, k)
  PROVE  d \in Managers /\ ManagerOK(d) /\ d.closed = FALSE /\ d.stop = "none" /\ Supported(d)
<1> DEFINE m == NewManager
           e == Disarmed(m)
           f == [e EXCEPT !.restarts = 0]
<1>1. CASE \E s \in {"disabled", "blocked", "failed"} : d = [m EXCEPT !.state = s]
  <2>1. PICK s \in {"disabled", "blocked", "failed"} : d = [m EXCEPT !.state = s]
    BY <1>1
  <2>2. m \in Managers
    BY NewManagerOK
  <2>3. /\ d \in Managers /\ d.closed = m.closed /\ d.process = m.process /\ d.victim = m.victim
        /\ d.run = m.run /\ d.stop = m.stop /\ d.armed = m.armed /\ d.state = s
    BY <2>1, <2>2 DEF Managers, TunnelStates
  <2> QED
    BY <2>3, NewManagerOK DEF ManagerOK, Supported
<1>2. CASE d \in Launches(f)
  <2>1. /\ e \in Managers /\ e.armed = FALSE /\ e.closed = FALSE /\ e.process = NoProcess
        /\ e.victim = NoProcess /\ e.stop = "none" /\ \A n \in Names : e.run[n] = "none"
    BY NewManagerOK, DisarmedFields
  <2> HIDE DEF e
  <2>2. 0 \in 0 .. MaxRestarts
    BY TunnelAssumption
  <2>3. /\ f \in Managers /\ f.armed = FALSE /\ f.closed = FALSE /\ f.process = NoProcess
        /\ f.victim = NoProcess /\ f.stop = "none" /\ \A n \in Names : f.run[n] = "none"
    BY <2>1, <2>2 DEF Managers
  <2> HIDE DEF f
  <2> QED
    BY <1>2, <2>3, LaunchesFields
<1> QED
  BY <1>1, <1>2 DEF Started

\* What a process, a wait or a timer may do to a manager.
Moved(m, d) ==
  /\ m # NewManager /\ d \in Managers /\ ManagerOK(d)
  /\ d.closed = m.closed /\ d.stop = m.stop
  /\ Supported(m) => Supported(d)
  /\ m.closed /\ Silent(m) => Silent(d)

LEMMA ExitMoves ==
  ASSUME NEW m \in Managers, ManagerOK(m), NEW n \in Live(m)
  PROVE  Moved(m, [m EXCEPT !.run[n] = "exited"])
<1> DEFINE r == [m.run EXCEPT ![n] = "exited"]
           d == [m EXCEPT !.run = r]
<1>1. /\ n \in Names /\ m.run[n] # "none" /\ m.run \in [Names -> ProcessStates]
  BY DEF Live, Managers
<1>2. r \in [Names -> ProcessStates] /\ r[n] = "exited" /\ \A i \in Names : i # n => r[i] = m.run[i]
  BY <1>1 DEF ProcessStates
<1> HIDE DEF r
<1>3. /\ d \in Managers /\ d.closed = m.closed /\ d.process = m.process /\ d.victim = m.victim
      /\ d.run = r /\ d.stop = m.stop /\ d.armed = m.armed /\ d.state = m.state
  BY <1>2 DEF Managers
<1> HIDE DEF d
<1>4. m.process \in Names \cup {NoProcess}
  BY DEF Managers
<1>5. ManagerOK(d)
  BY <1>1, <1>2, <1>3, <1>4 DEF ManagerOK
<1>6. m # NewManager
  BY <1>1, NewManagerOK
<1>7. Moved(m, d)
  BY <1>1, <1>3, <1>5, <1>6 DEF Moved, Supported, Silent
<1> QED
  BY <1>7 DEF d, r

LEMMA WaitMoves ==
  ASSUME NEW m \in Managers, ManagerOK(m), NEW n \in Names, m.run[n] = "exited",
         NEW stable \in BOOLEAN
  PROVE  Moved(m, Waited(m, n, stable))
<1> DEFINE r == [m.run EXCEPT ![n] = "none"]
           o == [m EXCEPT !.run = r]
           x == IF stable THEN 0 ELSE m.restarts
           f == [o EXCEPT !.process = NoProcess, !.restarts = x]
           d == Waited(m, n, stable)
<1>1. m.run \in [Names -> ProcessStates] /\ m.process \in Names \cup {NoProcess} /\ m # NewManager
  BY NewManagerOK DEF Managers
<1>2. r \in [Names -> ProcessStates] /\ r[n] = "none" /\ \A i \in Names : i # n => r[i] = m.run[i]
  BY <1>1 DEF ProcessStates
<1>3. x \in 0 .. MaxRestarts
  BY TunnelAssumption DEF Managers
<1>4. d = IF m.process # n THEN o ELSE Scheduled(f)
  BY DEF Waited
<1> HIDE DEF d, r, x
<1>5. /\ o \in Managers /\ o.closed = m.closed /\ o.process = m.process /\ o.victim = m.victim
      /\ o.run = r /\ o.stop = m.stop /\ o.armed = m.armed /\ o.state = m.state
  BY <1>2 DEF Managers
<1> HIDE DEF o
<1>6. ASSUME m.process # n PROVE Moved(m, d)
  <2>1. ManagerOK(o)
    BY <1>1, <1>2, <1>5, <1>6 DEF ManagerOK
  <2>2. Silent(m) => Silent(o)
    BY <1>2, <1>5 DEF Silent
  <2> QED
    BY <1>1, <1>4, <1>5, <1>6, <2>1, <2>2 DEF Moved, Supported
<1>7. ASSUME m.process = n PROVE Moved(m, d)
  <2>1. n # NoProcess /\ ~m.closed /\ ~m.armed
    BY <1>7 DEF ManagerOK, Names, NoProcess
  <2>2. /\ f \in Managers /\ f.closed = m.closed /\ f.process = NoProcess /\ f.victim = m.victim
        /\ f.run = r /\ f.stop = m.stop
    BY <1>3, <1>5 DEF Managers
  <2> HIDE DEF f
  <2>3. /\ d \in Managers /\ d.closed = m.closed /\ d.process = NoProcess /\ d.victim = m.victim
        /\ d.run = r /\ d.stop = m.stop /\ d.state \in {"failed", "restarting"}
        /\ (d.state = "restarting" => d.armed)
    BY <1>4, <1>7, <2>1, <2>2, ScheduledFields
  <2>4. m.victim = NoProcess /\ m.stop = "none"
    BY <2>1 DEF ManagerOK
  <2>5. \A i \in Names : r[i] = "none"
    BY <1>2, <1>7, <2>4 DEF ManagerOK, Names, NoProcess
  <2>6. ManagerOK(d)
    BY <2>1, <2>3, <2>4, <2>5 DEF ManagerOK
  <2> QED
    BY <1>1, <2>1, <2>3, <2>6 DEF Moved, Supported
<1> QED
  BY <1>6, <1>7 DEF d

LEMMA FireMoves ==
  ASSUME NEW m \in Managers, ManagerOK(m), NEW current \in BOOLEAN,
         IF current THEN m.armed ELSE m.stale > 0, NEW d \in Fired(m, current)
  PROVE  Moved(m, d)
<1>0. m # NewManager
  BY NewManagerOK
<1>1. CASE current
  <2> DEFINE e == [m EXCEPT !.armed = FALSE]
  <2>1. ~m.closed /\ m.process = NoProcess /\ m.victim = NoProcess /\ m.stop = "none"
          /\ \A n \in Names : m.run[n] = "none"
    BY <1>1 DEF ManagerOK, Names, NoProcess
  <2>2. d \in Launches(e)
    BY <1>1, <2>1 DEF Fired, MayRestart
  <2>3. /\ e \in Managers /\ e.closed = m.closed /\ e.process = NoProcess /\ e.victim = NoProcess
        /\ e.run = m.run /\ e.stop = "none" /\ e.armed = FALSE
    BY <2>1 DEF Managers
  <2>4. m.closed = FALSE
    BY <2>1 DEF Managers
  <2> HIDE DEF e
  <2>5. d \in Managers /\ ManagerOK(d) /\ d.closed = FALSE /\ d.stop = "none" /\ Supported(d)
    BY <2>1, <2>2, <2>3, <2>4, LaunchesFields
  <2> QED
    BY <1>0, <2>1, <2>4, <2>5 DEF Moved
<1>2. CASE ~current
  <2> DEFINE x == m.stale - 1
             e == [m EXCEPT !.stale = x]
  <2>1. x \in Nat
    BY <1>2 DEF Managers
  <2>2. d = e
    BY <1>2 DEF Fired, MayRestart
  <2> HIDE DEF x
  <2>3. /\ e \in Managers /\ e.closed = m.closed /\ e.process = m.process /\ e.victim = m.victim
        /\ e.run = m.run /\ e.stop = m.stop /\ e.armed = m.armed /\ e.state = m.state
    BY <2>1 DEF Managers
  <2> HIDE DEF e
  <2> QED
    BY <1>0, <2>2, <2>3 DEF Moved, ManagerOK, Supported, Silent
<1> QED
  BY <1>1, <1>2

LEMMA ClosedFields ==
  ASSUME NEW m \in Managers, ManagerOK(m), m.closed = FALSE, NEW enabled \in BOOLEAN
  PROVE  LET d == Closed(m, enabled)
         IN  /\ d \in Managers /\ ManagerOK(d) /\ d.closed = TRUE /\ d.stop = "none"
             /\ (Silent(m) => Silent(d))
<1> DEFINE e == Disarmed(m)
           x == IF enabled THEN "stopped" ELSE "disabled"
           d == [e EXCEPT !.closed = TRUE, !.victim = m.process, !.process = NoProcess, !.state = x]
<1>1. /\ e \in Managers /\ e.armed = FALSE /\ e.run = m.run /\ e.stop = m.stop
  BY DisarmedFields
<1>2. m.process \in Names \cup {NoProcess} /\ m.victim = NoProcess /\ m.stop = "none"
  BY DEF Managers, ManagerOK
<1>3. d = Closed(m, enabled)
  BY DEF Closed
<1>4. x \in {"stopped", "disabled"}
  OBVIOUS
<1> HIDE DEF e, x
<1>5. /\ d \in Managers /\ d.closed = TRUE /\ d.process = NoProcess /\ d.victim = m.process
      /\ d.run = m.run /\ d.stop = "none" /\ d.armed = FALSE /\ d.state = x
  BY <1>1, <1>2, <1>4 DEF Managers, TunnelStates
<1> HIDE DEF d
<1>6. ManagerOK(d) /\ (Silent(m) => Silent(d))
  BY <1>2, <1>4, <1>5 DEF ManagerOK, Silent, Names, NoProcess
<1> QED
  BY <1>3, <1>5, <1>6

----------------------------------------------------------------------------
(* The services.                                                           *)

LEMMA ServiceSet ==
  ASSUME Types, ServiceInv, NEW g \in Services, NEW s \in ServiceRecords, NEW m \in Managers,
         service' = [service EXCEPT ![g] = s], tunnel' = [tunnel EXCEPT ![g] = m],
         ManagerOK(m), ServiceOK(s, m),
         s.listening => service[g].listening \/ \A h \in Services : ~service[h].listening
  PROVE  /\ Types' /\ ServiceInv' /\ service'[g] = s
         /\ \A h \in Services : h # g => service'[h] = service[h]
<1>1. /\ Types' /\ service'[g] = s /\ tunnel'[g] = m
      /\ \A h \in Services : h # g => service'[h] = service[h] /\ tunnel'[h] = tunnel[h]
  BY DEF Types
<1>2. \A h \in Services : ManagerOK(tunnel'[h]) /\ ServiceOK(service'[h], tunnel'[h])
  BY <1>1 DEF ServiceInv
<1>3. \A h, i \in Services : service'[h].listening /\ service'[i].listening => h = i
  BY <1>1 DEF ServiceInv
<1> QED
  BY <1>1, <1>2, <1>3 DEF ServiceInv

LEMMA ServiceAt ==
  ASSUME Types, ServiceInv, NEW g \in Services
  PROVE  /\ service[g] \in ServiceRecords /\ tunnel[g] \in Managers
         /\ ManagerOK(tunnel[g]) /\ ServiceOK(service[g], tunnel[g])
         /\ tunnel = [tunnel EXCEPT ![g] = tunnel[g]]
         /\ service = [service EXCEPT ![g] = service[g]]
BY DEF Types, ServiceInv

\* What no step of a service, its tunnel or the world takes back.
Kept(s, t) ==
  /\ t.config = s.config
  /\ t.listening => s.listening
  /\ s.closed => t.closed
ServicesKept == \A g \in Services : Kept(service[g], service'[g])
LocksKept == \A g \in Services, c \in Callers : service'[g].lock = c => service[g].lock = c

LEMMA TunnelStepServices ==
  ASSUME Types, ServiceInv, NEW g \in Services, TunnelStep(g)
  PROVE  Types' /\ ServiceInv' /\ service' = service
<1> DEFINE m == tunnel[g]
<1>1. /\ service[g] \in ServiceRecords /\ m \in Managers /\ ManagerOK(m) /\ ServiceOK(service[g], m)
      /\ service = [service EXCEPT ![g] = service[g]]
  BY ServiceAt
<1>2. PICK d : Becomes(g, d) /\ Moved(m, d)
  <2>1. ASSUME NEW n \in Names, Exit(g, n) PROVE \E d : Becomes(g, d) /\ Moved(m, d)
    BY <1>1, <2>1, ExitMoves DEF Exit
  <2>2. ASSUME NEW n \in Names, Wait(g, n) PROVE \E d : Becomes(g, d) /\ Moved(m, d)
    BY <1>1, <2>2, WaitMoves DEF Wait
  <2>3. ASSUME NEW current \in BOOLEAN, Fire(g, current) PROVE \E d : Becomes(g, d) /\ Moved(m, d)
    BY <1>1, <2>3, FireMoves DEF Fire
  <2> QED
    BY <2>1, <2>2, <2>3 DEF TunnelStep
<1>3. service' = service
  BY DEF TunnelStep
<1> HIDE DEF m
<1>4. ServiceOK(service[g], d)
  BY <1>1, <1>2 DEF ServiceOK, Moved, ServiceRecords
<1>5. service' = [service EXCEPT ![g] = service[g]] /\ tunnel' = [tunnel EXCEPT ![g] = d]
  BY <1>1, <1>2, <1>3 DEF Becomes
<1> QED
  BY <1>1, <1>2, <1>3, <1>4, <1>5, ServiceSet DEF Moved

\* Only who is closing g may have got a lock.
LocksBy(g, who) ==
  \A h \in Services, c \in Callers : service'[h].lock = c => service[h].lock = c \/ (h = g /\ who = c)

LEMMA CloseBeginsServices ==
  ASSUME Types, ServiceInv, NEW g \in Services, NEW who \in Closers, CloseBegins(g, who)
  PROVE  Types' /\ ServiceInv' /\ ServicesKept /\ service'[g].closed = TRUE /\ LocksBy(g, who)
<1> DEFINE s == service[g]
           m == tunnel[g]
           t == [s EXCEPT !.lock = who, !.closed = TRUE, !.state = "stopping", !.step = "kill"]
           d == Closed(m, s.config.tunnel # 0)
<1>1. /\ s \in ServiceRecords /\ m \in Managers /\ ManagerOK(m) /\ ServiceOK(s, m) /\ s.closed = FALSE
  BY ServiceAt DEF CloseBegins, Usable, ServiceRecords
<1>2. /\ service' = [service EXCEPT ![g] = t] /\ tunnel' = [tunnel EXCEPT ![g] = d]
  BY DEF CloseBegins, Becomes, Types
<1>3. m.closed = FALSE /\ (s.config.tunnel # 0) \in BOOLEAN
  BY <1>1 DEF ServiceOK, Managers
<1>4. /\ d \in Managers /\ ManagerOK(d) /\ d.closed = TRUE /\ d.stop = "none"
      /\ (Silent(m) => Silent(d))
  BY <1>1, <1>3, ClosedFields
<1> HIDE DEF s, m, d
<1>5. /\ t \in ServiceRecords /\ t.lock = who /\ t.closed = TRUE /\ t.state = "stopping"
      /\ t.step = "kill" /\ t.config = s.config /\ t.listening = s.listening
  BY <1>1 DEF ServiceRecords
<1> HIDE DEF t
<1>6. who # Nobody
  BY LifecycleAssumption
<1>7. ServiceOK(t, d)
  BY <1>1, <1>4, <1>5, <1>6 DEF ServiceOK
<1>8. /\ Types' /\ ServiceInv' /\ service'[g] = t
      /\ \A h \in Services : h # g => service'[h] = service[h]
  BY <1>2, <1>4, <1>5, <1>7, ServiceSet DEF s
<1> QED
  <2>1. ServicesKept
    BY <1>5, <1>8 DEF ServicesKept, Kept, s
  <2>2. LocksBy(g, who)
    BY <1>5, <1>8 DEF LocksBy, s
  <2> QED
    BY <1>5, <1>8, <2>1, <2>2

LEMMA CloseTunnelServices ==
  ASSUME Types, ServiceInv, NEW g \in Services, CloseTunnel(g)
  PROVE  Types' /\ ServiceInv' /\ ServicesKept /\ LocksKept
<1> DEFINE s == service[g]
           m == tunnel[g]
<1>1. /\ s \in ServiceRecords /\ m \in Managers /\ ManagerOK(m) /\ ServiceOK(s, m)
      /\ s.step \in {"kill", "await"}
  BY ServiceAt DEF CloseTunnel
<1>2. /\ m.closed = TRUE /\ m.stop = "none" /\ s.state = "stopping" /\ s.closed /\ s.lock # Nobody
      /\ m.process = NoProcess /\ m.victim \in Names \cup {NoProcess}
  BY <1>1 DEF ServiceOK, ManagerOK, Managers
<1>3. PICK x \in {"await", "rest"}, d \in Managers :
        /\ service' = [service EXCEPT ![g] = [s EXCEPT !.step = x]]
        /\ tunnel' = [tunnel EXCEPT ![g] = d]
        /\ ManagerOK(d) /\ d.closed = TRUE
        /\ IF x = "await" THEN d.stop = "none" /\ (Silent(m) => Silent(d))
                          ELSE d.stop # "none" /\ (Silent(m) => Silent(d))
  <2>1. CASE s.step = "kill" /\ CloseKills(g) /\ service' = [service EXCEPT ![g].step = "await"]
    <3> DEFINE v == m.victim
               r == [m.run EXCEPT ![v] = "killed"]
               k == [m EXCEPT !.run = r]
               d == IF VictimState(g) = "alive" THEN k ELSE m
    <3>1. /\ v \in Names /\ m.run[v] \in {"alive", "exited"} /\ m.run \in [Names -> ProcessStates]
          /\ tunnel' = [tunnel EXCEPT ![g] = d]
      BY <1>1, <1>2, <2>1 DEF CloseKills, VictimState, Becomes, Managers
    <3>2. r \in [Names -> ProcessStates] /\ r[v] = "killed" /\ \A i \in Names : i # v => r[i] = m.run[i]
      BY <3>1 DEF ProcessStates
    <3> HIDE DEF r
    <3>3. /\ k \in Managers /\ k.closed = m.closed /\ k.process = m.process /\ k.victim = m.victim
          /\ k.run = r /\ k.stop = m.stop /\ k.armed = m.armed /\ k.state = m.state
      BY <1>1, <3>2 DEF Managers
    <3> HIDE DEF k
    <3>4. ManagerOK(k) /\ ~Silent(m)
      BY <1>1, <1>2, <3>1, <3>2, <3>3 DEF ManagerOK, Silent
    <3>5. service' = [service EXCEPT ![g] = [s EXCEPT !.step = "await"]]
      BY <2>1 DEF Types
    <3>6. d \in Managers /\ ManagerOK(d) /\ d.closed = TRUE /\ d.stop = "none"
      BY <1>1, <1>2, <3>3, <3>4
    <3> QED
      BY <3>1, <3>4, <3>5, <3>6
  <2>2. CASE CloseReturns(g) /\ service' = [service EXCEPT ![g].step = "rest"]
    <3> DEFINE d == [m EXCEPT !.stop = "clean"]
    <3>1. tunnel' = [tunnel EXCEPT ![g] = d] /\ service' = [service EXCEPT ![g] = [s EXCEPT !.step = "rest"]]
      BY <2>2 DEF CloseReturns, Becomes, Types
    <3>2. /\ d \in Managers /\ d.closed = m.closed /\ d.process = m.process /\ d.victim = m.victim
          /\ d.run = m.run /\ d.stop = "clean" /\ d.armed = m.armed /\ d.state = m.state
      BY <1>1 DEF Managers
    <3> HIDE DEF d
    <3>3. \A n \in Names : m.run[n] = "none"
      BY <1>1, <1>2, <2>2 DEF CloseReturns, MayReturn, VictimState, ManagerOK, NoProcess, Names
    <3>4. ManagerOK(d) /\ Silent(d)
      BY <1>1, <1>2, <3>2, <3>3 DEF ManagerOK, Silent
    <3> QED
      BY <1>2, <3>1, <3>2, <3>4
  <2>3. CASE CloseFails(g) /\ service' = [service EXCEPT ![g].step = "rest"]
    <3> DEFINE d == [m EXCEPT !.stop = "failed"]
    <3>1. tunnel' = [tunnel EXCEPT ![g] = d] /\ service' = [service EXCEPT ![g] = [s EXCEPT !.step = "rest"]]
      BY <2>3 DEF CloseFails, Becomes, Types
    <3>2. /\ d \in Managers /\ d.closed = m.closed /\ d.process = m.process /\ d.victim = m.victim
          /\ d.run = m.run /\ d.stop = "failed" /\ d.armed = m.armed /\ d.state = m.state
      BY <1>1 DEF Managers
    <3> HIDE DEF d
    <3>3. ManagerOK(d) /\ Silent(d)
      BY <1>1, <1>2, <3>2 DEF ManagerOK, Silent
    <3> QED
      BY <1>2, <3>1, <3>2, <3>3
  <2> QED
    BY <2>1, <2>2, <2>3 DEF CloseTunnel
<1> DEFINE t == [s EXCEPT !.step = x]
<1> HIDE DEF s, m
<1>4. /\ t \in ServiceRecords /\ t.lock = s.lock /\ t.closed = s.closed /\ t.state = s.state
      /\ t.step = x /\ t.config = s.config /\ t.listening = s.listening
  BY <1>1 DEF ServiceRecords
<1>5. service' = [service EXCEPT ![g] = t]
  BY <1>3
<1> HIDE DEF t
<1>6. ServiceOK(t, d)
  BY <1>1, <1>2, <1>3, <1>4 DEF ServiceOK
<1>7. /\ Types' /\ ServiceInv' /\ service'[g] = t
      /\ \A h \in Services : h # g => service'[h] = service[h]
  BY <1>3, <1>4, <1>5, <1>6, ServiceSet DEF s
<1> QED
  BY <1>4, <1>7 DEF ServicesKept, LocksKept, Kept, s

LEMMA CloseEndsServices ==
  ASSUME Types, ServiceInv, NEW g \in Services, CloseEnds(g)
  PROVE  /\ Types' /\ ServiceInv' /\ ServicesKept /\ ~service'[g].listening /\ service[g].closed
         /\ \A h \in Services, c \in Callers : service'[h].lock = c => h # g /\ service[h].lock = c
<1> DEFINE s == service[g]
           m == tunnel[g]
           t == [s EXCEPT !.lock = Nobody, !.step = "none", !.state = "stopped",
                          !.listening = FALSE, !.active = FALSE]
<1>1. /\ s \in ServiceRecords /\ m \in Managers /\ ManagerOK(m) /\ ServiceOK(s, m)
      /\ s.step = "rest" /\ tunnel = [tunnel EXCEPT ![g] = m]
  BY ServiceAt DEF CloseEnds
<1>2. m.stop # "none" /\ s.closed /\ m.closed = s.closed
  BY <1>1 DEF ServiceOK
<1>3. Silent(m)
  BY <1>1, <1>2 DEF ManagerOK, Silent, Managers
<1>4. service' = [service EXCEPT ![g] = t] /\ tunnel' = [tunnel EXCEPT ![g] = m]
  BY <1>1 DEF CloseEnds, Types
<1>5. /\ t \in ServiceRecords /\ t.lock = Nobody /\ t.closed = s.closed /\ t.state = "stopped"
      /\ t.step = "none" /\ t.config = s.config /\ t.listening = FALSE
  BY <1>1 DEF ServiceRecords
<1> HIDE DEF s, m, t
<1>6. ServiceOK(t, m)
  BY <1>2, <1>3, <1>5 DEF ServiceOK
<1>7. /\ Types' /\ ServiceInv' /\ service'[g] = t
      /\ \A h \in Services : h # g => service'[h] = service[h]
  BY <1>1, <1>4, <1>5, <1>6, ServiceSet
<1>8. \A c \in Callers : c # Nobody
  BY LifecycleAssumption DEF Closers
<1> QED
  BY <1>2, <1>5, <1>7, <1>8 DEF ServicesKept, Kept, s

\* A new service g, of the configuration in the file.
Arrived(g) ==
  /\ service[g].closed = FALSE /\ service'[g].config = disk /\ service'[g].closed = FALSE
  /\ \A h \in Services : h # g => service'[h] = service[h]

LEMMA CreatedFields ==
  ASSUME disk \in Configs, key \in TunnelIds, NEW state \in {"running", "failed"}
  PROVE  LET t == Created(state)
         IN  /\ t \in ServiceRecords /\ t.state = state /\ t.closed = FALSE /\ t.lock = Nobody
             /\ t.step = "none" /\ t.config = disk /\ t.listening = (state = "running")
<1> DEFINE x == state = "running"
           y == IF disk.tunnel = 0 THEN 0 ELSE key
           t == [Absent EXCEPT !.state = state, !.config = disk, !.listening = x, !.key = y]
<1>1. x \in BOOLEAN /\ y \in TunnelIds
  BY LifecycleAssumption DEF TunnelIds
<1>2. NoConfig \in Configs
  BY LifecycleAssumption DEF NoConfig, Configs, TunnelIds
<1>3. Absent \in ServiceRecords /\ Absent.closed = FALSE /\ Absent.lock = Nobody /\ Absent.step = "none"
  BY <1>2, LifecycleAssumption DEF Absent, ServiceRecords, TunnelIds
<1>4. t = Created(state)
  BY DEF Created
<1> HIDE DEF y
<1>5. /\ t \in ServiceRecords /\ t.state = state /\ t.closed = FALSE /\ t.lock = Nobody
      /\ t.step = "none" /\ t.config = disk /\ t.listening = x
  BY <1>1, <1>3 DEF ServiceRecords
<1> QED
  BY <1>4, <1>5

LEMMA StartSucceedsServices ==
  ASSUME Types, ServiceInv, disk \in Configs, key \in TunnelIds, NEW g \in Services, StartSucceeds(g)
  PROVE  /\ Types' /\ ServiceInv' /\ Arrived(g) /\ LocksKept
         /\ \A h \in Services : ~service[h].listening /\ (service'[h].listening => h = g)
<1> DEFINE t == Created("running")
<1>1. /\ service[g].state = "absent" /\ ServiceOK(service[g], tunnel[g]) /\ service[g].closed \in BOOLEAN
      /\ \A h \in Services : ~service[h].listening
  BY ServiceAt DEF StartSucceeds, Unborn, ServiceRecords
<1>2. PICK d \in Started(NewManager, disk.tunnel # 0, t.key # 0) : Becomes(g, d)
  BY DEF StartSucceeds
<1>3. d \in Managers /\ ManagerOK(d) /\ d.closed = FALSE /\ d.stop = "none" /\ Supported(d)
  <2>1. (disk.tunnel # 0) \in BOOLEAN /\ (t.key # 0) \in BOOLEAN
    OBVIOUS
  <2> HIDE DEF t
  <2> QED
    BY <1>2, <2>1, StartedFields
<1>4. service' = [service EXCEPT ![g] = t] /\ tunnel' = [tunnel EXCEPT ![g] = d]
  BY <1>2 DEF StartSucceeds, Becomes
<1>5. /\ t \in ServiceRecords /\ t.state = "running" /\ t.closed = FALSE /\ t.lock = Nobody
      /\ t.step = "none" /\ t.config = disk /\ t.listening = TRUE
  BY CreatedFields
<1> HIDE DEF t
<1>6. ServiceOK(t, d)
  BY <1>3, <1>5 DEF ServiceOK
<1>7. /\ Types' /\ ServiceInv' /\ service'[g] = t
      /\ \A h \in Services : h # g => service'[h] = service[h]
  BY <1>1, <1>3, <1>4, <1>5, <1>6, ServiceSet
<1>8. service[g].closed = FALSE
  BY <1>1 DEF ServiceOK
<1>9. \A c \in Callers : c # Nobody
  BY LifecycleAssumption DEF Closers
<1> QED
  BY <1>1, <1>5, <1>7, <1>8, <1>9 DEF Arrived, LocksKept

LEMMA StartFailsServices ==
  ASSUME Types, ServiceInv, disk \in Configs, key \in TunnelIds, NEW g \in Services, StartFails(g)
  PROVE  /\ Types' /\ ServiceInv' /\ Arrived(g) /\ LocksKept
         /\ \A h \in Services : service'[h].listening => service[h].listening
<1> DEFINE t == Created("failed")
           d == tunnel[g]
<1>1. /\ service[g].state = "absent" /\ ServiceOK(service[g], d) /\ service[g].closed \in BOOLEAN
      /\ d \in Managers /\ ManagerOK(d) /\ tunnel = [tunnel EXCEPT ![g] = d]
  BY ServiceAt DEF StartFails, Unborn, ServiceRecords
<1>2. d = NewManager
  BY <1>1 DEF ServiceOK
<1>3. service' = [service EXCEPT ![g] = t] /\ tunnel' = [tunnel EXCEPT ![g] = d]
  BY <1>1 DEF StartFails
<1>4. /\ t \in ServiceRecords /\ t.state = "failed" /\ t.closed = FALSE /\ t.lock = Nobody
      /\ t.step = "none" /\ t.config = disk /\ t.listening = FALSE
  BY CreatedFields
<1> HIDE DEF t, d
<1>5. ServiceOK(t, d)
  BY <1>2, <1>4, NewManagerOK DEF ServiceOK
<1>6. /\ Types' /\ ServiceInv' /\ service'[g] = t
      /\ \A h \in Services : h # g => service'[h] = service[h]
  BY <1>1, <1>3, <1>4, <1>5, ServiceSet
<1>7. service[g].closed = FALSE
  BY <1>1 DEF ServiceOK
<1>8. \A c \in Callers : c # Nobody
  BY LifecycleAssumption DEF Closers
<1> QED
  BY <1>4, <1>6, <1>7, <1>8 DEF Arrived, LocksKept

\* A field of a service that says nothing of its life.
LEMMA FieldServices ==
  ASSUME Types, ServiceInv, NEW g \in Services, NEW t \in ServiceRecords,
         service' = [service EXCEPT ![g] = t], tunnel' = tunnel,
         t.state = service[g].state, t.closed = service[g].closed, t.lock = service[g].lock,
         t.step = service[g].step, t.listening = service[g].listening
  PROVE  /\ Types' /\ ServiceInv' /\ LocksKept /\ service'[g] = t
         /\ \A h \in Services : h # g => service'[h] = service[h]
<1>1. /\ tunnel[g] \in Managers /\ ManagerOK(tunnel[g]) /\ ServiceOK(service[g], tunnel[g])
      /\ tunnel = [tunnel EXCEPT ![g] = tunnel[g]]
  BY ServiceAt
<1>2. ServiceOK(t, tunnel[g])
  BY <1>1 DEF ServiceOK
<1>3. /\ Types' /\ ServiceInv' /\ service'[g] = t
      /\ \A h \in Services : h # g => service'[h] = service[h]
  BY <1>1, <1>2, ServiceSet
<1> QED
  BY <1>3 DEF LocksKept

LEMMA WorkServices ==
  ASSUME Types, ServiceInv, NEW g \in Services, NEW active \in BOOLEAN, Work(g, active)
  PROVE  Types' /\ ServiceInv' /\ ServicesKept /\ LocksKept
<1> DEFINE s == service[g]
           t == [s EXCEPT !.active = active]
<1>1. s \in ServiceRecords
  BY ServiceAt
<1>2. service' = [service EXCEPT ![g] = t] /\ tunnel' = tunnel
  BY DEF Work
<1>3. /\ t \in ServiceRecords /\ t.state = s.state /\ t.closed = s.closed /\ t.lock = s.lock
      /\ t.step = s.step /\ t.listening = s.listening /\ t.config = s.config
  BY <1>1 DEF ServiceRecords
<1> HIDE DEF t
<1>4. /\ Types' /\ ServiceInv' /\ LocksKept /\ service'[g] = t
      /\ \A h \in Services : h # g => service'[h] = service[h]
  BY <1>2, <1>3, FieldServices
<1> QED
  BY <1>3, <1>4 DEF ServicesKept, Kept

\* The service g has the new configuration, and so has the file.
LEMMA PolicyServices ==
  ASSUME Types, ServiceInv, NEW c \in Callers, NEW g \in Services, NEW value \in BOOLEAN,
         NEW field \in {"access", "rewrite"}, UpdatePolicy(c, g, field, value)
  PROVE  /\ Types' /\ ServiceInv' /\ LocksKept /\ disk' \in Configs /\ app = g
         /\ service[g].closed = FALSE /\ service'[g].config = disk'
         /\ disk'.tunnel = service[g].config.tunnel
         /\ disk'.access = IF field = "access" THEN value ELSE service[g].config.access
         /\ \A h \in Services : /\ service'[h].closed = service[h].closed
                                /\ service'[h].listening = service[h].listening
                                /\ h # g => service'[h].config = service[h].config
<1> DEFINE s == service[g]
           k == s.config
           t == [s EXCEPT !.config = disk']
<1>1. s \in ServiceRecords /\ k \in Configs /\ app = g /\ s.closed = FALSE
  BY ServiceAt DEF UpdatePolicy, Usable, ServiceRecords
<1>2. disk' = [k EXCEPT ![field] = value]
  BY DEF UpdatePolicy
<1>3. /\ disk' \in Configs /\ disk'.tunnel = k.tunnel
      /\ disk'.access = IF field = "access" THEN value ELSE k.access
  <2>1. CASE field = "access"
    BY <1>1, <1>2, <2>1 DEF Configs
  <2>2. CASE field = "rewrite"
    BY <1>1, <1>2, <2>2 DEF Configs
  <2> QED
    BY <2>1, <2>2
<1>4. service' = [service EXCEPT ![g] = t] /\ tunnel' = tunnel
  BY DEF UpdatePolicy
<1>5. /\ t \in ServiceRecords /\ t.state = s.state /\ t.closed = s.closed /\ t.lock = s.lock
      /\ t.step = s.step /\ t.listening = s.listening /\ t.config = disk'
  BY <1>1, <1>3 DEF ServiceRecords
<1> HIDE DEF t
<1>6. /\ Types' /\ ServiceInv' /\ LocksKept /\ service'[g] = t
      /\ \A h \in Services : h # g => service'[h] = service[h]
  BY <1>4, <1>5, FieldServices
<1> QED
  BY <1>1, <1>3, <1>5, <1>6

----------------------------------------------------------------------------
(* The calls.                                                              *)

Quits == [pc : {"no", "waiting", "closing", "done"}, target : Services \cup {NoService}]

LEMMA Unpacked ==
  ASSUME LifecycleInv
  PROVE  /\ TypeOK /\ ServiceInv /\ CallInv /\ DiskInv /\ KeyInv /\ Types
         /\ disk \in Configs /\ key \in TunnelIds /\ op \in [Callers -> Ops]
         /\ app \in Services \cup {NoService} /\ mutex \in Callers \cup {Nobody}
         /\ quitting \in Quits /\ said \in [access : BOOLEAN, rewrite : BOOLEAN]
         /\ booted \in BOOLEAN /\ cancelled \in BOOLEAN /\ overlap \in BOOLEAN /\ broken \in BOOLEAN
BY DEF LifecycleInv, TypeOK, Types, Quits

LEMMA Constants ==
  /\ \A c \in Callers : c # Nobody /\ c # Shutdown /\ c # Context
  /\ Callers \subseteq Closers /\ Shutdown \in Closers /\ Context \in Closers
  /\ NoService \notin Services /\ 0 \in TunnelIds /\ NoConfig \in Configs
BY LifecycleAssumption, TunnelAssumption
   DEF Closers, Callers, NoService, Services, TunnelIds, NoConfig, Configs

\* A step of a service, its tunnel, the world or the closers that are no calls.
LEMMA ServicesNext ==
  ASSUME LifecycleInv, Types', ServiceInv', ServicesKept, LocksKept,
         UNCHANGED <<app, booted, mutex, disk, key, op, said, overlap, broken>>,
         quitting' \in Quits, cancelled' \in BOOLEAN
  PROVE  LifecycleInv'
<1>t. /\ TypeOK /\ CallInv /\ DiskInv /\ KeyInv /\ app \in Services \cup {NoService}
  BY Unpacked
<1>1. TypeOK'
  BY <1>t DEF TypeOK, Types, Quits
<1>2. \A g \in Services : /\ service'[g].config = service[g].config
                          /\ service'[g].listening => service[g].listening
                          /\ service[g].closed => service'[g].closed
  BY DEF ServicesKept, Kept
<1>3. \A c \in Callers : HolderOK(c)'
  BY <1>t, <1>2 DEF CallInv, HolderOK
<1>4. LocksInv' /\ BootInv' /\ NoStray'
  BY <1>t, <1>2 DEF CallInv, LocksInv, LocksKept, Closing, At, BootInv, NoStray
<1>5. DiskInv'
  BY <1>t, <1>2 DEF DiskInv
<1>6. KeyInv'
  BY <1>t DEF KeyInv, KeyOK, OldKey, Busy
<1> QED
  BY <1>1, <1>3, <1>4, <1>5, <1>6 DEF LifecycleInv, CallInv

\* A step of the call c that has the mutex, takes it or is refused it, after which the
\* call stands at o.
LEMMA CallerNext ==
  ASSUME LifecycleInv, NEW c \in Callers, NEW o \in Ops, op' = [op EXCEPT ![c] = o],
         op[c].pc \notin {"idle", "over"}, o.pc # "idle",
         mutex \in {c, Nobody}, mutex' = IF o.pc \in Holding THEN c ELSE Nobody,
         Types', ServiceInv', disk' \in Configs, key' \in TunnelIds,
         app' \in Services \cup {NoService}, broken' \in BOOLEAN, broken => broken',
         UNCHANGED <<booted, cancelled, quitting, said, overlap>>,
         HolderOK(c)', DiskInv',
         \A g \in Services, d \in Callers : service'[g].lock = d => service[g].lock = d \/ d = c,
         \A g \in Services : service'[g].lock = c => Closing(c, g)',
         \A g \in Services : service'[g].listening => app' = g \/ (o.pc \in Fresh /\ o.next = g),
         ~broken' /\ KeyOK(c) => IF o.pc = "over" THEN key' = disk'.tunnel ELSE KeyOK(c)'
  PROVE  LifecycleInv'
<1>t. /\ TypeOK /\ CallInv /\ KeyInv /\ op \in [Callers -> Ops]
  BY Unpacked
<1>0. /\ op' \in [Callers -> Ops] /\ op'[c] = o
      /\ \A d \in Callers : d # c => op'[d] = op[d]
  BY <1>t
<1>1. TypeOK'
  BY <1>t, <1>0, Constants DEF TypeOK, Types
<1>2. \A d \in Callers : d # c => op[d].pc \notin Holding
  BY <1>t, Constants DEF CallInv, HolderOK
<1>3. \A d \in Callers : HolderOK(d)'
  BY <1>0, <1>2 DEF HolderOK
<1>4. LocksInv'
  <2>1. \A g \in Services, d \in Callers : d # c => service[g].lock # d
    BY <1>t, <1>2 DEF CallInv, LocksInv, Closing, At, Holding, Replacing
  <2>2. \A d \in Callers : mutex' = d => d = c /\ op'[d].pc \in Holding
    BY <1>0, Constants
  <2> QED
    BY <2>1, <2>2 DEF LocksInv
<1>5. BootInv'
  BY <1>t DEF CallInv, BootInv, At
<1>6. NoStray'
  BY <1>0 DEF NoStray, Fresh
<1>7. KeyInv'
  <2>1. Busy(c) /\ (Busy(c)' <=> o.pc # "over") /\ \A d \in Callers : d # c => (Busy(d)' <=> Busy(d))
    BY <1>0 DEF Busy
  <2>2. ASSUME ~overlap PROVE \A d \in Callers : d # c => ~Busy(d)
    BY <1>t, <2>1, <2>2 DEF KeyInv
  <2>3. ASSUME ~overlap, ~broken' PROVE KeyOK(c)
    BY <1>t, <2>1, <2>3, Unpacked DEF KeyInv
  <2>4. ASSUME ~overlap, NEW d \in Callers, NEW e \in Callers, Busy(d)', Busy(e)' PROVE d = e
    BY <2>1, <2>2, <2>4
  <2>5. ASSUME ~overlap, ~broken', \A d \in Callers : ~Busy(d)' PROVE key' = disk'.tunnel
    BY <2>1, <2>3, <2>5
  <2>6. ASSUME ~overlap, ~broken', NEW d \in Callers, Busy(d)' PROVE KeyOK(d)'
    BY <2>1, <2>2, <2>3, <2>6
  <2> QED
    BY <2>4, <2>5, <2>6 DEF KeyInv
<1> QED
  BY <1>1, <1>3, <1>4, <1>5, <1>6, <1>7 DEF LifecycleInv, CallInv

\* What a call that has the mutex knows.
LEMMA Holder ==
  ASSUME LifecycleInv, NEW c \in Callers, op[c].pc \in Holding
  PROVE  /\ mutex = c /\ app \in Services /\ op[c].old = app /\ op[c] \in Ops
         /\ op[c].pc # "close" => service[app].closed
         /\ op[c].pc \in Replacing => \A g \in Services : ~service[g].listening
         /\ op[c].pc \in Fresh =>
              /\ op[c].next \in Services /\ service[op[c].next].config = disk
              /\ \A g \in Services : service[g].listening => g = op[c].next
         /\ op[c].pc \notin Fresh => \A g \in Services : service[g].listening => app = g
         /\ op[c].candidate.access = said.access /\ op[c].before.access = said.access
         /\ disk.access = said.access
         /\ ~service[app].closed => service[app].config = disk
         /\ op[c].pc \notin {"closing", "cleaning"} => \A g \in Services : service[g].lock # c
<1>t. /\ CallInv /\ DiskInv /\ op \in [Callers -> Ops]
  BY Unpacked
<1>1. HolderOK(c)
  BY <1>t DEF CallInv
<1>2. op[c].pc \notin {"closing", "cleaning"} => \A g \in Services : service[g].lock # c
  BY <1>t DEF CallInv, LocksInv, Closing, At
<1>3. op[c].pc \notin Fresh => \A g \in Services : service[g].listening => app = g
  <2>1. \A d \in Callers : op[d].pc \in Fresh => d = c
    BY <1>t, <1>1 DEF CallInv, HolderOK, Holding
  <2> QED
    BY <1>t, <2>1 DEF CallInv, NoStray, Fresh
<1> QED
  BY <1>t, <1>1, <1>2, <1>3 DEF HolderOK, DiskInv

LEMMA GoFields ==
  ASSUME op \in [Callers -> Ops], NEW c \in Callers, NEW pc \in Pcs
  PROVE  LET o == [op[c] EXCEPT !.pc = pc]
         IN  /\ o \in Ops /\ (Go(c, pc) => op' = [op EXCEPT ![c] = o])
             /\ o.pc = pc /\ o.kind = op[c].kind /\ o.value = op[c].value /\ o.oldKey = op[c].oldKey
             /\ o.old = op[c].old /\ o.next = op[c].next /\ o.before = op[c].before
             /\ o.candidate = op[c].candidate
<1> DEFINE p == op[c]
<1>1. p \in Ops
  OBVIOUS
<1>2. Go(c, pc) => op' = [op EXCEPT ![c] = [p EXCEPT !.pc = pc]]
  BY DEF Go
<1> HIDE DEF p
<1>3. LET o == [p EXCEPT !.pc = pc]
      IN  /\ o \in Ops /\ o.pc = pc /\ o.kind = p.kind /\ o.value = p.value /\ o.oldKey = p.oldKey
          /\ o.old = p.old /\ o.next = p.next /\ o.before = p.before /\ o.candidate = p.candidate
  BY <1>1 DEF Ops
<1> QED
  BY <1>2, <1>3 DEF p

LEMMA Still ==
  ASSUME Types, ServiceInv, service' = service, tunnel' = tunnel
  PROVE  Types' /\ ServiceInv' /\ ServicesKept /\ LocksKept
BY DEF Types, ServiceInv, ServicesKept, LocksKept, Kept

LEMMA RefusedNext == ASSUME LifecycleInv, NEW c \in Callers, Refused(c) PROVE LifecycleInv'
<1> DEFINE x == IF op[c].kind = "tunnel" THEN "restore" ELSE "over"
           o == [op[c] EXCEPT !.pc = x]
<1>t. /\ Types /\ ServiceInv /\ CallInv /\ DiskInv /\ op \in [Callers -> Ops] /\ op[c] \in Ops
      /\ disk \in Configs /\ key \in TunnelIds /\ app \in Services \cup {NoService} /\ broken \in BOOLEAN
  BY Unpacked
<1>0. /\ op[c].pc = "lock" /\ mutex = Nobody /\ Go(c, x)
      /\ UNCHANGED <<tunnel, service, app, booted, mutex, disk, key, cancelled, quitting, said, overlap, broken>>
  BY DEF Refused, At
<1>x. x \in {"restore", "over"} /\ x \in Pcs
  BY DEF Pcs
<1>1. /\ o \in Ops /\ op' = [op EXCEPT ![c] = o] /\ o.pc = x /\ o.kind = op[c].kind
      /\ o.value = op[c].value /\ o.oldKey = op[c].oldKey /\ op'[c] = o
  BY <1>t, <1>0, <1>x, GoFields
<1> HIDE DEF o
<1>2. x \notin Holding
  BY <1>x DEF Holding, Replacing, Fresh
<1>3. \A d \in Callers : op[d].pc \notin Holding
  BY <1>t, <1>0, Constants DEF CallInv, HolderOK
<1>4. \A g \in Services : service[g].lock # c /\ (service[g].listening => app = g)
  BY <1>t, <1>3 DEF CallInv, LocksInv, Closing, At, NoStray, Holding, Replacing, Fresh
<1>5. KeyOK(c) => IF o.pc = "over" THEN key' = disk'.tunnel ELSE KeyOK(c)'
  BY <1>0, <1>1, <1>2 DEF KeyOK, OldKey, Holding, Replacing, Fresh
<1>6. HolderOK(c)' /\ DiskInv'
  BY <1>t, <1>0, <1>1, <1>2 DEF HolderOK, DiskInv
<1>7. Types' /\ ServiceInv'
  BY <1>t, <1>0, Still
<1> HIDE DEF x
<1> QED
  BY <1>t, <1>0, <1>x, <1>1, <1>2, <1>4, <1>5, <1>6, <1>7, CallerNext

LEMMA EnterNext == ASSUME LifecycleInv, NEW c \in Callers, Enter(c) PROVE LifecycleInv'
<1>t. /\ Types /\ ServiceInv /\ CallInv /\ DiskInv /\ op \in [Callers -> Ops] /\ op[c] \in Ops
      /\ disk \in Configs /\ key \in TunnelIds /\ app \in Services \cup {NoService} /\ broken \in BOOLEAN
  BY Unpacked
<1>0. /\ op[c].pc = "lock" /\ mutex = Nobody /\ mutex' = c /\ app \in Services
      /\ UNCHANGED <<tunnel, service, app, booted, disk, key, cancelled, quitting, said, overlap, broken>>
  BY <1>t DEF Enter, At
<1>1. PICK k \in Candidates(c) :
        op' = [op EXCEPT ![c] = [op[c] EXCEPT !.pc = "close", !.old = app, !.before = disk, !.candidate = k]]
  BY DEF Enter
<1>2. /\ k \in Configs /\ k.access = disk.access
      /\ k.tunnel = IF op[c].kind = "tunnel" THEN op[c].value ELSE disk.tunnel
  <2>1. CASE op[c].kind = "tunnel"
    <3>1. op[c].value \in TunnelIds
      BY <1>t DEF Ops
    <3> QED
      BY <1>t, <1>1, <2>1, <3>1 DEF Candidates, Configs
  <2>2. CASE op[c].kind = "agent"
    <3>1. PICK b \in BOOLEAN : k = [disk EXCEPT !.agent = b]
      BY <1>1, <2>2 DEF Candidates
    <3> QED
      BY <1>t, <2>2, <3>1 DEF Configs
  <2>3. CASE op[c].kind \notin {"tunnel", "agent"}
    BY <1>t, <1>1, <2>3 DEF Candidates
  <2> QED
    BY <2>1, <2>2, <2>3
<1> DEFINE o == [op[c] EXCEPT !.pc = "close", !.old = app, !.before = disk, !.candidate = k]
<1>3. /\ o \in Ops /\ o.pc = "close" /\ o.kind = op[c].kind /\ o.value = op[c].value
      /\ o.oldKey = op[c].oldKey /\ o.old = app /\ o.before = disk /\ o.candidate = k
  BY <1>t, <1>0, <1>2 DEF Ops, Pcs
<1>4. op' = [op EXCEPT ![c] = o] /\ op'[c] = o
  BY <1>t, <1>1
<1> HIDE DEF o
<1>5. HolderOK(c)' /\ DiskInv'
  BY <1>t, <1>0, <1>2, <1>3, <1>4 DEF HolderOK, DiskInv, Replacing, Fresh
<1>6. \A d \in Callers : op[d].pc \notin Holding
  BY <1>t, <1>0, Constants DEF CallInv, HolderOK
<1>7. \A g \in Services : service[g].lock # c /\ (service[g].listening => app = g)
  BY <1>t, <1>6 DEF CallInv, LocksInv, Closing, At, NoStray, Holding, Replacing, Fresh
<1>8. KeyOK(c) => KeyOK(c)'
  BY <1>0, <1>2, <1>3, <1>4 DEF KeyOK, OldKey
<1>9. Types' /\ ServiceInv' /\ o.pc \in Holding
  BY <1>t, <1>0, <1>3, Still DEF Holding
<1> QED
  BY <1>t, <1>0, <1>3, <1>4, <1>5, <1>7, <1>8, <1>9, CallerNext

LEMMA CloseOldNext ==
  ASSUME LifecycleInv, NEW c \in Callers, NEW g \in Services, CloseOld(c, g) PROVE LifecycleInv'
<1>t. /\ Types /\ ServiceInv /\ op \in [Callers -> Ops] /\ op[c] \in Ops
      /\ disk \in Configs /\ key \in TunnelIds /\ app \in Services \cup {NoService} /\ broken \in BOOLEAN
  BY Unpacked
<1>0. /\ op[c].pc = "close" /\ op[c].pc \in Holding
      /\ UNCHANGED <<app, booted, mutex, disk, key, cancelled, quitting, said, overlap, broken>>
  BY DEF CloseOld, At, Holding
<1>h. /\ mutex = c /\ app = g /\ op[c].old = g /\ disk.access = said.access
      /\ op[c].candidate.access = said.access /\ op[c].before.access = said.access
      /\ \A h \in Services : service[h].listening => app = h
      /\ \A h \in Services : service[h].lock # c
  BY <1>0, Holder DEF CloseOld, Fresh
<1>1. PICK x \in {"closing", "closed"} :
        /\ Go(c, x) /\ Types' /\ ServiceInv' /\ service'[g].closed
        /\ \A h \in Services : service'[h].listening => service[h].listening
        /\ \A h \in Services, d \in Callers :
             service'[h].lock = d => service[h].lock = d \/ (x = "closing" /\ h = g /\ d = c)
        /\ x = "closed" => ~service'[g].listening
  <2>1. CASE CloseBegins(g, c) /\ Go(c, "closing")
    <3>1. c \in Closers
      BY Constants
    <3>2. Types' /\ ServiceInv' /\ ServicesKept /\ service'[g].closed = TRUE /\ LocksBy(g, c)
      BY <1>t, <2>1, <3>1, CloseBeginsServices
    <3>3. \A h \in Services : service'[h].listening => service[h].listening
      BY <3>2 DEF ServicesKept, Kept
    <3> QED
      BY <2>1, <3>2, <3>3 DEF LocksBy
  <2>2. CASE AlreadyClosed(g) /\ Go(c, "closed")
    <3>1. service[g].closed /\ service[g].lock = Nobody /\ service' = service /\ tunnel' = tunnel
      BY <2>2 DEF AlreadyClosed
    <3>2. ~service[g].listening
      BY <1>t, <3>1 DEF ServiceInv, ServiceOK
    <3> QED
      BY <1>t, <2>2, <3>1, <3>2, Still
  <2> QED
    BY <2>1, <2>2 DEF CloseOld
<1> DEFINE o == [op[c] EXCEPT !.pc = x]
<1>2. x \in Pcs /\ x \in Holding /\ x \notin Fresh /\ (x \in Replacing => x = "closed")
  BY DEF Pcs, Holding, Replacing, Fresh
<1>3. /\ o \in Ops /\ op' = [op EXCEPT ![c] = o] /\ o.pc = x /\ o.kind = op[c].kind
      /\ o.value = op[c].value /\ o.oldKey = op[c].oldKey /\ o.old = op[c].old
      /\ o.before = op[c].before /\ o.candidate = op[c].candidate /\ op'[c] = o
  BY <1>t, <1>1, <1>2, GoFields
<1> HIDE DEF o
<1>4. HolderOK(c)'
  BY <1>0, <1>h, <1>1, <1>2, <1>3 DEF HolderOK
<1>5. DiskInv'
  BY <1>0, <1>h, <1>1, Constants DEF DiskInv
<1>6. \A h \in Services : service'[h].lock = c => Closing(c, h)'
  BY <1>h, <1>1, <1>3 DEF Closing, At
<1>7. KeyOK(c) => KeyOK(c)'
  BY <1>0, <1>1, <1>3 DEF KeyOK, OldKey
<1>8. \A h \in Services : service'[h].listening => app' = h
  BY <1>0, <1>h, <1>1
<1>9. \A h \in Services, d \in Callers : service'[h].lock = d => service[h].lock = d \/ d = c
  BY <1>1
<1> QED
  BY <1>t, <1>0, <1>h, <1>1, <1>2, <1>3, <1>4, <1>5, <1>6, <1>7, <1>8, <1>9, CallerNext

LEMMA CleanUpNext ==
  ASSUME LifecycleInv, NEW c \in Callers, NEW g \in Services, CleanUp(c, g) PROVE LifecycleInv'
<1> DEFINE o == [op[c] EXCEPT !.pc = "cleaning"]
<1>t. /\ Types /\ ServiceInv /\ op \in [Callers -> Ops] /\ op[c] \in Ops
      /\ disk \in Configs /\ key \in TunnelIds /\ app \in Services \cup {NoService} /\ broken \in BOOLEAN
  BY Unpacked
<1>0. /\ op[c].pc = "cleanup" /\ op[c].pc \in Holding \cap Replacing /\ op[c].next = g
      /\ CloseBegins(g, c) /\ Go(c, "cleaning")
      /\ UNCHANGED <<app, booted, mutex, disk, key, cancelled, quitting, said, overlap, broken>>
  BY DEF CleanUp, At, Holding, Replacing
<1>h. /\ mutex = c /\ app \in Services /\ op[c].old = app /\ disk.access = said.access
      /\ op[c].candidate.access = said.access /\ op[c].before.access = said.access
      /\ service[app].closed
      /\ \A h \in Services : ~service[h].listening /\ service[h].lock # c
  BY <1>0, Holder
<1>1. /\ Types' /\ ServiceInv' /\ service'[app].closed
      /\ \A h \in Services : ~service'[h].listening
      /\ \A h \in Services, d \in Callers :
           service'[h].lock = d => service[h].lock = d \/ (h = g /\ d = c)
  <2>1. c \in Closers
    BY Constants
  <2>2. Types' /\ ServiceInv' /\ ServicesKept /\ LocksBy(g, c)
    BY <1>t, <1>0, <2>1, CloseBeginsServices
  <2>3. service'[app].closed
    BY <1>h, <2>2 DEF ServicesKept, Kept
  <2>4. \A h \in Services : ~service'[h].listening
    BY <1>h, <2>2 DEF ServicesKept, Kept
  <2> QED
    BY <2>2, <2>3, <2>4 DEF LocksBy
<1>2. "cleaning" \in Pcs /\ "cleaning" \in Holding /\ "cleaning" \notin Fresh
  BY DEF Pcs, Holding, Replacing, Fresh
<1>3. /\ o \in Ops /\ op' = [op EXCEPT ![c] = o] /\ o.pc = "cleaning" /\ o.kind = op[c].kind
      /\ o.value = op[c].value /\ o.oldKey = op[c].oldKey /\ o.old = op[c].old /\ o.next = g
      /\ o.before = op[c].before /\ o.candidate = op[c].candidate /\ op'[c] = o
  BY <1>t, <1>0, <1>2, GoFields
<1> HIDE DEF o
<1>4. HolderOK(c)' /\ DiskInv'
  BY <1>0, <1>h, <1>1, <1>2, <1>3, Constants DEF HolderOK, DiskInv
<1>5. \A h \in Services : service'[h].lock = c => Closing(c, h)'
  BY <1>h, <1>1, <1>3 DEF Closing, At
<1>6. KeyOK(c) => KeyOK(c)'
  BY <1>0, <1>3 DEF KeyOK, OldKey
<1>7. \A h \in Services, d \in Callers : service'[h].lock = d => service[h].lock = d \/ d = c
  BY <1>1
<1> QED
  BY <1>t, <1>0, <1>h, <1>1, <1>2, <1>3, <1>4, <1>5, <1>6, <1>7, CallerNext

LEMMA CloseEndsNext ==
  ASSUME LifecycleInv, NEW g \in Services, CloseEnds(g) PROVE LifecycleInv'
<1>t. /\ Types /\ ServiceInv /\ CallInv /\ op \in [Callers -> Ops]
      /\ disk \in Configs /\ key \in TunnelIds /\ app \in Services \cup {NoService} /\ broken \in BOOLEAN
      /\ quitting \in Quits /\ cancelled \in BOOLEAN
  BY Unpacked
<1>0. UNCHANGED <<tunnel, app, booted, mutex, disk, key, cancelled, said, overlap, broken>>
  BY DEF CloseEnds
<1>1. /\ Types' /\ ServiceInv' /\ ServicesKept /\ ~service'[g].listening /\ service[g].closed
      /\ \A h \in Services, d \in Callers : service'[h].lock = d => h # g /\ service[h].lock = d
  BY <1>t, CloseEndsServices
<1>2. PICK ok \in BOOLEAN :
        op' = [c \in Callers |-> IF service[g].lock = c
                THEN [op[c] EXCEPT !.pc = AfterClose(c, ok /\ tunnel[g].stop = "clean")] ELSE op[c]]
  BY DEF CloseEnds
<1>3. CASE service[g].lock \in Callers
  <2>c. PICK c \in Callers : service[g].lock = c
    BY <1>3
  <2> DEFINE x == AfterClose(c, ok /\ tunnel[g].stop = "clean")
             o == [op[c] EXCEPT !.pc = x]
  <2>0. op[c] \in Ops
    BY <1>t
  <2>1. Closing(c, g)
    BY <1>t, <2>c DEF CallInv, LocksInv
  <2>2. op' = [op EXCEPT ![c] = o]
    BY <1>t, <1>2, <2>c
  <2>3. quitting' = quitting
    BY <2>c, Constants DEF CloseEnds
  <2>4. /\ op[c].pc \in {"closing", "cleaning"} /\ op[c].pc \in Holding
        /\ x \in Pcs /\ x \in {"closed", "restart", "rollback"}
        /\ (op[c].pc = "cleaning" <=> x = "rollback")
    BY <2>1 DEF Closing, At, AfterClose, Pcs, Holding, Replacing
  <2> HIDE DEF x
  <2>5. /\ o \in Ops /\ o.pc = x /\ o.kind = op[c].kind
        /\ o.value = op[c].value /\ o.oldKey = op[c].oldKey /\ o.old = op[c].old
        /\ o.before = op[c].before /\ o.candidate = op[c].candidate
    BY <1>t, <2>0, <2>4, GoFields
  <2> HIDE DEF o
  <2>6. op'[c] = o
    BY <1>t, <2>0, <2>2
  <2>h. /\ mutex = c /\ app \in Services /\ op[c].old = app /\ disk.access = said.access
        /\ op[c].candidate.access = said.access /\ op[c].before.access = said.access
        /\ service[app].closed
        /\ \A h \in Services : service[h].listening => app = h
        /\ op[c].pc = "cleaning" => \A h \in Services : ~service[h].listening
    BY <2>0, <2>4, Holder DEF Replacing, Fresh
  <2>7. \A h \in Services : ~service'[h].listening
    BY <1>1, <2>1, <2>h DEF ServicesKept, Kept, Closing, At
  <2>8. service'[app].closed
    BY <1>1, <2>h DEF ServicesKept, Kept
  <2>9. x \in Holding /\ x \notin Fresh
    BY <2>4 DEF Holding, Replacing, Fresh
  <2>10. HolderOK(c)' /\ DiskInv'
    BY <1>0, <2>5, <2>6, <2>h, <2>7, <2>8, <2>9, <2>0, Constants DEF HolderOK, DiskInv
  <2>11. \A h \in Services, d \in Callers : service'[h].lock = d => service[h].lock = d \/ d = c
    BY <1>1
  <2>12. \A h \in Services : service'[h].lock # c
    <3>1. \A h \in Services : service[h].lock = c => h = g
      BY <1>t, <2>0, <2>1 DEF CallInv, LocksInv, Closing, At
    <3> QED
      BY <1>1, <2>0, <3>1
  <2>13. KeyOK(c) => KeyOK(c)'
    BY <1>0, <2>4, <2>5, <2>6 DEF KeyOK, OldKey
  <2>14. o.pc # "over" /\ o.pc # "idle" /\ op[c].pc # "over" /\ op[c].pc # "idle"
    BY <2>4, <2>5
  <2> QED
    BY <1>t, <1>0, <1>1, <2>0, <2>2, <2>3, <2>5, <2>h, <2>7, <2>9, <2>10, <2>11, <2>12, <2>13,
       <2>14, CallerNext
<1>4. CASE service[g].lock \notin Callers
  <2>1. op' = op
    BY <1>t, <1>2, <1>4
  <2>2. quitting' \in Quits
    BY <1>t DEF CloseEnds, Quits
  <2>3. LocksKept
    BY <1>1 DEF LocksKept
  <2> QED
    BY <1>t, <1>0, <1>1, <2>1, <2>2, <2>3, ServicesNext
<1> QED
  BY <1>3, <1>4

LEMMA SaveNext == ASSUME LifecycleInv, NEW c \in Callers, Save(c) \/ Delete(c) PROVE LifecycleInv'
<1>t. /\ Types /\ ServiceInv /\ op \in [Callers -> Ops] /\ op[c] \in Ops
      /\ disk \in Configs /\ key \in TunnelIds /\ app \in Services \cup {NoService} /\ broken \in BOOLEAN
  BY Unpacked
<1>0. /\ op[c].pc = "closed" /\ op[c].pc \in Holding \cap Replacing
      /\ UNCHANGED <<tunnel, service, app, booted, mutex, key, cancelled, quitting, said, overlap, broken>>
  BY DEF Save, Delete, At, Holding, Replacing
<1>1. PICK x \in {"start", "restart"} :
        Go(c, x) /\ disk' = IF x = "start" THEN op[c].candidate ELSE disk
  BY DEF Save, Delete
<1> DEFINE o == [op[c] EXCEPT !.pc = x]
<1>h. /\ mutex = c /\ app \in Services /\ op[c].old = app /\ disk.access = said.access
      /\ op[c].candidate.access = said.access /\ op[c].before.access = said.access
      /\ service[app].closed
      /\ \A h \in Services : ~service[h].listening /\ service[h].lock # c
  BY <1>0, Holder
<1>2. x \in Pcs /\ x \in Holding /\ x \notin Fresh
  BY DEF Pcs, Holding, Replacing, Fresh
<1>3. /\ o \in Ops /\ op' = [op EXCEPT ![c] = o] /\ o.pc = x /\ o.kind = op[c].kind
      /\ o.value = op[c].value /\ o.oldKey = op[c].oldKey /\ o.old = op[c].old
      /\ o.before = op[c].before /\ o.candidate = op[c].candidate /\ op'[c] = o
  BY <1>t, <1>1, <1>2, GoFields
<1> HIDE DEF o
<1>4. HolderOK(c)' /\ DiskInv'
  BY <1>0, <1>h, <1>1, <1>2, <1>3, Constants DEF HolderOK, DiskInv
<1>5. KeyOK(c) => KeyOK(c)'
  BY <1>0, <1>1, <1>3 DEF KeyOK, OldKey, Holding, Replacing, Fresh
<1>6. Types' /\ ServiceInv' /\ disk' \in Configs
  BY <1>t, <1>0, <1>1, Still DEF Ops
<1> QED
  BY <1>t, <1>0, <1>h, <1>1, <1>2, <1>3, <1>4, <1>5, <1>6, CallerNext

LEMMA RollbackNext == ASSUME LifecycleInv, NEW c \in Callers, Rollback(c) PROVE LifecycleInv'
<1>t. /\ Types /\ ServiceInv /\ op \in [Callers -> Ops] /\ op[c] \in Ops
      /\ disk \in Configs /\ key \in TunnelIds /\ app \in Services \cup {NoService} /\ broken \in BOOLEAN
  BY Unpacked
<1>0. /\ op[c].pc = "rollback" /\ op[c].pc \in Holding \cap Replacing
      /\ UNCHANGED <<tunnel, service, booted, key, cancelled, quitting, said, overlap>>
  BY DEF Rollback, At, Holding, Replacing
<1>h. /\ mutex = c /\ app \in Services /\ op[c].old = app /\ disk.access = said.access
      /\ op[c].candidate.access = said.access /\ op[c].before.access = said.access
      /\ service[app].closed
      /\ \A h \in Services : ~service[h].listening /\ service[h].lock # c
  BY <1>0, Holder
<1>1. PICK x \in {"restart", "restore", "over"} :
        /\ Go(c, x)
        /\ IF x = "restart"
             THEN disk' = op[c].before /\ UNCHANGED <<app, mutex, broken>>
             ELSE app' = NoService /\ broken' = TRUE /\ mutex' = Nobody /\ UNCHANGED disk
  BY DEF Rollback, Fails
<1> DEFINE o == [op[c] EXCEPT !.pc = x]
<1>2. x \in Pcs /\ x \notin Fresh /\ (x \in Holding <=> x = "restart")
  BY DEF Pcs, Holding, Replacing, Fresh
<1>3. /\ o \in Ops /\ op' = [op EXCEPT ![c] = o] /\ o.pc = x /\ o.kind = op[c].kind
      /\ o.value = op[c].value /\ o.oldKey = op[c].oldKey /\ o.old = op[c].old
      /\ o.before = op[c].before /\ o.candidate = op[c].candidate /\ op'[c] = o
  BY <1>t, <1>1, <1>2, GoFields
<1> HIDE DEF o
<1>4. HolderOK(c)' /\ DiskInv'
  BY <1>0, <1>h, <1>1, <1>2, <1>3, Constants DEF HolderOK, DiskInv
<1>5. ~broken' /\ KeyOK(c) => x # "over" /\ KeyOK(c)'
  BY <1>0, <1>1, <1>3 DEF KeyOK, OldKey, Holding, Replacing, Fresh
<1>6. /\ Types' /\ ServiceInv' /\ disk' \in Configs /\ app' \in Services \cup {NoService}
      /\ broken' \in BOOLEAN /\ (broken => broken') /\ (mutex' = IF x \in Holding THEN c ELSE Nobody)
  BY <1>t, <1>0, <1>h, <1>1, <1>2, Still DEF Ops
<1> QED
  BY <1>t, <1>0, <1>h, <1>1, <1>2, <1>3, <1>4, <1>5, <1>6, CallerNext

\* A new service that came up, or did not, in place of one that is closed.
LEMMA StartedNext ==
  ASSUME LifecycleInv, NEW c \in Callers, op[c].pc \in {"start", "restart"}, NEW g \in Services,
         NEW x \in {"publish", "republish", "cleanup"},
         op[c].pc = "restart" <=> x = "republish",
         IF x = "cleanup" THEN StartFails(g) ELSE StartSucceeds(g),
         op' = [op EXCEPT ![c] = [op[c] EXCEPT !.pc = x, !.next = g]],
         UNCHANGED <<app, booted, mutex, disk, key, cancelled, quitting, said, overlap, broken>>
  PROVE  LifecycleInv'
<1> DEFINE o == [op[c] EXCEPT !.pc = x, !.next = g]
<1>t. /\ Types /\ ServiceInv /\ op \in [Callers -> Ops] /\ op[c] \in Ops
      /\ disk \in Configs /\ key \in TunnelIds /\ app \in Services \cup {NoService} /\ broken \in BOOLEAN
  BY Unpacked
<1>0. op[c].pc \in Holding \cap Replacing
  BY DEF Holding, Replacing
<1>h. /\ mutex = c /\ app \in Services /\ op[c].old = app /\ disk.access = said.access
      /\ op[c].candidate.access = said.access /\ op[c].before.access = said.access
      /\ service[app].closed
      /\ \A h \in Services : ~service[h].listening /\ service[h].lock # c
  BY <1>0, Holder
<1>1. /\ Types' /\ ServiceInv' /\ Arrived(g) /\ LocksKept
      /\ \A h \in Services : service'[h].listening => h = g /\ x # "cleanup"
  BY <1>t, <1>h, StartSucceedsServices, StartFailsServices
<1>2. service'[app].closed /\ service'[g].config = disk
  BY <1>h, <1>1 DEF Arrived
<1>3. /\ x \in Pcs /\ x \in Holding /\ (x \in Fresh <=> x # "cleanup")
      /\ (x \in Replacing <=> x = "cleanup")
  BY DEF Pcs, Holding, Replacing, Fresh
<1>4. /\ o \in Ops /\ o.pc = x /\ o.kind = op[c].kind /\ o.value = op[c].value
      /\ o.oldKey = op[c].oldKey /\ o.old = op[c].old /\ o.next = g
      /\ o.before = op[c].before /\ o.candidate = op[c].candidate
  BY <1>t, <1>3 DEF Ops
<1>5. op' = [op EXCEPT ![c] = o] /\ op'[c] = o
  BY <1>t
<1> HIDE DEF o
<1>6. HolderOK(c)' /\ DiskInv'
  BY <1>h, <1>1, <1>2, <1>3, <1>4, <1>5, Constants DEF HolderOK, DiskInv
<1>7. KeyOK(c) => KeyOK(c)'
  BY <1>4, <1>5 DEF KeyOK, OldKey, Holding, Replacing, Fresh
<1>8. \A h \in Services, d \in Callers : service'[h].lock = d => service[h].lock = d
  BY <1>1 DEF LocksKept
<1>9. op[c].pc \notin {"idle", "over"} /\ o.pc # "idle" /\ o.pc # "over"
  BY <1>4
<1>10. \A h \in Services : service'[h].listening => app' = h \/ (o.pc \in Fresh /\ o.next = h)
  BY <1>1, <1>3, <1>4
<1>11. \A h \in Services : service'[h].lock = c => Closing(c, h)'
  BY <1>h, <1>8
<1>12. /\ mutex \in {c, Nobody} /\ (mutex' = IF o.pc \in Holding THEN c ELSE Nobody)
       /\ disk' \in Configs /\ key' \in TunnelIds
       /\ app' \in Services \cup {NoService} /\ broken' \in BOOLEAN /\ (broken => broken')
  BY <1>t, <1>h, <1>3, <1>4
<1>13. \A h \in Services, d \in Callers : service'[h].lock = d => service[h].lock = d \/ d = c
  BY <1>8
<1>14. Types' /\ ServiceInv' /\ UNCHANGED <<booted, cancelled, quitting, said, overlap>>
  BY <1>1
<1>15. ~broken' /\ KeyOK(c) => IF o.pc = "over" THEN key' = disk'.tunnel ELSE KeyOK(c)'
  BY <1>7, <1>9
<1> QED
  BY <1>4, <1>5, <1>6, <1>9, <1>10, <1>11, <1>12, <1>13, <1>14, <1>15, CallerNext

LEMMA StartNext == ASSUME LifecycleInv, NEW c \in Callers, Start(c) PROVE LifecycleInv'
<1>t. /\ Types /\ ServiceInv /\ op \in [Callers -> Ops] /\ op[c] \in Ops
      /\ disk \in Configs /\ key \in TunnelIds /\ app \in Services \cup {NoService} /\ broken \in BOOLEAN
  BY Unpacked
<1>0. /\ op[c].pc = "start" /\ op[c].pc \in Holding \cap Replacing
      /\ UNCHANGED <<app, booted, mutex, disk, key, cancelled, quitting, said, overlap, broken>>
  BY DEF Start, At, Holding, Replacing
<1>1. CASE NewDefaultFails /\ Go(c, "rollback")
  <2> DEFINE o == [op[c] EXCEPT !.pc = "rollback"]
  <2>h. /\ mutex = c /\ app \in Services /\ op[c].old = app /\ disk.access = said.access
        /\ op[c].candidate.access = said.access /\ op[c].before.access = said.access
        /\ service[app].closed
        /\ \A h \in Services : ~service[h].listening /\ service[h].lock # c
    BY <1>0, Holder
  <2>1. "rollback" \in Pcs /\ "rollback" \in Holding /\ "rollback" \notin Fresh
    BY DEF Pcs, Holding, Replacing, Fresh
  <2>2. /\ o \in Ops /\ op' = [op EXCEPT ![c] = o] /\ o.pc = "rollback" /\ o.kind = op[c].kind
        /\ o.value = op[c].value /\ o.oldKey = op[c].oldKey /\ o.old = op[c].old
        /\ o.before = op[c].before /\ o.candidate = op[c].candidate /\ op'[c] = o
    BY <1>t, <1>1, <2>1, GoFields
  <2> HIDE DEF o
  <2>3. service' = service /\ tunnel' = tunnel
    BY <1>1 DEF NewDefaultFails
  <2>4. HolderOK(c)' /\ DiskInv'
    BY <1>0, <2>h, <2>1, <2>2, <2>3, Constants DEF HolderOK, DiskInv
  <2>5. KeyOK(c) => KeyOK(c)'
    BY <1>0, <2>2 DEF KeyOK, OldKey
  <2>6. Types' /\ ServiceInv'
    BY <1>t, <2>3, Still
  <2> QED
    BY <1>t, <1>0, <2>h, <2>1, <2>2, <2>3, <2>4, <2>5, <2>6, CallerNext
<1>2. ASSUME NEW g \in Services, StartSucceeds(g),
             op' = [op EXCEPT ![c].pc = "publish", ![c].next = g]
      PROVE  LifecycleInv'
  <2>1. op' = [op EXCEPT ![c] = [op[c] EXCEPT !.pc = "publish", !.next = g]]
    BY <1>t, <1>2
  <2> QED
    BY <1>0, <1>2, <2>1, StartedNext
<1>3. ASSUME NEW g \in Services, StartFails(g),
             op' = [op EXCEPT ![c].pc = "cleanup", ![c].next = g]
      PROVE  LifecycleInv'
  <2>1. op' = [op EXCEPT ![c] = [op[c] EXCEPT !.pc = "cleanup", !.next = g]]
    BY <1>t, <1>3
  <2> QED
    BY <1>0, <1>3, <2>1, StartedNext
<1> QED
  BY <1>1, <1>2, <1>3 DEF Start

LEMMA RestartNext == ASSUME LifecycleInv, NEW c \in Callers, Restart(c) PROVE LifecycleInv'
<1>t. /\ Types /\ ServiceInv /\ op \in [Callers -> Ops] /\ op[c] \in Ops
      /\ disk \in Configs /\ key \in TunnelIds /\ app \in Services \cup {NoService} /\ broken \in BOOLEAN
  BY Unpacked
<1>0. /\ op[c].pc = "restart" /\ op[c].pc \in Holding \cap Replacing
      /\ UNCHANGED <<booted, disk, key, cancelled, quitting, said, overlap, broken>>
  BY DEF Restart, At, Holding, Replacing
<1>1. ASSUME NEW g \in Services, StartSucceeds(g),
             op' = [op EXCEPT ![c].pc = "republish", ![c].next = g], UNCHANGED <<app, mutex>>
      PROVE  LifecycleInv'
  <2>1. op' = [op EXCEPT ![c] = [op[c] EXCEPT !.pc = "republish", !.next = g]]
    BY <1>t, <1>1
  <2> QED
    BY <1>0, <1>1, <2>1, StartedNext
<1>2. ASSUME NewDefaultFails \/ \E g \in Services : StartFails(g), app' = NoService, Fails(c)
      PROVE  LifecycleInv'
  <2> DEFINE x == IF op[c].kind = "tunnel" THEN "restore" ELSE "over"
             o == [op[c] EXCEPT !.pc = x]
  <2>h. /\ mutex = c /\ disk.access = said.access
        /\ \A h \in Services : ~service[h].listening /\ service[h].lock # c
    BY <1>0, Holder
  <2>1. x \in Pcs /\ x \notin Holding /\ x \in {"restore", "over"}
    BY DEF Pcs, Holding, Replacing, Fresh
  <2>2. /\ o \in Ops /\ op' = [op EXCEPT ![c] = o] /\ o.pc = x /\ o.kind = op[c].kind
        /\ o.value = op[c].value /\ o.oldKey = op[c].oldKey /\ op'[c] = o /\ mutex' = Nobody
    BY <1>t, <1>2, <2>1, GoFields DEF Fails
  <2> HIDE DEF o
  <2>3. Types' /\ ServiceInv' /\ LocksKept /\ \A h \in Services : ~service'[h].listening
    <3>1. CASE NewDefaultFails
      BY <1>t, <2>h, <3>1, Still DEF NewDefaultFails
    <3>2. ASSUME NEW g \in Services, StartFails(g)
          PROVE  Types' /\ ServiceInv' /\ LocksKept /\ \A h \in Services : ~service'[h].listening
      BY <1>t, <2>h, <3>2, StartFailsServices
    <3> QED
      BY <1>2, <3>1, <3>2
  <2>4. HolderOK(c)' /\ DiskInv'
    BY <1>0, <1>2, <2>h, <2>1, <2>2, Constants DEF HolderOK, DiskInv
  <2>5. KeyOK(c) => IF o.pc = "over" THEN key' = disk'.tunnel ELSE KeyOK(c)'
    BY <1>0, <2>1, <2>2 DEF KeyOK, OldKey, Holding, Replacing, Fresh
  <2>6. \A h \in Services, d \in Callers : service'[h].lock = d => service[h].lock = d
    BY <2>3 DEF LocksKept
  <2>7. o.pc # "idle" /\ op[c].pc # "idle" /\ op[c].pc # "over"
    BY <1>0, <2>1, <2>2
  <2> QED
    BY <1>t, <1>0, <1>2, <2>h, <2>1, <2>2, <2>3, <2>4, <2>5, <2>6, <2>7, CallerNext
<1> QED
  BY <1>1, <1>2 DEF Restart

LEMMA PublishNext == ASSUME LifecycleInv, NEW c \in Callers, Publish(c) PROVE LifecycleInv'
<1>t. /\ Types /\ ServiceInv /\ op \in [Callers -> Ops] /\ op[c] \in Ops
      /\ disk \in Configs /\ key \in TunnelIds /\ app \in Services \cup {NoService} /\ broken \in BOOLEAN
  BY Unpacked
<1>0. /\ op[c].pc \in {"publish", "republish"} /\ op[c].pc \in Holding \cap Fresh /\ app' = op[c].next
      /\ UNCHANGED <<tunnel, service, booted, disk, key, cancelled, quitting, said, overlap, broken>>
  BY DEF Publish, Holding, Fresh
<1>h. /\ mutex = c /\ disk.access = said.access
      /\ op[c].next \in Services /\ service[op[c].next].config = disk
      /\ \A h \in Services : service[h].listening => h = op[c].next
      /\ \A h \in Services : service[h].lock # c
  BY <1>0, Holder
<1>1. PICK x \in {"restore", "over"} :
        /\ Go(c, x) /\ mutex' = Nobody
        /\ IF op[c].pc = "publish" THEN x = "over" ELSE (x = "restore" <=> op[c].kind = "tunnel")
  BY DEF Publish, Succeeds, Fails, At
<1> DEFINE o == [op[c] EXCEPT !.pc = x]
<1>2. x \in Pcs /\ x \notin Holding
  BY DEF Pcs, Holding, Replacing, Fresh
<1>3. /\ o \in Ops /\ op' = [op EXCEPT ![c] = o] /\ o.pc = x /\ o.kind = op[c].kind
      /\ o.value = op[c].value /\ o.oldKey = op[c].oldKey /\ op'[c] = o
  BY <1>t, <1>1, <1>2, GoFields
<1> HIDE DEF o
<1>4. HolderOK(c)' /\ DiskInv'
  BY <1>0, <1>h, <1>1, <1>2, <1>3 DEF HolderOK, DiskInv
<1>5. KeyOK(c) => IF o.pc = "over" THEN key' = disk'.tunnel ELSE KeyOK(c)'
  BY <1>0, <1>1, <1>2, <1>3 DEF KeyOK, OldKey, Holding, Replacing, Fresh
<1>6. Types' /\ ServiceInv' /\ app' \in Services
  BY <1>t, <1>0, <1>h, Still
<1>7. o.pc # "idle" /\ op[c].pc # "idle" /\ op[c].pc # "over"
  BY <1>0, <1>3
<1> QED
  BY <1>t, <1>0, <1>h, <1>1, <1>2, <1>3, <1>4, <1>5, <1>6, <1>7, CallerNext

LEMMA RestoreNext == ASSUME LifecycleInv, NEW c \in Callers, Restore(c) PROVE LifecycleInv'
<1> DEFINE o == [op[c] EXCEPT !.pc = "over"]
<1>t. /\ TypeOK /\ Types /\ ServiceInv /\ CallInv /\ DiskInv /\ KeyInv
      /\ op \in [Callers -> Ops] /\ op[c] \in Ops /\ key \in TunnelIds /\ broken \in BOOLEAN
  BY Unpacked
<1>0. /\ op[c].pc = "restore" /\ Go(c, "over")
      /\ UNCHANGED <<tunnel, service, app, booted, mutex, disk, cancelled, quitting, said, overlap>>
      /\ (key' = op[c].oldKey /\ UNCHANGED broken) \/ (UNCHANGED key /\ broken' = TRUE)
  BY DEF Restore, At
<1>p. "over" \in Pcs
  BY DEF Pcs
<1>g. /\ o \in Ops /\ op' = [op EXCEPT ![c] = o] /\ o.pc = "over" /\ o.oldKey = op[c].oldKey
  BY <1>t, <1>0, <1>p, GoFields
<1> HIDE DEF o
<1>1. /\ o \in Ops /\ op' = [op EXCEPT ![c] = o] /\ o.pc = "over" /\ op'[c] = o
      /\ \A d \in Callers : d # c => op'[d] = op[d]
  BY <1>t, <1>g
<1>2. TypeOK'
  <2>1. op' \in [Callers -> Ops] /\ key' \in TunnelIds /\ broken' \in BOOLEAN
    BY <1>t, <1>0, <1>1 DEF Ops
  <2> QED
    BY <1>t, <1>0, <2>1 DEF TypeOK
<1>3. Types' /\ ServiceInv'
  BY <1>t, <1>0, Still
<1>4. "over" \notin Holding \cup Fresh /\ "restore" \notin Holding \cup Fresh
  BY DEF Holding, Replacing, Fresh
<1>5. \A d \in Callers : HolderOK(d)'
  BY <1>t, <1>0, <1>1, <1>4 DEF CallInv, HolderOK
<1>6. LocksInv' /\ BootInv' /\ DiskInv'
  BY <1>t, <1>0, <1>1, <1>4 DEF CallInv, LocksInv, Closing, At, BootInv, DiskInv
<1>7. NoStray'
  BY <1>t, <1>0, <1>1, <1>4 DEF CallInv, NoStray, Fresh
<1>8. KeyInv'
  <2>1. Busy(c) /\ ~Busy(c)' /\ \A d \in Callers : d # c => (Busy(d)' <=> Busy(d))
    BY <1>0, <1>1 DEF Busy
  <2>2. ASSUME ~overlap PROVE \A d \in Callers : ~Busy(d)'
    BY <1>t, <2>1, <2>2 DEF KeyInv
  <2>3. ASSUME ~overlap, ~broken' PROVE key' = disk'.tunnel
    <3>1. ~broken /\ key' = op[c].oldKey /\ KeyOK(c)
      BY <1>t, <1>0, <2>1, <2>3 DEF KeyInv
    <3> QED
      BY <1>0, <3>1 DEF KeyOK, OldKey
  <2> QED
    BY <1>0, <2>2, <2>3 DEF KeyInv
<1> QED
  BY <1>2, <1>3, <1>5, <1>6, <1>7, <1>8 DEF LifecycleInv, CallInv

LEMMA NewOpOK == NewOp \in Ops /\ NewOp.pc = "idle"
BY Constants DEF NewOp, Ops, Pcs, Kinds

\* The call that has written the key t in place of k.
Wrote(t, k) == [NewOp EXCEPT !.pc = "lock", !.kind = "tunnel", !.value = t, !.oldKey = k]

LEMMA WroteFields ==
  ASSUME NEW t \in TunnelIds, NEW k \in TunnelIds
  PROVE  LET o == Wrote(t, k)
         IN  o \in Ops /\ o.pc = "lock" /\ o.kind = "tunnel" /\ o.value = t /\ o.oldKey = k
<1> DEFINE n == NewOp
<1>1. n \in Ops /\ "lock" \in Pcs /\ "tunnel" \in Kinds
  BY NewOpOK DEF Pcs, Kinds
<1> HIDE DEF n
<1>2. LET o == [n EXCEPT !.pc = "lock", !.kind = "tunnel", !.value = t, !.oldKey = k]
      IN  o \in Ops /\ o.pc = "lock" /\ o.kind = "tunnel" /\ o.value = t /\ o.oldKey = k
  BY <1>1 DEF Ops
<1> QED
  BY <1>2 DEF n, Wrote

LEMMA OtherOp ==
  ASSUME NEW pc \in {"lock", "over"}, NEW kind \in {"policy", "agent", "delete"}
  PROVE  LET o == [NewOp EXCEPT !.pc = pc, !.kind = kind]
         IN  o \in Ops /\ o.pc = pc /\ o.kind = kind
<1> DEFINE n == NewOp
<1>1. n \in Ops /\ pc \in Pcs /\ kind \in Kinds
  BY NewOpOK DEF Pcs, Kinds
<1> HIDE DEF n
<1>2. LET o == [n EXCEPT !.pc = pc, !.kind = kind] IN o \in Ops /\ o.pc = pc /\ o.kind = kind
  BY <1>1 DEF Ops
<1> QED
  BY <1>2 DEF n

\* A call that arrives, and what it does before it waits for the mutex or is over.
LEMMA ArrivalNext ==
  ASSUME LifecycleInv, NEW c \in Callers, Arrives(c), NEW o \in Ops, op' = [op EXCEPT ![c] = o],
         o.pc \in {"lock", "over"}, key' \in TunnelIds, disk' \in Configs,
         said' \in [access : BOOLEAN, rewrite : BOOLEAN], Types', ServiceInv', LocksKept,
         \A g \in Services : service'[g].listening => service[g].listening,
         UNCHANGED <<app, booted, mutex, cancelled, quitting, broken>>,
         \A d \in Callers : d # c /\ op[d].pc \in Holding => HolderOK(d)', DiskInv',
         ~broken /\ key = disk.tunnel => IF o.pc = "over" THEN key' = disk'.tunnel ELSE KeyOK(c)'
  PROVE  LifecycleInv'
<1>t. /\ TypeOK /\ CallInv /\ KeyInv /\ op \in [Callers -> Ops] /\ overlap \in BOOLEAN
  BY Unpacked
<1>0. /\ op' \in [Callers -> Ops] /\ op'[c] = o /\ booted /\ op[c].pc = "idle"
      /\ \A d \in Callers : d # c => op'[d] = op[d]
      /\ overlap' = (overlap \/ \E d \in Callers : Busy(d))
  BY <1>t DEF Arrives, At
<1>1. TypeOK'
  <2>1. overlap' \in BOOLEAN
    BY <1>t, <1>0
  <2> QED
    BY <1>t, <1>0, <2>1 DEF TypeOK, Types
<1>2. o.pc \notin Holding /\ "idle" \notin Holding \cup Fresh
  BY DEF Holding, Replacing, Fresh
<1>3. \A d \in Callers : HolderOK(d)'
  <2>1. HolderOK(c)'
    BY <1>0, <1>2 DEF HolderOK
  <2>2. ASSUME NEW d \in Callers, d # c, op[d].pc \notin Holding PROVE HolderOK(d)'
    BY <1>0, <2>2 DEF HolderOK
  <2> QED
    BY <2>1, <2>2
<1>4. LocksInv'
  <2>1. \A d \in Callers : mutex' = d => d # c /\ op'[d].pc \in Holding
    BY <1>t, <1>0, <1>2 DEF CallInv, LocksInv
  <2>2. ASSUME NEW g \in Services, NEW d \in Callers, service'[g].lock = d PROVE Closing(d, g)'
    <3>1. Closing(d, g)
      BY <1>t, <2>2 DEF CallInv, LocksInv, LocksKept
    <3>2. d # c
      BY <1>0, <3>1 DEF Closing, At
    <3> QED
      BY <1>0, <3>1, <3>2 DEF Closing, At
  <2> QED
    BY <2>1, <2>2 DEF LocksInv
<1>5. BootInv'
  BY <1>0 DEF BootInv
<1>6. NoStray'
  BY <1>t, <1>0 DEF CallInv, NoStray
<1>7. KeyInv'
  <2>1. \A d \in Callers : d # c => (Busy(d)' <=> Busy(d))
    BY <1>0 DEF Busy
  <2>2. Busy(c)' <=> o.pc # "over"
    BY <1>0 DEF Busy
  <2>3. ASSUME ~overlap' PROVE ~overlap /\ (\A d \in Callers : ~Busy(d)) /\ \A d \in Callers : d # c => ~Busy(d)'
    BY <1>0, <2>1, <2>3
  <2>4. ASSUME ~overlap', ~broken' PROVE ~broken /\ key = disk.tunnel
    BY <1>t, <2>3, <2>4 DEF KeyInv
  <2>5. ASSUME ~overlap', ~broken', \A d \in Callers : ~Busy(d)' PROVE key' = disk'.tunnel
    BY <2>2, <2>4, <2>5
  <2>6. ASSUME ~overlap', ~broken', NEW d \in Callers, Busy(d)' PROVE KeyOK(d)'
    BY <2>2, <2>3, <2>4, <2>6
  <2>7. ASSUME ~overlap', NEW d \in Callers, NEW e \in Callers, Busy(d)', Busy(e)' PROVE d = e
    BY <2>3, <2>7
  <2> QED
    BY <2>5, <2>6, <2>7 DEF KeyInv
<1> QED
  BY <1>1, <1>3, <1>4, <1>5, <1>6, <1>7 DEF LifecycleInv, CallInv

LEMMA ChangeNext ==
  ASSUME LifecycleInv, NEW c \in Callers,
         (\E t \in TunnelIds : ChangeTunnel(c, t)) \/ (\E kind \in {"agent", "delete"} : ChangeOther(c, kind))
  PROVE  LifecycleInv'
<1>t. /\ Types /\ ServiceInv /\ CallInv /\ DiskInv /\ op \in [Callers -> Ops]
      /\ disk \in Configs /\ key \in TunnelIds /\ said \in [access : BOOLEAN, rewrite : BOOLEAN]
  BY Unpacked
<1>0. /\ Arrives(c)
      /\ UNCHANGED <<tunnel, service, app, booted, mutex, disk, cancelled, quitting, said, broken>>
  BY DEF ChangeTunnel, ChangeOther
<1>1. PICK o \in Ops :
        /\ op' = [op EXCEPT ![c] = o] /\ o.pc = "lock" /\ key' \in TunnelIds
        /\ IF o.kind = "tunnel" THEN o.value = key' /\ o.oldKey = key ELSE key' = key
  <2>1. ASSUME NEW t \in TunnelIds, ChangeTunnel(c, t)
        PROVE  \E o \in Ops :
                 /\ op' = [op EXCEPT ![c] = o] /\ o.pc = "lock" /\ key' \in TunnelIds
                 /\ o.kind = "tunnel" /\ o.value = key' /\ o.oldKey = key
    <3>k. PICK k \in TunnelIds : k = key
      BY <1>t
    <3> DEFINE o == Wrote(t, k)
    <3>1. key' = t /\ op' = [op EXCEPT ![c] = o]
      BY <2>1, <3>k DEF ChangeTunnel, Wrote
    <3>2. o \in Ops /\ o.pc = "lock" /\ o.kind = "tunnel" /\ o.value = t /\ o.oldKey = k
      BY WroteFields
    <3> HIDE DEF o
    <3> QED
      BY <3>k, <3>1, <3>2
  <2>2. ASSUME NEW kind \in {"agent", "delete"}, ChangeOther(c, kind)
        PROVE  \E o \in Ops :
                 /\ op' = [op EXCEPT ![c] = o] /\ o.pc = "lock" /\ key' = key /\ o.kind # "tunnel"
    <3> DEFINE o == [NewOp EXCEPT !.pc = "lock", !.kind = kind]
    <3>1. key' = key /\ op' = [op EXCEPT ![c] = o]
      BY <2>2 DEF ChangeOther
    <3>2. o \in Ops /\ o.pc = "lock" /\ o.kind = kind
      BY <2>2, OtherOp
    <3> HIDE DEF o
    <3> QED
      BY <3>1, <3>2
  <2> QED
    BY <1>t, <2>1, <2>2
<1>2. op'[c] = o /\ \A d \in Callers : d # c => op'[d] = op[d]
  BY <1>t, <1>1
<1>3. \A d \in Callers : d # c /\ op[d].pc \in Holding => HolderOK(d)'
  BY <1>t, <1>0, <1>2 DEF CallInv, HolderOK
<1>4. DiskInv'
  BY <1>t, <1>0 DEF DiskInv
<1>5. key = disk.tunnel => KeyOK(c)'
  BY <1>0, <1>1, <1>2 DEF KeyOK, OldKey, Holding, Replacing, Fresh
<1>6. Types' /\ ServiceInv' /\ LocksKept /\ \A g \in Services : service'[g].listening => service[g].listening
  BY <1>t, <1>0, Still
<1> QED
  BY <1>t, <1>0, <1>1, <1>3, <1>4, <1>5, <1>6, ArrivalNext

LEMMA PolicyNext ==
  ASSUME LifecycleInv, NEW c \in Callers, NEW g \in Services, NEW value \in BOOLEAN,
         UpdateAccess(c, g, value) \/ UpdateRewrite(c, g, value)
  PROVE  LifecycleInv'
<1>t. /\ Types /\ ServiceInv /\ CallInv /\ DiskInv /\ op \in [Callers -> Ops]
      /\ disk \in Configs /\ key \in TunnelIds /\ said \in [access : BOOLEAN, rewrite : BOOLEAN]
  BY Unpacked
<1>1. PICK field \in {"access", "rewrite"} :
        UpdatePolicy(c, g, field, value) /\ (field = "access" => mutex = Nobody)
  BY DEF UpdateAccess, UpdateRewrite
<1>2. /\ Types' /\ ServiceInv' /\ LocksKept /\ disk' \in Configs /\ app = g
      /\ service[g].closed = FALSE /\ service'[g].config = disk'
      /\ disk'.tunnel = service[g].config.tunnel
      /\ disk'.access = IF field = "access" THEN value ELSE service[g].config.access
      /\ \A h \in Services : /\ service'[h].closed = service[h].closed
                             /\ service'[h].listening = service[h].listening
                             /\ h # g => service'[h].config = service[h].config
  BY <1>t, <1>1, PolicyServices
<1>3. /\ Arrives(c) /\ UNCHANGED <<app, booted, mutex, key, cancelled, quitting, broken>>
      /\ op' = [op EXCEPT ![c] = [NewOp EXCEPT !.pc = "over", !.kind = "policy"]]
      /\ said' = [said EXCEPT ![field] = value]
  BY <1>1 DEF UpdatePolicy
<1>4. /\ said' \in [access : BOOLEAN, rewrite : BOOLEAN]
      /\ said'.access = IF field = "access" THEN value ELSE said.access
  <2>1. CASE field = "access"
    BY <1>t, <1>3, <2>1
  <2>2. CASE field = "rewrite"
    BY <1>t, <1>3, <2>2
  <2> QED
    BY <2>1, <2>2
<1> DEFINE o == [NewOp EXCEPT !.pc = "over", !.kind = "policy"]
<1>5. o \in Ops /\ o.pc = "over"
  BY OtherOp
<1>6. op' = [op EXCEPT ![c] = o]
  BY <1>3
<1> HIDE DEF o
<1>7. service[g].config = disk /\ disk.access = said.access
  BY <1>t, <1>2 DEF DiskInv
<1>8. DiskInv'
  BY <1>2, <1>3, <1>4, <1>7 DEF DiskInv
<1>9. ASSUME NEW d \in Callers, d # c, op[d].pc \in Holding PROVE HolderOK(d)'
  <2>1. HolderOK(d)
    BY <1>t DEF CallInv
  <2>2. op[d].pc = "close" /\ mutex = d /\ field # "access"
    BY <1>1, <1>2, <1>9, <2>1, Constants DEF HolderOK
  <2>3. op'[d] = op[d] /\ said'.access = said.access
    BY <1>t, <1>4, <1>6, <1>9, <2>2
  <2>4. "close" \notin Replacing \cup Fresh
    BY DEF Replacing, Fresh
  <2> QED
    BY <1>3, <1>9, <2>1, <2>2, <2>3, <2>4 DEF HolderOK
<1>10. key = disk.tunnel => key' = disk'.tunnel
  BY <1>2, <1>3, <1>7
<1> QED
  BY <1>t, <1>2, <1>3, <1>4, <1>5, <1>6, <1>8, <1>9, <1>10, ArrivalNext

LEMMA BootNext == ASSUME LifecycleInv, Boot PROVE LifecycleInv'
<1>t. /\ TypeOK /\ Types /\ ServiceInv /\ CallInv /\ DiskInv /\ KeyInv /\ op \in [Callers -> Ops]
      /\ disk \in Configs /\ key \in TunnelIds
  BY Unpacked
<1>0. /\ ~booted /\ booted' = TRUE
      /\ UNCHANGED <<mutex, disk, key, op, cancelled, quitting, said, overlap, broken>>
  BY DEF Boot
<1>1. /\ app = NoService /\ mutex = Nobody /\ (\A c \in Callers : op[c].pc = "idle")
      /\ \A h \in Services : ~service[h].listening
  BY <1>t, <1>0 DEF CallInv, BootInv, At
<1>2. PICK a \in Services \cup {NoService} :
        /\ app' = a /\ Types' /\ ServiceInv' /\ LocksKept
        /\ a \in Services => service'[a].config = disk
        /\ \A h \in Services : service'[h].listening => a = h
  <2>1. CASE NewDefaultFails /\ UNCHANGED app
    BY <1>t, <1>1, <2>1, Still, Constants DEF NewDefaultFails
  <2>2. ASSUME NEW g \in Services, StartSucceeds(g) \/ StartFails(g), app' = g
        PROVE  /\ Types' /\ ServiceInv' /\ LocksKept /\ service'[g].config = disk
               /\ \A h \in Services : service'[h].listening => g = h
    <3>1. CASE StartSucceeds(g)
      BY <1>t, <3>1, StartSucceedsServices DEF Arrived
    <3>2. CASE StartFails(g)
      BY <1>t, <1>1, <3>2, StartFailsServices DEF Arrived
    <3> QED
      BY <2>2, <3>1, <3>2
  <2> QED
    BY <2>1, <2>2 DEF Boot
<1>3. TypeOK'
  BY <1>t, <1>0, <1>2 DEF TypeOK, Types
<1>4. "idle" \notin Holding
  BY DEF Holding, Replacing, Fresh
<1>5. (\A c \in Callers : HolderOK(c)') /\ BootInv'
  BY <1>0, <1>1, <1>4 DEF HolderOK, BootInv
<1>6. LocksInv'
  BY <1>t, <1>0, <1>1, <1>2, Constants DEF CallInv, LocksInv, LocksKept, Closing, At
<1>7. NoStray' /\ DiskInv'
  BY <1>t, <1>0, <1>2 DEF NoStray, DiskInv
<1>8. KeyInv'
  BY <1>t, <1>0, <1>1 DEF KeyInv, Busy
<1> QED
  BY <1>2, <1>3, <1>5, <1>6, <1>7, <1>8 DEF LifecycleInv, CallInv

\* The steps that are no caller's.
LEMMA WorldNext ==
  ASSUME LifecycleInv,
         \/ Cancel \/ Quit \/ UNCHANGED vars
         \/ \E g \in Services :
              \/ CloseTunnel(g) \/ ContextCloses(g) \/ QuitCloses(g) \/ TunnelStep(g)
              \/ \E active \in BOOLEAN : Work(g, active)
  PROVE  LifecycleInv'
<1>t. /\ Types /\ ServiceInv /\ quitting \in Quits /\ cancelled \in BOOLEAN
      /\ app \in Services \cup {NoService}
  BY Unpacked
<1> DEFINE Same == UNCHANGED <<app, booted, mutex, disk, key, op, said, overlap, broken>>
           Steps == Types' /\ ServiceInv' /\ ServicesKept /\ LocksKept
<1>1. CASE Cancel \/ Quit \/ UNCHANGED vars
  <2>1. service' = service /\ tunnel' = tunnel /\ Same
    BY <1>1 DEF Cancel, Quit, vars
  <2>2. Steps
    BY <1>t, <2>1, Still
  <2>3. quitting' \in Quits /\ cancelled' \in BOOLEAN
    <3>1. CASE Cancel
      BY <1>t, <3>1 DEF Cancel
    <3>2. CASE Quit
      <4>1. cancelled' = cancelled
        BY <3>2 DEF Quit
      <4>2. quitting' \in Quits
        <5>1. (IF app = NoService THEN "done" ELSE "waiting") \in {"no", "waiting", "closing", "done"}
          OBVIOUS
        <5> QED
          BY <1>t, <3>2, <5>1 DEF Quit, Quits
      <4> QED
        BY <1>t, <4>1, <4>2
    <3>3. CASE UNCHANGED vars
      BY <1>t, <3>3 DEF vars
    <3> QED
      BY <1>1, <3>1, <3>2, <3>3
  <2> QED
    BY <2>1, <2>2, <2>3, ServicesNext
<1>2. ASSUME NEW g \in Services, CloseTunnel(g) PROVE LifecycleInv'
  <2>1. Steps
    BY <1>t, <1>2, CloseTunnelServices
  <2>2. Same /\ quitting' = quitting /\ cancelled' = cancelled
    BY <1>2 DEF CloseTunnel
  <2> QED
    BY <1>t, <2>1, <2>2, ServicesNext
<1>3. ASSUME NEW g \in Services, NEW who \in {Shutdown, Context}, CloseBegins(g, who) PROVE Steps
  <2>1. who \in Closers
    BY Constants
  <2>2. Types' /\ ServiceInv' /\ ServicesKept /\ LocksBy(g, who)
    BY <1>t, <1>3, <2>1, CloseBeginsServices
  <2>3. \A c \in Callers : who # c
    BY Constants
  <2> QED
    BY <2>2, <2>3 DEF LocksKept, LocksBy
<1>4. ASSUME NEW g \in Services, ContextCloses(g) PROVE LifecycleInv'
  <2>1. Same /\ quitting' = quitting /\ cancelled' = cancelled /\ CloseBegins(g, Context)
    BY <1>4 DEF ContextCloses
  <2>2. Steps
    BY <1>3, <2>1
  <2> QED
    BY <1>t, <2>1, <2>2, ServicesNext
<1>5. ASSUME NEW g \in Services, QuitCloses(g) PROVE LifecycleInv'
  <2>1. Same /\ cancelled' = cancelled
    BY <1>5 DEF QuitCloses
  <2>2. quitting' \in Quits
    BY <1>t, <1>5 DEF QuitCloses, Quits
  <2>3. Steps
    <3>1. CASE CloseBegins(g, Shutdown)
      BY <1>3, <3>1
    <3>2. CASE AlreadyClosed(g)
      BY <1>t, <3>2, Still DEF AlreadyClosed
    <3> QED
      BY <1>5, <3>1, <3>2 DEF QuitCloses
  <2> QED
    BY <1>t, <2>1, <2>2, <2>3, ServicesNext
<1>6. ASSUME NEW g \in Services, TunnelStep(g) PROVE LifecycleInv'
  <2>1. Same /\ quitting' = quitting /\ cancelled' = cancelled
    BY <1>6 DEF TunnelStep
  <2>2. Types' /\ ServiceInv' /\ service' = service
    BY <1>t, <1>6, TunnelStepServices
  <2>3. ServicesKept /\ LocksKept
    BY <2>2 DEF ServicesKept, LocksKept, Kept
  <2> QED
    BY <1>t, <2>1, <2>2, <2>3, ServicesNext
<1>7. ASSUME NEW g \in Services, NEW active \in BOOLEAN, Work(g, active) PROVE LifecycleInv'
  <2>1. Steps
    BY <1>t, <1>7, WorkServices
  <2>2. Same /\ quitting' = quitting /\ cancelled' = cancelled
    BY <1>7 DEF Work
  <2> QED
    BY <1>t, <2>1, <2>2, ServicesNext
<1> QED
  BY <1>1, <1>2, <1>4, <1>5, <1>6, <1>7

LEMMA LifecycleInit == Init => LifecycleInv
<1> SUFFICES ASSUME Init PROVE LifecycleInv
  OBVIOUS
<1>0. /\ tunnel = [g \in Services |-> NewManager] /\ service = [g \in Services |-> Absent]
      /\ app = NoService /\ booted = FALSE /\ mutex = Nobody /\ key \in TunnelIds
      /\ disk = [NoConfig EXCEPT !.tunnel = key, !.agent = TRUE] /\ op = [c \in Callers |-> NewOp]
      /\ cancelled = FALSE /\ quitting = [pc |-> "no", target |-> NoService]
      /\ said = [access |-> FALSE, rewrite |-> FALSE] /\ overlap = FALSE /\ broken = FALSE
  BY DEF Init
<1>1. /\ Absent \in ServiceRecords /\ Absent.state = "absent" /\ Absent.closed = FALSE
      /\ Absent.lock = Nobody /\ Absent.step = "none" /\ Absent.listening = FALSE
  BY Constants DEF Absent, ServiceRecords
<1>2. disk \in Configs /\ disk.access = FALSE /\ disk.tunnel = key
  BY <1>0 DEF NoConfig, Configs
<1>3. TypeOK
  <2>1. tunnel \in [Services -> Managers] /\ service \in [Services -> ServiceRecords]
    BY <1>0, <1>1, NewManagerOK
  <2>2. op \in [Callers -> Ops]
    BY <1>0, NewOpOK
  <2> QED
    BY <1>0, <1>2, <2>1, <2>2 DEF TypeOK
<1>4. ServiceInv
  <2>1. ServiceOK(Absent, NewManager)
    BY <1>1, NewManagerOK DEF ServiceOK
  <2> QED
    BY <1>0, <1>1, <2>1, NewManagerOK DEF ServiceInv
<1>5. \A c \in Callers : op[c].pc = "idle"
  BY <1>0, NewOpOK
<1>6. CallInv
  <2>1. "idle" \notin Holding
    BY DEF Holding, Replacing, Fresh
  <2>2. \A c \in Callers : HolderOK(c)
    BY <1>5, <2>1 DEF HolderOK
  <2>3. LocksInv
    BY <1>0, <1>1, Constants DEF LocksInv
  <2>4. BootInv /\ NoStray
    BY <1>0, <1>1, <1>5 DEF BootInv, NoStray, At
  <2> QED
    BY <2>2, <2>3, <2>4 DEF CallInv
<1>7. DiskInv
  BY <1>0, <1>2, Constants DEF DiskInv
<1>8. KeyInv
  BY <1>2, <1>5 DEF KeyInv, Busy
<1> QED
  BY <1>3, <1>4, <1>6, <1>7, <1>8 DEF LifecycleInv

LEMMA LifecycleNext == LifecycleInv /\ [Next]_vars => LifecycleInv'
<1> SUFFICES ASSUME LifecycleInv, [Next]_vars PROVE LifecycleInv'
  OBVIOUS
<1>1. CASE \/ Cancel \/ Quit \/ UNCHANGED vars
           \/ \E g \in Services :
                \/ CloseTunnel(g) \/ ContextCloses(g) \/ QuitCloses(g) \/ TunnelStep(g)
                \/ \E active \in BOOLEAN : Work(g, active)
  BY <1>1, WorldNext
<1>2. CASE Boot
  BY <1>2, BootNext
<1>3. ASSUME NEW g \in Services, CloseEnds(g) PROVE LifecycleInv'
  BY <1>3, CloseEndsNext
<1>4. ASSUME NEW c \in Callers, Call(c) PROVE LifecycleInv'
  BY <1>4, ChangeNext, PolicyNext DEF Call
<1>5. ASSUME NEW c \in Callers, CallerSteps(c) PROVE LifecycleInv'
  <2>1. ASSUME NEW g \in Services, CloseOld(c, g) \/ CleanUp(c, g) PROVE LifecycleInv'
    BY <2>1, CloseOldNext, CleanUpNext
  <2>2. CASE Refused(c) \/ Enter(c)
    BY <2>2, RefusedNext, EnterNext
  <2>3. CASE Save(c) \/ Delete(c)
    BY <2>3, SaveNext
  <2>4. CASE Start(c) \/ Restart(c)
    BY <2>4, StartNext, RestartNext
  <2>5. CASE Rollback(c) \/ Publish(c) \/ Restore(c)
    BY <2>5, RollbackNext, PublishNext, RestoreNext
  <2> QED
    BY <1>5, <2>1, <2>2, <2>3, <2>4, <2>5 DEF CallerSteps
<1> QED
  BY <1>1, <1>2, <1>3, <1>4, <1>5 DEF Next

----------------------------------------------------------------------------
(* The theorems.                                                           *)

\* The invariant above holds of every behaviour: whatever calls, restarts of tunnels,
\* failures and shutdowns come in which order.
THEOREM LifecycleInductive == Spec => []LifecycleInv
BY LifecycleInit, LifecycleNext, PTL DEF Spec

\* The types of AppLifecycle.
THEOREM LifecycleTypes == Spec => []TypeOK
<1>1. LifecycleInv => TypeOK
  BY DEF LifecycleInv
<1> QED
  BY <1>1, LifecycleInductive, PTL

\* One tunnel process at a time over all services, but for one that Close reported
\* that it could not stop (Manager.Close, startV2Service).
THEOREM OneTunnelHolds == Spec => []OneTunnel
<1>1. ASSUME LifecycleInv PROVE OneTunnel
  <2>t. /\ ServiceInv /\ Types /\ \A g \in Services : tunnel[g] \in Managers
    BY <1>1, Unpacked DEF Types
  <2>1. \A g \in Services : tunnel[g].stop = "clean" => Live(tunnel[g]) = {}
    BY <2>t DEF ServiceInv, ManagerOK, Live
  <2>2. ASSUME NEW g \in Services, NEW h \in Services, NEW n \in Live(tunnel[g]), NEW i \in Live(tunnel[h]),
               ~Unstopped(g), ~Unstopped(h)
        PROVE  g = h /\ n = i
    <3>1. tunnel[g].run[n] # "none" /\ tunnel[h].run[i] # "none" /\ n \in Names /\ i \in Names
      BY <2>2 DEF Live
    <3>2. service[g].listening /\ service[h].listening
      BY <2>t, <2>2, <3>1 DEF ServiceInv, ServiceOK, Silent, Unstopped
    <3>3. g = h
      BY <2>t, <3>2 DEF ServiceInv
    <3>4. ManagerOK(tunnel[g])
      BY <2>t DEF ServiceInv
    <3>5. tunnel[g].process \in Names \cup {NoProcess}
      BY <2>t DEF Managers
    <3> QED
      BY <3>1, <3>3, <3>4, <3>5 DEF ManagerOK, Names, NoProcess
  <2> QED
    BY <2>1, <2>2 DEF OneTunnel
<1> QED
  BY <1>1, LifecycleInductive, PTL

\* A tunnel that is shown to run has a process, one that is shown to restart has a
\* timer that counts, and a service that runs does not lose its tunnel in silence
\* (scheduleRestartLocked, restartAfter, wait).
THEOREM SupervisedHolds == Spec => []Supervised
<1>1. ASSUME LifecycleInv PROVE Supervised
  <2>1. ASSUME NEW g \in Services
        PROVE  LET m == tunnel[g] IN
                 /\ m.state = "running" => m.process # NoProcess /\ m.run[m.process] # "none"
                 /\ m.state = "restarting" => m.armed /\ ~m.closed /\ m.process = NoProcess
                 /\ service[g].state = "running" /\ m.process = NoProcess
                      => m.armed \/ m.state \in {"disabled", "blocked", "failed"}
    <3>1. ManagerOK(tunnel[g]) /\ ServiceOK(service[g], tunnel[g])
      BY <1>1, Unpacked DEF ServiceInv
    <3> QED
      BY <3>1 DEF ManagerOK, ServiceOK, Supported
  <2> QED
    BY <2>1 DEF Supervised
<1> QED
  BY <1>1, LifecycleInductive, PTL

\* A service that listens is the application's, or the next thing the call that started
\* it does is to make it so: none is left behind with its ports (reconfigure,
\* restartV2Service).
THEOREM NoStrayHolds == Spec => []NoStray
<1>1. LifecycleInv => NoStray
  BY DEF LifecycleInv, CallInv
<1> QED
  BY <1>1, LifecycleInductive, PTL

\* The access profile that UpdateCodexAccessProfile said to be in force is that of the
\* file and of the service, whichever reconfigurations come between.
THEOREM AccessKeptHolds == Spec => []AccessKept
<1>1. LifecycleInv => AccessKept
  BY DEF LifecycleInv, DiskInv, AccessKept
<1> QED
  BY <1>1, LifecycleInductive, PTL

\* When no call is under way and none overlapped another or failed to undo its work,
\* the key in the store is that of the tunnel in the file (ConfigureOpenAITunnel,
\* ClearOpenAITunnel).
THEOREM KeyMatchesTunnelHolds == Spec => []KeyMatchesTunnel
<1>1. LifecycleInv => KeyMatchesTunnel
  BY DEF LifecycleInv, KeyInv, KeyMatchesTunnel, Quiet
<1> QED
  BY <1>1, LifecycleInductive, PTL
=============================================================================
