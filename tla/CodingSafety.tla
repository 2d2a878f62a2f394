---------------------------- MODULE CodingSafety ----------------------------
(***************************************************************************)
(* Theorems of CodingService: sessions, their operations and the processes *)
(* they leave behind, for every number of calls, repositories and          *)
(* processes and every limit of the tool host.                             *)
(***************************************************************************)
EXTENDS CodingService, FiniteSetTheorems, TLAPS

----------------------------------------------------------------------------
(* The inductive invariant.                                                *)

\* The session s was created, and is there or gone.
Created(s) == s \in Calls /\ record[s].repo # None

\* A session is created once, and leaves only when it is closing.
SessionInv ==
  \A s \in Calls :
    /\ record[s].repo # None => call[s].pc \in {"leaving", "over"}
    /\ record[s].repo # None /\ ~record[s].closing => s \in sessions
    /\ s \in sessions => record[s].repo # None

\* What a call holds at each point: its repository, its session, and where it is
\* inside the host.
CallInv ==
  \A c \in Calls :
    /\ call[c].pc \in {"reserved", "preparing", "leaving"} => call[c].repo \in Repos
    /\ call[c].pc \in {"found", "operating"} => Created(call[c].target)
    /\ At(c, "await_open") => call[c].target \in Calls
    /\ call[c].pc \in {"await_op", "stop"} \/ call[c].result = "closed" =>
         Created(call[c].target) /\ record[call[c].target].closing
    /\ call[c].result = "closed" => At(c, "over")
    /\ task[c].pc # "idle" => call[c].pc \in {"operating", "stop", "all_stop", "all_host"}
    /\ task[c].pc \in {"starting", "launched", "command"} => At(c, "operating")
    /\ At(c, "stop") => task[c].pc \in {"stopping", "await", "returned"}

\* A Close waits for the one operation of its session, and stops the processes
\* when the session has no operation any more.
ClosingInv ==
  \A c, e \in Calls : At(e, "operating") /\ call[e].target = call[c].target =>
    /\ At(c, "await_op") => call[c].op = e
    /\ ~At(c, "stop") /\ call[c].result # "closed"

\* A process runs in the workspace of the session of the Exec that started it.
ProcessInv ==
  \A p \in Calls :
    /\ process[p].state # "none" =>
         /\ call[p].pc \in {"operating", "over"} /\ Created(call[p].target)
         /\ process[p].path = record[call[p].target].repo
    /\ process[p].state = "launched" <=> task[p].pc = "launched"
    /\ task[p].pc \in {"starting", "launched"} => task[p].path = record[call[p].target].repo
    /\ process[p].alive => process[p].state \in {"launched", "running"}

\* A Close that stops the processes of its session has each one still before it,
\* or waits for it, or has failed.
StopInv ==
  \A c, p \in Calls : At(c, "stop") =>
    /\ task[c].pc = "returned" => task[c].todo = {}
    /\ call[p].target = call[c].target =>
         /\ process[p].alive => p \in task[c].todo
         /\ process[p].state \in LiveStates /\ task[c].ok =>
              p \in task[c].todo \/ (task[c].pc = "await" /\ task[c].waits = p)

ServiceInv == SessionInv /\ CallInv /\ ClosingInv /\ OneOperation /\ OwnerExists
RunningInv == ProcessInv /\ StopInv /\ NoOrphan /\ CleanClose
CodingInv == TypeOK /\ ServiceInv /\ RunningInv

LEMMA NoneIsNoCall == None \notin Calls /\ None \notin Repos /\ Opening \notin Calls /\ Opening # None
BY HostAssumption, OpeningAssumption DEF Calls, Repos

LEMMA CallsFinite == IsFiniteSet(Calls)
BY FS_Interval, HostAssumption DEF Calls

----------------------------------------------------------------------------
(* The fields of a call and of its task after a step.                      *)

LEMMA GoFields ==
  ASSUME call \in [Calls -> CallRecords], NEW c \in Calls, NEW pc \in Pcs, Go(c, pc)
  PROVE  /\ call' \in [Calls -> CallRecords]
         /\ call'[c].pc = pc
         /\ \A d \in Calls :
              /\ d # c => call'[d] = call[d]
              /\ call'[d].repo = call[d].repo /\ call'[d].target = call[d].target
              /\ call'[d].op = call[d].op /\ call'[d].result = call[d].result
              /\ call'[d].openings = call[d].openings /\ call'[d].records = call[d].records
<1>1. call[c] \in CallRecords
  OBVIOUS
<1>2. [call[c] EXCEPT !.pc = pc] \in CallRecords
  BY <1>1 DEF CallRecords
<1>3. call' = [call EXCEPT ![c] = [call[c] EXCEPT !.pc = pc]]
  BY DEF Go
<1> QED
  BY <1>1, <1>2, <1>3 DEF CallRecords

LEMMA NewCallType == NewCall \in CallRecords
BY DEF NewCall, CallRecords, Pcs, Results

LEMMA EnterFields ==
  ASSUME task \in [Calls -> Tasks], NEW c \in Calls, NEW t \in Tasks, Enter(c, t)
  PROVE  /\ task' \in [Calls -> Tasks]
         /\ task'[c] = t
         /\ \A d \in Calls : d # c => task'[d] = task[d]
BY DEF Enter

LEMMA RestType == Rest \in Tasks
BY DEF Rest, Tasks

LEMMA ReturnFields ==
  ASSUME task \in [Calls -> Tasks], NEW c \in Calls, NEW ok \in BOOLEAN, Return(c, ok)
  PROVE  /\ task' \in [Calls -> Tasks]
         /\ task'[c].pc = "returned" /\ task'[c].ok = ok /\ task'[c].todo = task[c].todo
         /\ \A d \in Calls : d # c => task'[d] = task[d]
<1>0. task[c] \in Tasks
  OBVIOUS
<1>1. [task[c] EXCEPT !.pc = "returned", !.ok = ok] \in Tasks
  BY <1>0 DEF Tasks
<1>2. task'[c] = [task[c] EXCEPT !.pc = "returned", !.ok = ok]
  BY DEF Return, Enter
<1> QED
  BY <1>0, <1>1, <1>2, EnterFields DEF Return, Tasks

----------------------------------------------------------------------------
(* Types.                                                                  *)

\* What entering the host for an Exec does.
LEMMA HostEnterFields ==
  ASSUME HostTypeOK, NEW c \in Calls, NEW w \in Paths,
         \/ HostRun(c, w) \/ HostStart(c, w) \/ \E p \in Calls : HostStop(c, w, p)
  PROVE  /\ HostTypeOK' /\ UNCHANGED <<host, process>>
         /\ task'[c].pc \in {"command", "starting", "stopping", "returned"}
         /\ task'[c].pc = "starting" => task'[c].path = w
         /\ \A d \in Calls : d # c => task'[d] = task[d]
<1>r. Rest \in Tasks
  BY RestType
<1>0. UNCHANGED <<host, process>>
  BY DEF HostRun, HostStart, HostStop
<1>1. ASSUME NEW t \in Tasks, Enter(c, t), t.pc \in {"command", "starting", "stopping"},
             t.path = w \/ t.pc = "stopping"
      PROVE  /\ HostTypeOK' /\ task'[c] = t
             /\ \A d \in Calls : d # c => task'[d] = task[d]
  BY <1>0, <1>1, EnterFields DEF HostTypeOK
<1>2. ASSUME Return(c, FALSE)
      PROVE  /\ HostTypeOK' /\ task'[c].pc = "returned"
             /\ \A d \in Calls : d # c => task'[d] = task[d]
  BY <1>0, <1>2, ReturnFields DEF HostTypeOK
<1> DEFINE tc == [Rest EXCEPT !.pc = "command", !.path = w]
           ts == [Rest EXCEPT !.pc = "starting", !.path = w]
           tp(p) == [Rest EXCEPT !.pc = "stopping", !.todo = {p}]
<1>3. tc \in Tasks /\ tc.pc = "command" /\ tc.path = w
  BY <1>r DEF Tasks
<1>4. ts \in Tasks /\ ts.pc = "starting" /\ ts.path = w
  BY <1>r DEF Tasks
<1>5. \A p \in Calls : tp(p) \in Tasks /\ tp(p).pc = "stopping"
  BY <1>r DEF Tasks
<1>6. \/ Enter(c, tc) \/ Enter(c, ts) \/ Return(c, FALSE) \/ \E p \in Calls : Enter(c, tp(p))
  BY DEF HostRun, HostStart, HostStop
<1> HIDE DEF tc, ts, tp
<1> QED
  BY <1>0, <1>1, <1>2, <1>3, <1>4, <1>5, <1>6

LEMMA StopWorkspaceFields ==
  ASSUME HostTypeOK, NEW c \in Calls, NEW w, HostStopWorkspace(c, w)
  PROVE  /\ HostTypeOK' /\ UNCHANGED <<host, process>>
         /\ task'[c].pc = "stopping" /\ task'[c].ok = TRUE
         /\ task'[c].todo = {p \in Registered : process[p].path = w}
         /\ \A d \in Calls : d # c => task'[d] = task[d]
<1> DEFINE S == {p \in Registered : process[p].path = w}
           t == [Rest EXCEPT !.pc = "stopping", !.todo = S]
<1>1. S \in SUBSET Calls
  BY DEF Registered
<1>2. Enter(c, t) /\ UNCHANGED <<host, process>>
  BY DEF HostStopWorkspace
<1> HIDE DEF S
<1>3. t \in Tasks /\ t.pc = "stopping" /\ t.ok = TRUE /\ t.todo = S
  BY <1>1, RestType DEF Tasks, Rest
<1> HIDE DEF t
<1>4. task' \in [Calls -> Tasks] /\ task'[c] = t /\ \A d \in Calls : d # c => task'[d] = task[d]
  BY <1>2, <1>3, EnterFields DEF HostTypeOK
<1> QED
  BY <1>2, <1>3, <1>4 DEF HostTypeOK, S

LEMMA CloseHostType ==
  ASSUME HostTypeOK, NEW c \in Calls, HostClose(c)
  PROVE  /\ HostTypeOK' /\ UNCHANGED process
         /\ task'[c].pc \in {"stopping", "returned"}
         /\ \A d \in Calls : d # c => task'[d] = task[d]
<1> DEFINE t == [Rest EXCEPT !.pc = "stopping", !.todo = Registered]
<1>1. Registered \in SUBSET Calls
  BY DEF Registered
<1>2. t \in Tasks /\ t.pc = "stopping"
  BY <1>1, RestType DEF Tasks, Rest
<1>3. Enter(c, t) \/ Return(c, TRUE)
  BY DEF HostClose
<1> HIDE DEF t
<1>4. /\ task' \in [Calls -> Tasks] /\ task'[c].pc \in {"stopping", "returned"}
      /\ \A d \in Calls : d # c => task'[d] = task[d]
  BY <1>2, <1>3, EnterFields, ReturnFields DEF HostTypeOK
<1> QED
  BY <1>4 DEF HostClose, HostTypeOK

LEMMA ToRest ==
  ASSUME HostTypeOK, NEW c \in Calls, Enter(c, Rest), UNCHANGED <<host, process>>
  PROVE  /\ HostTypeOK' /\ task'[c].pc = "idle"
         /\ \A d \in Calls : d # c => task'[d] = task[d]
<1>1. Rest.pc = "idle"
  BY DEF Rest
<1> QED
  BY <1>1, RestType, EnterFields DEF HostTypeOK

LEMMA OrderType ==
  \A S : S \subseteq Calls => Cardinality(S) \in Nat
BY CallsFinite, FS_Subset, FS_CardinalityType

\* What each step of a call inside the host does to its task and to a process.
LaunchMove(c) ==
  /\ task[c].pc = "starting" /\ task'[c].pc = "launched" /\ task'[c].path = task[c].path
  /\ process'[c].state = "launched" /\ process'[c].path = task[c].path
  /\ \A q \in Calls : q # c => process'[q] = process[q]

RegisterMove(c) ==
  /\ task[c].pc = "launched" /\ task'[c].pc = "returned"
  /\ process'[c].path = process[c].path
  /\ \/ process'[c].state = "running"
     \/ process'[c].state = "gone" /\ process'[c].alive = FALSE
  /\ \A q \in Calls : q # c => process'[q] = process[q]

EndMove(c) ==
  /\ task[c].pc \in {"starting", "command"} /\ task'[c].pc = "returned"
  /\ process' = process

AskMove(c, p) ==
  /\ task[c].pc = "stopping" /\ p \in task[c].todo \cap Running
  /\ task'[c].todo = task[c].todo \ {p}
  /\ \/ task'[c].pc = "await" /\ task'[c].waits = p /\ task'[c].ok = task[c].ok
     \/ task'[c].pc = "stopping" /\ task'[c].ok = FALSE
  /\ process'[p].state = "stopping" /\ process'[p].alive = FALSE
  /\ process'[p].path = process[p].path
  /\ \A q \in Calls : q # p => process'[q] = process[q]

SkipMove(c, p) ==
  /\ task[c].pc = "stopping" /\ p \in task[c].todo \ Running
  /\ task'[c].todo = task[c].todo \ {p}
  /\ task'[c].pc = "stopping" /\ (task'[c].ok => task[c].ok)
  /\ process' = process

AwaitMove(c) ==
  /\ task[c].pc = "await" /\ task'[c].pc = "stopping" /\ task'[c].todo = task[c].todo
  /\ \/ task'[c].ok = FALSE
     \/ task'[c].ok = task[c].ok /\ process[task[c].waits].state \notin LiveStates
  /\ process' = process

DoneMove(c) ==
  /\ task[c].pc = "stopping" /\ task[c].todo = {}
  /\ task'[c].pc = "returned" /\ task'[c].todo = {} /\ task'[c].ok = task[c].ok
  /\ process' = process

HostMove(c) ==
  /\ \A d \in Calls : d # c => task'[d] = task[d]
  /\ \/ LaunchMove(c) \/ RegisterMove(c) \/ EndMove(c) \/ AwaitMove(c) \/ DoneMove(c)
     \/ \E p \in Calls : AskMove(c, p) \/ SkipMove(c, p)

LEMMA HostMoves ==
  ASSUME HostTypeOK, NEW c \in Calls, HostStep(c)
  PROVE  HostTypeOK' /\ HostMove(c)
<1>t. /\ task \in [Calls -> Tasks] /\ task[c] \in Tasks
      /\ process \in [Calls -> Processes] /\ process[c] \in Processes
  BY DEF HostTypeOK
<1>1. CASE Launch(c)
  <2> DEFINE t == [task[c] EXCEPT !.pc = "launched"]
             n == Cardinality({p \in Calls : process[p].order > 0}) + 1
             q == [NoProcess EXCEPT !.state = "launched", !.path = task[c].path,
                                    !.alive = TRUE, !.order = n]
  <2>1. t \in Tasks /\ t.pc = "launched" /\ t.path = task[c].path
    BY <1>t DEF Tasks
  <2>2. task[c].path \in Paths /\ task[c].pc = "starting"
    BY <1>1 DEF Launch, HostTypeOK
  <2>3. n \in Nat
    BY OrderType
  <2>4. Enter(c, t) /\ process' = [process EXCEPT ![c] = q] /\ host' = host
    BY <1>1 DEF Launch
  <2> HIDE DEF t, n
  <2>5. NoProcess \in Processes
    BY DEF NoProcess, Processes, ProcessStates
  <2>6. q \in Processes
    BY <2>2, <2>3, <2>5 DEF Processes, ProcessStates
  <2>7. q.state = "launched" /\ q.path = task[c].path
    BY DEF NoProcess
  <2> HIDE DEF q
  <2>8. /\ task' \in [Calls -> Tasks] /\ task'[c] = t
        /\ \A d \in Calls : d # c => task'[d] = task[d]
    BY <1>t, <2>1, <2>4, EnterFields
  <2>9. process' \in [Calls -> Processes] /\ process'[c] = q
          /\ \A d \in Calls : d # c => process'[d] = process[d]
    BY <1>t, <2>4, <2>6
  <2>10. HostTypeOK'
    BY <2>1, <2>2, <2>4, <2>8, <2>9 DEF HostTypeOK
  <2> QED
    BY <2>1, <2>2, <2>7, <2>8, <2>9, <2>10 DEF HostMove, LaunchMove
<1>2. CASE StartFails(c) \/ CommandEnds(c)
  <2>1. PICK ok \in BOOLEAN : Return(c, ok)
    BY <1>2 DEF StartFails, CommandEnds
  <2>2. UNCHANGED <<host, process>> /\ task[c].pc \in {"starting", "command"}
    BY <1>2 DEF StartFails, CommandEnds
  <2> QED
    BY <1>t, <2>1, <2>2, ReturnFields DEF HostTypeOK, HostMove, EndMove
<1>3. CASE Register(c) \/ StateWriteFails(c)
  <2>1. PICK ok \in BOOLEAN : Return(c, ok)
    BY <1>3 DEF Register, StateWriteFails, MayRegister
  <2>2. host' = host /\ task[c].pc = "launched"
    BY <1>3 DEF Register, StateWriteFails
  <2>3. \/ process' = [process EXCEPT ![c].state = "running"]
        \/ process' = [process EXCEPT ![c].state = "gone", ![c].alive = FALSE]
    BY <1>3 DEF Register, StateWriteFails, Discarded
  <2>4. CASE process' = [process EXCEPT ![c].state = "running"]
    <3>1. /\ process' = [process EXCEPT ![c] = [process[c] EXCEPT !.state = "running"]]
          /\ [process[c] EXCEPT !.state = "running"] \in Processes
      BY <1>t, <2>4 DEF Processes, ProcessStates
    <3>2. process' \in [Calls -> Processes] /\ process'[c].state = "running"
            /\ process'[c].path = process[c].path
      BY <1>t, <3>1 DEF Processes
    <3> QED
      BY <1>t, <2>1, <2>2, <2>4, <3>2, ReturnFields DEF HostTypeOK, HostMove, RegisterMove
  <2>5. CASE process' = [process EXCEPT ![c].state = "gone", ![c].alive = FALSE]
    <3>1. [process[c] EXCEPT !.state = "gone", !.alive = FALSE] \in Processes
      BY <1>t DEF Processes, ProcessStates
    <3>2. process'[c] = [process[c] EXCEPT !.state = "gone", !.alive = FALSE]
      BY <1>t, <2>5
    <3>3. process' \in [Calls -> Processes] /\ process'[c].state = "gone"
            /\ process'[c].alive = FALSE /\ process'[c].path = process[c].path
      BY <1>t, <2>5, <3>1, <3>2 DEF Processes
    <3> QED
      BY <1>t, <2>1, <2>2, <2>5, <3>3, ReturnFields DEF HostTypeOK, HostMove, RegisterMove
  <2> QED
    BY <2>3, <2>4, <2>5
<1>4. CASE AskToStop(c)
  <2>1. PICK p \in task[c].todo \cap Running :
          /\ process' = Stopped(p)
          /\ \/ Enter(c, [task[c] EXCEPT !.pc = "await", !.todo = @ \ {p}, !.waits = p])
             \/ Enter(c, [task[c] EXCEPT !.todo = @ \ {p}, !.ok = FALSE])
    BY <1>4 DEF AskToStop
  <2>2. p \in Calls /\ host' = host /\ task[c].pc = "stopping"
    BY <1>4 DEF AskToStop, Running
  <2>3. /\ process' \in [Calls -> Processes]
        /\ process'[p].state = "stopping" /\ process'[p].alive = FALSE
        /\ process'[p].path = process[p].path
        /\ \A q \in Calls : q # p => process'[q] = process[q]
    <3>1. process[p] \in Processes
      BY <1>t, <2>2
    <3>2. [process[p] EXCEPT !.state = "stopping", !.asked = TRUE, !.alive = FALSE] \in Processes
      BY <3>1 DEF Processes, ProcessStates
    <3>3. process'[p] = [process[p] EXCEPT !.state = "stopping", !.asked = TRUE, !.alive = FALSE]
      BY <1>t, <2>1, <2>2 DEF Stopped
    <3> QED
      BY <1>t, <2>1, <2>2, <3>1, <3>2, <3>3 DEF Stopped, Processes
  <2>4. CASE Enter(c, [task[c] EXCEPT !.pc = "await", !.todo = @ \ {p}, !.waits = p])
    <3> DEFINE t == [task[c] EXCEPT !.pc = "await", !.todo = @ \ {p}, !.waits = p]
    <3>1. /\ t \in Tasks /\ t.pc = "await" /\ t.todo = task[c].todo \ {p} /\ t.waits = p
          /\ t.ok = task[c].ok
      BY <1>t, <2>2 DEF Tasks
    <3> HIDE DEF t
    <3>2. /\ task' \in [Calls -> Tasks] /\ task'[c] = t
          /\ \A d \in Calls : d # c => task'[d] = task[d]
      BY <1>t, <2>4, <3>1, EnterFields DEF t
    <3>3. HostTypeOK'
      BY <2>2, <2>3, <3>1, <3>2 DEF HostTypeOK
    <3> QED
      BY <2>1, <2>2, <2>3, <3>1, <3>2, <3>3 DEF HostMove, AskMove
  <2>5. CASE Enter(c, [task[c] EXCEPT !.todo = @ \ {p}, !.ok = FALSE])
    <3> DEFINE t == [task[c] EXCEPT !.todo = @ \ {p}, !.ok = FALSE]
    <3>1. /\ t \in Tasks /\ t.pc = "stopping" /\ t.todo = task[c].todo \ {p} /\ t.ok = FALSE
      BY <1>t, <2>2 DEF Tasks
    <3> HIDE DEF t
    <3>2. /\ task' \in [Calls -> Tasks] /\ task'[c] = t
          /\ \A d \in Calls : d # c => task'[d] = task[d]
      BY <1>t, <2>5, <3>1, EnterFields DEF t
    <3>3. HostTypeOK'
      BY <2>2, <2>3, <3>1, <3>2 DEF HostTypeOK
    <3> QED
      BY <2>1, <2>2, <2>3, <3>1, <3>2, <3>3 DEF HostMove, AskMove
  <2> QED
    BY <2>1, <2>4, <2>5
<1>5. CASE NothingToStop(c)
  <2>1. PICK p \in task[c].todo \ Running :
          Enter(c, [task[c] EXCEPT !.todo = @ \ {p}, !.ok = @ /\ p \in Terminal])
    BY <1>5 DEF NothingToStop
  <2> DEFINE ok == task[c].ok /\ p \in Terminal
             t == [task[c] EXCEPT !.todo = @ \ {p}, !.ok = ok]
  <2>2. p \in Calls /\ task[c].pc = "stopping" /\ UNCHANGED <<host, process>>
    BY <1>5, <1>t DEF NothingToStop, Tasks
  <2>3. Enter(c, t)
    BY <2>1
  <2>4. ok \in BOOLEAN /\ (ok => task[c].ok)
    OBVIOUS
  <2> HIDE DEF ok
  <2>5. t \in Tasks /\ t.pc = "stopping" /\ t.todo = task[c].todo \ {p} /\ t.ok = ok
    BY <1>t, <2>2, <2>4 DEF Tasks
  <2> HIDE DEF t
  <2>6. /\ task' \in [Calls -> Tasks] /\ task'[c] = t
        /\ \A d \in Calls : d # c => task'[d] = task[d]
    BY <1>t, <2>3, <2>5, EnterFields
  <2>7. HostTypeOK'
    BY <2>2, <2>5, <2>6 DEF HostTypeOK
  <2>8. SkipMove(c, p)
    BY <2>1, <2>2, <2>4, <2>5, <2>6 DEF SkipMove
  <2> QED
    BY <2>2, <2>6, <2>7, <2>8 DEF HostMove
<1>6. CASE Awaited(c)
  <2> DEFINE t == [task[c] EXCEPT !.pc = "stopping", !.waits = None]
  <2>1. /\ t \in Tasks /\ t.pc = "stopping" /\ t.todo = task[c].todo /\ t.ok = task[c].ok
    BY <1>t DEF Tasks
  <2>2. Enter(c, t) /\ UNCHANGED <<host, process>> /\ task[c].pc = "await"
          /\ process[task[c].waits].state \notin LiveStates
    BY <1>6 DEF Awaited
  <2> HIDE DEF t
  <2>3. /\ task' \in [Calls -> Tasks] /\ task'[c] = t
        /\ \A d \in Calls : d # c => task'[d] = task[d]
    BY <1>t, <2>1, <2>2, EnterFields
  <2>4. HostTypeOK'
    BY <2>1, <2>2, <2>3 DEF HostTypeOK
  <2> QED
    BY <2>1, <2>2, <2>3, <2>4 DEF HostMove, AwaitMove
<1>7. CASE AwaitTimesOut(c)
  <2> DEFINE t == [task[c] EXCEPT !.pc = "stopping", !.waits = None, !.ok = FALSE]
  <2>1. /\ t \in Tasks /\ t.pc = "stopping" /\ t.todo = task[c].todo /\ t.ok = FALSE
    BY <1>t DEF Tasks
  <2>2. Enter(c, t) /\ UNCHANGED <<host, process>> /\ task[c].pc = "await"
    BY <1>7 DEF AwaitTimesOut
  <2> HIDE DEF t
  <2>3. /\ task' \in [Calls -> Tasks] /\ task'[c] = t
        /\ \A d \in Calls : d # c => task'[d] = task[d]
    BY <1>t, <2>1, <2>2, EnterFields
  <2>4. HostTypeOK'
    BY <2>1, <2>2, <2>3 DEF HostTypeOK
  <2> QED
    BY <2>1, <2>2, <2>3, <2>4 DEF HostMove, AwaitMove
<1>8. CASE StopsDone(c)
  <2>1. task[c].ok \in BOOLEAN
    BY <1>t DEF Tasks
  <2>2. Return(c, task[c].ok) /\ UNCHANGED <<host, process>> /\ task[c].pc = "stopping"
          /\ task[c].todo = {}
    BY <1>8 DEF StopsDone
  <2> QED
    BY <1>t, <2>1, <2>2, ReturnFields DEF HostTypeOK, HostMove, DoneMove
<1> QED
  BY <1>1, <1>2, <1>3, <1>4, <1>5, <1>6, <1>7, <1>8 DEF HostStep

\* A process ends, or its record does, whoever looks.
EndingMove ==
  /\ task' = task
  /\ \A q \in Calls :
       /\ process'[q].path = process[q].path
       /\ process'[q].alive => process[q].alive
       /\ \/ process'[q].state = process[q].state
          \/ /\ process[q].state \in LiveStates \cup TerminalProcess
             /\ process'[q].state \in TerminalProcess \cup {"gone"}
             /\ ~process'[q].alive

LEMMA EndingMoves ==
  ASSUME HostTypeOK, ProcessInv, NEW p \in Calls, Exit(p) \/ Watch(p)
  PROVE  HostTypeOK' /\ EndingMove
<1>t. process \in [Calls -> Processes] /\ process[p] \in Processes
  BY DEF HostTypeOK
<1>1. CASE Exit(p)
  <2>1. [process[p] EXCEPT !.alive = FALSE] \in Processes
    BY <1>t DEF Processes
  <2>2. process' = [process EXCEPT ![p] = [process[p] EXCEPT !.alive = FALSE]]
    BY <1>1 DEF Exit
  <2>3. /\ process'[p].alive = FALSE /\ process'[p].state = process[p].state
        /\ process'[p].path = process[p].path
    BY <1>t, <2>2 DEF Processes
  <2>4. HostTypeOK'
    BY <1>1, <1>t, <2>1, <2>2 DEF Exit, HostTypeOK
  <2>5. \A q \in Calls : q # p => process'[q] = process[q]
    BY <1>t, <2>2
  <2> QED
    BY <1>1, <2>3, <2>4, <2>5 DEF Exit, EndingMove
<1>2. CASE Watch(p)
  <2> DEFINE end == IF process[p].asked THEN "stopped" ELSE "exited"
             f == [process EXCEPT ![p].state = end]
  <2>1. /\ process[p].state \in LiveStates /\ ~process[p].alive
        /\ process' = Pruned(f) /\ UNCHANGED <<host, task>>
    BY <1>2 DEF Watch
  <2>2. end \in TerminalProcess
    BY DEF TerminalProcess
  <2> HIDE DEF end
  <2>3. f = [process EXCEPT ![p] = [process[p] EXCEPT !.state = end]]
    OBVIOUS
  <2>4. [process[p] EXCEPT !.state = end] \in Processes
    BY <1>t, <2>2 DEF Processes, ProcessStates, TerminalProcess
  <2>5. /\ f \in [Calls -> Processes] /\ f[p].state = end /\ f[p].alive = process[p].alive
        /\ f[p].path = process[p].path /\ \A q \in Calls : q # p => f[q] = process[q]
    BY <1>t, <2>3, <2>4 DEF Processes
  <2> HIDE DEF f
  <2>6. \A q \in Calls : \/ process'[q] = f[q]
                        \/ /\ process'[q] = [f[q] EXCEPT !.state = "gone"]
                           /\ f[q].state \in TerminalProcess
    BY <2>1 DEF Pruned, Prunable
  <2>7. \A q \in Calls : [f[q] EXCEPT !.state = "gone"] \in Processes
    BY <2>5 DEF Processes, ProcessStates
  <2>8. process' \in [Calls -> Processes]
    <3>1. \E S, n : process' = [q \in Calls |-> IF q \in S /\ n[q]
                                                 THEN [f[q] EXCEPT !.state = "gone"] ELSE f[q]]
      <4> DEFINE ended == {x \in Calls : Prunable(f, x)}
                 all == {x \in Calls : f[x].state \in LiveStates \cup TerminalProcess}
                 excess == IF Cardinality(all) > MaxRecords THEN Cardinality(all) - MaxRecords
                           ELSE 0
                 n == [x \in Calls |-> Cardinality({y \in ended : f[y].order < f[x].order}) < excess]
      <4>1. process' = [q \in Calls |-> IF q \in ended /\ n[q]
                                        THEN [f[q] EXCEPT !.state = "gone"] ELSE f[q]]
        BY <2>1 DEF Pruned
      <4> QED
        BY <4>1
    <3> QED
      BY <2>5, <2>7, <3>1
  <2>9. HostTypeOK'
    BY <2>1, <2>8 DEF HostTypeOK
  <2>10. ASSUME NEW q \in Calls
         PROVE  /\ process'[q].path = process[q].path
                /\ process'[q].alive => process[q].alive
                /\ \/ process'[q].state = process[q].state
                   \/ /\ process[q].state \in LiveStates \cup TerminalProcess
                      /\ process'[q].state \in TerminalProcess \cup {"gone"}
                      /\ ~process'[q].alive
    <3>0. f[q] \in Processes
      BY <2>5
    <3>1. /\ process'[q].path = f[q].path /\ process'[q].alive = f[q].alive
          /\ process'[q].state = f[q].state
             \/ (process'[q].state = "gone" /\ f[q].state \in TerminalProcess)
      BY <2>6, <3>0 DEF Processes
    <3>2. CASE q = p
      BY <2>1, <2>2, <2>5, <3>1, <3>2
    <3>3. CASE q # p
      <4>1. process[q].state \in TerminalProcess => ~process[q].alive
        BY DEF ProcessInv, TerminalProcess
      <4> QED
        BY <2>5, <3>1, <3>3, <4>1
    <3> QED
      BY <3>2, <3>3
  <2> QED
    BY <2>1, <2>9, <2>10 DEF EndingMove
<1> QED
  BY <1>1, <1>2

----------------------------------------------------------------------------
(* The calls outside the host.                                             *)

\* A step of a call that runs nothing leaves the processes as they are.
LEMMA RunningKept ==
  ASSUME CodingInv, UNCHANGED process, NEW c \in Calls,
         \A d \in Calls : d # c => call'[d] = call[d] /\ task'[d] = task[d],
         task'[c].pc \notin {"starting", "launched"},
         call[c].pc \notin {"operating", "stop", "over"},
         call'[c].pc # "stop", call'[c].result # "closed",
         \A s \in Calls : record[s].repo # None => record'[s].repo = record[s].repo,
         closed' \/ (~closed /\ sessions \subseteq sessions')
  PROVE  RunningInv'
<1>1. \A p \in Calls : process[p].state # "none" =>
        /\ p # c /\ call'[p] = call[p] /\ call[p].pc \in {"operating", "over"}
        /\ call[p].target \in Calls /\ record[call[p].target].repo # None
  BY DEF CodingInv, RunningInv, ProcessInv, Created
<1>2. \A p \in Calls : task[p].pc \in {"starting", "launched"} =>
        /\ p # c /\ call'[p] = call[p]
        /\ call[p].target \in Calls /\ record[call[p].target].repo # None
  BY DEF CodingInv, ServiceInv, CallInv, Created, At
<1>3. \A p \in Calls : process[p].alive \/ process[p].state \in LiveStates =>
        process[p].state # "none"
  BY DEF CodingInv, RunningInv, ProcessInv, LiveStates
<1>4. ProcessInv'
  BY <1>1, <1>2 DEF CodingInv, RunningInv, ProcessInv, Created
<1>5. StopInv'
  BY <1>1, <1>3 DEF CodingInv, RunningInv, StopInv, At
<1>6. NoOrphan'
  BY <1>1, <1>3 DEF CodingInv, RunningInv, NoOrphan
<1>7. CleanClose'
  BY <1>1, <1>3 DEF CodingInv, RunningInv, CleanClose
<1> QED
  BY <1>4, <1>5, <1>6, <1>7 DEF RunningInv

LEMMA OpenReserveNext ==
  ASSUME CodingInv, NEW c \in Calls, NEW r \in Repos, OpenReserve(c, r)
  PROVE  CodingInv'
<1> DEFINE n == [NewCall EXCEPT !.pc = "reserved", !.repo = r]
<1>t. TypeOK /\ ServiceInv
  BY DEF CodingInv
<1>0. /\ call[c].pc = "idle" /\ active[r] = None
      /\ active' = [active EXCEPT ![r] = Opening] /\ opening' = [opening EXCEPT ![r] = c]
      /\ call' = [call EXCEPT ![c] = n]
      /\ UNCHANGED <<host, process, task, closed, sessions, record>>
  BY DEF OpenReserve, Arrives, At, hostVars
<1>1. /\ n \in CallRecords /\ n.pc = "reserved" /\ n.repo = r /\ n.target = None
      /\ n.result = "none"
  BY NewCallType DEF NewCall, CallRecords, Pcs
<1> HIDE DEF n
<1>2. /\ call' \in [Calls -> CallRecords] /\ call'[c] = n
      /\ \A d \in Calls : d # c => call'[d] = call[d]
  BY <1>t, <1>0, <1>1 DEF TypeOK
<1>3. TypeOK'
  BY <1>t, <1>0, <1>2 DEF TypeOK, HostTypeOK
<1>4. SessionInv'
  BY <1>t, <1>0, <1>1, <1>2 DEF ServiceInv, SessionInv
<1>5. CallInv'
  BY <1>t, <1>0, <1>1, <1>2 DEF ServiceInv, CallInv, Created, At
<1>6. ClosingInv'
  BY <1>t, <1>0, <1>1, <1>2, NoneIsNoCall DEF ServiceInv, ClosingInv, CallInv, Created, At
<1>7. OneOperation'
  BY <1>t, <1>0, <1>1, <1>2 DEF ServiceInv, OneOperation, At
<1>8. OwnerExists'
  BY <1>t, <1>0, <1>1, <1>2, NoneIsNoCall DEF ServiceInv, OwnerExists, TypeOK
<1>9. RunningInv'
  <2>1. task'[c].pc = "idle" /\ \A d \in Calls : task'[d] = task[d]
    BY <1>t, <1>0 DEF ServiceInv, CallInv
  <2>2. closed' \/ (~closed /\ sessions \subseteq sessions')
    BY <1>t, <1>0 DEF TypeOK
  <2> QED
    BY <1>0, <1>1, <1>2, <2>1, <2>2, RunningKept
<1> QED
  BY <1>3, <1>4, <1>5, <1>6, <1>7, <1>8, <1>9 DEF CodingInv, ServiceInv

\* A step that changes where its call stands, and no session and no process.
LEMMA CallStep ==
  ASSUME CodingInv, UNCHANGED <<process, closed, sessions, record>>, HostTypeOK',
         active' \in [Repos -> Calls \cup {None, Opening}],
         opening' \in [Repos -> Calls \cup {None}], OwnerExists',
         NEW c \in Calls, call' \in [Calls -> CallRecords],
         \A d \in Calls : d # c => call'[d] = call[d] /\ task'[d] = task[d],
         task'[c].pc = "idle" \/ ( /\ task'[c].pc \in {"stopping", "returned"}
                                   /\ call'[c].pc \in {"all_stop", "all_host"} ),
         call[c].pc \notin {"operating", "stop", "over"},
         call[c].pc = "leaving" => call'[c].pc = "over",
         call'[c].pc \notin {"operating", "stop"}, call'[c].result # "closed",
         call'[c].pc \in {"reserved", "preparing", "leaving"} => call'[c].repo \in Repos,
         call'[c].pc = "found" => Created(call'[c].target),
         call'[c].pc = "await_open" => call'[c].target \in Calls,
         call'[c].pc = "await_op" => /\ call[c].pc = "await_op" /\ call'[c].op = call[c].op
                                     /\ call'[c].target = call[c].target
  PROVE  CodingInv'
<1>t. TypeOK /\ ServiceInv
  BY DEF CodingInv
<1>1. TypeOK'
  BY <1>t DEF TypeOK
<1>2. SessionInv'
  BY <1>t DEF ServiceInv, SessionInv
<1>3. CallInv'
  BY <1>t DEF ServiceInv, CallInv, Created, At
<1>4. ClosingInv'
  BY <1>t DEF ServiceInv, ClosingInv, At
<1>5. OneOperation'
  BY <1>t DEF ServiceInv, OneOperation, At
<1>6. closed' \/ (~closed /\ sessions \subseteq sessions')
  BY <1>t DEF TypeOK
<1>7. RunningInv'
  BY <1>6, RunningKept
<1> QED
  BY <1>1, <1>2, <1>3, <1>4, <1>5, <1>7 DEF CodingInv, ServiceInv

\* The same, outside the host and for a call that touches no repository's owner.
LEMMA PlainStep ==
  ASSUME CodingInv, host' \in {"none", "open", "closed"},
         UNCHANGED <<process, task, closed, active, opening, sessions, record>>,
         NEW c \in Calls, call' \in [Calls -> CallRecords],
         \A d \in Calls : d # c => call'[d] = call[d],
         call[c].pc \notin {"operating", "stop", "all_stop", "all_host", "leaving", "over"},
         call'[c].pc \notin {"operating", "stop"}, call'[c].result # "closed",
         call'[c].pc \in {"reserved", "preparing", "leaving"} => call'[c].repo \in Repos,
         call'[c].pc = "found" => Created(call'[c].target),
         call'[c].pc = "await_open" => call'[c].target \in Calls,
         call'[c].pc = "await_op" => /\ call[c].pc = "await_op" /\ call'[c].op = call[c].op
                                     /\ call'[c].target = call[c].target
  PROVE  CodingInv'
<1>t. TypeOK /\ ServiceInv
  BY DEF CodingInv
<1>1. HostTypeOK' /\ active' \in [Repos -> Calls \cup {None, Opening}]
        /\ opening' \in [Repos -> Calls \cup {None}]
  BY <1>t DEF TypeOK, HostTypeOK
<1>2. OwnerExists'
  BY <1>t DEF ServiceInv, OwnerExists
<1>3. task'[c].pc = "idle" /\ \A d \in Calls : task'[d] = task[d]
  BY <1>t DEF ServiceInv, CallInv
<1> QED
  BY <1>1, <1>2, <1>3, CallStep

LEMMA OpenPlain ==
  ASSUME CodingInv, NEW c \in Calls, OpenReady(c) \/ OpenFails(c)
  PROVE  CodingInv'
<1>t. TypeOK /\ CallInv
  BY DEF CodingInv, ServiceInv
<1>1. PICK pc \in {"preparing", "leaving"} : Go(c, pc)
  BY DEF OpenReady, OpenFails
<1>2. /\ host' \in {"none", "open", "closed"} /\ call[c].pc \in {"reserved", "preparing"}
      /\ UNCHANGED <<process, task, closed, active, opening, sessions, record>>
  BY <1>t DEF OpenReady, OpenFails, Resolve, At, hostVars, TypeOK, HostTypeOK
<1>3. pc \in Pcs
  BY DEF Pcs
<1>4. /\ call' \in [Calls -> CallRecords] /\ call'[c].pc = pc /\ call'[c].repo = call[c].repo
      /\ call'[c].result = call[c].result /\ \A d \in Calls : d # c => call'[d] = call[d]
  BY <1>t, <1>1, <1>3, GoFields DEF TypeOK
<1>5. call[c].repo \in Repos /\ call[c].result # "closed"
  BY <1>t, <1>2 DEF CallInv, At
<1> QED
  BY <1>2, <1>4, <1>5, PlainStep

LEMMA LookupPlain ==
  ASSUME CodingInv, NEW c \in Calls, NEW r \in Repos, ExecLookup(c, r) \/ CloseOpening(c, r)
  PROVE  CodingInv'
<1>t. TypeOK /\ SessionInv /\ OwnerExists
  BY DEF CodingInv, ServiceInv
<1>1. PICK pc \in {"found", "await_open"}, s \in {active[r], opening[r]} :
        /\ call' = [call EXCEPT ![c] = [NewCall EXCEPT !.pc = pc, !.repo = r, !.target = s]]
        /\ pc = "found" => s \in sessions
        /\ pc = "await_open" => active[r] = Opening /\ s = opening[r]
  BY DEF ExecLookup, CloseOpening
<1> DEFINE n == [NewCall EXCEPT !.pc = pc, !.repo = r, !.target = s]
<1>2. s \in Calls /\ (pc = "found" => Created(s))
  BY <1>t, <1>1 DEF TypeOK, SessionInv, OwnerExists, Created
<1>3. /\ n \in CallRecords /\ n.pc = pc /\ n.repo = r /\ n.target = s /\ n.result = "none"
  BY <1>2, NewCallType DEF NewCall, CallRecords, Pcs
<1>4. call' = [call EXCEPT ![c] = n]
  BY <1>1
<1> HIDE DEF n
<1>5. /\ call' \in [Calls -> CallRecords] /\ call'[c] = n
      /\ \A d \in Calls : d # c => call'[d] = call[d]
  BY <1>t, <1>3, <1>4 DEF TypeOK
<1>6. /\ host' \in {"none", "open", "closed"} /\ call[c].pc = "idle"
      /\ UNCHANGED <<process, task, closed, active, opening, sessions, record>>
  BY <1>t DEF ExecLookup, CloseOpening, Arrives, At, hostVars, TypeOK, HostTypeOK
<1> QED
  BY <1>2, <1>3, <1>5, <1>6, PlainStep

LEMMA CloseOpenedPlain ==
  ASSUME CodingInv, NEW c \in Calls, CloseOpened(c)
  PROVE  CodingInv'
<1>t. TypeOK
  BY DEF CodingInv
<1>1. PICK res \in {"cancelled", "failed"} :
        call' = [call EXCEPT ![c].pc = "over", ![c].result = res]
  BY DEF CloseOpened
<1>0. call[c] \in CallRecords
  BY <1>t DEF TypeOK
<1>2. call[c] \in CallRecords /\ [call[c] EXCEPT !.pc = "over", !.result = res] \in CallRecords
  BY <1>0 DEF CallRecords, Pcs, Results
<1>3. call'[c] = [call[c] EXCEPT !.pc = "over", !.result = res]
  BY <1>t, <1>1 DEF TypeOK
<1>4. /\ call' \in [Calls -> CallRecords] /\ call'[c].pc = "over" /\ call'[c].result = res
      /\ \A d \in Calls : d # c => call'[d] = call[d]
  BY <1>t, <1>1, <1>2, <1>3 DEF TypeOK, CallRecords
<1>5. /\ host' \in {"none", "open", "closed"} /\ call[c].pc = "await_open"
      /\ UNCHANGED <<process, task, closed, active, opening, sessions, record>>
  BY <1>t DEF CloseOpened, At, hostVars, TypeOK, HostTypeOK
<1> QED
  BY <1>4, <1>5, PlainStep

LEMMA AllOpeningPlain ==
  ASSUME CodingInv, NEW c \in Calls, AllOpening(c)
  PROVE  CodingInv'
<1>t. TypeOK /\ CallInv
  BY DEF CodingInv, ServiceInv
<1>1. PICK o \in call[c].openings : call' = [call EXCEPT ![c].openings = @ \ {o}]
  BY DEF AllOpening
<1>2. call[c] \in CallRecords
        /\ [call[c] EXCEPT !.openings = call[c].openings \ {o}] \in CallRecords
  BY <1>t DEF TypeOK, CallRecords
<1>3. call'[c] = [call[c] EXCEPT !.openings = call[c].openings \ {o}]
  BY <1>t, <1>1 DEF TypeOK
<1>4. /\ call' \in [Calls -> CallRecords] /\ call'[c].pc = call[c].pc
      /\ call'[c].result = call[c].result /\ \A d \in Calls : d # c => call'[d] = call[d]
  BY <1>t, <1>1, <1>2, <1>3 DEF TypeOK, CallRecords
<1>5. /\ host' \in {"none", "open", "closed"} /\ call[c].pc = "all"
      /\ UNCHANGED <<process, task, closed, active, opening, sessions, record>>
  BY <1>t DEF AllOpening, At, hostVars, TypeOK, HostTypeOK
<1>6. call[c].result # "closed"
  BY <1>t, <1>5 DEF CallInv, At
<1> QED
  BY <1>4, <1>5, <1>6, PlainStep

LEMMA CloseTimesOutPlain ==
  ASSUME CodingInv, NEW c \in Calls, CloseTimesOut(c)
  PROVE  CodingInv'
<1>t. TypeOK
  BY DEF CodingInv
<1>0. call[c] \in CallRecords
  BY <1>t DEF TypeOK
<1>1. call' = [call EXCEPT ![c] = [call[c] EXCEPT !.result = "failed"]]
        /\ [call[c] EXCEPT !.result = "failed"] \in CallRecords
  BY <1>0 DEF CloseTimesOut, CallRecords, Results
<1>2. /\ call' \in [Calls -> CallRecords] /\ call'[c].pc = call[c].pc
      /\ call'[c].result = "failed" /\ call'[c].target = call[c].target
      /\ call'[c].op = call[c].op /\ \A d \in Calls : d # c => call'[d] = call[d]
  BY <1>t, <1>0, <1>1 DEF TypeOK, CallRecords
<1>3. /\ host' \in {"none", "open", "closed"} /\ call[c].pc = "await_op"
      /\ UNCHANGED <<process, task, closed, active, opening, sessions, record>>
  BY <1>t DEF CloseTimesOut, At, hostVars, TypeOK, HostTypeOK
<1> QED
  BY <1>2, <1>3, PlainStep

LEMMA OpenLeaveNext ==
  ASSUME CodingInv, NEW c \in Calls, OpenLeave(c)
  PROVE  CodingInv'
<1> DEFINE r == call[c].repo
<1>t. TypeOK /\ CallInv /\ OwnerExists
  BY DEF CodingInv, ServiceInv
<1>0. /\ call[c].pc = "leaving" /\ Go(c, "over") /\ r \in Repos
      /\ UNCHANGED <<host, process, task, closed, sessions, record>>
  BY <1>t DEF OpenLeave, At, hostVars, CallInv
<1>1. /\ call' \in [Calls -> CallRecords] /\ call'[c].pc = "over"
      /\ call'[c].result = call[c].result /\ \A d \in Calls : d # c => call'[d] = call[d]
  BY <1>t, <1>0, GoFields DEF TypeOK, Pcs
<1>2. call[c].result # "closed" /\ task[c].pc = "idle"
  BY <1>t, <1>0 DEF CallInv, At
<1>3. HostTypeOK'
  BY <1>t, <1>0 DEF TypeOK, HostTypeOK
<1>4. /\ active' = IF active[r] = Opening THEN [active EXCEPT ![r] = None] ELSE active
      /\ opening' = IF opening[r] = c THEN [opening EXCEPT ![r] = None] ELSE opening
  BY DEF OpenLeave
<1>5. /\ active' \in [Repos -> Calls \cup {None, Opening}] /\ opening' \in [Repos -> Calls \cup {None}]
      /\ active'[r] # Opening
      /\ \A q \in Repos : /\ active'[q] = active[q] \/ active'[q] = None
                          /\ q # r => opening'[q] = opening[q]
  BY <1>t, <1>0, <1>4, NoneIsNoCall DEF TypeOK
<1>6. OwnerExists'
  BY <1>t, <1>0, <1>5, NoneIsNoCall DEF OwnerExists
<1> QED
  BY <1>0, <1>1, <1>2, <1>3, <1>5, <1>6, CallStep

LEMMA OpenRegisterNext ==
  ASSUME CodingInv, NEW c \in Calls, OpenRegister(c)
  PROVE  CodingInv'
<1> DEFINE n == [repo |-> call[c].repo, closing |-> FALSE, op |-> None]
<1>t. TypeOK /\ ServiceInv
  BY DEF CodingInv
<1>0. /\ call[c].pc = "preparing" /\ Go(c, "leaving")
      /\ UNCHANGED <<host, process, task, closed, opening>>
  BY DEF OpenRegister, At, hostVars
<1>1. /\ call' \in [Calls -> CallRecords] /\ call'[c].pc = "leaving"
      /\ \A d \in Calls : /\ d # c => call'[d] = call[d]
                          /\ call'[d].repo = call[d].repo /\ call'[d].target = call[d].target
                          /\ call'[d].op = call[d].op /\ call'[d].result = call[d].result
  BY <1>t, <1>0, GoFields DEF TypeOK, Pcs
<1>2. /\ call[c].result # "closed" /\ task[c].pc = "idle" /\ call[c].repo \in Repos
      /\ record[c].repo = None /\ c \notin sessions
  BY <1>t, <1>0 DEF ServiceInv, CallInv, SessionInv, At
<1>3. CASE closed
  <2>1. UNCHANGED <<sessions, record, active>> /\ host' \in {"none", "open", "closed"}
    BY <1>t, <1>0, <1>3 DEF OpenRegister, TypeOK, HostTypeOK
  <2> QED
    BY <1>0, <1>1, <1>2, <2>1, PlainStep
<1>4. CASE ~closed
  <2>1. /\ sessions' = sessions \cup {c} /\ record' = [record EXCEPT ![c] = n]
        /\ active' = [active EXCEPT ![call[c].repo] = c]
    BY <1>4 DEF OpenRegister
  <2>2. n \in Records /\ n.repo = call[c].repo /\ n.closing = FALSE /\ n.op = None
    BY <1>2 DEF Records
  <2> HIDE DEF n
  <2>3. /\ record' \in [Calls -> Records] /\ record'[c] = n
        /\ \A s \in Calls : s # c => record'[s] = record[s]
    BY <1>t, <2>1, <2>2 DEF TypeOK
  <2>4. TypeOK'
    BY <1>t, <1>0, <1>1, <1>2, <2>1, <2>3 DEF TypeOK, HostTypeOK
  <2>5. \A s : Created(s) => Created(s)' /\ s # c /\ record'[s] = record[s]
    BY <1>2, <2>3 DEF Created
  <2>6. SessionInv'
    BY <1>t, <1>0, <1>1, <1>2, <2>1, <2>2, <2>3, NoneIsNoCall DEF ServiceInv, SessionInv
  <2>7. CallInv'
    BY <1>t, <1>0, <1>1, <1>2, <2>5 DEF ServiceInv, CallInv, At
  <2>8. ClosingInv'
    BY <1>t, <1>0, <1>1 DEF ServiceInv, ClosingInv, At
  <2>9. OneOperation'
    BY <1>t, <1>0, <1>1, <2>1, <2>5 DEF ServiceInv, OneOperation, CallInv, At
  <2>10. OwnerExists'
    BY <1>t, <1>0, <1>2, <2>1, <2>2, <2>3, NoneIsNoCall DEF ServiceInv, OwnerExists, TypeOK
  <2>11. \A s \in Calls : record[s].repo # None => record'[s].repo = record[s].repo
    BY <1>2, <2>3
  <2>12. RunningInv'
    BY <1>0, <1>1, <1>2, <1>4, <2>1, <2>11, RunningKept
  <2> QED
    BY <2>4, <2>6, <2>7, <2>8, <2>9, <2>10, <2>12 DEF CodingInv, ServiceInv
<1> QED
  BY <1>3, <1>4

\* An Exec begins its operation when the session has none and is not closing:
\* no Close waits for it or has gone past waiting.
LEMMA ExecBeginNext ==
  ASSUME CodingInv, NEW c \in Calls, ExecBegin(c)
  PROVE  CodingInv'
<1> DEFINE s == call[c].target
           n == [record[s] EXCEPT !.op = c]
<1>t. TypeOK /\ ServiceInv
  BY DEF CodingInv
<1>0. /\ call[c].pc = "found" /\ Created(s) /\ call[c].result # "closed" /\ task[c].pc = "idle"
      /\ UNCHANGED <<host, process, task, closed, active, opening, sessions>>
  BY <1>t DEF ExecBegin, At, hostVars, ServiceInv, CallInv
<1>1. \A pc \in Pcs : Go(c, pc) =>
        /\ call' \in [Calls -> CallRecords] /\ call'[c].pc = pc
        /\ \A d \in Calls : /\ d # c => call'[d] = call[d]
                            /\ call'[d].repo = call[d].repo /\ call'[d].target = call[d].target
                            /\ call'[d].op = call[d].op /\ call'[d].result = call[d].result
  BY <1>t, GoFields DEF TypeOK
<1>2. "over" \in Pcs /\ "operating" \in Pcs
  BY DEF Pcs
<1>3. CASE ~MayBegin(s)
  <2>1. UNCHANGED record /\ Go(c, "over") /\ host' \in {"none", "open", "closed"}
    BY <1>t, <1>0, <1>3 DEF ExecBegin, TypeOK, HostTypeOK
  <2> QED
    BY <1>0, <1>1, <1>2, <2>1, PlainStep
<1>4. CASE MayBegin(s)
  <2>1. /\ ~record[s].closing /\ record[s].op = None /\ Go(c, "operating")
        /\ record' = [record EXCEPT ![s].op = c]
    BY <1>4 DEF ExecBegin, MayBegin
  <2>2. /\ s \in Calls /\ record[s] \in Records /\ s \in sessions
    BY <1>t, <1>0, <2>1 DEF TypeOK, Created, ServiceInv, SessionInv
  <2>3. n \in Records /\ n.repo = record[s].repo /\ n.closing = record[s].closing /\ n.op = c
    BY <2>2 DEF Records
  <2>4. record' = [record EXCEPT ![s] = n]
    BY <2>1
  <2> HIDE DEF n
  <2>5. /\ record' \in [Calls -> Records] /\ record'[s] = n
        /\ \A d \in Calls : d # s => record'[d] = record[d]
    BY <1>t, <2>2, <2>3, <2>4 DEF TypeOK
  <2>6. \A d \in Calls : record'[d].repo = record[d].repo /\ record'[d].closing = record[d].closing
    BY <2>3, <2>5
  <2>7. /\ call' \in [Calls -> CallRecords] /\ call'[c].pc = "operating"
        /\ \A d \in Calls : /\ d # c => call'[d] = call[d]
                            /\ call'[d].repo = call[d].repo /\ call'[d].target = call[d].target
                            /\ call'[d].op = call[d].op /\ call'[d].result = call[d].result
    BY <1>1, <1>2, <2>1
  <2>8. TypeOK'
    BY <1>t, <1>0, <2>5, <2>7 DEF TypeOK, HostTypeOK
  <2>9. SessionInv'
    BY <1>t, <1>0, <2>6, <2>7, NoneIsNoCall DEF ServiceInv, SessionInv
  <2>10. CallInv'
    BY <1>t, <1>0, <2>6, <2>7 DEF ServiceInv, CallInv, Created, At
  <2>11. ClosingInv'
    BY <1>t, <1>0, <2>1, <2>7 DEF ServiceInv, ClosingInv, CallInv, At
  <2>12. OneOperation'
    BY <1>t, <1>0, <2>1, <2>2, <2>3, <2>5, <2>7, NoneIsNoCall
       DEF ServiceInv, OneOperation, CallInv, Created, At
  <2>13. OwnerExists'
    BY <1>t, <1>0, <2>6 DEF ServiceInv, OwnerExists
  <2>14. closed' \/ (~closed /\ sessions \subseteq sessions')
    BY <1>t, <1>0 DEF TypeOK
  <2>15. RunningInv'
    BY <1>0, <2>6, <2>7, <2>14, RunningKept
  <2> QED
    BY <2>8, <2>9, <2>10, <2>11, <2>12, <2>13, <2>15 DEF CodingInv, ServiceInv
<1> QED
  BY <1>3, <1>4

\* A Close takes note of the operation of its session, if there is one.
LEMMA CloseBeginNext ==
  ASSUME CodingInv, NEW c \in Calls, NEW r \in Repos, CloseBegin(c, r)
  PROVE  CodingInv'
<1> DEFINE s == active[r]
           n == [NewCall EXCEPT !.pc = "await_op", !.repo = r, !.target = s, !.op = record[s].op]
           m == [record[s] EXCEPT !.closing = TRUE]
<1>t. TypeOK /\ ServiceInv
  BY DEF CodingInv
<1>0. /\ call[c].pc = "idle" /\ s \in sessions
      /\ record' = [record EXCEPT ![s] = m] /\ call' = [call EXCEPT ![c] = n]
      /\ UNCHANGED <<host, process, task, closed, active, opening, sessions>>
  BY DEF CloseBegin, Arrives, At, hostVars
<1>1. s \in Calls /\ record[s] \in Records /\ record[s].repo # None /\ task[c].pc = "idle"
  BY <1>t, <1>0 DEF TypeOK, ServiceInv, SessionInv, CallInv
<1>2. /\ n \in CallRecords /\ n.pc = "await_op" /\ n.repo = r /\ n.target = s
      /\ n.op = record[s].op /\ n.result = "none"
  <2>1. record[s].op \in Calls \cup {None}
    BY <1>1 DEF Records
  <2> QED
    BY <1>1, <2>1, NewCallType DEF NewCall, CallRecords, Pcs
<1>3. m \in Records /\ m.repo = record[s].repo /\ m.closing = TRUE /\ m.op = record[s].op
  BY <1>1 DEF Records
<1> HIDE DEF n, m
<1>4. /\ call' \in [Calls -> CallRecords] /\ call'[c] = n
      /\ \A d \in Calls : d # c => call'[d] = call[d]
  BY <1>t, <1>0, <1>2 DEF TypeOK
<1>5. /\ record' \in [Calls -> Records] /\ record'[s] = m
      /\ \A d \in Calls : d # s => record'[d] = record[d]
  BY <1>t, <1>0, <1>1, <1>3 DEF TypeOK
<1>6. \A d \in Calls : /\ record'[d].repo = record[d].repo /\ record'[d].op = record[d].op
                       /\ record[d].closing => record'[d].closing
  BY <1>3, <1>5
<1>7. TypeOK'
  BY <1>t, <1>0, <1>4, <1>5 DEF TypeOK, HostTypeOK
<1>8. SessionInv'
  BY <1>t, <1>0, <1>2, <1>4, <1>6, <1>5 DEF ServiceInv, SessionInv
<1>9. CallInv'
  BY <1>t, <1>0, <1>1, <1>2, <1>3, <1>4, <1>5, <1>6 DEF ServiceInv, CallInv, Created, At
<1>10. ClosingInv'
  BY <1>t, <1>0, <1>2, <1>4 DEF ServiceInv, ClosingInv, OneOperation, At
<1>11. OneOperation'
  BY <1>t, <1>0, <1>2, <1>4, <1>6 DEF ServiceInv, OneOperation, CallInv, Created, At
<1>12. OwnerExists'
  BY <1>t, <1>0, <1>6 DEF ServiceInv, OwnerExists
<1>13. closed' \/ (~closed /\ sessions \subseteq sessions')
  BY <1>t, <1>0 DEF TypeOK
<1>14. RunningInv'
  BY <1>0, <1>1, <1>2, <1>4, <1>6, <1>13, RunningKept
<1> QED
  BY <1>7, <1>8, <1>9, <1>10, <1>11, <1>12, <1>14 DEF CodingInv, ServiceInv

LEMMA CloseAllNext ==
  ASSUME CodingInv, NEW c \in Calls, CloseAll(c)
  PROVE  CodingInv'
<1> DEFINE O == {o \in Calls : \E r \in Repos : opening[r] = o}
           n == [NewCall EXCEPT !.pc = "all", !.records = sessions, !.openings = O]
           m(s) == [record[s] EXCEPT !.closing = TRUE]
<1>t. TypeOK /\ ServiceInv
  BY DEF CodingInv
<1>0. /\ call[c].pc = "idle" /\ closed' = TRUE /\ sessions' = {}
      /\ record' = [s \in Calls |-> IF s \in sessions THEN m(s) ELSE record[s]]
      /\ call' = [call EXCEPT ![c] = n]
      /\ active' = [r \in Repos |-> None] /\ opening' = [r \in Repos |-> None]
      /\ UNCHANGED <<host, process, task>>
  BY DEF CloseAll, Arrives, At, hostVars
<1>1. \A s \in Calls : record[s] \in Records /\ m(s) \in Records /\ m(s).repo = record[s].repo
        /\ m(s).closing = TRUE /\ m(s).op = record[s].op
  <2>1. \A s \in Calls : record[s] \in Records
    BY <1>t DEF TypeOK
  <2> QED
    BY <2>1 DEF Records
<1>2. n \in CallRecords /\ n.pc = "all" /\ n.result = "none"
  <2>1. O \in SUBSET Calls /\ sessions \in SUBSET Calls
    BY <1>t DEF TypeOK
  <2> HIDE DEF O
  <2> QED
    BY <2>1, NewCallType DEF NewCall, CallRecords, Pcs
<1> HIDE DEF n, m
<1>4. /\ call' \in [Calls -> CallRecords] /\ call'[c] = n
      /\ \A d \in Calls : d # c => call'[d] = call[d]
  BY <1>t, <1>0, <1>2 DEF TypeOK
<1>5. record' \in [Calls -> Records]
  BY <1>0, <1>1
<1>6. \A d \in Calls : /\ record'[d].repo = record[d].repo /\ record'[d].op = record[d].op
                       /\ record[d].closing => record'[d].closing
                       /\ d \in sessions => record'[d].closing
  BY <1>0, <1>1
<1>7. TypeOK'
  BY <1>t, <1>0, <1>4, <1>5 DEF TypeOK, HostTypeOK
<1>8. SessionInv'
  BY <1>t, <1>0, <1>2, <1>4, <1>6 DEF ServiceInv, SessionInv
<1>9. CallInv'
  BY <1>t, <1>0, <1>2, <1>4, <1>6 DEF ServiceInv, CallInv, Created, At
<1>10. ClosingInv'
  BY <1>t, <1>0, <1>2, <1>4 DEF ServiceInv, ClosingInv, At
<1>11. OneOperation'
  BY <1>t, <1>0, <1>2, <1>4, <1>6 DEF ServiceInv, OneOperation, CallInv, Created, At
<1>12. OwnerExists'
  BY <1>0, NoneIsNoCall DEF OwnerExists
<1>13. RunningInv'
  <2>1. task[c].pc = "idle"
    BY <1>t, <1>0 DEF ServiceInv, CallInv
  <2> QED
    BY <1>0, <1>2, <1>4, <1>6, <2>1, RunningKept
<1> QED
  BY <1>7, <1>8, <1>9, <1>10, <1>11, <1>12, <1>13 DEF CodingInv, ServiceInv

----------------------------------------------------------------------------
(* The calls as they enter and leave the host.                             *)

\* CloseAll enters and leaves it for every session it has taken away, and closes it.
LEMMA AllStops ==
  ASSUME CodingInv, NEW c \in Calls, AllRecord(c) \/ AllStopped(c) \/ AllHost(c) \/ AllDone(c)
  PROVE  CodingInv'
<1>t. TypeOK /\ HostTypeOK /\ CallInv /\ OwnerExists
  BY DEF CodingInv, ServiceInv, TypeOK
<1>0. /\ call[c].pc \in {"all", "all_stop", "all_host"}
      /\ UNCHANGED <<closed, active, opening, sessions, record>>
  BY DEF AllRecord, AllStopped, AllHost, AllDone, At
<1>1. call[c] \in CallRecords /\ call[c].result # "closed"
  BY <1>t, <1>0 DEF TypeOK, CallInv, At
<1>2. /\ active' \in [Repos -> Calls \cup {None, Opening}]
      /\ opening' \in [Repos -> Calls \cup {None}] /\ OwnerExists'
  BY <1>t, <1>0 DEF TypeOK, OwnerExists
<1>3. ASSUME NEW pc \in {"all", "over", "all_host"}, Go(c, pc)
      PROVE  /\ call' \in [Calls -> CallRecords] /\ call'[c].pc = pc
             /\ call'[c].result = call[c].result /\ \A d \in Calls : d # c => call'[d] = call[d]
  <2>1. pc \in Pcs
    BY DEF Pcs
  <2> QED
    BY <1>t, <1>3, <2>1, GoFields DEF TypeOK
<1>4. CASE AllRecord(c)
  <2>1. PICK s \in call[c].records :
          /\ HostStopWorkspace(c, record[s].repo)
          /\ call' = [call EXCEPT ![c].records = @ \ {s}, ![c].pc = "all_stop"]
    BY <1>4 DEF AllRecord
  <2>2. [call[c] EXCEPT !.records = call[c].records \ {s}, !.pc = "all_stop"] \in CallRecords
    BY <1>1 DEF CallRecords, Pcs
  <2>3. call'[c] = [call[c] EXCEPT !.records = call[c].records \ {s}, !.pc = "all_stop"]
    BY <1>t, <2>1 DEF TypeOK
  <2>4. /\ call' \in [Calls -> CallRecords] /\ call'[c].pc = "all_stop"
        /\ call'[c].result = call[c].result /\ \A d \in Calls : d # c => call'[d] = call[d]
    BY <1>t, <1>1, <2>1, <2>2, <2>3 DEF TypeOK, CallRecords
  <2>5. /\ HostTypeOK' /\ UNCHANGED process /\ task'[c].pc = "stopping"
        /\ \A d \in Calls : d # c => task'[d] = task[d]
    BY <1>t, <2>1, StopWorkspaceFields
  <2> QED
    BY <1>0, <1>1, <1>2, <2>4, <2>5, CallStep
<1>5. CASE AllStopped(c) \/ AllDone(c)
  <2>1. /\ Enter(c, Rest) /\ UNCHANGED <<host, process>>
    BY <1>5 DEF AllStopped, AllDone
  <2>2. PICK pc \in {"all", "over"} : Go(c, pc)
    BY <1>5 DEF AllStopped, AllDone
  <2>3. /\ HostTypeOK' /\ task'[c].pc = "idle" /\ \A d \in Calls : d # c => task'[d] = task[d]
    BY <1>t, <2>1, ToRest
  <2> QED
    BY <1>0, <1>1, <1>2, <1>3, <2>1, <2>2, <2>3, CallStep
<1>6. CASE AllHost(c)
  <2>1. /\ HostTypeOK' /\ UNCHANGED process /\ task'[c].pc \in {"stopping", "returned"}
        /\ \A d \in Calls : d # c => task'[d] = task[d]
    BY <1>t, <1>6, CloseHostType DEF AllHost
  <2>2. Go(c, "all_host")
    BY <1>6 DEF AllHost
  <2> QED
    BY <1>0, <1>1, <1>2, <1>3, <2>1, <2>2, CallStep
<1> QED
  BY <1>4, <1>5, <1>6

LEMMA ExecDispatchNext ==
  ASSUME CodingInv, NEW c \in Calls, ExecDispatch(c)
  PROVE  CodingInv'
<1> DEFINE w == record[call[c].target].repo
<1>t. TypeOK /\ HostTypeOK /\ ServiceInv /\ RunningInv
  BY DEF CodingInv, TypeOK
<1>0. /\ call[c].pc = "operating" /\ task[c].pc = "idle" /\ Created(call[c].target)
      /\ UNCHANGED <<closed, active, opening, sessions, record, call>>
      /\ HostRun(c, w) \/ HostStart(c, w) \/ \E p \in Calls : HostStop(c, w, p)
  BY <1>t DEF ExecDispatch, At, serviceVars, ServiceInv, CallInv
<1>1. w \in Paths
  BY <1>t, <1>0 DEF TypeOK, Records, Created, Repos
<1>2. /\ HostTypeOK' /\ UNCHANGED <<host, process>>
      /\ task'[c].pc \in {"command", "starting", "stopping", "returned"}
      /\ task'[c].pc = "starting" => task'[c].path = w
      /\ \A d \in Calls : d # c => task'[d] = task[d]
  BY <1>t, <1>0, <1>1, HostEnterFields
<1>3. TypeOK'
  BY <1>t, <1>0, <1>2 DEF TypeOK
<1>4. SessionInv' /\ ClosingInv' /\ OneOperation' /\ OwnerExists'
  BY <1>t, <1>0 DEF ServiceInv, SessionInv, ClosingInv, OneOperation, OwnerExists, At
<1>5. CallInv'
  BY <1>t, <1>0, <1>2 DEF ServiceInv, CallInv, Created, At
<1>6. ProcessInv'
  BY <1>t, <1>0, <1>2 DEF RunningInv, ProcessInv, Created
<1>7. StopInv'
  BY <1>t, <1>0, <1>2 DEF RunningInv, StopInv, At
<1>8. NoOrphan' /\ CleanClose'
  BY <1>t, <1>0, <1>2 DEF RunningInv, NoOrphan, CleanClose
<1> QED
  BY <1>3, <1>4, <1>5, <1>6, <1>7, <1>8 DEF CodingInv, ServiceInv, RunningInv

LEMMA ExecFinishNext ==
  ASSUME CodingInv, NEW c \in Calls, ExecFinish(c)
  PROVE  CodingInv'
<1> DEFINE s == call[c].target
           n == [record[s] EXCEPT !.op = None]
<1>t. TypeOK /\ HostTypeOK /\ ServiceInv /\ RunningInv
  BY DEF CodingInv, TypeOK
<1>0. /\ call[c].pc = "operating" /\ task[c].pc = "returned" /\ Created(s)
      /\ Enter(c, Rest) /\ Go(c, "over")
      /\ UNCHANGED <<host, process, closed, active, opening, sessions>>
      /\ record' = [record EXCEPT ![s] = n] \/ record' = record
  BY <1>t DEF ExecFinish, At, ServiceInv, CallInv
<1>1. /\ call' \in [Calls -> CallRecords] /\ call'[c].pc = "over"
      /\ \A d \in Calls : /\ d # c => call'[d] = call[d]
                          /\ call'[d].repo = call[d].repo /\ call'[d].target = call[d].target
                          /\ call'[d].op = call[d].op /\ call'[d].result = call[d].result
  BY <1>t, <1>0, GoFields DEF TypeOK, Pcs
<1>2. /\ HostTypeOK' /\ task'[c].pc = "idle" /\ \A d \in Calls : d # c => task'[d] = task[d]
  BY <1>t, <1>0, ToRest
<1>3. /\ s \in Calls /\ record[s] \in Records /\ record[s].op = c
  BY <1>t, <1>0 DEF TypeOK, Created, ServiceInv, OneOperation, At
<1>4. n \in Records /\ n.repo = record[s].repo /\ n.closing = record[s].closing /\ n.op = None
  BY <1>3 DEF Records
<1> HIDE DEF n
<1>5. /\ record' \in [Calls -> Records]
      /\ \A d \in Calls : /\ record'[d].repo = record[d].repo
                          /\ record'[d].closing = record[d].closing
                          /\ d # s => record'[d].op = record[d].op
  BY <1>t, <1>0, <1>3, <1>4 DEF TypeOK
<1>6. TypeOK'
  BY <1>t, <1>0, <1>1, <1>2, <1>5 DEF TypeOK
<1>7. SessionInv'
  BY <1>t, <1>0, <1>1, <1>5, NoneIsNoCall DEF ServiceInv, SessionInv
<1>8. CallInv'
  BY <1>t, <1>0, <1>1, <1>2, <1>5 DEF ServiceInv, CallInv, Created, At
<1>9. ClosingInv'
  BY <1>t, <1>0, <1>1 DEF ServiceInv, ClosingInv, At
<1>10. OneOperation'
  BY <1>t, <1>0, <1>1, <1>3, <1>5 DEF ServiceInv, OneOperation, CallInv, Created, At
<1>11. OwnerExists'
  BY <1>t, <1>0, <1>5 DEF ServiceInv, OwnerExists
<1>12. ProcessInv'
  <2>1. ASSUME NEW p \in Calls
        PROVE  /\ call'[p].target = call[p].target
               /\ call'[p].pc = call[p].pc \/ (call[p].pc = "operating" /\ call'[p].pc = "over")
               /\ task'[p] = task[p] \/ (task[p].pc = "returned" /\ task'[p].pc = "idle")
    BY <1>0, <1>1, <1>2
  <2>2. \A d : Created(d) => Created(d)' /\ record'[d].repo = record[d].repo
    BY <1>5 DEF Created
  <2>3. \A p \in Calls : task[p].pc \in {"starting", "launched"} => Created(call[p].target)
    BY <1>t DEF ServiceInv, CallInv, At
  <2> QED
    BY <1>t, <1>0, <2>1, <2>2, <2>3 DEF RunningInv, ProcessInv
<1>13. StopInv'
  BY <1>t, <1>0, <1>1, <1>2 DEF RunningInv, StopInv, At
<1>14. NoOrphan' /\ CleanClose'
  BY <1>t, <1>0, <1>1 DEF RunningInv, NoOrphan, CleanClose
<1> QED
  BY <1>6, <1>7, <1>8, <1>9, <1>10, <1>11, <1>12, <1>13, <1>14
     DEF CodingInv, ServiceInv, RunningInv

\* The operation that a Close waited for is over, so every process of the session
\* is in the map, where StopWorkspace finds it.
LEMMA CloseStopsNext ==
  ASSUME CodingInv, NEW c \in Calls, CloseStops(c)
  PROVE  CodingInv'
<1> DEFINE w == record[call[c].target].repo
<1>t. TypeOK /\ HostTypeOK /\ ServiceInv /\ RunningInv
  BY DEF CodingInv, TypeOK
<1>0. /\ call[c].pc = "await_op" /\ OpDone(c) /\ HostStopWorkspace(c, w) /\ Go(c, "stop")
      /\ UNCHANGED <<closed, active, opening, sessions, record>>
  BY DEF CloseStops, At
<1>1. /\ call' \in [Calls -> CallRecords] /\ call'[c].pc = "stop"
      /\ \A d \in Calls : /\ d # c => call'[d] = call[d]
                          /\ call'[d].repo = call[d].repo /\ call'[d].target = call[d].target
                          /\ call'[d].op = call[d].op /\ call'[d].result = call[d].result
  BY <1>t, <1>0, GoFields DEF TypeOK, Pcs
<1>2. /\ HostTypeOK' /\ UNCHANGED <<host, process>> /\ task'[c].pc = "stopping"
      /\ task'[c].todo = {p \in Registered : process[p].path = w}
      /\ \A d \in Calls : d # c => task'[d] = task[d]
  BY <1>t, <1>0, StopWorkspaceFields
<1>3. \A e \in Calls : At(e, "operating") => call[e].target # call[c].target
  BY <1>t, <1>0 DEF ServiceInv, ClosingInv, OpDone, At
<1>4. /\ call[c].result # "closed" /\ Created(call[c].target)
      /\ record[call[c].target].closing
  BY <1>t, <1>0 DEF ServiceInv, CallInv, At
<1>5. TypeOK'
  BY <1>t, <1>0, <1>1, <1>2 DEF TypeOK
<1>6. SessionInv'
  BY <1>t, <1>0, <1>1 DEF ServiceInv, SessionInv
<1>7. CallInv'
  BY <1>t, <1>0, <1>1, <1>2 DEF ServiceInv, CallInv, Created, At
<1>8. ClosingInv'
  BY <1>t, <1>0, <1>1, <1>3 DEF ServiceInv, ClosingInv, At
<1>9. OneOperation' /\ OwnerExists'
  BY <1>t, <1>0, <1>1 DEF ServiceInv, OneOperation, OwnerExists, At
<1>10. ProcessInv'
  <2>1. process[c].state = "none" /\ process[c].alive # TRUE
    BY <1>t, <1>0 DEF RunningInv, ProcessInv
  <2>2. ASSUME NEW p \in Calls, p # c
        PROVE  /\ call'[p] = call[p] /\ task'[p] = task[p] /\ process'[p] = process[p]
               /\ call'[p].target = call[p].target
    BY <1>1, <1>2, <2>2
  <2> QED
    BY <1>t, <1>0, <1>2, <2>1, <2>2 DEF RunningInv, ProcessInv, Created
<1>11. ASSUME NEW p \in Calls, call[p].target = call[c].target,
              process[p].alive \/ process[p].state \in LiveStates
       PROVE  p \in task'[c].todo
  <2>1. process[p].state # "launched"
    BY <1>t, <1>3, <1>11 DEF RunningInv, ProcessInv, ServiceInv, CallInv
  <2>2. process[p].state \in LiveStates
    BY <1>t, <1>11, <2>1 DEF RunningInv, ProcessInv, LiveStates
  <2>3. process[p].path = w
    BY <1>t, <1>11, <2>2 DEF RunningInv, ProcessInv, LiveStates
  <2> QED
    BY <1>2, <2>2, <2>3 DEF Registered
<1>12. StopInv'
  BY <1>t, <1>0, <1>1, <1>2, <1>11 DEF RunningInv, StopInv, At
<1>13. NoOrphan' /\ CleanClose'
  BY <1>t, <1>0, <1>1, <1>2 DEF RunningInv, NoOrphan, CleanClose
<1> QED
  BY <1>5, <1>6, <1>7, <1>8, <1>9, <1>10, <1>12, <1>13 DEF CodingInv, ServiceInv, RunningInv

\* The processes it stopped have ended or it reports an error.
LEMMA CloseFinishesNext ==
  ASSUME CodingInv, NEW c \in Calls, CloseFinishes(c)
  PROVE  CodingInv'
<1> DEFINE s == call[c].target
<1>t. TypeOK /\ HostTypeOK /\ ServiceInv /\ RunningInv
  BY DEF CodingInv, TypeOK
<1>0. /\ call[c].pc = "stop" /\ task[c].pc = "returned" /\ call[c].result # "closed"
      /\ Created(s) /\ record[s].closing /\ task[c].todo = {}
      /\ Enter(c, Rest) /\ Finalize(s)
      /\ UNCHANGED <<host, process, closed, opening, record>>
  BY <1>t DEF CloseFinishes, At, ServiceInv, CallInv, RunningInv, StopInv
<1>1. PICK res \in {"closed", "failed"} :
        /\ call' = [call EXCEPT ![c].pc = "over", ![c].result = res]
        /\ res = "closed" => task[c].ok
  BY DEF CloseFinishes
<1>2. /\ call' \in [Calls -> CallRecords] /\ call'[c].pc = "over" /\ call'[c].result = res
      /\ \A d \in Calls : /\ d # c => call'[d] = call[d]
                          /\ call'[d].target = call[d].target
  <2>1. call[c] \in CallRecords
    BY <1>t DEF TypeOK
  <2>2. [call[c] EXCEPT !.pc = "over", !.result = res] \in CallRecords
    BY <2>1 DEF CallRecords, Pcs, Results
  <2>3. call'[c] = [call[c] EXCEPT !.pc = "over", !.result = res]
    BY <1>t, <1>1 DEF TypeOK
  <2> QED
    BY <1>t, <1>1, <2>1, <2>2, <2>3 DEF TypeOK, CallRecords
<1>3. /\ HostTypeOK' /\ task'[c].pc = "idle" /\ \A d \in Calls : d # c => task'[d] = task[d]
  BY <1>t, <1>0, ToRest
<1>4. /\ sessions' \subseteq sessions /\ \A d \in sessions : d # s => d \in sessions'
      /\ active' \in [Repos -> Calls \cup {None, Opening}]
      /\ \A r \in Repos : active'[r] = None \/ (active'[r] = active[r] /\ active[r] # s)
  <2>1. CASE s \in sessions
    <3>1. record[s].repo \in Repos
      BY <1>t, <1>0 DEF TypeOK, Created, Records
    <3>2. /\ sessions' = sessions \ {s}
          /\ active' = IF active[record[s].repo] = s
                         THEN [active EXCEPT ![record[s].repo] = None] ELSE active
      BY <1>0, <2>1 DEF Finalize
    <3>3. \A r \in Repos : active[r] = s => record[s].repo = r
      BY <1>t, <1>0 DEF ServiceInv, OwnerExists, Created
    <3> QED
      BY <1>t, <3>1, <3>2, <3>3 DEF TypeOK
  <2>2. CASE s \notin sessions
    <3>1. UNCHANGED <<sessions, active>>
      BY <1>0, <2>2 DEF Finalize
    <3>2. \A r \in Repos : active[r] # s
      BY <1>t, <1>0, <2>2 DEF ServiceInv, OwnerExists, Created
    <3> QED
      BY <1>t, <3>1, <3>2 DEF TypeOK
  <2> QED
    BY <2>1, <2>2
<1>5. \A e \in Calls : At(e, "operating") => call[e].target # s
  BY <1>t, <1>0 DEF ServiceInv, ClosingInv, At
<1>6. \A p \in Calls : call[p].target = s =>
        /\ ~process[p].alive
        /\ task[c].ok => process[p].state \notin LiveStates
  BY <1>t, <1>0 DEF RunningInv, StopInv, At
<1>7. TypeOK'
  BY <1>t, <1>0, <1>2, <1>3, <1>4 DEF TypeOK
<1>8. SessionInv'
  BY <1>t, <1>0, <1>2, <1>4 DEF ServiceInv, SessionInv
<1>9. CallInv'
  BY <1>t, <1>0, <1>2, <1>3 DEF ServiceInv, CallInv, Created, At
<1>10. ClosingInv'
  BY <1>t, <1>2, <1>5 DEF ServiceInv, ClosingInv, At
<1>11. OneOperation'
  BY <1>t, <1>0, <1>2, <1>4, <1>5 DEF ServiceInv, OneOperation, At
<1>12. OwnerExists'
  BY <1>t, <1>0, <1>4, NoneIsNoCall DEF ServiceInv, OwnerExists, TypeOK
<1>13. ProcessInv'
  <2>1. process[c].state = "none"
    BY <1>t, <1>0 DEF RunningInv, ProcessInv
  <2>2. ASSUME NEW p \in Calls, p # c
        PROVE  /\ call'[p] = call[p] /\ task'[p] = task[p]
    BY <1>2, <1>3, <2>2
  <2> QED
    BY <1>t, <1>0, <1>3, <2>1, <2>2 DEF RunningInv, ProcessInv, Created
<1>14. StopInv'
  BY <1>t, <1>0, <1>2, <1>3 DEF RunningInv, StopInv, At
<1>15. NoOrphan'
  BY <1>t, <1>0, <1>2, <1>4, <1>6 DEF RunningInv, NoOrphan
<1>16. CleanClose'
  BY <1>t, <1>0, <1>1, <1>2, <1>6 DEF RunningInv, CleanClose
<1> QED
  BY <1>7, <1>8, <1>9, <1>10, <1>11, <1>12, <1>13, <1>14, <1>15, <1>16
     DEF CodingInv, ServiceInv, RunningInv

----------------------------------------------------------------------------
(* The steps inside the host, and the processes by themselves.             *)

LEMMA HostStepNext ==
  ASSUME CodingInv, NEW c \in Calls, HostStep(c), UNCHANGED serviceVars
  PROVE  CodingInv'
<1>t. TypeOK /\ HostTypeOK /\ ServiceInv /\ RunningInv
  BY DEF CodingInv, TypeOK
<1>0. UNCHANGED <<closed, active, opening, sessions, record, call>>
  BY DEF serviceVars
<1>1. HostTypeOK' /\ HostMove(c)
  BY <1>t, HostMoves
<1>2. \A d \in Calls : d # c => task'[d] = task[d]
  BY <1>1 DEF HostMove
<1>3. /\ TypeOK' /\ SessionInv' /\ ClosingInv' /\ OneOperation' /\ OwnerExists'
  BY <1>t, <1>0, <1>1 DEF TypeOK, ServiceInv, SessionInv, ClosingInv, OneOperation,
     OwnerExists, At
<1> DEFINE Kept == CallInv' /\ ProcessInv' /\ StopInv' /\ NoOrphan' /\ CleanClose'
<1>4. \A d \in Calls : task[d].pc \in {"starting", "launched"} =>
        /\ call[d].pc = "operating" /\ Created(call[d].target)
        /\ closed \/ call[d].target \in sessions
        /\ \A x \in Calls : call[x].target = call[d].target =>
             ~At(x, "stop") /\ call[x].result # "closed"
  BY <1>t DEF ServiceInv, CallInv, OneOperation, ClosingInv, At
<1>5. ASSUME LaunchMove(c) PROVE Kept
  <2>0. /\ call[c].pc = "operating" /\ Created(call[c].target)
        /\ task'[c].pc = "launched" /\ process'[c].state = "launched"
        /\ task'[c].path = record[call[c].target].repo
        /\ process'[c].path = record[call[c].target].repo
        /\ \A q \in Calls : q # c => process'[q] = process[q]
    BY <1>t, <1>4, <1>5 DEF LaunchMove, RunningInv, ProcessInv
  <2>1. CallInv'
    BY <1>t, <1>0, <1>2, <2>0 DEF ServiceInv, CallInv, Created, At
  <2>2. ProcessInv'
    BY <1>t, <1>0, <1>2, <2>0 DEF RunningInv, ProcessInv, Created
  <2>3. StopInv' /\ CleanClose'
    BY <1>t, <1>0, <1>2, <1>4, <1>5, <2>0 DEF LaunchMove, RunningInv, StopInv, CleanClose, At
  <2>4. NoOrphan'
    BY <1>t, <1>0, <1>4, <1>5 DEF LaunchMove, RunningInv, NoOrphan
  <2> QED
    BY <2>1, <2>2, <2>3, <2>4
<1>6. ASSUME RegisterMove(c) PROVE Kept
  <2>0. /\ call[c].pc = "operating" /\ Created(call[c].target)
        /\ task'[c].pc = "returned" /\ process[c].state = "launched"
        /\ process'[c].path = record[call[c].target].repo
        /\ process'[c].state = "running" \/ (process'[c].state = "gone" /\ process'[c].alive = FALSE)
        /\ \A q \in Calls : q # c => process'[q] = process[q]
    BY <1>t, <1>4, <1>6 DEF RegisterMove, RunningInv, ProcessInv
  <2>1. CallInv'
    BY <1>t, <1>0, <1>2, <2>0 DEF ServiceInv, CallInv, Created, At
  <2>2. ProcessInv'
    BY <1>t, <1>0, <1>2, <2>0 DEF RunningInv, ProcessInv, Created
  <2>3. StopInv' /\ CleanClose'
    BY <1>t, <1>0, <1>2, <1>4, <1>6, <2>0 DEF RegisterMove, RunningInv, StopInv, CleanClose, At
  <2>4. NoOrphan'
    BY <1>t, <1>0, <1>4, <1>6 DEF RegisterMove, RunningInv, NoOrphan
  <2> QED
    BY <2>1, <2>2, <2>3, <2>4
<1>7. ASSUME EndMove(c) PROVE Kept
  <2>1. CallInv'
    BY <1>t, <1>0, <1>2, <1>7 DEF EndMove, ServiceInv, CallInv, Created, At
  <2>2. ProcessInv'
    BY <1>t, <1>0, <1>2, <1>7 DEF EndMove, RunningInv, ProcessInv, Created
  <2>3. StopInv'
    <3>1. ~At(c, "stop")
      BY <1>t, <1>7 DEF EndMove, ServiceInv, CallInv, At
    <3> QED
      BY <1>t, <1>0, <1>2, <1>7, <3>1 DEF EndMove, RunningInv, StopInv, At
  <2>4. NoOrphan' /\ CleanClose'
    BY <1>t, <1>0, <1>7 DEF EndMove, RunningInv, NoOrphan, CleanClose
  <2> QED
    BY <2>1, <2>2, <2>3, <2>4
<1>8. ASSUME AwaitMove(c) PROVE Kept
  <2>1. CallInv'
    BY <1>t, <1>0, <1>2, <1>8 DEF AwaitMove, ServiceInv, CallInv, Created, At
  <2>2. ProcessInv'
    BY <1>t, <1>0, <1>2, <1>8 DEF AwaitMove, RunningInv, ProcessInv, Created
  <2>3. StopInv'
    BY <1>t, <1>0, <1>2, <1>8 DEF AwaitMove, RunningInv, StopInv, At
  <2>4. NoOrphan' /\ CleanClose'
    BY <1>t, <1>0, <1>8 DEF AwaitMove, RunningInv, NoOrphan, CleanClose
  <2> QED
    BY <2>1, <2>2, <2>3, <2>4
<1>9. ASSUME DoneMove(c) PROVE Kept
  <2>1. CallInv'
    BY <1>t, <1>0, <1>2, <1>9 DEF DoneMove, ServiceInv, CallInv, Created, At
  <2>2. ProcessInv'
    BY <1>t, <1>0, <1>2, <1>9 DEF DoneMove, RunningInv, ProcessInv, Created
  <2>3. StopInv'
    BY <1>t, <1>0, <1>2, <1>9 DEF DoneMove, RunningInv, StopInv, At
  <2>4. NoOrphan' /\ CleanClose'
    BY <1>t, <1>0, <1>9 DEF DoneMove, RunningInv, NoOrphan, CleanClose
  <2> QED
    BY <2>1, <2>2, <2>3, <2>4
<1>10. ASSUME NEW p \in Calls, AskMove(c, p) PROVE Kept
  <2>0. process[p].state \in LiveStates
    BY <1>10 DEF AskMove, Running
  <2>1. CallInv'
    BY <1>t, <1>0, <1>2, <1>10 DEF AskMove, ServiceInv, CallInv, Created, At
  <2>2. ProcessInv'
    BY <1>t, <1>0, <1>2, <1>10, <2>0 DEF AskMove, RunningInv, ProcessInv, Created, LiveStates
  <2>3. StopInv'
    BY <1>t, <1>0, <1>2, <1>10, <2>0 DEF AskMove, RunningInv, StopInv, At
  <2>4. NoOrphan' /\ CleanClose'
    BY <1>t, <1>0, <1>10, <2>0 DEF AskMove, RunningInv, NoOrphan, CleanClose
  <2> QED
    BY <2>1, <2>2, <2>3, <2>4
<1>11. ASSUME NEW p \in Calls, SkipMove(c, p) PROVE Kept
  <2>0. process[p].state \notin LiveStates
    BY <1>11 DEF SkipMove, Running
  <2>1. CallInv'
    BY <1>t, <1>0, <1>2, <1>11 DEF SkipMove, ServiceInv, CallInv, Created, At
  <2>2. ProcessInv'
    BY <1>t, <1>0, <1>2, <1>11 DEF SkipMove, RunningInv, ProcessInv, Created
  <2>3. StopInv'
    <3>1. process[p].alive /\ call[p].target = call[c].target => ~At(c, "stop")
      <4>1. process[p].alive => task[p].pc = "launched"
        BY <1>t, <2>0 DEF RunningInv, ProcessInv, LiveStates
      <4> QED
        BY <1>4, <4>1
    <3> QED
      BY <1>t, <1>0, <1>2, <1>11, <2>0, <3>1 DEF SkipMove, RunningInv, StopInv, At
  <2>4. NoOrphan' /\ CleanClose'
    BY <1>t, <1>0, <1>11 DEF SkipMove, RunningInv, NoOrphan, CleanClose
  <2> QED
    BY <2>1, <2>2, <2>3, <2>4
<1>12. Kept
  BY <1>1, <1>5, <1>6, <1>7, <1>8, <1>9, <1>10, <1>11 DEF HostMove
<1> QED
  BY <1>3, <1>12 DEF CodingInv, ServiceInv, RunningInv

LEMMA EndingNext ==
  ASSUME CodingInv, NEW p \in Calls, Exit(p) \/ Watch(p), UNCHANGED serviceVars
  PROVE  CodingInv'
<1>t. TypeOK /\ HostTypeOK /\ ServiceInv /\ RunningInv
  BY DEF CodingInv, TypeOK
<1>0. UNCHANGED <<closed, active, opening, sessions, record, call>>
  BY DEF serviceVars
<1>1. HostTypeOK' /\ EndingMove
  BY <1>t, EndingMoves DEF RunningInv
<1>2. TypeOK' /\ SessionInv' /\ ClosingInv' /\ OneOperation' /\ OwnerExists'
  BY <1>t, <1>0, <1>1 DEF TypeOK, ServiceInv, SessionInv, ClosingInv, OneOperation,
     OwnerExists, At
<1>3. CallInv'
  BY <1>t, <1>0, <1>1 DEF EndingMove, ServiceInv, CallInv, Created, At
<1>4. ProcessInv'
  BY <1>t, <1>0, <1>1 DEF EndingMove, RunningInv, ProcessInv, Created, LiveStates, TerminalProcess
<1>5. StopInv'
  BY <1>t, <1>0, <1>1 DEF EndingMove, RunningInv, StopInv, At, LiveStates, TerminalProcess
<1>6. NoOrphan' /\ CleanClose'
  BY <1>t, <1>0, <1>1 DEF EndingMove, RunningInv, NoOrphan, CleanClose, LiveStates, TerminalProcess
<1> QED
  BY <1>2, <1>3, <1>4, <1>5, <1>6 DEF CodingInv, ServiceInv, RunningInv

----------------------------------------------------------------------------
(* The invariant.                                                          *)

LEMMA CodingInit == Init => CodingInv
<1> SUFFICES ASSUME Init PROVE CodingInv
  OBVIOUS
<1>0. /\ host = "none" /\ closed = FALSE /\ sessions = {}
      /\ active = [r \in Repos |-> None] /\ opening = [r \in Repos |-> None]
      /\ record = [s \in Calls |-> [repo |-> None, closing |-> FALSE, op |-> None]]
      /\ call = [c \in Calls |-> NewCall]
      /\ process = [p \in Calls |-> NoProcess] /\ task = [c \in Calls |-> Rest]
  BY DEF Init, HostInit
<1>1. /\ NewCall \in CallRecords /\ NewCall.pc = "idle" /\ NewCall.result = "none"
      /\ NewCall.target = None
  BY NewCallType DEF NewCall
<1>2. Rest \in Tasks /\ Rest.pc = "idle"
  BY RestType DEF Rest
<1>3. NoProcess \in Processes /\ NoProcess.state = "none" /\ NoProcess.alive = FALSE
  BY DEF NoProcess, Processes, ProcessStates
<1>4. TypeOK
  BY <1>0, <1>1, <1>2, <1>3 DEF TypeOK, HostTypeOK, Records
<1>5. \A s \in Calls : record[s].repo = None /\ call[s].pc = "idle" /\ call[s].result = "none"
        /\ task[s].pc = "idle" /\ process[s].state = "none" /\ ~process[s].alive
  BY <1>0, <1>1, <1>2, <1>3
<1>6. ServiceInv
  BY <1>0, <1>5, NoneIsNoCall DEF ServiceInv, SessionInv, CallInv, ClosingInv, OneOperation,
     OwnerExists, At
<1>7. RunningInv
  BY <1>5 DEF RunningInv, ProcessInv, StopInv, NoOrphan, CleanClose, At, LiveStates
<1> QED
  BY <1>4, <1>6, <1>7 DEF CodingInv

LEMMA CodingNext == CodingInv /\ [Next]_vars => CodingInv'
<1> SUFFICES ASSUME CodingInv, [Next]_vars PROVE CodingInv'
  OBVIOUS
<1>1. ASSUME NEW c \in Calls, Begin(c) PROVE CodingInv'
  BY <1>1, OpenReserveNext, LookupPlain, CloseBeginNext, CloseAllNext DEF Begin
<1>2. ASSUME NEW c \in Calls, Continue(c) PROVE CodingInv'
  BY <1>2, OpenPlain, OpenRegisterNext, OpenLeaveNext, ExecBeginNext, ExecDispatchNext,
     ExecFinishNext, CloseOpenedPlain, CloseStopsNext, CloseFinishesNext, AllOpeningPlain,
     AllStops, HostStepNext DEF Continue
<1>3. ASSUME UNCHANGED vars PROVE CodingInv'
  <2>1. UNCHANGED <<host, process, task, closed, active, opening, sessions, record, call>>
    BY <1>3 DEF vars, hostVars, serviceVars
  <2>2. TypeOK'
    BY <2>1 DEF CodingInv, TypeOK, HostTypeOK
  <2>3. ServiceInv'
    BY <2>1 DEF CodingInv, ServiceInv, SessionInv, CallInv, ClosingInv, OneOperation,
       OwnerExists, Created, At
  <2>4. RunningInv'
    BY <2>1 DEF CodingInv, RunningInv, ProcessInv, StopInv, NoOrphan, CleanClose, Created, At
  <2> QED
    BY <2>2, <2>3, <2>4 DEF CodingInv
<1> QED
  BY <1>1, <1>2, <1>3, CloseTimesOutPlain, EndingNext DEF Next, AtRest

\* The invariant holds in every state that the service and its tool host reach.
THEOREM CodingInductive == Spec => []CodingInv
BY CodingInit, CodingNext, PTL DEF Spec

\* Sessions, calls, tasks and processes are well formed, whatever the calls do.
THEOREM CodingTypes == Spec => []TypeOK
<1>1. CodingInv => TypeOK
  BY DEF CodingInv
<1> QED
  BY <1>1, CodingInductive, PTL

\* Service.active never names a session that is not in Service.sessions, and an
\* opening that it shows is under way: Open, Exec and Close never find a
\* repository whose owner is missing.
THEOREM OwnerExistsHolds == Spec => []OwnerExists
<1>1. CodingInv => OwnerExists
  BY DEF CodingInv, ServiceInv
<1> QED
  BY <1>1, CodingInductive, PTL

\* beginOperation and finish: a session has one operation at a time, and is not
\* finalised under it.
THEOREM OneOperationHolds == Spec => []OneOperation
<1>1. CodingInv => OneOperation
  BY DEF CodingInv, ServiceInv
<1> QED
  BY <1>1, CodingInductive, PTL

\* finalizeClose leaves no process behind, not even one that an Exec was starting
\* when its session began to close.
THEOREM NoOrphanHolds == Spec => []NoOrphan
<1>1. CodingInv => NoOrphan
  BY DEF CodingInv, RunningInv
<1> QED
  BY <1>1, CodingInductive, PTL

\* A Close that reported no error has seen every process of its session end.
THEOREM CleanCloseHolds == Spec => []CleanClose
<1>1. CodingInv => CleanClose
  BY DEF CodingInv, RunningInv
<1> QED
  BY <1>1, CodingInductive, PTL
=============================================================================
