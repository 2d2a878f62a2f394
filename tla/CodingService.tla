--------------------------- MODULE CodingService ---------------------------
(***************************************************************************)
(* The coding service: sessions on repositories, and the calls that open,  *)
(* use and close them (internal/v2/coding/service.go, lazy.go), over the   *)
(* processes of the tool host.                                             *)
(*                                                                         *)
(* A call of the MCP server runs in a goroutine of its own and takes the   *)
(* service's mutex several times; each critical section is an action. An   *)
(* opening and the session it creates are named by the call of Open, an    *)
(* operation by the call of Exec. A repository has one workspace and names *)
(* it.                                                                     *)
(***************************************************************************)
EXTENDS ToolHost

CONSTANT Opening  \* openingRepository

ASSUME OpeningAssumption == Opening \notin Calls \cup {None}

Repos == Paths

VARIABLES
  closed,    \* Service.closed
  active,    \* active[r]: the session of a repository, Opening or None
  opening,   \* opening[r]: the call that opens it, or None
  sessions,  \* Service.sessions
  record,    \* record[s]: repository, closing and the operation of a session
  call       \* call[c]: where a call stands

serviceVars == <<closed, active, opening, sessions, record, call>>
vars == <<hostVars, serviceVars>>

\* "reserved", "preparing" and "leaving" are of Open, "found" and "operating" of
\* Exec, "await_open", "await_op" and "stop" of Close, "all", "all_stop" and
\* "all_host" of CloseAll.
Pcs == {"idle", "reserved", "preparing", "leaving", "found", "operating",
        "await_open", "await_op", "stop", "all", "all_stop", "all_host", "over"}

\* "cancelled" is the state "closed" that Close returns when it ended an opening.
Results == {"none", "closed", "cancelled", "failed"}

\* target is the session or opening that the call is about, op the operation
\* that Close waits for, openings and records what CloseAll has left.
CallRecords ==
  [pc : Pcs, repo : Repos \cup {None}, target : Calls \cup {None}, op : Calls \cup {None},
   openings : SUBSET Calls, records : SUBSET Calls, result : Results]
NewCall == [pc |-> "idle", repo |-> None, target |-> None, op |-> None,
            openings |-> {}, records |-> {}, result |-> "none"]

Records == [repo : Repos \cup {None}, closing : BOOLEAN, op : Calls \cup {None}]

Init ==
  /\ HostInit
  /\ closed = FALSE
  /\ active = [r \in Repos |-> None]
  /\ opening = [r \in Repos |-> None]
  /\ sessions = {}
  /\ record = [s \in Calls |-> [repo |-> None, closing |-> FALSE, op |-> None]]
  /\ call = [c \in Calls |-> NewCall]

At(c, pc) == call[c].pc = pc
Arrives(c) == At(c, "idle") /\ \A d \in Calls : d < c => ~At(d, "idle")
Go(c, pc) == call' = [call EXCEPT ![c].pc = pc]

-----------------------------------------------------------------------------
(***************************************************************************)
(* Open. A refused call, and one that resumes the session that is there,   *)
(* change nothing and are no actions.                                      *)
(***************************************************************************)
OpenReserve(c, r) ==
  /\ Arrives(c) /\ ~closed /\ active[r] = None
  /\ active' = [active EXCEPT ![r] = Opening]
  /\ opening' = [opening EXCEPT ![r] = c]
  /\ call' = [call EXCEPT ![c] = [NewCall EXCEPT !.pc = "reserved", !.repo = r]]
  /\ UNCHANGED <<hostVars, closed, sessions, record>>

\* ready resolves the tool host, or fails.
OpenReady(c) ==
  /\ At(c, "reserved")
  /\ \/ Resolve /\ Go(c, "preparing")
     \/ UNCHANGED host /\ Go(c, "leaving")
  /\ UNCHANGED <<process, task, closed, active, opening, sessions, record>>

\* prepare fails, for any reason or because its context was cancelled.
OpenFails(c) ==
  /\ At(c, "preparing")
  /\ Go(c, "leaving")
  /\ UNCHANGED <<hostVars, closed, active, opening, sessions, record>>

\* prepare has returned a workspace. Nothing looks at its context any more.
OpenRegister(c) ==
  /\ At(c, "preparing")
  /\ IF closed
       THEN UNCHANGED <<sessions, record, active>>
       ELSE /\ sessions' = sessions \cup {c}
            /\ record' = [record EXCEPT ![c] =
                 [repo |-> call[c].repo, closing |-> FALSE, op |-> None]]
            /\ active' = [active EXCEPT ![call[c].repo] = c]
  /\ Go(c, "leaving")
  /\ UNCHANGED <<hostVars, closed, opening>>

\* What Open defers, in a critical section of its own.
OpenLeave(c) ==
  LET r == call[c].repo IN
  /\ At(c, "leaving")
  /\ opening' = IF opening[r] = c THEN [opening EXCEPT ![r] = None] ELSE opening
  /\ active' = IF active[r] = Opening THEN [active EXCEPT ![r] = None] ELSE active
  /\ Go(c, "over")
  /\ UNCHANGED <<hostVars, closed, sessions, record>>

-----------------------------------------------------------------------------
(***************************************************************************)
(* Exec.                                                                   *)
(***************************************************************************)
\* The session that is active and not closing, if any.
BugExecLookup(c, r) ==  \* an opening is taken for a session
  /\ Arrives(c) /\ ~closed /\ active[r] # None
  /\ call' = [call EXCEPT ![c] =
       [NewCall EXCEPT !.pc = "found", !.repo = r, !.target = active[r]]]
  /\ UNCHANGED <<hostVars, closed, active, opening, sessions, record>>
ExecLookup(c, r) ==
  /\ Arrives(c) /\ ~closed
  /\ active[r] \in sessions /\ ~record[active[r]].closing
  /\ call' = [call EXCEPT ![c] =
       [NewCall EXCEPT !.pc = "found", !.repo = r, !.target = active[r]]]
  /\ UNCHANGED <<hostVars, closed, active, opening, sessions, record>>

\* beginOperation: only now is the operation the session's, if it may be.
BugMayBegin(s) == record[s].op = None
MayBegin(s) == ~record[s].closing /\ record[s].op = None
ExecBegin(c) ==
  /\ At(c, "found")
  /\ IF MayBegin(call[c].target)
       THEN record' = [record EXCEPT ![call[c].target].op = c] /\ Go(c, "operating")
       ELSE UNCHANGED record /\ Go(c, "over")
  /\ UNCHANGED <<hostVars, closed, active, opening, sessions>>

\* host.Exec: run, start, or stop of a process of this workspace.
ExecDispatch(c) ==
  LET w == record[call[c].target].repo IN
  /\ At(c, "operating") /\ task[c].pc = "idle"
  /\ HostRun(c, w) \/ HostStart(c, w) \/ \E p \in Calls : HostStop(c, w, p)
  /\ UNCHANGED serviceVars

\* finish.
ExecFinish(c) ==
  LET s == call[c].target IN
  /\ At(c, "operating") /\ task[c].pc = "returned"
  /\ Enter(c, Rest)
  /\ record' = IF record[s].op = c THEN [record EXCEPT ![s].op = None] ELSE record
  /\ Go(c, "over")
  /\ UNCHANGED <<host, process, closed, active, opening, sessions>>

-----------------------------------------------------------------------------
(***************************************************************************)
(* Close.                                                                  *)
(***************************************************************************)
\* The repository is being opened: cancel that and wait until it is over.
CloseOpening(c, r) ==
  /\ Arrives(c) /\ ~closed /\ active[r] = Opening
  /\ call' = [call EXCEPT ![c] =
       [NewCall EXCEPT !.pc = "await_open", !.repo = r, !.target = opening[r]]]
  /\ UNCHANGED <<hostVars, closed, active, opening, sessions, record>>

CloseOpened(c) ==
  /\ At(c, "await_open")
  /\ \/ At(call[c].target, "over") /\ call' = [call EXCEPT ![c].pc = "over", ![c].result = "cancelled"]
     \/ call' = [call EXCEPT ![c].pc = "over", ![c].result = "failed"]
  /\ UNCHANGED <<hostVars, closed, active, opening, sessions, record>>

\* There is a session: from now on it is closing. Its operation is cancelled.
CloseBegin(c, r) ==
  LET s == active[r] IN
  /\ Arrives(c) /\ ~closed
  /\ s \in sessions /\ ~record[s].closing
  /\ record' = [record EXCEPT ![s].closing = TRUE]
  /\ call' = [call EXCEPT ![c] =
       [NewCall EXCEPT !.pc = "await_op", !.repo = r, !.target = s, !.op = record[s].op]]
  /\ UNCHANGED <<hostVars, closed, active, opening, sessions>>

\* The operation that was under way is over: stop the workspace's processes.
BugOpDone(c) == TRUE  \* Close cancels the operation and does not wait
OpDone(c) == \A e \in Calls : call[c].op = e => At(e, "over")
CloseStops(c) ==
  /\ At(c, "await_op") /\ OpDone(c)
  /\ HostStopWorkspace(c, record[call[c].target].repo)
  /\ Go(c, "stop")
  /\ UNCHANGED <<closed, active, opening, sessions, record>>

\* The caller's context ends first. Close returns CODING_CLOSE_TIMEOUT, and a
\* goroutine goes through the same steps, whose outcome nobody hears of.
BugCloseTimesOut(c) ==  \* without the goroutine
  /\ At(c, "await_op") /\ ~OpDone(c)
  /\ call' = [call EXCEPT ![c].pc = "over", ![c].result = "failed"]
  /\ UNCHANGED <<hostVars, closed, active, opening, sessions, record>>
CloseTimesOut(c) ==
  /\ At(c, "await_op") /\ ~OpDone(c) /\ call[c].result = "none"
  /\ call' = [call EXCEPT ![c].result = "failed"]
  /\ UNCHANGED <<hostVars, closed, active, opening, sessions, record>>

\* finalizeClose, and the return of Close.
BugFinalize(s) == sessions' = sessions \ {s} /\ UNCHANGED active
Finalize(s) ==
  IF s \in sessions
    THEN /\ sessions' = sessions \ {s}
         /\ active' = IF active[record[s].repo] = s
                        THEN [active EXCEPT ![record[s].repo] = None] ELSE active
    ELSE UNCHANGED <<sessions, active>>
CloseFinishes(c) ==
  /\ At(c, "stop") /\ task[c].pc = "returned"
  /\ Enter(c, Rest)
  /\ Finalize(call[c].target)
  /\ call' = [call EXCEPT ![c].pc = "over",
       ![c].result = IF task[c].ok /\ call[c].result = "none" THEN "closed" ELSE "failed"]
  /\ UNCHANGED <<host, process, closed, opening, record>>

-----------------------------------------------------------------------------
(***************************************************************************)
(* CloseAll.                                                               *)
(***************************************************************************)
CloseAll(c) ==
  /\ Arrives(c) /\ ~closed
  /\ closed' = TRUE
  /\ record' = [s \in Calls |-> IF s \in sessions THEN [record[s] EXCEPT !.closing = TRUE]
                                                  ELSE record[s]]
  /\ call' = [call EXCEPT ![c] =
       [NewCall EXCEPT !.pc = "all", !.records = sessions,
                       !.openings = {o \in Calls : \E r \in Repos : opening[r] = o}]]
  /\ sessions' = {}
  /\ active' = [r \in Repos |-> None]
  /\ opening' = [r \in Repos |-> None]
  /\ UNCHANGED hostVars

\* An opening is over, or the context is.
AllOpening(c) ==
  /\ At(c, "all")
  /\ \E o \in call[c].openings : call' = [call EXCEPT ![c].openings = @ \ {o}]
  /\ UNCHANGED <<hostVars, closed, active, opening, sessions, record>>

\* The operation of a session is over, or the context is.
AllRecord(c) ==
  /\ At(c, "all") /\ call[c].openings = {}
  /\ \E s \in call[c].records :
       /\ HostStopWorkspace(c, record[s].repo)
       /\ call' = [call EXCEPT ![c].records = @ \ {s}, ![c].pc = "all_stop"]
  /\ UNCHANGED <<closed, active, opening, sessions, record>>

AllStopped(c) ==
  /\ At(c, "all_stop") /\ task[c].pc = "returned"
  /\ Enter(c, Rest)
  /\ Go(c, "all")
  /\ UNCHANGED <<host, process, closed, active, opening, sessions, record>>

\* closeRuntime.
AllHost(c) ==
  /\ At(c, "all") /\ call[c].openings = {} /\ call[c].records = {}
  /\ HostClose(c)
  /\ Go(c, "all_host")
  /\ UNCHANGED <<closed, active, opening, sessions, record>>

AllDone(c) ==
  /\ At(c, "all_host") /\ task[c].pc = "returned"
  /\ Enter(c, Rest)
  /\ Go(c, "over")
  /\ UNCHANGED <<host, process, closed, active, opening, sessions, record>>

-----------------------------------------------------------------------------
\* What a call that has begun does next, whatever anybody else does.
Continue(c) ==
  \/ OpenReady(c) \/ OpenFails(c) \/ OpenRegister(c) \/ OpenLeave(c)
  \/ ExecBegin(c) \/ ExecDispatch(c) \/ ExecFinish(c)
  \/ CloseOpened(c) \/ CloseStops(c) \/ CloseFinishes(c)
  \/ AllOpening(c) \/ AllRecord(c) \/ AllStopped(c) \/ AllHost(c) \/ AllDone(c)
  \/ HostStep(c) /\ UNCHANGED serviceVars

Begin(c) ==
  \/ \E r \in Repos : OpenReserve(c, r) \/ ExecLookup(c, r) \/ CloseOpening(c, r) \/ CloseBegin(c, r)
  \/ CloseAll(c)

\* No call is under way and no process runs: nothing has to happen. Anywhere
\* else the service must be able to go on.
AtRest ==
  /\ \A c \in Calls : call[c].pc \in {"idle", "over"} /\ ~process[c].alive
  /\ UNCHANGED vars

Next ==
  \/ \E c \in Calls : Begin(c) \/ Continue(c) \/ CloseTimesOut(c)
  \/ \E p \in Calls : (Exit(p) \/ Watch(p)) /\ UNCHANGED serviceVars
  \/ AtRest

Spec == Init /\ [][Next]_vars

\* A goroutine that can go on goes on: commands, starts and preparations end,
\* by themselves or by their timeouts. Watchers run. Nobody has to call.
FairSpec ==
  /\ Spec
  /\ \A c \in Calls : WF_vars(Continue(c)) /\ WF_vars(Watch(c) /\ UNCHANGED serviceVars)

-----------------------------------------------------------------------------
TypeOK ==
  /\ HostTypeOK
  /\ closed \in BOOLEAN
  /\ active \in [Repos -> Calls \cup {None, Opening}]
  /\ opening \in [Repos -> Calls \cup {None}]
  /\ sessions \subseteq Calls
  /\ record \in [Calls -> Records]
  /\ call \in [Calls -> CallRecords]

\* A repository that has an owner has its session or its opening: the answer
\* CODING_ACTIVE_SESSION_MISSING, of Exec, Close and Open, is never given.
OwnerExists ==
  \A r \in Repos :
    /\ active[r] \in Calls => active[r] \in sessions /\ record[active[r]].repo = r
    /\ active[r] = Opening => opening[r] # None

\* A session works on one operation at a time, and one that is gone works on none,
\* however its Close and the Exec interleaved, unless CloseAll took it away.
OneOperation ==
  \A c \in Calls : At(c, "operating") =>
    record[call[c].target].op = c /\ (closed \/ call[c].target \in sessions)

\* A process that runs belongs to a session that is there, until CloseAll.
NoOrphan ==
  \A p \in Calls : process[p].alive /\ ~closed => call[p].target \in sessions

\* When Close has returned without an error, no process that its session started
\* runs, and none will.
CleanClose ==
  \A c, p \in Calls : call[c].result = "closed" /\ call[p].target = call[c].target =>
    ~process[p].alive /\ process[p].state \notin LiveStates

\* No session stays closing for ever, also when its Close timed out.
Closing == {s \in sessions : record[s].closing}
ClosingEnds == Closing # {} ~> Closing = {}

\* After CloseAll every process ends.
CloseEndsProcesses == closed ~> \A p \in Calls : ~process[p].alive

\* docs/PROTOCOL.md: a repository has at most one active coding session.
OneSession == \A s, t \in sessions : record[s].repo = record[t].repo => s = t
=============================================================================
