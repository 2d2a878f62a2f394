---------------------------- MODULE CodexCommand ----------------------------
(***************************************************************************)
(* A command of the tool host from StartCommand to the answer of its       *)
(* handle (internal/codex/command.go, command_home.go): a home of its own, *)
(* a private app-server that is asked whether the sandbox is ready, is     *)
(* told to set it up and is replaced by a second one when it is not, the   *)
(* command itself, and the end of everything.                              *)
(*                                                                         *)
(* One goroutine makes the requests, one after the other, so a request has *)
(* no record of its own: asking says how far the current one has come. The *)
(* tool host stops the command, and its caller's context ends, at any time. *)
(***************************************************************************)
EXTENDS CodexClient

CONSTANTS
  MaxNotes  \* room in the channel of notifications (8)

ASSUME CommandAssumption == MaxNotes \in Nat \ {0}

VARIABLES
  step,       \* where the goroutine of the command is
  n,          \* the client it uses
  asking,     \* how far its request is
  notes,      \* the channel of notifications, which both clients share
  cancelled,  \* commandCtx
  home,       \* the execution home
  answer      \* what the caller was told

vars == <<clientVars, step, n, asking, notes, cancelled, home, answer>>

Requests == {"initialize", "readiness", "setup", "exec"}
Leaving == {"drop", "abandon", "replace", "finish"}
Steps == {"home", "launch", "own", "setupWait", "refused", "over"} \cup Requests \cup Leaving

TypeOK ==
  /\ ClientTypeOK
  /\ step \in Steps /\ n \in Clients
  /\ asking \in {"register", "send", "await"}
  /\ notes \in Seq({"done", "failed", "other"}) /\ Len(notes) <= MaxNotes
  /\ cancelled \in BOOLEAN
  /\ home \in {"none", "made", "left", "gone"}
  /\ answer \in {"none", "exit", "error"}

Init ==
  /\ ClientInit
  /\ step = "home" /\ n = 1 /\ asking = "register" /\ notes = <<>>
  /\ cancelled = FALSE /\ home = "none" /\ answer = "none"

-----------------------------------------------------------------------------
\* The goroutine goes to step s with its client as c. Start closes a client that
\* did not start at once; a client that owns its tree loses the tree first.
Enters(s, c) ==
  /\ step' = s
  /\ Becomes(n, CASE s = "drop" -> BeginClose(c, "stdin")
                  [] s \in Leaving \ {"drop"} -> BeginClose(c, "release")
                  [] OTHER -> c)

\* StartCommand: a home that cannot be completed is refused before anybody has been
\* told to remove it.
MakesHome ==
  /\ step = "home"
  /\ \/ step' = "launch" /\ home' = "made"
     \/ step' = "refused" /\ home' \in {"none", "left"}
  /\ UNCHANGED <<clientVars, n, asking, notes, cancelled, answer>>

Launches ==
  /\ step = "launch"
  /\ \/ Enters("initialize", Launched(client[n]))
     \/ Enters("drop", client[n])
  /\ UNCHANGED <<faults, n, asking, notes, cancelled, home, answer>>

Registers ==
  /\ step \in Requests /\ asking = "register"
  /\ Becomes(n, Registered(client[n])) /\ asking' = "send"
  /\ UNCHANGED <<faults, step, n, notes, cancelled, home, answer>>

\* Where a request that came to value leads. A client that is initialized is told so,
\* which a broken pipe turns into an error.
After(value) ==
  CASE step = "initialize" -> IF value = "ok" /\ Writable(client[n]) THEN "own" ELSE "drop"
    [] step = "readiness" /\ value = "ok" -> "exec"
    [] step = "readiness" /\ value = "unfit" /\ n = 1 -> "setup"
    [] step = "setup" /\ value \in {"ok", "unfit"} -> "setupWait"
    [] step = "exec" -> "finish"
    [] OTHER -> "abandon"

\* The request is over with value, its client as c. run has its result then, and
\* gives it away when everything is cleaned up.
Learns(value, c) ==
  /\ Enters(After(value), c) /\ asking' = "register"
  /\ answer' = IF step # "exec" THEN answer ELSE IF value = "ok" THEN "exit" ELSE "error"
  /\ UNCHANGED <<faults, n, notes, cancelled, home>>

Id == client[n].next
Sends ==
  /\ step \in Requests /\ asking = "send"
  /\ \/ /\ Writable(client[n])
        /\ Becomes(n, [Sent(client[n], Id) EXCEPT !.kids = (step = "exec" /\ Serves(n)),
                                                  !.setup = (step = "setup")])
        /\ asking' = "await"
        /\ UNCHANGED <<faults, step, n, notes, cancelled, home, answer>>
     \/ ~Writable(client[n]) /\ Learns("error", Forgotten(client[n], Id))

\* The three cases of request's select. The command itself has no timeout.
Awaiting == step \in Requests /\ asking = "await"
GetsAnswer ==
  /\ Awaiting /\ client[n].box[Id] # <<>>
  /\ Learns(Head(client[n].box[Id]), [client[n] EXCEPT !.box[Id] = Tail(client[n].box[Id])])
BugExpires ==
  /\ Awaiting /\ step # "exec"
  /\ Learns("error", Forgotten(client[n], Id))
Expires ==
  /\ Awaiting /\ (cancelled \/ step # "exec")
  /\ Learns("error", Forgotten(client[n], Id))
SeesEnd == Awaiting /\ client[n].waiter = "done" /\ Learns("lost", client[n])

\* ownProcessTree: the job object over the app-server.
Owns ==
  /\ step = "own"
  /\ \/ Enters("readiness", [client[n] EXCEPT !.scope = TRUE])
     \/ Enters("drop", client[n])
  /\ UNCHANGED <<faults, n, asking, notes, cancelled, home, answer>>

\* The wait for setupCompleted, which passes over other notifications.
HearsSetup ==
  /\ step = "setupWait" /\ notes # <<>> /\ notes' = Tail(notes)
  /\ Enters(CASE Head(notes) = "done" -> "replace"
              [] Head(notes) = "failed" -> "abandon"
              [] OTHER -> "setupWait", client[n])
  /\ UNCHANGED <<faults, n, asking, cancelled, home, answer>>
SetupExpires ==
  /\ step = "setupWait" /\ Enters("abandon", client[n])
  /\ UNCHANGED <<faults, n, asking, notes, cancelled, home, answer>>

\* The client is closed and its process has been waited for, or for three seconds.
\* Only the process of the first client matters from here on, and nobody reads the
\* notifications any more.
Gone(c) == [NewClient EXCEPT !.proc = c.proc, !.killed = c.killed, !.kids = c.kids, !.closing = c.closing]
Replaced ==
  /\ n' = 2 /\ step' = "launch" /\ notes' = <<>>
  /\ Becomes(n, Gone(client[n]))
  /\ UNCHANGED <<faults, asking, cancelled, home, answer>>
BugReplaces == step = "replace" /\ Replaced
Replaces == step = "replace" /\ client[n].closing = "closed" /\ Replaced

\* RemoveAll fails without a word where a process still has a file open.
Leaves ==
  /\ step \in {"drop", "abandon", "finish"} /\ client[n].closing = "closed"
  /\ step' = IF step = "finish" THEN "over" ELSE "refused"
  /\ home' \in {"gone"} \cup (IF \E k \in Clients : client[k].proc = "running" THEN {"left"} ELSE {})
  /\ UNCHANGED <<clientVars, n, asking, notes, cancelled, answer>>

-----------------------------------------------------------------------------
\* CommandHandle.Stop by the tool host, which has a handle once the command runs.
Stop ==
  /\ step \in {"exec", "finish"} /\ cancelled' = TRUE
  /\ Becomes(n, BeginClose(client[n], "release"))
  /\ UNCHANGED <<faults, step, n, asking, notes, home, answer>>

\* The end of the context is looked at while something is waited for.
Cancel ==
  /\ step \in Requests \cup {"setupWait"} /\ ~cancelled /\ cancelled' = TRUE
  /\ UNCHANGED <<clientVars, step, n, asking, notes, home, answer>>

\* The handler of notifications drops what does not fit.
BugHeard(setup) == Append(notes, setup)
Heard(setup) == IF Len(notes) < MaxNotes THEN Append(notes, setup) ELSE notes
ReadsNote(k) ==
  LET c == client[k]
  IN  /\ Unread(c) /\ Head(c.out).kind = "note"
      /\ Becomes(k, [c EXCEPT !.out = Tail(c.out)])
      /\ notes' = Heard(Head(c.out).setup)
      /\ UNCHANGED <<faults, step, n, asking, cancelled, home, answer>>

Ended == step \in {"refused", "over"}
commandVars == <<step, n, asking, notes, cancelled, home, answer>>
Goroutines(k) ==
  \/ (Closes(k) \/ Reads(k) \/ ReadsEnd(k) \/ Waits(k)) /\ UNCHANGED commandVars
  \/ ReadsNote(k)
Acts ==
  \/ MakesHome \/ Launches \/ Registers \/ Sends
  \/ GetsAnswer \/ Expires \/ SeesEnd
  \/ Owns \/ HearsSetup \/ SetupExpires \/ Replaces \/ Leaves

\* Of a client that was closed and waited for, and of a command that has ended, what
\* the goroutines still have to do is not followed: nobody sees it.
Next ==
  \/ Acts \/ Stop \/ Cancel
  \/ \E k \in Clients :
       /\ ~Ended
       /\ \/ k = n /\ Goroutines(k)
          \/ (Server(k) \/ Ends(k)) /\ UNCHANGED commandVars

\* Nothing forces the app-server to answer or to end. The goroutines run, and the
\* timers of all requests but the command's fire.
Runs(A) == ~Ended /\ A /\ UNCHANGED commandVars
Spec ==
  /\ Init /\ [][Next]_vars
  /\ WF_vars(Acts)
  /\ WF_vars(Runs(Closes(n)))
  /\ WF_vars(Runs(Waits(n)))
  /\ WF_vars(Runs(Reads(n) \/ ReadsEnd(n)))

-----------------------------------------------------------------------------
(***************************************************************************)
(* What a command promises (CommandLife).                                  *)
(***************************************************************************)
Phase ==
  CASE step \in {"exec", "finish"} -> "running"
    [] step \in {"refused", "over"} -> step
    [] OTHER -> "starting"
Life == INSTANCE CommandLife WITH
  phase <- Phase,
  exited <- Phase \in {"running", "over"} /\ client[n].asked[3] = "ok",
  alive <- \E k \in Clients : client[k].kids \/ Serves(k),
  answer <- IF step = "over" THEN answer ELSE "none"

\* A command is refused or runs and is over once; the caller is told its exit only
\* when the server has reported it to this very request; and nothing of a command that
\* was refused or is over has been left alive, in whatever order the answers, the
\* end of the process, the stop and the timers came.
IsCommand == Life!Spec

\* Two app-servers never work in one home: the first is closed before the second,
\* which finds the sandbox that the first has set up, is started.
OneServer == \A j, k \in Clients : Serves(j) /\ Serves(k) => j = k

\* A command whose context has ended, or whose app-server has, is over at last,
\* however far it had come.
EndsWhenTold ==
  (cancelled \/ (step = "exec" /\ client[n].proc = "ended")) ~> Ended

=============================================================================
