----------------------------- MODULE CodexClient -----------------------------
(***************************************************************************)
(* The JSON-RPC client of a private Codex app-server                       *)
(* (internal/codex/client.go, client_process_scope.go): the requests that  *)
(* wait for an answer, the goroutine that reads the server's standard      *)
(* output, the goroutine that waits for the process, and Close.            *)
(*                                                                         *)
(* What a client does is an operator on its record; the module that uses   *)
(* clients says when. The server is the environment: it answers what it    *)
(* was asked in any order, may say odd things MaxFaults times, and may end  *)
(* at any time.                                                            *)
(***************************************************************************)
EXTENDS Naturals, Sequences

CONSTANTS
  MaxFaults  \* how often the servers may misbehave

ASSUME ClientAssumption == MaxFaults \in Nat

\* A command starts a second client when the sandbox had to be set up first. A
\* client makes at most three requests.
Clients == {1, 2}
Ids == 1 .. 3

VARIABLES
  client,  \* client[k]: a client with its process
  faults   \* what is left of MaxFaults

clientVars == <<client, faults>>

\* What a request may come to: the answer that was hoped for, another one ("unfit":
\* not ready, another home, no exit code), an error, or the loss of the connection.
Values == {"ok", "unfit", "error", "lost"}
Lines == [kind : {"answer"}, id : Ids, value : Values]
         \cup [kind : {"note"}, setup : {"done", "failed", "other"}]
         \cup [kind : {"junk", "overlong"}]
Answer(id, value) == [kind |-> "answer", id |-> id, value |-> value]
Note(setup) == [kind |-> "note", setup |-> setup]

\* box[id] is the buffered channel of a request, asked[id] what the server knows of
\* it, and whether it has said yes, out what the server wrote and nobody read. kids says that the command may
\* have left processes in the tree, scope that the job object over it is held,
\* setup that the server is setting up its sandbox.
ClientRecords ==
  [proc : {"none", "running", "ended"}, killed : BOOLEAN, scope : BOOLEAN, kids : BOOLEAN,
   setup : BOOLEAN, stdin : BOOLEAN, reader : {"off", "reading", "stopped"},
   waiter : {"off", "waiting", "failing", "closing", "done"},
   closing : {"no", "release", "stdin", "kill", "fail", "closed"},
   next : 0 .. 3, pending : SUBSET Ids, box : [Ids -> Seq(Values)],
   asked : [Ids -> {"no", "asked", "ok", "answered"}], out : Seq(Lines)]
NewClient ==
  [proc |-> "none", killed |-> FALSE, scope |-> FALSE, kids |-> FALSE,
   setup |-> FALSE, stdin |-> FALSE, reader |-> "off", waiter |-> "off", closing |-> "no",
   next |-> 0, pending |-> {}, box |-> [i \in Ids |-> <<>>],
   asked |-> [i \in Ids |-> "no"], out |-> <<>>]

ClientInit == client = [k \in Clients |-> NewClient] /\ faults = MaxFaults

ClientTypeOK == client \in [Clients -> ClientRecords] /\ faults \in 0 .. MaxFaults

-----------------------------------------------------------------------------
(***************************************************************************)
(* The client's own operations.                                            *)
(***************************************************************************)
\* cmd.Start, and the goroutines that Start leaves behind.
Launched(c) ==
  [c EXCEPT !.proc = "running", !.stdin = TRUE, !.reader = "reading", !.waiter = "waiting"]

\* A channel holds one value: dispatch waits for room, failPending does not.
Room(c, id) == Len(c.box[id]) < 1

\* failPending takes the map away and tells everyone who is in it.
FailPending(c) ==
  [c EXCEPT !.pending = {},
            !.box = [id \in Ids |-> IF id \in c.pending /\ Room(c, id)
                                      THEN Append(c.box[id], "lost") ELSE c.box[id]]]

\* request: the id is registered before the request is sent.
Registered(c) == [c EXCEPT !.next = c.next + 1, !.pending = c.pending \cup {c.next + 1}]

\* A write succeeds as long as both ends of the pipe are open.
Writable(c) == c.stdin /\ c.proc = "running"
Sent(c, id) == [c EXCEPT !.asked[id] = "asked"]
Forgotten(c, id) == [c EXCEPT !.pending = c.pending \ {id}]

\* dispatch: an answer that nobody waits for is dropped.
BugDispatched(c, id, value) ==
  IF id \in c.pending THEN [c EXCEPT !.box[id] = Append(c.box[id], value)] ELSE c
Dispatched(c, id, value) ==
  IF id \in c.pending
    THEN [c EXCEPT !.pending = c.pending \ {id}, !.box[id] = Append(c.box[id], value)] ELSE c

\* The job object's last handle is closed: every process in the tree is killed.
Released(c) == IF c.scope THEN [c EXCEPT !.scope = FALSE, !.killed = TRUE, !.kids = FALSE] ELSE c

\* Close, step by step; closeCommandClient and Stop release the tree before it.
\* Only the first Close does anything.
BugCloseStep(c) ==
  CASE c.closing = "release" -> [Released(c) EXCEPT !.closing = "stdin"]
    [] c.closing = "stdin" -> [c EXCEPT !.closing = "fail", !.stdin = FALSE]
    [] c.closing = "fail" -> [FailPending(c) EXCEPT !.closing = "closed"]
CloseStep(c) ==
  CASE c.closing = "release" -> [Released(c) EXCEPT !.closing = "stdin"]
    [] c.closing = "stdin" -> [c EXCEPT !.closing = "kill", !.stdin = FALSE]
    [] c.closing = "kill" -> [Released(c) EXCEPT !.closing = "fail",
                                                 !.killed = c.killed \/ c.proc = "running"]
    [] c.closing = "fail" -> [FailPending(c) EXCEPT !.closing = "closed"]
BeginClose(c, at) == IF c.closing = "no" THEN [c EXCEPT !.closing = at] ELSE c

-----------------------------------------------------------------------------
(***************************************************************************)
(* The steps of a client's goroutines.                                     *)
(***************************************************************************)
Becomes(k, c) == client' = [client EXCEPT ![k] = c]

Closes(k) ==
  /\ client[k].closing \notin {"no", "closed"}
  /\ Becomes(k, CloseStep(client[k]))
  /\ UNCHANGED faults

\* readStdout takes the next line, a line that is not a notification.
Unread(c) == c.reader = "reading" /\ c.out # <<>>
Blocked(c) ==
  /\ Unread(c) /\ Head(c.out).kind = "answer"
  /\ Head(c.out).id \in c.pending /\ ~Room(c, Head(c.out).id)
Understood(c, line) ==
  CASE line.kind = "answer" -> Dispatched(c, line.id, line.value)
    [] line.kind = "junk" -> FailPending(c)
    [] line.kind = "overlong" -> [FailPending(c) EXCEPT !.reader = "stopped"]
Reads(k) ==
  LET c == client[k]
  IN  /\ Unread(c) /\ ~Blocked(c) /\ Head(c.out).kind # "note"
      /\ Becomes(k, Understood([c EXCEPT !.out = Tail(c.out)], Head(c.out)))
      /\ UNCHANGED faults

\* The end of the output, or of the pipe: Wait closes it, read or not.
ReadsEnd(k) ==
  LET c == client[k]
  IN  /\ c.reader = "reading" /\ c.proc = "ended"
      /\ \/ c.out = <<>> /\ Becomes(k, [c EXCEPT !.reader = "stopped"])
         \/ c.waiter # "waiting" /\ Becomes(k, [FailPending(c) EXCEPT !.reader = "stopped"])
      /\ UNCHANGED faults

\* The goroutine of cmd.Wait, which also closes the pipes.
Waits(k) ==
  LET c == client[k]
  IN  /\ \/ /\ c.waiter = "waiting" /\ c.proc = "ended"
            /\ Becomes(k, [c EXCEPT !.waiter = "failing", !.stdin = FALSE])
         \/ c.waiter = "failing" /\ Becomes(k, [FailPending(c) EXCEPT !.waiter = "closing"])
         \/ c.waiter = "closing" /\ Becomes(k, [c EXCEPT !.waiter = "done"])
      /\ UNCHANGED faults

-----------------------------------------------------------------------------
(***************************************************************************)
(* The app-server.                                                         *)
(***************************************************************************)
\* A process that was killed does nothing more, though it may take time to end.
Serves(k) == client[k].proc = "running" /\ ~client[k].killed
Says(k, line) == [client[k] EXCEPT !.out = Append(client[k].out, line)]

Answers(k) ==
  /\ Serves(k)
  /\ \E id \in Ids, value \in Values \ {"lost"} :
       /\ client[k].asked[id] = "asked"
       /\ Becomes(k, [Says(k, Answer(id, value)) EXCEPT !.asked[id] = IF value = "ok" THEN "ok" ELSE "answered"])
  /\ UNCHANGED faults

SetsUp(k) ==
  /\ Serves(k) /\ client[k].setup
  /\ \E s \in {"done", "failed"} : Becomes(k, [Says(k, Note(s)) EXCEPT !.setup = FALSE])
  /\ UNCHANGED faults

\* An answer given twice, a notification nobody waits for, a line that is no
\* JSON, a line beyond the scanner's limit.
Misbehaves(k) ==
  /\ Serves(k) /\ faults > 0
  /\ faults' = faults - 1
  /\ \/ \E id \in Ids : client[k].asked[id] \in {"ok", "answered"} /\ Becomes(k, Says(k, Answer(id, "ok")))
     \/ Becomes(k, Says(k, Note("other")))
     \/ Becomes(k, Says(k, [kind |-> "junk"]))
     \/ Becomes(k, Says(k, [kind |-> "overlong"]))

Ends(k) ==
  /\ client[k].proc = "running"
  /\ Becomes(k, [client[k] EXCEPT !.proc = "ended"])
  /\ UNCHANGED faults

Server(k) == Answers(k) \/ SetsUp(k) \/ Misbehaves(k)

\* No answer waits for a request that was already told its fate: the reader
\* would wait with it for ever.
ReaderFree == \A k \in Clients : ~Blocked(client[k])

=============================================================================
