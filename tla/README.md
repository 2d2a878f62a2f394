# CWapi in TLA+

CWapi lets a web agent, which can only call MCP tools, work for programs on a
developer's machine. It does so in two ways. The *Agent* side offers local
programs an OpenAI-compatible HTTP API: every chat completion becomes a request
that a broker keeps until the web agent polls for it and sends a response. The
*Coding* side gives the web agent sessions on Git repositories in which it runs
commands through a Codex app-server. Around both are the tunnels that connect
the MCP server to the web and the desktop application that starts, reconfigures
and stops everything.

This directory models that program: TLA+ modules translated from the Go code
(`PROJECT.json` maps every definition to the lines it models), TLC
configurations that check them, and proofs.

## The parts of the system

| Component | State | Operations | Talks to |
|---|---|---|---|
| Agent broker (`agentbroker/broker.go`, `handle.go`) | the bridge and its lease, requests and their states and deadlines, the queue, receipts, a notify channel, `closed` | `Open`, `Exchange`, `Close` (agent); `Enqueue`, `Wait` (provider); `heartbeatLoop`; `Snapshot`, `Shutdown` | provider, MCP server |
| Agent provider (`provider.go`) | the HTTP server, its snapshot, a handler for each request, a goroutine and a channel for each stream | `Start`, `Close`, chat completions, streaming | broker, protocol |
| Agent protocol (`agentprotocol/`) | none: pure conversions | decode, optimize, encode for the bridge, decode what the agent answers, chunks, assembly | provider, broker |
| Coding service (`coding/`) | one session per repository, pending opens, active operations | `Open`, `Exec`, `Status`, `Close`, `CloseAll` | workspace, tool host |
| Codex tool host (`codextoolhost/`) | persistent processes by id | `Exec`, `Close`, `StopWorkspace`, the watcher of each process | Codex client |
| Codex client (`internal/codex/`) | pending JSON-RPC requests, running commands | `Start`, requests, `StartCommand`, `Stop`, `Close`, the reader loop | app-server process |
| Workspace manager (`workspace/`) | a directory per repository with its metadata | `Prepare`, `Inspect`, `DeleteAt`, maintenance | Git |
| Git safety (`internal/security/git.go`) | safety refs | record before a destructive command, prune | Git |
| Tunnel (`tunnel/`) | the tunnel process, a restart timer | `Start`, `Close`, restart with backoff | child process |
| Service and application (`v2/service`, `app.go`, `workspace_binding.go`) | the running service, the configuration | start, close, reconfigure, delete a workspace | all of the above |
| Configuration store, prompt store, MCP server, credentials, tray | files, registrations | load, save, serve | the application |

What is hard in each, and what must hold:

* **Broker.** An exchange releases the mutex between its turns, so bridges
  close, expire and are replaced, clients leave and requests time out while it
  sleeps. Hard: work of an old bridge must not reach a request of the new one;
  an acknowledged response must be the one completion of its request, and no client may
  be told that such a request failed unless it left or its timer ended the wait; the
  notify channel must not lose a signal; limits and order must survive the change of a bridge;
  and what the heartbeat renews must still end some day.
* **Coding service and tool host.** `Open`, `Close` and `Exec` prepare and wait
  outside their locks. Correct: one session per repository, no operation on a
  session that is closed, no process that outlives its session, and the limit of
  persistent processes.
* **Codex client.** Answers, the loss of the connection, the process's end, timeouts
  and a stop race. Correct: each request ends once, with its own answer or with an
  error; a command is told its exit only when it was reported; nothing of a command
  that is over is alive; the reader is never stuck.
* **Tunnel and application.** Timers fire after what they were set for is gone;
  a service is replaced while it works. Correct: one process per tunnel, none
  after `Close`; no answered update of the access profile lost.
* **Workspaces.** Steps on disk fail one after another, and the branch moves upstream
  meanwhile. Correct: an agent's work is never lost, a session is at the commit its
  caller expects, what a destructive command threw away is in a recovery ref.
* **Provider and protocol.** A result crosses the broker, a goroutine's channel, chunks
  and their encoding while the client leaves or the server closes. Correct: one
  reply, which is the completion the agent was told was accepted or an error, and an
  error only if none was accepted or the handler itself gave the request up; nothing left
  behind; two validations and an optimizer that agree on what a conversation means.

## Modules

| Module | Content |
|---|---|
| `AgentRequest` | the abstract promise: what becomes of one request |
| `AgentBroker` | `broker.go` and `handle.go` |
| `MCAgentBroker` | instances for TLC |
| `ToolHost` | `codextoolhost/host.go`: persistent processes |
| `CodingService` | `coding/service.go`, over `ToolHost` |
| `Tunnel` | `tunnel/client.go`: process, timers, close |
| `AppLifecycle` | `app.go`, `workspace_binding.go`, `v2/service`: services and what replaces them, over `Tunnel` |
| `CodexClient` | `codex/client.go`: requests, the reader, the wait for the process, `Close` |
| `CommandLife` | the abstract promise: what becomes of one command |
| `CodexCommand` | `codex/command.go`: one command from `StartCommand` to its answer, over `CodexClient` |
| `GitSafety` | `security/git.go`: recovery refs |
| `Workspace` | `workspace/manager.go`, `maintenance.go`, over `GitSafety` |
| `AgentProtocol` | `agentprotocol/`: the conversions, as operators |
| `AgentProvider` | `provider.go`, over `AgentProtocol` and the promise `AgentRequest` |
| `MCAgentProvider` | instances for TLC |
| `AgentBrokerSafety` | the type invariant, the inductive invariant and the safety theorems of the broker |
| `AgentBrokerQueue` | the theorems on the queue's order and the limit of requests in flight |
| `AgentBrokerPromise` | the theorems on lost wakeups and on the promise of `AgentRequest` |
| `CodingSafety` | the inductive invariant and the theorems of the coding service and the tool host |
| `CodexCommandSafety` | the same of the command and its app-servers, with its refinement of `CommandLife` |
| `LifecycleSafety` | the same of the tunnels, the services and the application |
| `WorkspaceSafety` | the inductive invariant and the theorems of the workspace |
| `AgentProviderSafety` | lemmas about the conversions, the inductive invariant and the theorems of the provider |

Two components have an abstract specification that the detailed one is shown to
implement: the broker (`AgentRequest`, by `KeepsPromise`) and the command
(`CommandLife`, by `IsCommand`). The provider uses the first in place of the broker:
what it may rely on is what the broker was shown to keep, no more. Both
refinements are proved, and so is `WithinPromise`: all that the provider and its clients
make happen to a request is what `AgentRequest` allows.

### `AgentBroker`

*Time.* A deadline is the number of ticks left before it passes; `Tick` lets
one go by. Nothing forces a tick, so any delay of a goroutine is included.

*Atomicity.* One mutex guards the broker, so `Open`, `Close`, `Enqueue`,
`Snapshot`, `Shutdown`, a heartbeat and the parts of `Wait` are one action each.
`Exchange` is a loop with a program counter, `call[e].pc`: `enter` and `again`
are before the next turn, `respond`, `redeliver` and `claim` are inside the
critical section, `wait` is the `select`. Inside the critical section each
element of a list (a response, a request in flight, the head of the queue) is an
action of its own, and `LockFree` keeps every other operation out; this changes
no behaviour and keeps each action as small as the code it stands for.

*Sweep.* `expireRequestsLocked` and `expireBridgeLocked`, with which nearly all
operations begin, are the `Swept...` operators, and part of those operations.

*Data.* A request is its number, in the order of creation. A completion is a
model value, `ToolCalls` those with that finish reason; what an agent sends is
unreadable, unfit for the conversation, or fit. An agent names only requests it
was handed. Progress items renew a deadline. `CLAIMED` is entered and left in
one critical section and does not appear; `CANCELED` is never assigned. Requests
created at the same instant are ordered by id in the code and by number here.
Branches that no state can take (a deadline that has passed right after the
sweep) are left out.

*External.* The agent and the HTTP clients are unconstrained: any operation, any
time.

### `ToolHost` and `CodingService`

*Calls.* A call of the MCP server is a goroutine, `call[c]`. Calls are numbered
as they arrive (`Arrives`), which is no restriction and spares TLC their
permutations; `NumCalls` bounds them. An opening, the session it creates, an
operation and the process it starts have the number of their call, so the
pointers that the code compares (`s.opening[key] == opening`,
`s.sessions[id] == record`, `r.done == done`) are numbers here.

*Atomicity.* Each critical section of the service's mutex is an action; Go's
`defer` in `Open` is one of its own (`OpenLeave`), so is `finish` in `Exec`. What
a call does inside the host is `task[c]`: the host has its own mutex, its steps
are the operators of `ToolHost`, and `CodingService` composes them by entering
the host (`HostStart`, `HostStop`, `HostStopWorkspace`, `HostClose`) in the step
in which the service calls it and leaving it when the task has returned.

*Processes.* `launched` is a process between `StartCommand` and its insertion in
`Host.processes`; `gone` one that was discarded or pruned. `alive` says that its
handle is not done; stopping a handle makes it so, even when the release of the
process tree reports an error. A process may end by itself at any time, a wait
may time out at any time.

*Close that timed out.* The goroutine that `Close` leaves behind takes the same
steps as `Close` itself, so `CloseTimesOut` only records what was answered.

*Left out.* Answers that change nothing: refusals, resume, status. The
preparation of a workspace is a step that succeeds or fails. That a cancelled
preparation may succeed stands for a cancellation that comes after its last Git
command.

### `Tunnel` and `AppLifecycle`

*Managers.* Every critical section of `Manager.mu` is an operator that takes the
manager's record and gives the next one, or the set of those possible (a launch may fail); the
actions apply it. Of restart tokens only equality with the current one matters,
so the manager knows whether a timer is `armed` with it and how many are
`stale`. A process is `exited` between its end and the critical section of
`wait`. There is one manager for each service, numbered with it.

*Services.* A service is created by `NewDefault` and `Start` in one step, since
nobody else has it yet; it takes the ports, which another service must not
have, and starts its tunnel. `Close` is a sequence of steps under `lifecycleMu`
(`lock`): the tunnel, by `Manager.Close`, which kills and waits or gives up, then
everything else. Whoever else closes the service waits for the mutex and finds it
closed.

*Calls.* A call of the application's methods is `op[c]`, its program counter
the steps of `reconfigure` with each of its failures: refusal, the old service's
close, the write of the file, creation and start of the next service, its cleanup, the
rollback, the restart, and for a tunnel's credential the write before and the
restoration after. `DeleteWorkspace` is the same with the deletion in place of
the write. The updates of a policy are one step under `lifecycleMu`; the setters
of the coding service accept whatever the configuration accepts, so their failure
is left out. `shutdown` and the goroutine that waits for the context of `Start`
close services beside them, at any time.

*Overlapping calls.* The page disables its controls while a call is under way
(`frontend/src/App.tsx`), `reconfigureMu` covers the rest except the credential
and `UpdateCodexRemoteGitRewrite`. Calls overlap in the model; `overlap` records
that they did, for the one property that cannot hold then. `broken` records that
undoing failed. `AccessKept` is about the access profile, whose update takes
`reconfigureMu`. An update of the Git rewrite setting does not, and one that falls
between the `Load` of a reconfiguration (app.go:361) and its save is overwritten: the
model has no such setting, and no property covers it.

### `CodexClient` and `CodexCommand`

*Client.* A client is a record, and what its goroutines do is an operator on it: the
reader of the standard output, the goroutine of `cmd.Wait`, `Close` step by step with
the release of the job object before it. `box[id]` is the buffered channel of a
request: `dispatch` takes the request out of `pending` and sends, which blocks when the
channel is full; `failPending` takes all of them and does not block. The app-server is
the environment: it answers in any order, well, badly or not at all, may end at any
time, and `MaxFaults` times does something it should not (an answer twice, an unknown
notification, a line that is no JSON, one beyond the scanner's 8 MiB).

*Command.* One goroutine makes the requests one after the other, so `step` and `asking`
are its program counter: a home of its own, the start, `initialize`, the job object,
whether the sandbox is ready, its set-up and the second server that replaces the first,
the command. Each step may fail where the code looks at an error. A request ends by its
answer, the end of the process, or its timer; `command/exec` has no timer. `Stop` by
the tool host and the end of the context come at any time.

*Left out.* The log of the standard error, requests of the server (answered with an
error), the environment and the parameters of the command. Writing a request to the
app-server takes no time in the model and ends; in the code a write to a process that
does not read its input can block, past the end of its context, until `Stop` or `Close`
kills the process tree, and the liveness properties say nothing of that. A close of the
scope that fails in `releaseProcessTree` is not modelled. What a goroutine still does
for a client that was closed and waited for is not followed: nobody sees it.

### `GitSafety` and `Workspace`

*Commits.* A commit is the set of the changes in its history: an ancestor is a subset,
and work is lost when its change is in no branch and no working tree any more. Objects
that only the reflog holds count as lost.

*Steps.* Each Git command of `Prepare` is an action, and after each the call may end
(`Fails`): because Git fails, the caller gives up, or CWapi ends. A Git process that is
killed leaves a clone that no `Prepare` accepts (`Partial`), or, killed while fetching,
one without a commit that the next `Prepare` repairs (`Unborn`), or an index that does
not match; `os.WriteFile` leaves half of the metadata. The service admits one call to a workspace at a time, so between the
steps only the upstream repository moves, which includes the rewriting of a branch.

*Session.* Between two openings the agent edits and runs commands, the kinds that
`NeedsGitRecovery` tells apart and what they do to branches, tree and index; a ref is
made before those that destroy. `age` counts the refs made since work was thrown away.

*Left out.* `Inspect` and `Index` only read. Untracked files and `branch -D` are not
part of `DiscardsKept`: the stash does not hold the first, and the snapshot before the
second is of `HEAD`. The clock that names the refs is taken to go forward. Which
command lines and paths are admitted is parsing. A resume that names an
`expected_commit` compares it with the commit of the metadata and can only refuse more:
in the model a resume names none.

### `AgentProtocol` and `AgentProvider`

*Data.* A JSON text is one of a few values that the conversions tell apart (the
canonical text of a value, another text of the same value, the value itself, no JSON at
all, parts of text, parts with an image), and each conversion is modelled by what it
does to them: canonicalization, the defaults for what is missing, the empty fields that
an encoder leaves out and a decoder reads as empty.

*Handlers.* A client is one request: its handler reads, decodes, optimizes and
enqueues, then waits itself or, for a stream, in a goroutine that puts the result in a
channel. What handlers share are the broker and the server, and the broker's promise is
for each request by itself, so one client meets all of it. `Close` is a sequence of
steps: the broker, then `server.Shutdown`, which waits for the handlers or gives up.

*Left out.* Authorization, `/v1/models`, sizes. A write to a client is assumed to end.
What the agent has read is forgotten, so that requests fall together again.

## Runs

| Run | Bounds | Shows |
|---|---|---|
| `broker_calls` | 1 request, 2 bridges, 2 exchanges, 2 completions | `TypeOK`, `BridgeInv`, `NoLostWakeup`, `ReceiptSound`, `AcknowledgedIsResult`, `KeepsPromise` |
| `broker_batches` | 3 requests, 2 bridges, 1 exchange, 2 in flight, batches of 2 bytes with one request of 2 | `QueueFIFO`, `NoOvertaking`, `InflightBounded` |
| `broker_liveness` | 1 request, 2 bridges, 1 exchange | `ExchangeReturns`, `OrphanAnswered` |
| `coding_calls` | 5 calls on 1 repository, 1 process running, 1 record kept | `TypeOK`, `OwnerExists`, `OneOperation`, `NoOrphan`, `CleanClose`, `ClosingEnds`, `CloseEndsProcesses` |
| `coding_owner` | the same | a violation of `OneSession` |
| `lifecycle_tunnel` | 1 call, 3 services with a tunnel, 1 restart | `TypeOK`, `OneTunnel`, `Supervised`, `KeyMatchesTunnel`, `CancelStopsAll` |
| `lifecycle_calls` | 2 calls, 5 services without a tunnel | `NoStray`, `AccessKept`, `CallsEnd` |
| `lifecycle_runtime` | 1 call, 3 services with a tunnel | a violation of `RuntimeRestored` |
| `codex_calls` | 1 command, up to 2 servers, 1 misbehaviour, room for 1 notification | `TypeOK`, `OneServer`, `ReaderFree`, `IsCommand`, `EndsWhenTold` |
| `workspace_calls` | 2 branches, 1 change by others, 1 by the agent, 2 refs kept | `TypeOK`, `DiscardsKept`, `WorkKept`, `ExpectedOpened` |
| `workspace_stranded` | nobody changes anything | a violation of `NeverStranded` |
| `provider_calls` | 1 client, every conversation of up to 3 of 17 messages, every choice of tools and format, 23 answers | `TypeOK`, `Delivered`, `NeverUnconvertible`, `WordsKept`, `Released` |

*Why the bounds are enough.* Broker: races over one request need two exchanges, two
completions to disagree about and a second bridge; requests do not influence
each other except through the queue, the limits and the batch, and those need
three requests: one in flight, one too large for the rest of the batch, one
behind it. Timeouts of one tick and a lease of two keep the order
`WaitTimeout < BridgeLease` that `New` enforces. Receipts and deadlines both
expire within a run. Coding: five calls are a session with a process, its close,
and a second session or `CloseAll`; sessions of different repositories share
only the process limit. One process at a
time and one record make the limit and the pruning happen. Application: a call
needs at most two services beside the one that runs (the next, and the one
rebuilt when that fails), so with `n` calls `1 + 2n` are all there can ever be. One
call meets every race of tunnels, since services succeed each other one by one;
two meet over the mutex, the file and the published service, where a tunnel adds
nothing. One restart in place of three reaches the limit. Codex: a command has a home
of its own, so commands do not meet; it starts at most two servers and makes at most
three requests of each. Workspace: workspaces do not meet either; two branches give a
target that changes and a branch to leave work in, one change of each kind tells lost
from kept, and two refs prune. Provider: three messages are two neighbours and what
comes before, and two calls in one message reach the order of their chunks.

*Fairness* (`FairSpec`). Broker: time passes and the ticker of `heartbeatLoop` fires; a
goroutine that asks for the mutex again and again gets it (Go's mutex does not
starve a waiter), and a `select` with a ready case takes one. Nothing is assumed
of agents and HTTP clients: opening, closing, polling and disconnecting may stop
at any moment. Coding: a call that has begun goes on (a foreground command ends by
its timeout of at most ten minutes, the start of a command by the timeouts of the
app-server's requests, a wait for a stop after five seconds), and the watcher of
a process whose handle is done runs. Nobody has to call, and no process has to
end by itself. Application: a call that has begun and a `Close` go on, because every
wait of theirs has a deadline of a few seconds, and the goroutine waiting for the
context wakes up. Codex: the goroutines run and the timers of all requests but the command's
fire; the app-server need neither answer nor end. Provider: handlers, the goroutine of
a stream and `Close` go on, and the reading of a request ends once its client has left.
The agent, the clients and the deadline are not fair: the heartbeat may move a deadline
for ever. `workspace_calls` needs no fairness, it checks what a step may not do.

*What the violations say.* `OneSession`: the cleanup that `Open` defers
removes the marker `<opening>` of its repository whoever put it there; a close of
the session just registered and the reservation of the next `Open` fit between
the registration and the cleanup, after which two `Open`s prepare the same
workspace and both get a session. `RuntimeRestored`: a change of the tunnel writes the
key, reconfigures, and puts the key back when that failed; but a failure after the
old service was closed has by then rebuilt a service, which read the new key
(or, after a disconnection, none). It runs with the old tunnel id and the wrong
key until the next restart. `NeverStranded`: when a first open fails between the clone
and the metadata, the clone is there with an empty index and without metadata. The next
open takes it for dirty, a resume finds no metadata, and a deletion refuses what has
none: with nothing of anybody's in it, it can only be removed by hand.

*Other disagreements* met while reading, which have no run. The guide says of 504 that
"The request did not receive a completed Web GPT response before its deadline"
(docs/AGENT_GUIDE.md:284). In `Wait` (handle.go:43-60) the timer and the completion may
be ready together, or a heartbeat renews the deadline and the completion lands between
`currentDeadline` (line 52) and `terminateAndForget` (line 59): the agent is told
`completed` and the client `AGENT_REQUEST_TIMEOUT`. Both models contain it, as
`TimerFires`, `Heartbeat`, `Accept`, `GiveUp` in `AgentBroker` and as `WaitTimesOut` or
`WaiterTimesOut` on a settled promise in `AgentProvider`; `AcknowledgedIsResult` and
`Delivered` name it as their exception and say that there is no other, apart from a
client that left. The documents promise 504
after 180 seconds, but the heartbeat renews the deadline of every active request of an
open bridge, also of one still in the queue, and renews the lease with it. The agent's
guide promises that an equal response may be sent again, but the receipt names the
bridge, and over the next bridge the same response is `AGENT_RESPONSE_CONFLICT`. The
number of running persistent processes is looked at before a process is started and not
again when it is inserted. That nothing is under way before a reconfiguration is a look
at a snapshot, and remote calls are admitted until the close. The guide says that
unknown top-level fields are rejected (docs/AGENT_GUIDE.md:77), `DecodeRequest` ignores
them. It says that an exchange is acknowledged at once when no response has tool calls
(docs/AGENT_GUIDE.md:129); one whose `finish_reason` is `tool_calls` and that has none
keeps it waiting.

## Proofs

The proofs about the broker hold for every number of requests, bridges, exchanges and
completions, and every configuration that satisfies `ConfigAssumption`, which is
what `New` establishes by replacing or clamping each value. `BoundsAssumption`
says that the bounds are naturals and `PayloadsAssumption` that "no completion"
is not one.

`AgentBrokerSafety` proves `TypeCorrect`, and then

    IInv == TypeOK /\ BridgeInv /\ ResultInv

inductive, where `BridgeInv` is `BridgeBinding`, `HolderIsCurrent` and
`ClosedIsQuiet`, and `ResultInv` is `ReceiptSound` with the facts that make it
and `AcknowledgedIsResult` inductive: a completion is there only once its
request is settled (`ResultSettled`), so that nothing can replace it; what
was acknowledged is a completion (`Acknowledged`); and, on the side of the client
(`ClientTold`), `Wait` returns as it forgets the request and never reports a request
with a completion as failed, unless the client left or its timer ended the wait.
The three parts of `BridgeInv` need each other: a claim binds a request to the bridge its exchange
captured, which is the open one because of `HolderIsCurrent`, which holds after
the turn's check because no other operation runs while the mutex is held. The
argument for `ResultInv` is one lemma per direction: `RequestSteps` says what a
step may do to one request, `VerdictSteps` what it may add to the verdicts of an
exchange, `ToldSteps` what it may tell a client. `EndsOnce` follows from the first.

`AgentBrokerQueue` extends it with

    QInv == IInv /\ StartInv /\ InboxesKnown /\ QueueInv

where `QueueInv` is `QueueFIFO`, `NoOvertaking` and `InflightBounded`, and
`StartInv` says where a request comes from: the numbers are used upwards, a
client waits only for a request that was enqueued, and what is in flight was
delivered. `InboxesKnown` says that an agent answers only what it was handed,
without which a retry could put an undelivered request in flight. `StepKinds`
sorts every step by what it does to the queue (leave it alone, skip the head,
claim the head, append, forget a request), and there is one lemma for each kind.
The limit is the least obvious part: the code counts the requests in flight *of
its own bridge*, and `InflightBounded` bounds them over all bridges; under the
mutex the two are the same set, by `BridgeBinding` and `HolderIsCurrent`.

`AgentBrokerPromise` extends it once more with

    PInv == QInv /\ BatchInv /\ NoLostWakeup /\ AnswerInv

and proves `NoLostWakeup` and the refinement `KeepsPromise`. Why an exchange that sleeps
has left no request behind is an argument about `nextBatchLocked`: `BatchInv` says that a
batch which redelivered nothing found nothing in flight (`NothingToRedeliver`: an empty
batch has room for the oldest request, and there is an oldest one), so that the claims
which follow are not stopped by the limit or by the room. Only then does every later
step that makes a request wait, or changes the bridge, have to signal, and `WakeupNext`
goes through them. `AnswerInv` ties what a client was answered to the state of its
request; with it each step of the broker is, for each request, a step of `AgentRequest`
or none (`PromiseSteps`).

`CodingSafety` holds for any number of calls, any set of repositories and any limits
that satisfy `HostAssumption` (at least one persistent process, and a name for nothing
that names something else). It proves

    CodingInv == TypeOK /\ ServiceInv /\ RunningInv

inductive. `ServiceInv` is about the two mutexes: `SessionInv` that a session is created
once and leaves only when it is closing, `CallInv` what a call relies on between two
critical sections, `ClosingInv` that a `Close` which waits does so for the operation
there is, without which an operation could begin after the look at it. `RunningInv`
is about processes: `ProcessInv` that a process runs in the workspace of the session of
the `Exec` that started it, `StopInv` that a `Close` which goes through the processes of
its session has each of those that live still before it. `NoOrphan` and `CleanClose`
rest on both: nothing is added to what a `Close` has listed because the session has no
operation any more.

`CodexCommandSafety` holds for any number of misbehaviours of the app-servers and any
capacity for notifications. It proves

    CommandInv == TypeOK /\ ClientsInv /\ PlaceInv /\ RequestInv /\ TreeInv /\ ExitInv

inductive, and from it `OneServer`, `ReaderFree` and the refinement `IsCommand`.
`ReaderFree` is why a channel of one is enough: a request that is still pending was told
nothing (`BoxOK`), whatever the server repeats, because `dispatch` takes it out before
it sends. That an exit which is reported was told by the server needs `PipeOK`: a second,
different answer to a request is always behind the first in the pipe. `PlaceInv` says
that the first server is gone, and what it started with it, before there is a second;
`TreeInv` that whatever lives is in the job object that `Close` ends, which is what lets
a step of `CommandLife` say that nothing is alive when the caller is told so.

`LifecycleSafety` holds for any number of calls, of services (at least the `1 + 2n` that
`n` calls can need), of tunnel ids and of restarts. It proves

    LifecycleInv == TypeOK /\ ServiceInv /\ CallInv /\ DiskInv /\ KeyInv

inductive, and from it `OneTunnel`, `Supervised`, `NoStray`, `AccessKept` and
`KeyMatchesTunnel`. `ServiceInv` has one part for a manager (`ManagerOK`: what runs is
its process or the one that `Close` took from it, and there is no timer that counts beside
it) and one for a service and its manager (`ServiceOK`); its point is the order in
`Service.Close`, where the ports are given up after the tunnel. That makes ports a lock:
a successor listens only when its predecessor does not, and so only when the predecessor's
tunnel is gone or its `Close` has reported that it is not, from which `OneTunnelHolds`
follows over all services although no two managers know of each other. `CallInv` says
what the call that has `reconfigureMu` relies on (`HolderOK`), although `shutdown` and
the end of the context close services without it. `DiskInv` lets the file differ from
the service of the application only while a call is replacing that service after its
close; this is why `UpdateCodexRemoteGitRewrite`, which does not take the mutex, cannot
lose an access profile: `Usable` refuses it then. `KeyInv` follows the key through each
failure of a change. The lemmas come in three layers: what an operation does to a
manager, what a step does to the services, and what a step of a call does to the
invariant (`CallerNext`, `ArrivalNext`) or of anything else (`ServicesNext`).

`WorkspaceSafety` proves all four properties of the run `workspace_calls`, for any set
of changes that others publish or the agent makes, and any limit of recovery refs that
satisfies `SafetyAssumption` (there is one). It proves

    WInv == Typed /\ Placed /\ Passing /\ Agreed /\ RefInv

inductive. None of the properties is inductive by itself, because `Prepare` decides in
one step what a later one relies on. `Placed` says that only a whole clone is worked in
and that nothing is held elsewhere, so that what `Clone` overwrites is nothing;
`Passing` is what the ancestor tests of the fetches leave true until the checkout: a
detached head, the only place a checkout can lose work from, has nothing that a branch
upstream has not. `Agreed` carries the commit that the caller expects from the fetch to
the metadata: the branch may move upstream meanwhile, but the tracking branch does not.
`RefInv` says where the ref is that holds what was discarded: no further from the end
than the number of refs made since, from which pruning by a limit cannot take it, as
`PrunedRef` shows, though a ref whose command never ran counts too. `WorkKeptHolds` then
goes through the steps of `Prepare` one by one.

`AgentProviderSafety` holds for any number of clients, conversations, tools, calls and
answers of any length. `ProviderAssumption` says of what is sent only that it has the types
that reading JSON gives (`RawRequestRecords`, `RawAnswers`), and that calls come with their
`tool_calls`. It begins with what the conversions do:

* `KeptSteps` and `AllPlaced` follow the optimizer through a conversation: every message has
  a place among those kept, moves on by one from its neighbour's or shares it, and only when
  it is of a kind that may. `OptimizerKeepsWords` and `OptimizerEncodable` follow, the second
  being why two validations with different rules agree. The library's induction takes a
  predicate, which no prover here instantiates; `UpTo` is induction for a set instead, by
  its least counterexample.
* `CompletionCanonical`, `BodyHeard` and `ChunksAssemble` say that what the agent answered
  survives its encoding, as a body or as chunks: the indexes of the calls are `0 .. n - 1`,
  each with one fragment, and the assembler's sort gives them back in their order.

With them it proves

    ProviderInv == Shapes /\ ServerOK /\ (\A c : Stage of c) /\ (\A c : AskedOK of c)

inductive. `Stage` says what a client's promise, handler, goroutine, and what it was sent
have to do with each other; its heart is `Written`: what the client has got and what the
handler still has to write are the two ends of one of the `Scripts` that the answer and
its completion allow, with a gap between them only after the client has left. `Delivered` is then a fact about
scripts, `NeverUnconvertible` one about their events. `AskedOK` is `WordsKept` before the
lemma about the optimizer. `WithinPromise` meets `KeepsPromise` from the other side: the
broker does to a request only what the promise allows, and so does everything in this
module that stands for the broker, the agent and `Close`.

Model-checked only: liveness (`ExchangeReturns`, `OrphanAnswered`, `ClosingEnds`,
`CloseEndsProcesses`, `CancelStopsAll`, `CallsEnd`, `EndsWhenTold`, `Released`), which is
beyond this prover, and the three violations. Every invariant that a passing run checks is
proved, and so are `KeepsPromise`, `IsCommand` and the action properties.

## Not modelled

The MCP server registers tools and is HTTP plumbing around the broker and the coding
service. The prompt store loads texts once. Process launch, job objects, the lookup of
executables, credentials and the tray are calls of the platform without state of their
own; what they can do to their callers (fail, take the process tree along) is in
`CodexClient` and `AppLifecycle`. Of the parts that are modelled, the sections above say
what is left out; of the broker it is what is only reported: revision, idle count,
previous state, resume reason, error details and timestamps.
