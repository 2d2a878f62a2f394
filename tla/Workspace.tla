----------------------------- MODULE Workspace -----------------------------
(***************************************************************************)
(* One durable workspace (internal/v2/workspace): Prepare, which clones or *)
(* synchronises it step by step and writes its metadata last, resume,      *)
(* DeleteAt, and between them the session that works in it.                *)
(*                                                                         *)
(* A commit is the set of the changes in its history (see GitSafety). The  *)
(* coding service lets nobody else in while Prepare runs, so between its   *)
(* steps only the upstream repository moves; but every step may be the     *)
(* last, because Git fails, the caller gives up or CWapi ends, and a Git   *)
(* process that is killed leaves its work half done.                       *)
(***************************************************************************)
EXTENDS GitSafety, FiniteSets

CONSTANTS
  Upstreams,  \* changes that others may publish
  Works       \* changes that the agent may make

Branches == {"main", "dev"}
Changes == {"root"} \cup Upstreams \cup Works
None == {}
Commits == SUBSET Changes

VARIABLES
  upstream,  \* the branches of the repository on GitHub
  repo,      \* the clone in the container
  meta,      \* workspace.json
  call,      \* where Prepare is, or the session
  age        \* age[w]: refs created since a command discarded w

vars == <<upstream, repo, meta, call, age>>

\* index: "empty" in a clone that was never checked out, "torn" after a checkout
\* that was killed. edits: changes to tracked files that were not committed.
Repos ==
  [state : {"none", "partial", "whole"}, on : Branches \cup {"detached"}, at : Commits,
   local : [Branches -> Commits], tracking : [Branches -> Commits],
   index : {"empty", "torn", "clean"}, edits : SUBSET Works, refs : Seq(Commits)]
NoRepo ==
  [state |-> "none", on |-> "main", at |-> None,
   local |-> [b \in Branches |-> None], tracking |-> [b \in Branches |-> None],
   index |-> "empty", edits |-> {}, refs |-> <<>>]
Metadata == [kind : {"none", "invalid", "valid"}, target : Branches, resolved : Commits]
NoMeta == [kind |-> "none", target |-> "main", resolved |-> None]
Calls ==
  [step : {"idle", "clone", "previous", "fetch", "checkout", "merge", "track", "save", "open"},
   target : Branches, expect : Commits, fresh : BOOLEAN]
Idle == [step |-> "idle", target |-> "main", expect |-> None, fresh |-> FALSE]

TypeOK ==
  /\ upstream \in [Branches -> Commits]
  /\ repo \in Repos /\ Len(repo.refs) <= MaxSafetyRefs + 1
  /\ meta \in Metadata /\ call \in Calls
  /\ age \in [Works -> 0 .. MaxSafetyRefs]

Init ==
  /\ upstream = [b \in Branches |-> {"root"}]
  /\ repo = NoRepo /\ meta = NoMeta /\ call = Idle
  /\ age = [w \in Works |-> MaxSafetyRefs]

-----------------------------------------------------------------------------
HeadOf(r) == IF r.on = "detached" THEN r.at ELSE r.local[r.on]
Dirty(r) == r.index # "clean" \/ r.edits # {}

\* ensureNoLocalCommits: current is at or behind remote.
BugNoLocalCommits(current, remote) == TRUE
NoLocalCommits(current, remote) == current \subseteq remote

At(s) == call.step = s
To(s) == call' = [call EXCEPT !.step = s]

\* Prepare without resume: what is there must be whole and clean.
Begin ==
  /\ At("idle")
  /\ repo.state = "none" \/ (repo.state = "whole" /\ ~Dirty(repo))
  /\ \E b \in Branches : \E e \in {None, upstream[b]} :
       call' = [step |-> IF repo.state = "none" THEN "clone"
                         ELSE IF HeadOf(repo) # None /\ meta.kind = "valid" /\ meta.target # b
                         THEN "previous" ELSE "fetch",
                target |-> b, expect |-> e, fresh |-> repo.state = "none"]
  /\ UNCHANGED <<upstream, repo, meta, age>>

\* Any step may fail, or be the last before a crash, and leave what is there.
Fails ==
  /\ call.step \notin {"idle", "open"} /\ call' = Idle
  /\ UNCHANGED <<upstream, repo, meta, age>>

Clone ==
  /\ At("clone") /\ To("fetch")
  /\ repo' = [NoRepo EXCEPT !.state = "whole", !.tracking = upstream, !.local["main"] = upstream["main"]]
  /\ UNCHANGED <<upstream, meta, age>>

\* Git removes a clone that fails, but not one that is killed: before it knows its
\* origin no Prepare takes it for the repository; afterwards, while it fetches, it
\* has no commit yet, which is clean, and the next Prepare goes on with it.
Partial == [NoRepo EXCEPT !.state = "partial"]
Unborn == [NoRepo EXCEPT !.state = "whole", !.index = "clean"]
CloneKilled ==
  /\ At("clone") /\ call' = Idle
  /\ repo' \in {Partial, Unborn}
  /\ UNCHANGED <<upstream, meta, age>>

\* The commit that the caller expects, if any, is the one that was fetched.
BugExpected(resolved) == call.expect \in {None, resolved, repo.tracking[call.target]}
Expected(resolved) == call.expect \in {None, resolved}

\* fetchAndResolve, which may find a branch that has been rewritten.
Fetched(b) == [repo EXCEPT !.tracking[b] = upstream[b]]

\* Another target than last time: nothing may be left behind that the last one has
\* not got upstream.
FetchPrevious ==
  /\ At("previous")
  /\ repo' = Fetched(meta.target)
  /\ IF NoLocalCommits(HeadOf(repo), upstream[meta.target]) THEN To("fetch") ELSE call' = Idle
  /\ UNCHANGED <<upstream, meta, age>>

SameTarget == ~call.fresh /\ (meta.kind # "valid" \/ meta.target = call.target)
FetchTarget ==
  LET resolved == upstream[call.target]
  IN  /\ At("fetch")
      /\ repo' = Fetched(call.target)
      /\ IF /\ Expected(resolved)
            /\ SameTarget => NoLocalCommits(HeadOf(repo), resolved)
           THEN To("checkout") ELSE call' = Idle
      /\ UNCHANGED <<upstream, meta, age>>

\* checkoutTrackingBranch. Checkout fills the index of a new clone.
Resolved == repo.tracking[call.target]
Local == repo.local[call.target]
OnTarget == [repo EXCEPT !.on = call.target, !.at = None, !.index = "clean"]
Checkout ==
  /\ At("checkout")
  /\ \/ /\ Local # None /\ NoLocalCommits(Local, Resolved)
        /\ repo' = OnTarget
        /\ To(IF Local = Resolved THEN "track" ELSE "merge")
     \/ /\ Local # None /\ ~NoLocalCommits(Local, Resolved)
        /\ call' = Idle /\ UNCHANGED repo
     \/ /\ Local = None
        /\ repo' = [OnTarget EXCEPT !.local[call.target] = Resolved]
        /\ To("track")
  /\ UNCHANGED <<upstream, meta, age>>

FastForward ==
  /\ At("merge") /\ Local \subseteq Resolved /\ To("track")
  /\ repo' = [repo EXCEPT !.local[call.target] = Resolved]
  /\ UNCHANGED <<upstream, meta, age>>

\* A checkout or merge that is killed has changed some files and not the index.
SyncKilled ==
  /\ call.step \in {"checkout", "merge"} /\ call' = Idle
  /\ repo' = [repo EXCEPT !.index = IF @ = "empty" THEN "empty" ELSE "torn"]
  /\ UNCHANGED <<upstream, meta, age>>

\* The upstream of the branch is set and everything is looked at once more.
AsAsked == HeadOf(repo) = Resolved /\ ~Dirty(repo) /\ repo.on = call.target
Track ==
  /\ At("track")
  /\ IF AsAsked THEN To("save") ELSE call' = Idle
  /\ UNCHANGED <<upstream, repo, meta, age>>

\* saveMetadata writes the file in place: a crash leaves half of it.
Valid == [kind |-> "valid", target |-> call.target, resolved |-> Resolved]
Save ==
  /\ At("save")
  /\ meta' = Valid /\ To("open")
  /\ UNCHANGED <<upstream, repo, age>>
SaveTorn ==
  /\ At("save") /\ call' = Idle
  /\ meta' = [NoMeta EXCEPT !.kind = "invalid"]
  /\ UNCHANGED <<upstream, repo, age>>

\* Prepare with resume reads only.
Resumes(b) == repo.state = "whole" /\ HeadOf(repo) # None /\ meta.kind = "valid" /\ meta.target = b
Resume ==
  /\ At("idle")
  /\ \E b \in Branches : Resumes(b) /\ call' = [Idle EXCEPT !.step = "open", !.target = b]
  /\ UNCHANGED <<upstream, repo, meta, age>>

\* DeleteAt, and what it may leave when a file cannot be removed.
Deletable == meta.kind = "valid"
Delete ==
  /\ At("idle") /\ Deletable
  /\ \/ repo' = NoRepo /\ meta' = NoMeta
     \/ repo' = Partial /\ meta' \in {meta, NoMeta}
     \/ repo' = NoRepo /\ meta' = meta
  /\ age' = [w \in Works |-> MaxSafetyRefs]
  /\ UNCHANGED <<upstream, call>>

Prepare ==
  \/ Begin \/ Fails \/ Clone \/ CloneKilled \/ FetchPrevious \/ FetchTarget
  \/ Checkout \/ FastForward \/ SyncKilled \/ Track \/ Save \/ SaveTorn \/ Resume

-----------------------------------------------------------------------------
(***************************************************************************)
(* The session: the agent edits, and has Git commands run.                 *)
(***************************************************************************)
InUse == UNION ({repo.edits, HeadOf(repo), Kept(repo.refs)}
                \cup {repo.local[b] : b \in Branches} \cup {repo.tracking[b] : b \in Branches}
                \cup {upstream[b] : b \in Branches})
Edit ==
  /\ At("open")
  /\ \E w \in Works \ InUse : repo' = [repo EXCEPT !.edits = repo.edits \cup {w}]
  /\ UNCHANGED <<upstream, meta, call, age>>

\* What a command makes of the repository.
MoveHead(r, c) == IF r.on = "detached" THEN [r EXCEPT !.at = c] ELSE [r EXCEPT !.local[r.on] = c]
Commit == [MoveHead(repo, HeadOf(repo) \cup repo.edits) EXCEPT !.edits = {}]
Restored == [repo EXCEPT !.edits = {}, !.index = "clean"]
ResetTo(c) == [MoveHead(repo, c) EXCEPT !.edits = {}, !.index = "clean"]
Resets == {ResetTo(repo.tracking[b]) : b \in {d \in Branches : repo.tracking[d] # None}}
CheckedOut(b, edits) == [repo EXCEPT !.on = b, !.at = None, !.edits = edits, !.index = "clean"]
DetachedHead == [repo EXCEPT !.on = "detached", !.at = HeadOf(repo)]
Checkouts ==
  {DetachedHead} \cup
  {CheckedOut(b, edits) : b \in {d \in Branches : repo.local[d] # None}, edits \in {repo.edits, {}}}
Deletions == {[repo EXCEPT !.local[b] = None] : b \in Branches \ {repo.on}}
Effects(command) ==
  CASE command = "commit" -> {Commit}
    [] command = "reset" -> Resets
    [] command = "restore" -> {Restored}
    [] command = "checkout" -> Checkouts
    [] command = "branch" -> Deletions

\* What is in no branch and no working tree any more.
Held(r) == UNION ({r.edits, HeadOf(r)} \cup {r.local[b] : b \in Branches})
Discarded(r, stashed) == Saved(HeadOf(repo), repo.edits, stashed) \ Held(r)

\* Before runs first: it leaves a ref, writes its metadata, and prunes.
Recovered(stashed) == Append(repo.refs, Saved(HeadOf(repo), repo.edits, stashed))
Older(w) == IF age[w] < MaxSafetyRefs THEN age[w] + 1 ELSE age[w]
WithRef(r, stashed) == [r EXCEPT !.refs = Pruned(Recovered(stashed))]
Aged(command, r, stashed) ==
  [w \in Works |->
     IF command \in {"checkout", "reset", "restore"} /\ w \in Discarded(r, stashed) THEN 0
     ELSE IF NeedsGitRecovery(command) THEN Older(w) ELSE age[w]]
RunGit ==
  /\ At("open")
  /\ \E command \in Commands, stashed \in BOOLEAN :
       \E r \in Effects(command) :
         /\ r # repo
         /\ repo' = IF NeedsGitRecovery(command) THEN WithRef(r, stashed) ELSE r
         /\ age' = Aged(command, r, stashed)
  /\ UNCHANGED <<upstream, meta, call>>

\* The metadata of a ref cannot be written: the command does not run, but the ref is
\* there. One such ref too many is let in.
Unrecorded ==
  /\ At("open") /\ Len(repo.refs) <= MaxSafetyRefs
  /\ \E stashed \in BOOLEAN : repo' = [repo EXCEPT !.refs = Recovered(stashed)]
  /\ age' = [w \in Works |-> Older(w)]
  /\ UNCHANGED <<upstream, meta, call>>

Push ==
  /\ At("open") /\ repo.on # "detached"
  /\ upstream[repo.on] \subseteq HeadOf(repo) /\ upstream[repo.on] # HeadOf(repo)
  /\ upstream' = [upstream EXCEPT ![repo.on] = HeadOf(repo)]
  /\ repo' = [repo EXCEPT !.tracking[repo.on] = HeadOf(repo)]
  /\ UNCHANGED <<meta, call, age>>

Close == At("open") /\ call' = Idle /\ UNCHANGED <<upstream, repo, meta, age>>

\* Others publish a change, or rewrite a branch.
Published == UNION {upstream[b] : b \in Branches}
Moves ==
  /\ \E b \in Branches, u \in Upstreams \ InUse :
       upstream' \in {[upstream EXCEPT ![b] = upstream[b] \cup {u}], [upstream EXCEPT ![b] = {"root", u}]}
  /\ UNCHANGED <<repo, meta, call, age>>

Next == Prepare \/ Delete \/ Edit \/ RunGit \/ Unrecorded \/ Push \/ Close \/ Moves

Spec == Init /\ [][Next]_vars

-----------------------------------------------------------------------------
\* Preparing a workspace never loses what an agent has done in it, committed or not,
\* whatever the branches are and wherever Prepare fails: it stays in a branch, in the
\* working tree or in what was fetched.
WorkKept ==
  [][Prepare => Held(repo) \cap Works \subseteq
       UNION ({Held(repo')} \cup {repo'.tracking[b] : b \in Branches})]_vars

\* A caller who names the commit it expects gets a session at that commit or none,
\* however the branch moves upstream while Prepare runs. (A resume compares it with
\* the commit of the last opening, not with HEAD, and is not meant.)
ExpectedOpened ==
  [][At("save") /\ call'.step = "open" => call.expect \in {None, HeadOf(repo)}]_vars

\* Committed or stashed work that a direct command threw away is in a recovery ref
\* until as many refs were created since as are kept.
DiscardsKept ==
  \A w \in Works : age[w] < MaxSafetyRefs => w \in Kept(repo.refs)

\* A whole clone in which no agent has left anything, and whose branches were not
\* rewritten upstream, can be opened, resumed or deleted.
Opens(b) ==
  /\ ~Dirty(repo)
  /\ NoLocalCommits(HeadOf(repo), upstream[IF meta.kind = "valid" THEN meta.target ELSE b])
  /\ NoLocalCommits(repo.local[b], upstream[b])
NeverStranded ==
  /\ At("idle") /\ repo.state = "whole"
  /\ Held(repo) \cap Works = {} /\ \A b \in Branches : repo.local[b] \subseteq upstream[b]
  => Deletable \/ \E b \in Branches : Opens(b) \/ Resumes(b)

=============================================================================
