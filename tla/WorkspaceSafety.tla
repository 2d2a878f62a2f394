--------------------------- MODULE WorkspaceSafety ---------------------------
(***************************************************************************)
(* Theorems about Workspace, for any changes of anybody and any number of  *)
(* recovery refs: types first, then where work is while Prepare runs, then *)
(* the recovery refs.                                                      *)
(***************************************************************************)
EXTENDS Workspace, TLAPS, SequenceTheorems

\* The repository, its metadata and the call have their types.
Typed == upstream \in [Branches -> Commits] /\ repo \in Repos /\ meta \in Metadata /\ call \in Calls

LEMMA CommitTypes ==
  /\ {} \in Commits /\ {"root"} \in Commits
  /\ \A c, d \in Commits : c \cup d \in Commits
  /\ \A e \in SUBSET Works : e \in Commits
  /\ \A u \in Upstreams : {u} \in Commits /\ {"root", u} \in Commits
BY DEF Commits, Changes

LEMMA BranchNames == "main" \in Branches /\ "detached" \notin Branches
BY DEF Branches

\* What the steps make of a repository is one.
LEMMA RepoTypes ==
  ASSUME NEW r \in Repos
  PROVE  /\ HeadOf(r) \in Commits
         /\ \A b \in Branches, c \in Commits :
              /\ [r EXCEPT !.tracking[b] = c] \in Repos
              /\ [r EXCEPT !.local[b] = c] \in Repos
         /\ \A c \in Commits : [r EXCEPT !.at = c] \in Repos
         /\ \A i \in {"empty", "torn", "clean"} : [r EXCEPT !.index = i] \in Repos
         /\ \A e \in SUBSET Works : [r EXCEPT !.edits = e] \in Repos
         /\ \A s \in Seq(Commits) : [r EXCEPT !.refs = s] \in Repos
         /\ \A o \in Branches \cup {"detached"}, c \in Commits :
              [r EXCEPT !.on = o, !.at = c] \in Repos
<1>1. HeadOf(r) \in Commits
  BY DEF Repos, HeadOf
<1>2. \A b \in Branches, c \in Commits : [r EXCEPT !.tracking[b] = c] \in Repos
  BY DEF Repos
<1>3. \A b \in Branches, c \in Commits : [r EXCEPT !.local[b] = c] \in Repos
  BY DEF Repos
<1>4. \A c \in Commits : [r EXCEPT !.at = c] \in Repos
  BY DEF Repos
<1>5. \A i \in {"empty", "torn", "clean"} : [r EXCEPT !.index = i] \in Repos
  BY DEF Repos
<1>6. \A e \in SUBSET Works : [r EXCEPT !.edits = e] \in Repos
  BY DEF Repos
<1>7. \A s \in Seq(Commits) : [r EXCEPT !.refs = s] \in Repos
  BY DEF Repos
<1>8. \A o \in Branches \cup {"detached"}, c \in Commits :
        [r EXCEPT !.on = o, !.at = c] \in Repos
  BY DEF Repos
<1> QED
  BY <1>1, <1>2, <1>3, <1>4, <1>5, <1>6, <1>7, <1>8

LEMMA NoRepoType == NoRepo \in Repos
<1>1. <<>> \in Seq(Commits) /\ {} \in SUBSET Works
  OBVIOUS
<1> QED
  BY <1>1, CommitTypes, BranchNames DEF NoRepo, Repos, None

LEMMA KilledTypes == Partial \in Repos /\ Unborn \in Repos
BY NoRepoType DEF Partial, Unborn, Repos

LEMMA TypedInit == Init => Typed
<1>1. NoMeta \in Metadata /\ Idle \in Calls
  BY CommitTypes, BranchNames DEF NoMeta, Metadata, Idle, Calls, None
<1> QED
  BY <1>1, NoRepoType, CommitTypes DEF Init, Typed

LEMMA CallTypes ==
  ASSUME Typed
  PROVE  /\ Idle \in Calls /\ NoMeta \in Metadata
         /\ \A s \in {"idle", "clone", "previous", "fetch", "checkout", "merge", "track", "save", "open"} :
              [call EXCEPT !.step = s] \in Calls
         /\ call.target \in Branches /\ meta.target \in Branches
         /\ repo.tracking[call.target] \in Commits
<1>1. Idle \in Calls /\ NoMeta \in Metadata
  BY CommitTypes, BranchNames DEF Idle, Calls, NoMeta, Metadata, None
<1>2. \A s \in {"idle", "clone", "previous", "fetch", "checkout", "merge", "track", "save", "open"} :
              [call EXCEPT !.step = s] \in Calls
  BY DEF Typed, Calls
<1>3. call.target \in Branches /\ meta.target \in Branches
  BY DEF Typed, Calls, Metadata
<1>4. repo.tracking[call.target] \in Commits
  BY <1>3 DEF Typed, Repos
<1> QED
  BY <1>1, <1>2, <1>3, <1>4

LEMMA PrepareTyped ==
  ASSUME Typed, Prepare
  PROVE  Typed'
<1>c. /\ Idle \in Calls /\ NoMeta \in Metadata
      /\ call.target \in Branches /\ meta.target \in Branches /\ Resolved \in Commits
  BY CallTypes DEF Resolved
<1>s. \A s \in {"idle", "clone", "previous", "fetch", "checkout", "merge", "track", "save", "open"} :
        To(s) => call' \in Calls
  BY CallTypes DEF To
<1>u. upstream \in [Branches -> Commits] /\ repo \in Repos /\ meta \in Metadata
  BY DEF Typed
<1> USE DEF Typed
<1>1. CASE Begin
  <2>1. PICK b \in Branches : \E e \in {None, upstream[b]} :
          call' = [step |-> IF repo.state = "none" THEN "clone"
                            ELSE IF HeadOf(repo) # None /\ meta.kind = "valid" /\ meta.target # b
                            THEN "previous" ELSE "fetch",
                   target |-> b, expect |-> e, fresh |-> repo.state = "none"]
    BY <1>1 DEF Begin
  <2>2. {None, upstream[b]} \subseteq Commits
    BY <1>u, CommitTypes DEF None
  <2>3. call' \in Calls
    BY <2>1, <2>2 DEF Calls
  <2> QED
    BY <1>1, <2>3 DEF Begin
<1>2. CASE Fails
  BY <1>2, <1>c DEF Fails
<1>3. CASE Clone
  <2>1. upstream["main"] \in Commits
    BY <1>u, BranchNames
  <2> DEFINE r == [NoRepo EXCEPT !.state = "whole", !.tracking = upstream]
  <2>2. r \in Repos
    BY <1>u, NoRepoType DEF Repos
  <2>3. repo' = [r EXCEPT !.local["main"] = upstream["main"]]
    BY <1>3 DEF Clone, NoRepo
  <2> HIDE DEF r
  <2>4. repo' \in Repos
    BY <2>1, <2>2, <2>3, RepoTypes, BranchNames
  <2> QED
    BY <1>3, <1>s, <2>4 DEF Clone
<1>4. CASE CloneKilled
  BY <1>4, <1>c, KilledTypes DEF CloneKilled
<1>5. CASE FetchPrevious
  <2>1. upstream[meta.target] \in Commits
    BY <1>u, <1>c
  <2>2. repo' \in Repos
    BY <1>5, <1>u, <1>c, <2>1, RepoTypes DEF FetchPrevious, Fetched
  <2> QED
    BY <1>5, <1>c, <1>s, <2>2 DEF FetchPrevious
<1>6. CASE FetchTarget
  <2>1. upstream[call.target] \in Commits
    BY <1>u, <1>c
  <2>2. repo' \in Repos
    BY <1>6, <1>u, <1>c, <2>1, RepoTypes DEF FetchTarget, Fetched
  <2> QED
    BY <1>6, <1>c, <1>s, <2>2 DEF FetchTarget
<1>7. CASE Checkout
  <2>1. OnTarget \in Repos
    BY <1>u, <1>c, CommitTypes DEF OnTarget, Repos, None
  <2>2. [OnTarget EXCEPT !.local[call.target] = Resolved] \in Repos
    BY <1>c, <2>1, RepoTypes
  <2>3. repo' \in Repos
    BY <1>7, <1>u, <2>1, <2>2 DEF Checkout
  <2> QED
    BY <1>7, <1>c, <1>s, <2>3 DEF Checkout
<1>8. CASE FastForward
  <2>1. repo' \in Repos
    BY <1>8, <1>u, <1>c, RepoTypes DEF FastForward
  <2> QED
    BY <1>8, <1>s, <2>1 DEF FastForward
<1>9. CASE SyncKilled
  <2>1. repo' \in Repos
    BY <1>9, <1>u, RepoTypes DEF SyncKilled
  <2> QED
    BY <1>9, <1>c, <2>1 DEF SyncKilled
<1>10. CASE Track
  BY <1>10, <1>c, <1>s DEF Track
<1>11. CASE Save
  <2>1. Valid \in Metadata
    BY <1>c DEF Valid, Metadata
  <2> QED
    BY <1>11, <1>s, <2>1 DEF Save
<1>12. CASE SaveTorn
  <2>1. [NoMeta EXCEPT !.kind = "invalid"] \in Metadata
    BY <1>c DEF Metadata
  <2> QED
    BY <1>12, <1>c, <2>1 DEF SaveTorn
<1>13. CASE Resume
  <2>1. \A b \in Branches : [Idle EXCEPT !.step = "open", !.target = b] \in Calls
    BY <1>c DEF Calls
  <2> QED
    BY <1>13, <2>1 DEF Resume
<1> QED
  BY <1>1, <1>2, <1>3, <1>4, <1>5, <1>6, <1>7, <1>8, <1>9, <1>10, <1>11, <1>12, <1>13 DEF Prepare

LEMMA EffectTypes ==
  ASSUME Typed, NEW command \in Commands, NEW r \in Effects(command)
  PROVE  r \in Repos /\ r.refs = repo.refs /\ r.state = repo.state
<1>r. repo \in Repos /\ HeadOf(repo) \in Commits /\ repo.edits \in Commits /\ repo.edits \in SUBSET Works
  BY RepoTypes, CommitTypes DEF Typed, Repos
<1>h. \A c \in Commits :
        MoveHead(repo, c) \in Repos /\ MoveHead(repo, c).refs = repo.refs /\ MoveHead(repo, c).state = repo.state
  <2> SUFFICES ASSUME NEW c \in Commits
               PROVE  MoveHead(repo, c) \in Repos /\ MoveHead(repo, c).refs = repo.refs
                      /\ MoveHead(repo, c).state = repo.state
    OBVIOUS
  <2>1. CASE repo.on = "detached"
    BY <1>r, <2>1, RepoTypes DEF MoveHead, Repos
  <2>2. CASE repo.on # "detached"
    <3>1. repo.on \in Branches
      BY <1>r, <2>2 DEF Repos
    <3> QED
      BY <1>r, <2>2, <3>1, RepoTypes DEF MoveHead, Repos
  <2> QED
    BY <2>1, <2>2
<1>1. CASE command = "commit"
  <2> DEFINE s == MoveHead(repo, HeadOf(repo) \cup repo.edits)
  <2>1. s \in Repos /\ s.refs = repo.refs /\ s.state = repo.state
    BY <1>r, <1>h, CommitTypes
  <2>2. r = [s EXCEPT !.edits = {}]
    BY <1>1 DEF Effects, Commit
  <2> HIDE DEF s
  <2> QED
    BY <2>1, <2>2 DEF Repos
<1>2. CASE command = "reset"
  <2>1. PICK b \in Branches : r = ResetTo(repo.tracking[b])
    BY <1>2 DEF Effects, Resets
  <2> DEFINE s == MoveHead(repo, repo.tracking[b])
  <2>2. s \in Repos /\ s.refs = repo.refs /\ s.state = repo.state
    BY <1>r, <1>h DEF Repos
  <2>3. r = [s EXCEPT !.edits = {}, !.index = "clean"]
    BY <2>1 DEF ResetTo
  <2> HIDE DEF s
  <2> QED
    BY <2>2, <2>3 DEF Repos
<1>3. CASE command = "restore"
  <2>1. r = Restored
    BY <1>3 DEF Effects
  <2> QED
    BY <1>r, <2>1 DEF Restored, Repos
<1>4. CASE command = "checkout"
  <2>0. r \in Checkouts
    BY <1>4 DEF Effects
  <2>3. r = DetachedHead \/ \E b \in Branches, edits \in {repo.edits, {}} : r = CheckedOut(b, edits)
    BY <2>0 DEF Checkouts
  <2>1. CASE \E b \in Branches, edits \in {repo.edits, {}} : r = CheckedOut(b, edits)
    <3>1. PICK b \in Branches, edits \in {repo.edits, {}} : r = CheckedOut(b, edits)
      BY <2>1
    <3>2. {} \in Commits /\ edits \in SUBSET Works
      BY <1>r, CommitTypes
    <3>3. [repo EXCEPT !.on = b, !.at = {}] \in Repos
      BY <1>r, <3>2, RepoTypes
    <3> QED
      BY <1>r, <3>1, <3>2, <3>3 DEF CheckedOut, Repos, None
  <2>2. CASE r = DetachedHead
    BY <1>r, <2>2 DEF DetachedHead, Repos
  <2> QED
    BY <2>1, <2>2, <2>3
<1>5. CASE command = "branch"
  <2>1. PICK b \in Branches : r = [repo EXCEPT !.local[b] = None]
    BY <1>5 DEF Effects, Deletions
  <2> QED
    BY <1>r, <2>1, RepoTypes, CommitTypes DEF Repos, None
<1> QED
  BY <1>1, <1>2, <1>3, <1>4, <1>5 DEF Commands

LEMMA PrunedRefs ==
  ASSUME SafetyAssumption, NEW refs \in Seq(Commits)
  PROVE  /\ Pruned(refs) \in Seq(Commits) /\ Len(Pruned(refs)) <= MaxSafetyRefs
         /\ \A i \in DOMAIN refs : Len(refs) - i < MaxSafetyRefs =>
              \E j \in DOMAIN Pruned(refs) :
                Pruned(refs)[j] = refs[i] /\ Len(Pruned(refs)) - j = Len(refs) - i
<1>n. Len(refs) \in Nat /\ DOMAIN refs = 1 .. Len(refs) /\ MaxSafetyRefs \in Nat \ {0}
  BY LenProperties DEF SafetyAssumption
<1>1. CASE Len(refs) <= MaxSafetyRefs
  BY <1>n, <1>1 DEF Pruned
<1>2. CASE ~(Len(refs) <= MaxSafetyRefs)
  <2> DEFINE m == Len(refs) - MaxSafetyRefs + 1
             s == SubSeq(refs, m, Len(refs))
  <2>1. Pruned(refs) = s
    BY <1>2 DEF Pruned
  <2>2. m \in 1 .. Len(refs) /\ Len(refs) - m + 1 = MaxSafetyRefs
    BY <1>n, <1>2
  <2>3. /\ s \in Seq(Commits) /\ Len(s) = MaxSafetyRefs
        /\ \A i \in 1 .. MaxSafetyRefs : s[i] = refs[m + i - 1]
    BY <1>n, <2>2, SubSeqProperties
  <2>4. DOMAIN s = 1 .. MaxSafetyRefs
    BY <2>3, LenProperties
  <2>5. ASSUME NEW i \in DOMAIN refs, Len(refs) - i < MaxSafetyRefs
        PROVE  \E j \in DOMAIN s : s[j] = refs[i] /\ Len(s) - j = Len(refs) - i
    <3> DEFINE j == i - m + 1
    <3>1. j \in 1 .. MaxSafetyRefs /\ m + j - 1 = i /\ MaxSafetyRefs - j = Len(refs) - i
      BY <1>n, <2>2, <2>5
    <3> HIDE DEF j, m, s
    <3> QED
      BY <2>3, <2>4, <3>1
  <2> QED
    BY <1>n, <2>1, <2>3, <2>5
<1> QED
  BY <1>1, <1>2

LEMMA SavedType ==
  ASSUME Typed, NEW stashed \in BOOLEAN
  PROVE  Saved(HeadOf(repo), repo.edits, stashed) \in Commits /\ Recovered(stashed) \in Seq(Commits)
<1>1. HeadOf(repo) \in Commits /\ repo.edits \in Commits /\ repo.refs \in Seq(Commits)
  BY RepoTypes, CommitTypes DEF Typed, Repos
<1>2. Saved(HeadOf(repo), repo.edits, stashed) \in Commits
  BY <1>1, CommitTypes DEF Saved
<1> QED
  BY <1>1, <1>2, AppendProperties DEF Recovered

LEMMA NextTyped ==
  ASSUME SafetyAssumption, Typed, [Next]_vars
  PROVE  Typed'
<1>r. upstream \in [Branches -> Commits] /\ repo \in Repos /\ meta \in Metadata /\ call \in Calls
      /\ HeadOf(repo) \in Commits /\ Idle \in Calls /\ NoMeta \in Metadata
  BY RepoTypes, CallTypes DEF Typed
<1>1. CASE Prepare
  BY <1>1, PrepareTyped
<1>2. CASE Delete
  BY <1>r, <1>2, KilledTypes, NoRepoType DEF Delete, Typed
<1>3. CASE Edit
  <2>1. repo.edits \in SUBSET Works
    BY <1>r DEF Repos
  <2>2. \A w \in Works : repo.edits \cup {w} \in SUBSET Works
    BY <2>1
  <2> QED
    BY <1>r, <1>3, <2>2, RepoTypes DEF Edit, Typed
<1>4. CASE RunGit
  <2>0. PICK command \in Commands, stashed \in BOOLEAN : \E r \in Effects(command) :
          repo' = IF NeedsGitRecovery(command) THEN WithRef(r, stashed) ELSE r
    BY <1>4 DEF RunGit
  <2>1. PICK r \in Effects(command) :
          repo' = IF NeedsGitRecovery(command) THEN WithRef(r, stashed) ELSE r
    BY <2>0
  <2>2. r \in Repos
    BY EffectTypes
  <2>3. Pruned(Recovered(stashed)) \in Seq(Commits)
    BY SavedType, PrunedRefs
  <2>4. repo' \in Repos
    BY <2>1, <2>2, <2>3, RepoTypes DEF WithRef
  <2> QED
    BY <1>r, <1>4, <2>4 DEF RunGit, Typed
<1>5. CASE Unrecorded
  BY <1>r, <1>5, SavedType, RepoTypes DEF Unrecorded, Typed
<1>6. CASE Push
  <2>1. repo.on \in Branches
    BY <1>r, <1>6 DEF Push, Repos
  <2> QED
    BY <1>r, <1>6, <2>1, RepoTypes DEF Push, Typed
<1>7. CASE Close
  BY <1>r, <1>7 DEF Close, Typed
<1>8. CASE Moves
  <2>1. PICK b \in Branches, u \in Upstreams :
          upstream' \in {[upstream EXCEPT ![b] = upstream[b] \cup {u}], [upstream EXCEPT ![b] = {"root", u}]}
    BY <1>8 DEF Moves
  <2>2. upstream[b] \cup {u} \in Commits /\ {"root", u} \in Commits
    BY <1>r, CommitTypes
  <2> QED
    BY <1>r, <1>8, <2>1, <2>2 DEF Moves, Typed
<1>9. CASE UNCHANGED vars
  BY <1>r, <1>9 DEF vars, Typed
<1> QED
  BY <1>1, <1>2, <1>3, <1>4, <1>5, <1>6, <1>7, <1>8, <1>9 DEF Next

-----------------------------------------------------------------------------
(***************************************************************************)
(* The inductive invariant.                                                *)
(***************************************************************************)
\* Only a whole clone is worked in, and in what is not whole there is no work,
\* nor anything discarded that a ref could hold.
Placed ==
  /\ call.step \notin {"idle", "clone"} => repo.state = "whole"
  /\ call.step = "clone" => repo.state = "none" /\ call.fresh
  /\ call.step = "previous" => ~call.fresh
  /\ repo.state # "whole" => Held(repo) = {} /\ \A w \in Works : age[w] = MaxSafetyRefs

\* Prepare leaves a detached head only when a branch upstream has what it holds.
Behind(b) == HeadOf(repo) \subseteq repo.tracking[b]
Passing ==
  /\ call.fresh /\ call.step = "fetch" => repo.on # "detached"
  /\ call.step = "fetch" /\ ~call.fresh /\ ~SameTarget => Behind(meta.target)
  /\ call.step = "checkout" => repo.on # "detached" \/ \E b \in Branches : Behind(b)

\* From the fetch on, the commit that the caller expects is the one it will get.
Agreed ==
  /\ call.step \in {"checkout", "merge", "track", "save"} => Expected(Resolved)
  /\ call.step = "save" => HeadOf(repo) = Resolved

\* The ref that holds what was discarded is no further from the end than its age.
InRef(refs, w, n) == \E i \in DOMAIN refs : Len(refs) - i <= n /\ w \in refs[i]
RefInv ==
  /\ Len(repo.refs) <= MaxSafetyRefs + 1
  /\ age \in [Works -> 0 .. MaxSafetyRefs]
  /\ \A w \in Works : age[w] < MaxSafetyRefs => InRef(repo.refs, w, age[w])

WInv == Typed /\ Placed /\ Passing /\ Agreed /\ RefInv

LEMMA HeldMembers ==
  ASSUME NEW r
  PROVE  \A x : x \in Held(r) <=> x \in r.edits \/ x \in HeadOf(r) \/ \E b \in Branches : x \in r.local[b]
BY Zenon DEF Held

LEMMA NoRepoHolds ==
  /\ Held(NoRepo) = {} /\ Held(Partial) = {}
  /\ NoRepo.state = "none" /\ Partial.state = "partial" /\ Unborn.state = "whole"
  /\ NoRepo.refs = <<>> /\ Partial.refs = <<>> /\ Unborn.refs = <<>>
<1>1. ASSUME NEW r \in {NoRepo, Partial}
      PROVE  Held(r) = {}
  <2>1. r.edits = {} /\ r.on = "main" /\ \A b \in Branches : r.local[b] = {}
    BY <1>1 DEF NoRepo, Partial, None
  <2>2. HeadOf(r) = {}
    BY <2>1, BranchNames DEF HeadOf
  <2> QED
    BY <2>1, <2>2, HeldMembers
<1> QED
  BY <1>1 DEF NoRepo, Partial, Unborn

LEMMA InvInit == SafetyAssumption /\ Init => WInv
<1> SUFFICES ASSUME SafetyAssumption, Init PROVE WInv
  OBVIOUS
<1>1. Typed
  BY TypedInit
<1>2. call.step = "idle" /\ repo = NoRepo /\ repo.refs = <<>> /\ age = [w \in Works |-> MaxSafetyRefs]
  BY DEF Init, Idle, NoRepo
<1>3. Placed
  BY <1>2, NoRepoHolds DEF Placed
<1>4. Passing /\ Agreed
  BY <1>2 DEF Passing, Agreed
<1>5. RefInv
  BY <1>2, EmptySeq DEF RefInv, SafetyAssumption
<1> QED
  BY <1>1, <1>3, <1>4, <1>5 DEF WInv

\* Of the steps of Prepare, in terms of what the invariant speaks about.
LEMMA PreparePlaced ==
  ASSUME Typed, Placed, Prepare
  PROVE  Placed'
<1>r. repo.state \in {"none", "partial", "whole"} /\ call \in Calls
  BY DEF Typed, Repos
<1>t. \A s \in {"fetch", "checkout", "merge", "track", "save", "open", "idle"} : To(s) => call'.step = s
  BY <1>r DEF To, Calls
<1>i. Idle.step = "idle"
  BY DEF Idle
<1>1. CASE Begin
  <2>1. /\ call'.step \in {"clone", "previous", "fetch"}
        /\ call'.step = "clone" <=> repo.state = "none"
        /\ call'.fresh = (repo.state = "none")
    BY <1>1 DEF Begin
  <2> QED
    BY <1>1, <2>1 DEF Begin, Placed
<1>2. CASE Fails
  BY <1>2, <1>i DEF Fails, Placed
<1>3. CASE Clone
  <2>1. repo'.state = "whole"
    BY <1>3 DEF Clone, NoRepo
  <2> QED
    BY <1>3, <1>t, <2>1 DEF Clone, Placed
<1>4. CASE CloneKilled
  BY <1>4, <1>i, NoRepoHolds DEF CloneKilled, Placed, At
<1>5. CASE FetchPrevious \/ FetchTarget
  <2>1. repo'.state = repo.state /\ call.step \notin {"idle", "clone"}
    BY <1>5 DEF FetchPrevious, FetchTarget, Fetched, At, Typed, Repos
  <2>2. call'.step \in {"fetch", "checkout", "idle"}
    BY <1>5, <1>t, <1>i DEF FetchPrevious, FetchTarget
  <2> QED
    BY <2>1, <2>2 DEF Placed
<1>6. CASE Checkout \/ FastForward \/ SyncKilled
  <2>1. repo'.state = repo.state /\ call.step \notin {"idle", "clone"}
    BY <1>6 DEF Checkout, FastForward, SyncKilled, OnTarget, At, Typed, Repos
  <2>2. call'.step \in {"merge", "track", "idle"}
    BY <1>6, <1>t, <1>i DEF Checkout, FastForward, SyncKilled, To
  <2> QED
    BY <2>1, <2>2 DEF Placed
<1>7. CASE Track \/ Save \/ SaveTorn
  <2>1. repo' = repo /\ call.step \notin {"idle", "clone"}
    BY <1>7 DEF Track, Save, SaveTorn, At
  <2>2. call'.step \in {"save", "open", "idle"}
    BY <1>7, <1>t, <1>i DEF Track, Save, SaveTorn
  <2> QED
    BY <2>1, <2>2 DEF Placed
<1>8. CASE Resume
  BY <1>8 DEF Resume, Resumes, Placed, Idle
<1> QED
  BY <1>1, <1>2, <1>3, <1>4, <1>5, <1>6, <1>7, <1>8 DEF Prepare

\* A command that CWapi runs, with the repository it leaves before the ref is added.
GitStep(command, stashed, r) ==
  /\ repo' = IF NeedsGitRecovery(command) THEN WithRef(r, stashed) ELSE r
  /\ age' = Aged(command, r, stashed)

LEMMA RunGitStep ==
  ASSUME Typed, RunGit
  PROVE  /\ call.step = "open" /\ call' = call /\ repo'.state = repo.state
         /\ \E command \in Commands, stashed \in BOOLEAN, r \in Repos :
              r \in Effects(command) /\ r.refs = repo.refs /\ GitStep(command, stashed, r)
<1>1. PICK command \in Commands, stashed \in BOOLEAN : \E r \in Effects(command) : GitStep(command, stashed, r)
  BY DEF RunGit, GitStep
<1>2. PICK r \in Effects(command) : GitStep(command, stashed, r)
  BY <1>1
<1>3. r \in Repos /\ r.refs = repo.refs /\ r.state = repo.state
  BY EffectTypes
<1>4. repo'.state = repo.state
  BY <1>2, <1>3 DEF GitStep, WithRef, Repos
<1> QED
  BY <1>2, <1>3, <1>4 DEF RunGit, At

LEMMA NextPlaced ==
  ASSUME Typed, Placed, [Next]_vars
  PROVE  Placed'
<1>1. CASE Prepare
  BY <1>1, PreparePlaced
<1>2. CASE Delete
  <2>1. call' = call /\ call.step = "idle" /\ \A w \in Works : age'[w] = MaxSafetyRefs
    BY <1>2 DEF Delete, At
  <2>2. Held(repo') = {}
    BY <1>2, NoRepoHolds DEF Delete
  <2> QED
    BY <2>1, <2>2 DEF Placed
<1>3. CASE Edit \/ RunGit \/ Unrecorded \/ Push
  <2>1. call' = call /\ call.step = "open"
    BY <1>3, RunGitStep DEF Edit, Unrecorded, Push, At
  <2>2. repo'.state = repo.state
    BY <1>3, RunGitStep DEF Edit, Unrecorded, Push, Typed, Repos
  <2> QED
    BY <2>1, <2>2 DEF Placed
<1>4. CASE Close
  BY <1>4 DEF Close, Placed, Idle, At
<1>5. CASE Moves \/ UNCHANGED vars
  <2>1. call' = call /\ repo' = repo /\ age' = age
    BY <1>5 DEF Moves, vars
  <2>2. Held(repo') = Held(repo)
    BY <2>1
  <2> QED
    BY <2>1, <2>2 DEF Placed
<1> QED
  BY <1>1, <1>2, <1>3, <1>4, <1>5 DEF Next

\* What a fetch and a checkout do to HEAD and to what was fetched.
LEMMA FetchedHead ==
  ASSUME Typed, NEW b \in Branches, repo' = Fetched(b)
  PROVE  /\ repo'.on = repo.on /\ HeadOf(repo') = HeadOf(repo) /\ Held(repo') = Held(repo)
         /\ repo'.tracking[b] = upstream[b]
         /\ \A d \in Branches \ {b} : repo'.tracking[d] = repo.tracking[d]
<1>1. /\ repo'.on = repo.on /\ repo'.at = repo.at /\ repo'.local = repo.local /\ repo'.edits = repo.edits
      /\ repo'.tracking = [repo.tracking EXCEPT ![b] = upstream[b]]
      /\ repo.tracking \in [Branches -> Commits]
  BY DEF Typed, Repos, Fetched
<1>2. HeadOf(repo') = HeadOf(repo)
  BY <1>1 DEF HeadOf
<1> QED
  BY <1>1, <1>2 DEF Held

LEMMA NextPassing ==
  ASSUME Typed, Placed, Passing, [Next]_vars
  PROVE  Passing'
<1>t. \A s \in {"fetch", "checkout", "merge", "track", "save", "open", "idle"} :
        To(s) => call'.step = s /\ call'.fresh = call.fresh /\ call'.target = call.target
  BY DEF To, Typed, Calls
<1>i. Idle.step = "idle"
  BY DEF Idle
<1>m. meta.target \in Branches /\ call.target \in Branches /\ "main" \in Branches /\ "main" # "detached"
  BY CallTypes, BranchNames
<1>1. CASE Begin
  <2>1. PICK b \in Branches :
          /\ call'.step = IF repo.state = "none" THEN "clone"
                          ELSE IF HeadOf(repo) # None /\ meta.kind = "valid" /\ meta.target # b
                          THEN "previous" ELSE "fetch"
          /\ call'.target = b /\ call'.fresh = (repo.state = "none")
    BY <1>1 DEF Begin
  <2>2. call'.step = "fetch" => ~call'.fresh /\ (SameTarget' \/ Behind(meta.target)')
    <3>1. HeadOf(repo) = None => Behind(meta.target)'
      BY <1>1 DEF Behind, Begin, None
    <3> QED
      BY <1>1, <2>1, <3>1 DEF SameTarget, Begin
  <2>3. call'.step # "checkout"
    BY <2>1
  <2> QED
    BY <2>2, <2>3 DEF Passing
<1>2. CASE Clone
  <2>1. repo'.on = "main" /\ call'.step = "fetch"
    BY <1>2, <1>t DEF Clone, NoRepo
  <2> QED
    BY <1>2, <1>m, <1>t, <2>1 DEF Passing, Placed, Clone, At
<1>3. CASE FetchPrevious
  <2>1. call'.step \in {"fetch", "idle"}
    BY <1>3, <1>t, <1>i DEF FetchPrevious
  <2>2. ASSUME call'.step = "fetch"
        PROVE  repo'.on = repo.on /\ Behind(meta.target)'
    <3>1. HeadOf(repo) \subseteq upstream[meta.target]
      BY <1>3, <1>i, <2>2 DEF FetchPrevious, NoLocalCommits
    <3> QED
      BY <1>3, <1>m, <3>1, FetchedHead DEF FetchPrevious, Behind
  <2>3. call'.step = "fetch" => call'.fresh = call.fresh
    BY <1>3, <1>t, <1>i DEF FetchPrevious
  <2>4. ~call.fresh /\ meta' = meta
    BY <1>3 DEF Placed, FetchPrevious, At
  <2> QED
    BY <2>1, <2>2, <2>3, <2>4 DEF Passing
<1>4. CASE FetchTarget
  <2>1. call'.step \in {"checkout", "idle"}
    BY <1>4, <1>t, <1>i DEF FetchTarget
  <2>2. ASSUME call'.step = "checkout"
        PROVE  repo'.on # "detached" \/ \E b \in Branches : HeadOf(repo') \subseteq repo'.tracking[b]
    <3>1. /\ repo'.on = repo.on /\ HeadOf(repo') = HeadOf(repo)
          /\ repo'.tracking[call.target] = upstream[call.target]
          /\ \A d \in Branches \ {call.target} : repo'.tracking[d] = repo.tracking[d]
      BY <1>4, <1>m, FetchedHead DEF FetchTarget
    <3>2. CASE SameTarget
      BY <1>4, <1>i, <1>m, <2>2, <3>1, <3>2 DEF FetchTarget, NoLocalCommits
    <3>3. CASE ~SameTarget /\ call.fresh
      BY <1>4, <3>1, <3>3 DEF Passing, FetchTarget, At
    <3>4. CASE ~SameTarget /\ ~call.fresh
      <4>1. HeadOf(repo) \subseteq repo.tracking[meta.target] /\ meta.target # call.target
        BY <1>4, <3>4 DEF Passing, FetchTarget, At, Behind, SameTarget
      <4> QED
        BY <1>m, <3>1, <4>1
    <3> QED
      BY <3>2, <3>3, <3>4
  <2> QED
    BY <2>1, <2>2 DEF Passing, Behind
<1>5. CASE Fails \/ CloneKilled \/ Checkout \/ FastForward \/ SyncKilled \/ Track \/ Save \/ SaveTorn \/ Resume
           \/ Close
  <2>1. call'.step \in {"idle", "open", "merge", "track", "save"}
    BY <1>5, <1>t, <1>i DEF Fails, CloneKilled, Checkout, FastForward, SyncKilled, Track, Save, SaveTorn,
       Resume, Close, To, Idle
  <2> QED
    BY <2>1 DEF Passing
<1>6. CASE Delete \/ Edit \/ RunGit \/ Unrecorded \/ Push
  <2>1. call' = call /\ call.step \in {"idle", "open"}
    BY <1>6, RunGitStep DEF Delete, Edit, Unrecorded, Push, At
  <2> QED
    BY <2>1 DEF Passing
<1>7. CASE Moves \/ UNCHANGED vars
  <2>1. call' = call /\ repo' = repo /\ meta' = meta
    BY <1>7 DEF Moves, vars
  <2> QED
    BY <2>1 DEF Passing, SameTarget, Behind, HeadOf
<1> QED
  BY <1>1, <1>2, <1>3, <1>4, <1>5, <1>6, <1>7 DEF Next, Prepare

LEMMA NextAgreed ==
  ASSUME Typed, Agreed, [Next]_vars
  PROVE  Agreed'
<1> DEFINE later == {"checkout", "merge", "track", "save"}
<1>t. \A s \in {"fetch", "checkout", "merge", "track", "save", "open", "idle"} :
        To(s) => call'.step = s /\ call'.expect = call.expect /\ call'.target = call.target
  BY DEF To, Typed, Calls
<1>i. Idle.step = "idle"
  BY DEF Idle
<1>m. meta.target \in Branches /\ call.target \in Branches
  BY CallTypes
<1>1. CASE FetchTarget
  <2>1. call'.step \in {"checkout", "idle"}
    BY <1>1, <1>t, <1>i DEF FetchTarget
  <2>2. ASSUME call'.step = "checkout"
        PROVE  Expected(Resolved)'
    <3>1. repo'.tracking[call.target] = upstream[call.target]
      BY <1>1, <1>m, FetchedHead DEF FetchTarget
    <3>2. call'.expect = call.expect /\ call'.target = call.target /\ Expected(upstream[call.target])
      BY <1>1, <1>t, <1>i, <2>2 DEF FetchTarget
    <3> QED
      BY <3>1, <3>2 DEF Expected, Resolved
  <2> QED
    BY <2>1, <2>2 DEF Agreed
<1>2. CASE Checkout \/ FastForward
  <2>1. repo'.tracking = repo.tracking /\ call.step \in later
    BY <1>2 DEF Checkout, FastForward, OnTarget, At, Typed, Repos
  <2>2. call'.step \in {"idle", "merge", "track"}
    BY <1>2, <1>t, <1>i DEF Checkout, FastForward
  <2>3. call'.step # "idle" => call'.expect = call.expect /\ call'.target = call.target
    BY <1>2, <1>t, <1>i DEF Checkout, FastForward
  <2> QED
    BY <2>1, <2>2, <2>3 DEF Agreed, Expected, Resolved
<1>3. CASE Track
  <2>1. repo' = repo /\ call.step \in later /\ call'.step \in {"idle", "save"}
    BY <1>3, <1>t, <1>i DEF Track, At
  <2>2. call'.step = "save" => AsAsked /\ call'.expect = call.expect /\ call'.target = call.target
    BY <1>3, <1>t, <1>i DEF Track
  <2> QED
    BY <2>1, <2>2 DEF Agreed, Expected, Resolved, AsAsked, HeadOf
<1>4. CASE Begin \/ Fails \/ Clone \/ CloneKilled \/ FetchPrevious \/ SyncKilled \/ Save \/ SaveTorn \/ Resume
           \/ Close
  <2>1. call'.step \notin later
    <3>1. Begin => call'.step \in {"clone", "previous", "fetch"}
      BY DEF Begin
    <3>2. Clone \/ FetchPrevious \/ Save => call'.step \in {"fetch", "open", "idle"}
      BY <1>t, <1>i DEF Clone, FetchPrevious, Save
    <3>3. Resume => call'.step = "open"
      BY DEF Resume, Idle
    <3>4. Fails \/ CloneKilled \/ SyncKilled \/ SaveTorn \/ Close => call'.step = "idle"
      BY <1>i DEF Fails, CloneKilled, SyncKilled, SaveTorn, Close
    <3> QED
      BY <1>4, <3>1, <3>2, <3>3, <3>4
  <2> QED
    BY <2>1 DEF Agreed
<1>5. CASE Delete \/ Edit \/ RunGit \/ Unrecorded \/ Push
  <2>1. call' = call /\ call.step \in {"idle", "open"}
    BY <1>5, RunGitStep DEF Delete, Edit, Unrecorded, Push, At
  <2> QED
    BY <2>1 DEF Agreed
<1>6. CASE Moves \/ UNCHANGED vars
  <2>1. call' = call /\ repo' = repo
    BY <1>6 DEF Moves, vars
  <2> QED
    BY <2>1 DEF Agreed, Expected, Resolved, HeadOf
<1> QED
  BY <1>1, <1>2, <1>3, <1>4, <1>5, <1>6 DEF Next, Prepare

\* A ref that is added makes what the others hold one older, and pruning takes away
\* nothing that is young enough.
LEMMA AppendedRef ==
  ASSUME NEW refs \in Seq(Commits), NEW c \in Commits, NEW w, NEW n \in Nat, InRef(refs, w, n)
  PROVE  InRef(Append(refs, c), w, n + 1)
<1>1. PICK i \in DOMAIN refs : Len(refs) - i <= n /\ w \in refs[i]
  BY DEF InRef
<1>2. /\ DOMAIN refs = 1 .. Len(refs) /\ Len(refs) \in Nat
      /\ Append(refs, c) \in Seq(Commits) /\ Len(Append(refs, c)) = Len(refs) + 1
      /\ Append(refs, c)[i] = refs[i]
  BY <1>1, AppendProperties, LenProperties
<1>3. i \in DOMAIN Append(refs, c)
  BY <1>1, <1>2, LenProperties
<1> QED
  BY <1>1, <1>2, <1>3 DEF InRef

LEMMA LastRef ==
  ASSUME NEW refs \in Seq(Commits), NEW c \in Commits, NEW w \in c
  PROVE  InRef(Append(refs, c), w, 0)
<1>1. /\ Append(refs, c) \in Seq(Commits) /\ Len(Append(refs, c)) = Len(refs) + 1
      /\ Append(refs, c)[Len(refs) + 1] = c /\ Len(refs) \in Nat
  BY AppendProperties, LenProperties
<1>2. Len(refs) + 1 \in DOMAIN Append(refs, c)
  BY <1>1, LenProperties
<1> QED
  BY <1>1, <1>2 DEF InRef

LEMMA PrunedRef ==
  ASSUME SafetyAssumption, NEW refs \in Seq(Commits), NEW w, NEW n \in Nat, n < MaxSafetyRefs, InRef(refs, w, n)
  PROVE  InRef(Pruned(refs), w, n)
<1>1. PICK i \in DOMAIN refs : Len(refs) - i <= n /\ w \in refs[i]
  BY DEF InRef
<1>2. Len(refs) - i < MaxSafetyRefs
  BY <1>1, LenProperties DEF SafetyAssumption
<1>3. PICK j \in DOMAIN Pruned(refs) : Pruned(refs)[j] = refs[i] /\ Len(Pruned(refs)) - j = Len(refs) - i
  BY <1>2, PrunedRefs
<1> QED
  BY <1>1, <1>3 DEF InRef

LEMMA NextRefs ==
  ASSUME SafetyAssumption, Typed, Placed, RefInv, [Next]_vars
  PROVE  RefInv'
<1>m. MaxSafetyRefs \in Nat \ {0}
  BY DEF SafetyAssumption
<1>r. repo.refs \in Seq(Commits) /\ Len(repo.refs) \in Nat
      /\ age \in [Works -> 0 .. MaxSafetyRefs]
  BY LenProperties DEF Typed, Repos, RefInv
<1>u. repo'.refs = repo.refs /\ age' = age => RefInv'
  BY DEF RefInv
<1>n. age' \in [Works -> 0 .. MaxSafetyRefs] /\ (\A w \in Works : age'[w] = MaxSafetyRefs)
      /\ repo'.refs = <<>> => RefInv'
  BY <1>m, EmptySeq DEF RefInv
<1>o. \A w \in Works : Older(w) \in 0 .. MaxSafetyRefs
        /\ (Older(w) < MaxSafetyRefs => age[w] < MaxSafetyRefs /\ Older(w) = age[w] + 1)
  BY <1>m, <1>r DEF Older
<1>s. NoRepo.refs = <<>> /\ Partial.refs = <<>> /\ Unborn.refs = <<>>
  BY NoRepoHolds
<1>1. CASE Clone \/ CloneKilled
  <2>1. repo'.refs = <<>> /\ age' = age
    BY <1>1, <1>s DEF Clone, CloneKilled, NoRepo
  <2>2. repo.state = "none"
    BY <1>1 DEF Clone, CloneKilled, Placed, At
  <2> QED
    BY <1>n, <1>r, <2>1, <2>2 DEF Placed
<1>2. CASE Delete
  <2>1. repo'.refs = <<>>
    BY <1>2, <1>s DEF Delete
  <2>2. age' = [w \in Works |-> MaxSafetyRefs]
    BY <1>2 DEF Delete
  <2> QED
    BY <1>n, <1>m, <2>1, <2>2
<1>3. CASE FetchPrevious \/ FetchTarget \/ Checkout \/ FastForward \/ SyncKilled \/ Edit \/ Push
  <2>1. repo'.refs = repo.refs /\ age' = age
    BY <1>3 DEF FetchPrevious, FetchTarget, Fetched, Checkout, OnTarget, FastForward, SyncKilled, Edit, Push,
       Typed, Repos
  <2> QED
    BY <1>u, <2>1
<1>4. CASE Begin \/ Fails \/ Track \/ Save \/ SaveTorn \/ Resume \/ Close \/ Moves \/ UNCHANGED vars
  <2>1. repo' = repo /\ age' = age
    BY <1>4 DEF Begin, Fails, Track, Save, SaveTorn, Resume, Close, Moves, vars
  <2> QED
    BY <1>u, <2>1
<1>5. CASE Unrecorded
  <2>1. PICK stashed \in BOOLEAN : repo' = [repo EXCEPT !.refs = Recovered(stashed)]
    BY <1>5 DEF Unrecorded
  <2> DEFINE c == Saved(HeadOf(repo), repo.edits, stashed)
  <2>2. repo'.refs = Append(repo.refs, c) /\ c \in Commits
    BY <2>1, SavedType DEF Recovered, Typed, Repos
  <2>3. age' = [w \in Works |-> Older(w)] /\ Len(repo.refs) <= MaxSafetyRefs
    BY <1>5 DEF Unrecorded
  <2> HIDE DEF c
  <2>4. Len(repo'.refs) <= MaxSafetyRefs + 1
    BY <1>m, <1>r, <2>2, <2>3, AppendProperties
  <2>5. ASSUME NEW w \in Works, age'[w] < MaxSafetyRefs
        PROVE  InRef(repo'.refs, w, age'[w])
    <3>1. age[w] < MaxSafetyRefs /\ age'[w] = age[w] + 1 /\ age[w] \in Nat
      BY <1>r, <1>o, <2>3, <2>5
    <3>2. InRef(repo.refs, w, age[w])
      BY <3>1 DEF RefInv
    <3> QED
      BY <1>r, <2>2, <3>1, <3>2, AppendedRef
  <2> QED
    BY <1>o, <2>3, <2>4, <2>5 DEF RefInv
<1>6. CASE RunGit
  <2>1. PICK command \in Commands, stashed \in BOOLEAN, r \in Repos :
          r \in Effects(command) /\ r.refs = repo.refs /\ GitStep(command, stashed, r)
    BY <1>6, RunGitStep
  <2> DEFINE c == Saved(HeadOf(repo), repo.edits, stashed)
  <2>2. c \in Commits /\ Recovered(stashed) = Append(repo.refs, c) /\ Recovered(stashed) \in Seq(Commits)
    BY SavedType DEF Recovered
  <2>3. \A w \in Discarded(r, stashed) : w \in c
    BY DEF Discarded
  <2> HIDE DEF c
  <2>4. CASE ~NeedsGitRecovery(command)
    <3>1. command \notin {"checkout", "reset", "restore"}
      BY <2>4 DEF NeedsGitRecovery
    <3>2. repo' = r /\ age' = [w \in Works |-> age[w]]
      BY <2>1, <2>4, <3>1 DEF GitStep, Aged
    <3> QED
      BY <1>u, <1>r, <2>1, <3>2
  <2>5. CASE NeedsGitRecovery(command)
    <3>1. repo'.refs = Pruned(Append(repo.refs, c))
      BY <2>1, <2>2, <2>5 DEF GitStep, WithRef, Repos
    <3>2. /\ age' \in [Works -> 0 .. MaxSafetyRefs]
          /\ \A w \in Works : (age'[w] = 0 /\ w \in c) \/ age'[w] = Older(w)
      BY <1>m, <1>o, <2>1, <2>3, <2>5 DEF GitStep, Aged
    <3>3. Len(repo'.refs) <= MaxSafetyRefs + 1
      <4>1. Len(repo'.refs) <= MaxSafetyRefs /\ repo'.refs \in Seq(Commits)
        BY <2>2, <3>1, PrunedRefs
      <4> QED
        BY <1>m, <4>1, LenProperties
    <3>4. ASSUME NEW w \in Works, age'[w] < MaxSafetyRefs
          PROVE  InRef(repo'.refs, w, age'[w])
      <4>1. age'[w] \in Nat
        BY <3>2
      <4>2. InRef(Append(repo.refs, c), w, age'[w])
        <5>1. CASE age'[w] = 0 /\ w \in c
          BY <1>r, <2>2, <5>1, LastRef
        <5>2. CASE age'[w] = Older(w)
          <6>1. age[w] < MaxSafetyRefs /\ age'[w] = age[w] + 1 /\ age[w] \in Nat
            BY <1>r, <1>o, <3>4, <5>2
          <6>2. InRef(repo.refs, w, age[w])
            BY <6>1 DEF RefInv
          <6> QED
            BY <1>r, <2>2, <6>1, <6>2, AppendedRef
        <5> QED
          BY <3>2, <5>1, <5>2
      <4> QED
        BY <2>2, <3>1, <3>4, <4>1, <4>2, PrunedRef
    <3> QED
      BY <3>2, <3>3, <3>4 DEF RefInv
  <2> QED
    BY <2>4, <2>5
<1> QED
  BY <1>1, <1>2, <1>3, <1>4, <1>5, <1>6 DEF Next, Prepare

LEMMA WInvNext ==
  ASSUME SafetyAssumption, WInv, [Next]_vars
  PROVE  WInv'
BY NextTyped, NextPlaced, NextPassing, NextAgreed, NextRefs DEF WInv

-----------------------------------------------------------------------------
(***************************************************************************)
(* The theorems.                                                           *)
(***************************************************************************)
\* The invariant holds of every reachable state.
THEOREM WorkspaceInductive == Spec => []WInv
<1>1. SafetyAssumption
  BY SafetyAssumption
<1>2. Init => WInv
  BY <1>1, InvInit
<1>3. WInv /\ [Next]_vars => WInv'
  BY <1>1, WInvNext
<1> QED
  BY <1>2, <1>3, PTL DEF Spec

\* The clone, the metadata and the call have their types, and never more than one
\* recovery ref too many is there.
THEOREM WorkspaceTypes == Spec => []TypeOK
<1>1. WInv => TypeOK
  BY DEF WInv, Typed, RefInv, TypeOK
<1> QED
  BY <1>1, WorkspaceInductive, PTL

\* What is in a branch afterwards, or in what was fetched.
Somewhere(x) == x \in Held(repo') \/ \E b \in Branches : x \in repo'.tracking[b]

LEMMA PrepareKeeps ==
  ASSUME Typed, Placed, Passing, Prepare, NEW x \in Held(repo)
  PROVE  Somewhere(x)
<1>h. x \in repo.edits \/ x \in HeadOf(repo) \/ \E b \in Branches : x \in repo.local[b]
  BY HeldMembers
<1>g. x \in repo'.edits \/ (\E b \in Branches : x \in repo'.local[b]) => x \in Held(repo')
  BY HeldMembers
<1>r. /\ repo.on \in Branches \cup {"detached"} /\ call.target \in Branches
      /\ repo.local \in [Branches -> Commits] /\ Resolved \in Commits
  BY CallTypes DEF Typed, Repos, Resolved
<1>1. CASE Clone \/ CloneKilled
  BY <1>1 DEF Clone, CloneKilled, Placed, At
<1>2. CASE FetchPrevious \/ FetchTarget
  BY <1>2, CallTypes, FetchedHead DEF FetchPrevious, FetchTarget, Somewhere
<1>3. CASE Checkout
  <2>1. repo' = repo \/ repo' = OnTarget \/ (Local = None /\ repo' = [OnTarget EXCEPT !.local[call.target] = Resolved])
    BY <1>3 DEF Checkout
  <2>2. /\ repo' # repo => repo'.edits = repo.edits /\ repo'.tracking = repo.tracking
        /\ \A b \in Branches : repo.local[b] \subseteq repo'.local[b]
    <3>1. CASE repo' = repo
      BY <3>1
    <3>2. CASE repo' = OnTarget
      BY <3>2 DEF OnTarget, Typed, Repos
    <3>3. CASE Local = None /\ repo' = [OnTarget EXCEPT !.local[call.target] = Resolved]
      <4>1. repo'.edits = repo.edits /\ repo'.tracking = repo.tracking
        BY <3>3 DEF OnTarget, Typed, Repos
      <4>2. repo'.local = [repo.local EXCEPT ![call.target] = Resolved]
        BY <3>3 DEF OnTarget, Typed, Repos
      <4> QED
        BY <1>r, <3>3, <4>1, <4>2 DEF Local, None
    <3> QED
      BY <2>1, <3>1, <3>2, <3>3
  <2>3. CASE repo' = repo
    BY <2>3 DEF Somewhere
  <2>4. CASE repo' # repo /\ x \in HeadOf(repo)
    <3>1. CASE repo.on # "detached"
      BY <1>g, <1>r, <2>2, <2>4, <3>1 DEF HeadOf, Somewhere
    <3>2. CASE \E b \in Branches : Behind(b)
      BY <2>2, <2>4, <3>2 DEF Behind, Somewhere
    <3> QED
      BY <1>3, <3>1, <3>2 DEF Checkout, At, Passing
  <2>5. CASE repo' # repo /\ x \notin HeadOf(repo)
    BY <1>h, <1>g, <2>2, <2>5 DEF Somewhere
  <2> QED
    BY <2>3, <2>4, <2>5
<1>4. CASE FastForward
  <2>1. /\ repo'.on = repo.on /\ repo'.at = repo.at /\ repo'.edits = repo.edits
        /\ \A b \in Branches : repo.local[b] \subseteq repo'.local[b]
    BY <1>4, <1>r DEF FastForward, Local, Typed, Repos
  <2>2. HeadOf(repo) \subseteq HeadOf(repo')
    BY <1>r, <2>1 DEF HeadOf
  <2> QED
    BY <1>h, <2>1, <2>2, HeldMembers DEF Somewhere
<1>5. CASE SyncKilled
  <2>1. repo'.on = repo.on /\ repo'.at = repo.at /\ repo'.edits = repo.edits /\ repo'.local = repo.local
    BY <1>5 DEF SyncKilled, Typed, Repos
  <2> QED
    BY <2>1 DEF Somewhere, Held, HeadOf
<1>6. CASE Begin \/ Fails \/ Track \/ Save \/ SaveTorn \/ Resume
  BY <1>6 DEF Begin, Fails, Track, Save, SaveTorn, Resume, Somewhere
<1> QED
  BY <1>1, <1>2, <1>3, <1>4, <1>5, <1>6 DEF Prepare

\* Preparing a workspace loses nothing that an agent has done in it, wherever
\* Prepare fails and however the branches move upstream.
THEOREM WorkKeptHolds == Spec => WorkKept
<1>1. WInv /\ [Next]_vars =>
        [Prepare => Held(repo) \cap Works \subseteq
           UNION ({Held(repo')} \cup {repo'.tracking[b] : b \in Branches})]_vars
  <2> SUFFICES ASSUME WInv, Prepare, NEW x \in Held(repo)
               PROVE  x \in UNION ({Held(repo')} \cup {repo'.tracking[b] : b \in Branches})
    BY Zenon
  <2>1. Somewhere(x)
    BY PrepareKeeps DEF WInv
  <2> QED
    BY <2>1, Zenon DEF Somewhere
<1> QED
  BY <1>1, WorkspaceInductive, PTL DEF Spec, WorkKept

\* A session is opened at the commit its caller expects, or at none: nothing that
\* comes between the fetch and the metadata can change it.
THEOREM ExpectedHolds == Spec => ExpectedOpened
<1>1. WInv /\ [Next]_vars =>
        [At("save") /\ call'.step = "open" => call.expect \in {None, HeadOf(repo)}]_vars
  BY DEF WInv, Agreed, Expected, At
<1> QED
  BY <1>1, WorkspaceInductive, PTL DEF Spec, ExpectedOpened

\* What a direct command threw away is in a recovery ref until as many refs were
\* created since as are kept: pruning never takes it earlier.
THEOREM DiscardsHold == Spec => []DiscardsKept
<1>1. ASSUME WInv, NEW w \in Works, age[w] < MaxSafetyRefs
      PROVE  w \in Kept(repo.refs)
  <2>1. InRef(repo.refs, w, age[w])
    BY <1>1 DEF WInv, RefInv
  <2> QED
    BY <2>1, Zenon DEF InRef, Kept
<1>2. WInv => DiscardsKept
  BY <1>1 DEF DiscardsKept
<1> QED
  BY <1>2, WorkspaceInductive, PTL
=============================================================================
