----------------------------- MODULE GitSafety -----------------------------
(***************************************************************************)
(* The recovery refs that CWapi leaves in a repository before a direct     *)
(* destructive Git command (internal/security/git.go).                     *)
(*                                                                         *)
(* A commit is the set of the changes in its history, so an ancestor is a  *)
(* subset, and the commit of a stash holds HEAD and the tracked edits. Refs *)
(* are named by the clock: their order is the order of creation.           *)
(***************************************************************************)
EXTENDS Naturals, Sequences

CONSTANTS
  MaxSafetyRefs  \* how many refs are kept (maxSafetyRefs, 32)

ASSUME SafetyAssumption == MaxSafetyRefs \in Nat \ {0}

\* The commands of a session that the model has: those that destroy, and a commit.
Commands == {"commit", "checkout", "reset", "restore", "branch"}
BugNeedsGitRecovery(command) == command \in {"reset", "restore", "branch"}
NeedsGitRecovery(command) == command \in {"checkout", "reset", "restore", "branch"}

\* What is saved: a stash of everything, or HEAD when there is nothing to stash or
\* the stash cannot be made, as in the middle of a merge.
Saved(head, edits, stashed) == IF stashed THEN head \cup edits ELSE head

\* The newest refs stay.
BugPruned(refs) == refs
Pruned(refs) ==
  IF Len(refs) <= MaxSafetyRefs THEN refs
  ELSE SubSeq(refs, Len(refs) - MaxSafetyRefs + 1, Len(refs))

Kept(refs) == UNION {refs[i] : i \in DOMAIN refs}
=============================================================================
