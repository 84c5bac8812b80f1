-------------------------- MODULE MCDependencyGate --------------------------
(* Instances of DependencyGate for TLC: small dependency graphs, and where  *)
(* their tasks start.                                                       *)
EXTENDS DependencyGate, TLC

CONSTANTS t1, t2, t3

\* t3 waits for t1 and t2.
Join == (t1 :> {}) @@ (t2 :> {}) @@ (t3 :> {t1, t2})
AtJoin ==
  (t1 :> {"PendingMerge"}) @@ (t2 :> {"PendingMerge"}) @@ (t3 :> {"Blocked"})

\* The two blockers are alike.  Listed chooses one of the tasks, but nobody
\* reads the dep of a job that is at no task yet.
BlockerSymmetry == Permutations({t1, t2})

BlockersMove == {"Ready", "PendingMerge", "Merged", "MergeIncomplete",
                 "Cancelled"}

\* t2 waits for t1, and is anywhere.
Pair == (t1 :> {}) @@ (t2 :> {t1})
AtPair == (t1 :> {"PendingMerge", "Failed", "Merged"}) @@ (t2 :> Status)

Merges == {"Merged"}
=============================================================================
