------------------------------ MODULE MCPurge ------------------------------
EXTENDS Purge, TLC

CONSTANTS b1, b2, f1, f2, l1, l2, j1, j2

\* Two files that share a leaf, and a root whose leaves do not follow it.
MCFileOf == b1 :> f1 @@ b2 :> f2
MCLeavesOf == f1 :> {l1, l2} @@ f2 :> {l2}
MCRank == l1 :> 1 @@ f1 :> 2 @@ l2 :> 3 @@ f2 :> 4
MCJobs == Permutations(Jobs)

=============================================================================
