----------------------------- MODULE MCDiamond -----------------------------
(***************************************************************************)
(* Instances of Diamond for model checking.                                *)
(***************************************************************************)
EXTENDS DiamondRefinement, TLC

\* Splits, files, bundle IDs and runs of the same kind are interchangeable.
Symmetry == Permutations(Splits) \cup Permutations(Files)
              \cup Permutations(Bundles) \cup Permutations(Adders)
              \cup Permutations(Committers)
=============================================================================
