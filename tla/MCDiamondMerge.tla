--------------------------- MODULE MCDiamondMerge ---------------------------
(***************************************************************************)
(* Instances of DiamondMerge for model checking.                           *)
(***************************************************************************)
EXTENDS DiamondMerge, TLC

Symmetry == Permutations(Splits) \cup Permutations(Hashes)
=============================================================================
