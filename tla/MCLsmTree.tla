----------------------------- MODULE MCLsmTree -----------------------------
(* Instances of LsmTree for TLC.                                           *)
EXTENDS LsmTree, TLC

ValueSymmetry == Permutations(Values)
=============================================================================
