----------------------------- MODULE MCRunFiles ----------------------------
(* Instances of RunFiles for TLC.                                          *)
EXTENDS RunFiles, TLC

NameSymmetry == Permutations(SnapIds) \union Permutations(Names)
=============================================================================
