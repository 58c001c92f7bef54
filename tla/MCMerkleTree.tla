---------------------------- MODULE MCMerkleTree ---------------------------
(* Instances of MerkleTree for TLC.                                        *)
EXTENDS MerkleTree, TLC

MCKeys == {<<"a">>, <<"b">>}
MCValues == {<<"x">>, <<"y">>}
TreeSymmetry == Permutations(Trees)
=============================================================================
