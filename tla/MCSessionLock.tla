--------------------------- MODULE MCSessionLock ---------------------------
(* Instances of SessionLock for TLC.                                       *)
EXTENDS SessionLock, TLC

LockSymmetry == Permutations(Procs) \union Permutations(Inodes)
=============================================================================
