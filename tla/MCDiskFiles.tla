---------------------------- MODULE MCDiskFiles ----------------------------
(* Instances of DiskFiles for TLC.                                         *)
EXTENDS DiskFiles

OneAux == <<"index">>
=============================================================================
