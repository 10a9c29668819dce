---------------------------- MODULE MCCloneTest ----------------------------
(***************************************************************************)
(* Instances of CloneTest: an array with two file systems, or one with two *)
(* FusionStorage LUNs; as many ids of clones, so that they are reused.     *)
(***************************************************************************)
EXTENDS CloneTest

CONSTANTS fs1, fs2, lun1, lun2, c1, c2, h1, h2
=============================================================================
