----------------------------- MODULE MCRecovery -----------------------------
(***************************************************************************)
(* Instances of RecoveryWorkflow for TLC.                                  *)
(***************************************************************************)
EXTENDS RecoverySafety

CONSTANTS lun1, lun2, fs1, sib1

(* SiblingsOf for the device sets of the configurations. *)
OneLun == [d \in {lun1} |-> {}]
OneSibling == [d \in {lun1} |-> {sib1}]
TwoLuns == [d \in {lun1, lun2} |-> {}]
LunAndFs == [d \in {lun1, fs1} |-> {}]
=============================================================================
