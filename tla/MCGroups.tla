------------------------------ MODULE MCGroups ------------------------------
(***************************************************************************)
(* Instances of GroupRecovery for TLC.                                     *)
(***************************************************************************)
EXTENDS GroupSafety

CONSTANTS cg, vs, mg, mp, sib

NoGroups == [g \in {} |-> {}]
OneGroup == [g \in {cg} |-> {}]
OneSibling == [g \in {cg} |-> {sib}]
=============================================================================
