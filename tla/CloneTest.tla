----------------------------- MODULE CloneTest -----------------------------
(***************************************************************************)
(* Test failovers on clones, driven by SRM: starts and stops of devices of *)
(* one kind, killed at any step, until failures end.                       *)
(***************************************************************************)
EXTENDS FileSystemTest, FusionTest

Init == ArrayInit /\ ProcessInit

Start == \E c \in {"start", "stop"} : \E D \in SUBSET Device : Begin(c, D)
ProcessStep == \/ Preamble \/ CheckStatus \/ Operate \/ SkipDevice \/ StopPick
               \/ FileSystemNext \/ FusionNext \/ Respond
Next == Start \/ ProcessStep \/ Crash \/ Stabilize

Spec == Init /\ [][Next]_vars

(* SRM issues the stop of d once more. *)
Rerun(d) == \E D \in SUBSET Device : /\ d \in D /\ phase[d] = "stopping"
                                     /\ Begin("stop", D)

Fairness == /\ WF_vars(ProcessStep) /\ WF_vars(Stabilize)
            /\ \A d \in Device : SF_vars(Rerun(d))
FairSpec == Spec /\ Fairness

----------------------------------------------------------------------------
TypeOK == ArrayTypeOK /\ ProcessTypeOK

(* What SRM was told of a test is a clone of the device itself, and its    *)
(* hosts can use it until the device is stopped: neither a failed request  *)
(* for a share or a mapping, nor the repair that deletes strNFSID, which   *)
(* is the share of the device before, ends in a device reported as tested. *)
(* The hosts lack a LUN only if the very command that reported it took the *)
(* error of a CMD_cloneSnap2Lun or CMD_maplun2host for an OK.              *)
TestedIsExposed ==
  \A d \in Device : phase[d] = "testing" =>
    /\ told[d] \in ClonesOf(d)
    /\ d \in misled \/ Exposed(told[d])

(* A device that SRM was told is stopped has left no snapshot, nor a clone *)
(* unless the command took the error of CMD_dellun for an OK: whatever     *)
(* false answers were given to the commands before, they do not last.      *)
StoppedIsGone ==
  \A d \in Device : phase[d] = "idle" =>
    /\ d \notin snapped
    /\ d \in misled \/ ClonesOf(d) = {}

(* Every stop is reported some time, from whatever processes killed before *)
(* have left, but for two states of a LUN.  One has a snapshot and no      *)
(* clone: the rerun of a stop that died between the two deletions, and the *)
(* stop of a start whose CMD_cloneSnap2Lun failed, ask for the mappings of *)
(* an empty id and give up, each time again.  The other has a mapped clone *)
(* and no snapshot: a stop that took the refusal of CMD_dellun for an OK   *)
(* has left it, and a stop without a snapshot takes no mapping away.       *)
Stranded(d) ==
  \/ d \in snapped /\ ClonesOf(d) = {}
  \/ d \notin snapped /\ \E c \in ClonesOf(d) : hosts[c] # {}
StopEndsOrStrands ==
  \A d \in Device : phase[d] = "stopping" ~> phase[d] # "stopping" \/ Stranded(d)
=============================================================================
