-------------------------- MODULE RecoveryWorkflow --------------------------
(***************************************************************************)
(* A recovery plan driven by SRM through the SRA: one process at a time,   *)
(* the two arrays changing on their own beside it, REST calls failing and  *)
(* processes killed at any step until the system becomes stable.           *)
(***************************************************************************)
EXTENDS FailOver, ReverseReplication, RestoreReplication, SyncOnce

vars == <<arrayVars, planVars, procVars, stable>>

Init == ArrayInit /\ CommandInit

(* SRM starts a command for some devices. *)
Start == \E c \in Commands : \E D \in SUBSET Device : Begin(c, D)

ProcessStep ==
  \/ Preamble \/ FailOverNext \/ ReverseNext \/ RestoreNext \/ SyncNext
  \/ Finish

ArrayStep ==
  /\ Background
  /\ UNCHANGED <<planVars, procVars, stable>>

Next == Start \/ ProcessStep \/ Crash \/ ArrayStep \/ Stabilize

Spec == Init /\ [][Next]_vars

(* SRM issues the command under way for device d once more. *)
Rerun(d) ==
  \E c \in Commands : \E D \in SUBSET Device :
    d \in D /\ c # "sync" /\ phase[d] = UnderWay[c] /\ Begin(c, D)

(* A process runs on until it exits, the operator reruns the plan as long  *)
(* as a device is not done, and the failures end.                          *)
Fairness ==
  /\ WF_vars(ProcessStep)
  /\ WF_vars(Stabilize)
  /\ \A d \in Device : SF_vars(Rerun(d))

FairSpec == Spec /\ Fairness

----------------------------------------------------------------------------
TypeOK == ArrayTypeOK /\ PlanTypeOK /\ ProcessTypeOK

(* SRM takes a site for production from the moment failover is reported    *)
(* until it asks for a restore.  Whatever is killed, retried or answered   *)
(* by half in between, the hosts there can write: the access granted by    *)
(* failover outlives the exchange of roles, and reverseReplication         *)
(* withdraws it only from the side that has become the secondary.          *)
ProductionStaysWritable ==
  \A d \in Device : phase[d] # "restoring" => home[d] \in WritableAt(d)

(* As far as SRM can be told: on FusionStorage the answer to the request   *)
(* for the mapping may be misread.                                         *)
MappedAt(d, site) ==
  \/ <<d, site>> \in mapped
  \/ Fusion /\ <<d, site>> \in misled

(* A LUN stays mapped to the hosts where production runs, although a rerun *)
(* on FusionStorage first unmounts what an earlier run had mapped; only    *)
(* where CMD_maplun2host of FusionStorage took an error for an OK, in the  *)
(* very run that reported the LUN, do the hosts not see it.                *)
ProductionStaysMapped ==
  \A d \in Device \ FS : MappedAt(d, home[d])

(* Data starts to flow only away from the site where production runs; the  *)
(* one exception is a restore, which gives the data there up.              *)
ReplicationRunsFromProduction ==
  [][\A d \in Device :
       pair[d].status \notin Replicating /\ pair'[d].status \in Replicating
         => pair'[d].primary = home[d] \/ phase[d] = "restoring"]_vars

(* No device is made writable at its secondary while the array replicates  *)
(* to it: every path of failover that grants access has suspended the pair *)
(* or seen it suspended, and it still is.                                  *)
WritableOnlySuspended ==
  [][\A d \in Device :
       pair[d].access = "RO" /\ pair'[d].access = "RW"
         => pair[d].status \notin Replicating]_vars

(* No synchronization starts over a secondary the hosts may write. *)
SyncOnlyOntoReadOnly ==
  [][\A d \in Device :
       pair[d].status \notin Replicating /\ pair'[d].status \in Replicating
         => pair'[d].access = "RO"]_vars

(* Once reverseReplication or restoreReplication is reported, the site     *)
(* that is no longer production is read-only again.                        *)
ProtectedPeerIsReadOnly ==
  \A d \in Device : phase[d] = "protected" => pair[d].access = "RO"

(* What restoreReplication reports as restored and is still Split has been *)
(* locked: each device is judged by the status of its own pair.            *)
RestoredSplitIsReadOnly ==
  \A d \in Device :
    cmd = "restore" /\ report[d] = "ok" /\ pair[d].status = "Split"
      => pair[d].access = "RO"

(* A device SRM takes for protected replicates from where production runs: *)
(* reverseReplication has made the former target the source, exactly once. *)
ProtectedFromProduction ==
  \A d \in Device : phase[d] = "protected" => pair[d].primary = home[d]

(* The contract of RecoveryPlan. *)
Plan == INSTANCE RecoveryPlan
          WITH source <- [d \in Device |-> pair[d].primary],
               writable <- [d \in Device |-> WritableAt(d)]
PlanContract == Plan!Spec

(* A failover or a reverse SRM has asked for is some time reported done,   *)
(* from whatever state the failed and killed runs before have left.        *)
FailoverCompletes ==
  \A d \in Device : phase[d] = "failingOver" ~> phase[d] # "failingOver"
ReverseCompletes ==
  \A d \in Device : phase[d] = "reversing" ~> phase[d] # "reversing"
=============================================================================
