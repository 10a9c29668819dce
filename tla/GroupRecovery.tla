---------------------------- MODULE GroupRecovery ----------------------------
(***************************************************************************)
(* The recovery cycle of SRM over consistency groups, vStore pairs and     *)
(* HyperMetro units: one process at a time, the arrays changing on their   *)
(* own, any call failing and the process killed at any moment.             *)
(***************************************************************************)
EXTENDS GroupReverse, GroupRestore

vars == <<groupVars, planVars, procVars>>

Init == GroupArrayInit /\ CommandInit

Start == \E c \in Commands : \E U \in SUBSET Unit : Begin(c, U)

ProcessStep ==
  \/ Preamble \/ PickUnit \/ Finish
  \/ PrepareFailoverNext \/ GroupFailOverNext
  \/ PrepareReverseNext \/ GroupReverseNext
  \/ GroupRestoreNext \/ GroupSyncNext

ArrayStep == Background /\ UNCHANGED <<planVars, procVars>>

Next == Start \/ ProcessStep \/ Crash \/ ArrayStep

Spec == Init /\ [][Next]_vars

----------------------------------------------------------------------------
TypeOK == GroupArrayTypeOK /\ CommandTypeOK

(* SRM takes a site for production from the moment failover is reported    *)
(* until it asks for a restore; the hosts there can write the copies.      *)
CopyStaysWritable ==
  \A u \in Mirror : phase[u] # "restoring" => home[u] \in WritableAt(u)

(* The hosts where production runs can write a HyperMetro group through    *)
(* failover, prepareReverse and reverse: failover makes the recovery array *)
(* the preferred one before it stops the group, and refuses to report it   *)
(* as long as the array is not the master.                                 *)
MetroServesProduction ==
  \A u \in MetroGroup :
    phase[u] \in {"promoted", "unwinding", "unwound", "reversing", "reversed"}
      => home[u] \in WritableAt(u)

(* Once reverse is reported a copy runs from where production runs: the    *)
(* roles are exchanged once, however often reverse is rerun.               *)
ReversedFromProduction ==
  \A u \in Mirror :
    phase[u] \in {"reversed", "protected", "preparing", "prepared"}
      => unit[u].primary = home[u]

(* No copy is opened at the secondary while the array replicates to it.    *)
CopyOpensSuspended ==
  [][\A u \in Mirror :
       unit[u].access = "RO" /\ unit'[u].access = "RW"
         => unit[u].status \notin Replicating]_vars

(* A restore overwrites a copy only once its secondary is shut to hosts:   *)
(* the data they wrote there since the failover is what SRM gives up.      *)
RestoreOverwritesShut ==
  [][\A u \in Mirror :
       cmd = "restore" /\ cur = u /\ unit[u].status \notin Replicating
         /\ unit'[u].status = "Synchronizing"
           => unit[u].access = "RO"]_vars

(* The other copies of a group follow it: all of them are writable when    *)
(* failover is reported, and none from the report of prepareReverse to     *)
(* that of reverse.                                                        *)
SiblingsFollow ==
  \A u \in ConsistGroup : \A s \in SiblingsOf[u] :
    /\ phase[u] = "promoted" => sibling[s] = "RW"
    /\ phase[u] \in {"unwound", "reversing", "reversed"} => sibling[s] = "RO"

(* A HyperMetro unit failed over with isolation is written only at the     *)
(* site it was failed over to: the other one may come back at any time.    *)
IsolatedSiteIsShut ==
  \A u \in Isolated : phase[u] = "promoted" => WritableAt(u) = {home[u]}

(* What SRM promises of a recovery plan, for copies: the additional phases *)
(* of preparing are those of RecoveryPlan they belong to.                  *)
PlanPhase ==
  [preparing |-> "protected", prepared |-> "protected",
   unwinding |-> "promoted", unwound |-> "promoted",
   reversed |-> "protected", protected |-> "protected",
   failingOver |-> "failingOver", promoted |-> "promoted",
   reversing |-> "reversing", restoring |-> "restoring"]
Plan == INSTANCE RecoveryPlan
          WITH Device <- Mirror,
               home <- [u \in Mirror |-> home[u]],
               phase <- [u \in Mirror |-> PlanPhase[phase[u]]],
               source <- [u \in Mirror |-> unit[u].primary],
               writable <- [u \in Mirror |-> WritableAt(u)]
CopyContract == Plan!Spec
=============================================================================
