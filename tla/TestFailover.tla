---------------------------- MODULE TestFailover ----------------------------
(***************************************************************************)
(* Mappings and test failovers of one array, driven by SRM: one process at *)
(* a time over any devices the command is for, killed at any step and run  *)
(* again, until MaxFaults things have gone wrong.                          *)
(***************************************************************************)
EXTENDS TestFailoverStart, TestFailoverStop

Init == ArrayInit /\ ProcessInit

Start == \E c \in Commands : \E D \in SUBSET Lun : Begin(c, D)
ProcessStep == \/ Preamble \/ MapNext \/ AddMapNext \/ StartNext \/ StopNext
               \/ Respond
Next == Start \/ ProcessStep \/ Crash

Spec == Init /\ [][Next]_vars

(* SRM issues the mapping or the stop of d once more. *)
Rerun(d) ==
  \E c \in Commands \ {"start"} : \E D \in SUBSET Lun :
    d \in D /\ phase[d] = UnderWay[c] /\ Begin(c, D)

(* A process runs on until it exits, and the operator reruns a mapping and *)
(* a stop until they are reported as done.                                 *)
Fairness == WF_vars(ProcessStep) /\ \A d \in Lun : SF_vars(Rerun(d))
FairSpec == Spec /\ Fairness

----------------------------------------------------------------------------
TypeOK == ArrayTypeOK /\ ProcessTypeOK

(* Every access group of device d has a host that sees the object. *)
Serves(o, d) == \A g \in GroupsOf[d] : HostsOf(g) \cap SeenBy(o) # {}

(* _add_map answers RETURN_OK only for an object that is mapped to each    *)
(* access group, whatever half-made groups and views it met; and a LUN so  *)
(* mapped stays so while tests come and go.                                *)
MappedIsServed ==
  /\ pc = "mapped" => Serves(local.object, cur)
  /\ \A d \in Lun : phase[d] = "mapped" => Serves(d, d)

(* From the start of a test to its stop, the snapshot that SRM was told of *)
(* is the LUN's own, activated, and mapped to the device's access groups;  *)
(* starts and stops of other devices, or processes that die, leave it so.  *)
TestedIsServed ==
  \A d \in Lun : phase[d] = "testing" =>
    LET s == told[d].snap
    IN s \in active /\ snapOf[s] = d /\ Serves(s, d)

(* No host gets to see a LUN, or a snapshot of it, that is in none of the  *)
(* device's access groups: not through a host group left behind by a test  *)
(* of another LUN whose snapshot had the id the array has now used again.  *)
OnlyAccessGroups ==
  /\ \A d \in Lun : SeenBy(d) \subseteq UNION {HostsOf(g) : g \in GroupsOf[d]}
  /\ \A s \in SnapId : snapOf[s] # Absent =>
       SeenBy(s) \subseteq UNION {HostsOf(g) : g \in GroupsOf[snapOf[s]]}

(* A mapping and a stop that SRM has asked for are some time reported, from *)
(* whatever the processes killed and the calls failed before have left.    *)
MapCompletes == \A d \in Lun : phase[d] = "mapping" ~> phase[d] # "mapping"
StopCompletes == \A d \in Lun : phase[d] = "stopping" ~> phase[d] # "stopping"
=============================================================================
