---------------------------- MODULE HostMapping ----------------------------
(***************************************************************************)
(* What an OceanStor array knows of hosts: initiators belong to hosts,     *)
(* host groups hold hosts, LUN groups hold LUNs and snapshots, and a       *)
(* mapping view joins one host group with one LUN group.  A host sees an   *)
(* object when a view joins a group of the one with a group of the other.  *)
(* The operators are the REST calls of CRESTCmd that change this.          *)
(*                                                                         *)
(* The SRA names every group and view it makes after the object they are   *)
(* for and a number; a name stands for the id here.  The array is          *)
(* external: it refuses to delete what is in use, and to give an initiator *)
(* to a second host.                                                       *)
(***************************************************************************)
EXTENDS Naturals, FiniteSets

CONSTANTS
  Lun,           \* the replicated LUNs of the array
  SnapId,        \* the ids the array gives to snapshots; it reuses them
  NoObject,      \* the empty id
  Host,          \* the hosts that are there from the beginning
  Initiator, AccessGroup,
  InitiatorsOf,  \* [AccessGroup -> SUBSET Initiator]
  GroupsOf,      \* [Lun -> SUBSET AccessGroup]: cg_accessgroups
  InitialHost,   \* [Initiator -> Host \cup {NoHost}]
  NoHost,        \* of an initiator that is free
  Absent,        \* a group, view or snapshot that does not exist
  MaxFaults,     \* how many REST calls may fail and processes be killed
  GroupedStays   \* the array refuses to delete a snapshot in a LUN group

Object == Lun \cup SnapId \cup {NoObject}
AnyHost == Host \cup (Object \X AccessGroup)   \* the latter made by the SRA

(* Each failure leaves at most one group or view behind that is not used   *)
(* again, so no search goes further than this.                             *)
Suffix == 1 .. MaxFaults + 1
Name == Object \X Suffix
ViewRecord == [hosts : SUBSET Name, luns : SUBSET Name]

ASSUME MappingAssumption ==
  /\ IsFiniteSet(Initiator) /\ IsFiniteSet(AccessGroup)
  /\ Lun \cap SnapId = {} /\ NoObject \notin Lun \cup SnapId
  /\ InitiatorsOf \in [AccessGroup -> SUBSET Initiator]
  /\ GroupsOf \in [Lun -> SUBSET AccessGroup]
  /\ NoHost \notin AnyHost
  /\ InitialHost \in [Initiator -> Host \cup {NoHost}]
  /\ MaxFaults \in Nat
  /\ GroupedStays \in BOOLEAN
  /\ Absent \notin Lun /\ Absent \notin Name /\ Absent \notin ViewRecord
  /\ \A group \in (SUBSET AnyHost) \cup (SUBSET Object) : group # Absent

VARIABLES
  hostOf,        \* the host an initiator belongs to
  sraHosts,      \* the hosts the SRA has made
  hostGroup, lunGroup, view,
  snapOf,        \* the LUN a snapshot was taken of, under the one name
                 \* VSSRA_SNAPSHOT_PREFIX + LUN id, or Absent
  active,        \* the snapshots that are activated
  faults         \* failures and kills so far

groupVars == <<hostGroup, lunGroup, view>>
hostVars == <<hostOf, sraHosts>>
snapVars == <<snapOf, active>>
arrayVars == <<hostVars, groupVars, snapVars>>

ArrayTypeOK ==
  /\ hostOf \in [Initiator -> AnyHost \cup {NoHost}]
  /\ sraHosts \subseteq Object \X AccessGroup
  /\ DOMAIN hostGroup = Name /\ DOMAIN lunGroup = Name /\ DOMAIN view = Name
  /\ \A n \in Name :
       /\ hostGroup[n] = Absent \/ hostGroup[n] \in SUBSET AnyHost
       /\ lunGroup[n] = Absent \/ lunGroup[n] \in SUBSET Object
       /\ view[n] = Absent \/ view[n] \in ViewRecord
  /\ snapOf \in [SnapId -> Lun \cup {Absent}]
  /\ active \subseteq SnapId
  /\ faults \in 0 .. MaxFaults

ArrayInit ==
  /\ hostOf = InitialHost
  /\ sraHosts = {}
  /\ hostGroup = [n \in Name |-> Absent]
  /\ lunGroup = [n \in Name |-> Absent]
  /\ view = [n \in Name |-> Absent]
  /\ snapOf = [s \in SnapId |-> Absent]
  /\ active = {}
  /\ faults = 0

----------------------------------------------------------------------------
(* What can be asked. *)
ViewsOf(o) ==                \* o's entries in the list of CMD_showmap
  {v \in Name :
     /\ view[v] # Absent
     /\ view[v].hosts # {}
     /\ \E l \in view[v].luns : o \in lunGroup[l]}

HostsThrough(V) ==
  UNION {UNION {hostGroup[g] : g \in view[v].hosts} : v \in V}
SeenBy(o) == HostsThrough(ViewsOf(o))

HostsOf(group) == {hostOf[i] : i \in InitiatorsOf[group]} \ {NoHost}

Attached(group) == \E v \in Name : /\ view[v] # Absent
                                   /\ group \in view[v].hosts
Joined(group) == \E v \in Name : /\ view[v] # Absent
                                 /\ group \in view[v].luns

SnapshotsOf(lun) == {s \in SnapId : snapOf[s] = lun}

----------------------------------------------------------------------------
(* A call that fails may have been executed all the same. *)
Reply == {"ok", "err"}
Outcome == IF faults < MaxFaults THEN Reply ELSE {"ok"}

Answers(reply) ==
  /\ reply \in Outcome
  /\ faults' = IF reply = "err" THEN faults + 1 ELSE faults

Change(var, after, reply) == var' \in {after}
                               \cup (IF reply = "err" THEN {var} ELSE {})
=============================================================================
