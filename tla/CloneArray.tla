----------------------------- MODULE CloneArray -----------------------------
(***************************************************************************)
(* What a test failover leaves on an array that tests on a writable copy:  *)
(* of an OceanStor file system the SRA makes a clone and shares it, of a   *)
(* FusionStorage LUN a snapshot, of that a LUN, and maps this.  Snapshot   *)
(* and clone are known by a name made of the device's id, so a device has  *)
(* one of each at most; the array refuses a name that exists, and to       *)
(* delete a clone that is shared or mapped.  An error of it has a code.    *)
(***************************************************************************)
EXTENDS Naturals, FiniteSets

CONSTANTS
  Device, FS,    \* the devices, and those that are file systems; the others
                 \* are LUNs of a FusionStorage array
  CloneId,       \* the ids the arrays give to clones; they reuse them
  NoObject,      \* the empty id
  Host,          \* the hosts of the access groups
  Addresses      \* number of management addresses of an array

ASSUME CloneAssumption ==
  /\ FS \subseteq Device
  /\ NoObject \notin Device \cup CloneId
  /\ Addresses \in Nat \ {0}

VARIABLES
  snapped,       \* the LUNs with a snapshot VSSRA_SNAPSHOT_PREFIX + id
  cloneOf,       \* the device a clone was made of, or NoObject: no clone
  shared,        \* the clones with an NFS share; it goes by the clone's id
  hosts,         \* the hosts a cloned LUN is mapped to
  stable,        \* from now on no REST call fails and no process is killed
  misled         \* history: the LUNs for which the last command was told OK
                 \* of something that the array has not done

arrayVars == <<snapped, cloneOf, shared, hosts, misled>>

ArrayTypeOK ==
  /\ snapped \subseteq Device \ FS
  /\ cloneOf \in [CloneId -> Device \cup {NoObject}]
  /\ shared \subseteq CloneId
  /\ hosts \in [CloneId -> SUBSET Host]
  /\ stable \in BOOLEAN
  /\ misled \subseteq Device \ FS

ArrayInit ==
  /\ snapped = {}
  /\ cloneOf = [c \in CloneId |-> NoObject]
  /\ shared = {}
  /\ hosts = [c \in CloneId |-> {}]
  /\ stable = FALSE
  /\ misled = {}

ClonesOf(d) == {c \in CloneId : cloneOf[c] = d}

(* The clone can be used by the hosts. *)
Exposed(c) == IF cloneOf[c] \in FS THEN c \in shared ELSE hosts[c] = Host

(* A call that fails may have been executed all the same. *)
Reply == {"ok", "err"}
Outcome == IF stable THEN {"ok"} ELSE Reply
Fails == "err" \in Outcome
Change(var, after, reply) == var' \in {after}
                               \cup (IF reply = "err" THEN {var} ELSE {})

(* CRESTFusionStorage::fullRestPkg reads the code of an error only if it   *)
(* is a string, and returns nothing at all when no address answers: what   *)
(* was refused, or not asked, may also be answered OK.                     *)
Mislead(d, reply) == misled' = IF reply = "ok" THEN misled \cup {d} ELSE misled
FullRestPkg(d, var, after, reply) ==
  \/ Change(var, after, reply) /\ UNCHANGED misled
  \/ Fails /\ UNCHANGED var /\ Mislead(d, reply)
=============================================================================
