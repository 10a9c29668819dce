-------------------------- MODULE ReplicationPair --------------------------
(***************************************************************************)
(* The two OceanStor arrays as the SRA sees them through CRESTCmd: one     *)
(* record per remote replication pair, the LUN mappings and the NFS        *)
(* shares.  The operators are the REST calls that change a pair; each      *)
(* CMD_* call walks the management addresses of the array and sends the    *)
(* request again after a transport error, so one call may be delivered     *)
(* several times, and a call that reports a failure may have been          *)
(* delivered all the same.                                                 *)
(*                                                                         *)
(* The arrays are external: what a delivered request does to a pair is     *)
(* what the code in src/ counts on, and nothing here enforces a            *)
(* precondition the SRA should have checked.                               *)
(***************************************************************************)
EXTENDS Naturals, FiniteSets

CONSTANTS
  Device,        \* replicated LUNs and file systems of one array pair; a
                 \* device also names the pair its target_key carries
  FS,            \* the devices that are file systems
  Sibling,       \* other replication pairs of the same LUNs (3DC layouts)
  SiblingsOf,    \* [Device -> SUBSET Sibling]
  Synchronous,   \* the pairs in synchronous mode
  AutoRecovery,  \* the pairs whose recovery policy is automatic; the SRA
                 \* neither reads nor sets RECOVERYPOLICY
  Fusion,        \* g_bFusionStorage
  Addresses      \* number of management addresses of an array

ASSUME DeviceAssumption ==
  /\ FS \subseteq Device
  /\ Device \cap Sibling = {}
  /\ SiblingsOf \in [Device -> SUBSET Sibling]
  /\ Synchronous \subseteq Device \cup Sibling
  /\ AutoRecovery \subseteq Device \cup Sibling
  /\ Fusion \in BOOLEAN
  /\ Fusion => FS = {}
  /\ Addresses \in Nat \ {0}

VARIABLES
  pair,          \* the replication pairs, as the arrays hold them
  mapped,        \* <<device, site>>: the LUN is mapped to the hosts there
  shared,        \* <<device, site>>: the file system has an NFS share there
  misled         \* history: <<device, site>>, where the last _add_map was told
                 \* OK of a mapping that the array has not made

arrayVars == <<pair, mapped, shared, misled>>

Pair == Device \cup Sibling
Site == {"A", "B"}
Other(site) == IF site = "A" THEN "B" ELSE "A"

Status == {"Normal", "Synchronizing", "Interrupted", "ToBeRecovered", "Split"}
Replicating == {"Normal", "Synchronizing"}   \* the array moves data by itself
Suspended == {"Split", "Interrupted"}        \* what failover takes as such
Access == {"RO", "RW"}                       \* of the secondary

PairRecord == [status : Status, primary : Site, access : Access]
Reply == {"ok", "err"}

ArrayTypeOK ==
  /\ pair \in [Pair -> PairRecord]
  /\ mapped \subseteq Device \X Site
  /\ shared \subseteq Device \X Site
  /\ misled \subseteq Device \X Site

(* The sites whose hosts may write the device of pair p. *)
WritableAt(p) ==
  {pair[p].primary} \cup
  (IF pair[p].access = "RW" THEN {Other(pair[p].primary)} ELSE {})

ArrayInit ==
  /\ pair = [p \in Pair |-> [status |-> "Normal", primary |-> "A",
                             access |-> "RO"]]
  /\ mapped = (Device \ FS) \X {"A"}
  /\ shared = FS \X {"A"}
  /\ misled = {}

----------------------------------------------------------------------------
(* How often a call that returned `reply' reached the array.               *)
Deliveries(reply) ==
  IF reply = "ok" THEN 1 .. Addresses ELSE 0 .. Addresses

(* A request whose second delivery changes nothing more. *)
Idempotent(p, reply, after) ==
  \E n \in Deliveries(reply) :
    pair' = IF n = 0 THEN pair ELSE [pair EXCEPT ![p] = after]

CMD_splithymirror(p, reply) ==
  Idempotent(p, reply, [pair[p] EXCEPT !.status = "Split"])

CMD_changeSlaveRw(p, access, reply) ==
  Idempotent(p, reply, [pair[p] EXCEPT !.access = access])

(* A pair whose link is down has nothing to synchronize over. *)
CMD_synchymirror(p, reply) ==
  IF pair[p].status = "Interrupted"
    THEN UNCHANGED pair
    ELSE Idempotent(p, reply, [pair[p] EXCEPT !.status = "Synchronizing"])

(* REPLICATIONPAIR/switch exchanges the roles at every delivery. *)
CMD_swaphymirror(p, reply) ==
  \E n \in Deliveries(reply) :
    pair' = IF n % 2 = 0 THEN pair
            ELSE [pair EXCEPT ![p].primary = Other(pair[p].primary)]

----------------------------------------------------------------------------
(* What happens to a pair while no request is being served. *)
StatusChange(p, from, to) ==
  /\ pair[p].status \in from
  /\ pair' = [pair EXCEPT ![p].status = to]
  /\ UNCHANGED <<mapped, shared, misled>>

SyncCompletes(p) == StatusChange(p, {"Synchronizing"}, "Normal")
PeriodicSync(p)  == p \notin Synchronous
                    /\ StatusChange(p, {"Normal"}, "Synchronizing")
LinkBreaks(p)    == StatusChange(p, Replicating \cup {"ToBeRecovered"},
                                 "Interrupted")
LinkHeals(p)     == StatusChange(p, {"Interrupted"}, "ToBeRecovered")

(* The array itself does not resume over a writable secondary. *)
Recovers(p)      == p \in AutoRecovery /\ pair[p].access = "RO"
                    /\ StatusChange(p, {"ToBeRecovered"}, "Synchronizing")

Background ==
  \E p \in Pair : \/ SyncCompletes(p) \/ PeriodicSync(p) \/ Recovers(p)
                  \/ LinkBreaks(p)    \/ LinkHeals(p)
=============================================================================
