----------------------------- MODULE GroupArray -----------------------------
(***************************************************************************)
(* What the SRA protects beside single replication pairs, as the arrays    *)
(* hold it: replication consistency groups, vStore pairs, HyperMetro       *)
(* consistency groups and HyperMetro pairs, here called units.  A unit     *)
(* changes as a whole: the array switches all its members together.  The   *)
(* operators are the REST calls of CRESTCmd on units; as in                *)
(* ReplicationPair one call may be delivered several times, and a call     *)
(* that reports a failure may have been delivered.  The group calls also   *)
(* send a request three times to an array that answers that it is busy,    *)
(* which adds nothing to that: a busy array has not taken the request.     *)
(*                                                                         *)
(* The arrays are external.                                                *)
(***************************************************************************)
EXTENDS Naturals, FiniteSets

CONSTANTS
  ConsistGroup,  \* replication consistency groups (tag RG)
  VStore,        \* vStore pairs, replicated file systems (tag RG too)
  MetroGroup,    \* HyperMetro consistency groups (tag MG)
  MetroPair,     \* HyperMetro pairs outside a group (tag MP)
  Synchronous,   \* the copies in synchronous mode
  Breakable,     \* the units whose link may break
  Isolated,      \* HyperMetro units SRM fails over with isolationRequired
  Sibling,       \* consistency groups of other copies of the same LUNs
  SiblingsOf,    \* [ConsistGroup -> SUBSET Sibling]
  ThreeDC,       \* groups whose LUNs at site A also are in a HyperMetro group
  Addresses      \* number of management addresses of an array

(* The tags and the ids of the tags tell the kinds apart. *)
ASSUME UnitAssumption ==
  /\ ConsistGroup \cap VStore = {} /\ MetroGroup \cap MetroPair = {}
  /\ (ConsistGroup \cup VStore) \cap (MetroGroup \cup MetroPair) = {}
  /\ Synchronous \subseteq ConsistGroup
  /\ Breakable \subseteq ConsistGroup \cup VStore \cup MetroGroup \cup MetroPair
  /\ Isolated \subseteq MetroGroup \cup MetroPair
  /\ SiblingsOf \in [ConsistGroup -> SUBSET Sibling]
  /\ ThreeDC \subseteq ConsistGroup
  /\ Addresses \in Nat \ {0}

VARIABLES
  unit,          \* the units
  sibling,       \* the access of the secondary of each sibling group
  hyper          \* the status of the HyperMetro group at site A of a 3DC group

groupVars == <<unit, sibling, hyper>>

Mirror == ConsistGroup \cup VStore
Metro == MetroGroup \cup MetroPair
Unit == Mirror \cup Metro

Site == {"A", "B"}
Other(site) == IF site = "A" THEN "B" ELSE "A"

Status == {"Normal", "Synchronizing", "Interrupted", "ToBeRecovered",
           "Split", "Pause"}
Replicating == {"Normal", "Synchronizing"}
Access == {"RO", "RW"}

(* A HyperMetro unit is written at both sites while it is Normal, and only *)
(* at its primary, the preferred site, otherwise.                          *)
UnitRecord == [status : Status, primary : Site, access : Access]

GroupArrayTypeOK ==
  /\ unit \in [Unit -> UnitRecord]
  /\ sibling \in [Sibling -> Access]
  /\ hyper \in [ThreeDC -> {"Normal", "Synchronizing", "Pause"}]

WritableAt(u) ==
  {unit[u].primary} \cup
  (IF unit[u].access = "RW" THEN {Other(unit[u].primary)} ELSE {})

GroupArrayInit ==
  /\ unit = [u \in Unit |-> [status |-> "Normal", primary |-> "A",
                             access |-> IF u \in Metro THEN "RW" ELSE "RO"]]
  /\ sibling = [s \in Sibling |-> "RO"]
  /\ hyper = [u \in ThreeDC |-> "Normal"]

----------------------------------------------------------------------------
(* Any REST call may fail. *)
Outcome == {"ok", "err"}

(* What a query returns: the unit as the array holds it, or no row, and    *)
(* always this for an object of another kind.                              *)
NoRow == [status |-> "none", primary |-> "A", access |-> "RO"]
Answered(u, objects) ==
  {NoRow} \cup (IF u \in objects THEN {unit[u]} ELSE {})

CMD_showconsistgrinfo(u) == Answered(u, ConsistGroup)
CMD_showvstorepair_info(u) == Answered(u, VStore)
CMD_showconsistgrhminfo(u) == Answered(u, MetroGroup)

(* The two rows of a HyperMetro pair: the roles come from ISPRIMARY, or    *)
(* from the group when the pair is in one.                                 *)
CMD_showhypermetrolun_all(u) == Answered(u, MetroPair)
CMD_showhypermetroinfo(u) == Answered(u, MetroPair)

----------------------------------------------------------------------------
(* How often a call that returned `reply' reached the array. *)
Deliveries(reply) ==
  IF reply = "ok" THEN 1 .. Addresses ELSE 0 .. Addresses

(* A request whose second delivery changes nothing more. *)
Idempotent(u, reply, after) ==
  \E n \in Deliveries(reply) :
    unit' = IF n = 0 THEN unit ELSE [unit EXCEPT ![u] = after]

Swapped(u) == [unit EXCEPT ![u].primary = Other(unit[u].primary)]

(* CONSISTENTGROUP/switch and vstore_pair/switch exchange the roles at     *)
(* every delivery.                                                         *)
Exchanged(u, reply) ==
  \E n \in Deliveries(reply) : unit' = IF n % 2 = 0 THEN unit ELSE Swapped(u)
CMD_swapconsistgr(u, reply) == Exchanged(u, reply)
CMD_swapvstorepair(u, reply) == Exchanged(u, reply)

CMD_splitconsistgr(u, reply) ==
  Idempotent(u, reply, [unit[u] EXCEPT !.status = "Split"])
CMD_splitvstorepair(u, reply) ==
  Idempotent(u, reply, [unit[u] EXCEPT !.status = "Split"])

CMD_changeCGSlaveLunRw(u, access, reply) ==
  Idempotent(u, reply, [unit[u] EXCEPT !.access = access])
CMD_changeVstorePairSlaveLunRw(u, access, reply) ==
  Idempotent(u, reply, [unit[u] EXCEPT !.access = access])

(* Nothing is synchronized over a link that is down. *)
SyncOutcome(u) == IF unit[u].status = "Interrupted" THEN {"err"} ELSE Outcome
Synchronized(u, reply) ==
  IF unit[u].status \in {"Interrupted", "Normal"}
    THEN UNCHANGED unit
    ELSE Idempotent(u, reply, [unit[u] EXCEPT !.status = "Synchronizing"])
CMD_syncconsistgr(u, reply) ==
  IF unit[u].status = "Interrupted"
    THEN UNCHANGED unit
    ELSE Idempotent(u, reply, [unit[u] EXCEPT !.status = "Synchronizing"])
CMD_syncvstorepair(u, reply) == CMD_syncconsistgr(u, reply)
CMD_syncconsistgrhm(u, reply) == Synchronized(u, reply)
CMD_synchmpair(u, reply) == Synchronized(u, reply)

(* The preferred site of a HyperMetro unit is exchanged while it runs. *)
SwapOutcome(u) == IF unit[u].status = "Normal" THEN Outcome ELSE {"err"}
Preferred(u, reply) ==
  IF unit[u].status = "Normal" THEN Exchanged(u, reply) ELSE UNCHANGED unit
CMD_swapconsistgrhm(u, reply) == Preferred(u, reply)
CMD_swaphypermetro(u, reply) == Preferred(u, reply)

(* A stopped HyperMetro unit is written only at the site that is kept; it  *)
(* is the preferred one unless the request says that the local one is.     *)
Stopped(u, keep) == [status |-> "Pause", primary |-> keep, access |-> "RO"]
Kept(u, local, isPrimary) == IF isPrimary THEN local ELSE unit[u].primary
CMD_stopconsistgrhm(u, local, isPrimary, reply) ==
  Idempotent(u, reply, Stopped(u, Kept(u, local, isPrimary)))
CMD_disablehcpair(u, local, isPrimary, reply) ==
  Idempotent(u, reply, Stopped(u, Kept(u, local, isPrimary)))

----------------------------------------------------------------------------
(* What happens to a unit while no request is being served.                *)
StatusChange(u, from, to) ==
  /\ unit[u].status \in from
  /\ unit' = [unit EXCEPT ![u] =
                [status |-> to, primary |-> unit[u].primary,
                 access |-> IF u \in Mirror THEN unit[u].access
                            ELSE IF to = "Normal" THEN "RW" ELSE "RO"]]
  /\ UNCHANGED <<sibling, hyper>>

SyncCompletes(u) == StatusChange(u, {"Synchronizing"}, "Normal")
PeriodicSync(u)  == u \in Mirror \ Synchronous
                    /\ StatusChange(u, {"Normal"}, "Synchronizing")
LinkBreaks(u)    == u \in Breakable
                    /\ StatusChange(u, Replicating \cup {"ToBeRecovered"},
                                    "Interrupted")
LinkHeals(u)     == StatusChange(u, {"Interrupted"}, "ToBeRecovered")

HyperSyncCompletes(u) ==
  /\ hyper[u] = "Synchronizing"
  /\ hyper' = [hyper EXCEPT ![u] = "Normal"]
  /\ UNCHANGED <<unit, sibling>>

Background ==
  \/ \E u \in Unit : \/ SyncCompletes(u) \/ PeriodicSync(u)
                     \/ LinkBreaks(u)    \/ LinkHeals(u)
  \/ \E u \in ThreeDC : HyperSyncCompletes(u)
=============================================================================
