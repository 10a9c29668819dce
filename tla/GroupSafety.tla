----------------------------- MODULE GroupSafety -----------------------------
(***************************************************************************)
(* The inductive invariants behind the safety properties of GroupRecovery: *)
(* what is true of a unit in every phase of the plan and at every step of  *)
(* the process that handles it.  They are apart from each other because    *)
(* they rest on different things: only CopyInv needs that an exchange of   *)
(* roles is not delivered twice, and only SiblingInv that no two groups    *)
(* have a sibling in common.                                               *)
(***************************************************************************)
EXTENDS GroupRecovery

(* An exchange of roles must not be sent twice. *)
SingleDelivery == "reverse" \in Commands => Addresses = 1

(* The other copies of the LUNs of a group are in groups of their own. *)
OwnSiblings ==
  \A u, v \in ConsistGroup : u # v => SiblingsOf[u] \cap SiblingsOf[v] = {}

----------------------------------------------------------------------------
(* The process: it serves units in the phase of its command, and handles   *)
(* one of them, of the kind the step is for.                               *)
Serving ==
  [prepareFailover |-> {"preparing"}, failover |-> {"failingOver"},
   prepareReverse |-> {"unwinding"}, reverse |-> {"reversing"},
   restore |-> {"restoring"}, sync |-> {"protected", "reversed"}]

(* The steps at which cur is handled; resync of reverse is about all the   *)
(* HyperMetros of the command.                                             *)
UnitSteps == Step \ {"idle", "preamble", "find", "hypers", "next", "done"}
AtUnit == pc \in UnitSteps /\ ~(cmd = "reverse" /\ pc = "resync")

KindInv ==
  /\ cmd = "prepareReverse" => cur \in Mirror
  /\ pc \in {"sparse", "suspend", "activate", "lock"} => cur \in Mirror
  /\ pc \in {"map", "inquire", "stop", "show again"} => cur \in Metro
  /\ pc = "swap" /\ cmd # "reverse" => cur \in Metro

ProcessInv ==
  /\ pc = "idle" => NoProcess
  /\ pc # "idle" => /\ cmd \in Commands
                    /\ \A u \in asked : phase[u] \in Serving[cmd]
  /\ pc \in {"preamble", "find", "hypers"} => todo = asked
  /\ AtUnit => cur \in asked /\ KindInv

TypeInv == TypeOK /\ ProcessInv

----------------------------------------------------------------------------
Quiet(u) == unit[u].status \notin Replicating
Opened(u) == unit[u].access = "RW"
SourceIsHome(u) == unit[u].primary = home[u]

(* What the process knows of the copy it handles, the array having moved   *)
(* on since it was shown.                                                  *)
KnownInv ==
  /\ At("failover", "sparse") \/ At("failover", "suspend") =>
       /\ local.seen.status \in Suspended => Quiet(cur)
       /\ local.seen.access = "RW" => Opened(cur)
  /\ At("failover", "activate") => Quiet(cur)
  /\ At("failover", "members") /\ cur \in Mirror => Opened(cur)
  /\ At("restore", "resync") /\ cur \in Mirror => ~Opened(cur)

(* A copy between commands, and what the response will say of it. *)
PhaseInv(u) ==
  /\ phase[u] \in {"protected", "preparing", "prepared", "failingOver",
                   "reversed"} => SourceIsHome(u)
  /\ phase[u] \in {"promoted", "unwinding", "unwound"} =>
       ~SourceIsHome(u) /\ Opened(u)
  /\ phase[u] = "reversing" => SourceIsHome(u) \/ Opened(u)
  /\ phase[u] = "restoring" => ~SourceIsHome(u)
ReportInv(u) ==
  u \in asked /\ report[u] = "ok" =>
    /\ cmd = "failover" => Opened(u)
    /\ cmd = "reverse" => SourceIsHome(u)

(* The roles are exchanged once: before, they are not yet; after, they are. *)
TurnInv ==
  /\ At("reverse", "swap") /\ cur \in Mirror => ~SourceIsHome(cur)
  /\ At("reverse", "lock") => SourceIsHome(cur)

CopyInv == TurnInv /\ \A u \in Mirror : PhaseInv(u) /\ ReportInv(u)

----------------------------------------------------------------------------
(* A unit is handled once, and nothing is said of it before.  Only          *)
(* prepareReverse reports units it has not come to.                        *)
PendingInv ==
  /\ AtUnit => cur \notin todo
  /\ cmd = "failover" =>
       \A u \in todo \cup (IF AtUnit THEN {cur} ELSE {}) : report[u] = "none"

(* A HyperMetro group from the report of failover to that of reverse: the  *)
(* production array is its master, and reverse never comes to a swap.      *)
MetroPhases == {"promoted", "unwinding", "unwound", "reversing", "reversed"}
MetroInv(u) ==
  /\ phase[u] \in MetroPhases => SourceIsHome(u)
  /\ u \in asked /\ cmd = "failover" /\ report[u] = "ok" => ~SourceIsHome(u)
  /\ cmd = "reverse" /\ cur = u =>
       /\ pc \in {"map", "inquire"} => local.seen.primary = home[u]
       /\ pc # "swap"

MetroGroupInv == PendingInv /\ \A u \in MetroGroup : MetroInv(u)

----------------------------------------------------------------------------
(* The siblings of a group, while they are visited and after. *)
Follow(siblings, access) == \A s \in siblings : sibling[s] = access

SiblingsVisited(u) ==
  /\ At("failover", "sparse") /\ cur = u =>
       Follow(SiblingsOf[u] \ local.rest, "RW")
  /\ cmd = "failover" /\ cur = u /\ pc \in {"suspend", "activate", "members"} =>
       Follow(SiblingsOf[u], "RW")
  /\ At("prepareReverse", "sparse") /\ cur = u =>
       Follow(SiblingsOf[u] \ local.rest, "RO")

(* The siblings still to be visited are those of the group at hand. *)
RestInv ==
  pc = "sparse" => cur \in ConsistGroup /\ local.rest \subseteq SiblingsOf[cur]

(* prepareReverse reports a success before it visits the siblings, and     *)
(* takes it back when it fails.                                            *)
UnwindDone(u) ==
  /\ cmd = "prepareReverse" /\ pc \in {"next", "show", "sparse"}
  /\ u \notin todo /\ ~(cur = u /\ pc \in {"show", "sparse"})

SiblingInv(u) ==
  /\ phase[u] = "promoted" => Follow(SiblingsOf[u], "RW")
  /\ phase[u] \in {"unwound", "reversing", "reversed"} =>
       Follow(SiblingsOf[u], "RO")
  /\ u \in asked /\ report[u] = "ok" =>
       /\ cmd = "failover" => Follow(SiblingsOf[u], "RW")
       /\ UnwindDone(u) => Follow(SiblingsOf[u], "RO")
  /\ SiblingsVisited(u)

SiblingsInv == RestInv /\ \A u \in ConsistGroup : SiblingInv(u)

IInv == TypeInv /\ KnownInv /\ CopyInv /\ MetroGroupInv /\ SiblingsInv
=============================================================================
