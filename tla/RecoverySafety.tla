--------------------------- MODULE RecoverySafety ---------------------------
(***************************************************************************)
(* The inductive invariant behind the safety properties of                 *)
(* RecoveryWorkflow: what is true of a pair in every phase of the plan and *)
(* at every step of the process that handles it, so that a process can be  *)
(* killed there and another one started.  It holds when an exchange of     *)
(* roles is delivered at most once and the arrays leave recovery to the    *)
(* operator.                                                               *)
(***************************************************************************)
EXTENDS RecoveryWorkflow

(* Of all requests only the exchange of roles must not be sent twice. *)
SingleDelivery == "reverse" \in Commands => Addresses = 1
ManualRecovery == AutoRecovery \cap Device = {}

Quiet(d) == pair[d].status \notin Replicating
Opened(d) == pair[d].access = "RW" /\ Quiet(d)
SourceIsHome(d) == pair[d].primary = home[d]

(* Between commands. *)
PhaseInv(d) ==
  /\ phase[d] \in {"protected", "failingOver"} => SourceIsHome(d)
  /\ phase[d] \in {"promoted", "restoring"} => ~SourceIsHome(d)
  /\ phase[d] = "promoted" => Opened(d)
  /\ phase[d] = "reversing" => SourceIsHome(d) \/ Opened(d)

(* What the response says of a device is true of its pair. *)
ReportInv(d) ==
  /\ report[d] # "absent" => phase[d] = UnderWay[cmd]
  /\ d \in todo => report[d] # "absent"
  /\ cmd = "failover" /\ report[d] = "ok" => Opened(d)
  /\ cmd = "reverse" /\ report[d] = "ok" => SourceIsHome(d)

(* What the process knows of the pair of cur, the array having moved on    *)
(* since it was shown.                                                     *)
StepInv ==
  /\ report[cur] # "absent"
  /\ cmd = "failover" =>
       /\ pc \in {"sparse", "suspend"} =>
            /\ local.seen.status \in Suspended => Quiet(cur)
            /\ local.seen.access = "RW" => pair[cur].access = "RW"
       /\ pc = "activate" => Quiet(cur)
       /\ pc \in {"publish", "unshare", "reshare"} => Opened(cur)
       /\ pc = "remap" /\ local.ret = "ok" => Opened(cur)
  /\ cmd = "reverse" =>
       /\ pc = "swap" => ~SourceIsHome(cur)
       /\ pc = "lock" => SourceIsHome(cur)

AtDevice == pc \notin {"idle", "preamble", "next"}

SafetyInv ==
  /\ cmd \in Commands \cup {"none"}
  /\ \A d \in Device : PhaseInv(d)
  /\ pc # "idle" => \A d \in Device : ReportInv(d)
  /\ AtDevice => StepInv

----------------------------------------------------------------------------
(* Neither of these needs what SafetyInv rests on.  A device is answered   *)
(* for once, when the process is through with it.                          *)
PendingInv ==
  /\ \A d \in Device : report[d] # "absent" => phase[d] = UnderWay[cmd]
  /\ \A d \in todo : report[d] = "none"
  /\ AtDevice => report[cur] = "none" /\ cur \notin todo

(* What failover has mapped, or _add_map on FusionStorage after it, before *)
(* it reports the LUN; both sites are mapped then, for the way back.       *)
MappedThere(d) == d \notin FS => MappedAt(d, Other(home[d]))
MappingInv ==
  /\ PendingInv /\ ProductionStaysMapped
  /\ \A d \in Device : phase[d] \in {"promoted", "restoring"} => MappedThere(d)
  /\ cmd = "failover" => \A d \in Device : report[d] = "ok" => MappedThere(d)
  /\ cmd = "failover" /\ AtDevice =>
       /\ local.isNFS => cur \in FS
       /\ pc = "remap" => Fusion
       /\ pc = "publish" => MappedThere(cur)
       /\ ~Fusion /\ pc \in {"show", "sparse", "suspend", "activate"} =>
            MappedThere(cur)
       /\ pc \in {"unshare", "reshare"} => cur \in FS

(* What is synchronized has been locked, where there is no syncOnce. *)
LockInv ==
  /\ cmd \in Commands \cup {"none"}
  /\ cmd = "restore" /\ pc = "resync" => pair[cur].access = "RO"

(* With one device the status the list keeps is that of its own pair. *)
OneDevice == \A d, e \in Device : d = e
RestoredInv ==
  /\ PendingInv
  /\ local.front # "empty" =>
       cmd = "restore" /\ todo = {} /\ pc \in {"next", "lock", "resync"}
  /\ cmd = "restore" /\ pc = "resync" => pair[cur].access = "RO"
  /\ RestoredSplitIsReadOnly
=============================================================================
