----------------------------- MODULE SraCommand -----------------------------
(***************************************************************************)
(* One SRA process: SRM starts it for one command over some devices, it    *)
(* logs in and checks the array, handles the devices one after the other,  *)
(* writes its response and exits.  Nothing survives it but what it has     *)
(* done to the arrays.  The steps of each command are in the modules that  *)
(* extend this one; here are the frame they share and the protocol of SRM, *)
(* which starts a command only for devices in the phase the command is     *)
(* for, and reruns a command until the devices are reported.               *)
(***************************************************************************)
EXTENDS ReplicationPair

CONSTANTS
  Commands,      \* the commands SRM issues, a subset of Command
  NoDevice       \* cur when no device is being handled

Command == {"failover", "reverse", "restore", "sync"}
Phase == {"protected", "failingOver", "promoted", "reversing", "restoring"}

ASSUME CommandAssumption ==
  /\ Commands \subseteq Command
  /\ NoDevice \notin Device

VARIABLES
  home, phase,   \* SRM's recovery plan: where production runs, what is under way
  cmd, todo,     \* the command running, the devices it has still to handle
  pc, cur,       \* its next step, the device it handles
  local,         \* the C++ locals and members that outlive a REST call
  report,        \* what the response will say of each device
  stable         \* from now on no REST call fails and no process is killed

planVars == <<home, phase>>
procVars == <<cmd, todo, pc, cur, local, report>>

(* "absent": not asked for; "none": nothing recorded yet; "silent": neither *)
(* <Success> nor <Error> is written for the device.                         *)
Result == {"absent", "none", "ok", "err", "silent"}
Step == {"idle", "preamble", "next", "classify", "expose", "show", "sparse",
         "suspend", "activate", "remap", "publish", "unshare", "reshare", "swap",
         "lock", "resync", "inquire", "sync"}

LocalRecord ==
  [isNFS : BOOLEAN,                \* SraBasic::isNFS
   seen  : PairRecord,             \* the rows the last show returned
   rest  : SUBSET Sibling,         \* sibling pairs still to be visited
   ret   : Reply,                  \* iRet of _exec_hymirror_failover_out
   nfs   : Device \cup {NoDevice}, \* the device whose share strNFSID names
   front : Status \cup {"empty"}]  \* lst_pair_status.front()

NoPair == [status |-> "Normal", primary |-> "A", access |-> "RO"]
FreshLocal == [isNFS |-> FALSE, seen |-> NoPair, rest |-> {}, ret |-> "ok",
               nfs |-> NoDevice, front |-> "empty"]

PlanTypeOK ==
  /\ home \in [Device -> Site]
  /\ phase \in [Device -> Phase]

ProcessTypeOK ==
  /\ cmd \in Command \cup {"none"}
  /\ todo \subseteq Device
  /\ pc \in Step
  /\ cur \in Device \cup {NoDevice}
  /\ local \in LocalRecord
  /\ report \in [Device -> Result]
  /\ stable \in BOOLEAN

CommandInit ==
  /\ home = [d \in Device |-> "A"]
  /\ phase = [d \in Device |-> "protected"]
  /\ cmd = "none" /\ todo = {}
  /\ pc = "idle" /\ cur = NoDevice
  /\ local = FreshLocal
  /\ report = [d \in Device |-> "absent"]
  /\ stable = FALSE

----------------------------------------------------------------------------
(* The frame of a step: where the process goes next and what it records.   *)
Outcome == IF stable THEN {"ok"} ELSE Reply

(* CMD_synchymirror is refused while the link is down. *)
SyncOutcome(p) == IF pair[p].status = "Interrupted" THEN {"err"} ELSE Outcome

At(c, step) == cmd = c /\ pc = step

Continue(step) ==
  /\ pc' = step
  /\ UNCHANGED <<cmd, todo, cur, report, planVars, stable>>

Answer(result) ==
  /\ report' = [report EXCEPT ![cur] = result]
  /\ pc' = "next"
  /\ UNCHANGED <<cmd, todo, cur, planVars, stable>>

(* A `return' out of the device loop: the remaining devices stay unhandled. *)
Abandon(result) ==
  /\ report' = [report EXCEPT ![cur] = result]
  /\ pc' = "next" /\ todo' = {}
  /\ UNCHANGED <<cmd, cur, planVars, stable>>

Vanish ==
  /\ cmd' = "none" /\ todo' = {}
  /\ pc' = "idle" /\ cur' = NoDevice
  /\ local' = FreshLocal
  /\ report' = [d \in Device |-> "absent"]

----------------------------------------------------------------------------
(* SRM's side of the protocol. *)
StartsIn == [failover |-> {"protected", "failingOver"},
             reverse  |-> {"promoted", "reversing"},
             restore  |-> {"promoted", "restoring"},
             sync     |-> {"protected"}]
UnderWay == [failover |-> "failingOver", reverse |-> "reversing",
             restore |-> "restoring", sync |-> "protected"]
Reached == [failover |-> "promoted", reverse |-> "protected",
            restore |-> "protected", sync |-> "protected"]

(* The array the command is sent to: the recovery array for failover, the  *)
(* new source for reverseReplication, the original source for              *)
(* restoreReplication, the source for syncOnce.                            *)
RunsAt(c, d) == IF c \in {"failover", "restore"} THEN Other(home[d])
                                                 ELSE home[d]

Begin(c, D) ==
  /\ pc = "idle"
  /\ c \in Commands
  /\ D # {}
  /\ \A d \in D : phase[d] \in StartsIn[c]
  /\ \A d, e \in D : home[d] = home[e]
  /\ cmd' = c /\ todo' = D /\ pc' = "preamble"
  /\ report' = [d \in Device |-> IF d \in D THEN "none" ELSE "absent"]
  /\ phase' = [d \in Device |-> IF d \in D THEN UnderWay[c] ELSE phase[d]]
  /\ UNCHANGED <<arrayVars, home, cur, local, stable>>

(* SetStorageInfo, _get_array_info, check_array_id_validate_out and, for   *)
(* failover, CMD_showmap: a failure makes the whole response an error.     *)
Preamble ==
  /\ pc = "preamble"
  /\ UNCHANGED <<arrayVars, planVars, stable>>
  /\ \/ pc' = "next" /\ UNCHANGED <<cmd, todo, cur, local, report>>
     \/ "err" \in Outcome /\ Vanish

(* The process is killed, or its response is lost: an error of a part of   *)
(* the command that has no devices here (consistency groups, HyperMetro)   *)
(* replaces the whole response by one error.                               *)
Crash ==
  /\ pc # "idle" /\ ~stable
  /\ Vanish
  /\ UNCHANGED <<arrayVars, planVars, stable>>

Finish ==
  /\ pc = "next" /\ todo = {}
  /\ LET done == {d \in Device : report[d] = "ok"}
     IN /\ phase' = [d \in Device |-> IF d \in done THEN Reached[cmd]
                                                    ELSE phase[d]]
        /\ home' = [d \in Device |-> IF d \in done THEN
                                       IF cmd \in {"failover", "restore"}
                                         THEN Other(home[d]) ELSE home[d]
                                     ELSE home[d]]
  /\ Vanish
  /\ UNCHANGED <<arrayVars, stable>>

(* The next device of the list; the order of the list is SRM's. *)
PickDevice(c, step) ==
  /\ At(c, "next")
  /\ \E d \in todo : cur' = d /\ todo' = todo \ {d}
  /\ pc' = step
  /\ local' = [FreshLocal EXCEPT !.nfs = local.nfs, !.front = local.front]
  /\ UNCHANGED <<arrayVars, cmd, report, planVars, stable>>

(* The network and the arrays stop failing, once and for all. *)
Stabilize == /\ ~stable /\ stable' = TRUE
             /\ UNCHANGED <<arrayVars, planVars, procVars>>
=============================================================================
