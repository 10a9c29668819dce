---------------------------- MODULE CloneCommand ----------------------------
(***************************************************************************)
(* One SRA process that starts or stops a test failover on clones, and SRM *)
(* behind it: what the two kinds of device have in common.  The array that *)
(* SRM tests on has devices of one kind.                                   *)
(***************************************************************************)
EXTENDS CloneArray

VARIABLES
  served,        \* SRM: the devices of the array, file systems or LUNs
  phase,         \* SRM: what a device is under
  told,          \* SRM: the clone testFailoverStart named for it
  cmd, pc,
  todo, cur,     \* the devices left in the loop under way, the one at hand
  local,         \* locals and members that outlive a REST call
  report         \* what the response will say

planVars == <<served, phase, told>>
procVars == <<cmd, pc, todo, cur, local, report>>
vars == <<arrayVars, stable, planVars, procVars>>

Clone == CloneId \cup {NoObject}
Phase == {"idle", "starting", "testing", "stopping"}
Result == {"absent", "none", "ok", "err"}
Step == {"idle", "preamble", "check", "operate", "create", "find", "share",
         "unshare", "reshare", "list", "snap", "clone", "map", "mapHost", "identify",
         "showmap", "stop", "findShare", "delShare", "delClone", "showRows", "unmap",
         "delLun", "delSnap", "respond"}

LocalRecord ==
  [found : [Device -> Clone],  \* snapshot_info.snap_id
   nfs   : Clone,              \* strNFSID
   rows  : SUBSET Host,        \* rlstMapInfo of the clone
   wwn   : Clone,              \* device_wwn
   exist : BOOLEAN]            \* isExist
FreshLocal == [found |-> [d \in Device |-> NoObject], nfs |-> NoObject,
               rows |-> {}, wwn |-> NoObject, exist |-> FALSE]

ProcessTypeOK ==
  /\ served \in {FS, Device \ FS}
  /\ phase \in [Device -> Phase]
  /\ told \in [Device -> Clone]
  /\ cmd \in {"none", "start", "stop"} /\ pc \in Step
  /\ todo \subseteq Device /\ cur \in Device \cup {NoObject}
  /\ local \in LocalRecord
  /\ report \in [Device -> Result]

ProcessInit ==
  /\ served \in {FS, Device \ FS}
  /\ phase = [d \in Device |-> "idle"]
  /\ told = [d \in Device |-> NoObject]
  /\ cmd = "none" /\ pc = "idle" /\ todo = {} /\ cur = NoObject
  /\ local = FreshLocal
  /\ report = [d \in Device |-> "absent"]

----------------------------------------------------------------------------
At(c, step) == cmd = c /\ pc = step
Asked == {d \in Device : report[d] # "absent"}

Continue(step) ==
  /\ pc' = step
  /\ UNCHANGED <<cmd, todo, cur, report, planVars, stable>>

(* The device at hand is through the loop at step `here'; after the last   *)
(* one the next loop begins.                                               *)
Proceed(d, here, next) ==
  /\ cur' = NoObject
  /\ pc' = IF todo = {d} THEN next ELSE here
  /\ todo' = IF todo = {d} THEN Asked ELSE todo \ {d}
  /\ UNCHANGED <<cmd, planVars, stable>>

Record(d, result) == report' = [report EXCEPT ![d] = result]

(* The response is an error as a whole, or there is none. *)
Vanish ==
  /\ cmd' = "none" /\ pc' = "idle" /\ todo' = {} /\ cur' = NoObject
  /\ local' = FreshLocal
  /\ report' = [d \in Device |-> "absent"]
  /\ UNCHANGED <<planVars, stable>>
Fail == Fails /\ Vanish /\ UNCHANGED arrayVars

StartsIn == [start |-> {"idle", "starting"},
             stop  |-> {"starting", "testing", "stopping"}]

Begin(c, D) ==
  /\ pc = "idle" /\ D # {} /\ D \subseteq served
  /\ \A d \in D : phase[d] \in StartsIn[c]
  /\ cmd' = c /\ pc' = "preamble" /\ todo' = D
  /\ report' = [d \in Device |-> IF d \in D THEN "none" ELSE "absent"]
  /\ phase' = [d \in Device |-> IF d \notin D THEN phase[d]
                                ELSE IF c = "start" THEN "starting" ELSE "stopping"]
  /\ told' = [d \in Device |-> IF d \in D THEN NoObject ELSE told[d]]
  /\ misled' = misled \ D
  /\ UNCHANGED <<snapped, cloneOf, shared, hosts, stable, served, cur, local>>

Preamble ==
  /\ pc = "preamble"
  /\ \/ /\ Continue(IF cmd = "start" THEN "check"
                    ELSE IF todo \subseteq FS THEN "showmap" ELSE "stop")
        /\ UNCHANGED <<arrayVars, local>>
     \/ Fail

Crash == pc # "idle" /\ Fail

Respond ==
  /\ pc = "respond"
  /\ LET done == {d \in Device : report[d] = "ok"}
     IN /\ phase' = [d \in Device |-> IF d \notin done THEN phase[d]
                                      ELSE IF cmd = "start" THEN "testing" ELSE "idle"]
        /\ told' = IF cmd = "stop" THEN told
                   ELSE [d \in Device |-> IF d \in done THEN local.found[d]
                                                        ELSE told[d]]
  /\ cmd' = "none" /\ pc' = "idle" /\ todo' = {} /\ cur' = NoObject
  /\ local' = FreshLocal
  /\ report' = [d \in Device |-> "absent"]
  /\ UNCHANGED <<arrayVars, stable, served>>

Stabilize == ~stable /\ stable' = TRUE
             /\ UNCHANGED <<arrayVars, planVars, procVars>>

----------------------------------------------------------------------------
(* The beginning of a start.  _check_status_sync_out: a show that fails, a *)
(* pair that is synchronizing, or a file system taken for a LUN (nothing   *)
(* can then be made of its id) is the device's error.                      *)
CheckStatus ==
  /\ At("start", "check")
  /\ \E d \in todo, result \in {"none", "err"} :
       Record(d, result) /\ Proceed(d, "check", "operate")
  /\ UNCHANGED <<arrayVars, local>>

MapLoop == IF Asked \subseteq FS THEN "share" ELSE "map"

(* _operate_snapshot_out.  A show that fails, or names another secondary,  *)
(* returns without an error: the device goes on to the mapping without a   *)
(* clone.                                                                  *)
CopyOf_Snapshot(d) == "snap"
CopyOf(d) == IF d \in FS THEN "create" ELSE "snap"
Operate ==
  /\ At("start", "operate")
  /\ \E d \in todo :
       /\ report[d] = "none"
       /\ \/ /\ cur' = d /\ pc' = CopyOf(d)
             /\ UNCHANGED <<cmd, todo, planVars, stable>>
          \/ Proceed(d, "operate", MapLoop)
  /\ UNCHANGED <<arrayVars, local, report>>
EndOperate(result) == Record(cur, result) /\ Proceed(cur, "operate", MapLoop)

(* A device with an error is passed over by the loops. *)
Skipped(d, here, next) ==
  /\ At("start", here) /\ d \in todo /\ report[d] = "err"
  /\ Proceed(d, here, next)
  /\ UNCHANGED <<arrayVars, local, report>>
SkipDevice ==
  \E d \in Device : \/ Skipped(d, "operate", MapLoop)
                    \/ Skipped(d, "share", "list")
                    \/ Skipped(d, "map", "identify")
                    \/ Skipped(d, "identify", "respond")

----------------------------------------------------------------------------
(* The beginning of a stop: the pair is shown, an error is the device's. *)
EndStop(result) == Record(cur, result) /\ Proceed(cur, "stop", "respond")
StopPick ==
  /\ At("stop", "stop")
  /\ \E d \in todo :
       \/ /\ cur' = d /\ pc' = "find"
          /\ UNCHANGED <<cmd, todo, report, planVars, stable>>
       \/ Fails /\ Record(d, "err") /\ Proceed(d, "stop", "respond")
  /\ UNCHANGED <<arrayVars, local>>
=============================================================================
