------------------------- MODULE TestFailoverStart -------------------------
(***************************************************************************)
(* testFailoverStart for LUNs: TestFailoverStart::_outband_process makes   *)
(* four loops over the devices,                                            *)
(*                                                                         *)
(*   check     the pair must not be synchronizing                          *)
(*   operate   -> create -> find -> activate -> time: a snapshot           *)
(*   map       _add_map of the snapshot                                    *)
(*   list -> identify: the WWN of the snapshot, from the list of mappings  *)
(*                                                                         *)
(* A device with an error is passed over by the loops after it.            *)
(***************************************************************************)
EXTENDS AddMap

Skipped(d, here, next) ==
  /\ At("start", here) /\ d \in todo /\ report[d] = "err"
  /\ Proceed(d, here, next)
  /\ UNCHANGED <<arrayVars, faults, local, report>>
SkipDevice ==
  \E d \in Lun : \/ Skipped(d, "operate", "map")
                 \/ Skipped(d, "map", "list")
                 \/ Skipped(d, "identify", "respond")

(* _check_status_sync_out; whether the pair is synchronizing is up to it. *)
CheckStatus ==
  /\ At("start", "check")
  /\ \E d \in todo, result \in {"none", "err"} :
       /\ Record(d, result) /\ Proceed(d, "check", "operate")
  /\ UNCHANGED <<arrayVars, faults, local>>

(* _operate_snapshot_out.  A show that fails returns without an error: the *)
(* device goes on to the mapping without a snapshot. *)
Operate ==
  /\ At("start", "operate")
  /\ \E d \in todo :
       /\ report[d] = "none"
       /\ \/ /\ cur' = d /\ pc' = "create"
             /\ UNCHANGED <<cmd, todo, planVars, faults>>
          \/ Answers("err") /\ Proceed(d, "operate", "map")
  /\ UNCHANGED <<arrayVars, local, report>>

EndOperate(result) == Record(cur, result) /\ Proceed(cur, "operate", "map")

(* CMD_createhyimg, refused while a snapshot has the name. *)
CreateSnapshot ==
  /\ At("start", "create")
  /\ \/ /\ SnapshotsOf(cur) # {}
        /\ EndOperate("err") /\ UNCHANGED <<snapOf, faults>>
     \/ /\ SnapshotsOf(cur) = {}
        /\ \E reply \in Reply, s \in SnapId :
             /\ snapOf[s] = Absent
             /\ Answers(reply)
             /\ Change(snapOf, [snapOf EXCEPT ![s] = cur], reply)
             /\ IF reply = "ok" THEN Continue("find") ELSE EndOperate("err")
  /\ UNCHANGED <<active, hostVars, groupVars, local>>

(* _get_snapshot_info_out: the snapshot of the LUN by its name.  When it   *)
(* cannot be shown, the active time is asked for with an empty id, and     *)
(* that is an error: at most the new snapshot answers, not yet active.     *)
FindSnapshot ==
  /\ At("start", "find")
  /\ \/ /\ \E s \in SnapshotsOf(cur) :
             local' = [local EXCEPT !.found[cur] = s]
        /\ Continue("activate") /\ UNCHANGED faults
     \/ Answers("err") /\ EndOperate("err") /\ UNCHANGED local
  /\ UNCHANGED arrayVars

ActivateSnapshot ==
  /\ At("start", "activate")
  /\ \E reply \in Reply :
       /\ Answers(reply)
       /\ Change(active, active \cup {local.found[cur]}, reply)
       /\ IF reply = "ok" THEN Continue("time") ELSE EndOperate("err")
  /\ UNCHANGED <<snapOf, hostVars, groupVars, local>>

(* _get_active_time_out: a snapshot without a time stamp is not active. *)
ActiveTime ==
  /\ At("start", "time")
  /\ \/ /\ EndOperate(IF local.found[cur] \in active THEN "none" ELSE "err")
        /\ UNCHANGED faults
     \/ Answers("err") /\ EndOperate("err")
  /\ UNCHANGED <<arrayVars, local>>

----------------------------------------------------------------------------
(* _map_snapshot_to_host_out: a failed _add_map is the end of the command. *)
MapSnapshot ==
  /\ At("start", "map")
  /\ \E d \in todo :
       /\ report[d] = "none"
       /\ cur' = d
       /\ local' = [local EXCEPT !.object = local.found[d], !.n = 1,
                                 !.hosts = Absent, !.luns = Absent, !.join = Absent]
  /\ pc' = "select"
  /\ UNCHANGED <<cmd, todo, report, arrayVars, faults, planVars>>
SnapshotMapped ==
  /\ At("start", "mapped")
  /\ Proceed(cur, "map", "list")
  /\ UNCHANGED <<arrayVars, faults, local, report>>
SnapshotNotMapped ==
  /\ At("start", "unmapped")
  /\ Vanish /\ UNCHANGED <<arrayVars, faults, planVars>>

(* _get_snapshot_wwn_out: device_wwn is declared outside the loop, a       *)
(* snapshot that is not in the list gets the WWN of the one before.        *)
ListMappings == At("start", "list") /\ Showmap("identify")

Listed(s) == \E r \in local.rows : r.object = s
WwnNow(s) == IF Listed(s) THEN s ELSE local.wwn
Identify ==
  /\ At("start", "identify")
  /\ \E d \in todo :
       LET wwn == WwnNow(local.found[d])
       IN /\ report[d] = "none"
          /\ local' = [local EXCEPT !.wwn = wwn, !.wwnOf[d] = wwn]
          /\ Record(d, IF wwn = NoObject THEN "err" ELSE "ok")
          /\ Proceed(d, "identify", "respond")
  /\ UNCHANGED <<arrayVars, faults>>

StartNext ==
  \/ SkipDevice \/ CheckStatus \/ Operate \/ CreateSnapshot \/ FindSnapshot
  \/ ActivateSnapshot \/ ActiveTime \/ MapSnapshot \/ SnapshotMapped
  \/ SnapshotNotMapped \/ ListMappings \/ Identify
=============================================================================
