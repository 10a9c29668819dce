----------------------------- MODULE FusionTest -----------------------------
(***************************************************************************)
(* The test failover of FusionStorage LUNs.  Start: snap -> clone -> find, *)
(* then map -> mapHost, then identify.  Stop: find -> showRows -> unmap    *)
(* -> delLun -> delSnap.                                                   *)
(***************************************************************************)
EXTENDS CloneCommand

(* CMD_createhyimg. *)
CreateSnapshot ==
  /\ At("start", "snap")
  /\ \/ cur \in snapped /\ EndOperate("err") /\ UNCHANGED snapped
     \/ /\ cur \notin snapped
        /\ \E reply \in Outcome :
             /\ Change(snapped, snapped \cup {cur}, reply)
             /\ IF reply = "ok" THEN Continue("clone") ELSE EndOperate("err")
  /\ UNCHANGED <<cloneOf, shared, hosts, misled, local>>

(* CMD_cloneSnap2Lun; its failure is recorded as the error "0".  The clone *)
(* of a test before, left behind by a false OK, has the name already.      *)
CloneSnapshot ==
  /\ At("start", "clone")
  /\ \E reply \in Reply :
       /\ \/ /\ ClonesOf(cur) = {} /\ reply \in Outcome
             /\ \E c \in ClonesOf(NoObject) :
                  FullRestPkg(cur, cloneOf, [cloneOf EXCEPT ![c] = cur], reply)
          \/ /\ ClonesOf(cur) # {}
             /\ UNCHANGED cloneOf /\ Mislead(cur, reply)
       /\ IF reply = "ok" THEN Continue("find") ELSE EndOperate("err")
  /\ UNCHANGED <<snapped, shared, hosts, local>>

(* _get_snapshot_info_out, CMD_showlunByname: a failure is only logged. *)
FindLun ==
  /\ At("start", "find") /\ cur \notin FS
  /\ \/ \E c \in ClonesOf(cur) : local' = [local EXCEPT !.found[cur] = c]
     \/ (Fails \/ ClonesOf(cur) = {}) /\ UNCHANGED local
  /\ EndOperate("none")
  /\ UNCHANGED arrayVars

(* _map_snapshot asks for the mappings of the clone, which fails for an    *)
(* empty id, then calls _add_map; any error is the end of the command.     *)
MapClone ==
  /\ At("start", "map")
  /\ \E d \in todo :
       /\ report[d] = "none"
       /\ \/ /\ local.found[d] # NoObject
             /\ local' = [local EXCEPT !.rows = Host \ hosts[local.found[d]]]
             /\ cur' = d /\ pc' = "mapHost"
             /\ UNCHANGED <<cmd, todo, report, planVars, stable>>
          \/ (Fails \/ local.found[d] = NoObject) /\ Vanish
  /\ UNCHANGED arrayVars

(* CMD_maplun2host, host by host. *)
NotMapped_Ignored(h) == local' = [local EXCEPT !.rows = @ \ {h}] /\ Continue("mapHost")
NotMapped(h) == Vanish
MapHost ==
  /\ At("start", "mapHost")
  /\ \E h \in local.rows, reply \in Outcome :
       /\ FullRestPkg(cur, hosts, [hosts EXCEPT ![local.found[cur]] = @ \cup {h}],
                      reply)
       /\ IF reply = "err" THEN NotMapped(h)
          ELSE local' = [local EXCEPT !.rows = @ \ {h}] /\ Continue("mapHost")
  /\ UNCHANGED <<snapped, cloneOf, shared>>
Mapped ==
  /\ At("start", "mapHost") /\ local.rows = {}
  /\ Proceed(cur, "map", "identify")
  /\ UNCHANGED <<arrayVars, local, report>>

(* _get_snapshot_wwn_out: the clone by its name, the mappings of that; the *)
(* requests for hosts and for host groups may fail unnoticed, and then     *)
(* device_wwn is still that of the device before.                          *)
Identify ==
  /\ At("start", "identify")
  /\ \E d \in todo : \E wwn \in {local.found[d], local.wwn} :
       /\ report[d] = "none"
       /\ wwn # local.found[d] => Fails
       /\ \/ /\ local' = [local EXCEPT !.wwn = wwn]
             /\ Record(d, IF wwn = NoObject THEN "err" ELSE "ok")
             /\ Proceed(d, "identify", "respond")
          \/ Fails /\ Vanish
  /\ UNCHANGED arrayVars

----------------------------------------------------------------------------
(* CMD_showhyimgoflun, and in _delete_snapshot_fusion the test for the     *)
(* snapshot of this name.                                                  *)
FindSnapshot ==
  /\ At("stop", "find") /\ cur \notin FS
  /\ \/ /\ local' = [local EXCEPT !.exist = cur \in snapped, !.rows = {}]
        /\ Continue(IF cur \in snapped THEN "showRows" ELSE "delLun")
     \/ Fails /\ EndStop("err") /\ UNCHANGED local
  /\ UNCHANGED arrayVars

(* CMD_showlunByname and CMD_showmap: when there is a snapshot but no      *)
(* clone, the mappings of an empty id are asked for, and that is an error. *)
ShowRows ==
  /\ At("stop", "showRows")
  /\ \/ /\ \E c \in ClonesOf(cur), seen \in SUBSET Host :
             /\ seen \subseteq hosts[c] /\ (seen # hosts[c] => Fails)
             /\ local' = [local EXCEPT !.rows = seen, !.found[cur] = c]
        /\ Continue("unmap")
     \/ (Fails \/ ClonesOf(cur) = {}) /\ EndStop("err") /\ UNCHANGED local
  /\ UNCHANGED arrayVars

(* CMD_unmaplun2host, CMD_unmaplun2hostGroup: an error is only logged, so  *)
(* that a false OK makes no difference.                                    *)
Unmap ==
  /\ At("stop", "unmap")
  /\ \E h \in local.rows, reply \in Outcome :
       /\ Change(hosts, [hosts EXCEPT ![local.found[cur]] = @ \ {h}], reply)
       /\ local' = [local EXCEPT !.rows = @ \ {h}]
  /\ Continue("unmap")
  /\ UNCHANGED <<snapped, cloneOf, shared, misled>>
Unmapped ==
  /\ At("stop", "unmap") /\ local.rows = {}
  /\ Continue("delLun")
  /\ UNCHANGED <<arrayVars, local>>

(* CMD_dellun: a LUN that does not exist is RETURN_WAR and goes for done.  *)
AfterLun == IF local.exist THEN Continue("delSnap") ELSE EndStop("ok")
DelLun ==
  /\ At("stop", "delLun")
  /\ \E reply \in Reply :
       /\ \/ /\ ClonesOf(cur) = {} /\ reply \in Outcome
             /\ UNCHANGED <<cloneOf, misled>>
          \/ \E c \in ClonesOf(cur) :
               /\ hosts[c] = {} /\ reply \in Outcome
               /\ FullRestPkg(cur, cloneOf, [cloneOf EXCEPT ![c] = NoObject], reply)
          \/ /\ \E c \in ClonesOf(cur) : hosts[c] # {}
             /\ UNCHANGED cloneOf /\ Mislead(cur, reply)
       /\ IF reply = "ok" THEN AfterLun ELSE EndStop("err")
  /\ UNCHANGED <<snapped, shared, hosts, local>>

(* CMD_delhyimg. *)
DelSnapshot ==
  /\ At("stop", "delSnap")
  /\ \E reply \in Outcome :
       /\ Change(snapped, snapped \ {cur}, reply)
       /\ EndStop(reply)
  /\ UNCHANGED <<cloneOf, shared, hosts, misled, local>>

FusionNext ==
  \/ CreateSnapshot \/ CloneSnapshot \/ FindLun \/ MapClone \/ MapHost \/ Mapped
  \/ Identify \/ FindSnapshot \/ ShowRows \/ Unmap \/ Unmapped \/ DelLun \/ DelSnapshot
=============================================================================
