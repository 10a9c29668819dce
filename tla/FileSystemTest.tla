--------------------------- MODULE FileSystemTest ---------------------------
(***************************************************************************)
(* The test failover of file systems.  Start: create -> find, then share   *)
(* (-> unshare -> reshare), then list.  Stop: showmap, then find           *)
(* -> findShare -> delShare -> delClone.                                   *)
(***************************************************************************)
EXTENDS CloneCommand

(* CMD_showfs and CMD_createCloneFS. *)
CreateClone ==
  /\ At("start", "create")
  /\ \/ /\ ClonesOf(cur) # {}
        /\ EndOperate("err") /\ UNCHANGED cloneOf
     \/ /\ ClonesOf(cur) = {}
        /\ \E reply \in Outcome, c \in ClonesOf(NoObject) :
             /\ Change(cloneOf, [cloneOf EXCEPT ![c] = cur], reply)
             /\ IF reply = "ok" THEN Continue("find") ELSE EndOperate("err")
  /\ UNCHANGED <<snapped, shared, hosts, misled, local>>

(* _get_snapshot_info_out: the clone must have a snapshot to be dated by,  *)
(* and may have none.                                                      *)
DateClone ==
  /\ At("start", "find") /\ cur \in FS
  /\ \/ /\ \E c \in ClonesOf(cur) : local' = [local EXCEPT !.found[cur] = c]
        /\ EndOperate("none")
     \/ EndOperate("err") /\ UNCHANGED local
  /\ UNCHANGED arrayVars

(* CMD_addnfs; any error of it is the end of the command.  A request sent  *)
(* again after a lost answer meets the share it has made: the answer is    *)
(* that it exists, and names none.                                         *)
ShareFails_Ignored(d) == Proceed(d, "share", "list") /\ UNCHANGED <<local, report>>
ShareFails(d) == Vanish
AddShare ==
  /\ At("start", "share")
  /\ \E d \in todo :
       LET c == local.found[d]
       IN /\ report[d] = "none"
          /\ \/ c = NoObject /\ Vanish /\ UNCHANGED shared
             \/ /\ c # NoObject /\ shared' = shared \cup {c}
                /\ local' = [local EXCEPT !.nfs = c]
                /\ Proceed(d, "share", "list") /\ UNCHANGED report
             \/ /\ c # NoObject /\ Fails
                /\ shared' \in {shared, shared \cup {c}}
                /\ ShareFails(d)
             \/ /\ c # NoObject /\ Fails /\ Addresses > 1
                /\ shared' = shared \cup {c}
                /\ cur' = d /\ pc' = "unshare"
                /\ UNCHANGED <<cmd, todo, local, report, planVars, stable>>
  /\ UNCHANGED <<snapped, cloneOf, hosts, misled>>

(* CMD_delnfs of strNFSID: the share of the device before, if there is one *)
(* (an empty id is refused).  The share in the way is not that one, so the *)
(* second CMD_addnfs meets it again, and the command ends.                 *)
Unshare ==
  /\ At("start", "unshare")
  /\ \/ local.nfs = NoObject /\ Vanish /\ UNCHANGED shared
     \/ /\ local.nfs # NoObject
        /\ \E reply \in Outcome :
             /\ Change(shared, shared \ {local.nfs}, reply)
             /\ IF reply = "ok" THEN Continue("reshare") /\ UNCHANGED local
                                ELSE Vanish
  /\ UNCHANGED <<snapped, cloneOf, hosts, misled>>
Reshare ==
  /\ At("start", "reshare")
  /\ Vanish /\ UNCHANGED arrayVars

(* _get_snapshot_wwn_out lists the mappings, but not for file systems. *)
ListMappings ==
  /\ At("start", "list")
  /\ \/ /\ pc' = "respond"
        /\ report' = [d \in Device |-> IF report[d] = "none" THEN "ok" ELSE report[d]]
        /\ UNCHANGED <<cmd, todo, cur, local, planVars, stable, arrayVars>>
     \/ Fail

----------------------------------------------------------------------------
(* CMD_showmap of the whole array comes first. *)
ShowMappings ==
  /\ At("stop", "showmap")
  /\ \/ Continue("stop") /\ UNCHANGED <<arrayVars, local>>
     \/ Fail

(* CMD_showClonefsOffs: without a clone there is nothing to stop. *)
FindClone ==
  /\ At("stop", "find") /\ cur \in FS
  /\ \/ ClonesOf(cur) = {} /\ EndStop("ok") /\ UNCHANGED local
     \/ /\ \E c \in ClonesOf(cur) : local' = [local EXCEPT !.found[cur] = c]
        /\ Continue("findShare")
     \/ Fails /\ EndStop("err") /\ UNCHANGED local
  /\ UNCHANGED arrayVars

(* CMD_shownfs_byfsid: the first share of the clone, or none. *)
NextOf_NoShare(c) == "delClone"
NextOf(c) == IF c \in shared THEN "delShare" ELSE "delClone"
FindShare ==
  /\ At("stop", "findShare")
  /\ \/ Continue(NextOf(local.found[cur]))
     \/ Fails /\ EndStop("err")
  /\ UNCHANGED <<arrayVars, local>>

DelShare ==
  /\ At("stop", "delShare")
  /\ \E reply \in Outcome :
       /\ Change(shared, shared \ {local.found[cur]}, reply)
       /\ IF reply = "ok" THEN Continue("delClone") ELSE EndStop("err")
  /\ UNCHANGED <<snapped, cloneOf, hosts, misled, local>>

(* CMD_delclonefs. *)
DeleteFails_Ignored == EndStop("ok")
DeleteFails == EndStop("err")
DelClone ==
  /\ At("stop", "delClone")
  /\ \/ local.found[cur] \in shared /\ DeleteFails /\ UNCHANGED cloneOf
     \/ /\ local.found[cur] \notin shared
        /\ \E reply \in Outcome :
             /\ Change(cloneOf, [cloneOf EXCEPT ![local.found[cur]] = NoObject], reply)
             /\ IF reply = "ok" THEN EndStop("ok") ELSE DeleteFails
  /\ UNCHANGED <<snapped, shared, hosts, misled, local>>

FileSystemNext ==
  \/ CreateClone \/ DateClone \/ AddShare \/ Unshare \/ Reshare \/ ListMappings
  \/ ShowMappings \/ FindClone \/ FindShare \/ DelShare \/ DelClone
=============================================================================
