-------------------------- MODULE TestFailoverStop --------------------------
(***************************************************************************)
(* testFailoverStop for LUNs: TestFailoverStop::_outband_process lists the *)
(* mappings once, then undoes device by device what the start has done:    *)
(*                                                                         *)
(*   showmap, then stop -> findSnap -> unmap for each mapping of it        *)
(*     (-> detachHosts -> detachLuns -> delView -> takeSnap                *)
(*      -> delLunGroup -> showHosts -> takeHost)                           *)
(*                       -> disable -> delSnap                             *)
(***************************************************************************)
EXTENDS HostCommand

ShowMappings == At("stop", "showmap") /\ Showmap("stop")

EndStop(result) == Record(cur, result) /\ Proceed(cur, "stop", "respond")

(* A show of the pair that fails is the device's error. *)
StopPick ==
  /\ At("stop", "stop")
  /\ \E d \in todo :
       \/ /\ cur' = d /\ pc' = "findSnap"
          /\ UNCHANGED <<cmd, todo, report, planVars, faults>>
       \/ /\ Answers("err") /\ Record(d, "err")
          /\ Proceed(d, "stop", "respond")
  /\ UNCHANGED <<arrayVars, local>>

(* _stop_test_device_out: without a snapshot there is nothing to stop. *)
NothingToStop_Error == EndStop("err")
NothingToStop == EndStop("ok")
FindTested ==
  /\ At("stop", "findSnap")
  /\ \/ SnapshotsOf(cur) = {} /\ NothingToStop /\ UNCHANGED <<local, faults>>
     \/ /\ \E s \in SnapshotsOf(cur) :
             local' = [local EXCEPT
               !.object = s,
               !.del = {r \in local.rows : r.object = s}]
        /\ Continue("unmap") /\ UNCHANGED faults
     \/ Answers("err") /\ EndStop("err") /\ UNCHANGED local
  /\ UNCHANGED arrayVars

----------------------------------------------------------------------------
(* _del_map_from_dar of one mapping. *)
GiveUpStop == EndStop("silent") /\ UNCHANGED local     \* check_success_out("")

(* The LUNs and snapshots of the LUN group are asked for; an answer that   *)
(* fails counts as none, and then nothing at all is deleted.  (A group     *)
(* somebody has put LUNs into only loses the snapshot; there is none here, *)
(* the SRA's groups hold one object.)                                      *)
Examine ==
  /\ At("stop", "unmap")
  /\ \E r \in local.del, reply \in Reply :
       /\ Answers(reply)
       /\ IF reply = "ok" /\ lunGroup[r.luns] = {local.object}
            THEN /\ local' = [local EXCEPT !.hosts = r.hosts, !.luns = r.luns,
                                           !.join = r.view]
                 /\ Continue("detachHosts")
            ELSE /\ local' = [local EXCEPT !.del = @ \ {r}]
                 /\ Continue("unmap")
  /\ UNCHANGED arrayVars

(* A request of the deletion, refused by the array or answered; with ok    *)
(* the process goes on.                                                    *)
Request(here, refused, reply, next) ==
  /\ At("stop", here)
  /\ IF refused THEN reply = "err" /\ UNCHANGED faults ELSE Answers(reply)
  /\ IF reply = "ok" THEN Continue(next) /\ UNCHANGED local ELSE GiveUpStop
Effect(refused, var, after, reply) ==
  IF refused THEN UNCHANGED var ELSE Change(var, after, reply)

DetachHosts ==
  /\ \E reply \in Reply :
       /\ Request("detachHosts", FALSE, reply, "detachLuns")
       /\ Change(view, [view EXCEPT ![local.join].hosts = @ \ {local.hosts}], reply)
  /\ UNCHANGED <<hostGroup, lunGroup, hostVars, snapVars>>
DetachLuns ==
  /\ \E reply \in Reply :
       /\ Request("detachLuns", FALSE, reply, "delView")
       /\ Change(view, [view EXCEPT ![local.join].luns = @ \ {local.luns}], reply)
  /\ UNCHANGED <<hostGroup, lunGroup, hostVars, snapVars>>
DelView ==
  /\ \E reply \in Reply :
       /\ Request("delView", FALSE, reply, "takeSnap")
       /\ Change(view, [view EXCEPT ![local.join] = Absent], reply)
  /\ UNCHANGED <<hostGroup, lunGroup, hostVars, snapVars>>
TakeSnapshot ==
  /\ \E reply \in Reply :
       /\ Request("takeSnap", FALSE, reply, "delLunGroup")
       /\ Change(lunGroup, [lunGroup EXCEPT ![local.luns] = @ \ {local.object}], reply)
  /\ UNCHANGED <<hostGroup, view, hostVars, snapVars>>
DelLunGroup ==
  /\ \E reply \in Reply :
       LET refused == Joined(local.luns) \/ lunGroup[local.luns] # {}
       IN /\ Request("delLunGroup", refused, reply, "showHosts")
          /\ Effect(refused, lunGroup, [lunGroup EXCEPT ![local.luns] = Absent], reply)
  /\ UNCHANGED <<hostGroup, view, hostVars, snapVars>>
ShowHosts ==
  /\ At("stop", "showHosts")
  /\ \/ /\ local' = [local EXCEPT !.members = hostGroup[local.hosts]]
        /\ Continue("takeHost") /\ UNCHANGED faults
     \/ Answers("err") /\ GiveUpStop
  /\ UNCHANGED arrayVars
TakeHost ==
  /\ At("stop", "takeHost")
  /\ \E h \in hostGroup[local.hosts], reply \in Reply :
       /\ h \in local.members
       /\ Request("takeHost", FALSE, reply, "takeHost")
       /\ Change(hostGroup, [hostGroup EXCEPT ![local.hosts] = @ \ {h}], reply)
  /\ UNCHANGED <<lunGroup, view, hostVars, snapVars>>
DelHostGroup ==
  /\ At("stop", "takeHost") /\ hostGroup[local.hosts] \cap local.members = {}
  /\ \E reply \in Reply :
       LET refused == Attached(local.hosts) \/ hostGroup[local.hosts] # {}
       IN /\ IF refused THEN reply = "err" /\ UNCHANGED faults ELSE Answers(reply)
          /\ Effect(refused, hostGroup, [hostGroup EXCEPT ![local.hosts] = Absent],
                    reply)
          /\ IF reply = "ok"
               THEN /\ local' = [local EXCEPT
                                   !.del = {r \in @ : r.view # local.join}]
                    /\ Continue("unmap")
               ELSE GiveUpStop
  /\ UNCHANGED <<lunGroup, view, hostVars, snapVars>>

----------------------------------------------------------------------------
(* _delete_snapshot_out, whatever it comes to; a snapshot that was in no   *)
(* mapping of the list is an error all the same.                           *)
Unmapped ==
  /\ At("stop", "unmap") /\ local.del = {}
  /\ Continue("disable")
  /\ UNCHANGED <<arrayVars, faults, local>>

EndDelete ==
  EndStop(IF \E r \in local.rows : r.object = local.object THEN "ok" ELSE "err")

Disable ==
  /\ At("stop", "disable")
  /\ \E reply \in Reply :
       /\ Answers(reply)
       /\ Change(active, active \ {local.object}, reply)
       /\ IF reply = "ok" THEN Continue("delSnap") ELSE EndDelete
  /\ UNCHANGED <<snapOf, hostVars, groupVars, local>>

(* The array refuses to delete a snapshot that is mapped, and, if          *)
(* GroupedStays, one in a LUN group; otherwise it leaves its groups.  The  *)
(* line that logs an error of the array passes a char for a %s: the        *)
(* process goes on, or dies of it.                                         *)
InGroup(s) == \E l \in Name : lunGroup[l] # Absent /\ s \in lunGroup[l]
Refused(s) == ViewsOf(s) # {} \/ (GroupedStays /\ InGroup(s))
Deleted(s) ==
  /\ snapOf' = [snapOf EXCEPT ![s] = Absent]
  /\ lunGroup' = [l \in Name |-> IF lunGroup[l] = Absent THEN Absent
                                 ELSE lunGroup[l] \ {s}]
DelSnapshot ==
  /\ At("stop", "delSnap")
  /\ \E reply \in Reply :
       /\ IF Refused(local.object) THEN reply = "err" /\ UNCHANGED faults
                                   ELSE Answers(reply)
       /\ \/ ~Refused(local.object) /\ Deleted(local.object)
          \/ reply = "err" /\ UNCHANGED <<snapOf, lunGroup>>
       /\ \/ EndDelete /\ UNCHANGED local
          \/ reply = "err" /\ Vanish /\ UNCHANGED planVars
  /\ UNCHANGED <<active, hostGroup, view, hostVars>>

StopNext ==
  \/ ShowMappings \/ StopPick \/ FindTested \/ Examine
  \/ DetachHosts \/ DetachLuns \/ DelView \/ TakeSnapshot \/ DelLunGroup
  \/ ShowHosts \/ TakeHost \/ DelHostGroup \/ Unmapped \/ Disable \/ DelSnapshot
=============================================================================
