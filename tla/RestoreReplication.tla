------------------------- MODULE RestoreReplication -------------------------
(***************************************************************************)
(* restoreReplication: RestoreReplication::_is_slave_device_out.  The      *)
(* steps of one device: show -> lock -> resync.  lst_pair_status collects  *)
(* the status of every device shown so far and only its front is read, so  *)
(* the first device of the command decides for all of them.                *)
(***************************************************************************)
EXTENDS SraCommand

RestorePick == PickDevice("restore", "show")

RestoreShow ==
  /\ At("restore", "show")
  /\ \/ LET front == IF local.front = "empty" THEN pair[cur].status
                                              ELSE local.front
        IN /\ local' = [local EXCEPT !.front = front]
           /\ IF front = "Split" THEN Continue("lock")
                                 ELSE Answer("ok")      \* with warning 500
     \/ "err" \in Outcome /\ Answer("err") /\ UNCHANGED local
  /\ UNCHANGED arrayVars

Locked_Ignored(reply) == Continue("resync")
Locked(reply) == IF reply = "ok" THEN Continue("resync") ELSE Answer("silent")

RestoreLock ==
  /\ At("restore", "lock")
  /\ \E reply \in Outcome :
       CMD_changeSlaveRw(cur, "RO", reply) /\ Locked(reply)
  /\ UNCHANGED <<mapped, shared, misled, local>>

(* The result of CMD_synchymirror is logged and forgotten. *)
Resync ==
  /\ At("restore", "resync")
  /\ \E reply \in SyncOutcome(cur) : CMD_synchymirror(cur, reply)
  /\ Answer("ok")
  /\ UNCHANGED <<mapped, shared, misled, local>>

RestoreNext == RestorePick \/ RestoreShow \/ RestoreLock \/ Resync
=============================================================================
