------------------------------ MODULE SyncOnce ------------------------------
(***************************************************************************)
(* syncOnce: SyncOnce::_sync_mirror_out.  The steps of one device:         *)
(* show -> inquire -> sync, where inquire is CMD_showhymirrorinfo.  It     *)
(* runs at the source array.                                               *)
(***************************************************************************)
EXTENDS SraCommand

SyncPick == PickDevice("sync", "show")

SyncShow ==
  /\ At("sync", "show")
  /\ \/ pair[cur].status = "Synchronizing" /\ Answer("ok")   \* with a warning
     \/ pair[cur].status # "Synchronizing" /\ Continue("inquire")
     \/ "err" \in Outcome /\ Answer("err")
  /\ UNCHANGED <<arrayVars, local>>

InSync(p) == p \in Synchronous /\ pair[p].status = "Normal"

Inquire ==
  /\ At("sync", "inquire")
  /\ \/ InSync(cur) /\ Answer("ok")
     \/ ~InSync(cur) /\ Continue("sync")
     \/ "err" \in Outcome /\ Answer("silent")  \* CMD_showhymirrorinfo failed
  /\ UNCHANGED <<arrayVars, local>>

StartSync ==
  /\ At("sync", "sync")
  /\ \E reply \in SyncOutcome(cur) :
       CMD_synchymirror(cur, reply) /\ Answer(reply)
  /\ UNCHANGED <<mapped, shared, misled, local>>

SyncNext == SyncPick \/ SyncShow \/ Inquire \/ StartSync
=============================================================================
