---------------------------- MODULE GroupRestore ----------------------------
(***************************************************************************)
(* restoreReplication and syncOnce of units.                               *)
(***************************************************************************)
EXTENDS GroupFailOver

(* restore shows every copy as a consistency group: isNFS is never set.    *)
RestoreShowCopy ==
  /\ At("restore", "show") /\ cur \in Mirror
  /\ \E row \in CMD_showconsistgrinfo(cur) :
       CASE row.status = "none"                   -> Answer("err")
         [] row.status = "Split"                  -> Continue("lock")
         [] row.status \notin {"none", "Split"}   -> Answer("ok")
  /\ UNCHANGED <<groupVars, local>>

(* Nothing is said of a group that cannot be locked. *)
Locked_Ignored(reply) == Continue("resync")
Locked(reply) == IF reply = "ok" THEN Continue("resync") ELSE Answer("silent")
RestoreLockCopy ==
  /\ At("restore", "lock")
  /\ \E reply \in Outcome :
       CMD_changeCGSlaveLunRw(cur, "RO", reply) /\ Locked(reply)
  /\ UNCHANGED <<sibling, hyper, local>>

RestoreSyncCopy ==
  /\ At("restore", "resync") /\ cur \in Mirror
  /\ \E reply \in SyncOutcome(cur) : CMD_syncconsistgr(cur, reply)
  /\ Answer("ok")
  /\ UNCHANGED <<sibling, hyper, local>>

(* A paused HyperMetro unit is synchronized, whatever comes of it. *)
ResyncPaused(status) ==
  IF status = "Pause" THEN Continue("resync") ELSE Answer("ok")
RestoreShowGroup ==
  /\ At("restore", "show") /\ cur \in MetroGroup
  /\ \E row \in CMD_showconsistgrhminfo(cur) :
       IF row.status = "none" THEN Answer("err") ELSE ResyncPaused(row.status)
  /\ UNCHANGED <<groupVars, local>>

(* The status of a HyperMetro pair goes to the back of a list that lives   *)
(* as long as the loop, and the front decides: the status of the first     *)
(* pair that was shown, for every pair of the command.  The swap before    *)
(* that compares ids of different tags and never happens.                  *)
RestoreShowPair ==
  /\ At("restore", "show") /\ cur \in MetroPair
  /\ \E row \in CMD_showhypermetrolun_all(cur) :
       IF row.status = "none"
         THEN Answer("err") /\ UNCHANGED local
         ELSE LET front == IF local.front = "empty" THEN row.status
                                                    ELSE local.front
              IN /\ local' = [local EXCEPT !.front = front]
                 /\ ResyncPaused(front)
  /\ UNCHANGED groupVars

SyncMetro(u, reply) ==
  IF u \in MetroGroup THEN CMD_syncconsistgrhm(u, reply)
                      ELSE CMD_synchmpair(u, reply)

RestoreSyncMetro ==
  /\ At("restore", "resync") /\ cur \in Metro
  /\ \E reply \in SyncOutcome(cur) : SyncMetro(cur, reply)
  /\ Answer("ok")
  /\ UNCHANGED <<sibling, hyper, local>>

----------------------------------------------------------------------------
(* syncOnce.  A group that cannot be shown is the failure of the whole     *)
(* command.  A copy is synchronized unless it synchronizes already or is   *)
(* synchronous and Normal.                                                 *)
SyncedAlready(row, u) ==
  \/ row.status = "Synchronizing"
  \/ row.status = "Normal" /\ u \in Synchronous
SyncShowCopy ==
  /\ At("sync", "show") /\ cur \in Mirror
  /\ \E nfs \in Classified(cur) : \E row \in ShowCopy(cur, nfs) :
       IF row = NoRow
         THEN Fail
         ELSE /\ IF SyncedAlready(row, cur) THEN Answer("ok") ELSE Continue("resync")
              /\ local' = [local EXCEPT !.nfs = nfs]
  /\ UNCHANGED groupVars

SyncCopy ==
  /\ At("sync", "resync") /\ cur \in Mirror
  /\ \E reply \in SyncOutcome(cur) :
       /\ IF local.nfs THEN CMD_syncvstorepair(cur, reply)
                       ELSE CMD_syncconsistgr(cur, reply)
       /\ Answer(reply)
  /\ UNCHANGED <<sibling, hyper, local>>

SyncShowGroup ==
  /\ At("sync", "show") /\ cur \in MetroGroup
  /\ \E row \in CMD_showconsistgrhminfo(cur) :
       CASE row.status = "none"      -> Fail
         [] row.status \in Replicating
              -> Answer("ok") /\ UNCHANGED local
         [] row.status \notin Replicating \cup {"none"}
              -> Continue("resync") /\ UNCHANGED local
  /\ UNCHANGED groupVars

(* CMD_showhypermetrolun_all, then CMD_showhypermetroinfo, whose failure   *)
(* leaves the pair without a word.                                         *)
SyncShowPair ==
  /\ At("sync", "show") /\ cur \in MetroPair
  /\ \E row \in CMD_showhypermetrolun_all(cur) :
       CASE row.status = "none"          -> Answer("err")
         [] row.status = "Synchronizing" -> Answer("ok")
         [] row.status \notin {"none", "Synchronizing"} -> Continue("inquire")
  /\ UNCHANGED <<groupVars, local>>
SyncInquirePair ==
  /\ At("sync", "inquire")
  /\ \E row \in CMD_showhypermetroinfo(cur) :
       CASE row.status = "none"          -> Answer("silent")
         [] row.status \in Replicating   -> Answer("ok")
         [] row.status \notin Replicating \cup {"none"} -> Continue("resync")
  /\ UNCHANGED <<groupVars, local>>

SyncMetroUnit ==
  /\ At("sync", "resync") /\ cur \in Metro
  /\ \E reply \in SyncOutcome(cur) : SyncMetro(cur, reply) /\ Answer(reply)
  /\ UNCHANGED <<sibling, hyper, local>>

GroupRestoreNext ==
  \/ RestoreShowCopy \/ RestoreLockCopy \/ RestoreSyncCopy
  \/ RestoreShowGroup \/ RestoreShowPair \/ RestoreSyncMetro
GroupSyncNext ==
  \/ SyncShowCopy \/ SyncCopy \/ SyncShowGroup \/ SyncShowPair
  \/ SyncInquirePair \/ SyncMetroUnit
=============================================================================
