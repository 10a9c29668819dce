------------------------------ MODULE FailOver ------------------------------
(***************************************************************************)
(* failover: FailOver::_outband_swap_hypermirror over the devices, one     *)
(* device at a time, one REST call per step.  The steps of one device:     *)
(*                                                                         *)
(*   classify -> expose -> show -> sparse -> suspend -> activate           *)
(*            -> (remap, FusionStorage only) -> publish                     *)
(*            (-> unshare -> reshare)                                      *)
(*                                                                         *)
(* A file system skips expose and sparse, FusionStorage skips sparse.      *)
(***************************************************************************)
EXTENDS SraCommand

FailOverPick == PickDevice("failover", "classify")

(* is_Fs_by_lun: whatever goes wrong with CMD_showfs, the device is taken  *)
(* for a LUN.                                                              *)
Classify ==
  /\ At("failover", "classify")
  /\ \E reply \in Outcome :
       LET nfs == cur \in FS /\ reply = "ok"
       IN /\ local' = [local EXCEPT !.isNFS = nfs]
          /\ Continue(IF nfs THEN "show" ELSE "expose")
  /\ UNCHANGED arrayVars

(* The mapping of device d at a site after a call that returned `reply':   *)
(* a call that failed may have got part of its work done.  The many calls  *)
(* of _add_map are one step; it is taken to map a device whose access      *)
(* groups have a valid initiator.                                          *)
Mapping(d, site, reply, present) ==
  LET done == IF present THEN mapped \cup {<<d, site>>}
                         ELSE mapped \ {<<d, site>>}
  IN mapped' \in {done} \cup (IF reply = "err" THEN {mapped} ELSE {})

Exposed_Ignored(reply) == Continue("show")
Exposed(reply) == IF reply = "ok" THEN Continue("show") ELSE Abandon("err")

(* _add_map before the promotion; on FusionStorage CMD_unmountSlave, even  *)
(* when an earlier run has promoted and mapped the LUN.                    *)
Expose ==
  /\ At("failover", "expose")
  /\ \E reply \in Outcome :
       /\ Mapping(cur, RunsAt(cmd, cur), reply, ~Fusion)
       /\ Exposed(reply)
  /\ misled' = misled \ {<<cur, RunsAt(cmd, cur)>>}
  /\ UNCHANGED <<pair, shared, local>>

(* Leaving _exec_hymirror_failover_out: FusionStorage maps the LUN         *)
(* whatever it returned.                                                   *)
Executed(reply) ==
  IF Fusion
    THEN Continue("remap") /\ local' = [local EXCEPT !.ret = reply]
    ELSE /\ IF reply = "ok" THEN Continue("publish") ELSE Answer("err")
         /\ UNCHANGED local

(* The pairs execSparseHymirror visits: all of the LUN's but its own. *)
OthersOf_OwnToo(d) == SiblingsOf[d] \cup {d}
OthersOf(d) == SiblingsOf[d]

FailOverShow ==
  /\ At("failover", "show")
  /\ \/ /\ local' = [local EXCEPT !.seen = pair[cur],
                                  !.rest = OthersOf(cur)]
        /\ Continue(IF local.isNFS \/ Fusion THEN "suspend" ELSE "sparse")
     \/ "err" \in Outcome /\ Executed("err")
  /\ UNCHANGED arrayVars

(* execSparseHymirror: every other pair of the LUN is made writable, and   *)
(* none of them is split first.  A pair that cannot be shown is skipped    *)
(* without a word; one that cannot be changed fails the device.            *)
Sparse ==
  /\ At("failover", "sparse")
  /\ UNCHANGED <<mapped, shared, misled>>
  /\ \/ /\ "err" \in Outcome          \* CMD_showlun fails, or lists no pair
        /\ local.rest = OthersOf(cur)
        /\ Executed("err") /\ UNCHANGED pair
     \/ /\ local.rest = {}
        /\ Continue("suspend") /\ UNCHANGED <<pair, local>>
     \/ \E p \in local.rest :
          \/ /\ pair[p].access = "RW" \/ "err" \in Outcome
             /\ local' = [local EXCEPT !.rest = @ \ {p}]
             /\ Continue("sparse") /\ UNCHANGED pair
          \/ /\ pair[p].access # "RW"
             /\ CMD_changeSlaveRw(p, "RW", "ok")
             /\ local' = [local EXCEPT !.rest = @ \ {p}]
             /\ Continue("sparse")
          \/ /\ pair[p].access # "RW" /\ "err" \in Outcome
             /\ CMD_changeSlaveRw(p, "RW", "err")
             /\ Executed("err")

(* Decided by the rows of the first show.  The show of                     *)
(* _exec_hymirror_split_out only fails or names the slave.                 *)
AlreadyPromoted_AnyAccess ==
  /\ At("failover", "suspend")
  /\ local.seen.status \in Suspended
  /\ Executed("ok")
  /\ UNCHANGED arrayVars
AlreadyPromoted_Refused ==
  /\ At("failover", "suspend")
  /\ local.seen.status \in Suspended /\ local.seen.access = "RW"
  /\ Executed("err")
  /\ UNCHANGED arrayVars
AlreadyPromoted ==
  /\ At("failover", "suspend")
  /\ local.seen.status \in Suspended /\ local.seen.access = "RW"
  /\ Executed("ok")
  /\ UNCHANGED arrayVars

AlreadySuspended ==
  /\ At("failover", "suspend")
  /\ local.seen.status \in Suspended /\ local.seen.access # "RW"
  /\ Continue("activate")
  /\ UNCHANGED <<arrayVars, local>>

SplitDone_Ignored(reply) == Continue("activate") /\ UNCHANGED local
SplitDone(reply) ==
  IF reply = "ok" THEN Continue("activate") /\ UNCHANGED local
                  ELSE Executed("err")

Suspend ==
  /\ At("failover", "suspend")
  /\ local.seen.status \notin Suspended
  /\ \E reply \in Outcome :
       CMD_splithymirror(cur, reply) /\ SplitDone(reply)
  /\ UNCHANGED <<mapped, shared, misled>>

Activate ==
  /\ At("failover", "activate")
  /\ \E reply \in Outcome :
       CMD_changeSlaveRw(cur, "RW", reply) /\ Executed(reply)
  /\ UNCHANGED <<mapped, shared, misled>>

Remapped_Ignored(reply) ==
  IF local.ret = "ok" THEN Continue("publish") ELSE Answer("err")
Remapped(reply) ==
  CASE reply = "err"                      -> Abandon("err")
    [] reply = "ok" /\ local.ret = "ok"   -> Continue("publish")
    [] reply = "ok" /\ local.ret = "err"  -> Answer("err")

(* CMD_maplun2host of FusionStorage (operateHostMapping, fullRestPkg) takes *)
(* an error whose code is no string, and the silence of all addresses, for  *)
(* an OK.                                                                   *)
FalseOk(d, site) ==
  /\ "err" \in Outcome
  /\ UNCHANGED mapped /\ misled' = misled \cup {<<d, site>>}

Remap ==
  /\ At("failover", "remap")
  /\ \/ \E reply \in Outcome :
          /\ Mapping(cur, RunsAt(cmd, cur), reply, TRUE) /\ UNCHANGED misled
          /\ Remapped(reply)
     \/ FalseOk(cur, RunsAt(cmd, cur)) /\ Remapped("ok")
  /\ UNCHANGED <<pair, shared, local>>

(* The device now counts as promoted; what is left is to identify the LUN, *)
(* where getLunWwn (not called on FusionStorage) may fail, or to share the *)
(* file system.                                                            *)
Identify ==
  /\ At("failover", "publish") /\ ~local.isNFS
  /\ \E reply \in IF Fusion THEN {"ok"} ELSE Outcome : Answer(reply)
  /\ UNCHANGED <<arrayVars, local>>

Share(d) == <<d, RunsAt(cmd, cur)>>
Named(d) == local' = [local EXCEPT !.nfs = d]        \* strNFSID

(* CMD_showfs, then CMD_addnfs of a share that does not exist.  A failure  *)
(* is not looked at: the device keeps its target_id.  The request sent     *)
(* again after a lost answer meets the share it has made and answers that  *)
(* it exists, without naming it.                                           *)
AddShare ==
  /\ At("failover", "publish") /\ local.isNFS /\ Share(cur) \notin shared
  /\ \/ shared' = shared \cup {Share(cur)} /\ Named(cur) /\ Answer("ok")
     \/ /\ "err" \in Outcome
        /\ shared' \in {shared, shared \cup {Share(cur)}}
        /\ Answer("ok") /\ UNCHANGED local
     \/ "err" \in Outcome /\ Answer("err") /\ UNCHANGED <<shared, local>>
     \/ /\ "err" \in Outcome /\ Addresses > 1
        /\ shared' = shared \cup {Share(cur)}
        /\ Continue("unshare") /\ UNCHANGED local
  /\ UNCHANGED <<pair, mapped, misled>>

(* CMD_addnfs finds the share: it names it and answers that it exists. *)
FindShare ==
  /\ At("failover", "publish") /\ local.isNFS /\ Share(cur) \in shared
  /\ \/ Named(cur) /\ Continue("unshare")
     \/ /\ "err" \in Outcome              \* one of the two CMD_showfs
        /\ \E result \in Reply : Answer(result)
        /\ UNCHANGED local
  /\ UNCHANGED arrayVars

(* CMD_delnfs, its result ignored.  strNFSID still names the share of the  *)
(* file system before when CMD_addnfs has named none.                      *)
Unshare_Skipped ==
  /\ At("failover", "unshare")
  /\ Continue("reshare")
  /\ UNCHANGED <<arrayVars, local>>
Unshare ==
  /\ At("failover", "unshare")
  /\ shared' \in {shared \ {Share(local.nfs)}}
                  \cup (IF "err" \in Outcome THEN {shared} ELSE {})
  /\ Continue("reshare")
  /\ UNCHANGED <<pair, mapped, misled, local>>

(* The second CMD_addnfs; a share still there is now an error. *)
AddShareAgain ==
  /\ At("failover", "reshare")
  /\ \/ /\ Share(cur) \notin shared /\ shared' = shared \cup {Share(cur)}
        /\ Named(cur) /\ Answer("ok")
     \/ /\ Share(cur) \in shared /\ UNCHANGED shared
        /\ Named(cur) /\ Answer("err")
     \/ /\ "err" \in Outcome
        /\ shared' \in {shared, shared \cup {Share(cur)}}
        /\ Answer("err") /\ UNCHANGED local
  /\ UNCHANGED <<pair, mapped, misled>>

FailOverNext ==
  \/ FailOverPick \/ Classify \/ Expose \/ FailOverShow \/ Sparse
  \/ AlreadyPromoted \/ AlreadySuspended \/ Suspend \/ Activate \/ Remap
  \/ Identify \/ AddShare \/ FindShare \/ Unshare \/ AddShareAgain
=============================================================================
