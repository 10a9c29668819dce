---------------------------- MODULE GroupFailOver ----------------------------
(***************************************************************************)
(* prepareFailover and failover of units.  The steps of a replicated group *)
(* or vStore pair in failover are                                          *)
(*                                                                         *)
(*   show -> sparse (groups) -> suspend -> activate -> members             *)
(*                                                                         *)
(* and those of a HyperMetro unit, when isolation is asked for and the     *)
(* unit is Normal,                                                         *)
(*                                                                         *)
(*   show -> swap (if it is the slave) -> (show again) -> stop -> members  *)
(*                                                                         *)
(* In every other state a HyperMetro unit goes to members at once.         *)
(***************************************************************************)
EXTENDS GroupCommand

(* is_Fs_by_lun takes a vStore pair for a consistency group when           *)
(* CMD_showfs fails.                                                       *)
Classified(u) == IF u \in VStore THEN BOOLEAN ELSE {FALSE}
ShowCopy(u, nfs) ==
  IF nfs THEN CMD_showvstorepair_info(u) ELSE CMD_showconsistgrinfo(u)
ShowMetro(u) ==
  IF u \in MetroGroup THEN CMD_showconsistgrhminfo(u)
                      ELSE CMD_showhypermetrolun_all(u)

Local(u) == RunsAt(cmd, u)
IsMaster(row, u) == row.primary = Local(u)

SwapMetro(u, reply) ==
  IF u \in MetroGroup THEN CMD_swapconsistgrhm(u, reply)
                      ELSE CMD_swaphypermetro(u, reply)

----------------------------------------------------------------------------
(* prepareFailover, at the source: nothing is to be done for a copy; a     *)
(* HyperMetro unit hands the preferred role over to the other array.       *)
PrepareCopy ==
  /\ At("prepareFailover", "show") /\ cur \in Mirror
  /\ Answer("ok")
  /\ UNCHANGED <<groupVars, local>>

PrepareShowMetro ==
  /\ At("prepareFailover", "show") /\ cur \in Metro
  /\ \E row \in ShowMetro(cur) :
       CASE row = NoRow              -> Answer("err")
         [] row # NoRow /\ ~IsMaster(row, cur) -> Answer("ok")
         [] row # NoRow /\ IsMaster(row, cur)  -> Continue("swap")
  /\ UNCHANGED <<groupVars, local>>

PrepareSwap ==
  /\ At("prepareFailover", "swap")
  /\ \E reply \in SwapOutcome(cur) : SwapMetro(cur, reply) /\ Answer(reply)
  /\ UNCHANGED <<sibling, hyper, local>>

----------------------------------------------------------------------------
(* failover of a copy: _outband_swap_consist and _exec_failover_out.  The  *)
(* other copies of the members of the group are in the groups to follow it. *)
OthersOf_OwnToo(u) == SiblingsOf[u] \cup {u}
OthersOf(u) == SiblingsOf[u]

FailOverShowCopy ==
  /\ At("failover", "show") /\ cur \in Mirror
  /\ \E nfs \in Classified(cur) : \E row \in ShowCopy(cur, nfs) :
       IF row = NoRow
         THEN Answer("err") /\ UNCHANGED local
         ELSE /\ local' = [local EXCEPT !.seen = row, !.nfs = nfs,
                             !.rest = IF nfs THEN {} ELSE OthersOf(cur)]
              /\ Continue(IF nfs THEN "suspend" ELSE "sparse")
  /\ UNCHANGED groupVars

(* execSparseConsisgr: all the groups that hold other copies of the LUNs   *)
(* are looked for, then each that has not got the access yet is changed.   *)
(* The result is what the caller records of a failure, next its next step. *)
Sparse_OneGroup(access, result, next) ==
  \/ /\ Answer(result) /\ UNCHANGED <<groupVars, local>>
  \/ /\ local.rest = {} /\ Continue(next) /\ UNCHANGED <<groupVars, local>>
  \/ \E s \in local.rest : \E reply \in Outcome :
       /\ sibling' \in {[sibling EXCEPT ![s] = access]}
                       \cup (IF reply = "err" THEN {sibling} ELSE {})
       /\ local' = [local EXCEPT !.rest = @ \ {s}]
       /\ Continue("sparse")
       /\ UNCHANGED <<unit, hyper>>
Sparse(access, result, next) ==
  \/ /\ Answer(result) /\ UNCHANGED <<groupVars, local>>
  \/ /\ local.rest = {} /\ Continue(next) /\ UNCHANGED <<groupVars, local>>
  \/ \E s \in local.rest : \E reply \in Outcome :
       /\ sibling' \in {[sibling EXCEPT ![s] = access]}
                       \cup (IF reply = "err" THEN {sibling} ELSE {})
       /\ local' = [local EXCEPT !.rest = @ \ {s}]
       /\ Failing(reply, "sparse")
       /\ UNCHANGED <<unit, hyper>>

FailOverSparse ==
  At("failover", "sparse") /\ Sparse("RW", "silent", "suspend")

Suspended == {"Split", "Interrupted"}

FailedOverBefore ==
  /\ At("failover", "suspend")
  /\ local.seen.status \in Suspended /\ local.seen.access = "RW"
  /\ Continue("members")
  /\ UNCHANGED <<groupVars, local>>

SuspendedBefore ==
  /\ At("failover", "suspend")
  /\ local.seen.status \in Suspended /\ local.seen.access # "RW"
  /\ Continue("activate")
  /\ UNCHANGED <<groupVars, local>>

(* _exec_split_out *)
SplitCopy_Ignored(reply) == Continue("activate")
SplitCopy(reply) == Failing(reply, "activate")
SuspendCopy ==
  /\ At("failover", "suspend")
  /\ local.seen.status \notin Suspended
  /\ \E reply \in Outcome :
       /\ IF local.nfs THEN CMD_splitvstorepair(cur, reply)
                       ELSE CMD_splitconsistgr(cur, reply)
       /\ SplitCopy(reply)
  /\ UNCHANGED <<sibling, hyper, local>>

ActivateCopy ==
  /\ At("failover", "activate")
  /\ \E reply \in Outcome :
       /\ IF local.nfs THEN CMD_changeVstorePairSlaveLunRw(cur, "RW", reply)
                       ELSE CMD_changeCGSlaveLunRw(cur, "RW", reply)
       /\ IF reply = "ok" THEN Continue("members") ELSE Answer("silent")
  /\ UNCHANGED <<sibling, hyper, local>>

(* _get_consisgr_info_out: the members are listed, mapped and identified;  *)
(* the slave of each must be at this array.                                *)
CopyMembers ==
  /\ At("failover", "members") /\ cur \in Mirror
  /\ \E reply \in IF unit[cur].primary = Local(cur) THEN {"err"} ELSE Outcome :
       Answer(reply)
  /\ UNCHANGED <<groupVars, local>>

----------------------------------------------------------------------------
(* failover of a HyperMetro unit. *)

(* _exec_failover_hm_out.  The status of a group is converted by the table *)
(* for copies, which has no Pause: only Normal is ever acted upon.         *)
IsolateGroup(row) ==
  IF row.status = "Normal"
    THEN Continue(IF IsMaster(row, cur) THEN "stop" ELSE "swap")
    ELSE Continue("members")

(* _exec_hmpair_failover_out: a paused pair counts as failed over before,  *)
(* whoever is the master; of any other pair the slave is swapped.          *)
IsolatePair(row) ==
  CASE row.status = "Pause" -> Continue("members")
    [] row.status # "Pause" /\ ~IsMaster(row, cur) -> Continue("swap")
    [] row.status # "Pause" /\ IsMaster(row, cur) ->
         Continue(IF row.status = "Normal" THEN "show again" ELSE "members")

FailOverShowGroup ==
  /\ At("failover", "show") /\ cur \in MetroGroup
  /\ \E row \in CMD_showconsistgrhminfo(cur) :
       /\ local' = [local EXCEPT !.seen = row]
       /\ CASE row = NoRow                      -> Answer("err")
            [] row # NoRow /\ cur \in Isolated  -> IsolateGroup(row)
            [] row # NoRow /\ cur \notin Isolated -> Continue("members")
  /\ UNCHANGED groupVars

FailOverShowPair ==
  /\ At("failover", "show") /\ cur \in MetroPair
  /\ IF cur \in Isolated
       THEN \E row \in CMD_showhypermetrolun_all(cur) :
              /\ local' = [local EXCEPT !.seen = row]
              /\ IF row = NoRow THEN Answer("err") ELSE IsolatePair(row)
       ELSE Continue("members") /\ UNCHANGED local
  /\ UNCHANGED groupVars

FailOverSwap ==
  /\ At("failover", "swap")
  /\ \E reply \in SwapOutcome(cur) :
       /\ SwapMetro(cur, reply)
       /\ Failing(reply, CASE cur \in MetroGroup -> "stop"
                           [] cur \in MetroPair /\ local.seen.status = "Normal"
                                -> "show again"
                           [] cur \in MetroPair /\ local.seen.status # "Normal"
                                -> "members")
  /\ UNCHANGED <<sibling, hyper, local>>

(* _exec_hmpair_split_out asks for the slave once more, to no effect. *)
FailOverShowAgain ==
  /\ At("failover", "show again")
  /\ \E row \in CMD_showhypermetrolun_all(cur) :
       IF row = NoRow THEN Answer("err") ELSE Continue("stop")
  /\ UNCHANGED <<groupVars, local>>

FailOverStop ==
  /\ At("failover", "stop")
  /\ \E reply \in Outcome :
       /\ IF cur \in MetroGroup
            THEN CMD_stopconsistgrhm(cur, Local(cur), FALSE, reply)
            ELSE CMD_disablehcpair(cur, Local(cur), FALSE, reply)
       /\ Failing(reply, "members")
  /\ UNCHANGED <<sibling, hyper, local>>

(* _get_consisgrhm_info_out: the master of every member must be at this    *)
(* array.                                                                  *)
GroupMembers_Unchecked ==
  /\ At("failover", "members") /\ cur \in MetroGroup
  /\ \E reply \in Outcome : Answer(reply)
  /\ UNCHANGED <<groupVars, local>>
GroupMembers ==
  /\ At("failover", "members") /\ cur \in MetroGroup
  /\ \E reply \in IF unit[cur].primary # Local(cur) THEN {"err"} ELSE Outcome :
       Answer(reply)
  /\ UNCHANGED <<groupVars, local>>

(* The rest of _outband_swap_hypermetro for one pair: it is only identified. *)
PairMembers ==
  /\ At("failover", "members") /\ cur \in MetroPair
  /\ \E reply \in Outcome : Answer(reply)
  /\ UNCHANGED <<groupVars, local>>

PrepareFailoverNext == PrepareCopy \/ PrepareShowMetro \/ PrepareSwap
GroupFailOverNext ==
  \/ FailOverShowCopy \/ FailOverSparse \/ FailedOverBefore \/ SuspendedBefore
  \/ SuspendCopy \/ ActivateCopy \/ CopyMembers
  \/ FailOverShowGroup \/ FailOverShowPair \/ FailOverSwap
  \/ FailOverShowAgain \/ FailOverStop \/ GroupMembers \/ PairMembers
=============================================================================
