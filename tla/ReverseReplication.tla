------------------------- MODULE ReverseReplication -------------------------
(***************************************************************************)
(* reverseReplication: ReverseReplication::_outband_swap_hypermirror.  The *)
(* steps of one device: show -> swap -> lock.  It runs at the array that   *)
(* failover promoted.                                                      *)
(***************************************************************************)
EXTENDS SraCommand

ReversePick == PickDevice("reverse", "show")

(* master_id == iter->id, or the pair is Normal: taken as reversed, without *)
(* a look at the access of the secondary.                                   *)
AlreadyReversed_Split(rows) ==
  rows.primary = RunsAt(cmd, cur) \/ rows.status \in {"Normal", "Split"}
AlreadyReversed(rows) ==
  rows.primary = RunsAt(cmd, cur) \/ rows.status = "Normal"

NothingToReverse_Unanswered == Answer("silent")
NothingToReverse == Answer("ok")

ReverseShow ==
  /\ At("reverse", "show")
  /\ \/ AlreadyReversed(pair[cur]) /\ NothingToReverse
     \/ ~AlreadyReversed(pair[cur]) /\ Continue("swap")
     \/ "err" \in Outcome /\ Answer("err")
  /\ UNCHANGED <<arrayVars, local>>

Swapped_Ignored(reply) == Continue("lock")
Swapped(reply) == IF reply = "ok" THEN Continue("lock") ELSE Answer("err")

Swap ==
  /\ At("reverse", "swap")
  /\ \E reply \in Outcome : CMD_swaphymirror(cur, reply) /\ Swapped(reply)
  /\ UNCHANGED <<mapped, shared, misled, local>>

(* CMD_changeSlaveLunRw / CMD_changeSlaveFsRw (READ_ONLY); a failure clears *)
(* is_success but records no error.                                         *)
ReverseLock ==
  /\ At("reverse", "lock")
  /\ \E reply \in Outcome :
       /\ CMD_changeSlaveRw(cur, "RO", reply)
       /\ Answer(IF reply = "ok" THEN "ok" ELSE "silent")
  /\ UNCHANGED <<mapped, shared, misled, local>>

ReverseNext == ReversePick \/ ReverseShow \/ Swap \/ ReverseLock
=============================================================================
