---------------------------- MODULE GroupReverse ----------------------------
(***************************************************************************)
(* prepareReverseReplication and reverseReplication of units.  Both deal   *)
(* with the HyperMetros of a 3DC layout, A -hyper- B -copy- C: before the  *)
(* copy of a LUN is reversed onto B its HyperMetro is to be stopped there, *)
(* and once B is the source again it is synchronized.  Here B is the array *)
(* at site "A" and C the one at site "B", and a HyperMetro found for a     *)
(* member stands for all those of its group.                               *)
(*                                                                         *)
(* Left out is dealHyperMirror of prepareReverse, which shuts the sibling  *)
(* pairs of a device between the HyperMetros and the groups: the siblings  *)
(* here are those of groups, and the ones of devices are only opened, by   *)
(* FailOver.                                                               *)
(***************************************************************************)
EXTENDS GroupFailOver

(* The HyperMetros full_ABInfo finds for the units of the command: the     *)
(* HyperMetro group behind a 3DC group when its LUNs are local, and the    *)
(* pair of a HyperMetro pair itself, which is a device like any other.  A  *)
(* HyperMetro group of the command is passed over.                         *)
HypersAt(site) ==
  {<<u, hyper[u]>> : u \in {v \in asked \cap ThreeDC : site = "A"}}
    \cup {<<u, unit[u].status>> : u \in asked \cap MetroPair}

(* When CMD_showhypermetrolun_all fails in deal_hypers the front of an     *)
(* empty list is compared with the LUN: the process dies, or takes what it *)
(* finds there for another LUN.                                            *)
FoundHypers(site) == SUBSET HypersAt(site)

AskedAt == RunsAt(cmd, CHOOSE u \in asked : TRUE)

(* find_luns_from_consis and find_luns_from_devices, whose failures are    *)
(* the failure of prepareReverse.                                          *)
FindHypers ==
  /\ At("prepareReverse", "find")
  /\ UNCHANGED groupVars
  /\ \/ \E found \in FoundHypers(AskedAt) :
          /\ local' = [local EXCEPT !.hyper = found]
          /\ report' = [u \in Unit |-> IF u \in asked /\ found = {} THEN "ok"
                                                                    ELSE "none"]
          /\ pc' = "hypers"
          /\ UNCHANGED <<cmd, todo, asked, cur, planVars>>
     \/ Fail

(* set_consis_result: its inner consis_id hides the parameter, no group is *)
(* ever the one the result is for, and all of them succeed.                *)
set_consis_result(u, result) ==
  [v \in Unit |-> IF v \in asked \ MetroPair THEN "ok" ELSE report[v]]

set_device_result(u, result) ==
  [v \in Unit |-> IF v \notin asked \cap MetroPair THEN report[v]
                  ELSE IF v = u THEN result ELSE "ok"]

Recorded(h, result) ==
  /\ local' = [local EXCEPT !.hyper = @ \ {h}]
  /\ report' = IF h[1] \in ThreeDC THEN set_consis_result(h[1], result)
                                   ELSE set_device_result(h[1], result)
  /\ UNCHANGED <<cmd, todo, asked, pc, cur, planVars>>

(* do_deal_AB: the local side is kept.  The status is that of the find,    *)
(* and a Normal HyperMetro has read-write access at both sides.            *)
StopHyper ==
  /\ At("prepareReverse", "hypers")
  /\ \E h \in local.hyper : \E reply \in Outcome :
       /\ h[2] = "Normal"
       /\ IF h[1] \in ThreeDC
            THEN /\ \E n \in Deliveries(reply) :
                      hyper' = IF n = 0 THEN hyper
                               ELSE [hyper EXCEPT ![h[1]] = "Pause"]
                 /\ UNCHANGED unit
            ELSE /\ CMD_disablehcpair(h[1], Local(h[1]),
                                      unit[h[1]].primary # Local(h[1]), reply)
                 /\ UNCHANGED hyper
       /\ Recorded(h, reply)
  /\ UNCHANGED sibling

(* deal_AB of a HyperMetro that is not Normal: a paused one is taken as it *)
(* is, the error for its access is overwritten; any other is an error.     *)
JudgeHyper ==
  /\ At("prepareReverse", "hypers")
  /\ \E h \in local.hyper :
       /\ h[2] # "Normal"
       /\ Recorded(h, IF h[2] = "Pause" THEN "ok" ELSE "err")
  /\ UNCHANGED groupVars

HypersDone ==
  /\ At("prepareReverse", "hypers") /\ local.hyper = {}
  /\ pc' = "next" /\ todo' = todo \cap Mirror
  /\ UNCHANGED <<groupVars, cmd, asked, cur, local, report, planVars>>

(* dealConsistHyperMirror: is_Fs_by_lun, then the sibling groups of a      *)
(* group are closed; the success recorded before is taken back if that     *)
(* fails.  A vStore pair taken for a group has no members.                 *)
UnwindCopy ==
  /\ At("prepareReverse", "show")
  /\ \E nfs \in Classified(cur) :
       CASE nfs -> Answer(report[cur]) /\ UNCHANGED local
         [] ~nfs /\ cur \in VStore -> Answer("err") /\ UNCHANGED local
         [] ~nfs /\ cur \notin VStore ->
              /\ local' = [local EXCEPT !.rest = OthersOf(cur)]
              /\ Continue("sparse")
  /\ UNCHANGED groupVars

UnwindSparse ==
  At("prepareReverse", "sparse") /\ Sparse("RO", "err", "next")

----------------------------------------------------------------------------
(* reverse of a copy, at the array that becomes the source.  A rerun finds *)
(* it master and does not close the other side.                            *)
ReverseShowCopy ==
  /\ At("reverse", "show") /\ cur \in Mirror
  /\ \E nfs \in Classified(cur) : \E row \in ShowCopy(cur, nfs) :
       /\ local' = [local EXCEPT !.nfs = nfs]
       /\ CASE row = NoRow                         -> Answer("err")
            [] row # NoRow /\ IsMaster(row, cur)   -> Answer("ok")
            [] row # NoRow /\ ~IsMaster(row, cur)  -> Continue("swap")
  /\ UNCHANGED groupVars

SwapCopy_Ignored ==
  /\ At("reverse", "swap") /\ cur \in Mirror
  /\ \E reply \in Outcome :
       /\ IF local.nfs THEN CMD_swapvstorepair(cur, reply)
                       ELSE CMD_swapconsistgr(cur, reply)
       /\ Continue("lock")
  /\ UNCHANGED <<sibling, hyper, local>>
SwapCopy ==
  /\ At("reverse", "swap") /\ cur \in Mirror
  /\ \E reply \in Outcome :
       /\ IF local.nfs THEN CMD_swapvstorepair(cur, reply)
                       ELSE CMD_swapconsistgr(cur, reply)
       /\ Failing(reply, "lock")
  /\ UNCHANGED <<sibling, hyper, local>>

LockCopy ==
  /\ At("reverse", "lock")
  /\ \E reply \in Outcome :
       /\ IF local.nfs THEN CMD_changeVstorePairSlaveLunRw(cur, "RO", reply)
                       ELSE CMD_changeCGSlaveLunRw(cur, "RO", reply)
       /\ Answer(reply)
  /\ UNCHANGED <<sibling, hyper, local>>

(* reverse of a HyperMetro unit: a group is shown and its members mapped,  *)
(* a pair is mapped and then shown; a LUN that cannot be mapped ends the   *)
(* loop over the units of its kind.                                        *)
ReverseShowMetro ==
  /\ At("reverse", "show") /\ cur \in MetroGroup
  /\ \E row \in CMD_showconsistgrhminfo(cur) :
       /\ local' = [local EXCEPT !.seen = row]
       /\ IF row = NoRow THEN Answer("err") ELSE Continue("map")
  /\ UNCHANGED groupVars

ReverseMapGroup ==
  /\ At("reverse", "map") /\ cur \in MetroGroup
  /\ \/ Continue("inquire")
     \/ Answer("err")           \* the list of pairs
     \/ Abandon(MetroGroup, "err")
  /\ UNCHANGED <<groupVars, local>>

ReverseMapPair ==
  /\ At("reverse", "show") /\ cur \in MetroPair
  /\ \/ Continue("map")
     \/ Abandon(MetroPair, "err")
  /\ UNCHANGED <<groupVars, local>>

ReverseShowPair ==
  /\ At("reverse", "map") /\ cur \in MetroPair
  /\ \E row \in CMD_showhypermetrolun_all(cur) :
       /\ local' = [local EXCEPT !.seen = row]
       /\ IF row = NoRow THEN Answer("err") ELSE Continue("inquire")
  /\ UNCHANGED groupVars

ReverseDecide ==
  /\ At("reverse", "inquire")
  /\ IF IsMaster(local.seen, cur) THEN Answer("ok") ELSE Continue("swap")
  /\ UNCHANGED <<groupVars, local>>

ReverseSwapMetro ==
  /\ At("reverse", "swap") /\ cur \in Metro
  /\ \E reply \in SwapOutcome(cur) : SwapMetro(cur, reply) /\ Answer(reply)
  /\ UNCHANGED <<sibling, hyper, local>>

(* deal_3dc_lun, once all units are done: a HyperMetro found Normal or     *)
(* paused is synchronized, whatever became of the copy, and the results    *)
(* are only logged.                                                        *)
Resyncable == {"Normal", "Pause"}
ReverseHypers ==
  /\ At("reverse", "next") /\ todo = {}
  /\ \E found \in FoundHypers(AskedAt) :
       local' = [local EXCEPT !.hyper =
                   {h \in found : h[2] \in Resyncable}]
  /\ pc' = "resync"
  /\ UNCHANGED <<groupVars, cmd, todo, asked, cur, report, planVars>>

ResyncHyper ==
  /\ At("reverse", "resync")
  /\ \E h \in local.hyper : \E reply \in Outcome :
       /\ local' = [local EXCEPT !.hyper = @ \ {h}]
       /\ IF h[1] \in ThreeDC
            THEN /\ hyper' \in
                      {[hyper EXCEPT ![h[1]] =
                         IF @ = "Pause" THEN "Synchronizing" ELSE @]}
                      \cup (IF reply = "err" THEN {hyper} ELSE {})
                 /\ UNCHANGED unit
            ELSE CMD_synchmpair(h[1], reply) /\ UNCHANGED hyper
  /\ UNCHANGED <<sibling, cmd, todo, asked, pc, cur, report, planVars>>

ReverseFinish ==
  /\ At("reverse", "resync") /\ local.hyper = {}
  /\ pc' = "done"
  /\ UNCHANGED <<groupVars, cmd, todo, asked, cur, local, report, planVars>>

PrepareReverseNext ==
  \/ FindHypers \/ StopHyper \/ JudgeHyper \/ HypersDone \/ UnwindCopy
  \/ UnwindSparse
GroupReverseNext ==
  \/ ReverseShowCopy \/ SwapCopy \/ LockCopy \/ ReverseShowMetro
  \/ ReverseMapGroup \/ ReverseMapPair \/ ReverseShowPair \/ ReverseDecide
  \/ ReverseSwapMetro \/ ReverseHypers \/ ResyncHyper \/ ReverseFinish
=============================================================================
