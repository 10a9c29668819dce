------------------------------- MODULE AddMap -------------------------------
(***************************************************************************)
(* SraBasic::_add_map: a LUN or snapshot is mapped to the hosts of its     *)
(* device's access groups.  Everything it needs is looked up by name and   *)
(* made when it is not there:                                              *)
(*                                                                         *)
(*   select -> query -> hosts -> hostGroup (-> fillHosts)                  *)
(*          -> lunGroup (-> fillLuns)                                      *)
(*          -> view (-> newView -> joinHosts -> joinLuns)                  *)
(*                                                                         *)
(* It ends at "mapped" when it returns RETURN_OK, at "unmapped" otherwise. *)
(***************************************************************************)
EXTENDS HostCommand

(* A call failed; whatever it has done stays done. *)
GiveUp == Continue("unmapped") /\ UNCHANGED local

Groups == GroupsOf[cur]
Wanted == UNION {local.want[g] : g \in AccessGroup}
HostsAmong_Free(I) == {hostOf[i] : i \in I}
HostsAmong(I) == {hostOf[i] : i \in I} \ {NoHost}
This == <<local.object, local.n>>           \* the name under this suffixId

(* _select_valid_initiator: an initiator that is offline or cannot be      *)
(* shown is left out, a group that is left without one is an error, and so *)
(* is a host that cannot be shown.                                         *)
Select ==
  /\ pc = "select"
  /\ UNCHANGED arrayVars
  /\ \E valid \in SUBSET Initiator :
       LET of(g) == IF g \in Groups THEN valid \cap InitiatorsOf[g] ELSE {}
       IN \/ Answers("err") /\ GiveUp
          \/ /\ IF valid = Initiator THEN UNCHANGED faults ELSE Answers("err")
             /\ \A g \in Groups : of(g) # {}
             /\ local' = [local EXCEPT
                  !.want = [g \in AccessGroup |-> HostsAmong(of(g))],
                  !.free = [g \in AccessGroup |->
                              {i \in of(g) : hostOf[i] = NoHost}]]
             /\ Continue("query")

(* _query_lun_mapping_info: a group any of whose hosts sees the object is  *)
(* left alone.  CMD_showLunGroupByLUN and CMD_showHostGroupByMap, asked in *)
(* vain at every address, answer that there is none.                       *)
Served(group, seen) == local.want[group] \cap seen # {}
Query ==
  /\ pc = "query"
  /\ UNCHANGED arrayVars
  /\ \E reply \in Reply, shown \in SUBSET ViewsOf(local.object) :
       LET seen == HostsThrough(shown)
           left(f) == [g \in AccessGroup |-> IF Served(g, seen) THEN {} ELSE f[g]]
       IN /\ reply = "ok" => shown = ViewsOf(local.object)
          /\ reply = "err" => Wanted # {}         \* without hosts nothing is asked
          /\ Answers(reply)
          /\ \/ /\ local' = [local EXCEPT !.want = left(@), !.free = left(@)]
                /\ Continue("hosts")
             \/ reply = "err" /\ GiveUp

----------------------------------------------------------------------------
(* _query_and_create_host: the free initiators of a group join its first   *)
(* host, or one the SRA makes for the object and the group.                *)
MakeHost ==
  /\ pc = "hosts"
  /\ \E g \in AccessGroup, reply \in Reply :
       /\ local.free[g] # {} /\ local.want[g] = {}
       /\ <<local.object, g>> \notin sraHosts
       /\ Answers(reply)
       /\ Change(sraHosts, sraHosts \cup {<<local.object, g>>}, reply)
       /\ IF reply = "ok" THEN Continue("hosts") /\ UNCHANGED local ELSE GiveUp
  /\ UNCHANGED <<hostOf, groupVars, snapVars>>

AddInitiator ==
  /\ pc = "hosts"
  /\ \E g \in AccessGroup, h \in AnyHost, reply \in Reply :
     \E i \in local.free[g] :
       /\ h \in IF local.want[g] # {} THEN local.want[g]
                                      ELSE sraHosts \cap {<<local.object, g>>}
       /\ IF hostOf[i] = NoHost
            THEN Answers(reply) /\ Change(hostOf, [hostOf EXCEPT ![i] = h], reply)
            ELSE reply = "err" /\ UNCHANGED <<faults, hostOf>>
       /\ IF reply = "err" THEN GiveUp
          ELSE LET rest == local.free[g] \ {i}
               IN /\ local' = [local EXCEPT
                        !.free[g] = rest,
                        !.want[g] = IF rest = {} THEN @ \cup {h} ELSE @]
                  /\ Continue("hosts")
  /\ UNCHANGED <<sraHosts, groupVars, snapVars>>

(* Without a host to map to, every group is mapped already. *)
HostsKnown ==
  /\ pc = "hosts" /\ \A g \in AccessGroup : local.free[g] = {}
  /\ IF Wanted = {} THEN Continue("mapped") ELSE Continue("hostGroup")
  /\ UNCHANGED <<arrayVars, faults, local>>

----------------------------------------------------------------------------
(* A show that fails, wherever the search for a name has come. *)
ShowFails ==
  /\ pc \in {"hostGroup", "lunGroup", "view", "newView"}
  /\ Answers("err") /\ GiveUp
  /\ UNCHANGED arrayVars

NextSuffix ==
  /\ local.n + 1 \in Suffix
  /\ local' = [local EXCEPT !.n = @ + 1]
  /\ Continue(pc)
  /\ UNCHANGED <<arrayVars, faults>>

(* _create_host_group: one with exactly the hosts wanted, or a new one. *)
FitsHosts_Any(group) == TRUE
FitsHosts(group) == hostGroup[group] = Wanted

UseHostGroup ==
  /\ pc = "hostGroup" /\ hostGroup[This] # Absent /\ FitsHosts(This)
  /\ local' = [local EXCEPT !.hosts = This, !.n = 1]
  /\ Continue("lunGroup")
  /\ UNCHANGED <<arrayVars, faults>>
SkipHostGroup_Fails ==
  /\ pc = "hostGroup" /\ hostGroup[This] # Absent /\ ~FitsHosts(This)
  /\ GiveUp /\ UNCHANGED <<arrayVars, faults>>
SkipHostGroup ==
  /\ pc = "hostGroup" /\ hostGroup[This] # Absent /\ ~FitsHosts(This)
  /\ NextSuffix
CreateHostGroup ==
  /\ pc = "hostGroup" /\ hostGroup[This] = Absent
  /\ \E reply \in Reply :
       /\ Answers(reply)
       /\ Change(hostGroup, [hostGroup EXCEPT ![This] = {}], reply)
       /\ IF reply = "ok" THEN /\ local' = [local EXCEPT !.hosts = This, !.n = 1]
                               /\ Continue("fillHosts")
                          ELSE GiveUp
  /\ UNCHANGED <<lunGroup, view, hostVars, snapVars>>
FillHosts ==
  /\ pc = "fillHosts"
  /\ \E h \in Wanted \ hostGroup[local.hosts], reply \in Reply :
       LET after == hostGroup[local.hosts] \cup {h}
       IN /\ Answers(reply)
          /\ Change(hostGroup, [hostGroup EXCEPT ![local.hosts] = after], reply)
          /\ IF reply = "ok"
               THEN /\ Continue(IF after = Wanted THEN "lunGroup" ELSE "fillHosts")
                    /\ UNCHANGED local
               ELSE GiveUp
  /\ UNCHANGED <<lunGroup, view, hostVars, snapVars>>

(* _create_lun_group: one with the object alone, or a new one.  A group    *)
(* that is left empty is never filled.                                     *)
FitsLuns_Empty(group) == lunGroup[group] \subseteq {local.object}
FitsLuns(group) == lunGroup[group] = {local.object}

UseLunGroup ==
  /\ pc = "lunGroup" /\ lunGroup[This] # Absent /\ FitsLuns(This)
  /\ local' = [local EXCEPT !.luns = This, !.n = 1]
  /\ Continue("view")
  /\ UNCHANGED <<arrayVars, faults>>
SkipLunGroup ==
  /\ pc = "lunGroup" /\ lunGroup[This] # Absent /\ ~FitsLuns(This)
  /\ NextSuffix
CreateLunGroup ==
  /\ pc = "lunGroup" /\ lunGroup[This] = Absent
  /\ \E reply \in Reply :
       /\ Answers(reply)
       /\ Change(lunGroup, [lunGroup EXCEPT ![This] = {}], reply)
       /\ IF reply = "ok" THEN /\ local' = [local EXCEPT !.luns = This, !.n = 1]
                               /\ Continue("fillLuns")
                          ELSE GiveUp
  /\ UNCHANGED <<hostGroup, view, hostVars, snapVars>>
FillLuns ==                                \* an object without id is refused
  /\ pc = "fillLuns"
  /\ \E reply \in Reply :
       /\ IF local.object # NoObject
            THEN /\ Answers(reply)
                 /\ Change(lunGroup, [lunGroup EXCEPT ![local.luns] = {local.object}],
                           reply)
            ELSE reply = "err" /\ UNCHANGED <<faults, lunGroup>>
       /\ IF reply = "ok" THEN Continue("view") /\ UNCHANGED local ELSE GiveUp
  /\ UNCHANGED <<hostGroup, view, hostVars, snapVars>>

----------------------------------------------------------------------------
(* _create_mapping: a view that joins the two groups, or a new one.  A     *)
(* view with the name that joins anything else is passed over, and so is   *)
(* one whose host group is asked for in vain.                              *)
Joins(v) == view[v] # Absent /\ local.hosts \in view[v].hosts
                             /\ local.luns \in view[v].luns
PairJoined == \E v \in Name : Joins(v)

UseView ==
  /\ pc = "view" /\ PairJoined
  /\ Continue("mapped")
  /\ UNCHANGED <<arrayVars, faults, local>>
NoView ==
  /\ pc = "view"
  /\ IF PairJoined THEN Answers("err") ELSE UNCHANGED faults
  /\ Continue("newView")
  /\ UNCHANGED <<arrayVars, local>>
SkipView ==
  /\ pc = "newView" /\ view[This] # Absent
  /\ NextSuffix
CreateView ==
  /\ pc = "newView" /\ view[This] = Absent
  /\ \E reply \in Reply :
       /\ Answers(reply)
       /\ Change(view, [view EXCEPT ![This] = [hosts |-> {}, luns |-> {}]], reply)
       /\ IF reply = "ok" THEN /\ local' = [local EXCEPT !.join = This, !.n = 1]
                               /\ Continue("joinHosts")
                          ELSE GiveUp
  /\ UNCHANGED <<hostGroup, lunGroup, hostVars, snapVars>>
JoinHosts ==
  /\ pc = "joinHosts"
  /\ \E reply \in Reply :
       /\ Answers(reply)
       /\ Change(view, [view EXCEPT ![local.join].hosts = {local.hosts}], reply)
       /\ IF reply = "ok" THEN Continue("joinLuns") /\ UNCHANGED local ELSE GiveUp
  /\ UNCHANGED <<hostGroup, lunGroup, hostVars, snapVars>>
JoinLuns ==                    \* refused, or not, when another view joins them
  /\ pc = "joinLuns"
  /\ \E reply \in Reply :
       /\ IF PairJoined /\ reply = "err" THEN UNCHANGED faults ELSE Answers(reply)
       /\ Change(view, [view EXCEPT ![local.join].luns = {local.luns}], reply)
       /\ IF reply = "ok" THEN Continue("mapped") /\ UNCHANGED local ELSE GiveUp
  /\ UNCHANGED <<hostGroup, lunGroup, hostVars, snapVars>>

AddMapNext ==
  \/ Select \/ Query \/ MakeHost \/ AddInitiator \/ HostsKnown \/ ShowFails
  \/ UseHostGroup \/ SkipHostGroup \/ CreateHostGroup \/ FillHosts
  \/ UseLunGroup \/ SkipLunGroup \/ CreateLunGroup \/ FillLuns
  \/ UseView \/ NoView \/ SkipView \/ CreateView \/ JoinHosts \/ JoinLuns

(* FailOver::_outband_swap_hypermirror as far as the mapping goes. *)
MapPick ==
  /\ At("map", "pick")
  /\ \E d \in todo : cur' = d /\ local' = [FreshLocal EXCEPT !.object = d]
  /\ pc' = "select"
  /\ UNCHANGED <<cmd, todo, report, arrayVars, faults, planVars>>
MapDone ==
  /\ cmd = "map"
  /\ \/ pc = "mapped" /\ Record(cur, "ok") /\ Proceed(cur, "pick", "respond")
     \/ /\ pc = "unmapped" /\ Record(cur, "err")    \* out of the device loop
        /\ pc' = "respond" /\ cur' = NoObject /\ todo' = {}
        /\ UNCHANGED <<cmd, planVars>>
  /\ UNCHANGED <<local, arrayVars, faults>>

MapNext == MapPick \/ MapDone
=============================================================================
