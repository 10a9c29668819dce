---------------------------- MODULE HostCommand ----------------------------
(***************************************************************************)
(* One SRA process that works on the mapping of an array: failover as far  *)
(* as _add_map goes ("map"), testFailoverStart and testFailoverStop.  The  *)
(* process keeps what its C++ locals and members keep, does its loops over *)
(* the devices one REST call at a time, answers and exits.                 *)
(***************************************************************************)
EXTENDS HostMapping

CONSTANT Commands      \* those SRM issues

ASSUME CommandAssumption == Commands \subseteq {"map", "start", "stop"}

VARIABLES
  phase,         \* SRM: what a LUN is under
  told,          \* SRM: the snapshot and WWN testFailoverStart named for it
  cmd, pc,
  todo, cur,     \* the devices left in the loop under way, the one at hand
  local,         \* locals and members that outlive a REST call
  report         \* what the response will say

planVars == <<phase, told>>
procVars == <<cmd, pc, todo, cur, local, report>>
vars == <<arrayVars, faults, planVars, procVars>>

Phase == {"idle", "mapping", "mapped", "starting", "testing", "stopping"}
Snapshot == SnapId \cup {NoObject}

(* As in SraCommand: "silent" is neither <Success> nor <Error>. *)
Result == {"absent", "none", "ok", "err", "silent"}

AddMapStep == {"select", "query", "hosts", "hostGroup", "fillHosts", "lunGroup",
               "fillLuns", "view", "newView", "joinHosts", "joinLuns", "mapped", "unmapped"}
StartStep == {"check", "operate", "create", "find", "activate", "time", "map",
              "list", "identify"}
StopStep == {"showmap", "stop", "findSnap", "unmap", "detachHosts", "detachLuns",
             "delView", "takeSnap", "delLunGroup", "showHosts", "takeHost",
             "disable", "delSnap"}
Step == {"idle", "preamble", "pick", "respond"}
        \cup AddMapStep \cup StartStep \cup StopStep

(* A row of CMD_showmap: a view with its groups and an object in them. *)
Row == [view : Name, hosts : Name, luns : Name, object : Object]

LocalRecord ==
  [object : Object,                              \* lun_id of _add_map
   want   : [AccessGroup -> SUBSET AnyHost],     \* mapHostInfo
   free   : [AccessGroup -> SUBSET Initiator],   \* mapInitiatorNoHost
   n      : Suffix,                              \* suffixId
   hosts  : Name \cup {Absent},                  \* hostGroupID
   luns   : Name \cup {Absent},                  \* lunGroupID
   join   : Name \cup {Absent},                  \* mvID
   found  : [Lun -> Snapshot],                   \* snapshot_info.snap_id
   rows   : SUBSET Row,                          \* rlstMapInfo, lstMapInfo
   wwn    : Snapshot,                            \* device_wwn
   wwnOf  : [Lun -> Snapshot],                   \* snapshot_info.snap_wwn
   del    : SUBSET Row,                          \* lst_delete_map
   members : SUBSET AnyHost]                     \* lstHostIDs

FreshLocal ==
  [object |-> NoObject, want |-> [g \in AccessGroup |-> {}],
   free |-> [g \in AccessGroup |-> {}], n |-> 1,
   hosts |-> Absent, luns |-> Absent, join |-> Absent,
   found |-> [d \in Lun |-> NoObject], rows |-> {},
   wwn |-> NoObject, wwnOf |-> [d \in Lun |-> NoObject],
   del |-> {}, members |-> {}]

ProcessTypeOK ==
  /\ phase \in [Lun -> Phase]
  /\ told \in [Lun -> [snap : Snapshot, wwn : Snapshot]]
  /\ cmd \in Commands \cup {"none"}
  /\ pc \in Step
  /\ todo \subseteq Lun
  /\ cur \in Lun \cup {NoObject}
  /\ local \in LocalRecord
  /\ report \in [Lun -> Result]

ProcessInit ==
  /\ phase = [d \in Lun |-> "idle"]
  /\ told = [d \in Lun |-> [snap |-> NoObject, wwn |-> NoObject]]
  /\ cmd = "none" /\ pc = "idle" /\ todo = {} /\ cur = NoObject
  /\ local = FreshLocal
  /\ report = [d \in Lun |-> "absent"]

----------------------------------------------------------------------------
(* The frame of a step. *)
At(c, step) == cmd = c /\ pc = step
Asked == {d \in Lun : report[d] # "absent"}

Continue(step) ==
  /\ pc' = step
  /\ UNCHANGED <<cmd, todo, cur, report, planVars>>

(* The device at hand is through the loop at step `here'; after the last   *)
(* one the next loop begins.                                               *)
Proceed(d, here, next) ==
  /\ cur' = NoObject
  /\ pc' = IF todo = {d} THEN next ELSE here
  /\ todo' = IF todo = {d} THEN Asked ELSE todo \ {d}
  /\ UNCHANGED <<cmd, planVars>>

Record(d, result) == report' = [report EXCEPT ![d] = result]

(* The response is an error as a whole, or there is none. *)
Vanish ==
  /\ cmd' = "none" /\ pc' = "idle" /\ todo' = {} /\ cur' = NoObject
  /\ local' = FreshLocal
  /\ report' = [d \in Lun |-> "absent"]

Fail == Answers("err") /\ Vanish /\ UNCHANGED <<arrayVars, planVars>>

----------------------------------------------------------------------------
StartsIn == [map   |-> {"idle", "mapping", "mapped"},
             start |-> {"idle", "starting"},
             stop  |-> {"starting", "testing", "stopping"}]
UnderWay == [map |-> "mapping", start |-> "starting", stop |-> "stopping"]
Reached == [map |-> "mapped", start |-> "testing", stop |-> "idle"]

Begin(c, D) ==
  /\ pc = "idle" /\ c \in Commands /\ D # {}
  /\ \A d \in D : phase[d] \in StartsIn[c]
  /\ cmd' = c /\ pc' = "preamble" /\ todo' = D
  /\ report' = [d \in Lun |-> IF d \in D THEN "none" ELSE "absent"]
  /\ phase' = [d \in Lun |-> IF d \in D THEN UnderWay[c] ELSE phase[d]]
  /\ UNCHANGED <<arrayVars, faults, told, cur, local>>

(* SetStorageInfo, _get_array_info, check_array_id_validate_out. *)
Preamble ==
  /\ pc = "preamble"
  /\ \/ /\ Continue(CASE cmd = "map" -> "pick" [] cmd = "start" -> "check"
                      [] cmd = "stop" -> "showmap")
        /\ UNCHANGED <<arrayVars, faults, local>>
     \/ Fail

Crash == pc # "idle" /\ Fail

(* The response: SRM learns of the devices it names as done. *)
Respond ==
  /\ pc = "respond"
  /\ LET done == {d \in Lun : report[d] = "ok"}
     IN /\ phase' = [d \in Lun |-> IF d \in done THEN Reached[cmd]
                                                 ELSE phase[d]]
        /\ told' = IF cmd = "map" THEN told
                   ELSE [d \in Lun |->
                           IF d \in done
                             THEN [snap |-> local.found[d],
                                   wwn |-> local.wwnOf[d]]
                             ELSE told[d]]
  /\ Vanish
  /\ UNCHANGED <<arrayVars, faults>>

(* What CMD_showmap lists: the objects of every view that has both groups. *)
RowsOf(v) ==
  UNION {{[view |-> v, hosts |-> h, luns |-> l, object |-> o] :
            h \in view[v].hosts, o \in lunGroup[l]} : l \in view[v].luns}
Rows == UNION {RowsOf(v) : v \in {w \in Name : view[w] # Absent}}

(* CMD_showmap into `rows'; an error in asking a view only hides it. *)
Showmap(next) ==
  \/ /\ local' = [local EXCEPT !.rows = Rows]
     /\ Continue(next) /\ UNCHANGED <<arrayVars, faults>>
  \/ /\ \E v \in {r.view : r \in Rows} :
          local' = [local EXCEPT !.rows = {r \in Rows : r.view # v}]
     /\ Answers("err")
     /\ Continue(next) /\ UNCHANGED arrayVars
  \/ Fail
=============================================================================
