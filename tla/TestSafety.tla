----------------------------- MODULE TestSafety -----------------------------
(***************************************************************************)
(* The inductive invariants behind the safety properties of TestFailover.  *)
(* TypeInv is what the process may rely on: which device it handles, which *)
(* of the groups and views it holds exist, which of the rows it has listed *)
(* are still what they were.  MapInv follows _add_map from the initiators  *)
(* to the view, TestInv the snapshots from start to stop.                  *)
(***************************************************************************)
EXTENDS TestFailover

(* Groups and views are named after an object and never used for another.  *)
Owner(name) == name[1]

----------------------------------------------------------------------------
(* The process. *)
OperateSteps == {"create", "find", "activate", "time"}
UnmapSteps == {"detachHosts", "detachLuns", "delView", "takeSnap", "delLunGroup",
               "showHosts", "takeHost"}
RowSteps == UnmapSteps \cup {"unmap", "disable", "delSnap"}
DeviceSteps == AddMapStep \cup OperateSteps \cup RowSteps \cup {"findSnap"}

StepsOf ==
  [map   |-> {"preamble", "pick", "respond"} \cup AddMapStep,
   start |-> {"preamble", "respond"} \cup StartStep \cup AddMapStep,
   stop  |-> {"preamble", "respond"} \cup StopStep]

NoProcess ==
  /\ cmd = "none" /\ todo = {} /\ cur = NoObject /\ local = FreshLocal
  /\ Asked = {}

ProcessInv ==
  /\ pc = "idle" => NoProcess
  /\ pc # "idle" => /\ cmd \in Commands /\ pc \in StepsOf[cmd]
                    /\ \A d \in Asked : phase[d] = UnderWay[cmd]
  /\ todo \subseteq Asked
  /\ pc \in {"preamble", "showmap", "list"} => todo = Asked
  /\ pc = "preamble" => local = FreshLocal
  /\ IF pc \in DeviceSteps THEN cur \in todo ELSE cur = NoObject

----------------------------------------------------------------------------
(* The array: a view joins groups that exist, all of one object; a LUN     *)
(* group holds at most the object it is named after, and that one exists.  *)
ViewInv(v) ==
  view[v] # Absent =>
    /\ \A h \in view[v].hosts : hostGroup[h] # Absent /\ Owner(h) = Owner(v)
    /\ \A l \in view[v].luns : lunGroup[l] # Absent /\ Owner(l) = Owner(v)

Present(o) == o \in Lun \/ (o \in SnapId /\ snapOf[o] # Absent)

LunGroupInv(l) ==
  lunGroup[l] # Absent => \A o \in lunGroup[l] : o = Owner(l) /\ Present(o)

NamesInv == \A n \in Name : ViewInv(n) /\ LunGroupInv(n)

----------------------------------------------------------------------------
(* What _add_map holds: groups and a view of its own object. *)
Held(name) == name \in Name /\ Owner(name) = local.object

AfterHosts == {"fillHosts", "lunGroup", "fillLuns", "view", "newView",
               "joinHosts", "joinLuns"}
AfterHostGroup == AfterHosts \ {"fillHosts"}
AfterLunGroup == {"view", "newView", "joinHosts", "joinLuns"}

HeldInv ==
  /\ pc \in AfterHosts =>
       Held(local.hosts) /\ hostGroup[local.hosts] # Absent
  /\ pc = "fillLuns" =>
       /\ Held(local.luns) /\ lunGroup[local.luns] = {}
       /\ ~Joined(local.luns)
  /\ pc \in AfterLunGroup =>
       Held(local.luns) /\ lunGroup[local.luns] = {local.object}
  /\ pc \in {"joinHosts", "joinLuns"} => Held(local.join)
  /\ pc = "joinHosts" => view[local.join] = [hosts |-> {}, luns |-> {}]
  /\ pc = "joinLuns" => view[local.join] = [hosts |-> {local.hosts}, luns |-> {}]

(* The object is the LUN itself or the snapshot found for it, if any. *)
SnapshotOf(d) == local.found[d] = NoObject \/ local.found[d] \in SnapshotsOf(d)

ObjectInv ==
  /\ pc \in AddMapStep =>
       local.object = IF cmd = "map" THEN cur ELSE local.found[cur]
  /\ cmd = "start" => \A d \in Lun : SnapshotOf(d)
  /\ pc \in {"activate", "time"} => local.found[cur] # NoObject

(* What testFailoverStop holds.  The rows of a device whose turn has not   *)
(* come are still what was listed, and so are those of the snapshot at     *)
(* hand that are left, but for the view being taken apart.                 *)
Current(r) ==
  /\ view[r.view] # Absent
  /\ r.hosts \in view[r.view].hosts /\ r.luns \in view[r.view].luns

OwnRow(r) == /\ Owner(r.view) = r.object
             /\ Owner(r.hosts) = r.object /\ Owner(r.luns) = r.object

ToCome == IF pc \in {"stop", "findSnap"} THEN todo ELSE todo \ {cur}

RowsInv ==
  cmd = "stop" /\ pc \in StopStep \ {"showmap"} =>
    /\ \A r \in local.rows :
         /\ OwnRow(r)
         /\ \A d \in ToCome : r.object \in SnapshotsOf(d) => Current(r)
    /\ pc \in RowSteps =>
         /\ local.object \in SnapshotsOf(cur)
         /\ \A r \in local.del :
              /\ r.object = local.object /\ OwnRow(r)
              /\ Current(r) \/ (pc \in UnmapSteps /\ r.view = local.join)

UnmapInv ==
  pc \in UnmapSteps =>
    /\ Held(local.join) /\ Held(local.luns) /\ Held(local.hosts)
    /\ hostGroup[local.hosts] # Absent
    /\ pc \in {"detachHosts", "detachLuns", "delView"} => view[local.join] # Absent
    /\ pc \notin {"showHosts", "takeHost"} => lunGroup[local.luns] # Absent

TypeInv ==
  /\ TypeOK /\ ProcessInv /\ NamesInv
  /\ HeldInv /\ ObjectInv /\ RowsInv /\ UnmapInv

----------------------------------------------------------------------------
(* An access group g has a host that sees the object. *)
Reaches(o, g) == HostsOf(g) \cap SeenBy(o) # {}
Known(g) == local.want[g] # {} \/ local.free[g] # {}

(* From the initiators on, what is wanted for an access group are hosts of *)
(* it; a group is left without only when one of its hosts sees the object. *)
WantInv ==
  pc \in AddMapStep \ {"select", "mapped", "unmapped"} =>
    /\ \A g \in AccessGroup :
         /\ local.want[g] \subseteq HostsOf(g)
         /\ local.free[g] \subseteq InitiatorsOf[g]
    /\ \A g \in AccessGroup \ GroupsOf[cur] :
         local.want[g] = {} /\ local.free[g] = {}
    /\ \A g \in GroupsOf[cur] :
         Known(g) \/ (pc # "query" /\ Reaches(local.object, g))
    /\ pc \notin {"query", "hosts"} => \A g \in AccessGroup : local.free[g] = {}
    /\ pc = "fillHosts" => hostGroup[local.hosts] \subseteq Wanted
    /\ pc \in AfterHostGroup => hostGroup[local.hosts] = Wanted

(* No one else gets to see it. *)
AccessInv == TypeInv /\ WantInv /\ OnlyAccessGroups

(* What is reported as mapped is; MappedIsServed is what SRM makes of it.  *)
MapInv ==
  /\ AccessInv /\ MappedIsServed
  /\ cmd = "map" => \A d \in Lun : report[d] = "ok" => Serves(d, d)

----------------------------------------------------------------------------
(* A start takes each device through its loops: a snapshot that is in use  *)
(* is active, then it is mapped, and only then listed.                     *)
Ready(d) == local.found[d] = NoObject \/ local.found[d] \in active
ShownBy(d) == Serves(local.found[d], d)

Going(d) ==
  /\ Ready(d) \/ (d = cur /\ pc \in OperateSteps)
  /\ pc \in {"map"} \cup AddMapStep /\ d \notin todo => ShownBy(d)
  /\ pc \in {"list", "identify", "respond"} => ShownBy(d)

StartInv ==
  cmd = "start" =>
    /\ pc \in {"preamble", "check"} => \A d \in Lun : local.found[d] = NoObject
    /\ \A d \in Asked : report[d] # "err" => Going(d)

(* A device that SRM names no access group for has nothing to be served    *)
(* with: when its snapshot cannot be shown, _add_map of no object at all   *)
(* is a success.                                                           *)
Grouped == \A d \in Lun : GroupsOf[d] # {}

Tested(d) ==
  LET s == told[d].snap
  IN s \in active /\ snapOf[s] = d /\ Serves(s, d)

TestInv ==
  /\ MapInv /\ StartInv
  /\ \A d \in Lun : phase[d] = "testing" /\ GroupsOf[d] # {} => Tested(d)
=============================================================================
