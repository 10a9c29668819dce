-------------------------- MODULE TestFailover_proofs --------------------------
(***************************************************************************)
(* The invariants of TestSafety are inductive, for any LUNs, snapshot ids, *)
(* hosts and access groups, any number of faults and either answer of the  *)
(* array to the deletion of a snapshot in a LUN group.                     *)
(***************************************************************************)
EXTENDS TestSafety, TLAPS

(* The array and what the process holds of it, as parts of TypeInv. *)
ArrayInv == ArrayTypeOK /\ NamesInv
HandInv == HeldInv /\ ObjectInv /\ RowsInv /\ UnmapInv

----------------------------------------------------------------------------
(* Names, ids and records. *)
LEMMA NameFacts ==
  /\ 1 \in Suffix /\ Absent \notin Name
  /\ \A o \in Object, k \in Suffix : <<o, k>> \in Name /\ Owner(<<o, k>>) = o
  /\ \A n \in Name : Owner(n) \in Object
BY MappingAssumption DEF Suffix, Name, Owner

LEMMA AbsentFacts ==
  /\ \A group \in SUBSET AnyHost : group # Absent
  /\ \A group \in SUBSET Object : group # Absent
  /\ Absent \notin Lun /\ Absent \notin ViewRecord
BY MappingAssumption

LEMMA ObjectFacts ==
  /\ Lun \subseteq Object /\ SnapId \subseteq Object /\ Snapshot \subseteq Object
  /\ NoObject \in Snapshot /\ NoObject \notin Lun /\ NoObject \notin SnapId
  /\ Lun \cap SnapId = {}
BY MappingAssumption DEF Object, Snapshot

LEMMA HostFacts ==
  /\ NoHost \notin AnyHost
  /\ \A o \in Object, g \in AccessGroup : <<o, g>> \in AnyHost
BY MappingAssumption DEF AnyHost

LEMMA FreshType == FreshLocal \in LocalRecord
BY NameFacts, ObjectFacts DEF FreshLocal, LocalRecord

LEMMA LocalFields ==
  ASSUME NEW l \in LocalRecord
  PROVE  /\ l.object \in Object /\ l.n \in Suffix
         /\ l.want \in [AccessGroup -> SUBSET AnyHost]
         /\ l.free \in [AccessGroup -> SUBSET Initiator]
         /\ l.hosts \in Name \cup {Absent} /\ l.luns \in Name \cup {Absent}
         /\ l.join \in Name \cup {Absent}
         /\ l.found \in [Lun -> Snapshot] /\ l.wwnOf \in [Lun -> Snapshot]
         /\ l.wwn \in Snapshot
         /\ l.rows \in SUBSET Row /\ l.del \in SUBSET Row
         /\ l.members \in SUBSET AnyHost
BY DEF LocalRecord

LEMMA RowFields ==
  ASSUME NEW r \in Row
  PROVE  /\ r.view \in Name /\ r.hosts \in Name /\ r.luns \in Name
         /\ r.object \in Object
BY DEF Row

LEMMA Wants ==
  ASSUME local \in LocalRecord
  PROVE  Wanted \in SUBSET AnyHost
BY LocalFields DEF Wanted

----------------------------------------------------------------------------
(* The steps of each command, as far as a proof needs to tell them apart. *)
LEMMA StepFacts ==
  /\ AddMapStep \subseteq Step /\ StartStep \subseteq Step /\ StopStep \subseteq Step
  /\ AddMapStep \cap StopStep = {} /\ AddMapStep \subseteq DeviceSteps
  /\ OperateSteps \subseteq StartStep /\ RowSteps \subseteq StopStep
  /\ DeviceSteps \subseteq Step \ {"idle", "preamble", "showmap", "list", "respond"}
BY DEF Step, AddMapStep, StartStep, StopStep, DeviceSteps, OperateSteps, RowSteps,
       UnmapSteps

LEMMA TypeParts ==
  TypeInv <=> /\ ArrayInv /\ ProcessTypeOK /\ ProcessInv /\ HandInv
BY DEF TypeInv, TypeOK, ArrayInv, HandInv

(* What a step at a device may rely on. *)
LEMMA AtDevice ==
  ASSUME TypeInv, pc \in DeviceSteps
  PROVE  /\ cur \in todo /\ cur \in Lun /\ cur \in Asked /\ pc # "idle"
         /\ cmd \in {"map", "start", "stop"} /\ pc \in StepsOf[cmd]
         /\ phase[cur] = UnderWay[cmd] /\ local \in LocalRecord
BY StepFacts, CommandAssumption DEF TypeInv, TypeOK, ProcessTypeOK, ProcessInv

(* Outside of what it is about, a part of HandInv says nothing. *)
LEMMA NothingHeld ==
  /\ pc \notin AddMapStep => HeldInv
  /\ pc \notin AddMapStep \cup OperateSteps /\ cmd # "start" => ObjectInv
  /\ cmd # "stop" \/ pc \notin StopStep => RowsInv
  /\ pc \notin StopStep => UnmapInv
BY DEF HeldInv, ObjectInv, RowsInv, UnmapInv, AfterHosts, AfterLunGroup,
       AddMapStep, OperateSteps, UnmapSteps, StopStep

----------------------------------------------------------------------------
(* TypeInv: the frame of a step. *)
LEMMA InitType == Init => TypeInv
<1> SUFFICES ASSUME Init PROVE TypeInv
  OBVIOUS
<1> USE DEF Init, ArrayInit, ProcessInit
<1>1. ArrayTypeOK
  BY MappingAssumption DEF ArrayTypeOK, AnyHost
<1>2. NamesInv
  BY DEF NamesInv, ViewInv, LunGroupInv
<1>3. ProcessTypeOK
  BY FreshType, ObjectFacts DEF ProcessTypeOK, Phase, Snapshot, Step, Result
<1>4. Asked = {}
  BY DEF Asked
<1>5. ProcessInv
  BY <1>4, StepFacts DEF ProcessInv, NoProcess
<1>6. pc \notin AddMapStep \cup OperateSteps \cup StopStep
  BY DEF AddMapStep, OperateSteps, StopStep
<1>7. HandInv
  BY <1>6, NothingHeld DEF HandInv
<1>8. QED BY <1>1, <1>2, <1>3, <1>5, <1>7, TypeParts DEF ArrayInv

LEMMA SameArray ==
  ASSUME ArrayInv, UNCHANGED arrayVars, faults' \in 0 .. MaxFaults
  PROVE  ArrayInv'
<1> USE DEF arrayVars, hostVars, groupVars, snapVars
<1>1. ArrayTypeOK'
  BY DEF ArrayInv, ArrayTypeOK
<1>2. NamesInv'
  BY DEF ArrayInv, NamesInv, ViewInv, LunGroupInv, Present
<1>3. QED BY <1>1, <1>2 DEF ArrayInv

LEMMA CountsFaults ==
  ASSUME TypeInv, NEW reply, Answers(reply)
  PROVE  faults' \in 0 .. MaxFaults /\ reply \in Reply
<1>1. faults \in 0 .. MaxFaults /\ MaxFaults \in Nat
  BY MappingAssumption DEF TypeInv, TypeOK, ArrayTypeOK
<1>2. reply \in Reply /\ (reply = "err" => faults < MaxFaults)
  BY DEF Answers, Outcome, Reply
<1>3. faults' = IF reply = "err" THEN faults + 1 ELSE faults
  BY DEF Answers
<1>4. QED BY <1>1, <1>2, <1>3

LEMMA KeepsFaults == TypeInv /\ UNCHANGED faults => faults' \in 0 .. MaxFaults
BY DEF TypeInv, TypeOK, ArrayTypeOK

(* SRM starts a process. *)
LEMMA BeginType ==
  ASSUME TypeInv, NEW c \in Commands, NEW D \in SUBSET Lun, Begin(c, D)
  PROVE  TypeInv'
<1>1. Asked' = D
  BY DEF Begin, Asked
<1>2. ArrayInv'
  BY SameArray, TypeParts, KeepsFaults DEF Begin
<1>3. UnderWay[c] \in Phase
  BY CommandAssumption DEF UnderWay, Phase
<1>4. ProcessTypeOK'
  BY <1>3 DEF Begin, TypeInv, TypeOK, ProcessTypeOK, Step, Result
<1>5. local = FreshLocal /\ cur = NoObject
  BY DEF Begin, TypeInv, ProcessInv, NoProcess
<1>6. pc' \notin DeviceSteps /\ pc' = "preamble" /\ c \in {"map", "start", "stop"}
  BY StepFacts, CommandAssumption DEF Begin
<1>7. \A d \in D : phase'[d] = UnderWay[c]
  BY DEF Begin, TypeInv, TypeOK, ProcessTypeOK
<1>8. ProcessInv'
  BY <1>1, <1>5, <1>6, <1>7 DEF Begin, ProcessInv, StepsOf
<1>9. pc' \notin AddMapStep \cup OperateSteps \cup StopStep
  BY <1>6 DEF AddMapStep, OperateSteps, StopStep
<1>10. HeldInv' /\ RowsInv' /\ UnmapInv'
  BY <1>9 DEF HeldInv, RowsInv, UnmapInv, AfterHosts, AfterLunGroup,
              AddMapStep, OperateSteps, UnmapSteps, StopStep
<1>11. \A d \in Lun : local'.found[d] = NoObject
  BY <1>5 DEF Begin, FreshLocal
<1>12. ObjectInv'
  BY <1>9, <1>11 DEF ObjectInv, SnapshotOf, OperateSteps
<1>13. QED
  BY <1>2, <1>4, <1>8, <1>10, <1>12 DEF TypeInv, TypeOK, ArrayInv

(* A process that ends. *)
LEMMA VanishType ==
  ASSUME TypeInv, Vanish, ArrayInv',
         phase' \in [Lun -> Phase], told' \in [Lun -> [snap : Snapshot, wwn : Snapshot]]
  PROVE  TypeInv'
<1>1. Asked' = {}
  BY DEF Vanish, Asked
<1>2. ProcessTypeOK'
  BY FreshType DEF Vanish, ProcessTypeOK, Step, Result
<1>3. pc' \notin DeviceSteps /\ pc' = "idle"
  BY StepFacts DEF Vanish
<1>4. ProcessInv'
  BY <1>1, <1>3 DEF Vanish, ProcessInv, NoProcess
<1>5. pc' \notin AddMapStep \cup OperateSteps \cup StopStep /\ cmd' = "none"
  BY <1>3 DEF AddMapStep, OperateSteps, StopStep, Vanish
<1>6. HandInv'
  BY <1>5 DEF HandInv, HeldInv, ObjectInv, RowsInv, UnmapInv, AfterHosts,
              AfterLunGroup, AddMapStep, OperateSteps, UnmapSteps, StopStep
<1>7. QED BY <1>2, <1>4, <1>6 DEF TypeInv, TypeOK, ArrayInv, HandInv

LEMMA VanishKeeps ==
  ASSUME TypeInv, Vanish, UNCHANGED planVars, ArrayInv'
  PROVE  TypeInv'
BY VanishType DEF planVars, TypeInv, TypeOK, ProcessTypeOK

LEMMA FailType ==
  ASSUME TypeInv, Fail
  PROVE  TypeInv'
BY SameArray, TypeParts, CountsFaults, VanishKeeps DEF Fail

(* A process that goes on, with a device at hand or without one. *)
LEMMA ContinueType ==
  ASSUME TypeInv, NEW step, Continue(step), pc # "idle",
         step \in Step \ {"idle", "preamble"}, step \in StepsOf[cmd],
         step \in DeviceSteps <=> pc \in DeviceSteps,
         step \in {"showmap", "list"} => todo = Asked,
         local' \in LocalRecord, ArrayInv', HandInv'
  PROVE  TypeInv'
<1>1. Asked' = Asked
  BY DEF Continue, Asked
<1>2. ProcessTypeOK'
  BY DEF Continue, TypeInv, TypeOK, ProcessTypeOK, planVars
<1>3. ProcessInv'
  BY <1>1 DEF Continue, TypeInv, ProcessInv, planVars
<1>4. QED BY <1>2, <1>3 DEF TypeInv, TypeOK, ArrayInv, HandInv

(* A process that is through with a device. *)
LEMMA ProceedType ==
  ASSUME TypeInv, NEW d \in todo, NEW here, NEW next, Proceed(d, here, next),
         pc # "idle", {here, next} \subseteq StepsOf[cmd],
         {here, next} \subseteq Step \ DeviceSteps,
         {here, next} \cap {"idle", "preamble", "showmap"} = {}, here # "list",
         report' = report \/ \E r \in Result \ {"absent"} : Record(d, r),
         local' \in LocalRecord, ArrayInv', HandInv'
  PROVE  TypeInv' /\ Asked' = Asked
<1>1. d \in Asked /\ d \in Lun
  BY DEF TypeInv, TypeOK, ProcessTypeOK, ProcessInv
<1>2. Asked' = Asked
  BY <1>1 DEF Asked, Record, TypeInv, TypeOK, ProcessTypeOK
<1>3. /\ report' \in [Lun -> Result] /\ todo' \subseteq Asked /\ cur' = NoObject
      /\ pc' \in {here, next} /\ (pc' = here \/ todo' = Asked)
      /\ UNCHANGED <<cmd, phase, told>>
  BY <1>1 DEF Proceed, Record, TypeInv, TypeOK, ProcessTypeOK, planVars, ProcessInv
<1>4. ProcessTypeOK'
  BY <1>3 DEF TypeInv, TypeOK, ProcessTypeOK, Asked
<1>5. ProcessInv'
  BY <1>2, <1>3 DEF TypeInv, ProcessInv
<1>6. QED BY <1>2, <1>4, <1>5 DEF TypeInv, TypeOK, ArrayInv, HandInv

(* A process that takes up a device. *)
LEMMA PickType ==
  ASSUME TypeInv, NEW d \in todo, NEW step \in DeviceSteps, cur' = d, pc' = step,
         UNCHANGED <<cmd, todo, report, planVars>>, pc # "idle",
         step \in StepsOf[cmd],
         local' \in LocalRecord, ArrayInv', HandInv'
  PROVE  TypeInv' /\ Asked' = Asked
<1>1. d \in Asked /\ d \in Lun
  BY DEF TypeInv, TypeOK, ProcessTypeOK, ProcessInv
<1>2. Asked' = Asked
  BY DEF Asked
<1>3. step \in Step \ {"idle", "preamble", "showmap", "list"}
  BY StepFacts
<1>4. ProcessTypeOK'
  BY <1>1, <1>3 DEF TypeInv, TypeOK, ProcessTypeOK, planVars
<1>5. ProcessInv'
  BY <1>2, <1>3 DEF TypeInv, ProcessInv, planVars
<1>6. QED BY <1>2, <1>4, <1>5 DEF TypeInv, TypeOK, ArrayInv, HandInv

----------------------------------------------------------------------------
(* The array: what the requests of the process do to it, one by one. *)
LEMMA HostGroupChanges ==
  ASSUME ArrayInv, NEW n \in Name, NEW x,
         hostGroup' = hostGroup \/ hostGroup' = [hostGroup EXCEPT ![n] = x],
         x \in SUBSET AnyHost \/ (x = Absent /\ ~Attached(n)),
         UNCHANGED <<lunGroup, view, hostVars, snapVars>>,
         faults' \in 0 .. MaxFaults
  PROVE  ArrayInv'
<1> USE DEF hostVars, snapVars
<1>1. CASE hostGroup' = hostGroup
  BY <1>1, SameArray DEF arrayVars, groupVars
<1>2. CASE hostGroup' = [hostGroup EXCEPT ![n] = x]
  <2>1. /\ DOMAIN hostGroup' = Name /\ hostGroup'[n] = x
        /\ \A m \in Name : m # n => hostGroup'[m] = hostGroup[m]
    BY <1>2 DEF ArrayInv, ArrayTypeOK
  <2>2. ArrayTypeOK'
    BY <2>1 DEF ArrayInv, ArrayTypeOK
  <2>3. ASSUME NEW v \in Name PROVE ViewInv(v)' /\ LunGroupInv(v)'
    <3>1. ViewInv(v) /\ LunGroupInv(v)
      BY DEF ArrayInv, NamesInv
    <3>2. \A h \in view[v].hosts : view[v] # Absent => h \in Name
      BY DEF ArrayInv, ArrayTypeOK, ViewRecord
    <3>3. view[v] # Absent /\ n \in view[v].hosts => x # Absent
      BY AbsentFacts DEF Attached
    <3>4. ViewInv(v)'
      BY <2>1, <3>1, <3>2, <3>3 DEF ViewInv
    <3>5. QED BY <3>1, <3>4 DEF LunGroupInv, Present
  <2>4. QED BY <2>2, <2>3 DEF ArrayInv, NamesInv
<1>3. QED BY <1>1, <1>2

LEMMA LunGroupChanges ==
  ASSUME ArrayInv, NEW n \in Name, NEW x,
         lunGroup' = lunGroup \/ lunGroup' = [lunGroup EXCEPT ![n] = x],
         \/ x \in SUBSET Object /\ \A o \in x : o = Owner(n) /\ Present(o)
         \/ x = Absent /\ ~Joined(n),
         UNCHANGED <<hostGroup, view, hostVars, snapVars>>,
         faults' \in 0 .. MaxFaults
  PROVE  ArrayInv'
<1> USE DEF hostVars, snapVars
<1>1. CASE lunGroup' = lunGroup
  BY <1>1, SameArray DEF arrayVars, groupVars
<1>2. CASE lunGroup' = [lunGroup EXCEPT ![n] = x]
  <2>1. /\ DOMAIN lunGroup' = Name /\ lunGroup'[n] = x
        /\ \A m \in Name : m # n => lunGroup'[m] = lunGroup[m]
    BY <1>2 DEF ArrayInv, ArrayTypeOK
  <2>2. ArrayTypeOK'
    BY <2>1 DEF ArrayInv, ArrayTypeOK
  <2>3. ASSUME NEW v \in Name PROVE ViewInv(v)' /\ LunGroupInv(v)'
    <3>1. ViewInv(v) /\ LunGroupInv(v)
      BY DEF ArrayInv, NamesInv
    <3>2. \A l \in view[v].luns : view[v] # Absent => l \in Name
      BY DEF ArrayInv, ArrayTypeOK, ViewRecord
    <3>3. view[v] # Absent /\ n \in view[v].luns => x # Absent
      BY AbsentFacts DEF Joined
    <3>4. ViewInv(v)'
      BY <2>1, <3>1, <3>2, <3>3 DEF ViewInv
    <3>5. LunGroupInv(v)'
      BY <2>1, <3>1 DEF LunGroupInv, Present
    <3>6. QED BY <3>4, <3>5
  <2>4. QED BY <2>2, <2>3 DEF ArrayInv, NamesInv
<1>3. QED BY <1>1, <1>2

LEMMA ViewChanges ==
  ASSUME ArrayInv, NEW n \in Name, NEW x,
         view' = view \/ view' = [view EXCEPT ![n] = x],
         \/ x = Absent
         \/ /\ x \in ViewRecord
            /\ \A h \in x.hosts : hostGroup[h] # Absent /\ Owner(h) = Owner(n)
            /\ \A l \in x.luns : lunGroup[l] # Absent /\ Owner(l) = Owner(n),
         UNCHANGED <<hostGroup, lunGroup, hostVars, snapVars>>,
         faults' \in 0 .. MaxFaults
  PROVE  ArrayInv'
<1> USE DEF hostVars, snapVars
<1>1. CASE view' = view
  BY <1>1, SameArray DEF arrayVars, groupVars
<1>2. CASE view' = [view EXCEPT ![n] = x]
  <2>1. /\ DOMAIN view' = Name /\ view'[n] = x
        /\ \A m \in Name : m # n => view'[m] = view[m]
    BY <1>2 DEF ArrayInv, ArrayTypeOK
  <2>2. ArrayTypeOK'
    BY <2>1 DEF ArrayInv, ArrayTypeOK
  <2>3. ASSUME NEW v \in Name PROVE ViewInv(v)' /\ LunGroupInv(v)'
    <3>1. ViewInv(v) /\ LunGroupInv(v)
      BY DEF ArrayInv, NamesInv
    <3>2. ViewInv(v)'
      BY <2>1, <3>1 DEF ViewInv
    <3>3. QED BY <3>1, <3>2 DEF LunGroupInv, Present
  <2>4. QED BY <2>2, <2>3 DEF ArrayInv, NamesInv
<1>3. QED BY <1>1, <1>2

LEMMA HostsChange ==
  ASSUME ArrayInv, UNCHANGED <<groupVars, snapVars>>,
         hostOf' \in [Initiator -> AnyHost \cup {NoHost}],
         sraHosts' \subseteq Object \X AccessGroup, faults' \in 0 .. MaxFaults
  PROVE  ArrayInv'
<1> USE DEF groupVars, snapVars
<1>1. ArrayTypeOK'
  BY DEF ArrayInv, ArrayTypeOK
<1>2. NamesInv'
  BY DEF ArrayInv, NamesInv, ViewInv, LunGroupInv, Present
<1>3. QED BY <1>1, <1>2 DEF ArrayInv

LEMMA SnapshotsChange ==
  ASSUME ArrayInv, UNCHANGED <<hostVars, groupVars>>,
         snapOf' \in [SnapId -> Lun \cup {Absent}], active' \subseteq SnapId,
         \A s \in SnapId : snapOf[s] # Absent => snapOf'[s] # Absent,
         faults' \in 0 .. MaxFaults
  PROVE  ArrayInv'
<1> USE DEF hostVars, groupVars
<1>1. ArrayTypeOK'
  BY DEF ArrayInv, ArrayTypeOK
<1>2. NamesInv'
  BY DEF ArrayInv, NamesInv, ViewInv, LunGroupInv, Present
<1>3. QED BY <1>1, <1>2 DEF ArrayInv

(* A snapshot that is deleted leaves its groups. *)
LEMMA DeletedChanges ==
  ASSUME ArrayInv, NEW s \in SnapId, Deleted(s),
         UNCHANGED <<active, hostGroup, view, hostVars>>,
         faults' \in 0 .. MaxFaults
  PROVE  ArrayInv'
<1> USE DEF hostVars
<1>1. /\ DOMAIN lunGroup' = Name
      /\ \A l \in Name : lunGroup'[l] = IF lunGroup[l] = Absent THEN Absent
                                        ELSE lunGroup[l] \ {s}
  BY DEF Deleted
<1>2. snapOf' \in [SnapId -> Lun \cup {Absent}]
      /\ \A t \in SnapId \ {s} : snapOf'[t] = snapOf[t]
  BY DEF Deleted, ArrayInv, ArrayTypeOK
<1>3. ASSUME NEW l \in Name
      PROVE  lunGroup[l] # Absent =>
               lunGroup'[l] \in SUBSET Object /\ lunGroup'[l] # Absent
  BY <1>1, AbsentFacts DEF ArrayInv, ArrayTypeOK
<1>4. ArrayTypeOK'
  BY <1>1, <1>2, <1>3 DEF ArrayInv, ArrayTypeOK
<1>5. ASSUME NEW v \in Name PROVE ViewInv(v)' /\ LunGroupInv(v)'
  <2>1. ViewInv(v) /\ LunGroupInv(v)
    BY DEF ArrayInv, NamesInv
  <2>2. \A l \in view[v].luns : view[v] # Absent => l \in Name
    BY DEF ArrayInv, ArrayTypeOK, ViewRecord
  <2>3. ViewInv(v)'
    BY <1>3, <2>1, <2>2 DEF ViewInv
  <2>4. LunGroupInv(v)'
    BY <1>1, <1>2, <2>1 DEF LunGroupInv, Present
  <2>5. QED BY <2>3, <2>4
<1>6. QED BY <1>4, <1>5 DEF ArrayInv, NamesInv

(* What a view holds. *)
LEMMA ViewFacts ==
  ASSUME ArrayInv, NEW v \in Name, view[v] # Absent
  PROVE  /\ view[v] \in ViewRecord
         /\ \A h \in view[v].hosts : /\ h \in Name /\ Owner(h) = Owner(v)
                                     /\ hostGroup[h] # Absent
                                     /\ hostGroup[h] \in SUBSET AnyHost
         /\ \A l \in view[v].luns : /\ l \in Name /\ Owner(l) = Owner(v)
                                    /\ lunGroup[l] # Absent
                                    /\ lunGroup[l] \in SUBSET Object
                                    /\ \A o \in lunGroup[l] : o = Owner(l)
<1>1. view[v] \in ViewRecord /\ ViewInv(v)
  BY DEF ArrayInv, ArrayTypeOK, NamesInv
<1>2. view[v].hosts \in SUBSET Name /\ view[v].luns \in SUBSET Name
  BY <1>1 DEF ViewRecord
<1>3. \A h \in view[v].hosts : h \in Name /\ Owner(h) = Owner(v) /\ hostGroup[h] # Absent
  BY <1>1, <1>2 DEF ViewInv
<1>4. \A l \in view[v].luns : l \in Name /\ Owner(l) = Owner(v) /\ lunGroup[l] # Absent
  BY <1>1, <1>2 DEF ViewInv
<1>5. \A l \in view[v].luns : \A o \in lunGroup[l] : o = Owner(l)
  BY <1>4 DEF ArrayInv, NamesInv, LunGroupInv
<1>6. QED BY <1>1, <1>3, <1>4, <1>5 DEF ArrayInv, ArrayTypeOK

(* The rows of CMD_showmap. *)
LEMMA RowFacts ==
  ASSUME ArrayInv
  PROVE  \A r \in Rows : r \in Row /\ OwnRow(r) /\ Current(r)
<1> SUFFICES ASSUME NEW r \in Rows PROVE r \in Row /\ OwnRow(r) /\ Current(r)
  OBVIOUS
<1>1. PICK v \in Name : view[v] # Absent /\ r \in RowsOf(v)
  BY DEF Rows
<1>2. PICK l \in view[v].luns :
        r \in {[view |-> v, hosts |-> h, luns |-> l, object |-> o] :
                 h \in view[v].hosts, o \in lunGroup[l]}
  BY <1>1 DEF RowsOf
<1>3. PICK h \in view[v].hosts, o \in lunGroup[l] :
        r = [view |-> v, hosts |-> h, luns |-> l, object |-> o]
  BY <1>2
<1>4. /\ h \in Name /\ Owner(h) = Owner(v) /\ l \in Name /\ Owner(l) = Owner(v)
      /\ o \in Object /\ o = Owner(l)
  BY <1>1, <1>2, <1>3, ViewFacts
<1>5. r.view = v /\ r.hosts = h /\ r.luns = l /\ r.object = o
  BY <1>3
<1>6. r \in Row
  BY <1>1, <1>3, <1>4 DEF Row
<1>7. QED BY <1>1, <1>2, <1>3, <1>4, <1>5, <1>6 DEF OwnRow, Current

----------------------------------------------------------------------------
(* TypeInv: _add_map. *)
LEMMA InAddMap ==
  ASSUME TypeInv, pc \in AddMapStep
  PROVE  /\ cmd \in {"map", "start"} /\ AddMapStep \subseteq StepsOf[cmd]
         /\ cur \in Lun /\ cur \in todo /\ cur \in Asked
         /\ pc # "idle" /\ pc \in DeviceSteps /\ ArrayInv
         /\ local \in LocalRecord /\ local.object \in Object
<1>1. pc \in DeviceSteps
  BY StepFacts
<1>2. /\ cur \in Lun /\ cur \in todo /\ cur \in Asked /\ pc # "idle"
      /\ cmd \in {"map", "start", "stop"} /\ pc \in StepsOf[cmd]
      /\ local \in LocalRecord
  BY <1>1, AtDevice
<1>3. cmd # "stop"
  BY <1>2 DEF StepsOf, AddMapStep, StopStep
<1>4. AddMapStep \subseteq StepsOf[cmd]
  BY <1>2, <1>3 DEF StepsOf
<1>5. QED BY <1>1, <1>2, <1>3, <1>4, TypeParts, LocalFields

(* A step of _add_map that leaves the snapshots alone. *)
LEMMA AddMapGoes ==
  ASSUME TypeInv, pc \in AddMapStep, NEW step \in AddMapStep, Continue(step),
         local' \in LocalRecord, local'.object = local.object,
         local'.found = local.found, snapOf' = snapOf, ArrayInv', HeldInv'
  PROVE  TypeInv'
<1>1. /\ cmd' = cmd /\ cur' = cur /\ pc' = step
      /\ step \notin OperateSteps \cup StopStep /\ step \notin UnmapSteps
      /\ step \in DeviceSteps /\ step \in Step
      /\ step \notin {"idle", "preamble", "showmap", "list"}
  BY DEF Continue, AddMapStep, OperateSteps, StopStep, UnmapSteps, DeviceSteps, Step
<1>2. /\ cmd \in {"map", "start"} /\ step \in StepsOf[cmd] /\ pc # "idle"
      /\ pc \in DeviceSteps
  BY InAddMap
<1>3. ObjectInv'
  <2>1. ObjectInv
    BY DEF TypeInv
  <2>2. \A d \in Lun : SnapshotOf(d) => SnapshotOf(d)'
    BY DEF SnapshotOf, SnapshotsOf
  <2>3. QED BY <1>1, <2>1, <2>2 DEF ObjectInv, OperateSteps
<1>4. RowsInv' /\ UnmapInv'
  BY <1>1, <1>2 DEF RowsInv, UnmapInv
<1>5. QED BY <1>1, <1>2, <1>3, <1>4, ContinueType DEF HandInv

LEMMA AddMapEnds ==
  ASSUME TypeInv, pc \in AddMapStep, NEW step \in {"mapped", "unmapped"},
         Continue(step), UNCHANGED local, snapOf' = snapOf, ArrayInv'
  PROVE  TypeInv'
<1>1. step \in AddMapStep /\ local' = local /\ pc' = step
  BY DEF AddMapStep, Continue
<1>2. HeldInv'
  BY <1>1 DEF HeldInv, AfterHosts, AfterLunGroup
<1>3. QED BY <1>1, <1>2, InAddMap, AddMapGoes

LEMMA GiveUpType ==
  ASSUME TypeInv, pc \in AddMapStep, GiveUp, snapOf' = snapOf, ArrayInv'
  PROVE  TypeInv'
BY AddMapEnds DEF GiveUp

(* Before a host group is chosen nothing is held. *)
LEMMA EarlyGoes ==
  ASSUME TypeInv, pc \in AddMapStep,
         NEW step \in {"select", "query", "hosts", "hostGroup"}, Continue(step),
         local' \in LocalRecord, local'.object = local.object,
         local'.found = local.found, snapOf' = snapOf, ArrayInv'
  PROVE  TypeInv'
<1>1. step \in AddMapStep /\ pc' = step
  BY DEF AddMapStep, Continue
<1>2. HeldInv'
  BY <1>1 DEF HeldInv, AfterHosts, AfterLunGroup
<1>3. QED BY <1>1, <1>2, AddMapGoes

LEMMA EditsWants ==
  ASSUME local \in LocalRecord, NEW w \in [AccessGroup -> SUBSET AnyHost],
         NEW f \in [AccessGroup -> SUBSET Initiator],
         local' = [local EXCEPT !.want = w, !.free = f]
  PROVE  local' \in LocalRecord /\ local'.object = local.object
         /\ local'.found = local.found /\ local'.want = w /\ local'.free = f
BY DEF LocalRecord

LEMMA SelectType ==
  ASSUME TypeInv, Select
  PROVE  TypeInv'
<1>1. /\ pc \in AddMapStep /\ pc = "select" /\ UNCHANGED arrayVars
      /\ snapOf' = snapOf
  BY DEF Select, AddMapStep, arrayVars, snapVars
<1>2. PICK valid \in SUBSET Initiator :
        \/ Answers("err") /\ GiveUp
        \/ /\ UNCHANGED faults \/ Answers("err")
           /\ Continue("query")
           /\ local' = [local EXCEPT
                !.want = [g \in AccessGroup |-> HostsAmong(
                   IF g \in Groups THEN valid \cap InitiatorsOf[g] ELSE {})],
                !.free = [g \in AccessGroup |->
                   {i \in IF g \in Groups THEN valid \cap InitiatorsOf[g] ELSE {} :
                      hostOf[i] = NoHost}]]
  BY DEF Select
<1>3. faults' \in 0 .. MaxFaults
  BY <1>2, CountsFaults, KeepsFaults
<1>4. ArrayInv'
  BY <1>1, <1>3, InAddMap, SameArray
<1>5. CASE GiveUp
  BY <1>1, <1>4, <1>5, GiveUpType
<1>6. CASE /\ Continue("query")
           /\ local' = [local EXCEPT
                !.want = [g \in AccessGroup |-> HostsAmong(
                   IF g \in Groups THEN valid \cap InitiatorsOf[g] ELSE {})],
                !.free = [g \in AccessGroup |->
                   {i \in IF g \in Groups THEN valid \cap InitiatorsOf[g] ELSE {} :
                      hostOf[i] = NoHost}]]
  <2>1. \A I \in SUBSET Initiator : HostsAmong(I) \in SUBSET AnyHost
    BY <1>1, InAddMap DEF HostsAmong, ArrayInv, ArrayTypeOK
  <2>2. PICK w : w = [g \in AccessGroup |-> HostsAmong(
                   IF g \in Groups THEN valid \cap InitiatorsOf[g] ELSE {})]
    OBVIOUS
  <2>3. w \in [AccessGroup -> SUBSET AnyHost]
    BY <2>1, <2>2
  <2>4. PICK f : f = [g \in AccessGroup |->
                   {i \in IF g \in Groups THEN valid \cap InitiatorsOf[g] ELSE {} :
                      hostOf[i] = NoHost}]
    OBVIOUS
  <2>5. f \in [AccessGroup -> SUBSET Initiator]
    BY <2>4
  <2>6. local' = [local EXCEPT !.want = w, !.free = f]
    BY <1>6, <2>2, <2>4
  <2>7. /\ local' \in LocalRecord /\ local'.object = local.object
        /\ local'.found = local.found
    BY <1>1, InAddMap, <2>3, <2>5, <2>6, EditsWants
  <2>8. QED BY <1>1, <1>4, <1>6, <2>7, EarlyGoes
<1>7. QED BY <1>2, <1>5, <1>6

LEMMA QueryType ==
  ASSUME TypeInv, Query
  PROVE  TypeInv'
<1>1. /\ pc \in AddMapStep /\ pc = "query" /\ UNCHANGED arrayVars
      /\ snapOf' = snapOf
  BY DEF Query, AddMapStep, arrayVars, snapVars
<1>2. PICK reply \in Reply, shown \in SUBSET ViewsOf(local.object) :
        LET seen == HostsThrough(shown)
            left(f) == [g \in AccessGroup |-> IF Served(g, seen) THEN {} ELSE f[g]]
        IN /\ Answers(reply)
           /\ \/ /\ local' = [local EXCEPT !.want = left(@), !.free = left(@)]
                 /\ Continue("hosts")
              \/ reply = "err" /\ GiveUp
  BY DEF Query
<1>3. ArrayInv'
  BY <1>1, <1>2, CountsFaults, InAddMap, SameArray
<1>4. CASE GiveUp
  BY <1>1, <1>3, <1>4, GiveUpType
<1>5. CASE Continue("hosts") /\ ~GiveUp
  <2>1. PICK seen : seen = HostsThrough(shown)
    OBVIOUS
  <2>2. PICK w : w = [g \in AccessGroup |-> IF Served(g, seen) THEN {} ELSE local.want[g]]
    OBVIOUS
  <2>3. PICK f : f = [g \in AccessGroup |-> IF Served(g, seen) THEN {} ELSE local.free[g]]
    OBVIOUS
  <2>4. local' = [local EXCEPT !.want = w, !.free = f]
    BY <1>2, <1>5, <2>1, <2>2, <2>3, <1>1, InAddMap DEF LocalRecord
  <2>5. local.want \in [AccessGroup -> SUBSET AnyHost]
        /\ local.free \in [AccessGroup -> SUBSET Initiator]
    BY <1>1, InAddMap, LocalFields
  <2>6. w \in [AccessGroup -> SUBSET AnyHost] /\ f \in [AccessGroup -> SUBSET Initiator]
    BY <2>2, <2>3, <2>5
  <2>7. /\ local' \in LocalRecord /\ local'.object = local.object
        /\ local'.found = local.found
    BY <1>1, InAddMap, <2>4, <2>6, EditsWants
  <2>8. QED BY <1>1, <1>3, <1>5, <2>7, EarlyGoes
<1>6. QED BY <1>2, <1>4, <1>5

LEMMA MakeHostType ==
  ASSUME TypeInv, MakeHost
  PROVE  TypeInv'
<1>1. /\ pc \in AddMapStep /\ UNCHANGED <<hostOf, groupVars, snapVars>>
      /\ snapOf' = snapOf
  BY DEF MakeHost, AddMapStep, snapVars
<1>2. PICK g \in AccessGroup, reply \in Reply :
        /\ Answers(reply)
        /\ Change(sraHosts, sraHosts \cup {<<local.object, g>>}, reply)
        /\ IF reply = "ok" THEN Continue("hosts") /\ UNCHANGED local ELSE GiveUp
  BY DEF MakeHost
<1>3. sraHosts' \subseteq Object \X AccessGroup
  BY <1>1, <1>2, InAddMap DEF Change, ArrayInv, ArrayTypeOK
<1>4. ArrayInv'
  BY <1>1, <1>2, <1>3, InAddMap, CountsFaults, HostsChange DEF ArrayInv, ArrayTypeOK
<1>5. CASE GiveUp
  BY <1>1, <1>4, <1>5, GiveUpType
<1>6. CASE Continue("hosts") /\ UNCHANGED local
  BY <1>1, <1>4, <1>6, InAddMap, EarlyGoes
<1>7. QED BY <1>2, <1>5, <1>6

LEMMA AddInitiatorType ==
  ASSUME TypeInv, AddInitiator
  PROVE  TypeInv'
<1>1. /\ pc \in AddMapStep /\ UNCHANGED <<sraHosts, groupVars, snapVars>>
      /\ snapOf' = snapOf
  BY DEF AddInitiator, AddMapStep, snapVars
<1>2. PICK g \in AccessGroup, h \in AnyHost, reply \in Reply : \E i \in local.free[g] :
        /\ IF hostOf[i] = NoHost
             THEN Answers(reply) /\ Change(hostOf, [hostOf EXCEPT ![i] = h], reply)
             ELSE reply = "err" /\ UNCHANGED <<faults, hostOf>>
        /\ IF reply = "err" THEN GiveUp
           ELSE LET rest == local.free[g] \ {i}
                IN /\ local' = [local EXCEPT
                         !.free[g] = rest,
                         !.want[g] = IF rest = {} THEN @ \cup {h} ELSE @]
                   /\ Continue("hosts")
  BY DEF AddInitiator
<1>3. PICK i \in local.free[g] :
        /\ IF hostOf[i] = NoHost
             THEN Answers(reply) /\ Change(hostOf, [hostOf EXCEPT ![i] = h], reply)
             ELSE reply = "err" /\ UNCHANGED <<faults, hostOf>>
        /\ IF reply = "err" THEN GiveUp
           ELSE LET rest == local.free[g] \ {i}
                IN /\ local' = [local EXCEPT
                         !.free[g] = rest,
                         !.want[g] = IF rest = {} THEN @ \cup {h} ELSE @]
                   /\ Continue("hosts")
  BY <1>2
<1>4. hostOf' \in [Initiator -> AnyHost \cup {NoHost}]
  BY <1>1, <1>3, InAddMap DEF Change, ArrayInv, ArrayTypeOK
<1>5. faults' \in 0 .. MaxFaults
  BY <1>3, CountsFaults, KeepsFaults
<1>6. ArrayInv'
  BY <1>1, <1>4, <1>5, InAddMap, HostsChange DEF ArrayInv, ArrayTypeOK
<1>7. CASE GiveUp
  BY <1>1, <1>6, <1>7, GiveUpType
<1>8. CASE ~GiveUp
  <2>1. PICK w : w = [local.want EXCEPT ![g] = IF local.free[g] \ {i} = {}
                                               THEN local.want[g] \cup {h}
                                               ELSE local.want[g]]
    OBVIOUS
  <2>2. PICK f : f = [local.free EXCEPT ![g] = local.free[g] \ {i}]
    OBVIOUS
  <2>3. local' = [local EXCEPT !.want = w, !.free = f] /\ Continue("hosts")
    BY <1>1, <1>3, <1>8, <2>1, <2>2, InAddMap DEF LocalRecord
  <2>4. local.want \in [AccessGroup -> SUBSET AnyHost]
        /\ local.free \in [AccessGroup -> SUBSET Initiator]
    BY <1>1, InAddMap, LocalFields
  <2>5. w \in [AccessGroup -> SUBSET AnyHost] /\ f \in [AccessGroup -> SUBSET Initiator]
    BY <2>1, <2>2, <2>4
  <2>6. /\ local' \in LocalRecord /\ local'.object = local.object
        /\ local'.found = local.found
    BY <1>1, InAddMap, <2>3, <2>5, EditsWants
  <2>7. QED BY <1>1, <1>6, <2>3, <2>6, EarlyGoes
<1>9. QED BY <1>7, <1>8

LEMMA HostsKnownType ==
  ASSUME TypeInv, HostsKnown
  PROVE  TypeInv'
<1>1. /\ pc \in AddMapStep /\ UNCHANGED <<arrayVars, faults, local>>
      /\ snapOf' = snapOf
  BY DEF HostsKnown, AddMapStep, arrayVars, snapVars
<1>2. ArrayInv'
  BY <1>1, InAddMap, KeepsFaults, SameArray
<1>3. CASE Continue("mapped")
  BY <1>1, <1>2, <1>3, AddMapEnds
<1>4. CASE Continue("hostGroup")
  BY <1>1, <1>2, <1>4, InAddMap, EarlyGoes
<1>5. QED BY <1>3, <1>4 DEF HostsKnown

LEMMA ShowFailsType ==
  ASSUME TypeInv, ShowFails
  PROVE  TypeInv'
<1>1. /\ pc \in AddMapStep /\ UNCHANGED arrayVars /\ snapOf' = snapOf
      /\ Answers("err") /\ GiveUp
  BY DEF ShowFails, AddMapStep, arrayVars, snapVars
<1>2. ArrayInv'
  BY <1>1, InAddMap, CountsFaults, SameArray
<1>3. QED BY <1>1, <1>2, GiveUpType

(* What names a record of locals has, when only those change. *)
LEMMA NameEdits ==
  ASSUME NEW old \in LocalRecord, NEW n \in Name, NEW k \in Suffix
  PROVE  /\ [old EXCEPT !.n = k] \in LocalRecord
         /\ [old EXCEPT !.hosts = n, !.n = k] \in LocalRecord
         /\ [old EXCEPT !.luns = n, !.n = k] \in LocalRecord
         /\ [old EXCEPT !.join = n, !.n = k] \in LocalRecord
BY DEF LocalRecord

LEMMA ThisName ==
  ASSUME TypeInv, pc \in AddMapStep
  PROVE  This \in Name /\ Owner(This) = local.object /\ local.n \in Suffix
<1>1. local.object \in Object /\ local.n \in Suffix
  BY InAddMap, LocalFields
<1>2. QED BY <1>1, NameFacts DEF This

LEMMA NextSuffixType ==
  ASSUME TypeInv, pc \in {"hostGroup", "lunGroup", "newView"}, NextSuffix
  PROVE  TypeInv'
<1>1. /\ pc \in AddMapStep /\ UNCHANGED <<arrayVars, faults>> /\ snapOf' = snapOf
      /\ Continue(pc) /\ local' = [local EXCEPT !.n = local.n + 1]
      /\ local.n + 1 \in Suffix
  BY InAddMap DEF NextSuffix, AddMapStep, arrayVars, snapVars, LocalRecord
<1>2. ArrayInv' /\ local \in LocalRecord
  BY <1>1, InAddMap, KeepsFaults, SameArray
<1>3. PICK k \in Suffix : local' = [local EXCEPT !.n = k]
  BY <1>1
<1>4. /\ local' \in LocalRecord /\ local'.object = local.object
      /\ local'.found = local.found /\ local'.hosts = local.hosts
      /\ local'.luns = local.luns /\ local'.join = local.join
  BY <1>2, <1>3 DEF LocalRecord
<1>5. HeldInv
  BY DEF TypeInv
<1>6. pc' = pc /\ UNCHANGED <<hostGroup, lunGroup, view>>
  BY <1>1 DEF Continue, arrayVars, groupVars
<1>7. HeldInv'
  BY <1>4, <1>5, <1>6
  DEF HeldInv, Held, Joined, AfterHosts, AfterLunGroup
<1>8. QED BY <1>1, <1>2, <1>4, <1>7, AddMapGoes

LEMMA UseHostGroupType ==
  ASSUME TypeInv, UseHostGroup
  PROVE  TypeInv'
<1>1. /\ pc \in AddMapStep /\ UNCHANGED <<arrayVars, faults>> /\ snapOf' = snapOf
      /\ hostGroup[This] # Absent /\ Continue("lunGroup")
      /\ local' = [local EXCEPT !.hosts = This, !.n = 1]
  BY DEF UseHostGroup, AddMapStep, arrayVars, snapVars
<1>2. ArrayInv' /\ local \in LocalRecord
  BY <1>1, InAddMap, KeepsFaults, SameArray
<1>3. PICK name \in Name : name = This /\ Owner(name) = local.object
  BY <1>1, ThisName
<1>4. /\ local' \in LocalRecord /\ local'.object = local.object
      /\ local'.found = local.found /\ local'.hosts = name
  BY <1>1, <1>2, <1>3, NameFacts DEF LocalRecord
<1>5. pc' = "lunGroup" /\ UNCHANGED <<hostGroup, lunGroup, view>>
  BY <1>1 DEF Continue, arrayVars, groupVars
<1>6. HeldInv'
  BY <1>1, <1>3, <1>4, <1>5 DEF HeldInv, Held, AfterHosts, AfterLunGroup
<1>7. "lunGroup" \in AddMapStep
  BY DEF AddMapStep
<1>8. QED BY <1>1, <1>2, <1>4, <1>6, <1>7, AddMapGoes

LEMMA SkipHostGroupType ==
  ASSUME TypeInv, SkipHostGroup
  PROVE  TypeInv'
BY NextSuffixType DEF SkipHostGroup

LEMMA CreateHostGroupType ==
  ASSUME TypeInv, CreateHostGroup
  PROVE  TypeInv'
<1>1. /\ pc \in AddMapStep /\ UNCHANGED <<lunGroup, view, hostVars, snapVars>>
      /\ snapOf' = snapOf
  BY DEF CreateHostGroup, AddMapStep, snapVars
<1>2. PICK reply \in Reply :
        /\ Answers(reply)
        /\ Change(hostGroup, [hostGroup EXCEPT ![This] = {}], reply)
        /\ IF reply = "ok" THEN /\ local' = [local EXCEPT !.hosts = This, !.n = 1]
                                /\ Continue("fillHosts")
                           ELSE GiveUp
  BY DEF CreateHostGroup
<1>3. PICK name \in Name : name = This /\ Owner(name) = local.object
  BY <1>1, ThisName
<1>4. /\ local \in LocalRecord /\ faults' \in 0 .. MaxFaults /\ ArrayInv
      /\ hostGroup' = hostGroup \/ hostGroup' = [hostGroup EXCEPT ![name] = {}]
  BY <1>1, <1>2, <1>3, InAddMap, CountsFaults DEF Change
<1>5. ArrayInv'
  BY <1>1, <1>4, HostGroupChanges
<1>6. CASE GiveUp
  BY <1>1, <1>5, <1>6, GiveUpType
<1>7. CASE ~GiveUp
  <2>1. /\ local' = [local EXCEPT !.hosts = name, !.n = 1] /\ Continue("fillHosts")
        /\ reply = "ok"
    BY <1>2, <1>3, <1>7
  <2>2. /\ local' \in LocalRecord /\ local'.object = local.object
        /\ local'.found = local.found /\ local'.hosts = name
    BY <1>4, <2>1, NameFacts DEF LocalRecord
  <2>3. hostGroup' = [hostGroup EXCEPT ![name] = {}]
    BY <1>2, <1>3, <2>1 DEF Change
  <2>4. hostGroup'[name] = {}
    BY <1>4, <2>3 DEF ArrayInv, ArrayTypeOK
  <2>5. pc' = "fillHosts" /\ hostGroup'[name] # Absent
    BY <2>1, <2>4, AbsentFacts DEF Continue
  <2>6. HeldInv'
    BY <1>3, <2>2, <2>5 DEF HeldInv, Held, AfterHosts, AfterLunGroup
  <2>7. "fillHosts" \in AddMapStep
    BY DEF AddMapStep
  <2>8. QED BY <1>1, <1>5, <2>1, <2>2, <2>6, <2>7, AddMapGoes
<1>8. QED BY <1>6, <1>7

LEMMA FillHostsType ==
  ASSUME TypeInv, FillHosts
  PROVE  TypeInv'
<1>1. /\ pc \in AddMapStep /\ UNCHANGED <<lunGroup, view, hostVars, snapVars>>
      /\ snapOf' = snapOf /\ pc = "fillHosts"
  BY DEF FillHosts, AddMapStep, snapVars
<1>2. PICK name \in Name : name = local.hosts /\ hostGroup[name] # Absent
                           /\ Owner(name) = local.object
  BY <1>1 DEF TypeInv, HeldInv, Held, AfterHosts
<1>3. PICK h \in Wanted, reply \in Reply :
        /\ Answers(reply)
        /\ Change(hostGroup, [hostGroup EXCEPT ![name] = hostGroup[name] \cup {h}],
                  reply)
        /\ IF reply = "ok"
             THEN /\ Continue(IF hostGroup[name] \cup {h} = Wanted
                                THEN "lunGroup" ELSE "fillHosts")
                  /\ UNCHANGED local
             ELSE GiveUp
  BY <1>2 DEF FillHosts
<1>4. PICK after : after = hostGroup[name] \cup {h}
  OBVIOUS
<1>5. /\ local \in LocalRecord /\ faults' \in 0 .. MaxFaults /\ ArrayInv
      /\ hostGroup' = hostGroup \/ hostGroup' = [hostGroup EXCEPT ![name] = after]
  BY <1>1, <1>3, <1>4, InAddMap, CountsFaults DEF Change
<1>6. after \in SUBSET AnyHost
  <2>1. hostGroup[name] \in SUBSET AnyHost
    BY <1>2, <1>5 DEF ArrayInv, ArrayTypeOK
  <2>2. QED BY <1>3, <1>4, <1>5, <2>1, Wants
<1>7. ArrayInv'
  BY <1>1, <1>5, <1>6, HostGroupChanges
<1>8. CASE GiveUp
  BY <1>1, <1>7, <1>8, GiveUpType
<1>9. CASE ~GiveUp
  <2>1. PICK step \in {"lunGroup", "fillHosts"} : Continue(step)
    BY <1>3, <1>9
  <2>2. hostGroup' = [hostGroup EXCEPT ![name] = after] /\ local' = local
    BY <1>3, <1>4, <1>9 DEF Change
  <2>3. hostGroup'[name] = after
    BY <1>5, <2>2 DEF ArrayInv, ArrayTypeOK
  <2>4. pc' = step /\ hostGroup'[name] # Absent
    BY <1>6, <2>1, <2>3, AbsentFacts DEF Continue
  <2>5. HeldInv'
    BY <1>2, <2>1, <2>2, <2>4 DEF HeldInv, Held, AfterHosts, AfterLunGroup
  <2>6. step \in AddMapStep
    BY <2>1 DEF AddMapStep
  <2>7. QED BY <1>1, <1>5, <1>7, <2>1, <2>2, <2>5, <2>6, AddMapGoes
<1>10. QED BY <1>8, <1>9

LEMMA UseLunGroupType ==
  ASSUME TypeInv, UseLunGroup
  PROVE  TypeInv'
<1>1. /\ pc \in AddMapStep /\ UNCHANGED <<arrayVars, faults>> /\ snapOf' = snapOf
      /\ lunGroup[This] = {local.object} /\ Continue("view") /\ pc = "lunGroup"
      /\ local' = [local EXCEPT !.luns = This, !.n = 1]
  BY DEF UseLunGroup, AddMapStep, arrayVars, snapVars, FitsLuns
<1>2. ArrayInv' /\ local \in LocalRecord
  BY <1>1, InAddMap, KeepsFaults, SameArray
<1>3. PICK name \in Name : name = This /\ Owner(name) = local.object
  BY <1>1, ThisName
<1>4. /\ local' \in LocalRecord /\ local'.object = local.object
      /\ local'.found = local.found /\ local'.luns = name
      /\ local'.hosts = local.hosts
  BY <1>1, <1>2, <1>3, NameFacts DEF LocalRecord
<1>5. pc' = "view" /\ UNCHANGED <<hostGroup, lunGroup, view>>
  BY <1>1 DEF Continue, arrayVars, groupVars
<1>6. Held(local.hosts) /\ hostGroup[local.hosts] # Absent
  BY <1>1 DEF TypeInv, HeldInv, AfterHosts
<1>7. HeldInv'
  BY <1>1, <1>3, <1>4, <1>5, <1>6 DEF HeldInv, Held, AfterHosts, AfterLunGroup
<1>8. "view" \in AddMapStep
  BY DEF AddMapStep
<1>9. QED BY <1>1, <1>2, <1>4, <1>7, <1>8, AddMapGoes

LEMMA SkipLunGroupType ==
  ASSUME TypeInv, SkipLunGroup
  PROVE  TypeInv'
BY NextSuffixType DEF SkipLunGroup

(* No view knows a group that does not exist yet. *)
LEMMA NewIsUnknown ==
  ASSUME ArrayInv, NEW n \in Name
  PROVE  /\ hostGroup[n] = Absent => ~Attached(n)
         /\ lunGroup[n] = Absent => ~Joined(n)
BY ViewFacts DEF Attached, Joined

LEMMA CreateLunGroupType ==
  ASSUME TypeInv, CreateLunGroup
  PROVE  TypeInv'
<1>1. /\ pc \in AddMapStep /\ UNCHANGED <<hostGroup, view, hostVars, snapVars>>
      /\ snapOf' = snapOf /\ pc = "lunGroup"
  BY DEF CreateLunGroup, AddMapStep, snapVars
<1>2. PICK reply \in Reply :
        /\ Answers(reply)
        /\ Change(lunGroup, [lunGroup EXCEPT ![This] = {}], reply)
        /\ IF reply = "ok" THEN /\ local' = [local EXCEPT !.luns = This, !.n = 1]
                                /\ Continue("fillLuns")
                           ELSE GiveUp
  BY DEF CreateLunGroup
<1>3. PICK name \in Name : name = This /\ Owner(name) = local.object
                           /\ lunGroup[name] = Absent
  BY <1>1, ThisName DEF CreateLunGroup
<1>4. /\ local \in LocalRecord /\ faults' \in 0 .. MaxFaults /\ ArrayInv
      /\ lunGroup' = lunGroup \/ lunGroup' = [lunGroup EXCEPT ![name] = {}]
  BY <1>1, <1>2, <1>3, InAddMap, CountsFaults DEF Change
<1>5. ArrayInv'
  BY <1>1, <1>4, LunGroupChanges
<1>6. CASE GiveUp
  BY <1>1, <1>5, <1>6, GiveUpType
<1>7. CASE ~GiveUp
  <2>1. /\ local' = [local EXCEPT !.luns = name, !.n = 1] /\ Continue("fillLuns")
        /\ reply = "ok"
    BY <1>2, <1>3, <1>7
  <2>2. /\ local' \in LocalRecord /\ local'.object = local.object
        /\ local'.found = local.found /\ local'.luns = name
        /\ local'.hosts = local.hosts
    BY <1>4, <2>1, NameFacts DEF LocalRecord
  <2>3. lunGroup' = [lunGroup EXCEPT ![name] = {}]
    BY <1>2, <1>3, <2>1 DEF Change
  <2>4. lunGroup'[name] = {}
    BY <1>4, <2>3 DEF ArrayInv, ArrayTypeOK
  <2>5. pc' = "fillLuns" /\ ~Joined(name)'
    BY <1>1, <1>3, <1>4, <2>1, NewIsUnknown DEF Continue, Joined
  <2>6. Held(local.hosts) /\ hostGroup[local.hosts] # Absent
    BY <1>1 DEF TypeInv, HeldInv, AfterHosts
  <2>7. HeldInv'
    BY <1>1, <1>3, <2>2, <2>4, <2>5, <2>6
    DEF HeldInv, Held, Joined, AfterHosts, AfterLunGroup
  <2>8. "fillLuns" \in AddMapStep
    BY DEF AddMapStep
  <2>9. QED BY <1>1, <1>5, <2>1, <2>2, <2>7, <2>8, AddMapGoes
<1>8. QED BY <1>6, <1>7

(* The object that _add_map is about exists. *)
LEMMA ObjectPresent ==
  ASSUME TypeInv, pc \in AddMapStep, local.object # NoObject
  PROVE  /\ Present(local.object)
         /\ cmd = "map" => local.object = cur
         /\ cmd = "start" => local.object \in SnapshotsOf(cur)
<1>1. /\ cmd \in {"map", "start"} /\ cur \in Lun
  BY InAddMap
<1>2. ObjectInv /\ ArrayInv
  BY TypeParts DEF TypeInv
<1>3. CASE cmd = "map"
  BY <1>1, <1>2, <1>3 DEF ObjectInv, Present
<1>4. CASE cmd = "start"
  <2>1. local.object \in SnapshotsOf(cur)
    BY <1>1, <1>2, <1>4 DEF ObjectInv, SnapshotOf
  <2>2. QED
    BY <1>1, <1>4, <2>1, AbsentFacts DEF SnapshotsOf, Present
<1>5. QED BY <1>1, <1>3, <1>4

LEMMA FillLunsType ==
  ASSUME TypeInv, FillLuns
  PROVE  TypeInv'
<1>1. /\ pc \in AddMapStep /\ UNCHANGED <<hostGroup, view, hostVars, snapVars>>
      /\ snapOf' = snapOf /\ pc = "fillLuns"
  BY DEF FillLuns, AddMapStep, snapVars
<1>2. PICK name \in Name : name = local.luns /\ Owner(name) = local.object
  BY <1>1 DEF TypeInv, HeldInv, Held
<1>3. PICK reply \in Reply :
        /\ IF local.object # NoObject
             THEN /\ Answers(reply)
                  /\ Change(lunGroup, [lunGroup EXCEPT ![name] = {local.object}],
                            reply)
             ELSE reply = "err" /\ UNCHANGED <<faults, lunGroup>>
        /\ IF reply = "ok" THEN Continue("view") /\ UNCHANGED local ELSE GiveUp
  BY <1>2 DEF FillLuns
<1>4. faults' \in 0 .. MaxFaults
  BY <1>3, CountsFaults, KeepsFaults
<1>5. /\ local \in LocalRecord /\ ArrayInv /\ local.object \in Object
      /\ lunGroup' # lunGroup =>
           /\ lunGroup' = [lunGroup EXCEPT ![name] = {local.object}]
           /\ Present(local.object)
  BY <1>1, <1>3, InAddMap, ObjectPresent DEF Change
<1>6. ArrayInv'
  <2>1. CASE lunGroup' = lunGroup
    BY <1>1, <1>4, <1>5, <2>1, SameArray DEF arrayVars, groupVars
  <2>2. CASE lunGroup' # lunGroup
    <3>1. PICK x \in SUBSET Object : x = {local.object}
      BY <1>5
    <3>2. \A o \in x : o = Owner(name) /\ Present(o)
      BY <1>2, <1>5, <2>2, <3>1
    <3>3. lunGroup' = [lunGroup EXCEPT ![name] = x]
      BY <1>5, <2>2, <3>1
    <3>4. QED BY <1>1, <1>4, <1>5, <3>2, <3>3, LunGroupChanges
  <2>3. QED BY <2>1, <2>2
<1>7. CASE GiveUp
  BY <1>1, <1>6, <1>7, GiveUpType
<1>8. CASE ~GiveUp
  <2>1. /\ Continue("view") /\ local' = local
        /\ lunGroup' = [lunGroup EXCEPT ![name] = {local.object}]
    BY <1>3, <1>8 DEF Change
  <2>2. lunGroup'[name] = {local.object} /\ pc' = "view"
    BY <1>5, <2>1 DEF ArrayInv, ArrayTypeOK, Continue
  <2>3. Held(local.hosts) /\ hostGroup[local.hosts] # Absent
    BY <1>1 DEF TypeInv, HeldInv, AfterHosts
  <2>4. HeldInv'
    BY <1>1, <1>2, <2>1, <2>2, <2>3 DEF HeldInv, Held, AfterHosts, AfterLunGroup
  <2>5. "view" \in AddMapStep
    BY DEF AddMapStep
  <2>6. QED BY <1>1, <1>5, <1>6, <2>1, <2>4, <2>5, AddMapGoes
<1>9. QED BY <1>7, <1>8

LEMMA UseViewType ==
  ASSUME TypeInv, UseView
  PROVE  TypeInv'
<1>1. /\ pc \in AddMapStep /\ UNCHANGED <<arrayVars, faults, local>>
      /\ snapOf' = snapOf /\ Continue("mapped")
  BY DEF UseView, AddMapStep, arrayVars, snapVars
<1>2. ArrayInv'
  BY <1>1, InAddMap, KeepsFaults, SameArray
<1>3. QED BY <1>1, <1>2, AddMapEnds

LEMMA NoViewType ==
  ASSUME TypeInv, NoView
  PROVE  TypeInv'
<1>1. /\ pc \in AddMapStep /\ UNCHANGED <<arrayVars, local>> /\ pc = "view"
      /\ snapOf' = snapOf /\ Continue("newView") /\ pc' = "newView"
      /\ UNCHANGED <<hostGroup, lunGroup, view>>
  BY DEF NoView, AddMapStep, arrayVars, snapVars, groupVars, Continue
<1>2. faults' \in 0 .. MaxFaults
  BY CountsFaults, KeepsFaults DEF NoView
<1>3. ArrayInv' /\ local \in LocalRecord
  BY <1>1, <1>2, InAddMap, SameArray
<1>4. HeldInv
  BY DEF TypeInv
<1>5. HeldInv'
  BY <1>1, <1>4 DEF HeldInv, Held, AfterHosts, AfterLunGroup
<1>6. "newView" \in AddMapStep
  BY DEF AddMapStep
<1>7. QED BY <1>1, <1>3, <1>5, <1>6, AddMapGoes

LEMMA SkipViewType ==
  ASSUME TypeInv, SkipView
  PROVE  TypeInv'
BY NextSuffixType DEF SkipView

LEMMA CreateViewType ==
  ASSUME TypeInv, CreateView
  PROVE  TypeInv'
<1>1. /\ pc \in AddMapStep /\ UNCHANGED <<hostGroup, lunGroup, hostVars, snapVars>>
      /\ snapOf' = snapOf /\ pc = "newView"
  BY DEF CreateView, AddMapStep, snapVars
<1>2. PICK reply \in Reply :
        /\ Answers(reply)
        /\ Change(view, [view EXCEPT ![This] = [hosts |-> {}, luns |-> {}]], reply)
        /\ IF reply = "ok" THEN /\ local' = [local EXCEPT !.join = This, !.n = 1]
                                /\ Continue("joinHosts")
                           ELSE GiveUp
  BY DEF CreateView
<1>3. PICK name \in Name : name = This /\ Owner(name) = local.object
  BY <1>1, ThisName
<1>4. PICK x : x = [hosts |-> {}, luns |-> {}]
  OBVIOUS
<1>5. x \in ViewRecord /\ x.hosts = {} /\ x.luns = {}
  BY <1>4 DEF ViewRecord
<1>6. /\ local \in LocalRecord /\ faults' \in 0 .. MaxFaults /\ ArrayInv
      /\ view' = view \/ view' = [view EXCEPT ![name] = x]
  BY <1>1, <1>2, <1>3, <1>4, InAddMap, CountsFaults DEF Change
<1>7. ArrayInv'
  BY <1>1, <1>5, <1>6, ViewChanges
<1>8. CASE GiveUp
  BY <1>1, <1>7, <1>8, GiveUpType
<1>9. CASE ~GiveUp
  <2>1. /\ local' = [local EXCEPT !.join = name, !.n = 1] /\ Continue("joinHosts")
        /\ reply = "ok"
    BY <1>2, <1>3, <1>9
  <2>2. /\ local' \in LocalRecord /\ local'.object = local.object
        /\ local'.found = local.found /\ local'.join = name
        /\ local'.hosts = local.hosts /\ local'.luns = local.luns
    BY <1>6, <2>1, NameFacts DEF LocalRecord
  <2>3. view' = [view EXCEPT ![name] = x]
    BY <1>2, <1>3, <1>4, <2>1 DEF Change
  <2>4. view'[name] = x /\ pc' = "joinHosts"
    BY <1>6, <2>1, <2>3 DEF ArrayInv, ArrayTypeOK, Continue
  <2>5. /\ Held(local.hosts) /\ hostGroup[local.hosts] # Absent
        /\ Held(local.luns) /\ lunGroup[local.luns] = {local.object}
    BY <1>1 DEF TypeInv, HeldInv, AfterHosts, AfterLunGroup
  <2>6. HeldInv'
    BY <1>1, <1>3, <1>4, <2>2, <2>4, <2>5
    DEF HeldInv, Held, AfterHosts, AfterLunGroup
  <2>7. "joinHosts" \in AddMapStep
    BY DEF AddMapStep
  <2>8. QED BY <1>1, <1>7, <2>1, <2>2, <2>6, <2>7, AddMapGoes
<1>10. QED BY <1>8, <1>9

(* What _add_map holds when it joins the two groups. *)
LEMMA Joining ==
  ASSUME TypeInv, pc \in {"joinHosts", "joinLuns"}
  PROVE  /\ pc \in AddMapStep
         /\ Held(local.hosts) /\ hostGroup[local.hosts] # Absent
         /\ Held(local.luns) /\ lunGroup[local.luns] = {local.object}
         /\ Held(local.join)
         /\ view[local.join] = [hosts |-> IF pc = "joinHosts" THEN {} ELSE {local.hosts},
                                luns |-> {}]
BY DEF TypeInv, HeldInv, AfterHosts, AfterLunGroup, AddMapStep

LEMMA JoinHostsType ==
  ASSUME TypeInv, JoinHosts
  PROVE  TypeInv'
<1>1. /\ pc \in AddMapStep /\ UNCHANGED <<hostGroup, lunGroup, hostVars, snapVars>>
      /\ snapOf' = snapOf /\ pc = "joinHosts"
  BY DEF JoinHosts, AddMapStep, snapVars
<1>2. PICK name : name = local.join
  OBVIOUS
<1>3. PICK x : x = [hosts |-> {local.hosts}, luns |-> {}]
  OBVIOUS
<1>4. /\ name \in Name /\ Owner(name) = local.object
      /\ Held(local.hosts) /\ hostGroup[local.hosts] # Absent
      /\ Held(local.luns) /\ lunGroup[local.luns] = {local.object}
      /\ view[name] = [hosts |-> {}, luns |-> {}]
  BY <1>1, <1>2, Joining DEF Held
<1>5. PICK reply \in Reply :
        /\ Answers(reply)
        /\ Change(view, [view EXCEPT ![name] = x], reply)
        /\ IF reply = "ok" THEN Continue("joinLuns") /\ UNCHANGED local ELSE GiveUp
  <2>1. PICK reply \in Reply :
          /\ Answers(reply)
          /\ Change(view, [view EXCEPT ![name].hosts = {local.hosts}], reply)
          /\ IF reply = "ok" THEN Continue("joinLuns") /\ UNCHANGED local ELSE GiveUp
    BY <1>2 DEF JoinHosts
  <2>2. [view[name] EXCEPT !.hosts = {local.hosts}] = x
    BY <1>3, <1>4
  <2>3. [view EXCEPT ![name].hosts = {local.hosts}] = [view EXCEPT ![name] = x]
    BY <2>2
  <2>4. QED BY <2>1, <2>3
<1>6. x \in ViewRecord /\ x.hosts = {local.hosts} /\ x.luns = {}
  BY <1>3, <1>4 DEF ViewRecord, Held
<1>7. /\ local \in LocalRecord /\ faults' \in 0 .. MaxFaults /\ ArrayInv
      /\ view' = view \/ view' = [view EXCEPT ![name] = x]
  BY <1>1, <1>5, InAddMap, CountsFaults DEF Change
<1>8. ArrayInv'
  <2>1. \A h \in x.hosts : hostGroup[h] # Absent /\ Owner(h) = Owner(name)
    BY <1>4, <1>6 DEF Held
  <2>2. QED BY <1>1, <1>4, <1>6, <1>7, <2>1, ViewChanges
<1>9. CASE GiveUp
  BY <1>1, <1>8, <1>9, GiveUpType
<1>10. CASE ~GiveUp
  <2>1. /\ local' = local /\ Continue("joinLuns")
        /\ view' = [view EXCEPT ![name] = x]
    BY <1>5, <1>10 DEF Change
  <2>2. view'[name] = x /\ pc' = "joinLuns"
    BY <1>4, <1>7, <2>1 DEF ArrayInv, ArrayTypeOK, Continue
  <2>3. HeldInv'
    BY <1>1, <1>2, <1>3, <1>4, <2>1, <2>2
    DEF HeldInv, Held, AfterHosts, AfterLunGroup
  <2>4. "joinLuns" \in AddMapStep
    BY DEF AddMapStep
  <2>5. QED BY <1>1, <1>7, <1>8, <2>1, <2>3, <2>4, AddMapGoes
<1>11. QED BY <1>9, <1>10

(* What the view becomes. *)
LEMMA JoinLunsView ==
  ASSUME TypeInv, JoinLuns
  PROVE  \E reply \in Reply, x \in ViewRecord :
           /\ x.hosts = {local.hosts} /\ x.luns = {local.luns}
           /\ view' = view \/ view' = [view EXCEPT ![local.join] = x]
           /\ reply = "ok" => view' = [view EXCEPT ![local.join] = x]
           /\ IF reply = "ok" THEN Continue("mapped") /\ UNCHANGED local ELSE GiveUp
           /\ UNCHANGED faults \/ Answers(reply)
<1>1. PICK name : name = local.join
  OBVIOUS
<1>2. PICK x : x = [hosts |-> {local.hosts}, luns |-> {local.luns}]
  OBVIOUS
<1>3. /\ Held(local.hosts) /\ Held(local.luns)
      /\ view[name] = [hosts |-> {local.hosts}, luns |-> {}]
  BY <1>1, Joining DEF JoinLuns
<1>4. x \in ViewRecord /\ x.hosts = {local.hosts} /\ x.luns = {local.luns}
  BY <1>2, <1>3 DEF ViewRecord, Held
<1>5. [view[name] EXCEPT !.luns = {local.luns}] = x
  BY <1>2, <1>3
<1>6. [view EXCEPT ![name].luns = {local.luns}] = [view EXCEPT ![name] = x]
  BY <1>5
<1>7. PICK reply \in Reply :
        /\ UNCHANGED faults \/ Answers(reply)
        /\ Change(view, [view EXCEPT ![name] = x], reply)
        /\ IF reply = "ok" THEN Continue("mapped") /\ UNCHANGED local ELSE GiveUp
  <2>1. PICK reply \in Reply :
          /\ UNCHANGED faults \/ Answers(reply)
          /\ Change(view, [view EXCEPT ![name].luns = {local.luns}], reply)
          /\ IF reply = "ok" THEN Continue("mapped") /\ UNCHANGED local ELSE GiveUp
    BY <1>1 DEF JoinLuns
  <2>2. QED BY <1>6, <2>1
<1>8. /\ view' = view \/ view' = [view EXCEPT ![name] = x]
      /\ reply = "ok" => view' = [view EXCEPT ![name] = x]
  BY <1>7 DEF Change
<1>9. QED BY <1>1, <1>4, <1>7, <1>8

LEMMA JoinLunsType ==
  ASSUME TypeInv, JoinLuns
  PROVE  TypeInv'
<1>1. /\ pc \in AddMapStep /\ UNCHANGED <<hostGroup, lunGroup, hostVars, snapVars>>
      /\ snapOf' = snapOf /\ pc = "joinLuns"
  BY DEF JoinLuns, AddMapStep, snapVars
<1>2. PICK reply \in Reply, x \in ViewRecord :
        /\ x.hosts = {local.hosts} /\ x.luns = {local.luns}
        /\ view' = view \/ view' = [view EXCEPT ![local.join] = x]
        /\ IF reply = "ok" THEN Continue("mapped") /\ UNCHANGED local ELSE GiveUp
        /\ UNCHANGED faults \/ Answers(reply)
  BY JoinLunsView
<1>3. /\ Held(local.hosts) /\ hostGroup[local.hosts] # Absent
      /\ Held(local.luns) /\ lunGroup[local.luns] # Absent
      /\ Held(local.join)
  BY <1>1, Joining, InAddMap, AbsentFacts
<1>4. faults' \in 0 .. MaxFaults /\ ArrayInv
  BY <1>1, <1>2, CountsFaults, KeepsFaults, InAddMap
<1>5. ArrayInv'
  <2>1. /\ \A h \in x.hosts : hostGroup[h] # Absent /\ Owner(h) = Owner(local.join)
        /\ \A l \in x.luns : lunGroup[l] # Absent /\ Owner(l) = Owner(local.join)
    BY <1>2, <1>3 DEF Held
  <2>2. local.join \in Name
    BY <1>3 DEF Held
  <2>3. QED BY <1>1, <1>2, <1>4, <2>1, <2>2, ViewChanges
<1>6. CASE GiveUp
  BY <1>1, <1>5, <1>6, GiveUpType
<1>7. CASE ~GiveUp
  BY <1>1, <1>2, <1>5, <1>7, AddMapEnds
<1>8. QED BY <1>6, <1>7

LEMMA AddMapType ==
  ASSUME TypeInv, AddMapNext
  PROVE  TypeInv'
BY SelectType, QueryType, MakeHostType, AddInitiatorType, HostsKnownType,
   ShowFailsType, UseHostGroupType, SkipHostGroupType, CreateHostGroupType,
   FillHostsType, UseLunGroupType, SkipLunGroupType, CreateLunGroupType,
   FillLunsType, UseViewType, NoViewType, SkipViewType, CreateViewType,
   JoinHostsType, JoinLunsType
DEF AddMapNext

----------------------------------------------------------------------------
(* TypeInv: the mapping of LUNs. *)
LEMMA MapPickType ==
  ASSUME TypeInv, MapPick
  PROVE  TypeInv'
<1>1. /\ pc = "pick" /\ cmd = "map" /\ pc' = "select"
      /\ UNCHANGED <<cmd, todo, report, arrayVars, faults, planVars>>
  BY DEF MapPick, At
<1>2. PICK d \in todo : cur' = d /\ local' = [FreshLocal EXCEPT !.object = d]
  BY DEF MapPick
<1>3. d \in Lun /\ d \in Object
  BY ObjectFacts DEF TypeInv, TypeOK, ProcessTypeOK
<1>4. local' \in LocalRecord /\ local'.object = d
  BY <1>2, <1>3, FreshType DEF LocalRecord
<1>5. ArrayInv'
  BY <1>1, TypeParts, KeepsFaults, SameArray
<1>6. pc' \notin AfterHosts \cup OperateSteps \cup StopStep \cup AfterLunGroup
      /\ pc' \notin {"fillLuns", "joinHosts", "joinLuns"}
  BY <1>1 DEF AfterHosts, OperateSteps, StopStep, AfterLunGroup
<1>7. HandInv'
  BY <1>1, <1>2, <1>4, <1>6
  DEF HandInv, HeldInv, ObjectInv, RowsInv, UnmapInv, UnmapSteps, OperateSteps, StopStep
<1>8. "select" \in DeviceSteps /\ "select" \in StepsOf["map"]
  BY DEF DeviceSteps, AddMapStep, StepsOf
<1>9. QED BY <1>1, <1>2, <1>4, <1>5, <1>7, <1>8, PickType

LEMMA MapDoneType ==
  ASSUME TypeInv, MapDone
  PROVE  TypeInv'
<1>1. /\ cmd = "map" /\ pc \in {"mapped", "unmapped"}
      /\ UNCHANGED <<local, arrayVars, faults>>
  BY DEF MapDone
<1>2. /\ pc \in AddMapStep /\ pc \in DeviceSteps /\ cur \in todo /\ cur \in Lun
      /\ cur \in Asked /\ pc # "idle" /\ local \in LocalRecord
  BY <1>1, InAddMap DEF AddMapStep
<1>3. ArrayInv'
  BY <1>1, TypeParts, KeepsFaults, SameArray
<1>4. ASSUME pc' \in {"pick", "respond"}, cmd' = "map" PROVE HandInv'
  BY <1>4 DEF HandInv, HeldInv, ObjectInv, RowsInv, UnmapInv, AfterHosts,
              AfterLunGroup, AddMapStep, OperateSteps, UnmapSteps, StopStep
<1>5. {"pick", "respond"} \subseteq Step \ DeviceSteps
      /\ {"pick", "respond"} \subseteq StepsOf["map"]
  BY DEF Step, DeviceSteps, AddMapStep, StepsOf, OperateSteps, RowSteps, UnmapSteps
<1>6. CASE pc = "mapped"
  <2>1. Record(cur, "ok") /\ Proceed(cur, "pick", "respond")
    BY <1>1, <1>6 DEF MapDone
  <2>2. HandInv'
    BY <1>1, <1>4, <2>1 DEF Proceed
  <2>3. \E r \in Result \ {"absent"} : Record(cur, r)
    BY <2>1 DEF Result
  <2>4. QED BY <1>1, <1>2, <1>3, <1>5, <2>1, <2>2, <2>3, ProceedType
<1>7. CASE pc = "unmapped"
  <2>1. /\ report' = [report EXCEPT ![cur] = "err"] /\ pc' = "respond"
        /\ cur' = NoObject /\ todo' = {} /\ UNCHANGED <<cmd, phase, told>>
    BY <1>1, <1>7 DEF MapDone, Record, planVars
  <2>2. HandInv'
    BY <1>1, <1>4, <2>1
  <2>3. Asked' = Asked
    BY <1>2, <2>1 DEF Asked, TypeInv, TypeOK, ProcessTypeOK
  <2>4. ProcessTypeOK'
    BY <1>1, <2>1 DEF TypeInv, TypeOK, ProcessTypeOK, Step, Result
  <2>5. ProcessInv'
    BY <1>1, <1>2, <1>5, <2>1, <2>3 DEF TypeInv, ProcessInv
  <2>6. QED BY <1>3, <2>2, <2>4, <2>5, TypeParts DEF TypeInv, TypeOK, ArrayInv, HandInv
<1>8. QED BY <1>1, <1>6, <1>7

----------------------------------------------------------------------------
(* TypeInv: testFailoverStart. *)
LEMMA StartHolds ==
  ASSUME cmd' = "start", pc' \in StartStep \cup {"respond"},
         \A d \in Lun : SnapshotOf(d)',
         pc' \in {"activate", "time"} => local'.found[cur'] # NoObject
  PROVE  HandInv'
BY DEF HandInv, HeldInv, ObjectInv, RowsInv, UnmapInv, AfterHosts, AfterLunGroup,
       AddMapStep, StartStep, UnmapSteps, StopStep

LEMMA SnapshotsStay ==
  ASSUME TypeInv, cmd = "start", local'.found = local.found,
         \A s \in SnapId : snapOf[s] # Absent => snapOf'[s] = snapOf[s]
  PROVE  \A d \in Lun : SnapshotOf(d)'
<1> SUFFICES ASSUME NEW d \in Lun PROVE SnapshotOf(d)'
  OBVIOUS
<1>1. SnapshotOf(d)
  BY DEF TypeInv, ObjectInv
<1>2. d # Absent
  BY AbsentFacts
<1>3. QED BY <1>1, <1>2 DEF SnapshotOf, SnapshotsOf

(* A step between the devices. *)
LEMMA BetweenDevices ==
  ASSUME TypeInv, NEW here, NEW next, NEW d \in todo, cmd = "start", pc # "idle",
         {here, next} \subseteq {"check", "operate", "map", "list", "identify", "respond"},
         here # "list", Proceed(d, here, next),
         report' = report \/ \E r \in Result \ {"absent"} : Record(d, r),
         ArrayInv', local' \in LocalRecord, local'.found = local.found,
         \A s \in SnapId : snapOf[s] # Absent => snapOf'[s] = snapOf[s]
  PROVE  TypeInv'
<1>1. /\ {here, next} \subseteq Step \ DeviceSteps /\ {here, next} \subseteq StepsOf[cmd]
      /\ {here, next} \cap {"idle", "preamble", "showmap"} = {}
  BY DEF Step, StartStep, DeviceSteps, AddMapStep, OperateSteps, RowSteps, UnmapSteps,
         StepsOf
<1>2. /\ cmd' = "start" /\ pc' \in StartStep \cup {"respond"}
      /\ pc' \notin {"activate", "time"}
  BY DEF Proceed, StartStep
<1>3. HandInv'
  BY <1>2, SnapshotsStay, StartHolds
<1>4. QED BY <1>1, <1>3, ProceedType

LEMMA SkipDeviceType ==
  ASSUME TypeInv, SkipDevice
  PROVE  TypeInv'
<1>1. PICK d \in todo, here \in {"operate", "map", "identify"},
           next \in {"map", "list", "respond"} :
        /\ pc = here /\ cmd = "start" /\ Proceed(d, here, next)
        /\ UNCHANGED <<arrayVars, faults, local, report>>
  BY DEF SkipDevice, Skipped, At
<1>2. ArrayInv' /\ local' \in LocalRecord
  BY <1>1, TypeParts, KeepsFaults, SameArray DEF ProcessTypeOK
<1>3. UNCHANGED snapOf
  BY <1>1 DEF arrayVars, snapVars
<1>4. QED BY <1>1, <1>2, <1>3, BetweenDevices

LEMMA CheckStatusType ==
  ASSUME TypeInv, CheckStatus
  PROVE  TypeInv'
<1>1. /\ pc = "check" /\ cmd = "start"
      /\ UNCHANGED <<arrayVars, faults, local, snapOf>>
  BY DEF CheckStatus, At, arrayVars, snapVars
<1>2. PICK d \in todo, result \in {"none", "err"} :
        Record(d, result) /\ Proceed(d, "check", "operate")
  BY DEF CheckStatus
<1>3. ArrayInv' /\ local' \in LocalRecord /\ result \in Result \ {"absent"}
  BY <1>1, TypeParts, KeepsFaults, SameArray DEF ProcessTypeOK, Result
<1>4. QED BY <1>1, <1>2, <1>3, BetweenDevices

LEMMA OperateType ==
  ASSUME TypeInv, Operate
  PROVE  TypeInv'
<1>1. /\ pc = "operate" /\ cmd = "start"
      /\ UNCHANGED <<arrayVars, local, report, snapOf>>
  BY DEF Operate, At, arrayVars, snapVars
<1>2. PICK d \in todo :
        \/ /\ cur' = d /\ pc' = "create"
           /\ UNCHANGED <<cmd, todo, planVars, faults>>
        \/ Answers("err") /\ Proceed(d, "operate", "map")
  BY DEF Operate
<1>3. faults' \in 0 .. MaxFaults
  BY <1>2, CountsFaults, KeepsFaults
<1>4. ArrayInv' /\ local' \in LocalRecord
  BY <1>1, <1>3, TypeParts, SameArray DEF ProcessTypeOK
<1>5. CASE Proceed(d, "operate", "map")
  BY <1>1, <1>4, <1>5, BetweenDevices
<1>6. CASE cur' = d /\ pc' = "create" /\ UNCHANGED <<cmd, todo, planVars, faults>>
  <2>1. HandInv'
    BY <1>1, <1>6, SnapshotsStay, StartHolds DEF StartStep
  <2>2. "create" \in DeviceSteps /\ "create" \in StepsOf["start"]
    BY DEF DeviceSteps, OperateSteps, StepsOf, StartStep
  <2>3. QED BY <1>1, <1>4, <1>6, <2>1, <2>2, PickType
<1>7. QED BY <1>2, <1>5, <1>6

(* What the operations of a device may rely on. *)
LEMMA InOperate ==
  ASSUME TypeInv, pc \in OperateSteps, cmd = "start"
  PROVE  /\ cur \in Lun /\ cur \in todo /\ cur \in Asked /\ pc # "idle"
         /\ pc \in DeviceSteps /\ OperateSteps \subseteq StepsOf[cmd]
         /\ OperateSteps \subseteq Step \cap DeviceSteps
         /\ OperateSteps \subseteq StartStep
         /\ local \in LocalRecord /\ ArrayInv
<1>1. pc \in DeviceSteps
  BY DEF DeviceSteps
<1>2. OperateSteps \subseteq Step \cap DeviceSteps /\ OperateSteps \subseteq StepsOf["start"]
      /\ OperateSteps \subseteq StartStep
  BY DEF OperateSteps, Step, DeviceSteps, StepsOf, StartStep
<1>3. QED BY <1>1, <1>2, AtDevice, TypeParts

LEMMA EndOperateType ==
  ASSUME TypeInv, pc \in OperateSteps, cmd = "start",
         NEW result \in {"none", "err"}, EndOperate(result),
         ArrayInv', UNCHANGED local,
         \A s \in SnapId : snapOf[s] # Absent => snapOf'[s] = snapOf[s]
  PROVE  TypeInv'
<1>1. /\ cur \in todo /\ pc # "idle" /\ local' \in LocalRecord
      /\ result \in Result \ {"absent"}
  BY InOperate DEF Result
<1>2. Record(cur, result) /\ Proceed(cur, "operate", "map")
  BY DEF EndOperate
<1>3. QED BY <1>1, <1>2, BetweenDevices

(* An operation that goes on. *)
LEMMA OperateGoes ==
  ASSUME TypeInv, pc \in OperateSteps, cmd = "start",
         NEW step \in OperateSteps, Continue(step),
         local' \in LocalRecord, ArrayInv', \A d \in Lun : SnapshotOf(d)',
         step \in {"activate", "time"} => local'.found[cur] # NoObject
  PROVE  TypeInv'
<1>1. /\ step \in Step \ {"idle", "preamble", "showmap", "list"}
      /\ step \in DeviceSteps /\ pc \in DeviceSteps /\ pc # "idle"
      /\ step \in StepsOf[cmd] /\ step \in StartStep
  BY InOperate DEF OperateSteps
<1>2. cmd' = "start" /\ pc' = step /\ cur' = cur
  BY DEF Continue
<1>3. HandInv'
  BY <1>1, <1>2, StartHolds
<1>4. QED BY <1>1, <1>3, ContinueType

LEMMA CreateSnapshotType ==
  ASSUME TypeInv, CreateSnapshot
  PROVE  TypeInv'
<1>1. /\ pc = "create" /\ cmd = "start" /\ pc \in OperateSteps
      /\ UNCHANGED <<active, hostVars, groupVars, local>>
  BY DEF CreateSnapshot, At, OperateSteps
<1>2. /\ cur \in Lun /\ local \in LocalRecord /\ ArrayInv
  BY <1>1, InOperate
<1>3. CASE EndOperate("err") /\ UNCHANGED <<snapOf, faults>>
  <2>1. ArrayInv'
    BY <1>1, <1>2, <1>3, KeepsFaults, SameArray DEF arrayVars, snapVars
  <2>2. QED BY <1>1, <1>3, <2>1, EndOperateType
<1>4. CASE \E reply \in Reply, s \in SnapId :
             /\ snapOf[s] = Absent
             /\ Answers(reply)
             /\ Change(snapOf, [snapOf EXCEPT ![s] = cur], reply)
             /\ IF reply = "ok" THEN Continue("find") ELSE EndOperate("err")
  <2>1. PICK reply \in Reply, s \in SnapId :
             /\ snapOf[s] = Absent
             /\ Answers(reply)
             /\ Change(snapOf, [snapOf EXCEPT ![s] = cur], reply)
             /\ IF reply = "ok" THEN Continue("find") ELSE EndOperate("err")
    BY <1>4
  <2>2. /\ snapOf \in [SnapId -> Lun \cup {Absent}] /\ active \subseteq SnapId
        /\ faults' \in 0 .. MaxFaults
    BY <1>2, <2>1, CountsFaults DEF ArrayInv, ArrayTypeOK
  <2>3. /\ snapOf' \in [SnapId -> Lun \cup {Absent}]
        /\ \A t \in SnapId : snapOf[t] # Absent => snapOf'[t] = snapOf[t]
    BY <1>2, <2>1, <2>2 DEF Change
  <2>4. ArrayInv'
    BY <1>1, <1>2, <2>2, <2>3, SnapshotsChange
  <2>5. CASE EndOperate("err")
    BY <1>1, <2>3, <2>4, <2>5, EndOperateType
  <2>6. CASE Continue("find")
    BY <1>1, <1>2, <2>3, <2>4, <2>6, SnapshotsStay, OperateGoes DEF OperateSteps
  <2>7. QED BY <2>1, <2>5, <2>6
<1>5. QED BY <1>3, <1>4 DEF CreateSnapshot

LEMMA FindSnapshotType ==
  ASSUME TypeInv, FindSnapshot
  PROVE  TypeInv'
<1>1. /\ pc = "find" /\ cmd = "start" /\ pc \in OperateSteps
      /\ UNCHANGED arrayVars /\ UNCHANGED snapOf
  BY DEF FindSnapshot, At, OperateSteps, arrayVars, snapVars
<1>2. /\ cur \in Lun /\ local \in LocalRecord /\ ArrayInv
  BY <1>1, InOperate
<1>3. faults' \in 0 .. MaxFaults
  BY CountsFaults, KeepsFaults DEF FindSnapshot
<1>4. ArrayInv'
  BY <1>1, <1>2, <1>3, SameArray
<1>5. CASE EndOperate("err") /\ UNCHANGED local
  BY <1>1, <1>4, <1>5, EndOperateType
<1>6. CASE Continue("activate")
           /\ \E s \in SnapshotsOf(cur) : local' = [local EXCEPT !.found[cur] = s]
  <2>1. PICK s \in SnapshotsOf(cur) : local' = [local EXCEPT !.found[cur] = s]
    BY <1>6
  <2>2. s \in Snapshot /\ s # NoObject
    BY ObjectFacts DEF SnapshotsOf, Snapshot
  <2>3. local.found \in [Lun -> Snapshot]
    BY <1>2, LocalFields
  <2>4. PICK f : f = [local.found EXCEPT ![cur] = s]
    OBVIOUS
  <2>5. f \in [Lun -> Snapshot] /\ f[cur] = s
        /\ \A d \in Lun : d # cur => f[d] = local.found[d]
    BY <1>2, <2>2, <2>3, <2>4
  <2>6. local' = [local EXCEPT !.found = f]
    BY <1>2, <2>1, <2>4 DEF LocalRecord
  <2>7. local' \in LocalRecord /\ local'.found = f
    BY <1>2, <2>5, <2>6 DEF LocalRecord
  <2>8. \A d \in Lun : SnapshotOf(d)
    BY <1>1 DEF TypeInv, ObjectInv
  <2>9. \A d \in Lun : SnapshotOf(d)'
    BY <1>1, <2>1, <2>5, <2>7, <2>8 DEF SnapshotOf, SnapshotsOf
  <2>10. QED BY <1>1, <1>4, <1>6, <2>2, <2>5, <2>7, <2>9, OperateGoes DEF OperateSteps
<1>7. QED BY <1>5, <1>6 DEF FindSnapshot

(* A snapshot that is there is activated and its time asked for. *)
LEMMA FoundThere ==
  ASSUME TypeInv, pc \in {"activate", "time"}, cmd = "start"
  PROVE  /\ local.found[cur] # NoObject /\ local.found[cur] \in SnapshotsOf(cur)
         /\ local.found[cur] \in SnapId /\ pc \in OperateSteps
<1>1. pc \in OperateSteps
  BY DEF OperateSteps
<1>2. cur \in Lun
  BY <1>1, InOperate
<1>3. QED BY <1>1, <1>2 DEF TypeInv, ObjectInv, SnapshotOf, SnapshotsOf

LEMMA ActivateSnapshotType ==
  ASSUME TypeInv, ActivateSnapshot
  PROVE  TypeInv'
<1>1. /\ pc = "activate" /\ cmd = "start" /\ pc \in OperateSteps
      /\ UNCHANGED <<snapOf, hostVars, groupVars, local>>
  BY DEF ActivateSnapshot, At, OperateSteps
<1>2. PICK reply \in Reply :
        /\ Answers(reply)
        /\ Change(active, active \cup {local.found[cur]}, reply)
        /\ IF reply = "ok" THEN Continue("time") ELSE EndOperate("err")
  BY DEF ActivateSnapshot
<1>3. /\ local \in LocalRecord /\ ArrayInv /\ faults' \in 0 .. MaxFaults
      /\ local.found[cur] # NoObject /\ local.found[cur] \in SnapId
  BY <1>1, <1>2, InOperate, CountsFaults, FoundThere
<1>4. /\ snapOf \in [SnapId -> Lun \cup {Absent}] /\ active' \subseteq SnapId
  BY <1>2, <1>3 DEF Change, ArrayInv, ArrayTypeOK
<1>5. ArrayInv'
  BY <1>1, <1>3, <1>4, SnapshotsChange
<1>6. CASE EndOperate("err")
  BY <1>1, <1>5, <1>6, EndOperateType
<1>7. CASE Continue("time")
  BY <1>1, <1>3, <1>5, <1>7, SnapshotsStay, OperateGoes DEF OperateSteps
<1>8. QED BY <1>2, <1>6, <1>7

LEMMA ActiveTimeType ==
  ASSUME TypeInv, ActiveTime
  PROVE  TypeInv'
<1>1. /\ pc = "time" /\ cmd = "start" /\ pc \in OperateSteps
      /\ UNCHANGED <<arrayVars, local>> /\ UNCHANGED snapOf
  BY DEF ActiveTime, At, OperateSteps, arrayVars, snapVars
<1>2. faults' \in 0 .. MaxFaults
  BY CountsFaults, KeepsFaults DEF ActiveTime
<1>3. ArrayInv'
  BY <1>1, <1>2, InOperate, SameArray
<1>4. \E result \in {"none", "err"} : EndOperate(result)
  BY DEF ActiveTime
<1>5. QED BY <1>1, <1>3, <1>4, EndOperateType

LEMMA MapSnapshotType ==
  ASSUME TypeInv, MapSnapshot
  PROVE  TypeInv'
<1>1. /\ pc = "map" /\ cmd = "start" /\ pc' = "select"
      /\ UNCHANGED <<cmd, todo, report, arrayVars, faults, planVars>>
      /\ UNCHANGED snapOf
  BY DEF MapSnapshot, At, arrayVars, snapVars
<1>2. PICK d \in todo :
        /\ cur' = d
        /\ local' = [local EXCEPT !.object = local.found[d], !.n = 1,
                                  !.hosts = Absent, !.luns = Absent, !.join = Absent]
  BY DEF MapSnapshot
<1>3. d \in Lun /\ local \in LocalRecord
  BY DEF TypeInv, TypeOK, ProcessTypeOK
<1>4. PICK o \in Object : o = local.found[d]
  BY <1>3, LocalFields, ObjectFacts
<1>5. local' = [local EXCEPT !.object = o, !.n = 1,
                             !.hosts = Absent, !.luns = Absent, !.join = Absent]
  BY <1>2, <1>4
<1>6. local' \in LocalRecord /\ local'.object = o /\ local'.found = local.found
  BY <1>3, <1>5, NameFacts DEF LocalRecord
<1>7. ArrayInv'
  BY <1>1, TypeParts, KeepsFaults, SameArray
<1>8. pc' \notin AfterHosts \cup OperateSteps \cup StopStep \cup AfterLunGroup
      /\ pc' \notin {"fillLuns", "joinHosts", "joinLuns", "activate", "time"}
  BY <1>1 DEF AfterHosts, OperateSteps, StopStep, AfterLunGroup
<1>9. \A e \in Lun : SnapshotOf(e)'
  BY <1>1, <1>6, SnapshotsStay
<1>10. HandInv'
  BY <1>1, <1>2, <1>4, <1>6, <1>8, <1>9
  DEF HandInv, HeldInv, ObjectInv, RowsInv, UnmapInv, UnmapSteps, StopStep
<1>11. "select" \in DeviceSteps /\ "select" \in StepsOf["start"]
  BY DEF DeviceSteps, AddMapStep, StepsOf
<1>12. QED BY <1>1, <1>2, <1>6, <1>7, <1>10, <1>11, PickType

LEMMA SnapshotMappedType ==
  ASSUME TypeInv, SnapshotMapped
  PROVE  TypeInv'
<1>1. /\ pc = "mapped" /\ cmd = "start" /\ pc \in AddMapStep
      /\ UNCHANGED <<arrayVars, faults, local, report>> /\ UNCHANGED snapOf
      /\ Proceed(cur, "map", "list")
  BY DEF SnapshotMapped, At, AddMapStep, arrayVars, snapVars
<1>2. ArrayInv' /\ local' \in LocalRecord /\ cur \in todo
  BY <1>1, InAddMap, KeepsFaults, SameArray
<1>3. QED BY <1>1, <1>2, BetweenDevices

LEMMA SnapshotNotMappedType ==
  ASSUME TypeInv, SnapshotNotMapped
  PROVE  TypeInv'
BY TypeParts, KeepsFaults, SameArray, VanishKeeps DEF SnapshotNotMapped

LEMMA ListMappingsType ==
  ASSUME TypeInv, ListMappings
  PROVE  TypeInv'
<1>1. pc = "list" /\ cmd = "start" /\ Showmap("identify")
  BY DEF ListMappings, At
<1>2. CASE Fail
  BY <1>2, FailType
<1>3. CASE ~Fail
  <2>1. /\ Continue("identify") /\ UNCHANGED arrayVars /\ UNCHANGED snapOf
        /\ UNCHANGED faults \/ Answers("err")
        /\ \E rows \in SUBSET Rows : local' = [local EXCEPT !.rows = rows]
    <3>1. CASE local' = [local EXCEPT !.rows = Rows]
               /\ Continue("identify") /\ UNCHANGED <<arrayVars, faults>>
      BY <3>1 DEF arrayVars, snapVars
    <3>2. CASE /\ \E v \in {r.view : r \in Rows} :
                    local' = [local EXCEPT !.rows = {r \in Rows : r.view # v}]
               /\ Answers("err")
               /\ Continue("identify") /\ UNCHANGED arrayVars
      <4>1. PICK v : local' = [local EXCEPT !.rows = {r \in Rows : r.view # v}]
        BY <3>2
      <4>2. {r \in Rows : r.view # v} \in SUBSET Rows
        OBVIOUS
      <4>3. QED BY <3>2, <4>1, <4>2 DEF arrayVars, snapVars
    <3>3. QED BY <1>1, <1>3, <3>1, <3>2 DEF Showmap
  <2>2. ArrayInv /\ ArrayInv' /\ local \in LocalRecord
    BY <2>1, TypeParts, CountsFaults, KeepsFaults, SameArray DEF ProcessTypeOK
  <2>3. PICK rows \in SUBSET Row : local' = [local EXCEPT !.rows = rows]
    BY <2>1, <2>2, RowFacts
  <2>4. local' \in LocalRecord /\ local'.found = local.found
    BY <2>2, <2>3 DEF LocalRecord
  <2>5. HandInv'
    BY <1>1, <2>1, <2>4, SnapshotsStay, StartHolds DEF Continue, StartStep
  <2>6. /\ "identify" \in Step \ DeviceSteps /\ "identify" \in StepsOf["start"]
        /\ "list" \notin DeviceSteps
    BY DEF Step, StartStep, DeviceSteps, AddMapStep, OperateSteps, RowSteps, UnmapSteps,
           StepsOf
  <2>7. QED BY <1>1, <2>1, <2>2, <2>4, <2>5, <2>6, ContinueType
<1>4. QED BY <1>2, <1>3

LEMMA IdentifyType ==
  ASSUME TypeInv, Identify
  PROVE  TypeInv'
<1>1. /\ pc = "identify" /\ cmd = "start"
      /\ UNCHANGED <<arrayVars, faults>> /\ UNCHANGED snapOf
  BY DEF Identify, At, arrayVars, snapVars
<1>2. PICK d \in todo :
        /\ local' = [local EXCEPT !.wwn = WwnNow(local.found[d]),
                                  !.wwnOf[d] = WwnNow(local.found[d])]
        /\ Record(d, IF WwnNow(local.found[d]) = NoObject THEN "err" ELSE "ok")
        /\ Proceed(d, "identify", "respond")
  BY DEF Identify
<1>3. /\ d \in Lun /\ local \in LocalRecord /\ ArrayInv'
  BY <1>1, TypeParts, KeepsFaults, SameArray DEF ProcessTypeOK
<1>4. PICK wwn \in Snapshot : wwn = WwnNow(local.found[d])
  BY <1>3, LocalFields DEF WwnNow
<1>5. PICK f : f = [local.wwnOf EXCEPT ![d] = wwn]
  OBVIOUS
<1>6. f \in [Lun -> Snapshot]
  BY <1>3, <1>5, LocalFields
<1>7. local' = [local EXCEPT !.wwn = wwn, !.wwnOf = f]
  BY <1>2, <1>3, <1>4, <1>5 DEF LocalRecord
<1>8. local' \in LocalRecord /\ local'.found = local.found
  BY <1>3, <1>6, <1>7 DEF LocalRecord
<1>9. \E r \in Result \ {"absent"} : Record(d, r)
  BY <1>2 DEF Result
<1>10. QED BY <1>1, <1>2, <1>3, <1>8, <1>9, BetweenDevices

LEMMA StartType ==
  ASSUME TypeInv, StartNext
  PROVE  TypeInv'
BY SkipDeviceType, CheckStatusType, OperateType, CreateSnapshotType, FindSnapshotType,
   ActivateSnapshotType, ActiveTimeType, MapSnapshotType, SnapshotMappedType,
   SnapshotNotMappedType, ListMappingsType, IdentifyType
DEF StartNext

----------------------------------------------------------------------------
(* TypeInv: testFailoverStop. *)
StopSteps == RowSteps \cup {"findSnap"}

LEMMA InStop ==
  ASSUME TypeInv, pc \in StopSteps, cmd = "stop"
  PROVE  /\ cur \in Lun /\ cur \in todo /\ cur \in Asked /\ pc # "idle"
         /\ pc \in DeviceSteps /\ pc \in StopStep \ {"showmap"}
         /\ RowSteps \subseteq StepsOf[cmd]
         /\ RowSteps \subseteq StopStep \ {"showmap"}
         /\ RowSteps \subseteq (Step \cap DeviceSteps) \ {"idle", "preamble", "list"}
         /\ local \in LocalRecord /\ ArrayInv
         /\ pc \in RowSteps => /\ local.object \in SnapshotsOf(cur)
                               /\ local.object \in SnapId
<1>1. pc \in DeviceSteps /\ pc \in StopStep \ {"showmap"}
  BY DEF StopSteps, DeviceSteps, StopStep, RowSteps, UnmapSteps
<1>2. /\ RowSteps \subseteq StepsOf["stop"] /\ RowSteps \subseteq StopStep \ {"showmap"}
      /\ RowSteps \subseteq (Step \cap DeviceSteps) \ {"idle", "preamble", "list"}
  BY DEF RowSteps, UnmapSteps, Step, StopStep, DeviceSteps, StepsOf
<1>3. RowsInv
  BY DEF TypeInv
<1>4. pc \in RowSteps => local.object \in SnapshotsOf(cur)
  BY <1>1, <1>3 DEF RowsInv
<1>5. QED BY <1>1, <1>2, <1>4, AtDevice, TypeParts DEF SnapshotsOf

(* What is still to be done with a row of the snapshot at hand. *)
Undone(r) ==
  /\ r.object = local.object /\ OwnRow(r)
  /\ Current(r) \/ (pc \in UnmapSteps /\ r.view = local.join)

(* A request is about the snapshot at hand: the rows of the others stay.   *)
OthersStay ==
  /\ \A n \in Name : \/ view'[n] = view[n]
                     \/ pc \in RowSteps /\ Owner(n) = local.object
  /\ \A s \in SnapId : \/ snapOf'[s] = snapOf[s]
                       \/ snapOf'[s] = Absent

LEMMA RowsToCome ==
  ASSUME TypeInv, pc \in StopSteps, cmd = "stop", OthersStay
  PROVE  \A r \in local.rows :
           /\ OwnRow(r)
           /\ \A d \in todo \ {cur} : r.object \in SnapshotsOf(d)' => Current(r)'
<1>1. RowsInv /\ local \in LocalRecord /\ todo \subseteq Lun /\ pc \in StopStep \ {"showmap"}
  BY InStop DEF TypeInv, TypeOK, ProcessTypeOK
<1>2. SUFFICES ASSUME NEW r \in local.rows
               PROVE  OwnRow(r) /\ \A d \in todo \ {cur} :
                        r.object \in SnapshotsOf(d)' => Current(r)'
  OBVIOUS
<1>3. OwnRow(r) /\ r.view \in Name
  BY <1>1, <1>2, LocalFields, RowFields DEF RowsInv
<1>4. ASSUME NEW d \in todo \ {cur}, r.object \in SnapshotsOf(d)' PROVE Current(r)'
  <2>1. d \in Lun /\ d # Absent /\ d # cur
    BY <1>1, AbsentFacts
  <2>2. r.object \in SnapId /\ snapOf'[r.object] = d
    BY <1>4 DEF SnapshotsOf
  <2>3. snapOf[r.object] = d /\ r.object \in SnapshotsOf(d)
    BY <2>1, <2>2 DEF OthersStay, SnapshotsOf
  <2>4. d \in ToCome
    BY DEF ToCome
  <2>5. Current(r)
    BY <1>1, <2>3, <2>4 DEF RowsInv
  <2>6. pc \in RowSteps => r.object # local.object
    BY <2>1, <2>3, InStop DEF SnapshotsOf
  <2>7. view'[r.view] = view[r.view]
    BY <1>3, <2>6 DEF OthersStay, OwnRow
  <2>8. QED BY <2>5, <2>7 DEF Current
<1>5. QED BY <1>3, <1>4

(* A step at the snapshot at hand. *)
LEMMA StopGoes ==
  ASSUME TypeInv, pc \in StopSteps, cmd = "stop", NEW step \in RowSteps,
         Continue(step), local' \in LocalRecord, local'.rows = local.rows,
         OthersStay, ArrayInv', local'.object \in SnapshotsOf(cur)',
         \A r \in local'.del : Undone(r)', UnmapInv'
  PROVE  TypeInv'
<1>1. /\ pc' = step /\ cmd' = cmd /\ cur' = cur /\ todo' = todo
      /\ step \in StepsOf[cmd] /\ step \in Step \ {"idle", "preamble", "showmap", "list"}
      /\ step \in DeviceSteps /\ pc \in DeviceSteps /\ pc # "idle"
  BY InStop DEF Continue
<1>2. ToCome' = todo \ {cur}
  BY <1>1 DEF ToCome, RowSteps, UnmapSteps
<1>3. RowsInv'
  BY <1>1, <1>2, RowsToCome DEF RowsInv, Undone, OwnRow
<1>4. pc' \notin AddMapStep \cup OperateSteps
  BY <1>1 DEF RowSteps, UnmapSteps, AddMapStep, OperateSteps
<1>5. HandInv'
  BY <1>1, <1>3, <1>4 DEF HandInv, HeldInv, ObjectInv, AfterHosts, AfterLunGroup,
     AddMapStep, OperateSteps
<1>6. QED BY <1>1, <1>5, ContinueType

(* It is through with the device. *)
LEMMA EndStopType ==
  ASSUME TypeInv, pc \in StopSteps, cmd = "stop",
         NEW result \in {"ok", "err", "silent"}, EndStop(result), UNCHANGED local,
         OthersStay, ArrayInv'
  PROVE  TypeInv'
<1>1. /\ cur \in todo /\ pc # "idle" /\ local \in LocalRecord
      /\ Record(cur, result) /\ Proceed(cur, "stop", "respond")
      /\ result \in Result \ {"absent"}
  BY InStop DEF EndStop, Result
<1>2. /\ {"stop", "respond"} \subseteq Step \ DeviceSteps
      /\ {"stop", "respond"} \subseteq StepsOf["stop"]
  BY DEF Step, StopStep, DeviceSteps, AddMapStep, OperateSteps, RowSteps, UnmapSteps,
         StepsOf
<1>3. /\ cmd' = "stop" /\ pc' \in {"stop", "respond"}
      /\ pc' = "stop" => todo' = todo \ {cur}
  BY <1>1 DEF Proceed
<1>4. pc' = "stop" => ToCome' = todo \ {cur}
  BY <1>3 DEF ToCome
<1>5. RowsInv'
  BY <1>3, <1>4, RowsToCome DEF RowsInv, RowSteps, UnmapSteps, StopStep, OwnRow
<1>6. HandInv'
  BY <1>3, <1>5 DEF HandInv, HeldInv, ObjectInv, UnmapInv, AfterHosts, AfterLunGroup,
     AddMapStep, OperateSteps, UnmapSteps
<1>7. QED BY <1>1, <1>2, <1>6, ProceedType

LEMMA ShowMappingsType ==
  ASSUME TypeInv, ShowMappings
  PROVE  TypeInv'
<1>1. pc = "showmap" /\ cmd = "stop" /\ Showmap("stop")
  BY DEF ShowMappings, At
<1>2. CASE Fail
  BY <1>2, FailType
<1>3. CASE ~Fail
  <2>1. /\ Continue("stop") /\ UNCHANGED arrayVars
        /\ UNCHANGED faults \/ Answers("err")
        /\ \E rows \in SUBSET Rows : local' = [local EXCEPT !.rows = rows]
    <3>1. CASE local' = [local EXCEPT !.rows = Rows]
               /\ Continue("stop") /\ UNCHANGED <<arrayVars, faults>>
      BY <3>1
    <3>2. CASE /\ \E v \in {r.view : r \in Rows} :
                    local' = [local EXCEPT !.rows = {r \in Rows : r.view # v}]
               /\ Answers("err")
               /\ Continue("stop") /\ UNCHANGED arrayVars
      <4>1. PICK v : local' = [local EXCEPT !.rows = {r \in Rows : r.view # v}]
        BY <3>2
      <4>2. {r \in Rows : r.view # v} \in SUBSET Rows
        OBVIOUS
      <4>3. QED BY <3>2, <4>1, <4>2
    <3>3. QED BY <1>1, <1>3, <3>1, <3>2 DEF Showmap
  <2>2. ArrayInv /\ ArrayInv' /\ local \in LocalRecord
    BY <2>1, TypeParts, CountsFaults, KeepsFaults, SameArray DEF ProcessTypeOK
  <2>3. PICK rows \in SUBSET Rows : local' = [local EXCEPT !.rows = rows]
    BY <2>1
  <2>4. rows \in SUBSET Row /\ \A r \in rows : OwnRow(r) /\ Current(r)
    BY <2>2, RowFacts
  <2>5. local' \in LocalRecord /\ local'.rows = rows
    BY <2>2, <2>3, <2>4 DEF LocalRecord
  <2>6. \A r \in rows : Current(r)'
    BY <2>1, <2>4 DEF Current, arrayVars, groupVars
  <2>7. pc' = "stop" /\ cmd' = "stop"
    BY <1>1, <2>1 DEF Continue
  <2>8. HandInv'
    BY <2>4, <2>5, <2>6, <2>7
    DEF HandInv, HeldInv, ObjectInv, RowsInv, UnmapInv, AfterHosts, AfterLunGroup,
        AddMapStep, OperateSteps, UnmapSteps, RowSteps, OwnRow
  <2>9. /\ "stop" \in Step \ DeviceSteps /\ "stop" \in StepsOf["stop"]
        /\ "showmap" \notin DeviceSteps
    BY DEF Step, StopStep, DeviceSteps, AddMapStep, OperateSteps, RowSteps, UnmapSteps,
           StepsOf
  <2>10. QED BY <1>1, <2>1, <2>2, <2>5, <2>8, <2>9, ContinueType
<1>4. QED BY <1>2, <1>3

LEMMA StopPickType ==
  ASSUME TypeInv, StopPick
  PROVE  TypeInv'
<1>1. pc = "stop" /\ cmd = "stop" /\ UNCHANGED <<arrayVars, local>>
  BY DEF StopPick, At
<1>2. PICK d \in todo :
        \/ /\ cur' = d /\ pc' = "findSnap"
           /\ UNCHANGED <<cmd, todo, report, planVars, faults>>
        \/ /\ Answers("err") /\ Record(d, "err")
           /\ Proceed(d, "stop", "respond")
  BY DEF StopPick
<1>3. faults' \in 0 .. MaxFaults
  BY <1>2, CountsFaults, KeepsFaults
<1>4. ArrayInv' /\ local' \in LocalRecord
  BY <1>1, <1>3, TypeParts, SameArray DEF ProcessTypeOK
<1>5. \A r \in local.rows :
        OwnRow(r) /\ \A e \in todo : r.object \in SnapshotsOf(e)' => Current(r)'
  <2>1. RowsInv
    BY DEF TypeInv
  <2>2. ToCome = todo
    BY <1>1 DEF ToCome
  <2>3. \A e \in todo : SnapshotsOf(e)' = SnapshotsOf(e)
    BY <1>1 DEF SnapshotsOf, arrayVars, snapVars
  <2>4. \A r \in local.rows : Current(r) => Current(r)'
    BY <1>1 DEF Current, arrayVars, groupVars
  <2>5. QED BY <1>1, <2>1, <2>2, <2>3, <2>4 DEF RowsInv, StopStep
<1>6. ASSUME cmd' = "stop", pc' \in {"stop", "respond", "findSnap"},
             pc' # "respond" => todo' \subseteq todo
      PROVE  HandInv'
  <2>1. pc' # "respond" => ToCome' \subseteq todo
    BY <1>6 DEF ToCome
  <2>2. RowsInv'
    BY <1>1, <1>5, <1>6, <2>1 DEF RowsInv, RowSteps, UnmapSteps, StopStep, OwnRow
  <2>3. QED
    BY <1>6, <2>2 DEF HandInv, HeldInv, ObjectInv, UnmapInv, AfterHosts, AfterLunGroup,
       AddMapStep, OperateSteps, UnmapSteps
<1>7. /\ {"stop", "respond"} \subseteq Step \ DeviceSteps
      /\ {"stop", "respond"} \subseteq StepsOf["stop"]
      /\ "findSnap" \in DeviceSteps /\ "findSnap" \in StepsOf["stop"]
  BY DEF Step, StopStep, DeviceSteps, AddMapStep, OperateSteps, RowSteps, UnmapSteps,
         StepsOf
<1>8. CASE cur' = d /\ pc' = "findSnap" /\ UNCHANGED <<cmd, todo, report, planVars, faults>>
  <2>1. HandInv'
    BY <1>1, <1>6, <1>8
  <2>2. QED BY <1>1, <1>4, <1>7, <1>8, <2>1, PickType
<1>9. CASE Record(d, "err") /\ Proceed(d, "stop", "respond")
  <2>1. HandInv'
    BY <1>1, <1>6, <1>9 DEF Proceed
  <2>2. "err" \in Result \ {"absent"}
    BY DEF Result
  <2>3. QED BY <1>1, <1>4, <1>7, <1>9, <2>1, <2>2, ProceedType
<1>10. QED BY <1>2, <1>8, <1>9

LEMMA SameStays == UNCHANGED <<view, snapOf>> => OthersStay
BY DEF OthersStay

LEMMA FindTestedType ==
  ASSUME TypeInv, FindTested
  PROVE  TypeInv'
<1>1. /\ pc = "findSnap" /\ cmd = "stop" /\ pc \in StopSteps
      /\ UNCHANGED arrayVars /\ OthersStay /\ UNCHANGED snapOf
  BY SameStays DEF FindTested, At, StopSteps, arrayVars, groupVars, snapVars
<1>2. faults' \in 0 .. MaxFaults
  BY CountsFaults, KeepsFaults DEF FindTested
<1>3. ArrayInv' /\ local \in LocalRecord /\ cur \in todo
  BY <1>1, <1>2, InStop, SameArray
<1>4. CASE EndStop("ok") /\ UNCHANGED local
  BY <1>1, <1>3, <1>4, EndStopType
<1>5. CASE EndStop("err") /\ UNCHANGED local
  BY <1>1, <1>3, <1>5, EndStopType
<1>6. CASE Continue("unmap") /\ \E s \in SnapshotsOf(cur) :
             local' = [local EXCEPT !.object = s,
                                    !.del = {r \in local.rows : r.object = s}]
  <2>1. PICK s \in SnapshotsOf(cur) :
             local' = [local EXCEPT !.object = s,
                                    !.del = {r \in local.rows : r.object = s}]
    BY <1>6
  <2>2. s \in Object
    BY ObjectFacts DEF SnapshotsOf
  <2>3. PICK rest \in SUBSET Row : rest = {r \in local.rows : r.object = s}
    BY <1>3, LocalFields
  <2>4. local' = [local EXCEPT !.object = s, !.del = rest]
    BY <2>1, <2>3
  <2>5. /\ local' \in LocalRecord /\ local'.object = s /\ local'.del = rest
        /\ local'.rows = local.rows
    BY <1>3, <2>2, <2>4 DEF LocalRecord
  <2>6. pc' = "unmap" /\ view' = view
    BY <1>1, <1>6 DEF Continue, arrayVars, groupVars
  <2>7. ToCome = todo /\ RowsInv
    BY <1>1 DEF ToCome, TypeInv
  <2>8. \A r \in rest : OwnRow(r) /\ Current(r) /\ r.object = s
    BY <1>1, <1>3, <2>1, <2>3, <2>7 DEF RowsInv, StopStep
  <2>9. \A r \in rest : Undone(r)'
    BY <2>5, <2>6, <2>8 DEF Undone, Current, OwnRow
  <2>10. UnmapInv'
    BY <2>6 DEF UnmapInv, UnmapSteps
  <2>11. local'.object \in SnapshotsOf(cur)' /\ "unmap" \in RowSteps
    BY <1>1, <1>6, <2>1, <2>5 DEF SnapshotsOf, RowSteps, Continue
  <2>12. QED BY <1>1, <1>3, <1>6, <2>5, <2>9, <2>10, <2>11, StopGoes
<1>7. QED BY <1>4, <1>5, <1>6 DEF FindTested, NothingToStop

LEMMA UndoneNow ==
  ASSUME TypeInv, cmd = "stop", pc \in RowSteps
  PROVE  \A r \in local.del : /\ Undone(r) /\ r \in Row
                              /\ pc \notin UnmapSteps => Current(r)
<1>1. pc \in StopSteps
  BY DEF StopSteps
<1>2. RowsInv /\ local \in LocalRecord /\ pc \in StopStep \ {"showmap"}
  BY <1>1, InStop DEF TypeInv
<1>3. local.del \in SUBSET Row
  BY <1>2, LocalFields
<1>4. QED BY <1>2, <1>3 DEF RowsInv, Undone

LEMMA ExamineType ==
  ASSUME TypeInv, Examine
  PROVE  TypeInv'
<1>1. /\ pc = "unmap" /\ cmd = "stop" /\ pc \in StopSteps /\ pc \in RowSteps
      /\ pc \notin UnmapSteps /\ UNCHANGED arrayVars /\ OthersStay
      /\ UNCHANGED <<snapOf, view, hostGroup, lunGroup>>
  BY SameStays DEF Examine, At, StopSteps, RowSteps, UnmapSteps, arrayVars,
                   groupVars, snapVars
<1>2. PICK r \in local.del, reply \in Reply :
        /\ Answers(reply)
        /\ \/ /\ lunGroup[r.luns] = {local.object}
              /\ local' = [local EXCEPT !.hosts = r.hosts, !.luns = r.luns,
                                        !.join = r.view]
              /\ Continue("detachHosts")
           \/ /\ local' = [local EXCEPT !.del = @ \ {r}]
              /\ Continue("unmap")
  BY DEF Examine
<1>3. /\ ArrayInv /\ ArrayInv' /\ local \in LocalRecord /\ cur \in todo
      /\ local.object \in SnapshotsOf(cur)
  BY <1>1, <1>2, InStop, CountsFaults, SameArray
<1>4. \A q \in local.del : Current(q) /\ OwnRow(q) /\ q.object = local.object /\ q \in Row
  BY <1>1, UndoneNow DEF Undone
<1>5. \A q \in local.del : Current(q)'
  BY <1>1, <1>4 DEF Current
<1>6. CASE local' = [local EXCEPT !.del = @ \ {r}] /\ Continue("unmap")
  <2>1. PICK rest \in SUBSET Row : rest = local.del \ {r}
    BY <1>4
  <2>2. local' = [local EXCEPT !.del = rest]
    BY <1>3, <1>6, <2>1 DEF LocalRecord
  <2>3. /\ local' \in LocalRecord /\ local'.object = local.object
        /\ local'.rows = local.rows /\ local'.del = rest
    BY <1>3, <2>1, <2>2 DEF LocalRecord
  <2>4. \A q \in local'.del : Undone(q)'
    BY <1>4, <1>5, <2>1, <2>3 DEF Undone, OwnRow
  <2>5. UnmapInv'
    BY <1>6 DEF UnmapInv, UnmapSteps, Continue
  <2>6. local'.object \in SnapshotsOf(cur)'
    BY <1>1, <1>3, <1>6, <2>3 DEF SnapshotsOf, Continue
  <2>7. QED BY <1>1, <1>3, <1>6, <2>3, <2>4, <2>5, <2>6, StopGoes
<1>7. CASE /\ lunGroup[r.luns] = {local.object}
           /\ local' = [local EXCEPT !.hosts = r.hosts, !.luns = r.luns,
                                     !.join = r.view]
           /\ Continue("detachHosts")
  <2>1. r.hosts \in Name /\ r.luns \in Name /\ r.view \in Name
    BY <1>4, RowFields
  <2>2. /\ local' \in LocalRecord /\ local'.object = local.object
        /\ local'.rows = local.rows /\ local'.del = local.del
        /\ local'.hosts = r.hosts /\ local'.luns = r.luns /\ local'.join = r.view
    BY <1>3, <1>7, <2>1 DEF LocalRecord
  <2>3. \A q \in local'.del : Undone(q)'
    BY <1>4, <1>5, <2>2 DEF Undone, OwnRow
  <2>4. /\ view[r.view] # Absent /\ hostGroup[r.hosts] # Absent
        /\ lunGroup[r.luns] # Absent
    BY <1>3, <1>4, <2>1, ViewFacts DEF Current
  <2>5. /\ Owner(r.view) = local.object /\ Owner(r.hosts) = local.object
        /\ Owner(r.luns) = local.object
    BY <1>4 DEF OwnRow
  <2>6. UnmapInv'
    BY <1>1, <2>1, <2>2, <2>4, <2>5 DEF UnmapInv, Held
  <2>7. local'.object \in SnapshotsOf(cur)' /\ "detachHosts" \in RowSteps
    BY <1>1, <1>3, <1>7, <2>2 DEF SnapshotsOf, Continue, RowSteps, UnmapSteps
  <2>8. QED BY <1>1, <1>3, <1>7, <2>2, <2>3, <2>6, <2>7, StopGoes
<1>8. QED BY <1>2, <1>6, <1>7

(* What a mapping that is being taken apart consists of. *)
LEMMA Unmapping ==
  ASSUME TypeInv, pc \in UnmapSteps
  PROVE  /\ local.join \in Name /\ Owner(local.join) = local.object
         /\ local.luns \in Name /\ Owner(local.luns) = local.object
         /\ local.hosts \in Name /\ Owner(local.hosts) = local.object
         /\ hostGroup[local.hosts] # Absent
         /\ pc \in {"detachHosts", "detachLuns", "delView"} => view[local.join] # Absent
         /\ pc \notin {"showHosts", "takeHost"} => lunGroup[local.luns] # Absent
         /\ pc \in RowSteps /\ pc \in StopSteps
<1>1. pc \in RowSteps /\ pc \in StopSteps
  BY DEF RowSteps, StopSteps
<1>2. UnmapInv
  BY DEF TypeInv
<1>3. QED BY <1>1, <1>2 DEF UnmapInv, Held

(* A request of the deletion, whatever its answer. *)
LEMMA RequestType ==
  ASSUME TypeInv, NEW here \in UnmapSteps, NEW next \in UnmapSteps, NEW refused,
         NEW reply \in Reply, Request(here, refused, reply, next),
         ArrayInv', UNCHANGED snapOf,
         \A n \in Name \ {local.join} : view'[n] = view[n],
         reply = "ok" /\ pc' = next /\ local' = local => UnmapInv'
  PROVE  TypeInv'
<1>1. /\ pc = here /\ cmd = "stop" /\ UNCHANGED local
      /\ pc \in StopSteps /\ pc \in RowSteps /\ next \in RowSteps
  BY DEF Request, At, GiveUpStop, StopSteps, RowSteps
<1>2. OthersStay
  BY <1>1, Unmapping DEF OthersStay
<1>3. CASE reply # "ok"
  <2>1. EndStop("silent")
    BY <1>3 DEF Request, GiveUpStop
  <2>2. QED BY <1>1, <1>2, <2>1, EndStopType
<1>4. CASE reply = "ok"
  <2>1. Continue(next) /\ pc' = next
    BY <1>4 DEF Request, Continue
  <2>2. UnmapInv'
    BY <1>1, <1>4, <2>1
  <2>3. \A r \in local.del : Undone(r) /\ r.view \in Name
    BY <1>1, UndoneNow, RowFields
  <2>4. \A r \in local'.del : Undone(r)'
    BY <1>1, <2>1, <2>3 DEF Undone, Current, OwnRow
  <2>5. local'.object \in SnapshotsOf(cur)' /\ local' \in LocalRecord
    BY <1>1, <2>1, InStop DEF SnapshotsOf, Continue
  <2>6. QED BY <1>1, <1>2, <2>1, <2>2, <2>4, <2>5, StopGoes
<1>5. QED BY <1>3, <1>4

LEMMA RequestFaults ==
  ASSUME TypeInv, NEW here, NEW next, NEW refused, NEW reply \in Reply,
         Request(here, refused, reply, next)
  PROVE  pc = here /\ cmd = "stop" /\ faults' \in 0 .. MaxFaults /\ ArrayInv
<1>1. UNCHANGED faults \/ Answers(reply)
  BY DEF Request
<1>2. pc = here /\ cmd = "stop"
  BY DEF Request, At
<1>3. QED BY <1>1, <1>2, CountsFaults, KeepsFaults, TypeParts

(* The view being taken apart, with one of its groups less. *)
LEMMA LessView ==
  ASSUME ArrayInv, NEW n \in Name, view[n] # Absent, NEW x \in ViewRecord,
         x.hosts \subseteq view[n].hosts, x.luns \subseteq view[n].luns,
         view' = view \/ view' = [view EXCEPT ![n] = x],
         UNCHANGED <<hostGroup, lunGroup, hostVars, snapVars>>,
         faults' \in 0 .. MaxFaults
  PROVE  ArrayInv' /\ view'[n] # Absent /\ \A m \in Name \ {n} : view'[m] = view[m]
<1>1. /\ \A h \in x.hosts : hostGroup[h] # Absent /\ Owner(h) = Owner(n)
      /\ \A l \in x.luns : lunGroup[l] # Absent /\ Owner(l) = Owner(n)
  BY ViewFacts
<1>2. ArrayInv'
  BY <1>1, ViewChanges
<1>3. view'[n] # Absent /\ \A m \in Name \ {n} : view'[m] = view[m]
  BY AbsentFacts DEF ArrayInv, ArrayTypeOK
<1>4. QED BY <1>2, <1>3

LEMMA DetachHostsType ==
  ASSUME TypeInv, DetachHosts
  PROVE  TypeInv'
<1>1. PICK reply \in Reply :
        /\ Request("detachHosts", FALSE, reply, "detachLuns")
        /\ Change(view, [view EXCEPT ![local.join].hosts = @ \ {local.hosts}], reply)
  BY DEF DetachHosts
<1>2. /\ pc = "detachHosts" /\ pc \in UnmapSteps /\ faults' \in 0 .. MaxFaults /\ ArrayInv
      /\ "detachLuns" \in UnmapSteps
      /\ UNCHANGED <<hostGroup, lunGroup, hostVars, snapVars>> /\ UNCHANGED snapOf
  BY <1>1, RequestFaults DEF UnmapSteps, DetachHosts, snapVars
<1>3. PICK n \in Name : n = local.join /\ view[n] # Absent
  BY <1>2, Unmapping
<1>4. PICK x : x = [view[n] EXCEPT !.hosts = view[n].hosts \ {local.hosts}]
  OBVIOUS
<1>5. view[n] \in ViewRecord
  BY <1>2, <1>3, ViewFacts
<1>6. x \in ViewRecord /\ x.hosts \subseteq view[n].hosts /\ x.luns \subseteq view[n].luns
  BY <1>4, <1>5 DEF ViewRecord
<1>7. view' = view \/ view' = [view EXCEPT ![n] = x]
  <2>1. [view EXCEPT ![n].hosts = @ \ {local.hosts}] = [view EXCEPT ![n] = x]
    BY <1>2, <1>3, <1>4 DEF ArrayInv, ArrayTypeOK
  <2>2. QED BY <1>1, <1>3, <2>1 DEF Change
<1>8. ArrayInv' /\ view'[n] # Absent /\ \A m \in Name \ {n} : view'[m] = view[m]
  BY <1>2, <1>3, <1>6, <1>7, LessView
<1>9. ASSUME pc' = "detachLuns", local' = local PROVE UnmapInv'
  BY <1>2, <1>3, <1>8, <1>9, Unmapping DEF UnmapInv, Held
<1>10. QED BY <1>1, <1>2, <1>3, <1>8, <1>9, RequestType

LEMMA DetachLunsType ==
  ASSUME TypeInv, DetachLuns
  PROVE  TypeInv'
<1>1. PICK reply \in Reply :
        /\ Request("detachLuns", FALSE, reply, "delView")
        /\ Change(view, [view EXCEPT ![local.join].luns = @ \ {local.luns}], reply)
  BY DEF DetachLuns
<1>2. /\ pc = "detachLuns" /\ pc \in UnmapSteps /\ faults' \in 0 .. MaxFaults /\ ArrayInv
      /\ "delView" \in UnmapSteps
      /\ UNCHANGED <<hostGroup, lunGroup, hostVars, snapVars>> /\ UNCHANGED snapOf
  BY <1>1, RequestFaults DEF UnmapSteps, DetachLuns, snapVars
<1>3. PICK n \in Name : n = local.join /\ view[n] # Absent
  BY <1>2, Unmapping
<1>4. PICK x : x = [view[n] EXCEPT !.luns = view[n].luns \ {local.luns}]
  OBVIOUS
<1>5. view[n] \in ViewRecord
  BY <1>2, <1>3, ViewFacts
<1>6. x \in ViewRecord /\ x.hosts \subseteq view[n].hosts /\ x.luns \subseteq view[n].luns
  BY <1>4, <1>5 DEF ViewRecord
<1>7. view' = view \/ view' = [view EXCEPT ![n] = x]
  <2>1. [view EXCEPT ![n].luns = @ \ {local.luns}] = [view EXCEPT ![n] = x]
    BY <1>2, <1>3, <1>4 DEF ArrayInv, ArrayTypeOK
  <2>2. QED BY <1>1, <1>3, <2>1 DEF Change
<1>8. ArrayInv' /\ view'[n] # Absent /\ \A m \in Name \ {n} : view'[m] = view[m]
  BY <1>2, <1>3, <1>6, <1>7, LessView
<1>9. ASSUME pc' = "delView", local' = local PROVE UnmapInv'
  BY <1>2, <1>3, <1>8, <1>9, Unmapping DEF UnmapInv, Held
<1>10. QED BY <1>1, <1>2, <1>3, <1>8, <1>9, RequestType

LEMMA DelViewType ==
  ASSUME TypeInv, DelView
  PROVE  TypeInv'
<1>1. PICK reply \in Reply :
        /\ Request("delView", FALSE, reply, "takeSnap")
        /\ Change(view, [view EXCEPT ![local.join] = Absent], reply)
  BY DEF DelView
<1>2. /\ pc = "delView" /\ pc \in UnmapSteps /\ faults' \in 0 .. MaxFaults /\ ArrayInv
      /\ "takeSnap" \in UnmapSteps
      /\ UNCHANGED <<hostGroup, lunGroup, hostVars, snapVars>> /\ UNCHANGED snapOf
  BY <1>1, RequestFaults DEF UnmapSteps, DelView, snapVars
<1>3. PICK n \in Name : n = local.join
  BY <1>2, Unmapping
<1>4. view' = view \/ view' = [view EXCEPT ![n] = Absent]
  BY <1>1, <1>3 DEF Change
<1>5. ArrayInv'
  BY <1>2, <1>4, ViewChanges
<1>6. \A m \in Name \ {n} : view'[m] = view[m]
  BY <1>2, <1>4 DEF ArrayInv, ArrayTypeOK
<1>7. ASSUME pc' = "takeSnap", local' = local PROVE UnmapInv'
  BY <1>2, <1>7, Unmapping DEF UnmapInv, Held
<1>8. QED BY <1>1, <1>2, <1>3, <1>5, <1>6, <1>7, RequestType

LEMMA TakeSnapshotType ==
  ASSUME TypeInv, TakeSnapshot
  PROVE  TypeInv'
<1>1. PICK reply \in Reply :
        /\ Request("takeSnap", FALSE, reply, "delLunGroup")
        /\ Change(lunGroup, [lunGroup EXCEPT ![local.luns] = @ \ {local.object}], reply)
  BY DEF TakeSnapshot
<1>2. /\ pc = "takeSnap" /\ pc \in UnmapSteps /\ faults' \in 0 .. MaxFaults /\ ArrayInv
      /\ "delLunGroup" \in UnmapSteps
      /\ UNCHANGED <<hostGroup, view, hostVars, snapVars>> /\ UNCHANGED <<snapOf, view>>
  BY <1>1, RequestFaults DEF UnmapSteps, TakeSnapshot, snapVars
<1>3. PICK n \in Name : n = local.luns /\ lunGroup[n] # Absent
  BY <1>2, Unmapping
<1>4. PICK x : x = lunGroup[n] \ {local.object}
  OBVIOUS
<1>5. /\ x \in SUBSET Object /\ \A o \in x : o = Owner(n) /\ Present(o)
  BY <1>2, <1>3, <1>4 DEF ArrayInv, ArrayTypeOK, NamesInv, LunGroupInv
<1>6. lunGroup' = lunGroup \/ lunGroup' = [lunGroup EXCEPT ![n] = x]
  BY <1>1, <1>3, <1>4 DEF Change
<1>7. ArrayInv'
  BY <1>2, <1>5, <1>6, LunGroupChanges
<1>8. lunGroup'[n] # Absent
  BY <1>2, <1>3, <1>5, <1>6, AbsentFacts DEF ArrayInv, ArrayTypeOK
<1>9. ASSUME pc' = "delLunGroup", local' = local PROVE UnmapInv'
  BY <1>2, <1>3, <1>8, <1>9, Unmapping DEF UnmapInv, Held
<1>10. QED BY <1>1, <1>2, <1>7, <1>9, RequestType

LEMMA DelLunGroupType ==
  ASSUME TypeInv, DelLunGroup
  PROVE  TypeInv'
<1>1. PICK refused \in BOOLEAN, reply \in Reply :
        /\ Joined(local.luns) => refused
        /\ Request("delLunGroup", refused, reply, "showHosts")
        /\ Effect(refused, lunGroup, [lunGroup EXCEPT ![local.luns] = Absent], reply)
  <2>1. (Joined(local.luns) \/ lunGroup[local.luns] # {}) \in BOOLEAN
    OBVIOUS
  <2>2. QED BY <2>1 DEF DelLunGroup
<1>2. /\ pc = "delLunGroup" /\ pc \in UnmapSteps /\ faults' \in 0 .. MaxFaults /\ ArrayInv
      /\ "showHosts" \in UnmapSteps
      /\ UNCHANGED <<hostGroup, view, hostVars, snapVars>> /\ UNCHANGED <<snapOf, view>>
  BY <1>1, RequestFaults DEF UnmapSteps, DelLunGroup, snapVars
<1>3. PICK n \in Name : n = local.luns
  BY <1>2, Unmapping
<1>4. \/ lunGroup' = lunGroup
      \/ lunGroup' = [lunGroup EXCEPT ![n] = Absent] /\ ~Joined(n)
  BY <1>1, <1>3 DEF Effect, Change
<1>5. ArrayInv'
  <2>1. CASE lunGroup' = lunGroup
    BY <1>2, <2>1, SameArray DEF arrayVars, groupVars
  <2>2. CASE lunGroup' = [lunGroup EXCEPT ![n] = Absent] /\ ~Joined(n)
    BY <1>2, <2>2, LunGroupChanges
  <2>3. QED BY <1>4, <2>1, <2>2
<1>6. ASSUME pc' = "showHosts", local' = local PROVE UnmapInv'
  BY <1>2, <1>6, Unmapping DEF UnmapInv, Held
<1>7. QED BY <1>1, <1>2, <1>5, <1>6, RequestType

LEMMA ShowHostsType ==
  ASSUME TypeInv, ShowHosts
  PROVE  TypeInv'
<1>1. /\ pc = "showHosts" /\ cmd = "stop" /\ pc \in UnmapSteps /\ pc \in RowSteps
      /\ pc \in StopSteps /\ UNCHANGED arrayVars /\ UNCHANGED snapOf /\ OthersStay
      /\ UNCHANGED <<view, hostGroup>>
  BY SameStays DEF ShowHosts, At, UnmapSteps, RowSteps, StopSteps, arrayVars,
                   groupVars, snapVars
<1>2. faults' \in 0 .. MaxFaults
  BY CountsFaults, KeepsFaults DEF ShowHosts
<1>3. ArrayInv /\ ArrayInv' /\ local \in LocalRecord /\ local.object \in SnapshotsOf(cur)
  BY <1>1, <1>2, InStop, SameArray
<1>4. CASE GiveUpStop
  BY <1>1, <1>3, <1>4, EndStopType DEF GiveUpStop
<1>5. CASE Continue("takeHost")
           /\ local' = [local EXCEPT !.members = hostGroup[local.hosts]]
  <2>1. PICK m \in SUBSET AnyHost : m = hostGroup[local.hosts]
    BY <1>1, <1>3, Unmapping DEF ArrayInv, ArrayTypeOK
  <2>2. local' = [local EXCEPT !.members = m]
    BY <1>5, <2>1
  <2>3. /\ local' \in LocalRecord /\ local'.object = local.object
        /\ local'.rows = local.rows /\ local'.del = local.del
        /\ local'.hosts = local.hosts /\ local'.luns = local.luns
        /\ local'.join = local.join
    BY <1>3, <2>2 DEF LocalRecord
  <2>4. pc' = "takeHost" /\ "takeHost" \in UnmapSteps /\ "takeHost" \in RowSteps
    BY <1>5 DEF Continue, UnmapSteps, RowSteps
  <2>5. \A r \in local.del : Undone(r)
    BY <1>1, UndoneNow
  <2>6. \A r \in local'.del : Undone(r)'
    BY <1>1, <2>3, <2>4, <2>5 DEF Undone, Current, OwnRow
  <2>7. UnmapInv'
    BY <1>1, <2>3, <2>4, Unmapping DEF UnmapInv, Held
  <2>8. local'.object \in SnapshotsOf(cur)'
    BY <1>1, <1>3, <1>5, <2>3 DEF SnapshotsOf, Continue
  <2>9. QED BY <1>1, <1>3, <1>5, <2>3, <2>4, <2>6, <2>7, <2>8, StopGoes
<1>6. QED BY <1>4, <1>5 DEF ShowHosts

LEMMA TakeHostType ==
  ASSUME TypeInv, TakeHost
  PROVE  TypeInv'
<1>1. PICK h \in hostGroup[local.hosts], reply \in Reply :
        /\ Request("takeHost", FALSE, reply, "takeHost")
        /\ Change(hostGroup, [hostGroup EXCEPT ![local.hosts] = @ \ {h}], reply)
  BY DEF TakeHost
<1>2. /\ pc = "takeHost" /\ pc \in UnmapSteps /\ faults' \in 0 .. MaxFaults /\ ArrayInv
      /\ UNCHANGED <<lunGroup, view, hostVars, snapVars>> /\ UNCHANGED <<snapOf, view>>
  BY <1>1, RequestFaults DEF UnmapSteps, TakeHost, snapVars
<1>3. PICK n \in Name : n = local.hosts /\ hostGroup[n] # Absent
  BY <1>2, Unmapping
<1>4. PICK x : x = hostGroup[n] \ {h}
  OBVIOUS
<1>5. x \in SUBSET AnyHost
  BY <1>2, <1>3, <1>4 DEF ArrayInv, ArrayTypeOK
<1>6. hostGroup' = hostGroup \/ hostGroup' = [hostGroup EXCEPT ![n] = x]
  BY <1>1, <1>3, <1>4 DEF Change
<1>7. ArrayInv'
  BY <1>2, <1>5, <1>6, HostGroupChanges
<1>8. hostGroup'[n] # Absent
  BY <1>2, <1>3, <1>5, <1>6, AbsentFacts DEF ArrayInv, ArrayTypeOK
<1>9. ASSUME pc' = "takeHost", local' = local PROVE UnmapInv'
  BY <1>2, <1>3, <1>8, <1>9, Unmapping DEF UnmapInv, Held
<1>10. QED BY <1>1, <1>2, <1>7, <1>9, RequestType

LEMMA DelHostGroupType ==
  ASSUME TypeInv, DelHostGroup
  PROVE  TypeInv'
<1>1. PICK refused \in BOOLEAN, reply \in Reply :
        /\ Attached(local.hosts) => refused
        /\ UNCHANGED faults \/ Answers(reply)
        /\ Effect(refused, hostGroup, [hostGroup EXCEPT ![local.hosts] = Absent],
                  reply)
        /\ \/ /\ local' = [local EXCEPT
                             !.del = {r \in local.del : r.view # local.join}]
              /\ Continue("unmap")
           \/ GiveUpStop
  <2>1. local \in LocalRecord
    BY DEF TypeInv, TypeOK, ProcessTypeOK
  <2>2. PICK refused \in BOOLEAN :
          refused = (Attached(local.hosts) \/ hostGroup[local.hosts] # {})
    OBVIOUS
  <2>3. QED BY <2>1, <2>2 DEF DelHostGroup, LocalRecord
<1>2. /\ pc = "takeHost" /\ cmd = "stop" /\ pc \in UnmapSteps /\ pc \in RowSteps
      /\ pc \in StopSteps /\ UNCHANGED <<lunGroup, view, hostVars, snapVars>>
      /\ UNCHANGED <<snapOf, view>> /\ OthersStay
  BY SameStays DEF DelHostGroup, At, UnmapSteps, RowSteps, StopSteps, snapVars
<1>3. /\ faults' \in 0 .. MaxFaults /\ ArrayInv /\ local \in LocalRecord
      /\ local.object \in SnapshotsOf(cur)
  BY <1>1, <1>2, CountsFaults, KeepsFaults, InStop
<1>4. PICK n \in Name : n = local.hosts
  BY <1>2, Unmapping
<1>5. \/ hostGroup' = hostGroup
      \/ hostGroup' = [hostGroup EXCEPT ![n] = Absent] /\ ~Attached(n)
  BY <1>1, <1>4 DEF Effect, Change
<1>6. ArrayInv'
  <2>1. CASE hostGroup' = hostGroup
    BY <1>2, <1>3, <2>1, SameArray DEF arrayVars, groupVars
  <2>2. CASE hostGroup' = [hostGroup EXCEPT ![n] = Absent] /\ ~Attached(n)
    BY <1>2, <1>3, <2>2, HostGroupChanges
  <2>3. QED BY <1>5, <2>1, <2>2
<1>7. CASE GiveUpStop
  BY <1>2, <1>6, <1>7, EndStopType DEF GiveUpStop
<1>8. CASE /\ local' = [local EXCEPT !.del = {r \in local.del : r.view # local.join}]
           /\ Continue("unmap")
  <2>1. \A r \in local.del : Undone(r) /\ r \in Row
    BY <1>2, UndoneNow
  <2>2. PICK rest \in SUBSET Row : rest = {r \in local.del : r.view # local.join}
    BY <2>1
  <2>3. local' = [local EXCEPT !.del = rest]
    BY <1>8, <2>2
  <2>4. /\ local' \in LocalRecord /\ local'.object = local.object
        /\ local'.rows = local.rows /\ local'.del = rest
    BY <1>3, <2>3 DEF LocalRecord
  <2>5. pc' = "unmap" /\ "unmap" \in RowSteps /\ "unmap" \notin UnmapSteps
    BY <1>8 DEF Continue, RowSteps, UnmapSteps
  <2>6. \A r \in local'.del : Undone(r)'
    BY <1>2, <2>1, <2>2, <2>4, <2>5 DEF Undone, Current, OwnRow
  <2>7. UnmapInv'
    BY <2>5 DEF UnmapInv
  <2>8. local'.object \in SnapshotsOf(cur)'
    BY <1>2, <1>3, <1>8, <2>4 DEF SnapshotsOf, Continue
  <2>9. QED BY <1>2, <1>3, <1>6, <1>8, <2>4, <2>5, <2>6, <2>7, <2>8, StopGoes
<1>9. QED BY <1>1, <1>7, <1>8

LEMMA UnmappedType ==
  ASSUME TypeInv, Unmapped
  PROVE  TypeInv'
<1>1. /\ pc = "unmap" /\ cmd = "stop" /\ pc \in StopSteps /\ pc \in RowSteps
      /\ local.del = {} /\ Continue("disable") /\ pc' = "disable"
      /\ UNCHANGED <<arrayVars, faults, local>> /\ OthersStay /\ UNCHANGED snapOf
  BY SameStays DEF Unmapped, At, StopSteps, RowSteps, arrayVars, groupVars,
                   snapVars, Continue
<1>2. ArrayInv' /\ local \in LocalRecord /\ local.object \in SnapshotsOf(cur)
  BY <1>1, KeepsFaults, InStop, SameArray
<1>3. UnmapInv' /\ "disable" \in RowSteps
  BY <1>1 DEF UnmapInv, UnmapSteps, RowSteps
<1>4. local'.object \in SnapshotsOf(cur)'
  BY <1>1, <1>2 DEF SnapshotsOf, Continue
<1>5. QED BY <1>1, <1>2, <1>3, <1>4, StopGoes

LEMMA EndDeleteType ==
  ASSUME TypeInv, pc \in StopSteps, cmd = "stop", EndDelete, UNCHANGED local,
         OthersStay, ArrayInv'
  PROVE  TypeInv'
<1>1. \E result \in {"ok", "err", "silent"} : EndStop(result)
  BY DEF EndDelete
<1>2. QED BY <1>1, EndStopType

LEMMA DisableType ==
  ASSUME TypeInv, Disable
  PROVE  TypeInv'
<1>1. /\ pc = "disable" /\ cmd = "stop" /\ pc \in StopSteps /\ pc \in RowSteps
      /\ pc \notin UnmapSteps
      /\ UNCHANGED <<snapOf, hostVars, groupVars, local>> /\ UNCHANGED view /\ OthersStay
  BY SameStays DEF Disable, At, StopSteps, RowSteps, UnmapSteps, groupVars
<1>2. PICK reply \in Reply :
        /\ Answers(reply)
        /\ Change(active, active \ {local.object}, reply)
        /\ IF reply = "ok" THEN Continue("delSnap") ELSE EndDelete
  BY DEF Disable
<1>3. /\ faults' \in 0 .. MaxFaults /\ ArrayInv /\ local \in LocalRecord
      /\ local.object \in SnapshotsOf(cur)
  BY <1>1, <1>2, CountsFaults, InStop
<1>4. snapOf \in [SnapId -> Lun \cup {Absent}] /\ active' \subseteq SnapId
  BY <1>2, <1>3 DEF Change, ArrayInv, ArrayTypeOK
<1>5. ArrayInv'
  BY <1>1, <1>3, <1>4, SnapshotsChange
<1>6. CASE EndDelete
  BY <1>1, <1>5, <1>6, EndDeleteType
<1>7. CASE Continue("delSnap")
  <2>1. pc' = "delSnap" /\ "delSnap" \in RowSteps /\ "delSnap" \notin UnmapSteps
    BY <1>7 DEF Continue, RowSteps, UnmapSteps
  <2>2. \A r \in local.del : Undone(r) /\ Current(r)
    BY <1>1, UndoneNow
  <2>3. \A r \in local'.del : Undone(r)'
    BY <1>1, <2>2 DEF Undone, Current, OwnRow
  <2>4. UnmapInv'
    BY <2>1 DEF UnmapInv
  <2>5. local'.object \in SnapshotsOf(cur)'
    BY <1>1, <1>3, <1>7 DEF SnapshotsOf, Continue
  <2>6. QED BY <1>1, <1>3, <1>5, <1>7, <2>1, <2>3, <2>4, <2>5, StopGoes
<1>8. QED BY <1>2, <1>6, <1>7

LEMMA DelSnapshotType ==
  ASSUME TypeInv, DelSnapshot
  PROVE  TypeInv'
<1>1. /\ pc = "delSnap" /\ cmd = "stop" /\ pc \in StopSteps /\ pc \in RowSteps
      /\ UNCHANGED <<active, hostGroup, view, hostVars>>
  BY DEF DelSnapshot, At, StopSteps, RowSteps
<1>2. PICK reply \in Reply :
        /\ UNCHANGED faults \/ Answers(reply)
        /\ Deleted(local.object) \/ UNCHANGED <<snapOf, lunGroup>>
        /\ \/ EndDelete /\ UNCHANGED local
           \/ Vanish /\ UNCHANGED planVars
  BY DEF DelSnapshot
<1>3. /\ faults' \in 0 .. MaxFaults /\ ArrayInv /\ local.object \in SnapId
  BY <1>1, <1>2, CountsFaults, KeepsFaults, InStop
<1>4. ArrayInv'
  BY <1>1, <1>2, <1>3, DeletedChanges, SameArray DEF arrayVars, groupVars, snapVars
<1>5. OthersStay
  BY <1>1, <1>2, <1>3 DEF OthersStay, Deleted, ArrayInv, ArrayTypeOK
<1>6. CASE EndDelete /\ UNCHANGED local
  BY <1>1, <1>4, <1>5, <1>6, EndDeleteType
<1>7. CASE Vanish /\ UNCHANGED planVars
  BY <1>4, <1>7, VanishKeeps
<1>8. QED BY <1>2, <1>6, <1>7

LEMMA StopType ==
  ASSUME TypeInv, StopNext
  PROVE  TypeInv'
BY ShowMappingsType, StopPickType, FindTestedType, ExamineType, DetachHostsType,
   DetachLunsType, DelViewType, TakeSnapshotType, DelLunGroupType, ShowHostsType,
   TakeHostType, DelHostGroupType, UnmappedType, DisableType, DelSnapshotType
DEF StopNext

----------------------------------------------------------------------------
(* TypeInv: the beginning and the end of a process. *)
LEMMA PreambleType ==
  ASSUME TypeInv, Preamble
  PROVE  TypeInv'
<1>1. CASE Fail
  BY <1>1, FailType
<1>2. CASE ~Fail
  <2>1. /\ pc = "preamble" /\ UNCHANGED <<arrayVars, faults, local>>
        /\ UNCHANGED snapOf
        /\ Continue(CASE cmd = "map" -> "pick" [] cmd = "start" -> "check"
                      [] cmd = "stop" -> "showmap")
    BY <1>2 DEF Preamble, arrayVars, snapVars
  <2>2. /\ cmd \in {"map", "start", "stop"} /\ todo = Asked /\ local \in LocalRecord
        /\ pc \notin DeviceSteps
    BY <2>1, StepFacts, CommandAssumption
    DEF TypeInv, TypeOK, ProcessTypeOK, ProcessInv
  <2>3. PICK step \in {"pick", "check", "showmap"} :
          /\ Continue(step) /\ pc' = step /\ cmd' = cmd
          /\ step = "check" <=> cmd = "start"
          /\ step = "showmap" <=> cmd = "stop"
    BY <2>1, <2>2 DEF Continue
  <2>4. ArrayInv'
    BY <2>1, TypeParts, KeepsFaults, SameArray
  <2>5. HandInv'
    <3>1. CASE cmd = "start"
      BY <2>1, <2>3, <3>1, SnapshotsStay, StartHolds DEF StartStep
    <3>2. CASE cmd # "start"
      BY <2>3, <3>2 DEF HandInv, HeldInv, ObjectInv, RowsInv, UnmapInv, AfterHosts,
         AfterLunGroup, AddMapStep, OperateSteps, UnmapSteps, StopStep
    <3>3. QED BY <3>1, <3>2
  <2>6. step \in Step \ DeviceSteps /\ step \in StepsOf[cmd]
    BY <2>2, <2>3 DEF Step, StartStep, StopStep, DeviceSteps, AddMapStep, OperateSteps,
       RowSteps, UnmapSteps, StepsOf
  <2>7. QED BY <2>1, <2>2, <2>3, <2>4, <2>5, <2>6, ContinueType
<1>3. QED BY <1>1, <1>2

LEMMA RespondPhases ==
  ASSUME TypeInv, Respond
  PROVE  /\ phase' \in [Lun -> Phase]
         /\ told' \in [Lun -> [snap : Snapshot, wwn : Snapshot]]
<1>1. /\ cmd \in {"map", "start", "stop"} /\ local \in LocalRecord
      /\ phase \in [Lun -> Phase]
      /\ told \in [Lun -> [snap : Snapshot, wwn : Snapshot]]
  BY CommandAssumption DEF Respond, TypeInv, TypeOK, ProcessTypeOK, ProcessInv
<1>2. Reached[cmd] \in Phase
  BY <1>1 DEF Reached, Phase
<1>3. local.found \in [Lun -> Snapshot] /\ local.wwnOf \in [Lun -> Snapshot]
  BY <1>1, LocalFields
<1>4. phase' \in [Lun -> Phase]
  BY <1>1, <1>2 DEF Respond
<1>5. told' \in [Lun -> [snap : Snapshot, wwn : Snapshot]]
  BY <1>1, <1>3 DEF Respond
<1>6. QED BY <1>4, <1>5

LEMMA RespondType ==
  ASSUME TypeInv, Respond
  PROVE  TypeInv'
<1>1. ArrayInv'
  BY TypeParts, KeepsFaults, SameArray DEF Respond
<1>2. QED BY <1>1, RespondPhases, VanishType DEF Respond

LEMMA StutterType ==
  ASSUME TypeInv, UNCHANGED vars
  PROVE  TypeInv'
<1>1. UNCHANGED arrayVars /\ UNCHANGED faults /\ UNCHANGED planVars
      /\ UNCHANGED <<cmd, pc, todo, cur, local, report>>
      /\ UNCHANGED <<phase, told, hostGroup, lunGroup, view, snapOf>>
  BY DEF vars, procVars, planVars, arrayVars, groupVars, snapVars
<1>2. ArrayInv'
  BY <1>1, TypeParts, KeepsFaults, SameArray
<1>3. ProcessTypeOK' /\ ProcessInv'
  BY <1>1 DEF TypeInv, TypeOK, ProcessTypeOK, ProcessInv, NoProcess, Asked
<1>4. HeldInv' /\ ObjectInv' /\ UnmapInv'
  BY <1>1 DEF TypeInv, HeldInv, ObjectInv, UnmapInv, Held, Joined, SnapshotOf, SnapshotsOf
<1>5. RowsInv'
  BY <1>1 DEF TypeInv, RowsInv, OwnRow, Current, ToCome, SnapshotsOf
<1>6. QED BY <1>2, <1>3, <1>4, <1>5 DEF TypeInv, TypeOK, ArrayInv

LEMMA NextType ==
  ASSUME TypeInv, [Next]_vars
  PROVE  TypeInv'
<1>1. ASSUME Start PROVE TypeInv'
  BY <1>1, BeginType DEF Start
<1>2. ASSUME Crash PROVE TypeInv'
  BY <1>2, FailType DEF Crash
<1>3. ASSUME MapNext PROVE TypeInv'
  BY <1>3, MapPickType, MapDoneType DEF MapNext
<1>4. QED
  BY <1>1, <1>2, <1>3, StutterType, PreambleType, AddMapType, StartType, StopType,
     RespondType
  DEF Next, ProcessStep

(* Each step keeps what the process takes for granted of its device, its   *)
(* groups and views and the rows it has listed. *)
THEOREM TypeInvariant == Spec => []TypeInv
BY InitType, NextType, PTL DEF Spec

(* The array's groups, views and snapshots, and what a process keeps of    *)
(* them, stay what they are taken for, whatever is lost or killed.         *)
THEOREM TypeCorrect == Spec => []TypeOK
<1>1. TypeInv => TypeOK
  BY DEF TypeInv
<1>2. QED BY <1>1, TypeInvariant, PTL

----------------------------------------------------------------------------
(* Who sees what: a view joins a group the host is in with a group of the  *)
(* object's own. *)
InHosts(g, h) == hostGroup[g] # Absent /\ h \in hostGroup[g]
InLuns(l, o) == lunGroup[l] # Absent /\ o \in lunGroup[l]
JoinsHosts(v, g) == view[v] # Absent /\ g \in view[v].hosts
JoinsLuns(v, l) == view[v] # Absent /\ l \in view[v].luns

Sees(o, h) == \E v, g, l \in Name :
  JoinsHosts(v, g) /\ JoinsLuns(v, l) /\ InLuns(l, o) /\ InHosts(g, h)

LEMMA SeenThrough ==
  ASSUME ArrayInv, NEW V \in SUBSET Name, \A v \in V : view[v] # Absent, NEW h,
         h \in HostsThrough(V)
  PROVE  \E v \in V : \E g \in Name : JoinsHosts(v, g) /\ InHosts(g, h)
<1>1. PICK v \in V : h \in UNION {hostGroup[g] : g \in view[v].hosts}
  BY DEF HostsThrough
<1>2. PICK g \in view[v].hosts : h \in hostGroup[g]
  BY <1>1
<1>3. g \in Name /\ hostGroup[g] # Absent
  BY <1>1, <1>2, ViewFacts
<1>4. QED BY <1>1, <1>2, <1>3 DEF JoinsHosts, InHosts

LEMMA SeenSees ==
  ASSUME ArrayInv, NEW o, NEW h
  PROVE  h \in SeenBy(o) <=> Sees(o, h)
<1>1. ASSUME h \in SeenBy(o) PROVE Sees(o, h)
  <2>1. ViewsOf(o) \in SUBSET Name /\ \A v \in ViewsOf(o) : view[v] # Absent
    BY DEF ViewsOf
  <2>2. PICK v \in ViewsOf(o) : \E g \in Name : JoinsHosts(v, g) /\ InHosts(g, h)
    BY <1>1, <2>1, SeenThrough DEF SeenBy
  <2>3. PICK l \in view[v].luns : o \in lunGroup[l]
    BY <2>2 DEF ViewsOf
  <2>4. l \in Name /\ lunGroup[l] # Absent
    BY <2>1, <2>2, <2>3, ViewFacts
  <2>5. QED BY <2>1, <2>2, <2>3, <2>4 DEF Sees, JoinsLuns, InLuns
<1>2. ASSUME Sees(o, h) PROVE h \in SeenBy(o)
  <2>1. PICK v, g, l \in Name :
          JoinsHosts(v, g) /\ JoinsLuns(v, l) /\ InLuns(l, o) /\ InHosts(g, h)
    BY <1>2 DEF Sees
  <2>2. v \in ViewsOf(o)
    BY <2>1 DEF ViewsOf, JoinsHosts, JoinsLuns, InLuns
  <2>3. h \in UNION {hostGroup[m] : m \in view[v].hosts}
    BY <2>1 DEF JoinsHosts, InHosts
  <2>4. QED BY <2>2, <2>3 DEF SeenBy, HostsThrough
<1>3. QED BY <1>1, <1>2

(* The names on the way are the object's own. *)
LEMMA SeesOwn ==
  ASSUME ArrayInv, NEW v \in Name, NEW g \in Name, NEW l \in Name, NEW o,
         JoinsHosts(v, g), JoinsLuns(v, l), InLuns(l, o)
  PROVE  Owner(v) = o /\ Owner(g) = o /\ Owner(l) = o /\ Present(o)
<1>1. view[v] # Absent /\ g \in view[v].hosts /\ l \in view[v].luns /\ o \in lunGroup[l]
  BY DEF JoinsHosts, JoinsLuns, InLuns
<1>2. Owner(g) = Owner(v) /\ Owner(l) = Owner(v) /\ o = Owner(l)
  BY <1>1, ViewFacts
<1>3. lunGroup[l] # Absent /\ LunGroupInv(l)
  BY DEF ArrayInv, NamesInv, InLuns
<1>4. QED BY <1>1, <1>2, <1>3 DEF LunGroupInv

(* Of the groups and views nothing is lost; nothing is added.  *)
NothingLost ==
  /\ \A n \in Name : \A x : InHosts(n, x) => InHosts(n, x)'
  /\ \A n \in Name : \A x : InLuns(n, x) => InLuns(n, x)'
  /\ \A n \in Name : \A x : JoinsHosts(n, x) => JoinsHosts(n, x)'
  /\ \A n \in Name : \A x : JoinsLuns(n, x) => JoinsLuns(n, x)'

NothingAdded ==
  /\ \A n \in Name : \A x : InHosts(n, x)' => InHosts(n, x)
  /\ \A n \in Name : \A x : InLuns(n, x)' => InLuns(n, x)
  /\ \A n \in Name : \A x : JoinsHosts(n, x)' => JoinsHosts(n, x)
  /\ \A n \in Name : \A x : JoinsLuns(n, x)' => JoinsLuns(n, x)

(* An initiator that has a host keeps it. *)
HostsKept == \A i \in Initiator : hostOf[i] # NoHost => hostOf'[i] = hostOf[i]

LEMMA SeesMore == NothingLost => \A o, h : Sees(o, h) => Sees(o, h)'
BY DEF NothingLost, Sees
LEMMA SeesLess == NothingAdded => \A o, h : Sees(o, h)' => Sees(o, h)
BY DEF NothingAdded, Sees

LEMMA SameSees ==
  UNCHANGED groupVars => NothingLost /\ NothingAdded
BY DEF groupVars, NothingLost, NothingAdded, InHosts, InLuns, JoinsHosts, JoinsLuns

LEMMA HostsGrow ==
  ASSUME HostsKept, NEW g \in AccessGroup
  PROVE  HostsOf(g) \subseteq HostsOf(g)'
BY MappingAssumption DEF HostsKept, HostsOf

----------------------------------------------------------------------------
(* What _add_map does to it: only hosts that are wanted get to see the     *)
(* object, and no one ceases to see anything. *)
WantStep == AddMapStep \ {"select", "mapped", "unmapped"}

MapEffect ==
  /\ NothingLost /\ HostsKept
  /\ \A o, h : Sees(o, h)' =>
       Sees(o, h) \/ (o = local.object /\ h \in Wanted /\ pc \in WantStep)

LEMMA QuietMap == UNCHANGED <<hostOf, groupVars>> => MapEffect
BY SameSees, SeesLess DEF MapEffect, HostsKept

LEMMA ArrayNames ==
  ASSUME ArrayInv
  PROVE  /\ DOMAIN hostGroup = Name /\ DOMAIN lunGroup = Name /\ DOMAIN view = Name
         /\ hostOf \in [Initiator -> AnyHost \cup {NoHost}]
BY DEF ArrayInv, ArrayTypeOK

LEMMA AddMapFrame ==
  ASSUME AddMapNext
  PROVE  /\ pc \in AddMapStep /\ pc' \in AddMapStep
         /\ UNCHANGED <<snapOf, active, phase, told, cmd, todo, cur, report>>
<1> USE DEF AddMapStep, Continue, GiveUp, NextSuffix, arrayVars, snapVars, groupVars,
            hostVars, planVars
<1>1. ASSUME Select \/ Query PROVE
        /\ pc \in AddMapStep /\ pc' \in AddMapStep
        /\ UNCHANGED <<snapOf, active, phase, told, cmd, todo, cur, report>>
  BY <1>1 DEF Select, Query
<1>2. ASSUME MakeHost \/ AddInitiator PROVE
        /\ pc \in AddMapStep /\ pc' \in AddMapStep
        /\ UNCHANGED <<snapOf, active, phase, told, cmd, todo, cur, report>>
  <2>1. CASE MakeHost
    BY <2>1 DEF MakeHost
  <2>2. CASE AddInitiator
    <3>1. /\ pc = "hosts" /\ UNCHANGED snapVars
          /\ Continue("unmapped") \/ Continue("hosts")
      BY <2>2, SMTT(60) DEF AddInitiator, GiveUp
    <3>2. QED BY <3>1
  <2>3. QED BY <1>2, <2>1, <2>2
<1>3. ASSUME HostsKnown \/ ShowFails \/ UseHostGroup \/ SkipHostGroup \/ UseLunGroup
             \/ SkipLunGroup \/ UseView \/ NoView \/ SkipView PROVE
        /\ pc \in AddMapStep /\ pc' \in AddMapStep
        /\ UNCHANGED <<snapOf, active, phase, told, cmd, todo, cur, report>>
  BY <1>3 DEF HostsKnown, ShowFails, UseHostGroup, SkipHostGroup, UseLunGroup,
     SkipLunGroup, UseView, NoView, SkipView
<1>4. ASSUME CreateHostGroup \/ FillHosts \/ CreateLunGroup \/ FillLuns PROVE
        /\ pc \in AddMapStep /\ pc' \in AddMapStep
        /\ UNCHANGED <<snapOf, active, phase, told, cmd, todo, cur, report>>
  BY <1>4 DEF CreateHostGroup, FillHosts, CreateLunGroup, FillLuns
<1>5. ASSUME CreateView \/ JoinHosts \/ JoinLuns PROVE
        /\ pc \in AddMapStep /\ pc' \in AddMapStep
        /\ UNCHANGED <<snapOf, active, phase, told, cmd, todo, cur, report>>
  BY <1>5 DEF CreateView, JoinHosts, JoinLuns
<1>6. QED BY <1>1, <1>2, <1>3, <1>4, <1>5 DEF AddMapNext

LEMMA HostsEffect ==
  ASSUME TypeInv, MakeHost \/ AddInitiator
  PROVE  UNCHANGED groupVars /\ HostsKept
<1>1. CASE MakeHost
  BY <1>1 DEF MakeHost, HostsKept
<1>2. CASE AddInitiator
  <2>1. PICK i \in Initiator, h \in AnyHost :
          \/ hostOf' = hostOf
          \/ hostOf[i] = NoHost /\ hostOf' = [hostOf EXCEPT ![i] = h]
    <3>1. PICK g \in AccessGroup, h \in AnyHost, reply \in Reply :
          \E i \in local.free[g] :
            IF hostOf[i] = NoHost
              THEN Answers(reply) /\ Change(hostOf, [hostOf EXCEPT ![i] = h], reply)
              ELSE reply = "err" /\ UNCHANGED <<faults, hostOf>>
      BY <1>2 DEF AddInitiator
    <3>2. local.free \in [AccessGroup -> SUBSET Initiator]
      BY LocalFields DEF TypeInv, TypeOK, ProcessTypeOK
    <3>3. PICK i \in local.free[g] :
            IF hostOf[i] = NoHost
              THEN Answers(reply) /\ Change(hostOf, [hostOf EXCEPT ![i] = h], reply)
              ELSE reply = "err" /\ UNCHANGED <<faults, hostOf>>
      BY <3>1
    <3>4. i \in Initiator
      BY <3>2, <3>3
    <3>5. QED BY <3>3, <3>4 DEF Change
  <2>2. HostsKept
    BY <2>1, TypeParts, ArrayNames DEF HostsKept
  <2>3. QED BY <1>2, <2>2 DEF AddInitiator
<1>3. QED BY <1>1, <1>2

LEMMA CreateHostGroupEffect ==
  ASSUME TypeInv, CreateHostGroup
  PROVE  MapEffect
<1>1. /\ pc \in AddMapStep /\ UNCHANGED <<lunGroup, view, hostOf>>
      /\ hostGroup[This] = Absent
      /\ hostGroup' = hostGroup \/ hostGroup' = [hostGroup EXCEPT ![This] = {}]
  BY DEF CreateHostGroup, AddMapStep, hostVars, Change
<1>2. PICK n \in Name : n = This
  BY <1>1, ThisName
<1>3. DOMAIN hostGroup = Name
  BY TypeParts, ArrayNames
<1>4. \A m \in Name : \A x : InHosts(m, x)' <=> InHosts(m, x)
  BY <1>1, <1>2, <1>3 DEF InHosts
<1>5. NothingLost /\ NothingAdded
  BY <1>1, <1>4 DEF NothingLost, NothingAdded, InLuns, JoinsHosts, JoinsLuns
<1>6. QED BY <1>1, <1>5, SeesLess DEF MapEffect, HostsKept

LEMMA FillHostsEffect ==
  ASSUME TypeInv, FillHosts
  PROVE  MapEffect
<1>1. /\ pc = "fillHosts" /\ pc \in WantStep /\ UNCHANGED <<lunGroup, view, hostOf>>
      /\ local.hosts \in Name /\ Owner(local.hosts) = local.object
      /\ hostGroup[local.hosts] # Absent
  BY DEF FillHosts, WantStep, AddMapStep, hostVars, TypeInv, HeldInv, AfterHosts, Held
<1>2. PICK n \in Name : n = local.hosts
  BY <1>1
<1>3. PICK h \in Wanted :
        \/ hostGroup' = hostGroup
        \/ hostGroup' = [hostGroup EXCEPT ![n] = hostGroup[n] \cup {h}]
  BY <1>2 DEF FillHosts, Change
<1>4. ArrayInv /\ DOMAIN hostGroup = Name /\ Wanted \in SUBSET AnyHost
  BY TypeParts, ArrayNames, Wants DEF ProcessTypeOK
<1>5. \A x : InHosts(n, x)' => InHosts(n, x) \/ x = h
  BY <1>1, <1>2, <1>3, <1>4 DEF InHosts
<1>6. \A m \in Name \ {n} : \A x : InHosts(m, x)' <=> InHosts(m, x)
  BY <1>3, <1>4 DEF InHosts
<1>7. \A x : InHosts(n, x) => InHosts(n, x)'
  <2>1. hostGroup[n] \cup {h} # Absent
    BY <1>1, <1>2, <1>4, AbsentFacts DEF ArrayInv, ArrayTypeOK
  <2>2. QED BY <1>3, <1>4, <2>1 DEF InHosts
<1>8. NothingLost
  BY <1>1, <1>6, <1>7 DEF NothingLost, InLuns, JoinsHosts, JoinsLuns
<1>9. ASSUME NEW o, NEW x, Sees(o, x)'
      PROVE  Sees(o, x) \/ (o = local.object /\ x \in Wanted)
  <2>1. PICK v, g, l \in Name :
          (JoinsHosts(v, g) /\ JoinsLuns(v, l) /\ InLuns(l, o) /\ InHosts(g, x))'
    BY <1>9 DEF Sees
  <2>2. JoinsHosts(v, g) /\ JoinsLuns(v, l) /\ InLuns(l, o)
    BY <1>1, <2>1 DEF JoinsHosts, JoinsLuns, InLuns
  <2>3. CASE InHosts(g, x)
    BY <2>2, <2>3 DEF Sees
  <2>4. CASE ~InHosts(g, x)
    <3>1. g = n /\ x = h
      BY <1>5, <1>6, <2>1, <2>4
    <3>2. Owner(g) = o
      BY <1>4, <2>2, SeesOwn
    <3>3. QED BY <1>1, <1>2, <3>1, <3>2
  <2>5. QED BY <2>3, <2>4
<1>10. QED BY <1>1, <1>8, <1>9 DEF MapEffect, HostsKept

LEMMA CreateLunGroupEffect ==
  ASSUME TypeInv, CreateLunGroup
  PROVE  MapEffect
<1>1. /\ pc \in AddMapStep /\ UNCHANGED <<hostGroup, view, hostOf>>
      /\ lunGroup[This] = Absent
      /\ lunGroup' = lunGroup \/ lunGroup' = [lunGroup EXCEPT ![This] = {}]
  BY DEF CreateLunGroup, AddMapStep, hostVars, Change
<1>2. PICK n \in Name : n = This
  BY <1>1, ThisName
<1>3. DOMAIN lunGroup = Name
  BY TypeParts, ArrayNames
<1>4. \A m \in Name : \A x : InLuns(m, x)' <=> InLuns(m, x)
  BY <1>1, <1>2, <1>3 DEF InLuns
<1>5. NothingLost /\ NothingAdded
  BY <1>1, <1>4 DEF NothingLost, NothingAdded, InHosts, JoinsHosts, JoinsLuns
<1>6. QED BY <1>1, <1>5, SeesLess DEF MapEffect, HostsKept

(* No view joins the new LUN group yet. *)
LEMMA FillLunsEffect ==
  ASSUME TypeInv, FillLuns
  PROVE  MapEffect
<1>1. /\ UNCHANGED <<hostGroup, view, hostOf>>
      /\ local.luns \in Name /\ lunGroup[local.luns] = {} /\ ~Joined(local.luns)
  BY DEF FillLuns, hostVars, TypeInv, HeldInv, Held
<1>2. PICK n \in Name : n = local.luns
  BY <1>1
<1>3. \/ lunGroup' = lunGroup
      \/ lunGroup' = [lunGroup EXCEPT ![n] = {local.object}]
  BY <1>2 DEF FillLuns, Change
<1>4. DOMAIN lunGroup = Name
  BY TypeParts, ArrayNames
<1>5. \A m \in Name \ {n} : \A x : InLuns(m, x)' <=> InLuns(m, x)
  BY <1>3, <1>4 DEF InLuns
<1>6. \A x : ~InLuns(n, x)
  BY <1>1, <1>2 DEF InLuns
<1>7. NothingLost
  BY <1>1, <1>5, <1>6 DEF NothingLost, InHosts, JoinsHosts, JoinsLuns
<1>8. \A v \in Name : ~JoinsLuns(v, n)
  BY <1>1, <1>2 DEF Joined, JoinsLuns
<1>9. \A o, h : Sees(o, h)' => Sees(o, h)
  BY <1>1, <1>5, <1>8 DEF Sees, InHosts, JoinsHosts, JoinsLuns
<1>10. QED BY <1>1, <1>7, <1>9 DEF MapEffect, HostsKept

LEMMA CreateViewEffect ==
  ASSUME TypeInv, CreateView
  PROVE  MapEffect
<1>1. PICK x : x = [hosts |-> {}, luns |-> {}]
  OBVIOUS
<1>2. /\ pc \in AddMapStep /\ UNCHANGED <<hostGroup, lunGroup, hostOf>>
      /\ view[This] = Absent
      /\ view' = view \/ view' = [view EXCEPT ![This] = x]
  BY <1>1 DEF CreateView, AddMapStep, hostVars, Change
<1>3. x.hosts = {} /\ x.luns = {}
  BY <1>1
<1>4. PICK n \in Name : n = This
  BY <1>2, ThisName
<1>5. DOMAIN view = Name
  BY TypeParts, ArrayNames
<1>6. \A m \in Name : \A y : /\ JoinsHosts(m, y)' <=> JoinsHosts(m, y)
                             /\ JoinsLuns(m, y)' <=> JoinsLuns(m, y)
  BY <1>2, <1>3, <1>4, <1>5 DEF JoinsHosts, JoinsLuns
<1>7. NothingLost /\ NothingAdded
  BY <1>2, <1>6 DEF NothingLost, NothingAdded, InHosts, InLuns
<1>8. QED BY <1>2, <1>7, SeesLess DEF MapEffect, HostsKept

(* The host group is joined while the view has no LUN group. *)
LEMMA JoinHostsEffect ==
  ASSUME TypeInv, JoinHosts
  PROVE  MapEffect
<1>1. pc = "joinHosts" /\ UNCHANGED <<hostGroup, lunGroup, hostOf>>
  BY DEF JoinHosts, hostVars
<1>2. PICK n \in Name : n = local.join
  BY <1>1, Joining DEF Held
<1>3. view[n].hosts = {} /\ view[n].luns = {} /\ view[n] # Absent
  <2>1. view[n] = [hosts |-> {}, luns |-> {}]
    BY <1>1, <1>2, Joining
  <2>2. [hosts |-> {}, luns |-> {}] \in ViewRecord
    BY DEF ViewRecord
  <2>3. QED BY <2>1, <2>2, AbsentFacts
<1>4. PICK x : x = [view[n] EXCEPT !.hosts = {local.hosts}]
  OBVIOUS
<1>5. view' = view \/ view' = [view EXCEPT ![n] = x]
  <2>1. [view EXCEPT ![n].hosts = {local.hosts}] = [view EXCEPT ![n] = x]
    BY <1>4
  <2>2. QED BY <1>2, <2>1 DEF JoinHosts, Change
<1>6. DOMAIN view = Name
  BY TypeParts, ArrayNames
<1>7. x.luns = {}
  <2>1. view[n] = [hosts |-> {}, luns |-> {}]
    BY <1>1, <1>2, Joining
  <2>2. QED BY <1>4, <2>1
<1>8. \A m \in Name \ {n} : view'[m] = view[m]
  BY <1>5, <1>6
<1>9. view'[n].luns = {}
  BY <1>3, <1>5, <1>6, <1>7
<1>10. NothingLost
  BY <1>1, <1>3, <1>8 DEF NothingLost, InHosts, InLuns, JoinsHosts, JoinsLuns
<1>11. \A l : ~JoinsLuns(n, l)'
  BY <1>9 DEF JoinsLuns
<1>12. ASSUME NEW o, NEW h, Sees(o, h)' PROVE Sees(o, h)
  <2>1. PICK v, g, l \in Name :
          (JoinsHosts(v, g) /\ JoinsLuns(v, l) /\ InLuns(l, o) /\ InHosts(g, h))'
    BY <1>12 DEF Sees
  <2>2. v # n
    BY <1>11, <2>1
  <2>3. JoinsHosts(v, g) /\ JoinsLuns(v, l) /\ InLuns(l, o) /\ InHosts(g, h)
    BY <1>1, <1>8, <2>1, <2>2 DEF JoinsHosts, JoinsLuns, InLuns, InHosts
  <2>4. QED BY <2>3 DEF Sees
<1>13. QED BY <1>1, <1>10, <1>12 DEF MapEffect, HostsKept

(* The view that is joined now shows the object to the wanted hosts. *)
LEMMA JoinLunsEffect ==
  ASSUME TypeInv, WantInv, JoinLuns
  PROVE  MapEffect
<1>1. /\ pc = "joinLuns" /\ UNCHANGED <<hostGroup, lunGroup, hostOf>>
      /\ pc \in WantStep /\ hostGroup[local.hosts] = Wanted
  BY DEF JoinLuns, hostVars, WantStep, AddMapStep, WantInv, AfterHostGroup, AfterHosts
<1>2. PICK n \in Name : n = local.join
  BY <1>1, Joining DEF Held
<1>3. /\ view[n].hosts = {local.hosts} /\ view[n].luns = {}
      /\ lunGroup[local.luns] = {local.object}
  BY <1>1, <1>2, Joining
<1>4. PICK x \in ViewRecord :
        /\ x.hosts = {local.hosts} /\ x.luns = {local.luns}
        /\ view' = view \/ view' = [view EXCEPT ![n] = x]
  BY <1>2, JoinLunsView
<1>5. DOMAIN view = Name
  BY TypeParts, ArrayNames
<1>6. \A m \in Name \ {n} : view'[m] = view[m]
  BY <1>4, <1>5
<1>7. \/ view'[n] = view[n]
      \/ /\ view'[n].hosts = {local.hosts} /\ view'[n].luns = {local.luns}
         /\ view'[n] # Absent
  BY <1>4, <1>5, AbsentFacts
<1>8. NothingLost
  BY <1>1, <1>3, <1>6, <1>7 DEF NothingLost, InHosts, InLuns, JoinsHosts, JoinsLuns
<1>9. ASSUME NEW o, NEW h, Sees(o, h)'
      PROVE  Sees(o, h) \/ (o = local.object /\ h \in Wanted)
  <2>1. PICK v, g, l \in Name :
          (JoinsHosts(v, g) /\ JoinsLuns(v, l) /\ InLuns(l, o) /\ InHosts(g, h))'
    BY <1>9 DEF Sees
  <2>2. CASE view'[v] = view[v]
    <3>1. JoinsHosts(v, g) /\ JoinsLuns(v, l) /\ InLuns(l, o) /\ InHosts(g, h)
      BY <1>1, <2>1, <2>2 DEF JoinsHosts, JoinsLuns, InLuns, InHosts
    <3>2. QED BY <3>1 DEF Sees
  <2>3. CASE view'[v] # view[v]
    <3>1. v = n
      BY <1>6, <2>3
    <3>2. g = local.hosts /\ l = local.luns
      BY <1>7, <2>1, <2>3, <3>1 DEF JoinsHosts, JoinsLuns
    <3>3. QED BY <1>1, <1>3, <2>1, <3>2 DEF InLuns, InHosts
  <2>4. QED BY <2>2, <2>3
<1>10. QED BY <1>1, <1>8, <1>9 DEF MapEffect, HostsKept

LEMMA AddMapEffect ==
  ASSUME TypeInv, WantInv, AddMapNext
  PROVE  MapEffect
<1> USE DEF arrayVars, hostVars, groupVars, NextSuffix
<1>1. CASE MakeHost \/ AddInitiator
  BY <1>1, HostsEffect, SameSees, SeesLess DEF MapEffect
<1>2. CASE Select \/ Query \/ HostsKnown \/ ShowFails
  BY <1>2, QuietMap DEF Select, Query, HostsKnown, ShowFails
<1>3. CASE UseHostGroup \/ SkipHostGroup \/ UseLunGroup \/ SkipLunGroup
  BY <1>3, QuietMap DEF UseHostGroup, SkipHostGroup, UseLunGroup, SkipLunGroup
<1>4. CASE UseView \/ NoView \/ SkipView
  BY <1>4, QuietMap DEF UseView, NoView, SkipView
<1>5. QED
  BY <1>1, <1>2, <1>3, <1>4, CreateHostGroupEffect, FillHostsEffect,
     CreateLunGroupEffect, FillLunsEffect, CreateViewEffect, JoinHostsEffect,
     JoinLunsEffect
  DEF AddMapNext

(* In this state as in the next. *)
SeenAsSees == \A o, h : h \in SeenBy(o) <=> Sees(o, h)

LEMMA SeenNow == ArrayInv => SeenAsSees
BY SeenSees DEF SeenAsSees
LEMMA SeenNext == ArrayInv' => SeenAsSees'
BY SeenNow, PTL

(* Nothing lost, whoever reached an object still does. *)
LEMMA ReachesStays ==
  ASSUME ArrayInv, ArrayInv', HostsKept, NEW g \in AccessGroup, NEW o, Reaches(o, g),
         \A h : Sees(o, h) => Sees(o, h)'
  PROVE  Reaches(o, g)' /\ HostsOf(g)' \cap SeenBy(o)' # {}
<1>1. PICK h \in HostsOf(g) : h \in SeenBy(o)
  BY DEF Reaches
<1>2. h \in HostsOf(g)'
  BY <1>1, HostsGrow
<1>3. h \in SeenBy(o)'
  BY <1>1, SeenNow, SeenNext DEF SeenAsSees
<1>4. QED BY <1>2, <1>3 DEF Reaches

LEMMA GroupsKnown ==
  ASSUME NEW d \in Lun
  PROVE  GroupsOf[d] \in SUBSET AccessGroup
BY MappingAssumption

----------------------------------------------------------------------------
(* WantInv: _add_map knows whom to map to. *)

(* Each group of the device is known by its hosts or has the object.       *)
OnlyOwn ==
  /\ \A g \in AccessGroup : /\ local.want[g] \subseteq HostsOf(g)
                            /\ local.free[g] \subseteq InitiatorsOf[g]
  /\ \A g \in AccessGroup \ GroupsOf[cur] : local.want[g] = {} /\ local.free[g] = {}
NoneMissing ==
  \A g \in GroupsOf[cur] : Known(g) \/ (pc # "query" /\ Reaches(local.object, g))
NoneFree == \A g \in AccessGroup : local.free[g] = {}
Filled == /\ pc = "fillHosts" => hostGroup[local.hosts] \subseteq Wanted
          /\ pc \in AfterHostGroup => hostGroup[local.hosts] = Wanted

LEMMA WantParts ==
  WantInv <=> (pc \in WantStep =>
                 /\ OnlyOwn /\ NoneMissing /\ Filled
                 /\ pc \notin {"query", "hosts"} => NoneFree)
BY DEF WantInv, WantStep, OnlyOwn, NoneMissing, NoneFree, Filled

(* A step that keeps what is wanted. *)
LEMMA WantStays ==
  ASSUME TypeInv, TypeInv', MapEffect, pc \in WantStep, OnlyOwn, NoneMissing,
         pc # "query", pc' # "query", local'.want = local.want, local'.free = local.free,
         local'.object = local.object, cur' = cur,
         pc' \notin {"query", "hosts"} => NoneFree, Filled'
  PROVE  WantInv'
<1>1. ArrayInv /\ ArrayInv' /\ cur \in Lun /\ HostsKept /\ pc \in AddMapStep
  BY TypeParts, InAddMap DEF MapEffect, WantStep, TypeInv, TypeOK, ArrayInv
<1>2. \A o, h : Sees(o, h) => Sees(o, h)'
  BY SeesMore DEF MapEffect
<1>3. OnlyOwn'
  BY <1>1, HostsGrow DEF OnlyOwn
<1>4. NoneMissing'
  <2>1. SUFFICES ASSUME NEW g \in GroupsOf[cur]
                 PROVE  Known(g)' \/ Reaches(local.object, g)'
    BY DEF NoneMissing
  <2>2. g \in AccessGroup
    BY <1>1, GroupsKnown
  <2>3. CASE Known(g)
    BY <2>3 DEF Known
  <2>4. CASE Reaches(local.object, g)
    <3>1. Reaches(local.object, g)'
      BY <1>1, <1>2, <2>2, <2>4, ReachesStays DEF Reaches
    <3>2. QED BY <3>1
  <2>5. QED BY <2>3, <2>4 DEF NoneMissing
<1>5. QED BY <1>3, <1>4 DEF WantInv, OnlyOwn, NoneMissing, NoneFree, Filled, WantStep

LEMMA SelectWants ==
  ASSUME TypeInv, Select
  PROVE  WantInv'
<1>1. /\ pc \in AddMapStep /\ UNCHANGED hostOf /\ UNCHANGED cur
  BY DEF Select, AddMapStep, arrayVars, hostVars, Continue, GiveUp
<1>2. /\ local \in LocalRecord /\ cur \in Lun
      /\ hostOf \in [Initiator -> AnyHost \cup {NoHost}]
  BY <1>1, InAddMap DEF ArrayInv, ArrayTypeOK
<1>3. CASE GiveUp
  BY <1>3 DEF GiveUp, Continue, WantInv
<1>4. CASE ~GiveUp
  <2>1. PICK valid \in SUBSET Initiator :
          LET of(g) == IF g \in Groups THEN valid \cap InitiatorsOf[g] ELSE {}
          IN /\ \A g \in Groups : of(g) # {}
             /\ local' = [local EXCEPT
                  !.want = [g \in AccessGroup |-> HostsAmong(of(g))],
                  !.free = [g \in AccessGroup |->
                              {i \in of(g) : hostOf[i] = NoHost}]]
             /\ Continue("query")
    BY <1>4 DEF Select
  <2>2. PICK of : of = [g \in AccessGroup |->
                          IF g \in Groups THEN valid \cap InitiatorsOf[g] ELSE {}]
    OBVIOUS
  <2>3. Groups \in SUBSET AccessGroup /\ Groups = GroupsOf[cur]
    BY <1>2, GroupsKnown DEF Groups
  <2>4. /\ \A g \in AccessGroup : /\ of[g] \subseteq InitiatorsOf[g]
                                  /\ of[g] \subseteq Initiator
                                  /\ g \notin Groups => of[g] = {}
                                  /\ g \in Groups => of[g] # {}
    BY <2>1, <2>2, <2>3
  <2>5. PICK w : w = [g \in AccessGroup |-> HostsAmong(of[g])]
    OBVIOUS
  <2>6. PICK f : f = [g \in AccessGroup |-> {i \in of[g] : hostOf[i] = NoHost}]
    OBVIOUS
  <2>7. /\ w = [g \in AccessGroup |-> HostsAmong(
                   IF g \in Groups THEN valid \cap InitiatorsOf[g] ELSE {})]
        /\ f = [g \in AccessGroup |->
                  {i \in IF g \in Groups THEN valid \cap InitiatorsOf[g] ELSE {} :
                     hostOf[i] = NoHost}]
    BY <2>2, <2>5, <2>6
  <2>8. local' = [local EXCEPT !.want = w, !.free = f] /\ Continue("query")
    BY <2>1, <2>7
  <2>9. local'.want = w /\ local'.free = f
    BY <1>2, <2>8 DEF LocalRecord
  <2>10. ASSUME NEW g \in AccessGroup
         PROVE  /\ w[g] \subseteq HostsOf(g)' /\ f[g] \subseteq InitiatorsOf[g]
                /\ g \notin Groups => w[g] = {} /\ f[g] = {}
                /\ g \in Groups => w[g] # {} \/ f[g] # {}
    <3>1. /\ w[g] = {hostOf[i] : i \in of[g]} \ {NoHost}
          /\ f[g] = {i \in of[g] : hostOf[i] = NoHost}
      BY <2>5, <2>6 DEF HostsAmong
    <3>2. w[g] \subseteq HostsOf(g)'
      BY <1>1, <2>4, <3>1 DEF HostsOf
    <3>3. g \in Groups => w[g] # {} \/ f[g] # {}
      <4>1. SUFFICES ASSUME g \in Groups PROVE w[g] # {} \/ f[g] # {}
        OBVIOUS
      <4>2. PICK i \in of[g] : TRUE
        BY <2>4, <4>1
      <4>3. hostOf[i] = NoHost => i \in f[g]
        BY <3>1, <4>2
      <4>4. hostOf[i] # NoHost => hostOf[i] \in w[g]
        BY <3>1, <4>2
      <4>5. QED BY <4>3, <4>4
    <3>4. QED BY <2>4, <3>1, <3>2, <3>3
  <2>11. pc' = "query" /\ cur' = cur
    BY <2>8 DEF Continue
  <2>12. OnlyOwn'
    BY <2>3, <2>9, <2>10, <2>11 DEF OnlyOwn
  <2>13. \A g \in GroupsOf[cur] : Known(g)'
    BY <2>3, <2>9, <2>10 DEF Known
  <2>14. QED
    BY <2>11, <2>12, <2>13 DEF WantInv, OnlyOwn, AfterHostGroup, AfterHosts
<1>5. QED BY <1>3, <1>4

(* A group is left alone only if one of its hosts was shown. *)
LEMMA QueryWants ==
  ASSUME TypeInv, WantInv, Query
  PROVE  WantInv'
<1>1. /\ pc = "query" /\ pc \in WantStep /\ pc \in AddMapStep /\ UNCHANGED arrayVars
      /\ UNCHANGED cur /\ UNCHANGED <<hostOf, hostGroup, lunGroup, view>>
  BY DEF Query, WantStep, AddMapStep, arrayVars, hostVars, groupVars, Continue, GiveUp
<1>2. /\ local \in LocalRecord /\ cur \in Lun /\ ArrayInv
      /\ OnlyOwn /\ NoneMissing
  BY <1>1, InAddMap, WantParts
<1>3. CASE GiveUp
  BY <1>3 DEF GiveUp, Continue, WantInv
<1>4. CASE ~GiveUp
  <2>1. PICK shown \in SUBSET ViewsOf(local.object) :
          LET seen == HostsThrough(shown)
              left(f) == [g \in AccessGroup |-> IF Served(g, seen) THEN {} ELSE f[g]]
          IN /\ local' = [local EXCEPT !.want = left(@), !.free = left(@)]
             /\ Continue("hosts")
    BY <1>4 DEF Query
  <2>2. PICK seen : seen = HostsThrough(shown)
    OBVIOUS
  <2>3. PICK w : w = [g \in AccessGroup |-> IF Served(g, seen) THEN {} ELSE local.want[g]]
    OBVIOUS
  <2>4. PICK f : f = [g \in AccessGroup |-> IF Served(g, seen) THEN {} ELSE local.free[g]]
    OBVIOUS
  <2>5. local' = [local EXCEPT !.want = w, !.free = f] /\ Continue("hosts")
    BY <1>2, <2>1, <2>2, <2>3, <2>4 DEF LocalRecord
  <2>6. local'.want = w /\ local'.free = f /\ local'.object = local.object
    BY <1>2, <2>5 DEF LocalRecord
  <2>7. seen \subseteq SeenBy(local.object)
    BY <2>2 DEF SeenBy, HostsThrough
  <2>8. pc' = "hosts" /\ cur' = cur
    BY <2>5 DEF Continue
  <2>9. OnlyOwn'
    BY <1>1, <1>2, <2>3, <2>4, <2>6, <2>8 DEF OnlyOwn, HostsOf
  <2>10. ASSUME NEW g \in GroupsOf[cur]
         PROVE  Known(g)' \/ Reaches(local.object, g)'
    <3>1. g \in AccessGroup /\ Known(g)
      BY <1>1, <1>2, GroupsKnown DEF NoneMissing
    <3>2. CASE Served(g, seen)
      <4>1. PICK h \in local.want[g] : h \in seen
        BY <3>2 DEF Served
      <4>2. h \in HostsOf(g) /\ h \in SeenBy(local.object)
        BY <1>2, <2>7, <3>1, <4>1 DEF OnlyOwn
      <4>3. HostsOf(g)' = HostsOf(g) /\ SeenBy(local.object)' = SeenBy(local.object)
        BY <1>1, <2>6 DEF HostsOf, SeenBy, HostsThrough, ViewsOf
      <4>4. QED BY <4>2, <4>3 DEF Reaches
    <3>3. CASE ~Served(g, seen)
      BY <2>3, <2>4, <2>6, <3>1, <3>3 DEF Known
    <3>4. QED BY <3>2, <3>3
  <2>11. NoneMissing'
    BY <2>8, <2>10 DEF NoneMissing
  <2>12. QED
    BY <2>8, <2>9, <2>11 DEF WantInv, OnlyOwn, NoneMissing, AfterHostGroup, AfterHosts
<1>5. QED BY <1>3, <1>4

LEMMA MakeHostWants ==
  ASSUME TypeInv, TypeInv', WantInv, MapEffect, MakeHost
  PROVE  WantInv'
<1>1. /\ pc = "hosts" /\ pc \in WantStep /\ UNCHANGED cur
      /\ GiveUp \/ (Continue("hosts") /\ UNCHANGED local)
  BY DEF MakeHost, WantStep, AddMapStep, Continue, GiveUp
<1>2. CASE GiveUp
  BY <1>2 DEF GiveUp, Continue, WantInv
<1>3. CASE Continue("hosts") /\ UNCHANGED local
  <2>1. pc' = "hosts" /\ local' = local
    BY <1>3 DEF Continue
  <2>2. Filled'
    BY <2>1 DEF Filled, AfterHostGroup, AfterHosts
  <2>3. QED BY <1>1, <2>1, <2>2, WantParts, WantStays
<1>4. QED BY <1>1, <1>2, <1>3

(* The initiator that is added makes its host one of the group's. *)
LEMMA AddInitiatorWants ==
  ASSUME TypeInv, TypeInv', WantInv, MapEffect, AddInitiator
  PROVE  WantInv'
<1>1. /\ pc = "hosts" /\ pc \in WantStep /\ pc \in AddMapStep /\ UNCHANGED cur
  BY DEF AddInitiator, WantStep, AddMapStep, Continue, GiveUp
<1>2. /\ local \in LocalRecord /\ cur \in Lun /\ ArrayInv /\ ArrayInv'
      /\ OnlyOwn /\ NoneMissing /\ HostsKept
      /\ \A o, h : Sees(o, h) => Sees(o, h)'
  BY <1>1, InAddMap, WantParts, SeesMore DEF MapEffect, TypeInv, TypeOK, ArrayInv
<1>3. CASE GiveUp
  BY <1>3 DEF GiveUp, Continue, WantInv
<1>4. CASE ~GiveUp
  <2>1. PICK g \in AccessGroup, h \in AnyHost, reply \in Reply : \E i \in local.free[g] :
          /\ IF hostOf[i] = NoHost
               THEN Answers(reply) /\ Change(hostOf, [hostOf EXCEPT ![i] = h], reply)
               ELSE reply = "err" /\ UNCHANGED <<faults, hostOf>>
          /\ IF reply = "err" THEN GiveUp
             ELSE LET rest == local.free[g] \ {i}
                  IN /\ local' = [local EXCEPT
                           !.free[g] = rest,
                           !.want[g] = IF rest = {} THEN @ \cup {h} ELSE @]
                     /\ Continue("hosts")
    BY ZenonT(30) DEF AddInitiator
  <2>2. PICK i \in local.free[g] :
          /\ IF hostOf[i] = NoHost
               THEN Answers(reply) /\ Change(hostOf, [hostOf EXCEPT ![i] = h], reply)
               ELSE reply = "err" /\ UNCHANGED <<faults, hostOf>>
          /\ IF reply = "err" THEN GiveUp
             ELSE LET rest == local.free[g] \ {i}
                  IN /\ local' = [local EXCEPT
                           !.free[g] = rest,
                           !.want[g] = IF rest = {} THEN @ \cup {h} ELSE @]
                     /\ Continue("hosts")
    BY <2>1
  <2>3. PICK w : w = [local.want EXCEPT ![g] = IF local.free[g] \ {i} = {}
                                               THEN local.want[g] \cup {h}
                                               ELSE local.want[g]]
    OBVIOUS
  <2>4. PICK f : f = [local.free EXCEPT ![g] = local.free[g] \ {i}]
    OBVIOUS
  <2>5. local' = [local EXCEPT !.want = w, !.free = f] /\ Continue("hosts")
    BY <1>2, <1>4, <2>2, <2>3, <2>4 DEF LocalRecord
  <2>6. local'.want = w /\ local'.free = f /\ local'.object = local.object
    BY <1>2, <2>5 DEF LocalRecord
  <2>7. /\ local.want \in [AccessGroup -> SUBSET AnyHost]
        /\ local.free \in [AccessGroup -> SUBSET Initiator]
    BY <1>2, LocalFields
  <2>8. /\ \A e \in AccessGroup \ {g} : w[e] = local.want[e] /\ f[e] = local.free[e]
        /\ w[g] = IF local.free[g] \ {i} = {} THEN local.want[g] \cup {h}
                                              ELSE local.want[g]
        /\ f[g] = local.free[g] \ {i}
    BY <2>3, <2>4, <2>7
  <2>9. h \in HostsOf(g)'
    <3>1. hostOf' = [hostOf EXCEPT ![i] = h] /\ i \in Initiator
      BY <1>4, <2>2, <2>7 DEF Change
    <3>2. hostOf'[i] = h
      BY <1>2, <3>1, ArrayNames
    <3>3. i \in InitiatorsOf[g] /\ h # NoHost
      BY <1>2, <2>2, HostFacts DEF OnlyOwn
    <3>4. QED BY <3>2, <3>3 DEF HostsOf
  <2>10. g \in GroupsOf[cur]
    BY <1>2, <2>2 DEF OnlyOwn
  <2>11. pc' = "hosts" /\ cur' = cur
    BY <2>5 DEF Continue
  <2>12. OnlyOwn'
    <3>1. ASSUME NEW e \in AccessGroup
          PROVE  w[e] \subseteq HostsOf(e)' /\ f[e] \subseteq InitiatorsOf[e]
      <4>1. HostsOf(e) \subseteq HostsOf(e)'
        BY <1>2, HostsGrow
      <4>2. local.want[e] \subseteq HostsOf(e) /\ local.free[e] \subseteq InitiatorsOf[e]
        BY <1>2 DEF OnlyOwn
      <4>3. CASE e = g
        BY <2>8, <2>9, <4>1, <4>2, <4>3
      <4>4. CASE e # g
        BY <2>8, <4>1, <4>2, <4>4
      <4>5. QED BY <4>3, <4>4
    <3>2. \A e \in AccessGroup \ GroupsOf[cur] : w[e] = {} /\ f[e] = {}
      BY <1>2, <2>8, <2>10 DEF OnlyOwn
    <3>3. QED BY <2>6, <2>11, <3>1, <3>2 DEF OnlyOwn
  <2>13. NoneMissing'
    <3>1. SUFFICES ASSUME NEW e \in GroupsOf[cur]
                   PROVE  Known(e)' \/ Reaches(local.object, e)'
      BY <2>11 DEF NoneMissing
    <3>2. e \in AccessGroup /\ (Known(e) \/ Reaches(local.object, e))
      BY <1>2, GroupsKnown DEF NoneMissing
    <3>3. CASE e = g
      BY <2>6, <2>8, <3>3 DEF Known
    <3>4. CASE e # g /\ Known(e)
      BY <2>6, <2>8, <3>2, <3>4 DEF Known
    <3>5. CASE Reaches(local.object, e)
      <4>1. PICK o : o = local.object
        OBVIOUS
      <4>2. Reaches(o, e)' /\ HostsOf(e)' \cap SeenBy(o)' # {}
        BY <1>2, <3>2, <3>5, <4>1, ReachesStays
      <4>3. QED BY <2>6, <4>1, <4>2 DEF Reaches
    <3>6. QED BY <3>2, <3>3, <3>4, <3>5
  <2>14. QED
    BY <2>11, <2>12, <2>13 DEF WantInv, OnlyOwn, NoneMissing, AfterHostGroup, AfterHosts
<1>5. QED BY <1>3, <1>4

LEMMA GoneUp == GiveUp \/ Continue("mapped") => WantInv'
BY DEF GiveUp, Continue, WantInv

(* Once the host group is filled it is not touched. *)
LEMMA WantKeeps ==
  ASSUME TypeInv, TypeInv', WantInv, MapEffect, pc \in AfterHostGroup,
         pc' \in AfterHostGroup, local'.want = local.want, local'.free = local.free,
         local'.object = local.object, local'.hosts = local.hosts, cur' = cur,
         hostGroup' = hostGroup
  PROVE  WantInv'
<1>1. pc \in WantStep /\ pc \notin {"query", "hosts"} /\ pc' \notin {"query", "fillHosts"}
  BY DEF AfterHostGroup, AfterHosts, WantStep, AddMapStep
<1>2. OnlyOwn /\ NoneMissing /\ NoneFree /\ Filled
  BY <1>1, WantParts
<1>3. Filled'
  BY <1>1, <1>2 DEF Filled, Wanted
<1>4. QED BY <1>1, <1>2, <1>3, WantStays

LEMMA HostsKnownWants ==
  ASSUME TypeInv, TypeInv', WantInv, MapEffect, HostsKnown
  PROVE  WantInv'
<1>1. /\ pc = "hosts" /\ pc \in WantStep /\ NoneFree /\ UNCHANGED local
      /\ Continue("mapped") \/ Continue("hostGroup")
  BY DEF HostsKnown, WantStep, AddMapStep, NoneFree
<1>2. CASE Continue("mapped")
  BY <1>2, GoneUp
<1>3. CASE Continue("hostGroup")
  <2>1. pc' = "hostGroup" /\ cur' = cur
    BY <1>3 DEF Continue
  <2>2. Filled'
    BY <2>1 DEF Filled, AfterHostGroup, AfterHosts
  <2>3. QED BY <1>1, <2>1, <2>2, WantParts, WantStays
<1>4. QED BY <1>1, <1>2, <1>3

LEMMA NextSuffixWants ==
  ASSUME TypeInv, TypeInv', WantInv, MapEffect,
         pc \in {"hostGroup", "lunGroup", "newView"}, NextSuffix
  PROVE  WantInv'
<1>1. /\ pc' = pc /\ cur' = cur /\ hostGroup' = hostGroup
      /\ \E k : local' = [local EXCEPT !.n = k]
  BY DEF NextSuffix, Continue, arrayVars, groupVars
<1>2. /\ local'.want = local.want /\ local'.free = local.free
      /\ local'.object = local.object /\ local'.hosts = local.hosts
  BY <1>1 DEF TypeInv, TypeOK, ProcessTypeOK, LocalRecord
<1>3. CASE pc = "hostGroup"
  <2>1. pc \in WantStep /\ OnlyOwn /\ NoneMissing /\ NoneFree
    BY <1>3, WantParts DEF WantStep, AddMapStep
  <2>2. Filled'
    BY <1>1, <1>3 DEF Filled, AfterHostGroup, AfterHosts
  <2>3. QED BY <1>1, <1>2, <1>3, <2>1, <2>2, WantStays
<1>4. CASE pc # "hostGroup"
  BY <1>1, <1>2, <1>4, WantKeeps DEF AfterHostGroup, AfterHosts
<1>5. QED BY <1>3, <1>4

LEMMA UseHostGroupWants ==
  ASSUME TypeInv, TypeInv', WantInv, MapEffect, UseHostGroup
  PROVE  WantInv'
<1>1. /\ pc = "hostGroup" /\ pc' = "lunGroup" /\ cur' = cur /\ hostGroup' = hostGroup
      /\ hostGroup[This] = Wanted /\ pc \in AddMapStep
      /\ local' = [local EXCEPT !.hosts = This, !.n = 1]
  BY DEF UseHostGroup, FitsHosts, Continue, arrayVars, groupVars, AddMapStep
<1>2. PICK name \in Name : name = This
  BY <1>1, ThisName
<1>3. /\ local'.want = local.want /\ local'.free = local.free
      /\ local'.object = local.object /\ local'.hosts = name
  BY <1>1, <1>2 DEF TypeInv, TypeOK, ProcessTypeOK, LocalRecord
<1>4. pc \in WantStep /\ OnlyOwn /\ NoneMissing /\ NoneFree
  BY <1>1, WantParts DEF WantStep, AddMapStep
<1>5. Filled'
  BY <1>1, <1>2, <1>3 DEF Filled, Wanted
<1>6. QED BY <1>1, <1>3, <1>4, <1>5, WantStays

LEMMA CreateHostGroupWants ==
  ASSUME TypeInv, TypeInv', WantInv, MapEffect, CreateHostGroup
  PROVE  WantInv'
<1>1. PICK reply \in Reply :
        /\ pc = "hostGroup"
        /\ Change(hostGroup, [hostGroup EXCEPT ![This] = {}], reply)
        /\ IF reply = "ok" THEN /\ local' = [local EXCEPT !.hosts = This, !.n = 1]
                                /\ Continue("fillHosts")
                           ELSE GiveUp
  BY DEF CreateHostGroup
<1>2. CASE GiveUp
  BY <1>2, GoneUp
<1>3. CASE ~GiveUp
  <2>1. PICK name \in Name : name = This
    BY <1>1, ThisName DEF AddMapStep
  <2>2. /\ local' = [local EXCEPT !.hosts = name, !.n = 1] /\ pc' = "fillHosts"
        /\ cur' = cur /\ hostGroup' = [hostGroup EXCEPT ![name] = {}]
    BY <1>1, <1>3, <2>1 DEF Continue, Change
  <2>3. /\ local'.want = local.want /\ local'.free = local.free
        /\ local'.object = local.object /\ local'.hosts = name
    BY <2>2 DEF TypeInv, TypeOK, ProcessTypeOK, LocalRecord
  <2>4. hostGroup'[name] = {}
    BY <2>2, TypeParts, ArrayNames
  <2>5. Filled'
    BY <2>2, <2>3, <2>4 DEF Filled, AfterHostGroup, AfterHosts
  <2>6. pc \in WantStep /\ OnlyOwn /\ NoneMissing /\ NoneFree
    BY <1>1, WantParts DEF WantStep, AddMapStep
  <2>7. QED BY <1>1, <2>2, <2>3, <2>5, <2>6, WantStays
<1>4. QED BY <1>2, <1>3

LEMMA FillHostsWants ==
  ASSUME TypeInv, TypeInv', WantInv, MapEffect, FillHosts
  PROVE  WantInv'
<1>1. pc = "fillHosts" /\ pc \in WantStep
  BY DEF FillHosts, WantStep, AddMapStep
<1>2. PICK name \in Name : name = local.hosts
  BY <1>1 DEF TypeInv, HeldInv, Held, AfterHosts
<1>3. PICK h \in Wanted, reply \in Reply :
        LET after == hostGroup[name] \cup {h}
        IN /\ Change(hostGroup, [hostGroup EXCEPT ![name] = after], reply)
           /\ IF reply = "ok"
                THEN /\ Continue(IF after = Wanted THEN "lunGroup" ELSE "fillHosts")
                     /\ UNCHANGED local
                ELSE GiveUp
  BY <1>2 DEF FillHosts
<1>4. CASE GiveUp
  BY <1>4, GoneUp
<1>5. CASE ~GiveUp
  <2>1. OnlyOwn /\ NoneMissing /\ NoneFree /\ hostGroup[name] \subseteq Wanted
    BY <1>1, <1>2, WantParts DEF Filled
  <2>2. PICK after : after = hostGroup[name] \cup {h}
    OBVIOUS
  <2>3. /\ hostGroup' = [hostGroup EXCEPT ![name] = after] /\ local' = local /\ cur' = cur
        /\ pc' = IF after = Wanted THEN "lunGroup" ELSE "fillHosts"
    BY <1>3, <1>5, <2>2 DEF Change, Continue
  <2>4. hostGroup'[name] = after /\ after \subseteq Wanted
    BY <2>1, <2>2, <2>3, TypeParts, ArrayNames
  <2>5. Wanted' = Wanted
    BY <2>3 DEF Wanted
  <2>6. Filled'
    BY <1>2, <2>3, <2>4, <2>5 DEF Filled, AfterHostGroup, AfterHosts
  <2>7. pc' # "query"
    BY <2>3
  <2>8. QED BY <1>1, <2>1, <2>3, <2>6, <2>7, WantStays
<1>6. QED BY <1>4, <1>5

LEMMA LunGroupWants ==
  ASSUME TypeInv, TypeInv', WantInv, MapEffect,
         UseLunGroup \/ CreateLunGroup \/ FillLuns
  PROVE  WantInv'
<1>1. pc \in {"lunGroup", "fillLuns"} /\ pc \in AddMapStep /\ hostGroup' = hostGroup
  BY DEF UseLunGroup, CreateLunGroup, FillLuns, arrayVars, groupVars, AddMapStep
<1>2. CASE GiveUp
  BY <1>2, GoneUp
<1>3. CASE ~GiveUp
  <2>1. PICK name \in Name : name = This
    BY <1>1, ThisName
  <2>2. /\ pc' \in {"fillLuns", "view"} /\ cur' = cur
        /\ \/ local' = local
           \/ local' = [local EXCEPT !.luns = name, !.n = 1]
    BY <1>3, <2>1 DEF UseLunGroup, CreateLunGroup, FillLuns, Continue
  <2>3. /\ local'.want = local.want /\ local'.free = local.free
        /\ local'.object = local.object /\ local'.hosts = local.hosts
    BY <2>2 DEF TypeInv, TypeOK, ProcessTypeOK, LocalRecord
  <2>4. QED BY <1>1, <2>2, <2>3, WantKeeps DEF AfterHostGroup, AfterHosts
<1>4. QED BY <1>2, <1>3

LEMMA ViewWants ==
  ASSUME TypeInv, TypeInv', WantInv, MapEffect,
         UseView \/ NoView \/ CreateView \/ JoinHosts \/ JoinLuns
  PROVE  WantInv'
<1>1. /\ pc \in {"view", "newView", "joinHosts", "joinLuns"} /\ pc \in AddMapStep
      /\ hostGroup' = hostGroup
  BY DEF UseView, NoView, CreateView, JoinHosts, JoinLuns, arrayVars, groupVars, AddMapStep
<1>2. CASE GiveUp \/ Continue("mapped")
  BY <1>2, GoneUp
<1>3. CASE ~GiveUp /\ ~Continue("mapped")
  <2>1. PICK name \in Name : name = This
    BY <1>1, ThisName
  <2>2. /\ pc' \in {"newView", "joinHosts", "joinLuns"} /\ cur' = cur
        /\ \/ local' = local
           \/ local' = [local EXCEPT !.join = name, !.n = 1]
    BY <1>3, <2>1 DEF UseView, NoView, CreateView, JoinHosts, JoinLuns, Continue
  <2>3. /\ local'.want = local.want /\ local'.free = local.free
        /\ local'.object = local.object /\ local'.hosts = local.hosts
    BY <2>2 DEF TypeInv, TypeOK, ProcessTypeOK, LocalRecord
  <2>4. QED BY <1>1, <2>2, <2>3, WantKeeps DEF AfterHostGroup, AfterHosts
<1>4. QED BY <1>2, <1>3

LEMMA AddMapWants ==
  ASSUME TypeInv, WantInv, AddMapNext
  PROVE  WantInv'
<1>1. TypeInv' /\ MapEffect
  BY AddMapType, AddMapEffect
<1>2. CASE ShowFails
  BY <1>2, GoneUp DEF ShowFails
<1>3. CASE SkipHostGroup \/ SkipLunGroup \/ SkipView
  BY <1>1, <1>3, NextSuffixWants DEF SkipHostGroup, SkipLunGroup, SkipView
<1>4. QED
  BY <1>1, <1>2, <1>3, SelectWants, QueryWants, MakeHostWants, AddInitiatorWants,
     HostsKnownWants, UseHostGroupWants, CreateHostGroupWants, FillHostsWants,
     LunGroupWants, ViewWants
  DEF AddMapNext

----------------------------------------------------------------------------
(* What a step does to the rest of the world. *)

(* A stop is about one snapshot. *)
Undoing(o) == cmd = "stop" /\ pc \in RowSteps /\ o = local.object

SnapshotsKept ==
  \A s \in SnapId : snapOf[s] # Absent /\ ~Undoing(s) =>
    snapOf'[s] = snapOf[s] /\ (s \in active => s \in active')

Orderly ==
  /\ HostsKept /\ SnapshotsKept
  /\ \A o : ~Undoing(o) => \A h : Sees(o, h) => Sees(o, h)'
  /\ \A o, h : Sees(o, h)' =>
       Sees(o, h) \/ (o = local.object /\ h \in Wanted /\ pc \in WantStep)
  /\ \A s \in SnapId : snapOf'[s] # Absent => snapOf[s] \in {snapOf'[s], Absent}

LEMMA QuietStep ==
  ASSUME UNCHANGED <<hostOf, groupVars, snapVars>>
  PROVE  Orderly
<1>1. NothingLost /\ NothingAdded
  BY SameSees
<1>2. QED
  BY <1>1, SeesLess, SeesMore DEF Orderly, HostsKept, SnapshotsKept, snapVars

LEMMA SnapshotStep ==
  ASSUME UNCHANGED <<hostOf, groupVars>>, SnapshotsKept,
         \A s \in SnapId : snapOf'[s] # Absent => snapOf[s] \in {snapOf'[s], Absent}
  PROVE  Orderly
<1>1. NothingLost /\ NothingAdded
  BY SameSees
<1>2. QED BY <1>1, SeesLess, SeesMore DEF Orderly, HostsKept

LEMMA AddMapOrderly ==
  ASSUME TypeInv, WantInv, AddMapNext
  PROVE  Orderly
<1>1. MapEffect /\ UNCHANGED <<snapOf, active>>
  BY AddMapEffect, AddMapFrame
<1>2. QED BY <1>1, SeesMore DEF MapEffect, Orderly, SnapshotsKept

LEMMA StartOrderly ==
  ASSUME TypeInv, StartNext
  PROVE  Orderly
<1> USE DEF arrayVars, hostVars, snapVars
<1>1. CASE SkipDevice \/ CheckStatus \/ Operate
  BY <1>1, QuietStep DEF SkipDevice, Skipped, CheckStatus, Operate
<1>2. CASE FindSnapshot \/ ActiveTime \/ MapSnapshot \/ SnapshotMapped
           \/ SnapshotNotMapped \/ Identify
  BY <1>2, QuietStep DEF FindSnapshot, ActiveTime, MapSnapshot, SnapshotMapped,
     SnapshotNotMapped, Identify
<1>3. CASE ListMappings
  BY <1>3, QuietStep DEF ListMappings, Showmap, Fail
<1>4. CASE CreateSnapshot
  <2>1. snapOf' = snapOf \/ \E s \in SnapId :
          snapOf[s] = Absent /\ snapOf' = [snapOf EXCEPT ![s] = cur]
    BY <1>4 DEF CreateSnapshot, Change
  <2>2. DOMAIN snapOf = SnapId /\ UNCHANGED <<hostOf, groupVars, active>>
    BY <1>4, TypeParts DEF CreateSnapshot, ArrayInv, ArrayTypeOK
  <2>3. /\ SnapshotsKept
        /\ \A s \in SnapId : snapOf'[s] # Absent => snapOf[s] \in {snapOf'[s], Absent}
    BY <2>1, <2>2 DEF SnapshotsKept
  <2>4. QED BY <2>2, <2>3, SnapshotStep
<1>5. CASE ActivateSnapshot
  <2>1. UNCHANGED <<hostOf, groupVars, snapOf>> /\ active \subseteq active'
    BY <1>5 DEF ActivateSnapshot, Change
  <2>2. QED BY <2>1, SnapshotStep DEF SnapshotsKept
<1>6. QED BY <1>1, <1>2, <1>3, <1>4, <1>5 DEF StartNext

(* The names of the other objects stay as they are. *)
NamesStay ==
  \A n \in Name : ~Undoing(Owner(n)) =>
    /\ hostGroup'[n] = hostGroup[n] /\ lunGroup'[n] = lunGroup[n] /\ view'[n] = view[n]

LEMMA StopOrderlyIf ==
  ASSUME TypeInv, UNCHANGED hostOf, NothingAdded, NamesStay, SnapshotsKept,
         \A s \in SnapId : snapOf'[s] # Absent => snapOf[s] \in {snapOf'[s], Absent}
  PROVE  Orderly
<1>1. ASSUME NEW o, ~Undoing(o), NEW h, Sees(o, h) PROVE Sees(o, h)'
  <2>1. PICK v, g, l \in Name :
          JoinsHosts(v, g) /\ JoinsLuns(v, l) /\ InLuns(l, o) /\ InHosts(g, h)
    BY <1>1 DEF Sees
  <2>2. Owner(v) = o /\ Owner(g) = o /\ Owner(l) = o
    BY <2>1, TypeParts, SeesOwn
  <2>3. hostGroup'[g] = hostGroup[g] /\ lunGroup'[l] = lunGroup[l] /\ view'[v] = view[v]
    BY <1>1, <2>2 DEF NamesStay
  <2>4. (JoinsHosts(v, g) /\ JoinsLuns(v, l) /\ InLuns(l, o) /\ InHosts(g, h))'
    BY <2>1, <2>3 DEF JoinsHosts, JoinsLuns, InLuns, InHosts
  <2>5. QED BY <2>4 DEF Sees
<1>2. QED BY <1>1, SeesLess DEF Orderly, HostsKept

LEMMA QuietNames ==
  UNCHANGED <<groupVars, snapVars>> => NothingAdded /\ NamesStay /\ SnapshotsKept
BY SameSees DEF NamesStay, SnapshotsKept, groupVars, snapVars

(* Each request of a deletion takes something from a name of the snapshot. *)
LEMMA UnmapOrderly ==
  ASSUME TypeInv, DetachHosts \/ DetachLuns \/ DelView \/ TakeSnapshot \/ DelLunGroup
                  \/ TakeHost \/ DelHostGroup
  PROVE  Orderly
<1>1. /\ pc \in UnmapSteps /\ cmd = "stop" /\ UNCHANGED <<hostOf, snapOf, active>>
  BY DEF DetachHosts, DetachLuns, DelView, TakeSnapshot, DelLunGroup, TakeHost,
         DelHostGroup, Request, At, UnmapSteps, hostVars, snapVars
<1>2. /\ pc \in RowSteps
      /\ local.join \in Name /\ Undoing(Owner(local.join))
      /\ local.luns \in Name /\ Undoing(Owner(local.luns))
      /\ local.hosts \in Name /\ Undoing(Owner(local.hosts))
  BY <1>1, Unmapping DEF Undoing
<1>3. /\ ArrayInv /\ DOMAIN hostGroup = Name /\ DOMAIN lunGroup = Name
      /\ DOMAIN view = Name
  BY TypeParts, ArrayNames
<1>4. SnapshotsKept
      /\ \A s \in SnapId : snapOf'[s] # Absent => snapOf[s] \in {snapOf'[s], Absent}
  BY <1>1 DEF SnapshotsKept
<1>5. ASSUME UNCHANGED <<lunGroup, view>>, NEW n \in Name, Undoing(Owner(n)), NEW x,
             hostGroup' = hostGroup \/ hostGroup' = [hostGroup EXCEPT ![n] = x],
             x = Absent \/ (hostGroup[n] # Absent /\ x \subseteq hostGroup[n])
      PROVE  NothingAdded /\ NamesStay
  BY <1>3, <1>5 DEF NothingAdded, NamesStay, InHosts, InLuns, JoinsHosts, JoinsLuns
<1>6. ASSUME UNCHANGED <<hostGroup, view>>, NEW n \in Name, Undoing(Owner(n)), NEW x,
             lunGroup' = lunGroup \/ lunGroup' = [lunGroup EXCEPT ![n] = x],
             x = Absent \/ (lunGroup[n] # Absent /\ x \subseteq lunGroup[n])
      PROVE  NothingAdded /\ NamesStay
  BY <1>3, <1>6 DEF NothingAdded, NamesStay, InHosts, InLuns, JoinsHosts, JoinsLuns
<1>7. ASSUME UNCHANGED <<hostGroup, lunGroup>>, NEW n \in Name, Undoing(Owner(n)), NEW x,
             view' = view \/ view' = [view EXCEPT ![n] = x],
             \/ x = Absent
             \/ view[n] # Absent /\ x.hosts \subseteq view[n].hosts
                                 /\ x.luns \subseteq view[n].luns
      PROVE  NothingAdded /\ NamesStay
  BY <1>3, <1>7 DEF NothingAdded, NamesStay, InHosts, InLuns, JoinsHosts, JoinsLuns
<1>8. CASE DetachHosts \/ DetachLuns
  <2>1. PICK n \in Name : n = local.join /\ Undoing(Owner(n)) /\ view[n] # Absent
    <3>1. pc \in {"detachHosts", "detachLuns"}
      BY <1>8 DEF DetachHosts, DetachLuns, Request, At
    <3>2. QED BY <1>1, <1>2, <3>1, Unmapping
  <2>2. UNCHANGED <<hostGroup, lunGroup>>
    BY <1>8 DEF DetachHosts, DetachLuns
  <2>3. view[n] \in ViewRecord
    BY <1>3, <2>1, ViewFacts
  <2>4. CASE DetachHosts
    <3>1. PICK x : x = [view[n] EXCEPT !.hosts = view[n].hosts \ {local.hosts}]
      OBVIOUS
    <3>2. x.hosts \subseteq view[n].hosts /\ x.luns \subseteq view[n].luns
      BY <2>3, <3>1 DEF ViewRecord
    <3>3. [view EXCEPT ![n].hosts = @ \ {local.hosts}] = [view EXCEPT ![n] = x]
      BY <1>3, <3>1
    <3>4. view' = view \/ view' = [view EXCEPT ![n] = x]
      BY <2>1, <2>4, <3>3 DEF DetachHosts, Change
    <3>5. NothingAdded /\ NamesStay
      BY <1>7, <2>1, <2>2, <3>2, <3>4
    <3>6. QED BY <1>1, <1>4, <3>5, StopOrderlyIf
  <2>5. CASE DetachLuns
    <3>1. PICK x : x = [view[n] EXCEPT !.luns = view[n].luns \ {local.luns}]
      OBVIOUS
    <3>2. x.hosts \subseteq view[n].hosts /\ x.luns \subseteq view[n].luns
      BY <2>3, <3>1 DEF ViewRecord
    <3>3. [view EXCEPT ![n].luns = @ \ {local.luns}] = [view EXCEPT ![n] = x]
      BY <1>3, <3>1
    <3>4. view' = view \/ view' = [view EXCEPT ![n] = x]
      BY <2>1, <2>5, <3>3 DEF DetachLuns, Change
    <3>5. NothingAdded /\ NamesStay
      BY <1>7, <2>1, <2>2, <3>2, <3>4
    <3>6. QED BY <1>1, <1>4, <3>5, StopOrderlyIf
  <2>6. QED BY <1>8, <2>4, <2>5
<1>9. CASE DelView
  <2>1. PICK n \in Name : n = local.join /\ Undoing(Owner(n))
    BY <1>2
  <2>2. UNCHANGED <<hostGroup, lunGroup>>
    BY <1>9 DEF DelView
  <2>3. PICK x : x = Absent
    OBVIOUS
  <2>4. view' = view \/ view' = [view EXCEPT ![n] = x]
    BY <1>9, <2>1, <2>3 DEF DelView, Change
  <2>5. NothingAdded /\ NamesStay
    BY <1>7, <2>1, <2>2, <2>3, <2>4
  <2>6. QED BY <1>1, <1>4, <2>5, StopOrderlyIf
<1>10. CASE TakeSnapshot \/ DelLunGroup
  <2>1. PICK n \in Name : n = local.luns /\ Undoing(Owner(n))
    BY <1>2
  <2>2. UNCHANGED <<hostGroup, view>>
    BY <1>10 DEF TakeSnapshot, DelLunGroup
  <2>3. PICK x : /\ lunGroup' = lunGroup \/ lunGroup' = [lunGroup EXCEPT ![n] = x]
                 /\ x = Absent \/ (lunGroup[n] # Absent /\ x \subseteq lunGroup[n])
    <3>1. CASE TakeSnapshot
      <4>1. lunGroup[n] # Absent
        BY <1>1, <2>1, <3>1, Unmapping DEF TakeSnapshot, Request, At
      <4>2. PICK x : x = lunGroup[n] \ {local.object}
        OBVIOUS
      <4>3. lunGroup' = lunGroup \/ lunGroup' = [lunGroup EXCEPT ![n] = x]
        BY <2>1, <3>1, <4>2 DEF TakeSnapshot, Change
      <4>4. x \subseteq lunGroup[n]
        BY <4>2
      <4>5. QED BY <4>1, <4>3, <4>4
    <3>2. CASE DelLunGroup
      BY <2>1, <3>2 DEF DelLunGroup, Effect, Change
    <3>3. QED BY <1>10, <3>1, <3>2
  <2>4. NothingAdded /\ NamesStay
    BY <1>6, <2>1, <2>2, <2>3
  <2>5. QED BY <1>1, <1>4, <2>4, StopOrderlyIf
<1>11. CASE TakeHost \/ DelHostGroup
  <2>1. PICK n \in Name : n = local.hosts /\ Undoing(Owner(n)) /\ hostGroup[n] # Absent
    BY <1>1, <1>2, Unmapping
  <2>2. UNCHANGED <<lunGroup, view>>
    BY <1>11 DEF TakeHost, DelHostGroup
  <2>3. PICK x : /\ hostGroup' = hostGroup \/ hostGroup' = [hostGroup EXCEPT ![n] = x]
                 /\ x = Absent \/ (hostGroup[n] # Absent /\ x \subseteq hostGroup[n])
    <3>1. CASE TakeHost
      <4>1. PICK h : hostGroup' \in {hostGroup, [hostGroup EXCEPT ![n] = hostGroup[n] \ {h}]}
        BY <2>1, <3>1 DEF TakeHost, Change
      <4>2. PICK x : x = hostGroup[n] \ {h}
        OBVIOUS
      <4>3. x \subseteq hostGroup[n]
        BY <4>2
      <4>4. QED BY <2>1, <4>1, <4>2, <4>3
    <3>2. CASE DelHostGroup
      BY <2>1, <3>2 DEF DelHostGroup, Effect, Change
    <3>3. QED BY <1>11, <3>1, <3>2
  <2>4. NothingAdded /\ NamesStay
    BY <1>5, <2>1, <2>2, <2>3
  <2>5. QED BY <1>1, <1>4, <2>4, StopOrderlyIf
<1>12. QED BY <1>8, <1>9, <1>10, <1>11

LEMMA StopOrderly ==
  ASSUME TypeInv, StopNext
  PROVE  Orderly
<1> USE DEF arrayVars, hostVars, snapVars
<1>1. CASE ShowMappings \/ StopPick \/ FindTested \/ Examine \/ ShowHosts \/ Unmapped
  BY <1>1, QuietStep DEF ShowMappings, Showmap, Fail, StopPick, FindTested, Examine,
     ShowHosts, Unmapped
<1>2. CASE Disable
  <2>1. /\ UNCHANGED <<hostOf, groupVars, snapOf>> /\ pc \in RowSteps /\ cmd = "stop"
        /\ active' = active \/ active' = active \ {local.object}
    BY <1>2 DEF Disable, At, RowSteps, Change
  <2>2. SnapshotsKept
    BY <2>1 DEF SnapshotsKept, Undoing
  <2>3. QED BY <2>1, <2>2, SnapshotStep
<1>3. CASE DelSnapshot
  <2>1. /\ UNCHANGED <<hostOf, hostGroup, view, active>> /\ pc \in RowSteps /\ cmd = "stop"
        /\ Deleted(local.object) \/ UNCHANGED <<snapOf, lunGroup>>
    BY <1>3 DEF DelSnapshot, At, RowSteps
  <2>2. CASE UNCHANGED <<snapOf, lunGroup>>
    BY <2>1, <2>2, QuietStep DEF groupVars
  <2>3. CASE Deleted(local.object)
    <3>1. ArrayInv /\ DOMAIN snapOf = SnapId
      BY TypeParts DEF ArrayInv, ArrayTypeOK
    <3>2. \A n \in Name : lunGroup'[n] = IF lunGroup[n] = Absent THEN Absent
                                         ELSE lunGroup[n] \ {local.object}
      BY <2>3 DEF Deleted
    <3>3. \A s \in SnapId : snapOf'[s] = IF s = local.object THEN Absent ELSE snapOf[s]
      BY <2>3, <3>1 DEF Deleted
    <3>4. NothingAdded
      BY <2>1, <3>2 DEF NothingAdded, InHosts, InLuns, JoinsHosts, JoinsLuns
    <3>5. ASSUME NEW n \in Name, ~Undoing(Owner(n)) PROVE lunGroup'[n] = lunGroup[n]
      <4>1. Owner(n) # local.object
        BY <2>1, <3>5 DEF Undoing
      <4>2. lunGroup[n] # Absent => local.object \notin lunGroup[n]
        BY <3>1, <4>1 DEF ArrayInv, NamesInv, LunGroupInv
      <4>3. QED BY <3>2, <4>2
    <3>6. NamesStay
      BY <2>1, <3>5 DEF NamesStay
    <3>7. SnapshotsKept
          /\ \A s \in SnapId : snapOf'[s] # Absent => snapOf[s] \in {snapOf'[s], Absent}
      BY <2>1, <3>3 DEF SnapshotsKept, Undoing
    <3>8. QED BY <2>1, <3>4, <3>6, <3>7, StopOrderlyIf
  <2>4. QED BY <2>1, <2>2, <2>3
<1>4. QED BY <1>1, <1>2, <1>3, UnmapOrderly DEF StopNext

(* Whatever happens, only _add_map and a stop at work disturb the mappings. *)
LEMMA NextOrderly ==
  ASSUME TypeInv, WantInv, [Next]_vars
  PROVE  Orderly
<1> USE DEF arrayVars, hostVars
<1>1. ASSUME Start PROVE Orderly
  BY <1>1, QuietStep DEF Start, Begin
<1>2. ASSUME Crash \/ Preamble PROVE Orderly
  BY <1>2, QuietStep DEF Crash, Preamble, Fail
<1>3. ASSUME MapNext \/ Respond PROVE Orderly
  BY <1>3, QuietStep DEF MapNext, MapPick, MapDone, Respond
<1>4. ASSUME UNCHANGED vars PROVE Orderly
  BY <1>4, QuietStep DEF vars
<1>5. QED
  BY <1>1, <1>2, <1>3, <1>4, AddMapOrderly, StartOrderly, StopOrderly
  DEF Next, ProcessStep

----------------------------------------------------------------------------
(* AccessInv: no one but the device's access groups. *)
Allowed(d) == UNION {HostsOf(g) : g \in GroupsOf[d]}

LEMMA AllowedGrows ==
  ASSUME NEW d \in Lun, HostsKept
  PROVE  Allowed(d) \subseteq Allowed(d)'
BY GroupsKnown, HostsGrow DEF Allowed

LEMMA WantedAllowed ==
  ASSUME TypeInv, WantInv, pc \in WantStep
  PROVE  Wanted \subseteq Allowed(cur) /\ cur \in Lun /\ pc \in AddMapStep
<1>1. cur \in Lun /\ OnlyOwn /\ pc \in AddMapStep
  BY InAddMap, WantParts DEF WantStep
<1>2. QED BY <1>1, GroupsKnown DEF Wanted, OnlyOwn, Allowed

LEMMA OnlyAccessStays ==
  ASSUME TypeInv, TypeInv', WantInv, OnlyAccessGroups, Orderly
  PROVE  OnlyAccessGroups'
<1>1. ArrayInv /\ ArrayInv' /\ HostsKept
  BY TypeParts DEF Orderly, TypeInv, TypeOK, ArrayInv
<1>2. ASSUME NEW d \in Lun, NEW h \in SeenBy(d)' PROVE h \in Allowed(d)'
  <2>1. Sees(d, h)'
    BY <1>1, <1>2, SeenNext DEF SeenAsSees
  <2>2. CASE Sees(d, h)
    <3>1. h \in Allowed(d)
      BY <1>1, <2>2, SeenNow DEF SeenAsSees, OnlyAccessGroups, Allowed
    <3>2. QED BY <1>1, <3>1, AllowedGrows
  <2>3. CASE d = local.object /\ h \in Wanted /\ pc \in WantStep
    <3>1. d = cur
      <4>1. cmd \in {"map", "start"} /\ pc \in AddMapStep /\ d # NoObject /\ d \notin SnapId
        BY <2>3, InAddMap, ObjectFacts DEF WantStep
      <4>2. QED BY <2>3, <4>1, ObjectPresent DEF SnapshotsOf
    <3>2. h \in Allowed(d)
      BY <2>3, <3>1, WantedAllowed
    <3>3. QED BY <1>1, <3>2, AllowedGrows
  <2>4. QED BY <2>1, <2>2, <2>3 DEF Orderly
<1>3. ASSUME NEW s \in SnapId, snapOf'[s] # Absent, NEW h \in SeenBy(s)'
      PROVE  h \in Allowed(snapOf[s])'
  <2>1. Sees(s, h)'
    BY <1>1, <1>3, SeenNext DEF SeenAsSees
  <2>2. snapOf[s] \in {snapOf'[s], Absent} /\ snapOf \in [SnapId -> Lun \cup {Absent}]
    BY <1>1, <1>3 DEF Orderly, ArrayInv, ArrayTypeOK
  <2>3. snapOf[s] # Absent
    <3>1. CASE Sees(s, h)
      <4>1. Present(s)
        BY <1>1, <3>1, SeesOwn DEF Sees
      <4>2. s \notin Lun
        BY ObjectFacts
      <4>3. QED BY <4>1, <4>2 DEF Present
    <3>2. CASE s = local.object /\ pc \in WantStep
      <4>1. cmd \in {"map", "start"} /\ pc \in AddMapStep /\ s # NoObject /\ s \notin Lun
            /\ cur \in Lun /\ cur # Absent
        BY <3>2, InAddMap, ObjectFacts, AbsentFacts DEF WantStep
      <4>2. s \in SnapshotsOf(cur)
        BY <3>2, <4>1, ObjectPresent
      <4>3. QED BY <4>1, <4>2 DEF SnapshotsOf
    <3>3. QED BY <2>1, <3>1, <3>2 DEF Orderly
  <2>4. PICK d \in Lun : snapOf[s] = d /\ snapOf'[s] = d
    BY <2>2, <2>3
  <2>5. h \in Allowed(d)
    <3>1. CASE Sees(s, h)
      BY <1>1, <2>3, <2>4, <3>1, SeenNow DEF SeenAsSees, OnlyAccessGroups, Allowed
    <3>2. CASE s = local.object /\ h \in Wanted /\ pc \in WantStep
      <4>1. cmd \in {"map", "start"} /\ pc \in AddMapStep /\ s # NoObject /\ s \notin Lun
            /\ cur \in Lun
        BY <3>2, InAddMap, ObjectFacts DEF WantStep
      <4>2. s \in SnapshotsOf(cur)
        BY <3>2, <4>1, ObjectPresent
      <4>3. d = cur
        BY <2>4, <4>2 DEF SnapshotsOf
      <4>4. QED BY <3>2, <4>3, WantedAllowed
    <3>3. QED BY <2>1, <3>1, <3>2 DEF Orderly
  <2>6. h \in Allowed(d)'
    BY <1>1, <2>5, AllowedGrows
  <2>7. QED BY <2>4, <2>6 DEF Allowed
<1>4. QED BY <1>2, <1>3 DEF OnlyAccessGroups, Allowed

(* Every other action leaves _add_map, or is about to enter it. *)
Outside == pc' \notin AddMapStep \ {"select"}

LEMMA StartOutside == StartNext => Outside
<1> USE DEF Outside, AddMapStep, Proceed, Continue
<1>1. SkipDevice \/ CheckStatus \/ Operate => Outside
  BY DEF SkipDevice, Skipped, CheckStatus, Operate
<1>2. CreateSnapshot \/ FindSnapshot \/ ActivateSnapshot \/ ActiveTime => Outside
  BY DEF CreateSnapshot, FindSnapshot, ActivateSnapshot, ActiveTime, EndOperate
<1>3. MapSnapshot \/ SnapshotMapped \/ SnapshotNotMapped \/ Identify => Outside
  BY DEF MapSnapshot, SnapshotMapped, SnapshotNotMapped, Identify, Vanish
<1>4. ListMappings => Outside
  BY DEF ListMappings, Showmap, Fail, Vanish
<1>5. QED BY <1>1, <1>2, <1>3, <1>4 DEF StartNext

LEMMA StopOutside == StopNext => Outside
<1> USE DEF Outside, AddMapStep, Proceed, Continue, EndStop, GiveUpStop
<1>1. ShowMappings => Outside
  BY DEF ShowMappings, Showmap, Fail, Vanish
<1>2. StopPick \/ FindTested \/ Examine \/ ShowHosts \/ Unmapped => Outside
  BY DEF StopPick, FindTested, NothingToStop, Examine, ShowHosts, Unmapped
<1>3. DetachHosts \/ DetachLuns \/ DelView \/ TakeSnapshot \/ DelLunGroup \/ TakeHost
        => Outside
  BY DEF DetachHosts, DetachLuns, DelView, TakeSnapshot, DelLunGroup, TakeHost, Request
<1>4. DelHostGroup \/ Disable => Outside
  BY DEF DelHostGroup, Disable, EndDelete
<1>5. DelSnapshot => Outside
  BY DEF DelSnapshot, EndDelete, Vanish
<1>6. QED BY <1>1, <1>2, <1>3, <1>4, <1>5 DEF StopNext

LEMMA OtherOutside ==
  ASSUME TypeInv, Start \/ Crash \/ Preamble \/ MapNext \/ Respond
  PROVE  Outside
<1> USE DEF Outside, AddMapStep
<1>1. Start => Outside
  BY DEF Start, Begin
<1>2. Crash \/ Respond => Outside
  BY DEF Crash, Fail, Respond, Vanish
<1>3. MapNext => Outside
  BY DEF MapNext, MapPick, MapDone, Proceed
<1>4. ASSUME Preamble PROVE Outside
  <2>1. CASE Fail
    BY <2>1 DEF Fail, Vanish
  <2>2. CASE ~Fail
    <3>1. cmd \in {"map", "start", "stop"}
      BY <1>4, CommandAssumption DEF Preamble, TypeInv, ProcessInv
    <3>2. QED BY <1>4, <2>2, <3>1 DEF Preamble, Continue
  <2>3. QED BY <2>1, <2>2
<1>5. QED BY <1>1, <1>2, <1>3, <1>4

(* The steps of Next, as the invariants tell them apart. *)
LEMMA StepKinds ==
  ASSUME TypeInv, [Next]_vars
  PROVE  AddMapNext \/ UNCHANGED vars \/ Outside
BY StartOutside, StopOutside, OtherOutside DEF Next, ProcessStep

LEMMA NextWants ==
  ASSUME TypeInv, WantInv, [Next]_vars
  PROVE  WantInv'
<1>1. CASE AddMapNext
  BY <1>1, AddMapWants
<1>2. CASE Outside
  BY <1>2 DEF Outside, WantInv
<1>3. CASE UNCHANGED vars
  BY <1>3 DEF vars, procVars, arrayVars, hostVars, groupVars, WantInv, Reaches, Known,
     HostsOf, SeenBy, HostsThrough, ViewsOf, Wanted
<1>4. QED BY <1>1, <1>2, <1>3, StepKinds

LEMMA AccessInit == Init => AccessInv
<1> SUFFICES ASSUME Init PROVE AccessInv
  OBVIOUS
<1>1. TypeInv
  BY InitType
<1>2. WantInv
  BY DEF Init, ProcessInit, WantInv, AddMapStep
<1>3. \A o : SeenBy(o) = {}
  BY DEF Init, ArrayInit, SeenBy, HostsThrough, ViewsOf
<1>4. OnlyAccessGroups
  BY <1>3 DEF OnlyAccessGroups
<1>5. QED BY <1>1, <1>2, <1>4 DEF AccessInv

LEMMA AccessStep ==
  ASSUME AccessInv, [Next]_vars
  PROVE  AccessInv'
<1>1. TypeInv /\ WantInv /\ OnlyAccessGroups
  BY DEF AccessInv
<1>2. TypeInv' /\ WantInv' /\ Orderly
  BY <1>1, NextType, NextWants, NextOrderly
<1>3. QED BY <1>1, <1>2, OnlyAccessStays DEF AccessInv

(* What _add_map wants to map to are hosts of the device's access groups,  *)
(* and what it leaves out has the object already. *)
THEOREM AccessInvariant == Spec => []AccessInv
BY AccessInit, AccessStep, PTL DEF Spec

(* No host outside the access groups of a LUN's device ever sees the LUN   *)
(* or a snapshot of it. *)
THEOREM AccessCorrect == Spec => []OnlyAccessGroups
<1>1. AccessInv => OnlyAccessGroups
  BY DEF AccessInv
<1>2. QED BY <1>1, AccessInvariant, PTL

----------------------------------------------------------------------------
(* MapInv: what is mapped.  An object that is served stays so, unless it   *)
(* is the snapshot that a stop is about. *)
LEMMA ServesStays ==
  ASSUME TypeInv, TypeInv', Orderly, NEW d \in Lun, NEW o, ~Undoing(o), Serves(o, d)
  PROVE  Serves(o, d)'
<1>1. ArrayInv /\ ArrayInv' /\ HostsKept /\ \A h : Sees(o, h) => Sees(o, h)'
  BY TypeParts DEF Orderly, TypeInv, TypeOK, ArrayInv
<1>2. ASSUME NEW g \in GroupsOf[d] PROVE HostsOf(g)' \cap SeenBy(o)' # {}
  <2>1. g \in AccessGroup /\ Reaches(o, g)
    BY GroupsKnown DEF Serves, Reaches
  <2>2. QED BY <1>1, <2>1, ReachesStays
<1>3. QED BY <1>2 DEF Serves

LEMMA LunStays ==
  ASSUME TypeInv, TypeInv', Orderly, NEW d \in Lun, Serves(d, d)
  PROVE  Serves(d, d)'
<1>1. ~Undoing(d)
  BY InStop, ObjectFacts DEF Undoing, StopSteps
<1>2. QED BY <1>1, ServesStays

(* When the wanted hosts see the object, every access group of the device  *)
(* has one that does: the groups with none wanted had it already. *)
LEMMA WantedServed ==
  ASSUME TypeInv, TypeInv', OnlyOwn, NoneMissing, NoneFree, Orderly,
         pc \in WantStep \ {"query"}, local' = local, cur' = cur,
         \A h \in Wanted : Sees(local.object, h)'
  PROVE  Serves(local.object, cur)'
<1>1. PICK o : o = local.object
  OBVIOUS
<1>2. PICK d \in Lun : d = cur
  BY InAddMap DEF WantStep
<1>3. /\ ArrayInv /\ ArrayInv' /\ HostsKept
      /\ \A h : Sees(o, h) => Sees(o, h)'
  <2>1. ~Undoing(o)
    BY DEF Undoing, WantStep, AddMapStep, RowSteps, UnmapSteps
  <2>2. QED BY <2>1, TypeParts DEF Orderly, TypeInv, TypeOK, ArrayInv
<1>4. ASSUME NEW g \in GroupsOf[d] PROVE HostsOf(g)' \cap SeenBy(o)' # {}
  <2>1. g \in AccessGroup /\ (Known(g) \/ Reaches(o, g))
    BY <1>1, <1>2, GroupsKnown DEF NoneMissing
  <2>2. CASE Reaches(o, g)
    BY <1>3, <2>1, <2>2, ReachesStays
  <2>3. CASE Known(g)
    <3>1. PICK h \in local.want[g] : h \in HostsOf(g) /\ h \in Wanted
      BY <2>1, <2>3 DEF Known, NoneFree, OnlyOwn, Wanted
    <3>2. h \in HostsOf(g)'
      BY <1>3, <2>1, <3>1, HostsGrow
    <3>3. h \in SeenBy(o)'
      BY <1>1, <1>3, <3>1, SeenNext DEF SeenAsSees
    <3>4. QED BY <3>2, <3>3
  <2>4. QED BY <2>1, <2>2, <2>3
<1>5. Serves(o, d)'
  BY <1>4 DEF Serves
<1>6. QED BY <1>1, <1>2, <1>5 DEF Serves

(* The ways to RETURN_OK. *)
LEMMA WaysToMapped ==
  ASSUME AddMapNext, pc' = "mapped"
  PROVE  HostsKnown \/ UseView \/ JoinLuns
<1> USE DEF Continue, GiveUp, NextSuffix
<1>1. ~(Select \/ Query \/ MakeHost \/ AddInitiator \/ ShowFails)
  BY DEF Select, Query, MakeHost, AddInitiator, ShowFails
<1>2. ~(UseHostGroup \/ SkipHostGroup \/ CreateHostGroup \/ FillHosts)
  BY DEF UseHostGroup, SkipHostGroup, CreateHostGroup, FillHosts
<1>3. ~(UseLunGroup \/ SkipLunGroup \/ CreateLunGroup \/ FillLuns)
  BY DEF UseLunGroup, SkipLunGroup, CreateLunGroup, FillLuns
<1>4. ~(NoView \/ SkipView \/ CreateView \/ JoinHosts)
  BY DEF NoView, SkipView, CreateView, JoinHosts
<1>5. QED BY <1>1, <1>2, <1>3, <1>4 DEF AddMapNext

LEMMA NowMapped ==
  ASSUME TypeInv, WantInv, TypeInv', AddMapNext, pc' = "mapped"
  PROVE  Serves(local.object, cur)'
<1>1. Orderly
  BY AddMapOrderly
<1>2. CASE HostsKnown
  <2>1. /\ pc = "hosts" /\ NoneFree /\ Wanted = {} /\ local' = local /\ cur' = cur
    BY <1>2 DEF HostsKnown, NoneFree, Continue
  <2>2. pc \in WantStep \ {"query"} /\ OnlyOwn /\ NoneMissing
    BY <2>1, WantParts DEF WantStep, AddMapStep
  <2>3. QED BY <1>1, <2>1, <2>2, WantedServed
<1>3. CASE UseView
  <2>1. /\ pc = "view" /\ PairJoined /\ local' = local /\ cur' = cur
        /\ UNCHANGED <<hostGroup, lunGroup, view>>
    BY <1>3 DEF UseView, Continue, arrayVars, groupVars
  <2>2. /\ pc \in WantStep \ {"query"} /\ pc \in AfterHostGroup
        /\ OnlyOwn /\ NoneMissing /\ NoneFree /\ hostGroup[local.hosts] = Wanted
    BY <2>1, WantParts DEF WantStep, AddMapStep, AfterHostGroup, AfterHosts, Filled
  <2>3. /\ local.hosts \in Name /\ hostGroup[local.hosts] # Absent
        /\ local.luns \in Name /\ lunGroup[local.luns] = {local.object}
    BY <2>1 DEF TypeInv, HeldInv, AfterHosts, AfterLunGroup, Held
  <2>4. lunGroup[local.luns] # Absent
    <3>1. local.object \in Object
      BY <2>2, InAddMap DEF WantStep
    <3>2. QED BY <2>3, <3>1, AbsentFacts
  <2>5. PICK v \in Name : Joins(v)
    BY <2>1 DEF PairJoined
  <2>6. ASSUME NEW h \in Wanted PROVE Sees(local.object, h)'
    <3>1. /\ JoinsHosts(v, local.hosts) /\ JoinsLuns(v, local.luns)
          /\ InLuns(local.luns, local.object) /\ InHosts(local.hosts, h)
      BY <2>2, <2>3, <2>4, <2>5, <2>6 DEF Joins, JoinsHosts, JoinsLuns, InLuns, InHosts
    <3>2. Sees(local.object, h)
      BY <2>3, <3>1 DEF Sees
    <3>3. QED BY <2>1, <3>2 DEF Sees, JoinsHosts, JoinsLuns, InLuns, InHosts
  <2>7. QED BY <1>1, <2>1, <2>2, <2>6, WantedServed
<1>4. CASE JoinLuns
  <2>1. pc = "joinLuns" /\ UNCHANGED <<hostGroup, lunGroup>>
    BY <1>4 DEF JoinLuns
  <2>2. /\ pc \in WantStep \ {"query"} /\ pc \in AfterHostGroup
        /\ OnlyOwn /\ NoneMissing /\ NoneFree /\ hostGroup[local.hosts] = Wanted
    BY <2>1, WantParts DEF WantStep, AddMapStep, AfterHostGroup, AfterHosts, Filled
  <2>3. /\ local.hosts \in Name /\ hostGroup[local.hosts] # Absent
        /\ local.luns \in Name /\ lunGroup[local.luns] = {local.object}
        /\ local.join \in Name
    BY <2>1, Joining DEF Held
  <2>4. lunGroup[local.luns] # Absent
    <3>1. local.object \in Object
      BY <2>2, InAddMap DEF WantStep
    <3>2. QED BY <2>3, <3>1, AbsentFacts
  <2>5. PICK x \in ViewRecord :
          /\ x.hosts = {local.hosts} /\ x.luns = {local.luns}
          /\ view' = [view EXCEPT ![local.join] = x]
          /\ local' = local /\ cur' = cur
    <3>1. PICK reply \in Reply, x \in ViewRecord :
            /\ x.hosts = {local.hosts} /\ x.luns = {local.luns}
            /\ reply = "ok" => view' = [view EXCEPT ![local.join] = x]
            /\ IF reply = "ok" THEN Continue("mapped") /\ UNCHANGED local ELSE GiveUp
      BY <1>4, JoinLunsView
    <3>2. reply = "ok"
      BY <3>1 DEF GiveUp, Continue
    <3>3. QED BY <3>1, <3>2 DEF Continue
  <2>6. view'[local.join] = x /\ x # Absent
    <3>1. DOMAIN view = Name
      BY TypeParts, ArrayNames
    <3>2. QED BY <2>3, <2>5, <3>1, AbsentFacts
  <2>7. ASSUME NEW h \in Wanted PROVE Sees(local.object, h)'
    <3>1. PICK v, g, l \in Name : v = local.join /\ g = local.hosts /\ l = local.luns
      BY <2>3
    <3>2. JoinsHosts(v, g)' /\ JoinsLuns(v, l)'
      BY <2>5, <2>6, <3>1 DEF JoinsHosts, JoinsLuns
    <3>3. InLuns(l, local.object)' /\ InHosts(g, h)'
      BY <2>1, <2>2, <2>3, <2>4, <2>5, <2>7, <3>1 DEF InLuns, InHosts
    <3>4. QED BY <3>2, <3>3 DEF Sees
  <2>8. QED BY <1>1, <2>2, <2>5, <2>7, WantedServed
<1>5. QED BY <1>2, <1>3, <1>4, WaysToMapped

(* What becomes of the process and of what SRM knows. *)
LEMMA ProcessKinds ==
  ASSUME TypeInv, [Next]_vars
  PROVE  \/ \E c \in Commands, D \in SUBSET Lun : Begin(c, D)
         \/ Respond \/ MapDone
         \/ Vanish /\ UNCHANGED planVars
         \/ UNCHANGED <<cmd, planVars>> /\ (cmd = "start" \/ cmd = "stop" \/ UNCHANGED report)
<1> DEFINE Kept == UNCHANGED <<cmd, planVars>>
                   /\ (cmd = "start" \/ cmd = "stop" \/ UNCHANGED report)
           Gone == Vanish /\ UNCHANGED planVars
<1> USE DEF Continue, Proceed, Fail, At, planVars
<1>1. Crash => Gone
  BY DEF Crash
<1>2. Preamble => Gone \/ Kept
  BY DEF Preamble
<1>3. MapNext => MapDone \/ Kept
  BY DEF MapNext, MapPick
<1>4. AddMapNext => Kept
  BY AddMapFrame
<1>5. StartNext => Gone \/ Kept
  <2>1. SkipDevice \/ CheckStatus \/ Operate => Kept
    BY DEF SkipDevice, Skipped, CheckStatus, Operate
  <2>2. CreateSnapshot \/ FindSnapshot \/ ActivateSnapshot \/ ActiveTime => Kept
    BY DEF CreateSnapshot, FindSnapshot, ActivateSnapshot, ActiveTime, EndOperate
  <2>3. MapSnapshot \/ SnapshotMapped \/ Identify => Kept
    BY DEF MapSnapshot, SnapshotMapped, Identify
  <2>4. SnapshotNotMapped \/ ListMappings => Gone \/ Kept
    BY DEF SnapshotNotMapped, ListMappings, Showmap
  <2>5. QED BY <2>1, <2>2, <2>3, <2>4 DEF StartNext
<1>6. StopNext => Gone \/ Kept
  <2> USE DEF EndStop, GiveUpStop
  <2>1. ShowMappings => Gone \/ Kept
    BY DEF ShowMappings, Showmap
  <2>2. StopPick \/ FindTested \/ Examine \/ ShowHosts \/ Unmapped => Kept
    BY DEF StopPick, FindTested, NothingToStop, Examine, ShowHosts, Unmapped
  <2>3. DetachHosts \/ DetachLuns \/ DelView \/ TakeSnapshot \/ DelLunGroup \/ TakeHost
          => Kept
    BY DEF DetachHosts, DetachLuns, DelView, TakeSnapshot, DelLunGroup, TakeHost, Request
  <2>4. DelHostGroup \/ Disable => Kept
    BY DEF DelHostGroup, Disable, EndDelete
  <2>5. DelSnapshot => Gone \/ Kept
    BY DEF DelSnapshot, EndDelete
  <2>6. QED BY <2>1, <2>2, <2>3, <2>4, <2>5 DEF StopNext
<1>7. UNCHANGED vars => Kept
  BY DEF vars, procVars
<1>8. QED
  BY <1>1, <1>2, <1>3, <1>4, <1>5, <1>6, <1>7 DEF Next, ProcessStep, Start

(* Only a mapping that is reported makes a LUN one that is mapped.         *)
LEMMA MappedFrom ==
  ASSUME TypeInv, [Next]_vars, NEW d \in Lun, phase'[d] = "mapped"
  PROVE  phase[d] = "mapped" \/ (cmd = "map" /\ report[d] = "ok")
<1>1. phase \in [Lun -> Phase]
  BY DEF TypeInv, TypeOK, ProcessTypeOK
<1>2. ASSUME NEW c \in Commands, NEW D \in SUBSET Lun, Begin(c, D)
      PROVE  phase'[d] \in {phase[d], UnderWay[c]} /\ UnderWay[c] # "mapped"
  BY <1>1, <1>2, CommandAssumption DEF Begin, UnderWay
<1>3. CASE Respond
  <2>1. cmd \in {"map", "start", "stop"}
    BY <1>3, CommandAssumption DEF Respond, TypeInv, ProcessInv
  <2>2. phase'[d] \in {phase[d], Reached[cmd]}
        /\ (phase'[d] = phase[d] \/ report[d] = "ok")
    BY <1>3 DEF Respond
  <2>3. QED BY <2>1, <2>2 DEF Reached
<1>4. MapDone => phase' = phase
  BY DEF MapDone, Proceed, planVars
<1>5. QED BY <1>2, <1>3, <1>4, ProcessKinds DEF planVars

LEMMA MapStep ==
  ASSUME MapInv, [Next]_vars
  PROVE  MapInv'
<1>1. AccessInv /\ TypeInv /\ WantInv /\ MappedIsServed
      /\ (cmd = "map" => \A d \in Lun : report[d] = "ok" => Serves(d, d))
  BY DEF MapInv, AccessInv
<1>2. AccessInv' /\ TypeInv' /\ Orderly
  BY <1>1, AccessStep, NextType, NextOrderly
<1>3. ASSUME pc' = "mapped" PROVE Serves(local.object, cur)'
  <2>1. CASE AddMapNext
    BY <1>1, <1>2, <1>3, <2>1, NowMapped
  <2>2. CASE UNCHANGED vars
    BY <1>1, <1>3, <2>2 DEF MappedIsServed, vars, procVars, arrayVars, hostVars,
       groupVars, Serves, HostsOf, SeenBy, HostsThrough, ViewsOf
  <2>3. QED BY <1>1, <1>3, <2>1, <2>2, StepKinds DEF Outside, AddMapStep
<1>4. ASSUME NEW d \in Lun, phase'[d] = "mapped" PROVE Serves(d, d)'
  <2>1. Serves(d, d)
    BY <1>1, <1>4, MappedFrom DEF MappedIsServed
  <2>2. QED BY <1>1, <1>2, <2>1, LunStays
<1>5. ASSUME cmd' = "map", NEW d \in Lun, report'[d] = "ok" PROVE Serves(d, d)'
  <2>1. SUFFICES Serves(d, d)
    BY <1>1, <1>2, LunStays
  <2>2. ~\E c \in Commands, D \in SUBSET Lun : Begin(c, D)
    BY <1>5 DEF Begin
  <2>3. ~Respond /\ ~Vanish
    BY <1>5 DEF Respond, Vanish
  <2>4. CASE MapDone
    <3>1. report[d] = "ok" \/ (d = cur /\ pc = "mapped")
      BY <1>1, <1>5, <2>4 DEF MapDone, Record, TypeInv, TypeOK, ProcessTypeOK
    <3>2. cmd = "map"
      BY <2>4 DEF MapDone
    <3>3. pc = "mapped" => local.object = cur
      BY <1>1, <3>2 DEF TypeInv, ObjectInv, AddMapStep
    <3>4. QED BY <1>1, <3>1, <3>2, <3>3 DEF MappedIsServed
  <2>5. QED BY <1>1, <1>5, <2>2, <2>3, <2>4, ProcessKinds
<1>6. QED BY <1>2, <1>3, <1>4, <1>5 DEF MapInv, MappedIsServed

LEMMA MapInit == Init => MapInv
<1> SUFFICES ASSUME Init PROVE MapInv
  OBVIOUS
<1>1. AccessInv
  BY AccessInit
<1>2. MappedIsServed /\ cmd # "map"
  BY DEF Init, ProcessInit, MappedIsServed
<1>3. QED BY <1>1, <1>2 DEF MapInv

(* At every step, the LUNs that SRM takes for mapped are, and so are those *)
(* that the process is going to report. *)
THEOREM MapInvariant == Spec => []MapInv
BY MapInit, MapStep, PTL DEF Spec

(* RETURN_OK of _add_map means that each access group of the device has a  *)
(* host that sees the object, whatever groups and views of earlier runs it *)
(* met; and no test of another device, no crash takes that away again.     *)
THEOREM MappedCorrect == Spec => []MappedIsServed
<1>1. MapInv => MappedIsServed
  BY DEF MapInv
<1>2. QED BY <1>1, MapInvariant, PTL

----------------------------------------------------------------------------
(* TestInv: a start.  While it runs nothing is taken from any object. *)
LEMMA ReadyStays ==
  ASSUME TypeInv, Orderly, cmd = "start", NEW d \in Lun, Ready(d),
         local'.found[d] = local.found[d]
  PROVE  Ready(d)'
<1>1. CASE local.found[d] = NoObject
  BY <1>1 DEF Ready
<1>2. CASE local.found[d] # NoObject
  <2>1. PICK s \in SnapId : s = local.found[d] /\ snapOf[s] = d /\ s \in active
    BY <1>2 DEF Ready, TypeInv, ObjectInv, SnapshotOf, SnapshotsOf
  <2>2. snapOf[s] # Absent /\ ~Undoing(s)
    BY <2>1, AbsentFacts DEF Undoing
  <2>3. s \in active'
    BY <2>1, <2>2 DEF Orderly, SnapshotsKept
  <2>4. QED BY <2>1, <2>3 DEF Ready
<1>3. QED BY <1>1, <1>2

LEMMA ShownStays ==
  ASSUME TypeInv, TypeInv', Orderly, cmd = "start", NEW d \in Lun, ShownBy(d),
         local'.found[d] = local.found[d]
  PROVE  ShownBy(d)'
<1>1. PICK o : o = local.found[d]
  OBVIOUS
<1>2. Serves(o, d) /\ ~Undoing(o)
  BY <1>1 DEF ShownBy, Undoing
<1>3. Serves(o, d)'
  BY <1>2, ServesStays
<1>4. QED BY <1>1, <1>3 DEF ShownBy, Serves

(* Before the snapshots are made there is none. *)
LEMMA NoneFound ==
  ASSUME pc' \in {"preamble", "check"}, \A d \in Lun : local'.found[d] = NoObject
  PROVE  StartInv'
BY DEF StartInv, Going, Ready, AddMapStep, Asked

(* A step within the loops. *)
LEMMA StartGoes ==
  ASSUME TypeInv, TypeInv', Orderly, StartInv, cmd = "start",
         UNCHANGED <<cmd, report>>, todo' = todo, pc' \notin {"preamble", "check"},
         pc \in OperateSteps => cur' = cur /\ pc' \in OperateSteps,
         pc' \in {"map"} \cup AddMapStep => pc \in {"map"} \cup AddMapStep,
         pc' \in {"list", "identify", "respond"} => pc \in {"list", "identify", "respond"},
         \A d \in Lun : local'.found[d] = local.found[d] \/ (d = cur' /\ pc' \in OperateSteps)
  PROVE  StartInv'
<1>1. ASSUME NEW d \in Asked', report'[d] # "err" PROVE Going(d)'
  <2>1. d \in Lun /\ Going(d)
    BY <1>1 DEF StartInv, Asked
  <2>2. CASE local'.found[d] = local.found[d]
    <3>1. Ready(d) => Ready(d)'
      BY <2>1, <2>2, ReadyStays
    <3>2. ShownBy(d) => ShownBy(d)'
      BY <2>1, <2>2, ShownStays
    <3>3. QED BY <2>1, <3>1, <3>2 DEF Going
  <2>3. CASE d = cur' /\ pc' \in OperateSteps
    BY <2>3 DEF Going, OperateSteps, AddMapStep
  <2>4. QED BY <2>1, <2>2, <2>3
<1>2. QED BY <1>1 DEF StartInv

(* The end of a device's turn in a loop. *)
LEMMA StartProceeds ==
  ASSUME TypeInv, TypeInv', Orderly, StartInv, cmd = "start", local'.found = local.found,
         NEW d \in todo, NEW here, NEW next, Proceed(d, here, next),
         \/ here = "check" /\ next = "operate" /\ pc = "check"
         \/ here = "operate" /\ next = "map" /\ pc \in {"operate"} \cup OperateSteps
         \/ here = "map" /\ next = "list" /\ pc \in {"map", "mapped"}
         \/ here = "identify" /\ next = "respond" /\ pc = "identify",
         pc \in OperateSteps => d = cur,
         \A e \in Lun \ {d} : report'[e] = report[e],
         report'[d] # "err" => Ready(d) /\ (here \in {"map", "identify"} => ShownBy(d))
  PROVE  StartInv'
<1>1. /\ d \in Lun /\ d \in Asked
      /\ cmd' = "start" /\ pc' \in {here, next}
      /\ todo' = IF pc' = next THEN Asked ELSE todo \ {d}
      /\ pc' = next => todo = {d}
  BY DEF Proceed, TypeInv, TypeOK, ProcessTypeOK, ProcessInv
<1>2. pc' = "check" => \A e \in Lun : local'.found[e] = NoObject
  BY <1>1 DEF StartInv, OperateSteps
<1>3. ASSUME NEW e \in Asked', report'[e] # "err" PROVE Going(e)'
  <2>1. e \in Lun
    BY <1>3 DEF Asked
  <2>2. Ready(e) /\ (here \in {"map", "identify"} /\ e \notin todo \ {d} => ShownBy(e))
    <3>1. CASE e = d
      BY <1>3, <3>1
    <3>2. CASE e # d
      <4>1. e \in Asked /\ report[e] # "err"
        BY <1>3, <2>1, <3>2 DEF Asked
      <4>2. Going(e)
        BY <4>1 DEF StartInv
      <4>3. QED BY <3>2, <4>2 DEF Going, AddMapStep
    <3>3. QED BY <3>1, <3>2
  <2>3. Ready(e)' /\ (ShownBy(e) => ShownBy(e)')
    BY <2>1, <2>2, ReadyStays, ShownStays
  <2>4. pc' \in {"map"} \cup AddMapStep /\ e \notin todo' => ShownBy(e)'
    <3>1. SUFFICES ASSUME pc' \in {"map"} \cup AddMapStep, e \notin todo'
                   PROVE  ShownBy(e)'
      OBVIOUS
    <3>2. CASE here = "map"
      BY <1>1, <2>2, <2>3, <3>1, <3>2 DEF AddMapStep
    <3>3. CASE here = "operate"
      <4>1. pc' = "map" /\ todo' = Asked
        BY <1>1, <3>1, <3>3 DEF AddMapStep
      <4>2. e \in Asked
        BY <1>1, <1>3, <2>1 DEF Asked
      <4>3. QED BY <3>1, <4>1, <4>2
    <3>4. QED BY <1>1, <3>1, <3>2, <3>3 DEF AddMapStep
  <2>5. pc' \in {"list", "identify", "respond"} => ShownBy(e)'
    <3>1. SUFFICES ASSUME pc' \in {"list", "identify", "respond"}
                   PROVE  ShownBy(e)'
      OBVIOUS
    <3>2. CASE here = "map"
      BY <1>1, <2>2, <2>3, <3>1, <3>2
    <3>3. CASE here = "identify"
      <4>1. ShownBy(e)
        <5>1. CASE e = d
          BY <1>3, <3>3, <5>1
        <5>2. CASE e # d
          <6>1. e \in Asked /\ report[e] # "err" /\ pc = "identify"
            BY <1>3, <2>1, <3>3, <5>2 DEF Asked
          <6>2. QED BY <6>1 DEF StartInv, Going
        <5>3. QED BY <5>1, <5>2
      <4>2. QED BY <2>3, <4>1
    <3>4. QED BY <1>1, <3>1, <3>2, <3>3
  <2>6. QED BY <2>3, <2>4, <2>5 DEF Going
<1>4. pc' # "preamble"
  BY <1>1
<1>5. QED BY <1>2, <1>3, <1>4 DEF StartInv

LEMMA AddMapFound ==
  ASSUME TypeInv, AddMapNext
  PROVE  local'.found = local.found
<1>1. local \in LocalRecord /\ pc \in AddMapStep
  BY AddMapFrame, InAddMap
<1>2. \A w, f : [local EXCEPT !.want = w, !.free = f].found = local.found
  BY <1>1 DEF LocalRecord
<1>3. \A k : [local EXCEPT !.n = k].found = local.found
  BY <1>1 DEF LocalRecord
<1>4. CASE Select
  <2>1. local' = local \/ \E w, f : local' = [local EXCEPT !.want = w, !.free = f]
    BY <1>4 DEF Select, GiveUp
  <2>2. QED BY <1>2, <2>1
<1>5. CASE Query
  <2>1. local' = local \/ \E seen :
          local' = [local EXCEPT
            !.want = [g \in AccessGroup |-> IF Served(g, seen) THEN {} ELSE local.want[g]],
            !.free = [g \in AccessGroup |-> IF Served(g, seen) THEN {} ELSE local.free[g]]]
    BY <1>1, <1>5 DEF Query, GiveUp, LocalRecord
  <2>2. QED BY <1>2, <2>1
<1>6. CASE AddInitiator
  <2>1. CASE local' = local
    BY <2>1
  <2>2. CASE local' # local
    <3>1. PICK g \in AccessGroup, h \in AnyHost : \E rest :
            local' = [local EXCEPT !.free[g] = rest,
                                   !.want[g] = IF rest = {} THEN @ \cup {h} ELSE @]
      BY <1>6, <2>2 DEF AddInitiator, GiveUp
    <3>2. QED BY <1>1, <3>1 DEF LocalRecord
  <2>3. QED BY <2>1, <2>2
<1>7. CASE MakeHost \/ HostsKnown \/ ShowFails \/ FillHosts \/ FillLuns \/ UseView
           \/ NoView \/ JoinHosts \/ JoinLuns
  BY <1>7 DEF MakeHost, HostsKnown, ShowFails, FillHosts, FillLuns, UseView, NoView,
     JoinHosts, JoinLuns, GiveUp
<1>8. CASE SkipHostGroup \/ SkipLunGroup \/ SkipView
  BY <1>3, <1>8 DEF SkipHostGroup, SkipLunGroup, SkipView, NextSuffix
<1>9. CASE UseHostGroup \/ CreateHostGroup \/ UseLunGroup \/ CreateLunGroup \/ CreateView
  <2>1. PICK n : n = This
    OBVIOUS
  <2>2. CASE UseHostGroup \/ CreateHostGroup
    <3>1. local' = local \/ local' = [local EXCEPT !.hosts = n, !.n = 1]
      BY <2>1, <2>2 DEF UseHostGroup, CreateHostGroup, GiveUp
    <3>2. QED BY <1>1, <3>1 DEF LocalRecord
  <2>3. CASE UseLunGroup \/ CreateLunGroup
    <3>1. local' = local \/ local' = [local EXCEPT !.luns = n, !.n = 1]
      BY <2>1, <2>3 DEF UseLunGroup, CreateLunGroup, GiveUp
    <3>2. QED BY <1>1, <3>1 DEF LocalRecord
  <2>4. CASE CreateView
    <3>1. local' = local \/ local' = [local EXCEPT !.join = n, !.n = 1]
      BY <2>1, <2>4 DEF CreateView, GiveUp
    <3>2. QED BY <1>1, <3>1 DEF LocalRecord
  <2>5. QED BY <1>9, <2>2, <2>3, <2>4
<1>10. QED BY <1>4, <1>5, <1>6, <1>7, <1>8, <1>9 DEF AddMapNext

LEMMA AddMapStarts ==
  ASSUME TypeInv, TypeInv', Orderly, StartInv, cmd = "start", AddMapNext
  PROVE  StartInv'
<1>1. pc \in AddMapStep /\ pc' \in AddMapStep /\ UNCHANGED <<cmd, todo, cur, report>>
  BY AddMapFrame
<1>2. local'.found = local.found
  BY AddMapFound
<1>3. pc \notin OperateSteps /\ pc' \notin {"preamble", "check", "list", "identify", "respond"}
  BY <1>1 DEF AddMapStep, OperateSteps
<1>4. QED BY <1>1, <1>2, <1>3, StartGoes

(* The loops over the devices. *)
LEMMA LoopStarts ==
  ASSUME TypeInv, TypeInv', Orderly, StartInv, cmd = "start",
         SkipDevice \/ CheckStatus \/ Operate
  PROVE  StartInv'
<1> USE DEF OperateSteps
<1>1. report \in [Lun -> Result] /\ todo \subseteq Lun /\ todo \subseteq Asked
  BY DEF TypeInv, TypeOK, ProcessTypeOK, ProcessInv
<1>2. CASE SkipDevice
  <2>1. PICK d \in todo : \E here, next :
          /\ \/ here = "operate" /\ next = "map"
             \/ here = "map" /\ next = "list"
             \/ here = "identify" /\ next = "respond"
          /\ pc = here /\ report[d] = "err" /\ Proceed(d, here, next)
          /\ UNCHANGED <<local, report>>
    BY <1>2 DEF SkipDevice, Skipped, At
  <2>2. QED BY <2>1, StartProceeds
<1>3. CASE CheckStatus
  <2>1. PICK d \in todo, result \in {"none", "err"} :
          /\ pc = "check" /\ Record(d, result) /\ Proceed(d, "check", "operate")
          /\ UNCHANGED local
    BY <1>3 DEF CheckStatus, At
  <2>2. Ready(d)
    BY <1>1, <2>1 DEF StartInv, Ready
  <2>3. \A e \in Lun \ {d} : report'[e] = report[e]
    BY <1>1, <2>1 DEF Record
  <2>4. QED BY <2>1, <2>2, <2>3, StartProceeds
<1>4. CASE Operate
  <2>1. PICK d \in todo :
          /\ pc = "operate" /\ report[d] = "none" /\ UNCHANGED <<local, report>>
          /\ \/ cur' = d /\ pc' = "create" /\ UNCHANGED <<cmd, todo>>
             \/ Proceed(d, "operate", "map")
    BY <1>4 DEF Operate, At
  <2>2. CASE pc' = "create" /\ UNCHANGED <<cmd, todo>>
    BY <2>1, <2>2, StartGoes DEF AddMapStep
  <2>3. CASE Proceed(d, "operate", "map")
    <3>1. Ready(d)
      BY <1>1, <2>1 DEF StartInv, Going
    <3>2. QED BY <2>1, <2>3, <3>1, StartProceeds
  <2>4. QED BY <2>1, <2>2, <2>3
<1>5. QED BY <1>2, <1>3, <1>4

(* The end of the operations on a device. *)
LEMMA EndOperateStarts ==
  ASSUME TypeInv, TypeInv', Orderly, StartInv, cmd = "start", pc \in OperateSteps,
         UNCHANGED local, NEW result \in {"none", "err"}, EndOperate(result),
         result = "none" => local.found[cur] \in active
  PROVE  StartInv'
<1>1. cur \in todo /\ cur \in Lun
  BY InOperate
<1>2. /\ \A e \in Lun \ {cur} : report'[e] = report[e]
      /\ report'[cur] = result
  BY <1>1 DEF EndOperate, Record, TypeInv, TypeOK, ProcessTypeOK
<1>3. Proceed(cur, "operate", "map")
  BY DEF EndOperate
<1>4. report'[cur] # "err" => Ready(cur)
  BY <1>2 DEF Ready
<1>5. QED BY <1>1, <1>2, <1>3, <1>4, StartProceeds

LEMMA OperateStarts ==
  ASSUME TypeInv, TypeInv', Orderly, StartInv, cmd = "start",
         CreateSnapshot \/ FindSnapshot \/ ActivateSnapshot \/ ActiveTime
  PROVE  StartInv'
<1>1. pc \in OperateSteps /\ cur \in Lun /\ local \in LocalRecord
  <2>1. pc \in OperateSteps
    BY DEF CreateSnapshot, FindSnapshot, ActivateSnapshot, ActiveTime, At, OperateSteps
  <2>2. QED BY <2>1, InOperate
<1>2. CASE EndOperate("err") /\ UNCHANGED local
  BY <1>1, <1>2, EndOperateStarts
<1>3. CASE EndOperate("none") /\ UNCHANGED local /\ local.found[cur] \in active
  BY <1>1, <1>3, EndOperateStarts
<1>4. ASSUME NEW step \in OperateSteps, Continue(step),
             \A d \in Lun \ {cur} : local'.found[d] = local.found[d]
      PROVE  StartInv'
  <2>1. /\ UNCHANGED <<cmd, report, todo, cur>> /\ pc' \in OperateSteps
    BY <1>4 DEF Continue
  <2>2. pc' \notin {"preamble", "check", "map", "list", "identify", "respond"} \cup AddMapStep
    BY <2>1 DEF OperateSteps, AddMapStep
  <2>3. QED BY <1>1, <1>4, <2>1, <2>2, StartGoes
<1>5. CASE CreateSnapshot \/ ActivateSnapshot \/ ActiveTime
  <2>1. UNCHANGED local
    BY <1>5 DEF CreateSnapshot, ActivateSnapshot, ActiveTime
  <2>2. \/ \E step \in OperateSteps : Continue(step)
        \/ EndOperate("err")
        \/ EndOperate("none") /\ local.found[cur] \in active
    BY <1>5 DEF CreateSnapshot, ActivateSnapshot, ActiveTime, OperateSteps
  <2>3. QED BY <1>2, <1>3, <1>4, <2>1, <2>2
<1>6. CASE FindSnapshot
  <2>1. \/ EndOperate("err") /\ UNCHANGED local
        \/ Continue("activate") /\ \E s : local' = [local EXCEPT !.found[cur] = s]
    BY <1>6 DEF FindSnapshot
  <2>2. ASSUME NEW s, local' = [local EXCEPT !.found[cur] = s], Continue("activate")
        PROVE  StartInv'
    <3>1. PICK f : f = [local.found EXCEPT ![cur] = s]
      OBVIOUS
    <3>2. \A d \in Lun \ {cur} : f[d] = local.found[d]
      BY <1>1, <3>1, LocalFields
    <3>3. local' = [local EXCEPT !.found = f]
      BY <2>2, <3>1
    <3>4. local'.found = f
      BY <1>1, <3>3 DEF LocalRecord
    <3>5. "activate" \in OperateSteps
      BY DEF OperateSteps
    <3>6. QED BY <1>4, <2>2, <3>2, <3>4, <3>5
  <2>3. QED BY <1>2, <2>1, <2>2
<1>7. QED BY <1>5, <1>6

(* The loops that map the snapshots and look for them in the list. *)
LEMMA MapStarts ==
  ASSUME TypeInv, TypeInv', Orderly, StartInv, MappedIsServed, cmd = "start",
         MapSnapshot \/ SnapshotMapped \/ ListMappings \/ Identify, cmd' = "start"
  PROVE  StartInv'
<1> USE DEF OperateSteps
<1>1. /\ report \in [Lun -> Result] /\ todo \subseteq Lun /\ todo \subseteq Asked
      /\ local \in LocalRecord
  BY DEF TypeInv, TypeOK, ProcessTypeOK, ProcessInv
<1>2. CASE MapSnapshot
  <2>1. /\ pc = "map" /\ pc' = "select" /\ UNCHANGED <<cmd, todo, report>>
        /\ \E o : local' = [local EXCEPT !.object = o, !.n = 1, !.hosts = Absent,
                                         !.luns = Absent, !.join = Absent]
    BY <1>2 DEF MapSnapshot, At
  <2>2. local'.found = local.found
    BY <1>1, <2>1 DEF LocalRecord
  <2>3. QED BY <2>1, <2>2, StartGoes DEF AddMapStep
<1>3. CASE SnapshotMapped
  <2>1. pc = "mapped" /\ Proceed(cur, "map", "list") /\ UNCHANGED <<local, report>>
    BY <1>3 DEF SnapshotMapped, At
  <2>2. /\ cur \in todo /\ cur \in Lun /\ cur \in Asked
        /\ local.object = local.found[cur]
    BY <2>1, InAddMap DEF TypeInv, ObjectInv, AddMapStep
  <2>3. report[cur] # "err" => Ready(cur) /\ ShownBy(cur)
    BY <2>1, <2>2 DEF StartInv, Going, MappedIsServed, ShownBy
  <2>4. QED BY <2>1, <2>2, <2>3, StartProceeds
<1>4. CASE ListMappings
  <2>1. /\ pc = "list" /\ Continue("identify")
        /\ \E rows : local' = [local EXCEPT !.rows = rows]
    BY <1>4 DEF ListMappings, Showmap, Fail, Vanish, At
  <2>2. local'.found = local.found
    BY <1>1, <2>1 DEF LocalRecord
  <2>3. QED BY <2>1, <2>2, StartGoes DEF Continue, AddMapStep
<1>5. CASE Identify
  <2>1. PICK d \in todo : \E w :
          /\ pc = "identify" /\ report[d] = "none"
          /\ local' = [local EXCEPT !.wwn = w, !.wwnOf[d] = w]
          /\ \E result : Record(d, result)
          /\ Proceed(d, "identify", "respond")
    BY <1>5 DEF Identify, At
  <2>2. local'.found = local.found
    BY <1>1, <2>1 DEF LocalRecord
  <2>3. \A e \in Lun \ {d} : report'[e] = report[e]
    BY <1>1, <2>1 DEF Record
  <2>4. Ready(d) /\ ShownBy(d)
    BY <1>1, <2>1 DEF StartInv, Going
  <2>5. QED BY <2>1, <2>2, <2>3, <2>4, StartProceeds
<1>6. QED BY <1>2, <1>3, <1>4, <1>5

LEMMA StopCommand == StopNext => cmd = "stop"
<1> USE DEF At
<1>1. ShowMappings \/ StopPick \/ FindTested \/ Examine \/ ShowHosts \/ Unmapped
        => cmd = "stop"
  BY DEF ShowMappings, StopPick, FindTested, Examine, ShowHosts, Unmapped
<1>2. DetachHosts \/ DetachLuns \/ DelView \/ TakeSnapshot \/ DelLunGroup \/ TakeHost
        => cmd = "stop"
  BY DEF DetachHosts, DetachLuns, DelView, TakeSnapshot, DelLunGroup, TakeHost, Request
<1>3. DelHostGroup \/ Disable \/ DelSnapshot => cmd = "stop"
  BY DEF DelHostGroup, Disable, DelSnapshot
<1>4. QED BY <1>1, <1>2, <1>3 DEF StopNext

LEMMA NextStarts ==
  ASSUME TypeInv, TypeInv', Orderly, StartInv, MappedIsServed, [Next]_vars
  PROVE  StartInv'
<1>1. SUFFICES ASSUME cmd' = "start" PROVE StartInv'
  BY DEF StartInv
<1>2. ASSUME NEW c \in Commands, NEW D \in SUBSET Lun, Begin(c, D) PROVE StartInv'
  <2>1. local' = FreshLocal /\ pc' = "preamble"
    BY <1>2 DEF Begin, TypeInv, ProcessInv, NoProcess
  <2>2. QED BY <2>1, NoneFound DEF FreshLocal
<1>3. ~Vanish /\ ~Respond /\ ~MapDone
  BY <1>1 DEF Vanish, Respond, MapDone, Proceed
<1>4. ASSUME cmd = "start" PROVE StartInv'
  <2>1. CASE Preamble
    <3>1. pc = "preamble" /\ pc' = "check" /\ UNCHANGED local
      BY <1>3, <1>4, <2>1 DEF Preamble, Fail, Continue
    <3>2. QED BY <1>4, <3>1, NoneFound DEF StartInv
  <2>2. CASE AddMapNext
    BY <1>4, <2>2, AddMapStarts
  <2>3. CASE StartNext
    <3>1. ~SnapshotNotMapped
      BY <1>3 DEF SnapshotNotMapped
    <3>2. QED BY <1>1, <1>4, <2>3, <3>1, LoopStarts, OperateStarts, MapStarts DEF StartNext
  <2>4. CASE UNCHANGED vars
    <3>1. UNCHANGED <<cmd, pc, todo, cur, local, report>>
      BY <2>4 DEF vars, procVars
    <3>2. CASE pc \in {"preamble", "check"}
      BY <1>4, <3>1, <3>2, NoneFound DEF StartInv
    <3>3. CASE pc \notin {"preamble", "check"}
      BY <1>4, <3>1, <3>3, StartGoes
    <3>4. QED BY <3>2, <3>3
  <2>5. ~Crash /\ ~MapNext /\ ~StopNext
    BY <1>3, <1>4, StopCommand DEF Crash, Fail, MapNext, MapPick, MapDone, At
  <2>6. QED
    BY <1>2, <1>3, <2>1, <2>2, <2>3, <2>4, <2>5 DEF Next, ProcessStep, Start
<1>5. QED BY <1>1, <1>2, <1>3, <1>4, ProcessKinds

----------------------------------------------------------------------------
(* TestInv: what SRM was told. *)
LEMMA TestedFrom ==
  ASSUME TypeInv, [Next]_vars, NEW d \in Lun, phase'[d] = "testing"
  PROVE  \/ phase[d] = "testing" /\ told'[d] = told[d]
         \/ /\ cmd = "start" /\ pc = "respond" /\ report[d] = "ok" /\ d \in Asked
            /\ told'[d].snap = local.found[d]
<1>1. phase \in [Lun -> Phase]
  BY DEF TypeInv, TypeOK, ProcessTypeOK
<1>2. ASSUME NEW c \in Commands, NEW D \in SUBSET Lun, Begin(c, D)
      PROVE  phase[d] = "testing" /\ told' = told
  BY <1>1, <1>2, CommandAssumption DEF Begin, UnderWay
<1>3. CASE Respond
  <2>1. /\ cmd \in {"map", "start", "stop"} /\ pc = "respond"
        /\ \A e \in Asked : phase[e] = UnderWay[cmd]
    BY <1>3, CommandAssumption DEF Respond, TypeInv, ProcessInv
  <2>2. CASE report[d] = "ok"
    <3>1. d \in Asked
      BY <2>2 DEF Asked
    <3>2. phase'[d] = Reached[cmd]
      BY <1>3, <2>2 DEF Respond
    <3>3. cmd = "start"
      BY <1>3, <2>1, <3>2 DEF Reached
    <3>4. told'[d] = [snap |-> local.found[d], wwn |-> local.wwnOf[d]]
      BY <1>3, <2>2, <3>3 DEF Respond
    <3>5. QED BY <2>1, <2>2, <3>1, <3>3, <3>4
  <2>3. CASE report[d] # "ok"
    <3>1. phase'[d] = phase[d]
      BY <1>3, <2>3 DEF Respond
    <3>2. told'[d] = told[d]
      BY <1>3, <2>3 DEF Respond
    <3>3. QED BY <3>1, <3>2
  <2>4. QED BY <2>2, <2>3
<1>4. MapDone => UNCHANGED planVars
  BY DEF MapDone, Proceed
<1>5. QED BY <1>2, <1>3, <1>4, ProcessKinds DEF planVars

(* An array without a group of that object shows it to no one. *)
LEMMA NothingServed ==
  ASSUME TypeInv, NEW d \in Lun, GroupsOf[d] # {}
  PROVE  ~Serves(NoObject, d)
<1>1. ArrayInv
  BY TypeParts
<1>2. SeenBy(NoObject) = {}
  <2>1. SUFFICES ASSUME NEW h \in SeenBy(NoObject) PROVE FALSE
    OBVIOUS
  <2>2. Sees(NoObject, h)
    BY <1>1, <2>1, SeenNow DEF SeenAsSees
  <2>3. Present(NoObject)
    BY <1>1, <2>2, SeesOwn DEF Sees
  <2>4. QED BY <2>3, ObjectFacts DEF Present
<1>3. QED BY <1>2 DEF Serves

LEMMA TestedStays ==
  ASSUME TypeInv, TypeInv', Orderly, NEW d \in Lun, phase[d] = "testing", Tested(d),
         told'[d] = told[d]
  PROVE  Tested(d)'
<1>1. PICK s \in SnapId : s = told[d].snap
  BY DEF Tested, TypeInv, TypeOK, ArrayTypeOK
<1>2. s \in active /\ snapOf[s] = d /\ Serves(s, d)
  BY <1>1 DEF Tested
<1>3. ~Undoing(s)
  <2>1. SUFFICES ASSUME Undoing(s) PROVE FALSE
    OBVIOUS
  <2>2. cmd = "stop" /\ pc \in StopSteps /\ pc \in RowSteps /\ s = local.object
    BY <2>1 DEF Undoing, StopSteps
  <2>3. cur = d /\ pc \in DeviceSteps
    BY <1>2, <2>2, InStop DEF SnapshotsOf
  <2>4. phase[d] = "stopping"
    BY <2>2, <2>3, AtDevice DEF UnderWay
  <2>5. QED BY <2>4
<1>4. s \in active' /\ snapOf'[s] = d
  BY <1>2, <1>3, AbsentFacts DEF Orderly, SnapshotsKept
<1>5. Serves(s, d)'
  BY <1>2, <1>3, ServesStays
<1>6. QED BY <1>1, <1>4, <1>5 DEF Tested, Serves

(* A device that is reported has a snapshot of its own, served and active. *)
LEMMA TestedNow ==
  ASSUME TypeInv, TypeInv', Orderly, StartInv, NEW d \in Asked, GroupsOf[d] # {},
         cmd = "start", pc = "respond", report[d] = "ok",
         told'[d].snap = local.found[d]
  PROVE  Tested(d)'
<1>1. d \in Lun /\ Going(d)
  BY DEF StartInv, Asked
<1>2. Serves(local.found[d], d) /\ Ready(d)
  BY <1>1 DEF Going, ShownBy, OperateSteps
<1>3. local.found[d] # NoObject
  BY <1>1, <1>2, NothingServed
<1>4. PICK s \in SnapId : s = local.found[d] /\ snapOf[s] = d /\ s \in active
  BY <1>1, <1>2, <1>3 DEF Ready, TypeInv, ObjectInv, SnapshotOf, SnapshotsOf
<1>5. ~Undoing(s) /\ Serves(s, d)
  BY <1>2, <1>4 DEF Undoing
<1>6. s \in active' /\ snapOf'[s] = d
  BY <1>1, <1>4, <1>5, AbsentFacts DEF Orderly, SnapshotsKept
<1>7. Serves(s, d)'
  BY <1>1, <1>5, ServesStays
<1>8. QED BY <1>4, <1>6, <1>7 DEF Tested, Serves

LEMMA TestStep ==
  ASSUME TestInv, [Next]_vars
  PROVE  TestInv'
<1>1. /\ MapInv /\ TypeInv /\ WantInv /\ MappedIsServed /\ StartInv
      /\ \A d \in Lun : phase[d] = "testing" /\ GroupsOf[d] # {} => Tested(d)
  BY DEF TestInv, MapInv, AccessInv
<1>2. MapInv' /\ TypeInv' /\ Orderly
  BY <1>1, MapStep, NextType, NextOrderly
<1>3. StartInv'
  BY <1>1, <1>2, NextStarts
<1>4. ASSUME NEW d \in Lun, phase'[d] = "testing", GroupsOf[d] # {} PROVE Tested(d)'
  BY <1>1, <1>2, <1>4, TestedFrom, TestedStays, TestedNow
<1>5. QED BY <1>2, <1>3, <1>4 DEF TestInv

LEMMA TestInit == Init => TestInv
<1> SUFFICES ASSUME Init PROVE TestInv
  OBVIOUS
<1>1. MapInv
  BY MapInit
<1>2. StartInv /\ \A d \in Lun : phase[d] # "testing"
  BY DEF Init, ProcessInit, StartInv
<1>3. QED BY <1>1, <1>2 DEF TestInv

(* A start gets each device past its loops as they are meant, and what it  *)
(* told SRM stays true until the stop, for a device with access groups.    *)
THEOREM TestInvariant == Spec => []TestInv
BY TestInit, TestStep, PTL DEF Spec

(* When SRM names access groups for each device, the snapshot it was told  *)
(* of is the LUN's, activated and served to those groups for as long as    *)
(* the test lasts: no start or stop of another device, no crash and no     *)
(* failed call of either takes that away. *)
THEOREM TestedCorrect ==
  ASSUME Grouped
  PROVE  Spec => []TestedIsServed
<1>1. TestInv => TestedIsServed
  BY DEF TestInv, Grouped, Tested, TestedIsServed
<1>2. QED BY <1>1, TestInvariant, PTL
=============================================================================
