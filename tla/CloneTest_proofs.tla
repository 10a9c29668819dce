--------------------------- MODULE CloneTest_proofs ---------------------------
(***************************************************************************)
(* The invariants of CloneSafety are inductive, for any file systems, LUNs *)
(* and hosts.  There is one lemma for each invariant and each action.      *)
(***************************************************************************)
EXTENDS CloneSafety, TLAPS

----------------------------------------------------------------------------
(* TypeInv: what a record of locals is made of, and what the frame of a     *)
(* step keeps.                                                              *)
LEMMA FreshType == FreshLocal \in LocalRecord
BY DEF FreshLocal, LocalRecord, Clone

LEMMA LocalEdits ==
  ASSUME NEW old \in LocalRecord, NEW d \in Device, NEW c \in Clone,
         NEW rows \in SUBSET Host, NEW exist \in BOOLEAN
  PROVE  /\ [old EXCEPT !.found[d] = c] \in LocalRecord
         /\ [old EXCEPT !.rows = rows] \in LocalRecord
         /\ [old EXCEPT !.wwn = c] \in LocalRecord
         /\ [old EXCEPT !.nfs = c] \in LocalRecord
         /\ [old EXCEPT !.rows = rows, !.found[d] = c] \in LocalRecord
         /\ [old EXCEPT !.exist = exist, !.rows = rows] \in LocalRecord
BY DEF LocalRecord

(* The fields of such a record, one by one.                                *)
LEMMA LocalFields ==
  ASSUME NEW l \in LocalRecord
  PROVE  /\ l.found \in [Device -> Clone] /\ l.nfs \in Clone
         /\ l.rows \in SUBSET Host /\ l.wwn \in Clone /\ l.exist \in BOOLEAN
BY DEF LocalRecord

LEMMA InitType == Init => TypeInv
<1> SUFFICES ASSUME Init PROVE TypeInv
  OBVIOUS
<1>1. TypeOK
  BY FreshType
  DEF Init, ArrayInit, ProcessInit, TypeOK, ArrayTypeOK, ProcessTypeOK, Phase,
      Step, Result, Clone
<1>2. Asked = {}
  BY DEF Init, ProcessInit, Asked
<1>3. TurnInv
  BY <1>2 DEF Init, ProcessInit, TurnInv, AtDevice, ForFileSystem, ForLun
<1>4. QED BY <1>1, <1>3 DEF TypeInv

(* SRM starts a process for devices that no command is under way for.      *)
LEMMA BeginType ==
  ASSUME TypeInv, NEW c \in {"start", "stop"}, NEW D \in SUBSET Device,
         Begin(c, D)
  PROVE  TypeInv'
<1>1. Asked' = D
  BY DEF Begin, Asked
<1>2. TypeOK'
  BY DEF Begin, TypeInv, TypeOK, ArrayTypeOK, ProcessTypeOK, arrayVars, Phase,
         Step, Result, Clone
<1>3. TurnInv'
  BY <1>1 DEF Begin, TurnInv, AtDevice, ForFileSystem, ForLun
<1>4. QED BY <1>2, <1>3 DEF TypeInv

(* A process that ends. *)
LEMMA VanishType ==
  ASSUME TypeInv, Vanish, ArrayTypeOK'
  PROVE  TypeInv'
<1>1. Asked' = {}
  BY DEF Vanish, Asked
<1>2. ProcessTypeOK'
  BY FreshType
  DEF Vanish, TypeInv, TypeOK, ProcessTypeOK, Step, Result, planVars
<1>3. TurnInv'
  BY <1>1 DEF Vanish, TurnInv, AtDevice, ForFileSystem, ForLun
<1>4. QED BY <1>2, <1>3 DEF TypeInv, TypeOK

(* A process that goes on with the device at hand. *)
LEMMA ContinueType ==
  ASSUME TypeInv, NEW step \in Step, Continue(step), ArrayTypeOK',
         local' \in LocalRecord, step # "idle", pc # "idle",
         step \in AtDevice => pc \in AtDevice,
         step \in ForFileSystem => Asked \subseteq FS,
         step \in ForLun => Asked \subseteq Device \ FS
  PROVE  TypeInv'
<1>1. Asked' = Asked
  BY DEF Continue, Asked
<1>2. ProcessTypeOK'
  BY DEF Continue, TypeInv, TypeOK, ProcessTypeOK, planVars
<1>3. TurnInv'
  BY <1>1 DEF Continue, TypeInv, TurnInv, planVars
<1>4. QED BY <1>2, <1>3 DEF TypeInv, TypeOK

(* A process that is through with a device. *)
LEMMA ProceedType ==
  ASSUME TypeInv, NEW d \in todo, NEW here \in Step, NEW next \in Step,
         Proceed(d, here, next), ArrayTypeOK', local' \in LocalRecord,
         report' = report \/ \E r \in Result \ {"absent"} : Record(d, r),
         {here, next} \cap (AtDevice \cup {"idle"}) = {}, pc # "idle",
         {here, next} \cap ForFileSystem # {} => Asked \subseteq FS,
         {here, next} \cap ForLun # {} => Asked \subseteq Device \ FS
  PROVE  TypeInv'
<1>1. Asked' = Asked
  BY DEF Asked, Record, TypeInv, TypeOK, ProcessTypeOK, TurnInv
<1>2. ProcessTypeOK'
  BY <1>1 DEF Proceed, Record, TypeInv, TypeOK, ProcessTypeOK, planVars, Asked
<1>3. TurnInv'
  BY <1>1 DEF Proceed, TypeInv, TurnInv, planVars
<1>4. QED BY <1>2, <1>3 DEF TypeInv, TypeOK

LEMMA SameArray ==
  ASSUME TypeInv, UNCHANGED arrayVars, stable' \in BOOLEAN
  PROVE  ArrayTypeOK'
BY DEF TypeInv, TypeOK, ArrayTypeOK, arrayVars

----------------------------------------------------------------------------
(* TypeInv, action by action. *)
LEMMA AddShareType ==
  ASSUME TypeInv, AddShare
  PROVE  TypeInv'
<1>1. PICK d \in todo :
        LET c == local.found[d]
        IN /\ report[d] = "none"
           /\ \/ c = NoObject /\ Vanish /\ UNCHANGED shared
              \/ /\ c # NoObject /\ shared' = shared \cup {c}
                 /\ local' = [local EXCEPT !.nfs = c]
                 /\ Proceed(d, "share", "list") /\ UNCHANGED report
              \/ /\ c # NoObject /\ Vanish
                 /\ shared' \in {shared, shared \cup {c}}
              \/ /\ c # NoObject
                 /\ shared' = shared \cup {c}
                 /\ cur' = d /\ pc' = "unshare"
                 /\ UNCHANGED <<cmd, todo, local, report, planVars, stable>>
  BY DEF AddShare, ShareFails
<1>2. /\ d \in Device /\ d \in Asked /\ At("start", "share")
      /\ UNCHANGED <<snapped, cloneOf, hosts, misled>>
  BY DEF AddShare, TypeInv, TypeOK, ProcessTypeOK, TurnInv
<1>3. /\ local \in LocalRecord /\ local.found[d] \in Clone
      /\ local.found[d] # NoObject => local.found[d] \in CloneId
  BY <1>2, LocalFields DEF TypeInv, TypeOK, ProcessTypeOK, Clone
<1>4. stable' \in BOOLEAN => ArrayTypeOK'
  BY <1>1, <1>2, <1>3 DEF TypeInv, TypeOK, ArrayTypeOK
<1>5. stable' = stable /\ stable \in BOOLEAN
  BY <1>1 DEF Vanish, Proceed, TypeInv, TypeOK, ArrayTypeOK
<1>6. ArrayTypeOK'
  BY <1>4, <1>5
<1>7. CASE Vanish
  BY <1>6, <1>7, VanishType
<1>8. CASE /\ local' = [local EXCEPT !.nfs = local.found[d]]
           /\ Proceed(d, "share", "list") /\ UNCHANGED report
  <2>1. local' \in LocalRecord
    BY <1>2, <1>3, <1>8, LocalEdits
  <2>2. QED
    BY <1>2, <1>6, <1>8, <2>1, ProceedType
    DEF At, Step, AtDevice, ForFileSystem, ForLun, TypeInv, TurnInv
<1>9. CASE /\ cur' = d /\ pc' = "unshare"
           /\ UNCHANGED <<cmd, todo, local, report, planVars, stable>>
  <2>1. Asked' = Asked
    BY <1>9 DEF Asked
  <2>2. ProcessTypeOK'
    BY <1>2, <1>9 DEF TypeInv, TypeOK, ProcessTypeOK, planVars, Step
  <2>3. TurnInv'
    BY <1>2, <1>9, <2>1
    DEF TypeInv, TurnInv, At, AtDevice, ForFileSystem, ForLun, planVars
  <2>4. QED BY <1>6, <2>2, <2>3 DEF TypeInv, TypeOK
<1>10. QED BY <1>1, <1>7, <1>8, <1>9

LEMMA ListMappingsType ==
  ASSUME TypeInv, ListMappings
  PROVE  TypeInv'
<1>1. ArrayTypeOK' /\ At("start", "list")
  BY SameArray DEF ListMappings, Fail, Vanish, TypeInv, TypeOK, ArrayTypeOK
<1>2. CASE Fail
  BY <1>1, <1>2, VanishType DEF Fail
<1>3. CASE /\ pc' = "respond"
           /\ report' = [d \in Device |-> IF report[d] = "none" THEN "ok"
                                                                ELSE report[d]]
           /\ UNCHANGED <<cmd, todo, cur, local, planVars, stable, arrayVars>>
  <2>1. Asked' = Asked
    BY <1>3 DEF Asked
  <2>2. ProcessTypeOK'
    BY <1>3 DEF TypeInv, TypeOK, ProcessTypeOK, planVars, Step, Result
  <2>3. TurnInv'
    BY <1>1, <1>3, <2>1
    DEF TypeInv, TurnInv, At, AtDevice, ForFileSystem, ForLun, planVars
  <2>4. QED BY <1>1, <2>2, <2>3 DEF TypeInv, TypeOK
<1>4. QED BY <1>2, <1>3 DEF ListMappings

LEMMA MapCloneType ==
  ASSUME TypeInv, MapClone
  PROVE  TypeInv'
<1>1. PICK d \in todo :
        \/ /\ local.found[d] # NoObject
           /\ local' = [local EXCEPT !.rows = Host \ hosts[local.found[d]]]
           /\ cur' = d /\ pc' = "mapHost"
           /\ UNCHANGED <<cmd, todo, report, planVars, stable>>
        \/ Vanish
  BY DEF MapClone
<1>2. d \in Device /\ d \in Asked /\ At("start", "map") /\ local \in LocalRecord
  BY DEF MapClone, TypeInv, TypeOK, ProcessTypeOK, TurnInv
<1>3. ArrayTypeOK'
  BY <1>1, SameArray DEF MapClone, Vanish, TypeInv, TypeOK, ArrayTypeOK
<1>4. CASE Vanish
  BY <1>3, <1>4, VanishType
<1>5. CASE /\ local' = [local EXCEPT !.rows = Host \ hosts[local.found[d]]]
           /\ cur' = d /\ pc' = "mapHost"
           /\ UNCHANGED <<cmd, todo, report, planVars, stable>>
  <2>1. Asked' = Asked
    BY <1>5 DEF Asked
  <2>2. PICK rows \in SUBSET Host : local' = [local EXCEPT !.rows = rows]
    BY <1>5
  <2>3. local' \in LocalRecord
    BY <1>2, <2>2 DEF LocalRecord
  <2>4. ProcessTypeOK'
    BY <1>2, <1>5, <2>3 DEF TypeInv, TypeOK, ProcessTypeOK, planVars, Step
  <2>5. TurnInv'
    BY <1>2, <1>5, <2>1
    DEF TypeInv, TurnInv, At, AtDevice, ForFileSystem, ForLun, planVars
  <2>6. QED BY <1>3, <2>4, <2>5 DEF TypeInv, TypeOK
<1>6. QED BY <1>1, <1>4, <1>5

(* What the three calls through fullRestPkg may do, seen from outside: the  *)
(* array is changed or not, and whoever is answered OK of a change that was *)
(* not made has been misled.                                                *)
LEMMA CloneSnapshotEffect ==
  ASSUME TypeInv, CloneSnapshot
  PROVE  /\ At("start", "clone") /\ cur \in todo /\ cur \in Device \ FS
         /\ UNCHANGED <<snapped, shared, hosts, local>>
         /\ misled' \in {misled, misled \cup {cur}}
         /\ \/ cloneOf' = cloneOf
            \/ /\ ClonesOf(cur) = {}
               /\ \E c \in ClonesOf(NoObject) :
                    cloneOf' = [cloneOf EXCEPT ![c] = cur]
         /\ Continue("find") \/ EndOperate("err")
<1>1. /\ At("start", "clone") /\ cur \in todo /\ cur \in Device \ FS
      /\ UNCHANGED <<snapped, shared, hosts, local>>
  BY DEF CloneSnapshot, At, AtDevice, ForLun, TypeInv, TypeOK, ProcessTypeOK,
         TurnInv
<1>2. PICK reply \in Reply :
        /\ \/ /\ ClonesOf(cur) = {}
              /\ \E c \in ClonesOf(NoObject) :
                   FullRestPkg(cur, cloneOf, [cloneOf EXCEPT ![c] = cur], reply)
           \/ UNCHANGED cloneOf /\ Mislead(cur, reply)
        /\ IF reply = "ok" THEN Continue("find") ELSE EndOperate("err")
  BY Zenon DEF CloneSnapshot
<1>3. misled' \in {misled, misled \cup {cur}}
  BY <1>2 DEF FullRestPkg, Mislead
<1>4. \/ cloneOf' = cloneOf
      \/ /\ ClonesOf(cur) = {}
         /\ \E c \in ClonesOf(NoObject) : cloneOf' = [cloneOf EXCEPT ![c] = cur]
  BY <1>2 DEF FullRestPkg, Change
<1>5. QED BY <1>1, <1>2, <1>3, <1>4

LEMMA MapHostEffect ==
  ASSUME TypeInv, MapHost
  PROVE  /\ At("start", "mapHost") /\ cur \in todo /\ cur \in Device \ FS
         /\ UNCHANGED <<snapped, cloneOf, shared>>
         /\ misled' \in {misled, misled \cup {cur}}
         /\ \E h \in local.rows :
              LET after == [hosts EXCEPT ![local.found[cur]] = @ \cup {h}]
              IN /\ hosts' \in {hosts, after}
                 /\ \/ Vanish
                    \/ /\ hosts' = after \/ cur \in misled'
                       /\ local' = [local EXCEPT !.rows = @ \ {h}]
                       /\ Continue("mapHost")
<1>1. /\ At("start", "mapHost") /\ cur \in todo /\ cur \in Device \ FS
      /\ UNCHANGED <<snapped, cloneOf, shared>>
  BY DEF MapHost, At, AtDevice, ForLun, TypeInv, TypeOK, ProcessTypeOK, TurnInv
<1>2. PICK h \in local.rows, reply \in Outcome :
        /\ FullRestPkg(cur, hosts, [hosts EXCEPT ![local.found[cur]] = @ \cup {h}],
                       reply)
        /\ IF reply = "err" THEN Vanish
           ELSE local' = [local EXCEPT !.rows = @ \ {h}] /\ Continue("mapHost")
  BY Zenon DEF MapHost, NotMapped
<1>3. PICK after : after = [hosts EXCEPT ![local.found[cur]] = @ \cup {h}]
  OBVIOUS
<1>4. reply \in Reply
  BY DEF Outcome, Reply
<1>5. /\ hosts' \in {hosts, after} /\ misled' \in {misled, misled \cup {cur}}
      /\ reply = "err" \/ hosts' = after \/ cur \in misled'
  BY <1>2, <1>3, <1>4 DEF FullRestPkg, Change, Mislead, Reply
<1>6. QED BY <1>1, <1>2, <1>3, <1>5

LEMMA DelLunEffect ==
  ASSUME TypeInv, DelLun
  PROVE  /\ At("stop", "delLun") /\ cur \in todo /\ cur \in Device \ FS
         /\ UNCHANGED <<snapped, shared, hosts, local>>
         /\ misled' \in {misled, misled \cup {cur}}
         /\ \/ cloneOf' = cloneOf
            \/ \E c \in ClonesOf(cur) : cloneOf' = [cloneOf EXCEPT ![c] = NoObject]
         /\ \/ EndStop("err")
            \/ /\ AfterLun
               /\ \/ ClonesOf(cur) = {} /\ cloneOf' = cloneOf
                  \/ cur \in misled'
                  \/ \E c \in ClonesOf(cur) :
                       cloneOf' = [cloneOf EXCEPT ![c] = NoObject]
<1>1. /\ At("stop", "delLun") /\ cur \in todo /\ cur \in Device \ FS
      /\ UNCHANGED <<snapped, shared, hosts, local>>
  BY DEF DelLun, At, AtDevice, ForLun, TypeInv, TypeOK, ProcessTypeOK, TurnInv
<1>2. PICK reply \in Reply :
        /\ \/ ClonesOf(cur) = {} /\ UNCHANGED <<cloneOf, misled>>
           \/ \E c \in ClonesOf(cur) :
                FullRestPkg(cur, cloneOf, [cloneOf EXCEPT ![c] = NoObject], reply)
           \/ UNCHANGED cloneOf /\ Mislead(cur, reply)
        /\ IF reply = "ok" THEN AfterLun ELSE EndStop("err")
  BY Zenon DEF DelLun
<1>3. /\ misled' \in {misled, misled \cup {cur}}
      /\ \/ cloneOf' = cloneOf
         \/ \E c \in ClonesOf(cur) : cloneOf' = [cloneOf EXCEPT ![c] = NoObject]
      /\ \/ reply # "ok"
         \/ ClonesOf(cur) = {} /\ cloneOf' = cloneOf
         \/ cur \in misled'
         \/ \E c \in ClonesOf(cur) : cloneOf' = [cloneOf EXCEPT ![c] = NoObject]
  BY <1>2 DEF FullRestPkg, Change, Mislead
<1>4. QED BY <1>1, <1>2, <1>3

LEMMA MapHostType ==
  ASSUME TypeInv, MapHost
  PROVE  TypeInv'
<1>1. /\ At("start", "mapHost") /\ cur \in Device \ FS
      /\ UNCHANGED <<snapped, cloneOf, shared>>
      /\ misled' \in {misled, misled \cup {cur}}
  BY MapHostEffect
<1>2. PICK h \in local.rows :
        /\ hosts' \in {hosts, [hosts EXCEPT ![local.found[cur]] = @ \cup {h}]}
        /\ \/ Vanish
           \/ local' = [local EXCEPT !.rows = @ \ {h}] /\ Continue("mapHost")
  BY MapHostEffect
<1>3. local \in LocalRecord /\ h \in Host /\ local.rows \in SUBSET Host
  BY LocalFields DEF TypeInv, TypeOK, ProcessTypeOK
<1>4. stable' = stable
  BY <1>2 DEF Vanish, Continue
<1>5. ArrayTypeOK'
  BY <1>1, <1>2, <1>3, <1>4 DEF TypeInv, TypeOK, ArrayTypeOK
<1>6. CASE Vanish
  BY <1>5, <1>6, VanishType
<1>7. CASE local' = [local EXCEPT !.rows = @ \ {h}] /\ Continue("mapHost")
  <2>1. PICK rows \in SUBSET Host : local' = [local EXCEPT !.rows = rows]
    BY <1>3, <1>7
  <2>2. local' \in LocalRecord
    BY <1>3, <2>1 DEF LocalRecord
  <2>3. QED
    BY <1>1, <1>5, <1>7, <2>2, ContinueType
    DEF At, Step, AtDevice, ForFileSystem, ForLun, TypeInv, TurnInv
<1>8. QED BY <1>2, <1>6, <1>7

LEMMA IdentifyType ==
  ASSUME TypeInv, Identify
  PROVE  TypeInv'
<1>1. PICK d \in todo : \E wwn \in {local.found[d], local.wwn} :
        \/ /\ local' = [local EXCEPT !.wwn = wwn]
           /\ Record(d, IF wwn = NoObject THEN "err" ELSE "ok")
           /\ Proceed(d, "identify", "respond")
        \/ Vanish
  BY DEF Identify
<1>2. d \in Device /\ At("start", "identify") /\ local \in LocalRecord
  BY DEF Identify, TypeInv, TypeOK, ProcessTypeOK
<1>3. PICK wwn \in Clone :
        \/ /\ local' = [local EXCEPT !.wwn = wwn]
           /\ Record(d, IF wwn = NoObject THEN "err" ELSE "ok")
           /\ Proceed(d, "identify", "respond")
        \/ Vanish
  BY <1>1, <1>2, LocalFields
<1>4. ArrayTypeOK'
  BY <1>3, SameArray
  DEF Identify, Vanish, Proceed, TypeInv, TypeOK, ArrayTypeOK
<1>5. CASE Vanish
  BY <1>4, <1>5, VanishType
<1>6. CASE /\ local' = [local EXCEPT !.wwn = wwn]
           /\ Record(d, IF wwn = NoObject THEN "err" ELSE "ok")
           /\ Proceed(d, "identify", "respond")
  <2>1. local' \in LocalRecord
    BY <1>2, <1>6, LocalEdits
  <2>2. \E r \in Result \ {"absent"} : Record(d, r)
    BY <1>6 DEF Result
  <2>3. QED
    BY <1>2, <1>4, <1>6, <2>1, <2>2, ProceedType
    DEF At, Step, AtDevice, ForFileSystem, ForLun, TypeInv, TurnInv
<1>7. QED BY <1>3, <1>5, <1>6

LEMMA FindSnapshotType ==
  ASSUME TypeInv, FindSnapshot
  PROVE  TypeInv'
<1>1. /\ At("stop", "find") /\ cur \in todo /\ cur \in Device \ FS
      /\ local \in LocalRecord
  BY DEF FindSnapshot, At, AtDevice, TypeInv, TypeOK, ProcessTypeOK, TurnInv
<1>2. ArrayTypeOK'
  BY SameArray
  DEF FindSnapshot, Continue, EndStop, Proceed, TypeInv, TypeOK, ArrayTypeOK
<1>3. CASE EndStop("err") /\ UNCHANGED local
  BY <1>1, <1>2, <1>3, ProceedType
  DEF EndStop, At, Step, Result, AtDevice, ForFileSystem, ForLun
<1>4. CASE /\ local' = [local EXCEPT !.exist = cur \in snapped, !.rows = {}]
           /\ Continue(IF cur \in snapped THEN "showRows" ELSE "delLun")
  <2>1. PICK exist \in BOOLEAN : exist = (cur \in snapped)
    <3>1. (cur \in snapped) \in BOOLEAN
      OBVIOUS
    <3>2. QED BY <3>1
  <2>2. PICK rows \in SUBSET Host : rows = {}
    OBVIOUS
  <2>3. local' = [local EXCEPT !.exist = exist, !.rows = rows]
    BY <1>4, <2>1, <2>2
  <2>4. local' \in LocalRecord
    BY <1>1, <2>3 DEF LocalRecord
  <2>5. Asked \subseteq Device \ FS
    BY <1>1 DEF TypeInv, TypeOK, ProcessTypeOK, TurnInv
  <2>6. PICK step \in {"showRows", "delLun"} : Continue(step)
    BY <1>4
  <2>7. QED
    BY <1>1, <1>2, <2>4, <2>5, <2>6, ContinueType
    DEF At, Step, AtDevice, ForFileSystem, ForLun
<1>5. QED BY <1>3, <1>4 DEF FindSnapshot

LEMMA ShowRowsType ==
  ASSUME TypeInv, ShowRows
  PROVE  TypeInv'
<1>1. /\ At("stop", "showRows") /\ cur \in todo /\ cur \in Device
      /\ local \in LocalRecord
  BY DEF ShowRows, At, AtDevice, TypeInv, TypeOK, ProcessTypeOK, TurnInv
<1>2. ArrayTypeOK'
  BY SameArray
  DEF ShowRows, Continue, EndStop, Proceed, TypeInv, TypeOK, ArrayTypeOK
<1>3. CASE EndStop("err") /\ UNCHANGED local
  BY <1>1, <1>2, <1>3, ProceedType
  DEF EndStop, At, Step, Result, AtDevice, ForFileSystem, ForLun, TurnInv
<1>4. CASE /\ \E c \in ClonesOf(cur), seen \in SUBSET Host :
                local' = [local EXCEPT !.rows = seen, !.found[cur] = c]
           /\ Continue("unmap")
  <2>1. PICK c \in Clone, seen \in SUBSET Host :
          local' = [local EXCEPT !.rows = seen, !.found[cur] = c]
    BY <1>4 DEF ClonesOf, Clone
  <2>2. local' \in LocalRecord
    BY <1>1, <2>1, LocalEdits
  <2>3. QED
    BY <1>1, <1>2, <1>4, <2>2, ContinueType
    DEF At, Step, AtDevice, ForFileSystem, ForLun, TypeInv, TurnInv
<1>5. QED BY <1>3, <1>4 DEF ShowRows

LEMMA PreambleType ==
  ASSUME TypeInv, Preamble
  PROVE  TypeInv'
<1>1. ArrayTypeOK' /\ local' \in LocalRecord
  BY FreshType
  DEF Preamble, TypeInv, TypeOK, ArrayTypeOK, ProcessTypeOK, arrayVars,
      Continue, Vanish, Fail
<1>2. QED
  BY <1>1, VanishType, ContinueType
  DEF Preamble, At, Fail, Step, AtDevice, ForFileSystem, ForLun, TurnInv

LEMMA ShowMappingsType ==
  ASSUME TypeInv, ShowMappings
  PROVE  TypeInv'
<1>1. ArrayTypeOK' /\ local' \in LocalRecord
  BY FreshType
  DEF ShowMappings, TypeInv, TypeOK, ArrayTypeOK, ProcessTypeOK, arrayVars,
      Continue, Vanish, Fail
<1>2. QED
  BY <1>1, VanishType, ContinueType
  DEF ShowMappings, At, Fail, Step, AtDevice, ForFileSystem, ForLun, TurnInv

LEMMA UnshareType ==
  ASSUME TypeInv, Unshare
  PROVE  TypeInv'
<1>1. ArrayTypeOK' /\ local' \in LocalRecord
  BY FreshType
  DEF Unshare, TypeInv, TypeOK, ArrayTypeOK, ProcessTypeOK, Continue, Vanish,
      Change
<1>2. QED
  BY <1>1, VanishType, ContinueType
  DEF Unshare, At, Step, AtDevice, ForFileSystem, ForLun, TypeInv, TurnInv

LEMMA CheckStatusType ==
  ASSUME TypeInv, CheckStatus
  PROVE  TypeInv'
BY DEF CheckStatus, TypeInv, TypeOK, ArrayTypeOK, ProcessTypeOK, arrayVars,
       planVars, Proceed, Record, TurnInv, Asked, Step, Result, AtDevice,
       ForFileSystem, ForLun

LEMMA OperateType ==
  ASSUME TypeInv, Operate
  PROVE  TypeInv'
BY DEF Operate, CopyOf, TypeInv, TypeOK, ArrayTypeOK, ProcessTypeOK,
   arrayVars,
       planVars, Proceed, MapLoop, TurnInv, Asked, Step, AtDevice,
       ForFileSystem, ForLun

LEMMA SkipDeviceType ==
  ASSUME TypeInv, SkipDevice
  PROVE  TypeInv'
BY DEF SkipDevice, Skipped, TypeInv, TypeOK, ArrayTypeOK, ProcessTypeOK,
       arrayVars, planVars, At, Proceed, MapLoop, TurnInv, Asked, Step,
       AtDevice, ForFileSystem, ForLun

LEMMA StopPickType ==
  ASSUME TypeInv, StopPick
  PROVE  TypeInv'
BY DEF StopPick, TypeInv, TypeOK, ArrayTypeOK, ProcessTypeOK, arrayVars,
       planVars, Proceed, Record, TurnInv, Asked, Step, Result, AtDevice,
       ForFileSystem, ForLun

LEMMA CreateCloneType ==
  ASSUME TypeInv, CreateClone
  PROVE  TypeInv'
BY DEF CreateClone, TypeInv, TypeOK, ArrayTypeOK, ProcessTypeOK, planVars, At,
       Continue, Proceed, Record, Change, EndOperate, MapLoop, TurnInv, Asked,
       Step, Result, AtDevice, ForFileSystem, ForLun

LEMMA DateCloneType ==
  ASSUME TypeInv, DateClone
  PROVE  TypeInv'
BY DEF DateClone, TypeInv, TypeOK, ArrayTypeOK, ProcessTypeOK, arrayVars,
       planVars, At, Proceed, Record, EndOperate, MapLoop, ClonesOf, TurnInv,
       Asked, LocalRecord, Step, Result, Clone, AtDevice, ForLun

LEMMA ReshareType ==
  ASSUME TypeInv, Reshare
  PROVE  TypeInv'
BY DEF Reshare, TypeInv, TypeOK, ArrayTypeOK, ProcessTypeOK, arrayVars,
       planVars, Vanish, TurnInv, Asked, FreshLocal, LocalRecord, Step,
       Result,
       Clone, AtDevice

LEMMA FindCloneType ==
  ASSUME TypeInv, FindClone
  PROVE  TypeInv'
BY DEF FindClone, TypeInv, TypeOK, ArrayTypeOK, ProcessTypeOK, arrayVars,
       planVars, At, Continue, Proceed, Record, EndStop, ClonesOf, TurnInv,
       Asked, LocalRecord, Step, Result, Clone, AtDevice, ForLun

LEMMA FindShareType ==
  ASSUME TypeInv, FindShare
  PROVE  TypeInv'
BY DEF FindShare, NextOf, TypeInv, TypeOK, ArrayTypeOK, ProcessTypeOK,
       arrayVars, planVars, At, Continue, Proceed, Record, EndStop, TurnInv,
       Asked, Step, Result, AtDevice, ForFileSystem, ForLun

LEMMA DelShareType ==
  ASSUME TypeInv, DelShare
  PROVE  TypeInv'
BY DEF DelShare, TypeInv, TypeOK, ArrayTypeOK, ProcessTypeOK, planVars, At,
       Continue, Proceed, Record, Change, EndStop, TurnInv, Asked, Step,
       Result, AtDevice, ForFileSystem, ForLun

LEMMA DelCloneType ==
  ASSUME TypeInv, DelClone
  PROVE  TypeInv'
BY DEF DelClone, DeleteFails, TypeInv, TypeOK, ArrayTypeOK, ProcessTypeOK,
       planVars, At, Proceed, Record, Change, EndStop, TurnInv, Asked, Step,
       Result, AtDevice, ForFileSystem, ForLun

LEMMA CreateSnapshotType ==
  ASSUME TypeInv, CreateSnapshot
  PROVE  TypeInv'
BY DEF CreateSnapshot, TypeInv, TypeOK, ArrayTypeOK, ProcessTypeOK, planVars,
       At, Continue, Proceed, Record, Change, EndOperate, MapLoop, TurnInv,
       Asked, Step, Result, AtDevice, ForFileSystem, ForLun

LEMMA CloneSnapshotType ==
  ASSUME TypeInv, CloneSnapshot
  PROVE  TypeInv'
<1>1. /\ At("start", "clone") /\ cur \in todo /\ cur \in Device \ FS
      /\ UNCHANGED <<snapped, shared, hosts, local>>
      /\ misled' \in {misled, misled \cup {cur}}
      /\ cloneOf' \in [CloneId -> Device \cup {NoObject}]
      /\ Continue("find") \/ EndOperate("err")
  BY CloneSnapshotEffect DEF ClonesOf, TypeInv, TypeOK, ArrayTypeOK
<1>2. ArrayTypeOK'
  BY <1>1 DEF Continue, EndOperate, Proceed, TypeInv, TypeOK, ArrayTypeOK
<1>3. local' \in LocalRecord /\ Asked \subseteq Device \ FS
  BY <1>1 DEF At, ForLun, TypeInv, TypeOK, ProcessTypeOK, TurnInv
<1>4. CASE Continue("find")
  BY <1>1, <1>2, <1>3, <1>4, ContinueType
  DEF At, Step, AtDevice, ForFileSystem, ForLun
<1>5. CASE EndOperate("err")
  <2>1. MapLoop \in {"share", "map"}
    BY DEF MapLoop
  <2>2. MapLoop = "share" => Asked \subseteq FS
    BY DEF MapLoop
  <2>3. QED
    BY <1>1, <1>2, <1>3, <1>5, <2>1, <2>2, ProceedType
    DEF EndOperate, At, Step, Result, AtDevice, ForFileSystem, ForLun
<1>6. QED BY <1>1, <1>4, <1>5

LEMMA FindLunType ==
  ASSUME TypeInv, FindLun
  PROVE  TypeInv'
BY DEF FindLun, TypeInv, TypeOK, ArrayTypeOK, ProcessTypeOK, arrayVars,
       planVars, At, Proceed, Record, EndOperate, MapLoop, ClonesOf, TurnInv,
       Asked, LocalRecord, Step, Result, Clone, AtDevice, ForFileSystem

LEMMA MappedType ==
  ASSUME TypeInv, Mapped
  PROVE  TypeInv'
BY DEF Mapped, TypeInv, TypeOK, ArrayTypeOK, ProcessTypeOK, arrayVars,
       planVars, At, Proceed, TurnInv, Asked, Step, AtDevice, ForFileSystem,
       ForLun

LEMMA UnmapType ==
  ASSUME TypeInv, Unmap
  PROVE  TypeInv'
BY DEF Unmap, TypeInv, TypeOK, ArrayTypeOK, ProcessTypeOK, planVars, At,
       Continue, Change, TurnInv, Asked, LocalRecord

LEMMA UnmappedType ==
  ASSUME TypeInv, Unmapped
  PROVE  TypeInv'
BY DEF Unmapped, TypeInv, TypeOK, ArrayTypeOK, ProcessTypeOK, arrayVars,
       planVars, At, Continue, TurnInv, Asked, Step, AtDevice, ForFileSystem,
       ForLun

LEMMA DelLunType ==
  ASSUME TypeInv, DelLun
  PROVE  TypeInv'
<1>1. /\ At("stop", "delLun") /\ cur \in todo /\ cur \in Device \ FS
      /\ UNCHANGED <<snapped, shared, hosts, local>>
      /\ misled' \in {misled, misled \cup {cur}}
      /\ cloneOf' \in [CloneId -> Device \cup {NoObject}]
      /\ Continue("delSnap") \/ EndStop("ok") \/ EndStop("err")
  BY DelLunEffect DEF AfterLun, ClonesOf, TypeInv, TypeOK, ArrayTypeOK
<1>2. ArrayTypeOK'
  BY <1>1 DEF Continue, EndStop, Proceed, TypeInv, TypeOK, ArrayTypeOK
<1>3. local' \in LocalRecord /\ Asked \subseteq Device \ FS
  BY <1>1 DEF At, ForLun, TypeInv, TypeOK, ProcessTypeOK, TurnInv
<1>4. CASE Continue("delSnap")
  BY <1>1, <1>2, <1>3, <1>4, ContinueType
  DEF At, Step, AtDevice, ForFileSystem, ForLun
<1>5. CASE EndStop("ok") \/ EndStop("err")
  BY <1>1, <1>2, <1>3, <1>5, ProceedType
  DEF EndStop, At, Step, Result, AtDevice, ForFileSystem, ForLun
<1>6. QED BY <1>1, <1>4, <1>5

LEMMA DelSnapshotType ==
  ASSUME TypeInv, DelSnapshot
  PROVE  TypeInv'
<1>1. /\ At("stop", "delSnap") /\ cur \in todo /\ cur \in Device \ FS
      /\ UNCHANGED <<cloneOf, shared, hosts, misled, local>>
      /\ snapped' \subseteq snapped
      /\ EndStop("ok") \/ EndStop("err")
  BY DEF DelSnapshot, Change, Outcome, Reply, At, AtDevice, ForLun, TypeInv,
         TypeOK, ProcessTypeOK, TurnInv
<1>2. ArrayTypeOK'
  BY <1>1 DEF EndStop, Proceed, TypeInv, TypeOK, ArrayTypeOK
<1>3. local' \in LocalRecord /\ Asked \subseteq Device \ FS
  BY <1>1 DEF At, ForLun, TypeInv, TypeOK, ProcessTypeOK, TurnInv
<1>4. QED
  BY <1>1, <1>2, <1>3, ProceedType
  DEF EndStop, At, Step, Result, AtDevice, ForFileSystem, ForLun

LEMMA RespondType ==
  ASSUME TypeInv, Respond
  PROVE  TypeInv'
BY DEF Respond, TypeInv, TypeOK, ArrayTypeOK, ProcessTypeOK, arrayVars,
       TurnInv, Asked, FreshLocal, LocalRecord, Phase, Step, Result, Clone,
       AtDevice

LEMMA CrashType ==
  ASSUME TypeInv, Crash
  PROVE  TypeInv'
BY DEF Crash, TypeInv, TypeOK, ArrayTypeOK, ProcessTypeOK, arrayVars,
   planVars,
       Vanish, Fail, TurnInv, Asked, FreshLocal, LocalRecord, Step, Result,
       Clone, AtDevice

LEMMA StabilizeType ==
  ASSUME TypeInv, Stabilize
  PROVE  TypeInv'
BY DEF Stabilize, TypeInv, TypeOK, ArrayTypeOK, ProcessTypeOK, arrayVars,
       planVars, procVars, TurnInv, Asked

(* Every step keeps TypeInv.                                               *)
LEMMA NextType ==
  ASSUME TypeInv, [Next]_vars
  PROVE  TypeInv'
<1>1. CASE UNCHANGED vars
  BY <1>1
  DEF vars, arrayVars, planVars, procVars, TypeInv, TypeOK, ArrayTypeOK,
      ProcessTypeOK, TurnInv, Asked
<1>2. CASE Start
  BY <1>2, BeginType DEF Start
<1>3. CASE ProcessStep
  BY <1>3, PreambleType, CheckStatusType, OperateType, SkipDeviceType,
     StopPickType, CreateCloneType, DateCloneType, AddShareType, UnshareType,
     ReshareType, ListMappingsType, ShowMappingsType, FindCloneType,
     FindShareType, DelShareType, DelCloneType, CreateSnapshotType,
     CloneSnapshotType, FindLunType, MapCloneType, MapHostType, MappedType,
     IdentifyType, FindSnapshotType, ShowRowsType, UnmapType, UnmappedType,
     DelLunType, DelSnapshotType, RespondType
  DEF ProcessStep, FileSystemNext, FusionNext
<1>4. CASE Crash
  BY <1>4, CrashType
<1>5. CASE Stabilize
  BY <1>5, StabilizeType
<1>6. QED BY <1>1, <1>2, <1>3, <1>4, <1>5 DEF Next

(* A process is at devices of its command only, all of one kind, whatever  *)
(* fails or is killed (the loops of TestFailoverStart and TestFailoverStop). *)
THEOREM TypeInvariant == Spec => []TypeInv
BY InitType, NextType, PTL DEF Spec

(* The types of all the variables.                                         *)
THEOREM TypeCorrect == Spec => []TypeOK
<1>1. TypeInv => TypeOK
  BY DEF TypeInv
<1>2. QED BY <1>1, TypeInvariant, PTL

----------------------------------------------------------------------------
(* CopyInv, action by action.  A step changes the copies of the device at  *)
(* hand alone; the others are as they were.                                *)
LEMMA PreambleCopies ==
  ASSUME TypeInv, CopyInv, Preamble
  PROVE  CopyInv'
<1>1. OneClone'
 BY DEF Preamble, CopyInv, OneClone, arrayVars, Continue, Vanish, Fail, Fails
<1>2. KnownInv'
 BY DEF Preamble, CopyInv, KnownInv, arrayVars, Continue, Vanish, Fail,
        ClonesOf, Asked
<1>3. GoneInv'
 BY DEF Preamble, CopyInv, GoneInv, Gone, StoppedIsGone, arrayVars, planVars,
        Continue, Vanish, Fail, ClonesOf
<1>4. QED BY <1>1, <1>2, <1>3 DEF CopyInv

LEMMA CheckStatusCopies ==
  ASSUME TypeInv, CopyInv, CheckStatus
  PROVE  CopyInv'
<1>1. OneClone'
 BY DEF CheckStatus, CopyInv, OneClone, KnownInv, arrayVars, At, Proceed,
        Record
<1>2. KnownInv'
 BY DEF CheckStatus, CopyInv, KnownInv, arrayVars, Proceed, Record, ClonesOf,
        Asked
<1>3. GoneInv'
 BY DEF CheckStatus, CopyInv, GoneInv, Gone, StoppedIsGone, arrayVars,
        planVars, Proceed, Record, ClonesOf
<1>4. QED BY <1>1, <1>2, <1>3 DEF CopyInv

LEMMA OperateCopies ==
  ASSUME TypeInv, CopyInv, Operate
  PROVE  CopyInv'
<1>1. OneClone'
 BY DEF Operate, CopyOf, MapLoop, CopyInv, OneClone, arrayVars, Proceed,
        MapLoop
<1>2. KnownInv'
 BY DEF Operate, CopyOf, CopyInv, KnownInv, arrayVars, Proceed, MapLoop,
        ClonesOf, Asked
<1>3. GoneInv'
 BY DEF Operate, CopyInv, GoneInv, Gone, StoppedIsGone, arrayVars, planVars,
        Proceed, MapLoop, ClonesOf
<1>4. QED BY <1>1, <1>2, <1>3 DEF CopyInv

LEMMA SkipDeviceCopies ==
  ASSUME TypeInv, CopyInv, SkipDevice
  PROVE  CopyInv'
<1>1. OneClone'
 BY DEF SkipDevice, Skipped, MapLoop, CopyInv, OneClone, arrayVars, Proceed,
        MapLoop
<1>2. KnownInv'
 BY DEF SkipDevice, Skipped, CopyInv, KnownInv, arrayVars, Proceed, MapLoop,
        ClonesOf, Asked
<1>3. GoneInv'
 BY DEF SkipDevice, Skipped, CopyInv, GoneInv, Gone, StoppedIsGone, arrayVars,
        planVars, Proceed, MapLoop, ClonesOf
<1>4. QED BY <1>1, <1>2, <1>3 DEF CopyInv

LEMMA StopPickCopies ==
  ASSUME TypeInv, CopyInv, StopPick
  PROVE  CopyInv'
<1>1. OneClone'
 BY DEF StopPick, CopyInv, OneClone, arrayVars, Proceed, Record, Fails,
    Outcome
<1>2. KnownInv'
 BY DEF StopPick, KnownInv, arrayVars, At, Proceed, Record, Fails, Outcome
<1>3. GoneInv'
 BY DEF StopPick, CopyInv, GoneInv, Gone, StoppedIsGone, TypeInv, TypeOK,
        ProcessTypeOK, arrayVars, planVars, Proceed, Record, ClonesOf
<1>4. QED BY <1>1, <1>2, <1>3 DEF CopyInv

LEMMA CreateCloneCopies ==
  ASSUME TypeInv, CopyInv, CreateClone
  PROVE  CopyInv'
<1>1. OneClone'
 BY DEF CreateClone, CopyInv, OneClone, TypeInv, TypeOK, ArrayTypeOK, At,
        Change, ClonesOf, TurnInv, AtDevice, ForFileSystem
<1>2. KnownInv'
 BY CloneAssumption
 DEF CreateClone, CopyInv, KnownInv, TypeInv, TypeOK, ArrayTypeOK,
     ProcessTypeOK, Continue, Proceed, Record, Change, EndOperate, MapLoop,
     ClonesOf, Asked, LocalRecord, Clone
<1>3. GoneInv'
 BY DEF CreateClone, CopyInv, GoneInv, StoppedIsGone, TypeInv, TypeOK,
        ArrayTypeOK, planVars, At, Continue, Proceed, Change, EndOperate,
        ClonesOf, TurnInv, AtDevice
<1>4. QED BY <1>1, <1>2, <1>3 DEF CopyInv

LEMMA DateCloneCopies ==
  ASSUME TypeInv, CopyInv, DateClone
  PROVE  CopyInv'
<1>1. OneClone'
 BY DEF DateClone, CopyInv, OneClone, arrayVars, Proceed, Record, EndOperate,
        MapLoop
<1>2. KnownInv'
 BY DEF DateClone, CopyInv, KnownInv, TypeInv, TypeOK, ProcessTypeOK,
        arrayVars, Proceed, Record, EndOperate, MapLoop, ClonesOf, Asked,
        LocalRecord
<1>3. GoneInv'
 BY DEF DateClone, CopyInv, GoneInv, StoppedIsGone, arrayVars, planVars, At,
        Proceed, EndOperate, ClonesOf
<1>4. QED BY <1>1, <1>2, <1>3 DEF CopyInv

LEMMA AddShareCopies ==
  ASSUME TypeInv, CopyInv, AddShare
  PROVE  CopyInv'
<1>1. OneClone'
 BY DEF AddShare, ShareFails, CopyInv, OneClone, Proceed, Vanish, Fails,
        Outcome
<1>2. KnownInv'
 BY DEF AddShare, ShareFails, CopyInv, KnownInv, TypeInv, TypeOK,
        ProcessTypeOK, Proceed, Vanish, ClonesOf, Asked, LocalRecord
<1>3. GoneInv'
 BY DEF AddShare, ShareFails, CopyInv, GoneInv, Gone, StoppedIsGone, planVars,
        Proceed, Vanish, ClonesOf
<1>4. QED BY <1>1, <1>2, <1>3 DEF CopyInv

LEMMA UnshareCopies ==
  ASSUME TypeInv, CopyInv, Unshare
  PROVE  CopyInv'
<1>1. OneClone'
 BY DEF Unshare, CopyInv, OneClone, KnownInv, Continue, Vanish, Change,
    Outcome
<1>2. KnownInv'
 BY DEF Unshare, CopyInv, KnownInv, Continue, Vanish, Change, ClonesOf, Asked
<1>3. GoneInv'
 BY DEF Unshare, CopyInv, GoneInv, Gone, StoppedIsGone, planVars, Continue,
        Vanish, ClonesOf
<1>4. QED BY <1>1, <1>2, <1>3 DEF CopyInv

LEMMA ReshareCopies ==
  ASSUME TypeInv, CopyInv, Reshare
  PROVE  CopyInv'
<1>1. OneClone'
 BY DEF Reshare, CopyInv, OneClone, KnownInv, arrayVars, At, Vanish,
        LocalRecord
<1>2. KnownInv'
 BY DEF Reshare, CopyInv, OneClone, KnownInv, arrayVars, At, Vanish,
        LocalRecord
<1>3. GoneInv'
 BY DEF Reshare, CopyInv, GoneInv, StoppedIsGone, arrayVars, planVars, Vanish,
        ClonesOf
<1>4. QED BY <1>1, <1>2, <1>3 DEF CopyInv

LEMMA ListMappingsCopies ==
  ASSUME TypeInv, CopyInv, ListMappings
  PROVE  CopyInv'
<1>1. OneClone'
 BY DEF ListMappings, CopyInv, OneClone, arrayVars, Vanish, Fail, Fails,
        Outcome
<1>2. KnownInv'
 BY DEF ListMappings, CopyInv, KnownInv, arrayVars, Vanish, Fail, ClonesOf,
        Asked
<1>3. GoneInv'
 BY DEF ListMappings, CopyInv, GoneInv, StoppedIsGone, arrayVars, planVars,
    At,
        Vanish, Fail, ClonesOf
<1>4. QED BY <1>1, <1>2, <1>3 DEF CopyInv

LEMMA ShowMappingsCopies ==
  ASSUME TypeInv, CopyInv, ShowMappings
  PROVE  CopyInv'
<1>1. OneClone'
 BY DEF ShowMappings, CopyInv, OneClone, arrayVars, Continue, Vanish, Fail,
        Fails
<1>2. KnownInv'
 BY DEF ShowMappings, KnownInv, arrayVars, At, Continue, Vanish, Fail, Fails
<1>3. GoneInv'
 BY DEF ShowMappings, CopyInv, GoneInv, Gone, StoppedIsGone, arrayVars,
        planVars, Continue, Vanish, Fail, ClonesOf
<1>4. QED BY <1>1, <1>2, <1>3 DEF CopyInv

LEMMA FindCloneCopies ==
  ASSUME TypeInv, CopyInv, FindClone
  PROVE  CopyInv'
<1>1. OneClone'
 BY DEF FindClone, CopyInv, OneClone, arrayVars, Continue, Record, Fails,
        EndStop
<1>2. KnownInv'
 BY CloneAssumption
 DEF FindClone, KnownInv, TypeInv, TypeOK, ProcessTypeOK, arrayVars, At,
     Continue, Proceed, EndStop, ClonesOf, LocalRecord
<1>3. GoneInv'
 BY DEF FindClone, CopyInv, GoneInv, Gone, StoppedIsGone, TypeInv, TypeOK,
        ArrayTypeOK, ProcessTypeOK, arrayVars, planVars, Continue, Proceed,
        Record, EndStop, ClonesOf
<1>4. QED BY <1>1, <1>2, <1>3 DEF CopyInv

LEMMA FindShareCopies ==
  ASSUME TypeInv, CopyInv, FindShare
  PROVE  CopyInv'
<1>1. OneClone'
 BY DEF FindShare, NextOf, CopyInv, OneClone, arrayVars, Continue, Fails,
        EndStop
<1>2. KnownInv'
 BY DEF FindShare, NextOf, CopyInv, KnownInv, arrayVars, At, Continue,
    Proceed,
        EndStop, ClonesOf
<1>3. GoneInv'
 BY DEF FindShare, CopyInv, GoneInv, Gone, StoppedIsGone, TypeInv, TypeOK,
        ProcessTypeOK, arrayVars, planVars, Continue, Proceed, Record,
        EndStop,
        ClonesOf
<1>4. QED BY <1>1, <1>2, <1>3 DEF CopyInv

LEMMA DelShareCopies ==
  ASSUME TypeInv, CopyInv, DelShare
  PROVE  CopyInv'
<1>1. OneClone'
 BY DEF DelShare, CopyInv, OneClone, Continue, Proceed, Record, Change,
    EndStop
<1>2. KnownInv'
 BY DEF DelShare, CopyInv, KnownInv, At, Continue, Proceed, EndStop, ClonesOf
<1>3. GoneInv'
 BY DEF DelShare, CopyInv, GoneInv, Gone, StoppedIsGone, TypeInv, TypeOK,
        ProcessTypeOK, planVars, Continue, Proceed, Record, EndStop, ClonesOf
<1>4. QED BY <1>1, <1>2, <1>3 DEF CopyInv

LEMMA DelCloneCopies ==
  ASSUME TypeInv, CopyInv, DelClone
  PROVE  CopyInv'
<1>1. OneClone'
 BY CloneAssumption
 DEF DelClone, DeleteFails, CopyInv, OneClone, TypeInv, TypeOK, ArrayTypeOK,
     Change
<1>2. KnownInv'
 BY DEF DelClone, DeleteFails, KnownInv, At, Proceed, Record, Change, EndStop
<1>3. GoneInv'
 BY CloneAssumption
 DEF DelClone, DeleteFails, CopyInv, OneClone, KnownInv, GoneInv, Gone,
     StoppedIsGone, TypeInv, TypeOK, ArrayTypeOK, ProcessTypeOK, planVars, At,
     Proceed, Record, Change, EndStop, ClonesOf, TurnInv, AtDevice,
     ForFileSystem
<1>4. QED BY <1>1, <1>2, <1>3 DEF CopyInv

LEMMA CreateSnapshotCopies ==
  ASSUME TypeInv, CopyInv, CreateSnapshot
  PROVE  CopyInv'
<1>1. OneClone'
 BY DEF CreateSnapshot, CopyInv, OneClone, Continue, Record, Change,
        EndOperate, MapLoop
<1>2. KnownInv'
 BY DEF CreateSnapshot, CopyInv, OneClone, KnownInv, TypeInv, TypeOK,
        ProcessTypeOK, At, Continue, Proceed, Record, Change, EndOperate,
        MapLoop, ClonesOf, TurnInv, Asked, AtDevice, ForLun
<1>3. GoneInv'
 BY DEF CreateSnapshot, CopyInv, GoneInv, StoppedIsGone, TypeInv, planVars,
    At,
        Continue, Proceed, Change, EndOperate, ClonesOf, TurnInv, AtDevice
<1>4. QED BY <1>1, <1>2, <1>3 DEF CopyInv

LEMMA CloneSnapshotCopies ==
  ASSUME TypeInv, CopyInv, CloneSnapshot
  PROVE  CopyInv'
<1>1. /\ cmd = "start" /\ cmd' = "start" /\ pc' \notin {"delSnap", "mapHost"}
      /\ pc' \in {"find", "operate", "share", "map"}
      /\ cur \in Asked /\ cur \in Device \ FS /\ Asked' = Asked
      /\ UNCHANGED <<snapped, shared, hosts, local, planVars>>
      /\ misled \subseteq misled'
  BY CloneSnapshotEffect
  DEF At, Continue, EndOperate, Proceed, Record, MapLoop, Asked, TypeInv,
      TypeOK, ProcessTypeOK, TurnInv
<1>2. \/ cloneOf' = cloneOf
      \/ /\ ClonesOf(cur) = {}
         /\ \E c \in ClonesOf(NoObject) : cloneOf' = [cloneOf EXCEPT ![c] = cur]
  BY CloneSnapshotEffect
<1>3. OneClone'
  BY <1>1, <1>2
  DEF CopyInv, OneClone, ClonesOf, TypeInv, TypeOK, ArrayTypeOK
<1>4. \A d \in Device : /\ ClonesOf(d) \subseteq ClonesOf(d)'
                        /\ d # cur => ClonesOf(d)' = ClonesOf(d)
  BY <1>2, CloneAssumption DEF ClonesOf, TypeInv, TypeOK, ArrayTypeOK
<1>5. local.nfs # NoObject =>
        local.nfs \in CloneId /\ cloneOf[local.nfs] \in Asked
  BY <1>1, LocalFields
  DEF CopyInv, KnownInv, Clone, TypeInv, TypeOK, ProcessTypeOK
<1>6. local.nfs # NoObject => cloneOf'[local.nfs] \in Asked
  BY <1>1, <1>2, <1>5, CloneAssumption
  DEF ClonesOf, TypeInv, TypeOK, ArrayTypeOK
<1>7. KnownInv'
  BY <1>1, <1>4, <1>6 DEF CopyInv, KnownInv
<1>8. phase[cur] # "idle"
  BY <1>1 DEF TypeInv, TurnInv
<1>9. GoneInv'
  BY <1>1, <1>4, <1>8 DEF CopyInv, GoneInv, StoppedIsGone, planVars
<1>10. QED BY <1>3, <1>7, <1>9 DEF CopyInv

LEMMA FindLunCopies ==
  ASSUME TypeInv, CopyInv, FindLun
  PROVE  CopyInv'
<1>1. OneClone'
 BY DEF FindLun, CopyInv, OneClone, arrayVars, Record, Fails, EndOperate,
        MapLoop
<1>2. KnownInv'
 BY DEF FindLun, CopyInv, KnownInv, TypeInv, TypeOK, ProcessTypeOK, arrayVars,
        Proceed, Record, EndOperate, MapLoop, ClonesOf, Asked, LocalRecord
<1>3. GoneInv'
 BY DEF FindLun, CopyInv, GoneInv, Gone, StoppedIsGone, arrayVars, planVars,
        Proceed, Record, EndOperate, ClonesOf
<1>4. QED BY <1>1, <1>2, <1>3 DEF CopyInv

LEMMA MapCloneCopies ==
  ASSUME TypeInv, CopyInv, MapClone
  PROVE  CopyInv'
<1>1. OneClone'
 BY DEF MapClone, CopyInv, OneClone, KnownInv, arrayVars, Vanish, Fails,
        Outcome
<1>2. KnownInv'
 BY DEF MapClone, CopyInv, KnownInv, TypeInv, TypeOK, ProcessTypeOK,
    arrayVars,
        Vanish, ClonesOf, Asked, LocalRecord
<1>3. GoneInv'
 BY DEF MapClone, CopyInv, GoneInv, Gone, StoppedIsGone, arrayVars, planVars,
        Vanish, ClonesOf
<1>4. QED BY <1>1, <1>2, <1>3 DEF CopyInv

LEMMA MapHostCopies ==
  ASSUME TypeInv, CopyInv, MapHost
  PROVE  CopyInv'
<1>1. /\ cmd = "start" /\ UNCHANGED <<snapped, cloneOf, shared>>
      /\ misled \subseteq misled'
  BY MapHostEffect DEF At
<1>2. PICK h \in local.rows :
        \/ Vanish
        \/ local' = [local EXCEPT !.rows = @ \ {h}] /\ Continue("mapHost")
  BY MapHostEffect
<1>3. OneClone'
  BY <1>1 DEF CopyInv, OneClone
<1>4. UNCHANGED planVars
  BY <1>2 DEF Vanish, Continue
<1>5. cmd' # "stop"
  BY <1>1, <1>2 DEF Vanish, Continue
<1>6. GoneInv'
  BY <1>1, <1>4, <1>5
  DEF CopyInv, GoneInv, StoppedIsGone, ClonesOf, planVars
<1>7. CASE Vanish
  <2>1. KnownInv'
    BY <1>7 DEF KnownInv, Vanish
  <2>2. QED BY <1>3, <1>6, <2>1 DEF CopyInv
<1>8. CASE local' = [local EXCEPT !.rows = @ \ {h}] /\ Continue("mapHost")
  <2>1. local'.found = local.found /\ local'.nfs = local.nfs
    BY <1>8 DEF LocalRecord, TypeInv, TypeOK, ProcessTypeOK
  <2>2. Asked' = Asked /\ pc' = "mapHost"
    BY <1>8 DEF Continue, Asked
  <2>3. KnownInv'
    BY <1>1, <2>1, <2>2 DEF CopyInv, KnownInv, ClonesOf
  <2>4. QED BY <1>3, <1>6, <2>3 DEF CopyInv
<1>9. QED BY <1>2, <1>7, <1>8

LEMMA MappedCopies ==
  ASSUME TypeInv, CopyInv, Mapped
  PROVE  CopyInv'
<1>1. OneClone'
 BY DEF Mapped, CopyInv, OneClone, KnownInv, arrayVars, At, Proceed,
        LocalRecord
<1>2. KnownInv'
 BY DEF Mapped, CopyInv, OneClone, KnownInv, arrayVars, Proceed, ClonesOf,
        Asked
<1>3. GoneInv'
 BY DEF Mapped, CopyInv, GoneInv, Gone, StoppedIsGone, arrayVars, planVars,
        Proceed, ClonesOf
<1>4. QED BY <1>1, <1>2, <1>3 DEF CopyInv

LEMMA IdentifyCopies ==
  ASSUME TypeInv, CopyInv, Identify
  PROVE  CopyInv'
<1>1. OneClone'
 BY DEF Identify, CopyInv, OneClone, arrayVars, Proceed, Record, Vanish, Fails
<1>2. KnownInv'
 BY DEF Identify, CopyInv, KnownInv, TypeInv, TypeOK, ProcessTypeOK,
    arrayVars,
        Proceed, Record, Vanish, ClonesOf, Asked, LocalRecord
<1>3. GoneInv'
 BY DEF Identify, CopyInv, GoneInv, StoppedIsGone, arrayVars, planVars, At,
        Proceed, Vanish, ClonesOf
<1>4. QED BY <1>1, <1>2, <1>3 DEF CopyInv

LEMMA FindSnapshotCopies ==
  ASSUME TypeInv, CopyInv, FindSnapshot
  PROVE  CopyInv'
<1>1. /\ At("stop", "find") /\ cur \in todo /\ cur \in Device \ FS
      /\ local \in LocalRecord /\ UNCHANGED arrayVars
  BY DEF FindSnapshot, At, AtDevice, TypeInv, TypeOK, ProcessTypeOK, TurnInv
<1>2. OneClone'
  BY <1>1 DEF CopyInv, OneClone, arrayVars
<1>3. CASE EndStop("err") /\ UNCHANGED local
  <2>1. KnownInv'
    BY <1>1, <1>3 DEF KnownInv, EndStop, Proceed, At
  <2>2. GoneInv'
    BY <1>1, <1>3
    DEF CopyInv, GoneInv, Gone, StoppedIsGone, ClonesOf, EndStop, Proceed,
        Record, planVars, arrayVars
  <2>3. QED BY <1>2, <2>1, <2>2 DEF CopyInv
<1>4. CASE /\ local' = [local EXCEPT !.exist = cur \in snapped, !.rows = {}]
           /\ Continue(IF cur \in snapped THEN "showRows" ELSE "delLun")
  <2>1. PICK exist \in BOOLEAN : exist = (cur \in snapped)
    <3>1. (cur \in snapped) \in BOOLEAN
      OBVIOUS
    <3>2. QED BY <3>1
  <2>2. local' = [local EXCEPT !.exist = exist, !.rows = {}]
    BY <1>4, <2>1
  <2>3. local'.exist = exist
    BY <1>1, <2>2 DEF LocalRecord
  <2>4. local'.exist <=> cur \in snapped
    BY <2>1, <2>3
  <2>5. cmd' = "stop" /\ cur' = cur /\ pc' \in {"showRows", "delLun"}
    BY <1>1, <1>4 DEF At, Continue
  <2>6. KnownInv'
    BY <1>1, <2>4, <2>5 DEF KnownInv, arrayVars
  <2>7. GoneInv'
    BY <1>1, <1>4
    DEF CopyInv, GoneInv, Gone, StoppedIsGone, ClonesOf, Continue, planVars,
        arrayVars
  <2>8. QED BY <1>2, <2>6, <2>7 DEF CopyInv
<1>5. QED BY <1>3, <1>4 DEF FindSnapshot

LEMMA ShowRowsCopies ==
  ASSUME TypeInv, CopyInv, ShowRows
  PROVE  CopyInv'
<1>1. /\ At("stop", "showRows") /\ cur \in todo /\ cur \in Device
      /\ local \in LocalRecord /\ UNCHANGED arrayVars
      /\ local.exist <=> cur \in snapped
  BY DEF ShowRows, At, AtDevice, TypeInv, TypeOK, ProcessTypeOK, TurnInv,
         CopyInv, KnownInv
<1>2. OneClone'
  BY <1>1 DEF CopyInv, OneClone, arrayVars
<1>3. CASE EndStop("err") /\ UNCHANGED local
  <2>1. KnownInv'
    BY <1>1, <1>3 DEF KnownInv, EndStop, Proceed, At
  <2>2. GoneInv'
    BY <1>1, <1>3
    DEF CopyInv, GoneInv, Gone, StoppedIsGone, ClonesOf, EndStop, Proceed,
        Record, planVars, arrayVars
  <2>3. QED BY <1>2, <2>1, <2>2 DEF CopyInv
<1>4. CASE /\ \E c \in ClonesOf(cur), seen \in SUBSET Host :
                local' = [local EXCEPT !.rows = seen, !.found[cur] = c]
           /\ Continue("unmap")
  <2>1. PICK c \in ClonesOf(cur), seen \in SUBSET Host :
          local' = [local EXCEPT !.rows = seen, !.found[cur] = c]
    BY <1>4
  <2>2. local'.found[cur] = c /\ local'.exist = local.exist
    BY <1>1, <2>1 DEF LocalRecord
  <2>3. cmd' = "stop" /\ cur' = cur /\ pc' = "unmap"
    BY <1>1, <1>4 DEF At, Continue
  <2>4. KnownInv'
    BY <1>1, <2>1, <2>2, <2>3 DEF KnownInv, ClonesOf, arrayVars
  <2>5. GoneInv'
    BY <1>1, <1>4
    DEF CopyInv, GoneInv, Gone, StoppedIsGone, ClonesOf, Continue, planVars,
        arrayVars
  <2>6. QED BY <1>2, <2>4, <2>5 DEF CopyInv
<1>5. QED BY <1>3, <1>4 DEF ShowRows

LEMMA UnmapCopies ==
  ASSUME TypeInv, CopyInv, Unmap
  PROVE  CopyInv'
<1>1. OneClone'
 BY DEF Unmap, CopyInv, OneClone, KnownInv, At, Continue, Change, Outcome
<1>2. KnownInv'
 BY DEF Unmap, CopyInv, KnownInv, At, Continue, Change, ClonesOf, Outcome
<1>3. GoneInv'
 BY DEF Unmap, CopyInv, GoneInv, Gone, StoppedIsGone, planVars, Continue,
        ClonesOf
<1>4. QED BY <1>1, <1>2, <1>3 DEF CopyInv

LEMMA UnmappedCopies ==
  ASSUME TypeInv, CopyInv, Unmapped
  PROVE  CopyInv'
<1>1. OneClone'
 BY DEF Unmapped, CopyInv, OneClone, KnownInv, arrayVars, At, Continue,
        LocalRecord
<1>2. KnownInv'
 BY DEF Unmapped, CopyInv, OneClone, KnownInv, arrayVars, At, Continue,
        LocalRecord
<1>3. GoneInv'
 BY DEF Unmapped, CopyInv, GoneInv, Gone, StoppedIsGone, arrayVars, planVars,
        Continue, ClonesOf
<1>4. QED BY <1>1, <1>2, <1>3 DEF CopyInv

LEMMA DelLunCopies ==
  ASSUME TypeInv, CopyInv, DelLun
  PROVE  CopyInv'
<1>1. /\ At("stop", "delLun") /\ cur \in todo /\ cur \in Device \ FS
      /\ UNCHANGED <<snapped, shared, hosts, local>>
      /\ misled' \in {misled, misled \cup {cur}}
  BY DelLunEffect
<1>2. \/ cloneOf' = cloneOf
      \/ \E c \in ClonesOf(cur) : cloneOf' = [cloneOf EXCEPT ![c] = NoObject]
  BY DelLunEffect
<1>3. OneClone'
  BY <1>2, CloneAssumption
  DEF CopyInv, OneClone, ClonesOf, TypeInv, TypeOK, ArrayTypeOK
<1>4. \A d \in Device : ClonesOf(d)' \subseteq ClonesOf(d)
  BY <1>2, CloneAssumption DEF ClonesOf, TypeInv, TypeOK, ArrayTypeOK
<1>5. UNCHANGED planVars /\ cmd' = "stop"
  BY DelLunEffect DEF AfterLun, Continue, EndStop, Proceed, At
<1>6. StoppedIsGone'
  BY <1>1, <1>4, <1>5 DEF CopyInv, GoneInv, StoppedIsGone, planVars
<1>7. CASE EndStop("err")
  <2>1. KnownInv'
    BY <1>5, <1>7 DEF KnownInv, EndStop, Proceed
  <2>2. \A d \in Device : report'[d] = "ok" => report[d] = "ok"
    BY <1>7 DEF EndStop, Record, TypeInv, TypeOK, ProcessTypeOK
  <2>3. GoneInv'
    BY <1>1, <1>4, <1>6, <2>2 DEF CopyInv, GoneInv, Gone, At
  <2>4. QED BY <1>3, <2>1, <2>3 DEF CopyInv
<1>8. CASE /\ AfterLun
           /\ \/ ClonesOf(cur) = {} /\ cloneOf' = cloneOf
              \/ cur \in misled'
              \/ \E c \in ClonesOf(cur) :
                   cloneOf' = [cloneOf EXCEPT ![c] = NoObject]
  <2>1. cur \in misled' \/ \A c \in CloneId : cloneOf'[c] # cur
    BY <1>1, <1>8, CloneAssumption
    DEF CopyInv, OneClone, ClonesOf, TypeInv, TypeOK, ArrayTypeOK
  <2>2. CASE local.exist /\ Continue("delSnap")
    <3>1. KnownInv'
      BY <1>1, <1>5, <2>1, <2>2 DEF KnownInv, Continue, ClonesOf
    <3>2. GoneInv'
      BY <1>1, <1>4, <1>6, <2>2 DEF CopyInv, GoneInv, Gone, At, Continue
    <3>3. QED BY <1>3, <3>1, <3>2 DEF CopyInv
  <2>3. CASE ~local.exist /\ EndStop("ok")
    <3>1. KnownInv'
      BY <1>5, <2>3 DEF KnownInv, EndStop, Proceed
    <3>2. cur \notin snapped
      BY <1>1, <2>3 DEF CopyInv, KnownInv, At
    <3>3. \A d \in Device : report'[d] = "ok" => report[d] = "ok" \/ d = cur
      BY <2>3 DEF EndStop, Record, TypeInv, TypeOK, ProcessTypeOK
    <3>4. ASSUME NEW d \in Device, report'[d] = "ok"
          PROVE  d \notin snapped' /\ (d \in misled' \/ ClonesOf(d)' = {})
      <4>1. CASE d = cur
        BY <1>1, <2>1, <3>2, <4>1 DEF ClonesOf
      <4>2. CASE report[d] = "ok"
        BY <1>1, <1>4, <4>2 DEF CopyInv, GoneInv, Gone, At
      <4>3. QED BY <3>3, <3>4, <4>1, <4>2
    <3>5. GoneInv'
      BY <1>6, <3>4 DEF GoneInv, Gone
    <3>6. QED BY <1>3, <3>1, <3>5 DEF CopyInv
  <2>4. QED BY <1>8, <2>2, <2>3 DEF AfterLun
<1>9. QED BY <1>7, <1>8, DelLunEffect

LEMMA DelSnapshotCopies ==
  ASSUME TypeInv, CopyInv, DelSnapshot
  PROVE  CopyInv'
<1>1. OneClone'
 BY DEF DelSnapshot, CopyInv, OneClone, KnownInv, At, Change, EndStop,
    ClonesOf
<1>2. KnownInv'
 BY DEF DelSnapshot, KnownInv, At, Proceed, Record, Change, EndStop, Outcome
<1>3. GoneInv'
 BY DEF DelSnapshot, CopyInv, KnownInv, GoneInv, Gone, StoppedIsGone,
    planVars,
        At, Proceed, Record, Change, EndStop, ClonesOf
<1>4. QED BY <1>1, <1>2, <1>3 DEF CopyInv

LEMMA RespondCopies ==
  ASSUME TypeInv, CopyInv, Respond
  PROVE  CopyInv'
<1>1. OneClone'
 BY DEF Respond, CopyInv, OneClone, KnownInv, arrayVars, FreshLocal,
        LocalRecord, ForLun
<1>2. KnownInv'
 BY DEF Respond, CopyInv, OneClone, KnownInv, arrayVars, FreshLocal,
        LocalRecord, ForLun
<1>3. GoneInv'
 BY DEF Respond, CopyInv, GoneInv, Gone, StoppedIsGone, TypeInv, arrayVars,
        ClonesOf, TurnInv
<1>4. QED BY <1>1, <1>2, <1>3 DEF CopyInv

LEMMA CrashCopies ==
  ASSUME TypeInv, CopyInv, Crash
  PROVE  CopyInv'
<1>1. OneClone'
 BY DEF Crash, CopyInv, OneClone, arrayVars, Vanish, Fail, Fails, Outcome
<1>2. KnownInv'
 BY DEF Crash, OneClone, KnownInv, arrayVars, Vanish, Fail, Fails, Outcome
<1>3. GoneInv'
 BY DEF Crash, CopyInv, GoneInv, StoppedIsGone, arrayVars, planVars, Vanish,
        Fail, ClonesOf
<1>4. QED BY <1>1, <1>2, <1>3 DEF CopyInv

LEMMA StabilizeCopies ==
  ASSUME TypeInv, CopyInv, Stabilize
  PROVE  CopyInv'
<1>1. OneClone'
 BY DEF Stabilize, CopyInv, OneClone, KnownInv, arrayVars, procVars,
        FreshLocal, LocalRecord
<1>2. KnownInv'
 BY DEF Stabilize, CopyInv, OneClone, KnownInv, arrayVars, procVars, ClonesOf,
        Asked
<1>3. GoneInv'
 BY DEF Stabilize, CopyInv, GoneInv, Gone, StoppedIsGone, arrayVars, planVars,
        procVars, ClonesOf
<1>4. QED BY <1>1, <1>2, <1>3 DEF CopyInv

LEMMA BeginCopies ==
  ASSUME TypeInv, CopyInv,
         NEW c \in {"start", "stop"}, NEW D \in SUBSET Device, Begin(c, D)
  PROVE  CopyInv'
<1>1. OneClone'
  BY DEF CopyInv, OneClone, Begin, arrayVars
<1>2. KnownInv'
  BY DEF Begin, KnownInv, TypeInv, TurnInv, FreshLocal
<1>3. GoneInv'
  BY DEF Begin, CopyInv, GoneInv, Gone, StoppedIsGone, ClonesOf, arrayVars
<1>4. QED BY <1>1, <1>2, <1>3 DEF CopyInv

(* Every step keeps CopyInv.                                               *)
LEMMA NextCopies ==
  ASSUME TypeInv, CopyInv, [Next]_vars
  PROVE  CopyInv'
<1>1. CASE UNCHANGED vars
  BY <1>1
  DEF vars, arrayVars, planVars, procVars, CopyInv, OneClone, KnownInv,
      GoneInv, Gone, StoppedIsGone, ClonesOf, Asked
<1>2. CASE Start
  BY <1>2, BeginCopies DEF Start
<1>3. CASE ProcessStep
  BY <1>3, PreambleCopies, CheckStatusCopies, OperateCopies, SkipDeviceCopies,
     StopPickCopies, CreateCloneCopies, DateCloneCopies, AddShareCopies,
     UnshareCopies, ReshareCopies, ListMappingsCopies, ShowMappingsCopies,
     FindCloneCopies, FindShareCopies, DelShareCopies, DelCloneCopies,
     CreateSnapshotCopies, CloneSnapshotCopies, FindLunCopies, MapCloneCopies,
     MapHostCopies, MappedCopies, IdentifyCopies, FindSnapshotCopies,
     ShowRowsCopies, UnmapCopies, UnmappedCopies, DelLunCopies,
     DelSnapshotCopies, RespondCopies
  DEF ProcessStep, FileSystemNext, FusionNext
<1>4. CASE Crash
  BY <1>4, CrashCopies
<1>5. CASE Stabilize
  BY <1>5, StabilizeCopies
<1>6. QED BY <1>1, <1>2, <1>3, <1>4, <1>5 DEF Next

(* In the beginning there are no clones.                                   *)
LEMMA InitCopies == Init => CopyInv
BY CloneAssumption
DEF Init, ArrayInit, ProcessInit, CopyInv, OneClone, KnownInv, GoneInv,
    StoppedIsGone, ClonesOf

(* A device SRM was told is stopped has no snapshot left, and no clone but  *)
(* for one whose deletion the array refused in an answer that CMD_dellun    *)
(* took for an OK, whatever processes killed or misled before have left:   *)
(* _stop_test_device_out and _do_failover_stop_fusion report a device only *)
(* when they were told that both are deleted, or found neither.            *)
THEOREM StoppedGone == Spec => []StoppedIsGone
<1>1. TypeInv /\ CopyInv /\ [Next]_vars => TypeInv' /\ CopyInv'
  BY NextType, NextCopies
<1>2. CopyInv => StoppedIsGone
  BY DEF CopyInv, GoneInv
<1>3. QED BY InitType, InitCopies, <1>1, <1>2, PTL DEF Spec

----------------------------------------------------------------------------
(* ReadyInv, action by action: what a start has exposed stays exposed, and  *)
(* a stop is not at a device under test.                                    *)
LEMMA PreambleReady ==
  ASSUME TypeInv, CopyInv, ReadyInv, Preamble
  PROVE  ReadyInv'
<1>1. TestedIsExposed'
 BY DEF Preamble, ReadyInv, Exposed, TestedIsExposed, arrayVars, planVars,
        Continue, Vanish, Fail, ClonesOf
<1>2. StartInv'
 BY DEF Preamble, ReadyInv, StartInv, Ready, Exposed, Continue, Vanish, Fail
<1>3. QED BY <1>1, <1>2 DEF ReadyInv

LEMMA CheckStatusReady ==
  ASSUME TypeInv, CopyInv, ReadyInv, CheckStatus
  PROVE  ReadyInv'
<1>1. TestedIsExposed'
 BY DEF CheckStatus, ReadyInv, Exposed, TestedIsExposed, arrayVars, planVars,
        Proceed, ClonesOf
<1>2. StartInv'
 BY DEF CheckStatus, ReadyInv, StartInv, Ready, Exposed, arrayVars, Proceed,
        Record
<1>3. QED BY <1>1, <1>2 DEF ReadyInv

LEMMA OperateReady ==
  ASSUME TypeInv, CopyInv, ReadyInv, Operate
  PROVE  ReadyInv'
<1>1. TestedIsExposed'
 BY DEF Operate, ReadyInv, Exposed, TestedIsExposed, arrayVars, planVars,
        Proceed, MapLoop, ClonesOf
<1>2. StartInv'
 BY DEF Operate, CopyOf, MapLoop, StartInv, Exposed, Proceed, MapLoop, Asked
<1>3. QED BY <1>1, <1>2 DEF ReadyInv

LEMMA SkipDeviceReady ==
  ASSUME TypeInv, CopyInv, ReadyInv, SkipDevice
  PROVE  ReadyInv'
<1>1. TestedIsExposed'
 BY DEF SkipDevice, Skipped, ReadyInv, Exposed, TestedIsExposed, arrayVars,
        planVars, Proceed, MapLoop, ClonesOf
<1>2. StartInv'
 BY DEF SkipDevice, Skipped, ReadyInv, StartInv, Ready, Exposed, arrayVars,
    At,
        Proceed, MapLoop, Asked
<1>3. QED BY <1>1, <1>2 DEF ReadyInv

LEMMA StopPickReady ==
  ASSUME TypeInv, CopyInv, ReadyInv, StopPick
  PROVE  ReadyInv'
<1>1. TestedIsExposed'
 BY DEF StopPick, ReadyInv, Exposed, TestedIsExposed, arrayVars, planVars,
        Proceed, ClonesOf
<1>2. StartInv'
 BY DEF StopPick, ReadyInv, StartInv, Ready, Exposed, At, Proceed, Fails
<1>3. QED BY <1>1, <1>2 DEF ReadyInv

LEMMA CreateCloneReady ==
  ASSUME TypeInv, CopyInv, ReadyInv, CreateClone
  PROVE  ReadyInv'
<1>1. TestedIsExposed'
 BY CloneAssumption
 DEF CreateClone, ReadyInv, Exposed, TestedIsExposed, TypeInv, TypeOK,
     ArrayTypeOK, planVars, Continue, Proceed, Change, EndOperate, ClonesOf
<1>2. StartInv'
 BY DEF CreateClone, StartInv, Ready, TypeInv, TypeOK, ProcessTypeOK,
    Continue,
        Proceed, Record, Change, EndOperate, MapLoop, Asked
<1>3. QED BY <1>1, <1>2 DEF ReadyInv

LEMMA DateCloneReady ==
  ASSUME TypeInv, CopyInv, ReadyInv, DateClone
  PROVE  ReadyInv'
<1>1. TestedIsExposed'
 BY DEF DateClone, ReadyInv, Exposed, TestedIsExposed, arrayVars, planVars,
        Proceed, EndOperate, ClonesOf
<1>2. StartInv'
 BY DEF DateClone, StartInv, TypeInv, TypeOK, ProcessTypeOK, Proceed, Record,
        EndOperate, MapLoop, TurnInv, Asked
<1>3. QED BY <1>1, <1>2 DEF ReadyInv

LEMMA AddShareReady ==
  ASSUME TypeInv, CopyInv, ReadyInv, AddShare
  PROVE  ReadyInv'
<1>1. TestedIsExposed'
 BY DEF AddShare, ShareFails, ReadyInv, Exposed, TestedIsExposed, planVars,
        Proceed, Vanish, ClonesOf
<1>2. StartInv'
 BY DEF AddShare, ShareFails, CopyInv, KnownInv, ReadyInv, StartInv, Ready,
        Exposed, TypeInv, TypeOK, ProcessTypeOK, At, Proceed, Vanish,
        ClonesOf,
        TurnInv, Asked, LocalRecord, ForFileSystem
<1>3. QED BY <1>1, <1>2 DEF ReadyInv

LEMMA UnshareReady ==
  ASSUME TypeInv, CopyInv, ReadyInv, Unshare
  PROVE  ReadyInv'
<1>1. TestedIsExposed'
 BY DEF Unshare, CopyInv, KnownInv, ReadyInv, Exposed, TestedIsExposed,
        TypeInv, planVars, At, Continue, Vanish, Change, ClonesOf, TurnInv
<1>2. StartInv'
 BY DEF Unshare, ReadyInv, StartInv, Ready, Exposed, Continue, Vanish, Change
<1>3. QED BY <1>1, <1>2 DEF ReadyInv

LEMMA ReshareReady ==
  ASSUME TypeInv, CopyInv, ReadyInv, Reshare
  PROVE  ReadyInv'
<1>1. TestedIsExposed'
 BY DEF Reshare, ReadyInv, Exposed, TestedIsExposed, arrayVars, planVars,
        Vanish, ClonesOf
<1>2. StartInv'
 BY DEF Reshare, OneClone, ReadyInv, StartInv, Ready, Exposed, arrayVars,
        Vanish
<1>3. QED BY <1>1, <1>2 DEF ReadyInv

LEMMA ListMappingsReady ==
  ASSUME TypeInv, CopyInv, ReadyInv, ListMappings
  PROVE  ReadyInv'
<1>1. TestedIsExposed'
 BY DEF ListMappings, ReadyInv, Exposed, TestedIsExposed, arrayVars, planVars,
        Vanish, Fail, ClonesOf
<1>2. StartInv'
 BY DEF ListMappings, ReadyInv, StartInv, Ready, Exposed, arrayVars, At,
        Vanish, Fail, Asked
<1>3. QED BY <1>1, <1>2 DEF ReadyInv

LEMMA ShowMappingsReady ==
  ASSUME TypeInv, CopyInv, ReadyInv, ShowMappings
  PROVE  ReadyInv'
<1>1. TestedIsExposed'
 BY DEF ShowMappings, ReadyInv, Exposed, TestedIsExposed, arrayVars, planVars,
        Continue, Vanish, Fail, ClonesOf
<1>2. StartInv'
 BY DEF ShowMappings, ReadyInv, StartInv, Ready, Exposed, Continue, Vanish,
        Fail
<1>3. QED BY <1>1, <1>2 DEF ReadyInv

LEMMA FindCloneReady ==
  ASSUME TypeInv, CopyInv, ReadyInv, FindClone
  PROVE  ReadyInv'
<1>1. TestedIsExposed'
 BY DEF FindClone, ReadyInv, Exposed, TestedIsExposed, arrayVars, planVars,
        Continue, Proceed, EndStop, ClonesOf
<1>2. StartInv'
 BY DEF FindClone, StartInv, Ready, Exposed, At, Continue, Proceed, EndStop
<1>3. QED BY <1>1, <1>2 DEF ReadyInv

LEMMA FindShareReady ==
  ASSUME TypeInv, CopyInv, ReadyInv, FindShare
  PROVE  ReadyInv'
<1>1. TestedIsExposed'
 BY DEF FindShare, ReadyInv, Exposed, TestedIsExposed, arrayVars, planVars,
        Continue, Proceed, EndStop, ClonesOf
<1>2. StartInv'
 BY DEF FindShare, NextOf, StartInv, Exposed, At, Continue, Proceed, EndStop
<1>3. QED BY <1>1, <1>2 DEF ReadyInv

LEMMA DelShareReady ==
  ASSUME TypeInv, CopyInv, ReadyInv, DelShare
  PROVE  ReadyInv'
<1>1. TestedIsExposed'
 BY DEF DelShare, CopyInv, KnownInv, ReadyInv, Exposed, TestedIsExposed,
        TypeInv, planVars, At, Continue, Proceed, Change, EndStop, ClonesOf,
        TurnInv, AtDevice
<1>2. StartInv'
 BY DEF DelShare, StartInv, Ready, Exposed, At, Continue, Proceed, EndStop
<1>3. QED BY <1>1, <1>2 DEF ReadyInv

LEMMA DelCloneReady ==
  ASSUME TypeInv, CopyInv, ReadyInv, DelClone
  PROVE  ReadyInv'
<1>1. TestedIsExposed'
 BY DEF DelClone, DeleteFails, CopyInv, KnownInv, ReadyInv, Exposed,
        TestedIsExposed, TypeInv, TypeOK, ArrayTypeOK, planVars, At, Proceed,
        Change, EndStop, ClonesOf, TurnInv, AtDevice
<1>2. StartInv'
 BY DEF DelClone, DeleteFails, StartInv, Ready, Exposed, At, Proceed, EndStop
<1>3. QED BY <1>1, <1>2 DEF ReadyInv

LEMMA CreateSnapshotReady ==
  ASSUME TypeInv, CopyInv, ReadyInv, CreateSnapshot
  PROVE  ReadyInv'
<1>1. TestedIsExposed'
 BY DEF CreateSnapshot, ReadyInv, Exposed, TestedIsExposed, planVars,
    Continue,
        Proceed, EndOperate, ClonesOf
<1>2. StartInv'
 BY DEF CreateSnapshot, StartInv, Ready, TypeInv, TypeOK, ProcessTypeOK,
        Continue, Proceed, Record, EndOperate, MapLoop, Asked
<1>3. QED BY <1>1, <1>2 DEF ReadyInv

LEMMA CloneSnapshotReady ==
  ASSUME TypeInv, CopyInv, ReadyInv, CloneSnapshot
  PROVE  ReadyInv'
<1>1. /\ pc' \in {"find", "operate", "share", "map"}
      /\ UNCHANGED <<shared, hosts, planVars>> /\ misled \subseteq misled'
      /\ cur \in todo
  BY CloneSnapshotEffect DEF Continue, EndOperate, Proceed, MapLoop
<1>2. \A c \in CloneId : cloneOf[c] # NoObject => cloneOf'[c] = cloneOf[c]
  BY CloneSnapshotEffect, CloneAssumption
  DEF ClonesOf, TypeInv, TypeOK, ArrayTypeOK
<1>3. \A d \in Device : ClonesOf(d) \subseteq ClonesOf(d)'
  BY <1>2, CloneAssumption DEF ClonesOf
<1>4. \A d \in Device : \A c \in ClonesOf(d) : Exposed(c) => Exposed(c)'
  BY <1>1, <1>2, CloneAssumption DEF Exposed, ClonesOf
<1>5. TestedIsExposed'
  BY <1>1, <1>3, <1>4 DEF ReadyInv, TestedIsExposed, planVars
<1>6. StartInv'
  BY CloneSnapshotEffect
  DEF StartInv, Continue, EndOperate, Proceed, Record, Ready, MapLoop, Asked,
      TypeInv, TypeOK, ProcessTypeOK
<1>7. QED BY <1>5, <1>6 DEF ReadyInv

LEMMA FindLunReady ==
  ASSUME TypeInv, CopyInv, ReadyInv, FindLun
  PROVE  ReadyInv'
<1>1. TestedIsExposed'
 BY DEF FindLun, ReadyInv, Exposed, TestedIsExposed, arrayVars, planVars,
        Proceed, EndOperate, ClonesOf
<1>2. StartInv'
 BY DEF FindLun, StartInv, TypeInv, Proceed, Record, EndOperate, MapLoop,
        TurnInv, Asked
<1>3. QED BY <1>1, <1>2 DEF ReadyInv

LEMMA MapCloneReady ==
  ASSUME TypeInv, CopyInv, ReadyInv, MapClone
  PROVE  ReadyInv'
<1>1. TestedIsExposed'
 BY DEF MapClone, ReadyInv, Exposed, TestedIsExposed, arrayVars, planVars,
        Vanish, ClonesOf
<1>2. StartInv'
 BY DEF MapClone, ReadyInv, StartInv, Ready, Exposed, TypeInv, TypeOK,
        ProcessTypeOK, arrayVars, At, Vanish, Asked, LocalRecord
<1>3. QED BY <1>1, <1>2 DEF ReadyInv

LEMMA MapHostReady ==
  ASSUME TypeInv, CopyInv, ReadyInv, MapHost
  PROVE  ReadyInv'
<1>1. /\ At("start", "mapHost") /\ cur \in todo /\ cur \in Device \ FS
      /\ UNCHANGED <<snapped, cloneOf, shared>>
      /\ misled \subseteq misled'
  BY MapHostEffect
<1>2. PICK h \in local.rows :
        LET after == [hosts EXCEPT ![local.found[cur]] = @ \cup {h}]
        IN /\ hosts' \in {hosts, after}
           /\ \/ Vanish
              \/ /\ hosts' = after \/ cur \in misled'
                 /\ local' = [local EXCEPT !.rows = @ \ {h}]
                 /\ Continue("mapHost")
  BY MapHostEffect
<1>3. h \in Host
  BY LocalFields DEF TypeInv, TypeOK, ProcessTypeOK
<1>4. hosts \in [CloneId -> SUBSET Host] /\ hosts' \in [CloneId -> SUBSET Host]
  BY <1>2, <1>3 DEF TypeInv, TypeOK, ArrayTypeOK
<1>5. \A c \in CloneId : hosts[c] \subseteq hosts'[c]
  BY <1>2, <1>4
<1>6. \A c \in CloneId : Exposed(c) => Exposed(c)'
  BY <1>1, <1>4, <1>5 DEF Exposed
<1>7. UNCHANGED planVars
  BY <1>2 DEF Vanish, Continue
<1>8. TestedIsExposed'
  BY <1>1, <1>6, <1>7 DEF ReadyInv, TestedIsExposed, ClonesOf, planVars
<1>9. CASE Vanish
  <2>1. StartInv'
    BY <1>9 DEF StartInv, Vanish
  <2>2. QED BY <1>8, <2>1 DEF ReadyInv
<1>10. CASE /\ \/ hosts' = [hosts EXCEPT ![local.found[cur]] = @ \cup {h}]
               \/ cur \in misled'
            /\ local' = [local EXCEPT !.rows = @ \ {h}]
            /\ Continue("mapHost")
  <2>1. /\ local'.found = local.found /\ local'.rows = local.rows \ {h}
        /\ Asked' = Asked /\ UNCHANGED <<cmd, todo, cur, report>>
        /\ pc' = "mapHost"
    BY <1>10
    DEF Continue, Asked, LocalRecord, TypeInv, TypeOK, ProcessTypeOK
  <2>2. /\ local.found[cur] # NoObject /\ local.found[cur] \in CloneId
        /\ \/ cur \in misled
           \/ Host \ hosts[local.found[cur]] \subseteq local.rows
    BY <1>1
    DEF ReadyInv, StartInv, At, LocalRecord, Clone, TypeInv, TypeOK,
        ProcessTypeOK
  <2>3. \/ cur \in misled'
        \/ Host \ hosts'[local.found[cur]] \subseteq local.rows \ {h}
    BY <1>1, <1>4, <1>10, <2>2
  <2>4. \A d \in Asked \ todo : Ready(d)
    BY <1>1 DEF ReadyInv, StartInv, At
  <2>5. \A d \in Asked : local.found[d] # NoObject => local.found[d] \in CloneId
    BY DEF Asked, LocalRecord, Clone, TypeInv, TypeOK, ProcessTypeOK
  <2>6. \A d \in Asked : Ready(d) => Ready(d)'
    BY <1>1, <1>6, <2>1, <2>5 DEF Ready
  <2>7. StartInv'
    BY <2>1, <2>2, <2>3, <2>4, <2>6 DEF StartInv
  <2>8. QED BY <1>8, <2>7 DEF ReadyInv
<1>11. QED BY <1>2, <1>9, <1>10

LEMMA MappedReady ==
  ASSUME TypeInv, CopyInv, ReadyInv, Mapped
  PROVE  ReadyInv'
<1>1. /\ At("start", "mapHost") /\ local.rows = {} /\ cur \in todo
      /\ todo \subseteq Asked /\ Proceed(cur, "map", "identify")
      /\ UNCHANGED <<arrayVars, local, report>>
  BY DEF Mapped, At, AtDevice, TypeInv, TurnInv
<1>2. Asked' = Asked
  BY <1>1 DEF Asked
<1>3. TestedIsExposed'
  BY <1>1
  DEF ReadyInv, TestedIsExposed, Exposed, ClonesOf, Proceed, arrayVars,
      planVars
<1>4. Ready(cur)
  <2>1. /\ local.found[cur] # NoObject
        /\ cur \in misled \/ Host \subseteq hosts[local.found[cur]]
        /\ local.found[cur] \in ClonesOf(cur) /\ cur \in Device \ FS
    BY <1>1
    DEF ReadyInv, StartInv, CopyInv, KnownInv, At, TypeInv, TurnInv, ForLun
  <2>2. hosts[local.found[cur]] \subseteq Host
    BY <2>1 DEF ClonesOf, TypeInv, TypeOK, ArrayTypeOK
  <2>3. cur \in misled \/ hosts[local.found[cur]] = Host
    BY <2>1, <2>2
  <2>4. cloneOf[local.found[cur]] \notin FS
    BY <2>1 DEF ClonesOf
  <2>5. QED BY <2>1, <2>3, <2>4 DEF Ready, Exposed
<1>5. \A d \in Asked \ (todo \ {cur}) : Ready(d)
  BY <1>1, <1>4 DEF ReadyInv, StartInv, At
<1>6. \A d \in Asked : Ready(d) => Ready(d)'
  BY <1>1 DEF Ready, Exposed, arrayVars
<1>7. StartInv'
  BY <1>1, <1>2, <1>5, <1>6 DEF StartInv, Proceed, At
<1>8. QED BY <1>3, <1>7 DEF ReadyInv

LEMMA IdentifyReady ==
  ASSUME TypeInv, CopyInv, ReadyInv, Identify
  PROVE  ReadyInv'
<1>1. TestedIsExposed'
 BY DEF Identify, ReadyInv, Exposed, TestedIsExposed, arrayVars, planVars,
        Proceed, Vanish, ClonesOf
<1>2. StartInv'
 BY DEF Identify, ReadyInv, StartInv, Ready, Exposed, TypeInv, TypeOK,
        ProcessTypeOK, arrayVars, At, Proceed, Record, Vanish, Asked,
        LocalRecord
<1>3. QED BY <1>1, <1>2 DEF ReadyInv

LEMMA FindSnapshotReady ==
  ASSUME TypeInv, CopyInv, ReadyInv, FindSnapshot
  PROVE  ReadyInv'
<1>1. TestedIsExposed'
 BY DEF FindSnapshot, ReadyInv, Exposed, TestedIsExposed, arrayVars, planVars,
        Continue, Proceed, EndStop, ClonesOf
<1>2. StartInv'
 BY DEF FindSnapshot, StartInv, Ready, Exposed, At, Continue, Proceed, EndStop
<1>3. QED BY <1>1, <1>2 DEF ReadyInv

LEMMA ShowRowsReady ==
  ASSUME TypeInv, CopyInv, ReadyInv, ShowRows
  PROVE  ReadyInv'
<1>1. /\ At("stop", "showRows") /\ UNCHANGED arrayVars /\ UNCHANGED planVars
      /\ cmd' = "stop" /\ pc' \in {"unmap", "stop", "respond"}
  BY DEF ShowRows, At, Continue, EndStop, Proceed
<1>2. TestedIsExposed'
  BY <1>1 DEF ReadyInv, TestedIsExposed, Exposed, ClonesOf, arrayVars,
     planVars
<1>3. StartInv'
  BY <1>1 DEF StartInv
<1>4. QED BY <1>2, <1>3 DEF ReadyInv

LEMMA UnmapReady ==
  ASSUME TypeInv, CopyInv, ReadyInv, Unmap
  PROVE  ReadyInv'
<1>1. TestedIsExposed'
 BY DEF Unmap, CopyInv, KnownInv, ReadyInv, Exposed, TestedIsExposed, TypeInv,
        TypeOK, ArrayTypeOK, planVars, At, Continue, Change, ClonesOf,
        TurnInv,
        AtDevice
<1>2. StartInv'
 BY DEF Unmap, ReadyInv, StartInv, Ready, Exposed, Continue, Change, Outcome
<1>3. QED BY <1>1, <1>2 DEF ReadyInv

LEMMA UnmappedReady ==
  ASSUME TypeInv, CopyInv, ReadyInv, Unmapped
  PROVE  ReadyInv'
<1>1. TestedIsExposed'
 BY DEF Unmapped, ReadyInv, Exposed, TestedIsExposed, arrayVars, planVars,
        Continue, ClonesOf
<1>2. StartInv'
 BY DEF Unmapped, OneClone, ReadyInv, StartInv, Ready, Exposed, arrayVars,
        Continue
<1>3. QED BY <1>1, <1>2 DEF ReadyInv

LEMMA DelLunReady ==
  ASSUME TypeInv, CopyInv, ReadyInv, DelLun
  PROVE  ReadyInv'
<1>1. /\ At("stop", "delLun") /\ cur \in Asked /\ cmd' = "stop"
      /\ UNCHANGED <<shared, hosts, planVars>>
      /\ misled \subseteq misled' /\ pc' \in {"delSnap", "stop", "respond"}
  BY DelLunEffect
  DEF AfterLun, Continue, EndStop, Proceed, At, TypeInv, TurnInv
<1>2. \A d \in Device \ {cur} : \A c \in ClonesOf(d) : cloneOf'[c] = cloneOf[c]
  BY DelLunEffect DEF ClonesOf, TypeInv, TypeOK, ArrayTypeOK
<1>3. \A d \in Device : phase[d] = "testing" => d # cur
  BY <1>1 DEF At, TypeInv, TurnInv
<1>4. TestedIsExposed'
  BY <1>1, <1>2, <1>3
  DEF ReadyInv, TestedIsExposed, Exposed, ClonesOf, planVars
<1>5. StartInv'
  BY <1>1 DEF StartInv
<1>6. QED BY <1>4, <1>5 DEF ReadyInv

LEMMA DelSnapshotReady ==
  ASSUME TypeInv, CopyInv, ReadyInv, DelSnapshot
  PROVE  ReadyInv'
<1>1. TestedIsExposed'
 BY DEF DelSnapshot, ReadyInv, Exposed, TestedIsExposed, planVars, Proceed,
        EndStop, ClonesOf
<1>2. StartInv'
 BY DEF DelSnapshot, ReadyInv, StartInv, Ready, Exposed, At, Proceed, EndStop
<1>3. QED BY <1>1, <1>2 DEF ReadyInv

LEMMA RespondReady ==
  ASSUME TypeInv, CopyInv, ReadyInv, Respond
  PROVE  ReadyInv'
<1>1. UNCHANGED arrayVars /\ pc = "respond" /\ pc' = "idle"
  BY DEF Respond
<1>2. ASSUME NEW d \in Device, phase'[d] = "testing"
      PROVE  told'[d] \in ClonesOf(d) /\ (d \in misled \/ Exposed(told'[d]))
  <2>1. CASE cmd = "start" /\ report[d] = "ok"
    <3>1. told'[d] = local.found[d]
      BY <2>1 DEF Respond
    <3>2. d \in Asked /\ Ready(d)
      BY <1>1, <2>1 DEF Asked, ReadyInv, StartInv
    <3>3. /\ local.found[d] # NoObject
          /\ d \in misled \/ Exposed(local.found[d])
      BY <2>1, <3>2 DEF Ready
    <3>4. local.found[d] \in ClonesOf(d)
      BY <2>1, <3>3 DEF CopyInv, KnownInv
    <3>5. QED BY <3>1, <3>3, <3>4
  <2>2. CASE ~(cmd = "start" /\ report[d] = "ok")
    <3>1. phase[d] = "testing"
      BY <1>2, <2>2 DEF Respond
    <3>2. report[d] # "ok" \/ cmd = "stop"
      BY <1>1, <2>2 DEF TypeInv, TurnInv
    <3>3. told'[d] = told[d]
      BY <3>2 DEF Respond, TypeInv, TypeOK, ProcessTypeOK
    <3>4. QED BY <3>1, <3>3 DEF ReadyInv, TestedIsExposed
  <2>3. QED BY <2>1, <2>2
<1>3. TestedIsExposed'
  BY <1>1, <1>2 DEF TestedIsExposed, Exposed, ClonesOf, arrayVars
<1>4. StartInv'
  BY <1>1 DEF StartInv
<1>5. QED BY <1>3, <1>4 DEF ReadyInv

LEMMA CrashReady ==
  ASSUME TypeInv, CopyInv, ReadyInv, Crash
  PROVE  ReadyInv'
<1>1. TestedIsExposed'
 BY DEF Crash, ReadyInv, Exposed, TestedIsExposed, arrayVars, planVars,
    Vanish,
        Fail, ClonesOf
<1>2. StartInv'
 BY DEF Crash, ReadyInv, StartInv, Ready, Exposed, Vanish, Fail, Fails
<1>3. QED BY <1>1, <1>2 DEF ReadyInv

LEMMA StabilizeReady ==
  ASSUME TypeInv, CopyInv, ReadyInv, Stabilize
  PROVE  ReadyInv'
<1>1. TestedIsExposed'
 BY DEF Stabilize, ReadyInv, Exposed, TestedIsExposed, arrayVars, planVars,
        procVars, ClonesOf
<1>2. StartInv'
 BY DEF Stabilize, ReadyInv, StartInv, Ready, Exposed, arrayVars, procVars,
        Asked
<1>3. QED BY <1>1, <1>2 DEF ReadyInv

LEMMA BeginReady ==
  ASSUME TypeInv, CopyInv, ReadyInv,
         NEW c \in {"start", "stop"}, NEW D \in SUBSET Device, Begin(c, D)
  PROVE  ReadyInv'
<1>1. TestedIsExposed'
  BY DEF Begin, ReadyInv, TestedIsExposed, Exposed, ClonesOf, arrayVars
<1>2. StartInv'
  BY DEF Begin, StartInv
<1>3. QED BY <1>1, <1>2 DEF ReadyInv

(* Every step keeps ReadyInv.                                              *)
LEMMA NextReady ==
  ASSUME TypeInv, CopyInv, ReadyInv, [Next]_vars
  PROVE  ReadyInv'
<1>1. CASE UNCHANGED vars
  BY <1>1
  DEF vars, arrayVars, planVars, procVars, ReadyInv, TestedIsExposed,
      StartInv,
      Ready, Exposed, ClonesOf, Asked
<1>2. CASE Start
  BY <1>2, BeginReady DEF Start
<1>3. CASE ProcessStep
  BY <1>3, PreambleReady, CheckStatusReady, OperateReady, SkipDeviceReady,
     StopPickReady, CreateCloneReady, DateCloneReady, AddShareReady,
     UnshareReady, ReshareReady, ListMappingsReady, ShowMappingsReady,
     FindCloneReady, FindShareReady, DelShareReady, DelCloneReady,
     CreateSnapshotReady, CloneSnapshotReady, FindLunReady, MapCloneReady,
     MapHostReady, MappedReady, IdentifyReady, FindSnapshotReady,
     ShowRowsReady, UnmapReady, UnmappedReady, DelLunReady, DelSnapshotReady,
     RespondReady
  DEF ProcessStep, FileSystemNext, FusionNext
<1>4. CASE Crash
  BY <1>4, CrashReady
<1>5. CASE Stabilize
  BY <1>5, StabilizeReady
<1>6. QED BY <1>1, <1>2, <1>3, <1>4, <1>5 DEF Next

(* In the beginning no device is tested.                                   *)
LEMMA InitReady == Init => ReadyInv
BY DEF Init, ProcessInit, ReadyInv, TestedIsExposed, StartInv

(* A clone SRM was told of is the own one of the device, shared or mapped to *)
(* all the hosts, but for a LUN whose start took a refusal for an OK:      *)
(* TestFailoverStart ends as a whole when CMD_addnfs or _add_map fails, and *)
(* so names no device that the loops have not exposed.                     *)
THEOREM TestedExposed == Spec => []TestedIsExposed
<1>1. TypeInv /\ CopyInv /\ ReadyInv /\ [Next]_vars
        => TypeInv' /\ CopyInv' /\ ReadyInv'
  BY NextType, NextCopies, NextReady
<1>2. ReadyInv => TestedIsExposed
  BY DEF ReadyInv
<1>3. QED BY InitType, InitCopies, InitReady, <1>1, <1>2, PTL DEF Spec
===============================================================================
