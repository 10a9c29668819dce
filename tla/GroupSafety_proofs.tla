------------------------- MODULE GroupSafety_proofs -------------------------
(***************************************************************************)
(* TypeInv, and the invariants of GroupSafety, are inductive, for any      *)
(* units, siblings, commands and any number of management addresses, and   *)
(* what follows from them.  TypeInv is what every other theorem about      *)
(* GroupRecovery rests on: at every step about a unit the process has one, *)
(* of the kind the step is for, and in the phase the command is for.       *)
(***************************************************************************)
EXTENDS GroupSafety, TLAPS

(* The result and the next step of every call are typed. *)
LEMMA OutcomeTypes ==
  /\ Outcome \subseteq Result
  /\ \A u : SyncOutcome(u) \subseteq Outcome /\ SwapOutcome(u) \subseteq Outcome
BY DEF Outcome, Result, SyncOutcome, SwapOutcome

(* No unit is of two kinds. *)
LEMMA Kinds ==
  /\ Mirror \cap Metro = {} /\ ConsistGroup \cap VStore = {}
  /\ MetroGroup \cap MetroPair = {}
  /\ Unit = Mirror \cup Metro /\ ThreeDC \subseteq ConsistGroup
BY UnitAssumption DEF Mirror, Metro, Unit

(* What SRM may ask for, and a fresh process. *)
LEMMA FreshType ==
  /\ FreshLocal \in LocalRecord
  /\ NoRow \notin UnitRecord
  /\ Site = {"A", "B"} /\ \A site \in Site : Other(site) \in Site
BY DEF FreshLocal, LocalRecord, NoRow, UnitRecord, Status, Site, Other

(* A row that a query returns is the unit itself or none. *)
LEMMA RowType ==
  ASSUME TypeInv, NEW u \in Unit, NEW objects, NEW row \in Answered(u, objects)
  PROVE  /\ row \in UnitRecord \cup {NoRow}
         /\ row = NoRow \/ (row = unit[u] /\ u \in objects)
         /\ row.status # "none" <=> row # NoRow
<1>1. row = NoRow \/ (row = unit[u] /\ u \in objects)
  BY DEF Answered
<1>2. unit[u] \in UnitRecord
  BY DEF TypeInv, TypeOK, GroupArrayTypeOK
<1>3. QED BY <1>1, <1>2 DEF NoRow, UnitRecord, Status

(* The requests, as the steps of a unit send them. *)
Splits(u, reply) == CMD_splitconsistgr(u, reply) \/ CMD_splitvstorepair(u, reply)
Grants(u, access, reply) ==
  \/ CMD_changeCGSlaveLunRw(u, access, reply)
  \/ CMD_changeVstorePairSlaveLunRw(u, access, reply)
Syncs(u, reply) ==
  \/ CMD_syncconsistgr(u, reply) \/ CMD_syncvstorepair(u, reply)
  \/ CMD_syncconsistgrhm(u, reply) \/ CMD_synchmpair(u, reply)
Stops(u, keep, isPrimary, reply) ==
  \/ CMD_stopconsistgrhm(u, keep, isPrimary, reply)
  \/ CMD_disablehcpair(u, keep, isPrimary, reply)
Swaps(u, reply) ==
  \/ CMD_swapconsistgr(u, reply) \/ CMD_swapvstorepair(u, reply)
  \/ CMD_swapconsistgrhm(u, reply) \/ CMD_swaphypermetro(u, reply)
Request(u, reply) ==
  \/ Splits(u, reply)
  \/ \E access \in Access : Grants(u, access, reply)
  \/ Syncs(u, reply)
  \/ \E keep \in Site : \E isPrimary \in BOOLEAN : Stops(u, keep, isPrimary, reply)
  \/ Swaps(u, reply)

(* A request leaves well-typed units, however often it is delivered, and   *)
(* changes no unit but its own.                                            *)
LEMMA RequestType ==
  ASSUME TypeInv, NEW u \in Unit, NEW reply \in Outcome, Request(u, reply)
  PROVE  /\ unit' \in [Unit -> UnitRecord]
         /\ \A v \in Unit \ {u} : unit'[v] = unit[v]
<1> USE DEF TypeInv, TypeOK, GroupArrayTypeOK
<1>1. ASSUME NEW after \in UnitRecord, Idempotent(u, reply, after)
      PROVE  /\ unit' \in [Unit -> UnitRecord]
             /\ \A v \in Unit \ {u} : unit'[v] = unit[v]
  BY <1>1 DEF Idempotent
<1>2. ASSUME Exchanged(u, reply)
      PROVE  /\ unit' \in [Unit -> UnitRecord]
             /\ \A v \in Unit \ {u} : unit'[v] = unit[v]
  <2>1. /\ Swapped(u) \in [Unit -> UnitRecord]
        /\ \A v \in Unit \ {u} : Swapped(u)[v] = unit[v]
    BY FreshType DEF Swapped, UnitRecord
  <2>2. QED BY <1>2, <2>1 DEF Exchanged
<1>3. /\ \A to \in Status : [unit[u] EXCEPT !.status = to] \in UnitRecord
      /\ \A to \in Access : [unit[u] EXCEPT !.access = to] \in UnitRecord
      /\ \A keep \in Site : \A isPrimary \in BOOLEAN :
           Stopped(u, Kept(u, keep, isPrimary)) \in UnitRecord
  BY DEF UnitRecord, Stopped, Kept, Status, Access
<1>4. CASE Splits(u, reply) \/ \E access \in Access : Grants(u, access, reply)
  BY <1>1, <1>3, <1>4
     DEF Splits, Grants, CMD_splitconsistgr, CMD_splitvstorepair, Status,
         CMD_changeCGSlaveLunRw, CMD_changeVstorePairSlaveLunRw
<1>5. CASE Syncs(u, reply)
  BY <1>1, <1>3, <1>5
     DEF Syncs, CMD_syncconsistgr, CMD_syncvstorepair, CMD_syncconsistgrhm,
         CMD_synchmpair, Synchronized, Status
<1>6. CASE \E keep \in Site : \E isPrimary \in BOOLEAN :
             Stops(u, keep, isPrimary, reply)
  BY <1>1, <1>3, <1>6 DEF Stops, CMD_stopconsistgrhm, CMD_disablehcpair
<1>7. CASE Swaps(u, reply)
  BY <1>2, <1>7
     DEF Swaps, CMD_swapconsistgr, CMD_swapvstorepair, CMD_swapconsistgrhm,
         CMD_swaphypermetro, Preferred
<1>8. QED BY <1>4, <1>5, <1>6, <1>7 DEF Request

(* What a step about a unit leaves to prove, its frame being one of three. *)
LEMMA UnitStepType ==
  ASSUME TypeInv, AtUnit,
         \/ \E step \in UnitSteps \cup {"next"} : Continue(step)
         \/ \E result \in Result : \/ Answer(result)
                                   \/ \E kind : Abandon(kind, result),
         GroupArrayTypeOK', local' \in LocalRecord,
         pc' # "next" => KindInv'
  PROVE  TypeInv'
<1> USE DEF TypeInv, TypeOK, CommandTypeOK, ProcessInv, AtUnit, UnitSteps, Step,
            planVars
<1>1. pc # "idle" /\ cur \in Unit /\ report[cur] \in Result
  OBVIOUS
<1>2. CASE \E step \in UnitSteps \cup {"next"} : Continue(step)
  BY <1>1, <1>2 DEF Continue
<1>3. CASE \E result \in Result : Answer(result)
  BY <1>1, <1>3 DEF Answer
<1>4. CASE \E result \in Result : \E kind : Abandon(kind, result)
  <2>1. PICK result \in Result :
          /\ \E kind : todo' = todo \ kind
          /\ report' = [report EXCEPT ![cur] = result] /\ pc' = "next"
          /\ UNCHANGED <<cmd, asked, cur, planVars>>
    BY <1>4 DEF Abandon
  <2>2. todo' \subseteq todo
    BY <2>1
  <2>3. QED BY <1>1, <2>1, <2>2
<1>5. QED BY <1>2, <1>3, <1>4

(* A process that ends, or is killed, leaves nothing behind but the units. *)
LEMMA FailType ==
  ASSUME TypeInv, Vanish, GroupArrayTypeOK',
         home' \in [Unit -> Site], phase' \in [Unit -> Phase]
  PROVE  TypeInv'
BY FreshType DEF Vanish, TypeInv, TypeOK, CommandTypeOK, ProcessInv, NoProcess,
   AtUnit, UnitSteps, Step, Result

(* A process at a unit serves it, and knows where it is. *)
LEMMA CurrentUnit ==
  ASSUME TypeInv, AtUnit
  PROVE  /\ cur \in asked /\ cur \in Unit /\ KindInv
         /\ cmd \in Command /\ phase[cur] \in Serving[cmd]
         /\ Local(cur) \in Site /\ unit[cur] \in UnitRecord
         /\ report[cur] \in Result /\ local \in LocalRecord
         /\ GroupArrayTypeOK
BY FreshType, GroupCommandAssumption
   DEF TypeInv, TypeOK, GroupArrayTypeOK, CommandTypeOK, ProcessInv, AtUnit,
       UnitSteps, Step, Local, RunsAt

(* Where the steps go. *)
LEMMA FailingFrame ==
  ASSUME NEW reply \in Outcome, NEW step, Failing(reply, step)
  PROVE  Continue(step) \/ Answer("err")
BY DEF Failing

(* Visiting the siblings of a group keeps the types. *)
LEMMA SparseType ==
  ASSUME TypeInv, AtUnit, pc = "sparse", NEW access \in Access,
         NEW result \in Result, NEW next \in {"suspend", "next"},
         Sparse(access, result, next)
  PROVE  TypeInv'
<1>0. /\ local \in LocalRecord /\ GroupArrayTypeOK /\ cur \in Mirror
      /\ cmd = "prepareReverse" => cur \in Mirror
  BY CurrentUnit DEF KindInv
<1>1. CASE Answer(result) /\ UNCHANGED <<groupVars, local>>
  BY <1>0, <1>1, UnitStepType DEF groupVars, GroupArrayTypeOK, Answer
<1>2. CASE Continue(next) /\ UNCHANGED <<groupVars, local>>
  <2>1. next \in UnitSteps \cup {"next"}
    BY DEF UnitSteps, Step
  <2>2. pc' # "next" => KindInv'
    BY <1>0, <1>2 DEF Continue, KindInv
  <2>3. QED
    BY <1>0, <1>2, <2>1, <2>2, UnitStepType DEF groupVars, GroupArrayTypeOK
<1>3. ASSUME NEW s \in local.rest, NEW reply \in Outcome,
             sibling' \in {[sibling EXCEPT ![s] = access]}
                          \cup (IF reply = "err" THEN {sibling} ELSE {}),
             local' = [local EXCEPT !.rest = @ \ {s}],
             Failing(reply, "sparse"),
             UNCHANGED <<unit, hyper>>
      PROVE  TypeInv'
  <2>1. local' \in LocalRecord /\ GroupArrayTypeOK'
    BY <1>0, <1>3 DEF LocalRecord, GroupArrayTypeOK
  <2>2. CASE Answer("err")
    BY <2>1, <2>2, UnitStepType DEF Answer, Result
  <2>3. CASE Continue("sparse")
    <3>1. KindInv'
      BY <1>0, <2>3 DEF Continue, KindInv
    <3>2. QED BY <2>1, <2>3, <3>1, UnitStepType DEF UnitSteps, Step
  <2>4. QED BY <1>3, <2>2, <2>3, FailingFrame
<1>4. QED BY <1>1, <1>2, <1>3 DEF Sparse

(* The steps of prepareFailover keep the types. *)
LEMMA PrepareFailoverType == TypeInv /\ PrepareFailoverNext => TypeInv'
<1> SUFFICES ASSUME TypeInv, PrepareFailoverNext PROVE TypeInv'
  OBVIOUS
<1>0. AtUnit /\ cmd = "prepareFailover"
  BY DEF PrepareFailoverNext, PrepareCopy, PrepareShowMetro, PrepareSwap, At,
     AtUnit, UnitSteps, Step
<1>a. local \in LocalRecord /\ GroupArrayTypeOK /\ cur \in Unit
  BY <1>0, CurrentUnit
<1>1. CASE PrepareCopy
  <2>1. GroupArrayTypeOK' /\ local' \in LocalRecord /\ Answer("ok")
    BY <1>1, <1>a DEF PrepareCopy, groupVars, GroupArrayTypeOK
  <2>2. QED BY <1>0, <2>1, UnitStepType DEF Answer, Result
<1>2. CASE PrepareShowMetro
  <2>1. GroupArrayTypeOK' /\ local' \in LocalRecord /\ cur \in Metro
    BY <1>2, <1>a DEF PrepareShowMetro, groupVars, GroupArrayTypeOK
  <2>2. Answer("err") \/ Answer("ok") \/ Continue("swap")
    BY <1>2 DEF PrepareShowMetro
  <2>3. pc' # "next" => KindInv'
    BY <1>0, <2>1, <2>2 DEF Answer, Continue, KindInv
  <2>4. QED
    BY <1>0, <2>1, <2>2, <2>3, UnitStepType DEF Result, UnitSteps, Step
<1>3. CASE PrepareSwap
  <2>1. PICK reply \in Outcome : SwapMetro(cur, reply) /\ Answer(reply)
    BY <1>3, OutcomeTypes DEF PrepareSwap
  <2>2. GroupArrayTypeOK'
    BY <1>3, <1>a, <2>1, RequestType
       DEF PrepareSwap, SwapMetro, Request, Swaps, GroupArrayTypeOK
  <2>3. local' \in LocalRecord /\ pc' = "next"
    BY <1>3, <1>a, <2>1 DEF PrepareSwap, Answer
  <2>4. QED BY <1>0, <2>1, <2>2, <2>3, UnitStepType, OutcomeTypes
<1>4. QED BY <1>1, <1>2, <1>3 DEF PrepareFailoverNext

(* The steps of failover of a copy keep the types. *)
LEMMA FailOverCopyType ==
  ASSUME TypeInv,
         \/ FailOverShowCopy \/ FailOverSparse \/ FailedOverBefore
         \/ SuspendedBefore \/ SuspendCopy \/ ActivateCopy \/ CopyMembers
  PROVE  TypeInv'
<1>0. AtUnit /\ cmd = "failover"
  BY DEF FailOverShowCopy, FailOverSparse, FailedOverBefore, SuspendedBefore,
     SuspendCopy, ActivateCopy, CopyMembers, At, AtUnit, UnitSteps, Step
<1>a. local \in LocalRecord /\ GroupArrayTypeOK /\ cur \in Unit /\ KindInv
  BY <1>0, CurrentUnit
<1>b. cur \in Mirror
  BY <1>a DEF FailOverShowCopy, FailOverSparse, FailedOverBefore,
     SuspendedBefore, SuspendCopy, ActivateCopy, CopyMembers, At, KindInv
<1>c. \A step \in {"sparse", "suspend", "activate", "members"} :
        Continue(step) => step \in UnitSteps /\ KindInv'
  BY <1>0, <1>b DEF Continue, KindInv, UnitSteps, Step
<1>d. \A result : Answer(result) => pc' = "next"
  BY DEF Answer
<1>1. CASE FailOverShowCopy
  <2>1. GroupArrayTypeOK'
    BY <1>1, <1>a DEF FailOverShowCopy, groupVars, GroupArrayTypeOK
  <2>2. PICK nfs \in Classified(cur) : \E row \in ShowCopy(cur, nfs) :
          IF row = NoRow
            THEN Answer("err") /\ UNCHANGED local
            ELSE /\ local' = [local EXCEPT !.seen = row, !.nfs = nfs,
                                !.rest = IF nfs THEN {} ELSE OthersOf(cur)]
                 /\ Continue(IF nfs THEN "suspend" ELSE "sparse")
    BY <1>1 DEF FailOverShowCopy
  <2>3. PICK row \in ShowCopy(cur, nfs) :
          IF row = NoRow
            THEN Answer("err") /\ UNCHANGED local
            ELSE /\ local' = [local EXCEPT !.seen = row, !.nfs = nfs,
                                !.rest = IF nfs THEN {} ELSE OthersOf(cur)]
                 /\ Continue(IF nfs THEN "suspend" ELSE "sparse")
    BY <2>2
  <2>4. CASE row = NoRow
    BY <1>0, <1>a, <1>d, <2>1, <2>3, <2>4, UnitStepType DEF Result
  <2>5. CASE row # NoRow
    <3>1. nfs \in BOOLEAN
      BY <2>2 DEF Classified
    <3>2. row \in UnitRecord /\ (~nfs => cur \in ConsistGroup)
      BY <1>a, <2>5, RowType
         DEF ShowCopy, CMD_showvstorepair_info, CMD_showconsistgrinfo
    <3>3. ~nfs => OthersOf(cur) \subseteq Sibling
      BY <3>2, UnitAssumption DEF OthersOf
    <3>4. local' \in LocalRecord
      BY <1>a, <2>3, <2>5, <3>1, <3>2, <3>3 DEF LocalRecord
    <3>5. QED
      BY <1>0, <1>c, <2>1, <2>3, <2>5, <3>1, <3>4, UnitStepType
  <2>6. QED BY <2>4, <2>5
<1>2. CASE FailOverSparse
  BY <1>0, <1>2, SparseType DEF FailOverSparse, At, Access, Result
<1>3. CASE FailedOverBefore \/ SuspendedBefore \/ CopyMembers
  <2>1. GroupArrayTypeOK' /\ local' \in LocalRecord
    BY <1>3, <1>a DEF FailedOverBefore, SuspendedBefore, CopyMembers, groupVars,
       GroupArrayTypeOK
  <2>2. \/ Continue("members") \/ Continue("activate")
        \/ \E result \in Result : Answer(result)
    BY <1>3, OutcomeTypes DEF FailedOverBefore, SuspendedBefore, CopyMembers,
       Result
  <2>3. QED BY <1>0, <1>c, <1>d, <2>1, <2>2, UnitStepType
<1>4. CASE SuspendCopy
  <2>1. PICK reply \in Outcome : Splits(cur, reply) /\ SplitCopy(reply)
    BY <1>4 DEF SuspendCopy, Splits
  <2>2. GroupArrayTypeOK' /\ local' \in LocalRecord
    BY <1>4, <1>a, <2>1, RequestType DEF SuspendCopy, Request, GroupArrayTypeOK
  <2>3. Continue("activate") \/ Answer("err")
    BY <2>1 DEF SplitCopy, Failing
  <2>4. QED BY <1>0, <1>c, <1>d, <2>2, <2>3, UnitStepType DEF Result
<1>5. CASE ActivateCopy
  <2>1. PICK reply \in Outcome :
          /\ Grants(cur, "RW", reply)
          /\ IF reply = "ok" THEN Continue("members") ELSE Answer("silent")
    BY <1>5 DEF ActivateCopy, Grants
  <2>2. GroupArrayTypeOK' /\ local' \in LocalRecord
    BY <1>5, <1>a, <2>1, RequestType
       DEF ActivateCopy, Request, GroupArrayTypeOK, Access
  <2>3. QED BY <1>0, <1>c, <1>d, <2>1, <2>2, UnitStepType DEF Result
<1>6. QED BY <1>1, <1>2, <1>3, <1>4, <1>5

(* The steps of failover of a HyperMetro unit keep the types. *)
LEMMA FailOverMetroType ==
  ASSUME TypeInv,
         \/ FailOverShowGroup \/ FailOverShowPair \/ FailOverSwap
         \/ FailOverShowAgain \/ FailOverStop \/ GroupMembers \/ PairMembers
  PROVE  TypeInv'
<1>0. AtUnit /\ cmd = "failover"
  BY DEF FailOverShowGroup, FailOverShowPair, FailOverSwap, FailOverShowAgain,
     FailOverStop, GroupMembers, PairMembers, At, AtUnit, UnitSteps, Step
<1>a. local \in LocalRecord /\ GroupArrayTypeOK /\ cur \in Unit /\ KindInv
  BY <1>0, CurrentUnit
<1>b. cur \in Metro
  BY <1>0, <1>a DEF FailOverShowGroup, FailOverShowPair, FailOverSwap,
     FailOverShowAgain, FailOverStop, GroupMembers, PairMembers, At, KindInv,
     Metro
<1>c. \A step \in {"swap", "stop", "show again", "members"} :
        Continue(step) => step \in UnitSteps /\ KindInv'
  BY <1>0, <1>b DEF Continue, KindInv, UnitSteps, Step
<1>d. \A result : Answer(result) => pc' = "next"
  BY DEF Answer
<1>e. \A row \in UnitRecord \cup {NoRow} :
        local' = [local EXCEPT !.seen = row] => local' \in LocalRecord
  BY <1>a DEF LocalRecord
<1>1. CASE FailOverShowGroup
  <2>1. PICK row \in CMD_showconsistgrhminfo(cur) :
          /\ local' = [local EXCEPT !.seen = row]
          /\ Answer("err") \/ IsolateGroup(row) \/ Continue("members")
    BY <1>1 DEF FailOverShowGroup
  <2>2. GroupArrayTypeOK' /\ local' \in LocalRecord
    BY <1>1, <1>a, <1>e, <2>1, RowType
       DEF FailOverShowGroup, CMD_showconsistgrhminfo, groupVars,
           GroupArrayTypeOK
  <2>3. \/ Answer("err") \/ Continue("stop") \/ Continue("swap")
        \/ Continue("members")
    BY <2>1 DEF IsolateGroup
  <2>4. QED BY <1>0, <1>c, <1>d, <2>2, <2>3, UnitStepType DEF Result
<1>2. CASE FailOverShowPair
  <2>1. GroupArrayTypeOK'
    BY <1>2, <1>a DEF FailOverShowPair, groupVars, GroupArrayTypeOK
  <2>2. CASE cur \in Isolated
    <3>1. PICK row \in CMD_showhypermetrolun_all(cur) :
            /\ local' = [local EXCEPT !.seen = row]
            /\ Answer("err") \/ IsolatePair(row)
      BY <1>2, <2>2 DEF FailOverShowPair
    <3>2. local' \in LocalRecord
      BY <1>a, <1>e, <3>1, RowType DEF CMD_showhypermetrolun_all
    <3>3. \/ Answer("err") \/ Continue("show again") \/ Continue("swap")
          \/ Continue("members")
      BY <3>1 DEF IsolatePair
    <3>4. QED BY <1>0, <1>c, <1>d, <2>1, <3>2, <3>3, UnitStepType DEF Result
  <2>3. CASE cur \notin Isolated
    BY <1>0, <1>2, <1>a, <1>c, <2>1, <2>3, UnitStepType DEF FailOverShowPair
  <2>4. QED BY <2>2, <2>3
<1>3. CASE FailOverSwap
  <2>1. PICK reply \in Outcome :
          /\ SwapMetro(cur, reply)
          /\ \/ Answer("err") \/ Continue("stop") \/ Continue("show again")
             \/ Continue("members")
    BY <1>3, <1>b, OutcomeTypes, FailingFrame DEF FailOverSwap, Metro
  <2>2. GroupArrayTypeOK' /\ local' \in LocalRecord
    BY <1>3, <1>a, <2>1, RequestType
       DEF FailOverSwap, SwapMetro, Request, Swaps, GroupArrayTypeOK
  <2>3. QED BY <1>0, <1>c, <1>d, <2>1, <2>2, UnitStepType DEF Result
<1>4. CASE FailOverShowAgain \/ GroupMembers \/ PairMembers
  <2>1. GroupArrayTypeOK' /\ local' \in LocalRecord
    BY <1>4, <1>a DEF FailOverShowAgain, GroupMembers, PairMembers, groupVars,
       GroupArrayTypeOK
  <2>2. Continue("stop") \/ \E result \in Result : Answer(result)
    BY <1>4, OutcomeTypes
       DEF FailOverShowAgain, GroupMembers, PairMembers, Result
  <2>3. QED BY <1>0, <1>c, <1>d, <2>1, <2>2, UnitStepType
<1>5. CASE FailOverStop
  <2>1. PICK reply \in Outcome :
          /\ Stops(cur, Local(cur), FALSE, reply)
          /\ Failing(reply, "members")
    BY <1>5 DEF FailOverStop, Stops
  <2>2. GroupArrayTypeOK' /\ local' \in LocalRecord
    BY <1>0, <1>5, <1>a, <2>1, RequestType, CurrentUnit
       DEF FailOverStop, Request, GroupArrayTypeOK
  <2>3. Continue("members") \/ Answer("err")
    BY <2>1, FailingFrame
  <2>4. QED BY <1>0, <1>c, <1>d, <2>2, <2>3, UnitStepType DEF Result
<1>6. QED BY <1>1, <1>2, <1>3, <1>4, <1>5

(* A HyperMetro that is found is one of the units of the command. *)
LEMMA HypersType ==
  ASSUME TypeInv, pc # "idle", NEW site, NEW found \in FoundHypers(site)
  PROVE  found \subseteq (ThreeDC \cup MetroPair) \X Status
<1>1. /\ hyper \in [ThreeDC -> {"Normal", "Synchronizing", "Pause"}]
      /\ unit \in [Unit -> UnitRecord] /\ MetroPair \subseteq Unit
  BY DEF TypeInv, TypeOK, GroupArrayTypeOK, Unit, Metro
<1>2. HypersAt(site) \subseteq (ThreeDC \cup MetroPair) \X Status
  BY <1>1 DEF HypersAt, UnitRecord, Status
<1>3. QED BY <1>2 DEF FoundHypers

(* The steps of prepareReverse that deal with all its HyperMetros. *)
LEMMA PrepareHypersType ==
  ASSUME TypeInv, FindHypers \/ StopHyper \/ JudgeHyper \/ HypersDone
  PROVE  TypeInv'
<1> USE DEF At
<1>0. /\ pc # "idle" /\ cmd = "prepareReverse" /\ local \in LocalRecord
      /\ GroupArrayTypeOK /\ CommandTypeOK /\ ProcessInv
  BY DEF FindHypers, StopHyper, JudgeHyper, HypersDone, TypeInv, TypeOK,
     CommandTypeOK
<1>1. CASE FindHypers
  <2>1. GroupArrayTypeOK'
    BY <1>0, <1>1 DEF FindHypers, groupVars, GroupArrayTypeOK
  <2>2. CASE Fail
    BY <1>0, <2>1, <2>2, FailType DEF Fail, planVars, CommandTypeOK
  <2>3. CASE ~Fail
    <3>1. PICK found \in FoundHypers(AskedAt) :
            /\ local' = [local EXCEPT !.hyper = found]
            /\ report' = [u \in Unit |-> IF u \in asked /\ found = {}
                                           THEN "ok" ELSE "none"]
            /\ pc' = "hypers"
            /\ UNCHANGED <<cmd, todo, asked, cur, planVars>>
      BY <1>1, <2>3 DEF FindHypers
    <3>2. local' \in LocalRecord
      BY <1>0, <3>1, HypersType DEF LocalRecord
    <3>3. report' \in [Unit -> Result]
      BY <3>1 DEF Result
    <3>4. QED
      BY <1>0, <1>1, <2>1, <3>1, <3>2, <3>3
         DEF FindHypers, TypeInv, TypeOK, CommandTypeOK, ProcessInv, AtUnit,
             UnitSteps, Step, planVars
  <2>4. QED BY <2>2, <2>3
<1>2. ASSUME NEW h \in local.hyper, NEW result \in Result, Recorded(h, result),
             GroupArrayTypeOK', pc = "hypers"
      PROVE  TypeInv'
  <2>1. local' \in LocalRecord
    BY <1>0, <1>2 DEF Recorded, LocalRecord
  <2>2. report' \in [Unit -> Result]
    BY <1>0, <1>2 DEF Recorded, set_consis_result, set_device_result,
       CommandTypeOK, Result
  <2>3. QED
    BY <1>0, <1>2, <2>1, <2>2
       DEF Recorded, TypeInv, TypeOK, CommandTypeOK, ProcessInv, AtUnit,
           UnitSteps, Step, planVars
<1>3. CASE StopHyper
  <2>1. PICK h \in local.hyper, reply \in Outcome :
          /\ IF h[1] \in ThreeDC
               THEN /\ \E n \in Deliveries(reply) :
                         hyper' = IF n = 0 THEN hyper
                                  ELSE [hyper EXCEPT ![h[1]] = "Pause"]
                    /\ UNCHANGED unit
               ELSE /\ CMD_disablehcpair(h[1], Local(h[1]),
                                         unit[h[1]].primary # Local(h[1]), reply)
                    /\ UNCHANGED hyper
          /\ Recorded(h, reply)
          /\ UNCHANGED sibling /\ pc = "hypers"
    BY <1>3 DEF StopHyper
  <2>2. CASE h[1] \in ThreeDC
    BY <1>0, <1>2, <2>1, <2>2, OutcomeTypes DEF GroupArrayTypeOK
  <2>3. CASE h[1] \notin ThreeDC
    <3>1. h[1] \in MetroPair /\ h[1] \in Unit
      BY <1>0, <2>3 DEF LocalRecord, Unit, Metro
    <3>2. Local(h[1]) \in Site
      BY <1>0, <3>1, FreshType DEF Local, RunsAt, CommandTypeOK
    <3>3. Stops(h[1], Local(h[1]), unit[h[1]].primary # Local(h[1]), reply)
      BY <2>1, <2>3 DEF Stops
    <3>4. (unit[h[1]].primary # Local(h[1])) \in BOOLEAN
      OBVIOUS
    <3>5. Request(h[1], reply)
      BY <3>2, <3>3, <3>4, Zenon DEF Request
    <3>6. GroupArrayTypeOK'
      BY <1>0, <2>1, <2>3, <3>1, <3>5, RequestType DEF GroupArrayTypeOK
    <3>7. QED BY <1>2, <2>1, <3>6, OutcomeTypes
  <2>4. QED BY <2>2, <2>3
<1>4. CASE JudgeHyper
  <2>1. GroupArrayTypeOK' /\ pc = "hypers"
    BY <1>0, <1>4 DEF JudgeHyper, groupVars, GroupArrayTypeOK
  <2>2. PICK h \in local.hyper, result \in Result : Recorded(h, result)
    BY <1>4 DEF JudgeHyper, Result
  <2>3. QED BY <1>2, <2>1, <2>2
<1>5. CASE HypersDone
  BY <1>0, <1>5 DEF HypersDone, groupVars, GroupArrayTypeOK, TypeInv, TypeOK,
     CommandTypeOK, ProcessInv, AtUnit, UnitSteps, Step, planVars
<1>6. QED BY <1>1, <1>3, <1>4, <1>5

(* The steps of prepareReverse keep the types. *)
LEMMA PrepareReverseType == TypeInv /\ PrepareReverseNext => TypeInv'
<1> SUFFICES ASSUME TypeInv, PrepareReverseNext PROVE TypeInv'
  OBVIOUS
<1> USE DEF At
<1>1. CASE FindHypers \/ StopHyper \/ JudgeHyper \/ HypersDone
  BY <1>1, PrepareHypersType
<1>2. CASE UnwindSparse
  <2>1. AtUnit /\ pc = "sparse"
    BY <1>2 DEF UnwindSparse, AtUnit, UnitSteps, Step
  <2>2. QED BY <1>2, <2>1, SparseType DEF UnwindSparse, Access, Result
<1>3. CASE UnwindCopy
  <2>1. AtUnit /\ cmd = "prepareReverse"
    BY <1>3 DEF UnwindCopy, AtUnit, UnitSteps, Step
  <2>2. /\ cur \in Mirror /\ local \in LocalRecord /\ report[cur] \in Result
        /\ GroupArrayTypeOK'
    BY <1>3, <2>1, CurrentUnit
       DEF KindInv, UnwindCopy, groupVars, GroupArrayTypeOK
  <2>3. CASE \E result \in Result : Answer(result) /\ UNCHANGED local
    BY <2>1, <2>2, <2>3, UnitStepType DEF Answer
  <2>4. CASE /\ cur \notin VStore /\ Continue("sparse")
             /\ local' = [local EXCEPT !.rest = OthersOf(cur)]
    <3>1. OthersOf(cur) \subseteq Sibling
      BY <2>2, <2>4, UnitAssumption DEF OthersOf, Mirror
    <3>2. local' \in LocalRecord
      BY <2>2, <2>4, <3>1 DEF LocalRecord
    <3>3. KindInv'
      BY <2>1, <2>2, <2>4 DEF Continue, KindInv
    <3>4. QED
      BY <2>1, <2>2, <2>4, <3>2, <3>3, UnitStepType DEF UnitSteps, Step
  <2>5. QED BY <1>3, <2>2, <2>3, <2>4 DEF UnwindCopy, Result
<1>4. QED BY <1>1, <1>2, <1>3 DEF PrepareReverseNext

(* The steps of reverse about a unit keep the types. *)
LEMMA ReverseUnitType ==
  ASSUME TypeInv,
         \/ ReverseShowCopy \/ SwapCopy \/ LockCopy \/ ReverseShowMetro
         \/ ReverseMapGroup \/ ReverseMapPair \/ ReverseShowPair
         \/ ReverseDecide \/ ReverseSwapMetro
  PROVE  TypeInv'
<1>0. AtUnit /\ cmd = "reverse"
  BY DEF ReverseShowCopy, SwapCopy, LockCopy, ReverseShowMetro, ReverseMapGroup,
     ReverseMapPair, ReverseShowPair, ReverseDecide, ReverseSwapMetro, At,
     AtUnit, UnitSteps, Step
<1>a. local \in LocalRecord /\ GroupArrayTypeOK /\ cur \in Unit /\ KindInv
  BY <1>0, CurrentUnit
<1>c. /\ \A step \in {"swap", "lock"} : Continue(step) /\ cur \in Mirror =>
           step \in UnitSteps /\ KindInv'
      /\ \A step \in {"map", "inquire", "swap"} :
           Continue(step) /\ cur \in Metro => step \in UnitSteps /\ KindInv'
  BY <1>0 DEF Continue, KindInv, UnitSteps, Step
<1>d. /\ \A result : Answer(result) => pc' = "next"
      /\ \A result, kind : Abandon(kind, result) => pc' = "next"
  BY DEF Answer, Abandon
<1>e. \A row \in UnitRecord \cup {NoRow} :
        local' = [local EXCEPT !.seen = row] => local' \in LocalRecord
  BY <1>a DEF LocalRecord
<1>1. CASE ReverseShowCopy
  <2>1. GroupArrayTypeOK' /\ cur \in Mirror
    BY <1>1, <1>a DEF ReverseShowCopy, groupVars, GroupArrayTypeOK
  <2>2. PICK nfs \in BOOLEAN :
          /\ local' = [local EXCEPT !.nfs = nfs]
          /\ Answer("err") \/ Answer("ok") \/ Continue("swap")
    BY <1>1 DEF ReverseShowCopy, Classified
  <2>3. local' \in LocalRecord
    BY <1>a, <2>2 DEF LocalRecord
  <2>4. QED BY <1>0, <1>c, <1>d, <2>1, <2>2, <2>3, UnitStepType DEF Result
<1>2. CASE SwapCopy
  <2>1. PICK reply \in Outcome : Swaps(cur, reply) /\ Failing(reply, "lock")
    BY <1>2 DEF SwapCopy, Swaps
  <2>2. GroupArrayTypeOK' /\ local' \in LocalRecord
    BY <1>2, <1>a, <2>1, RequestType DEF SwapCopy, Request, GroupArrayTypeOK
  <2>3. Continue("lock") \/ Answer("err")
    BY <2>1, FailingFrame
  <2>4. QED
    BY <1>0, <1>2, <1>c, <1>d, <2>2, <2>3, UnitStepType DEF SwapCopy, Result
<1>3. CASE LockCopy
  <2>1. PICK reply \in Outcome : Grants(cur, "RO", reply) /\ Answer(reply)
    BY <1>3 DEF LockCopy, Grants
  <2>2. GroupArrayTypeOK' /\ local' \in LocalRecord
    BY <1>3, <1>a, <2>1, RequestType
       DEF LockCopy, Request, GroupArrayTypeOK, Access
  <2>3. QED BY <1>0, <1>d, <2>1, <2>2, UnitStepType, OutcomeTypes
<1>4. CASE ReverseShowMetro \/ ReverseShowPair
  <2>1. GroupArrayTypeOK' /\ cur \in Metro
    BY <1>4, <1>a DEF ReverseShowMetro, ReverseShowPair, groupVars,
       GroupArrayTypeOK, Metro
  <2>2. local' \in LocalRecord
    BY <1>4, <1>a, <1>e, RowType DEF ReverseShowMetro, ReverseShowPair,
       CMD_showconsistgrhminfo, CMD_showhypermetrolun_all
  <2>3. Answer("err") \/ Continue("map") \/ Continue("inquire")
    BY <1>4 DEF ReverseShowMetro, ReverseShowPair
  <2>4. QED BY <1>0, <1>c, <1>d, <2>1, <2>2, <2>3, UnitStepType DEF Result
<1>5. CASE ReverseMapGroup \/ ReverseMapPair \/ ReverseDecide
  <2>1. GroupArrayTypeOK' /\ local' \in LocalRecord /\ cur \in Metro
    BY <1>5, <1>a DEF ReverseMapGroup, ReverseMapPair, ReverseDecide, At,
       KindInv, groupVars, GroupArrayTypeOK, Metro
  <2>2. \/ Continue("map") \/ Continue("inquire") \/ Continue("swap")
        \/ \E result \in Result : \/ Answer(result)
                                  \/ \E kind : Abandon(kind, result)
    BY <1>5 DEF ReverseMapGroup, ReverseMapPair, ReverseDecide, Result
  <2>3. QED BY <1>0, <1>c, <1>d, <2>1, <2>2, UnitStepType
<1>6. CASE ReverseSwapMetro
  <2>1. PICK reply \in Outcome : SwapMetro(cur, reply) /\ Answer(reply)
    BY <1>6, OutcomeTypes DEF ReverseSwapMetro
  <2>2. GroupArrayTypeOK' /\ local' \in LocalRecord
    BY <1>6, <1>a, <2>1, RequestType
       DEF ReverseSwapMetro, SwapMetro, Request, Swaps, GroupArrayTypeOK
  <2>3. QED BY <1>0, <1>d, <2>1, <2>2, UnitStepType, OutcomeTypes
<1>7. QED BY <1>1, <1>2, <1>3, <1>4, <1>5, <1>6

(* The steps of reverse that synchronize its HyperMetros keep the types. *)
LEMMA ReverseHypersType ==
  ASSUME TypeInv, ReverseHypers \/ ResyncHyper \/ ReverseFinish
  PROVE  TypeInv'
<1> USE DEF At
<1>0. /\ pc # "idle" /\ cmd = "reverse" /\ local \in LocalRecord
      /\ GroupArrayTypeOK /\ CommandTypeOK /\ ProcessInv
  BY DEF ReverseHypers, ResyncHyper, ReverseFinish, TypeInv, TypeOK,
     CommandTypeOK
<1>1. ASSUME GroupArrayTypeOK', local' \in LocalRecord,
             pc' \in {"resync", "done"},
             UNCHANGED <<cmd, todo, asked, cur, report, planVars>>
      PROVE  TypeInv'
  BY <1>0, <1>1 DEF TypeInv, TypeOK, CommandTypeOK, ProcessInv, AtUnit,
     UnitSteps, Step, planVars
<1>2. CASE ReverseHypers
  <2>1. PICK found \in FoundHypers(AskedAt) :
          local' = [local EXCEPT !.hyper = {h \in found : h[2] \in Resyncable}]
    BY <1>2 DEF ReverseHypers
  <2>2. local' \in LocalRecord
    BY <1>0, <2>1, HypersType DEF LocalRecord
  <2>3. QED
    BY <1>0, <1>1, <1>2, <2>2 DEF ReverseHypers, groupVars, GroupArrayTypeOK
<1>3. CASE ResyncHyper
  <2>1. PICK h \in local.hyper, reply \in Outcome :
          /\ local' = [local EXCEPT !.hyper = @ \ {h}]
          /\ IF h[1] \in ThreeDC
               THEN /\ hyper' \in
                         {[hyper EXCEPT ![h[1]] =
                            IF @ = "Pause" THEN "Synchronizing" ELSE @]}
                         \cup (IF reply = "err" THEN {hyper} ELSE {})
                    /\ UNCHANGED unit
               ELSE CMD_synchmpair(h[1], reply) /\ UNCHANGED hyper
          /\ sibling' = sibling /\ pc' = "resync"
          /\ UNCHANGED <<cmd, todo, asked, cur, report, planVars>>
    BY <1>3 DEF ResyncHyper
  <2>2. local' \in LocalRecord
    BY <1>0, <2>1 DEF LocalRecord
  <2>3. CASE h[1] \in ThreeDC
    <3>1. hyper' \in [ThreeDC -> {"Normal", "Synchronizing", "Pause"}]
      BY <1>0, <2>1, <2>3 DEF GroupArrayTypeOK
    <3>2. QED BY <1>0, <1>1, <2>1, <2>2, <2>3, <3>1 DEF GroupArrayTypeOK
  <2>4. CASE h[1] \notin ThreeDC
    <3>1. h[1] \in Unit
      BY <1>0, <2>4 DEF LocalRecord, Unit, Metro
    <3>2. GroupArrayTypeOK'
      BY <1>0, <2>1, <2>4, <3>1, RequestType
         DEF Request, Syncs, GroupArrayTypeOK
    <3>3. QED BY <1>1, <2>1, <2>2, <3>2
  <2>5. QED BY <2>3, <2>4
<1>4. CASE ReverseFinish
  BY <1>0, <1>1, <1>4 DEF ReverseFinish, groupVars, GroupArrayTypeOK
<1>5. QED BY <1>2, <1>3, <1>4

(* The steps of restore keep the types. *)
LEMMA RestoreType == TypeInv /\ GroupRestoreNext => TypeInv'
<1> SUFFICES ASSUME TypeInv, GroupRestoreNext PROVE TypeInv'
  OBVIOUS
<1>0. AtUnit /\ cmd = "restore"
  BY DEF GroupRestoreNext, RestoreShowCopy, RestoreLockCopy, RestoreSyncCopy,
     RestoreShowGroup, RestoreShowPair, RestoreSyncMetro, At, AtUnit,
     UnitSteps, Step
<1>a. local \in LocalRecord /\ GroupArrayTypeOK /\ cur \in Unit /\ KindInv
  BY <1>0, CurrentUnit
<1>b. local' \in LocalRecord
  <2>1. CASE RestoreShowPair
    <3>1. PICK row \in CMD_showhypermetrolun_all(cur) :
            IF row.status = "none"
              THEN UNCHANGED local
              ELSE LET front == IF local.front = "empty" THEN row.status
                                                         ELSE local.front
                   IN local' = [local EXCEPT !.front = front]
      BY <2>1 DEF RestoreShowPair
    <3>2. row.status = "none" \/ row.status \in Status
      BY <1>a, RowType DEF CMD_showhypermetrolun_all, NoRow, UnitRecord
    <3>3. local.front \in Status \cup {"empty"}
      BY <1>a DEF LocalRecord
    <3>4. local' = local \/ \E s \in Status : local' = [local EXCEPT !.front = s]
      BY <3>1, <3>2, <3>3
    <3>5. QED BY <1>a, <3>4 DEF LocalRecord
  <2>2. CASE ~RestoreShowPair
    BY <1>a, <2>2 DEF GroupRestoreNext, RestoreShowCopy, RestoreLockCopy,
       RestoreSyncCopy, RestoreShowGroup, RestoreSyncMetro
  <2>3. QED BY <2>1, <2>2
<1>c. /\ Continue("resync") => KindInv'
      /\ Continue("lock") /\ cur \in Mirror => KindInv'
  BY <1>0 DEF Continue, KindInv
<1>d. \A result : Answer(result) => pc' = "next"
  BY DEF Answer
<1>1. CASE RestoreShowCopy \/ RestoreShowGroup \/ RestoreShowPair
  <2>1. GroupArrayTypeOK'
    BY <1>1, <1>a DEF RestoreShowCopy, RestoreShowGroup, RestoreShowPair,
       groupVars, GroupArrayTypeOK
  <2>2. \/ Continue("resync") \/ (Continue("lock") /\ cur \in Mirror)
        \/ Answer("err") \/ Answer("ok")
    BY <1>1 DEF RestoreShowCopy, RestoreShowGroup,
    RestoreShowPair, ResyncPaused
  <2>3. QED
    BY <1>0, <1>a, <1>b, <1>c, <1>d, <2>1, <2>2, UnitStepType
       DEF Result, UnitSteps, Step
<1>2. CASE RestoreLockCopy
  <2>1. PICK reply \in Outcome : Grants(cur, "RO", reply) /\ Locked(reply)
    BY <1>2 DEF RestoreLockCopy, Grants
  <2>2. GroupArrayTypeOK'
    BY <1>2, <1>a, <2>1, RequestType
       DEF RestoreLockCopy, Request, GroupArrayTypeOK, Access
  <2>3. Continue("resync") \/ Answer("silent")
    BY <2>1 DEF Locked
  <2>4. QED
    BY <1>0, <1>a, <1>b, <1>c, <1>d, <2>2, <2>3, UnitStepType
       DEF Result, UnitSteps, Step
<1>3. CASE RestoreSyncCopy \/ RestoreSyncMetro
  <2>1. PICK reply \in Outcome : Syncs(cur, reply)
    BY <1>3, OutcomeTypes DEF RestoreSyncCopy, RestoreSyncMetro, SyncMetro, Syncs
  <2>2. GroupArrayTypeOK'
    BY <1>3, <1>a, <2>1, RequestType
       DEF RestoreSyncCopy, RestoreSyncMetro, Request, GroupArrayTypeOK
  <2>3. Answer("ok")
    BY <1>3 DEF RestoreSyncCopy, RestoreSyncMetro
  <2>4. QED BY <1>0, <1>a, <1>b, <1>d, <2>2, <2>3, UnitStepType DEF Result
<1>4. QED BY <1>1, <1>2, <1>3 DEF GroupRestoreNext

(* The steps of syncOnce keep the types. *)
LEMMA SyncType == TypeInv /\ GroupSyncNext => TypeInv'
<1> SUFFICES ASSUME TypeInv, GroupSyncNext PROVE TypeInv'
  OBVIOUS
<1>0. AtUnit /\ cmd = "sync"
  BY DEF GroupSyncNext, SyncShowCopy, SyncCopy, SyncShowGroup, SyncShowPair,
     SyncInquirePair, SyncMetroUnit, At, AtUnit, UnitSteps, Step
<1>a. /\ local \in LocalRecord /\ GroupArrayTypeOK /\ cur \in Unit /\ KindInv
      /\ CommandTypeOK
  BY <1>0, CurrentUnit DEF TypeInv, TypeOK
<1>c. /\ Continue("resync") => KindInv'
      /\ Continue("inquire") /\ cur \in Metro => KindInv'
  BY <1>0 DEF Continue, KindInv
<1>d. \A result : Answer(result) => pc' = "next"
  BY DEF Answer
<1>1. CASE SyncShowCopy \/ SyncShowGroup \/ SyncShowPair \/ SyncInquirePair
  <2>1. GroupArrayTypeOK'
    BY <1>1, <1>a DEF SyncShowCopy, SyncShowGroup, SyncShowPair,
       SyncInquirePair, groupVars, GroupArrayTypeOK
  <2>2. CASE Fail
    BY <1>a, <2>1, <2>2, FailType DEF Fail, planVars, CommandTypeOK
  <2>3. CASE ~Fail
    <3>1. local' = local \/ \E nfs \in BOOLEAN : local' = [local EXCEPT !.nfs = nfs]
      BY <1>1, <2>3 DEF SyncShowCopy, SyncShowGroup, SyncShowPair,
         SyncInquirePair, Classified
    <3>2. local' \in LocalRecord
      BY <1>a, <3>1 DEF LocalRecord
    <3>3. \/ Continue("resync") \/ (Continue("inquire") /\ cur \in Metro)
          \/ \E result \in Result : Answer(result)
      <4>1. CASE SyncShowCopy
        BY <2>3, <4>1 DEF SyncShowCopy, Result
      <4>2. CASE SyncShowGroup \/ SyncShowPair \/ SyncInquirePair
        BY <2>3, <4>2 DEF SyncShowGroup, SyncShowPair, SyncInquirePair, Result,
           Metro
      <4>3. QED BY <1>1, <4>1, <4>2
    <3>4. QED
      BY <1>0, <1>c, <1>d, <2>1, <3>2, <3>3, UnitStepType
         DEF UnitSteps, Step
  <2>4. QED BY <2>2, <2>3
<1>2. CASE SyncCopy \/ SyncMetroUnit
  <2>1. PICK reply \in Outcome : Syncs(cur, reply) /\ Answer(reply)
    BY <1>2, OutcomeTypes DEF SyncCopy, SyncMetroUnit, SyncMetro, Syncs
  <2>2. GroupArrayTypeOK' /\ local' \in LocalRecord
    BY <1>2, <1>a, <2>1, RequestType
       DEF SyncCopy, SyncMetroUnit, Request, GroupArrayTypeOK
  <2>3. QED BY <1>0, <1>d, <2>1, <2>2, UnitStepType, OutcomeTypes
<1>3. QED BY <1>1, <1>2 DEF GroupSyncNext

(* Picking the next unit: it is of the kind the loop is for. *)
LEMMA PickType == TypeInv /\ PickUnit => TypeInv'
<1> SUFFICES ASSUME TypeInv, PickUnit PROVE TypeInv'
  OBVIOUS
<1>1. /\ GroupArrayTypeOK /\ CommandTypeOK /\ ProcessInv
      /\ cmd \in Command /\ pc = "next"
  BY GroupCommandAssumption
     DEF PickUnit, TypeInv, TypeOK, ProcessInv, CommandTypeOK
<1>2. PICK u \in todo : /\ cur' = u /\ todo' = todo \ {u}
                        /\ cmd = "prepareReverse" => u \in Mirror
  <2>1. PICK i \in DOMAIN LoopsOf[cmd] : \E u \in LoopsOf[cmd][i] \cap todo :
          cur' = u /\ todo' = todo \ {u}
    BY <1>1 DEF PickUnit
  <2>2. cmd = "prepareReverse" => LoopsOf[cmd] = <<Mirror>>
    BY DEF LoopsOf
  <2>3. cmd = "prepareReverse" => i = 1 /\ LoopsOf[cmd][i] = Mirror
    BY <2>1, <2>2
  <2>4. QED BY <2>1, <2>3
<1>3. u \in asked /\ u \in Unit
  BY <1>1 DEF CommandTypeOK
<1>4. local' \in LocalRecord
  BY <1>1, FreshType DEF PickUnit, CommandTypeOK, LocalRecord, FreshLocal
<1>5. GroupArrayTypeOK' /\ CommandTypeOK'
  BY <1>1, <1>2, <1>3, <1>4
     DEF PickUnit, groupVars, GroupArrayTypeOK, CommandTypeOK, planVars, Step
<1>6. ProcessInv'
  BY <1>1, <1>2, <1>3
     DEF PickUnit, planVars, ProcessInv, AtUnit, UnitSteps, Step, KindInv
<1>7. QED BY <1>5, <1>6 DEF TypeInv, TypeOK

(* The steps of SRM, and of the process outside its loops, keep the types. *)
LEMMA FrameStepsType ==
  TypeInv /\ (Start \/ Preamble \/ Finish \/ Crash) => TypeInv'
<1> USE DEF TypeInv, TypeOK, CommandTypeOK
<1>1. ASSUME TypeInv, NEW c \in Commands, NEW U \in SUBSET Unit, Begin(c, U)
      PROVE  TypeInv'
  <2>1. c \in Command /\ pc = "idle" /\ NoProcess /\ c # "none"
    BY <1>1, GroupCommandAssumption DEF Begin, ProcessInv, Command
  <2>2. \A u \in U : /\ UnderWay(c, u) \in Serving[c]
                     /\ UnderWay(c, u) \in Phase
    BY <1>1, <2>1 DEF Begin, StartsIn, UnderWay, Serving, Command, Phase
  <2>3. phase' \in [Unit -> Phase] /\ \A u \in U : phase'[u] \in Serving[c]
    BY <1>1, <2>2 DEF Begin
  <2>4. GroupArrayTypeOK' /\ CommandTypeOK'
    BY <1>1, <2>1, <2>3 DEF Begin, groupVars, GroupArrayTypeOK, Step
  <2>5. ProcessInv'
    BY <1>1, <2>3 DEF Begin, ProcessInv, AtUnit, UnitSteps, Step
  <2>6. QED BY <2>4, <2>5
<1>2. ASSUME TypeInv, Preamble PROVE TypeInv'
  <2>1. GroupArrayTypeOK'
    BY <1>2 DEF Preamble, groupVars, GroupArrayTypeOK
  <2>2. CASE Fail
    BY <1>2, <2>1, <2>2, FailType DEF Fail, planVars
  <2>3. CASE ~Fail
    BY <1>2, <2>1, <2>3
       DEF Preamble, Continue, ProcessInv, AtUnit, UnitSteps, Step, planVars
  <2>4. QED BY <2>2, <2>3
<1>3. ASSUME TypeInv, Finish PROVE TypeInv'
  <2>1. GroupArrayTypeOK' /\ Vanish /\ cmd \in Command
    BY <1>3, GroupCommandAssumption
       DEF Finish, groupVars, GroupArrayTypeOK, ProcessInv
  <2>2. phase' \in [Unit -> Phase]
    BY <1>3, <2>1 DEF Finish, Reached, Command, Phase
  <2>3. home' \in [Unit -> Site]
    BY <1>3, FreshType DEF Finish
  <2>4. QED BY <1>3, <2>1, <2>2, <2>3, FailType
<1>4. ASSUME TypeInv, Crash PROVE TypeInv'
  BY <1>4, FailType DEF Crash, Fail, planVars, groupVars, GroupArrayTypeOK
<1>5. QED BY <1>1, <1>2, <1>3, <1>4 DEF Start

(* What the arrays do by themselves keeps the types. *)
LEMMA ArrayStepType == TypeInv /\ ArrayStep => TypeInv'
<1> SUFFICES ASSUME TypeInv, ArrayStep PROVE TypeInv'
  OBVIOUS
<1>1. GroupArrayTypeOK
  BY DEF TypeInv, TypeOK
<1>2. CASE \E u \in Unit : \/ SyncCompletes(u) \/ PeriodicSync(u)
                           \/ LinkBreaks(u)    \/ LinkHeals(u)
  <2>1. PICK u \in Unit, from \in SUBSET Status, to \in Status :
          StatusChange(u, from, to)
    BY <1>2 DEF SyncCompletes, PeriodicSync, LinkBreaks, LinkHeals, Status,
       Replicating
  <2>2. GroupArrayTypeOK'
    BY <1>1, <2>1 DEF StatusChange, GroupArrayTypeOK, UnitRecord, Access
  <2>3. QED
    BY <2>2 DEF ArrayStep, planVars, procVars, TypeInv, TypeOK, CommandTypeOK,
       ProcessInv, NoProcess, AtUnit, KindInv
<1>3. CASE \E u \in ThreeDC : HyperSyncCompletes(u)
  <2>1. GroupArrayTypeOK'
    BY <1>1, <1>3 DEF HyperSyncCompletes, GroupArrayTypeOK
  <2>2. QED
    BY <2>1 DEF ArrayStep, planVars, procVars, TypeInv, TypeOK, CommandTypeOK,
       ProcessInv, NoProcess, AtUnit, KindInv
<1>4. QED BY <1>2, <1>3 DEF ArrayStep, Background

(* The initial states are well typed. *)
LEMMA InitType == Init => TypeInv
<1> SUFFICES ASSUME Init PROVE TypeInv
  OBVIOUS
<1>1. GroupArrayTypeOK
  BY Kinds DEF Init, GroupArrayInit, GroupArrayTypeOK, UnitRecord, Status, Site,
     Access
<1>2. CommandTypeOK /\ ProcessInv
  BY FreshType DEF Init, CommandInit, NoProcess, CommandTypeOK, ProcessInv,
     AtUnit, UnitSteps, Step, Phase, Result
<1>3. QED BY <1>1, <1>2 DEF TypeInv, TypeOK

(* Every step keeps the types. *)
LEMMA NextType == TypeInv /\ [Next]_vars => TypeInv'
<1> SUFFICES ASSUME TypeInv, [Next]_vars PROVE TypeInv'
  OBVIOUS
<1>1. CASE PrepareFailoverNext \/ GroupFailOverNext
  BY <1>1, PrepareFailoverType, FailOverCopyType, FailOverMetroType
     DEF GroupFailOverNext
<1>2. CASE PrepareReverseNext \/ GroupReverseNext
  BY <1>2, PrepareReverseType, ReverseUnitType, ReverseHypersType
     DEF GroupReverseNext
<1>3. CASE GroupRestoreNext \/ GroupSyncNext
  BY <1>3, RestoreType, SyncType
<1>4. CASE Start \/ Preamble \/ PickUnit \/ Finish \/ Crash \/ ArrayStep
  BY <1>4, PickType, FrameStepsType, ArrayStepType
<1>5. CASE UNCHANGED vars
  BY <1>5 DEF vars, groupVars, planVars, procVars, TypeInv, TypeOK,
     GroupArrayTypeOK, CommandTypeOK, ProcessInv, NoProcess, AtUnit, KindInv
<1>6. QED BY <1>1, <1>2, <1>3, <1>4, <1>5 DEF Next, ProcessStep

(* Every variable keeps its type.  TypeInv says more: whichever calls      *)
(* fail, an idle process has left nothing behind, and one that handles a   *)
(* unit was asked for it, in the phase and at a step that are for it.      *)
THEOREM TypeInvariant == Spec => []TypeInv
BY InitType, NextType, PTL DEF Spec

(* The types of all the variables. *)
THEOREM TypeCorrect == Spec => []TypeOK
<1>1. TypeInv => TypeOK
  BY DEF TypeInv
<1>2. QED BY <1>1, TypeInvariant, PTL

----------------------------------------------------------------------------

(* The steps about a copy, about a HyperMetro unit, and about all the      *)
(* HyperMetros of a command.                                               *)
CopyStep ==
  \/ PrepareCopy \/ FailOverShowCopy \/ FailOverSparse \/ FailedOverBefore
  \/ SuspendedBefore \/ SuspendCopy \/ ActivateCopy \/ CopyMembers
  \/ UnwindCopy \/ UnwindSparse \/ ReverseShowCopy \/ SwapCopy \/ LockCopy
  \/ RestoreShowCopy \/ RestoreLockCopy \/ RestoreSyncCopy
  \/ SyncShowCopy \/ SyncCopy
MetroStep ==
  \/ PrepareShowMetro \/ PrepareSwap
  \/ FailOverShowGroup \/ FailOverShowPair \/ FailOverSwap
  \/ FailOverShowAgain \/ FailOverStop \/ GroupMembers \/ PairMembers
  \/ ReverseShowMetro \/ ReverseMapGroup \/ ReverseMapPair \/ ReverseShowPair
  \/ ReverseDecide \/ ReverseSwapMetro
  \/ RestoreShowGroup \/ RestoreShowPair \/ RestoreSyncMetro
  \/ SyncShowGroup \/ SyncShowPair \/ SyncInquirePair \/ SyncMetroUnit
HyperStep ==
  \/ FindHypers \/ StopHyper \/ JudgeHyper \/ HypersDone
  \/ ReverseHypers \/ ResyncHyper \/ ReverseFinish

(* There are no others. *)
LEMMA StepKinds ==
  Next => \/ CopyStep \/ MetroStep \/ HyperStep \/ ArrayStep
          \/ Start \/ Preamble \/ PickUnit \/ Finish \/ Crash
BY DEF Next, ProcessStep, PrepareFailoverNext, GroupFailOverNext,
   PrepareReverseNext, GroupReverseNext, GroupRestoreNext, GroupSyncNext,
   CopyStep, MetroStep, HyperStep

(* What the steps about a unit leave alone, and the end of a process. *)
UnitFrame ==
  /\ AtUnit
  /\ UNCHANGED <<home, phase, cmd, asked, cur>> /\ todo' \subseteq todo
  /\ \A u \in Unit \ {cur} : unit'[u] = unit[u] /\ report'[u] = report[u]
  /\ pc' # "next" => report' = report
Ended == Vanish /\ UNCHANGED <<unit, sibling, home, phase>>

(* A request that was answered has had its effect, and one that failed has *)
(* had it or not.                                                          *)
Served(reply, after) == unit' = after \/ (reply = "err" /\ unit' = unit)

(* What a request does to a unit, however often it is delivered.           *)
LEMMA RequestEffect ==
  ASSUME TypeInv, NEW u \in Unit, NEW reply \in Outcome
  PROVE
  /\ Splits(u, reply) => Served(reply, [unit EXCEPT ![u].status = "Split"])
  /\ \A access : Grants(u, access, reply) =>
       Served(reply, [unit EXCEPT ![u].access = access])
  /\ Syncs(u, reply) =>
       unit' = unit \/ unit' = [unit EXCEPT ![u].status = "Synchronizing"]
  /\ \A keep, isPrimary : Stops(u, keep, isPrimary, reply) =>
       Served(reply, [unit EXCEPT ![u] = Stopped(u, Kept(u, keep, isPrimary))])
  /\ Swaps(u, reply) => unit' = unit \/ unit' = Swapped(u)
  /\ Addresses = 1 /\ (CMD_swapconsistgr(u, reply) \/ CMD_swapvstorepair(u, reply))
       => Served(reply, Swapped(u))
<1> USE DEF Outcome, Served, TypeInv, TypeOK, GroupArrayTypeOK
<1>1. \A n \in Deliveries(reply) : n # 0 \/ reply = "err"
  BY UnitAssumption DEF Deliveries
<1>2. ASSUME NEW after, Idempotent(u, reply, after)
      PROVE  Served(reply, [unit EXCEPT ![u] = after])
  BY <1>1, <1>2 DEF Idempotent
<1>3. Splits(u, reply) => Served(reply, [unit EXCEPT ![u].status = "Split"])
  BY <1>2 DEF Splits, CMD_splitconsistgr, CMD_splitvstorepair
<1>4. ASSUME NEW access, Grants(u, access, reply)
      PROVE  Served(reply, [unit EXCEPT ![u].access = access])
  BY <1>2, <1>4 DEF Grants, CMD_changeCGSlaveLunRw, CMD_changeVstorePairSlaveLunRw
<1>5. Syncs(u, reply) =>
        unit' = unit \/ unit' = [unit EXCEPT ![u].status = "Synchronizing"]
  BY <1>2 DEF Syncs, CMD_syncconsistgr, CMD_syncvstorepair, CMD_syncconsistgrhm,
     CMD_synchmpair, Synchronized
<1>6. ASSUME NEW keep, NEW isPrimary, Stops(u, keep, isPrimary, reply)
      PROVE  Served(reply,
                    [unit EXCEPT ![u] = Stopped(u, Kept(u, keep, isPrimary))])
  BY <1>2, <1>6 DEF Stops, CMD_stopconsistgrhm, CMD_disablehcpair
<1>7. Swaps(u, reply) => unit' = unit \/ unit' = Swapped(u)
  BY DEF Swaps, CMD_swapconsistgr, CMD_swapvstorepair, CMD_swapconsistgrhm,
     CMD_swaphypermetro, Preferred, Exchanged
<1>8. ASSUME Addresses = 1,
             CMD_swapconsistgr(u, reply) \/ CMD_swapvstorepair(u, reply)
      PROVE  Served(reply, Swapped(u))
  <2>1. \A n \in Deliveries(reply) : n = 1 \/ (n = 0 /\ reply = "err")
    BY <1>8 DEF Deliveries
  <2>2. QED
    BY <1>8, <2>1 DEF CMD_swapconsistgr, CMD_swapvstorepair, Exchanged
<1>9. QED BY <1>3, <1>4, <1>5, <1>6, <1>7, <1>8

(* The frames a step may end in. *)
LEMMA EndFrame ==
  ASSUME TypeInv, AtUnit, unit' = unit \/ \E reply \in Outcome : Request(cur, reply),
         \/ \E step : Continue(step)
         \/ \E result : Answer(result) \/ \E kind : Abandon(kind, result)
  PROVE  UnitFrame
<1>1. cur \in Unit /\ report \in [Unit -> Result]
  BY CurrentUnit DEF TypeInv, TypeOK, CommandTypeOK
<1>2. \A u \in Unit \ {cur} : unit'[u] = unit[u]
  BY <1>1, RequestType
<1>3. QED BY <1>1, <1>2 DEF UnitFrame, Continue, Answer, Abandon, planVars

(* The requests of a step about a unit are for that unit. *)
LEMMA CopyRequests ==
  ASSUME TypeInv, CopyStep
  PROVE  /\ unit' = unit \/ \E reply \in Outcome : Request(cur, reply)
         /\ AtUnit /\ cur \in Mirror
<1>1. AtUnit
  BY DEF CopyStep, PrepareCopy, FailOverShowCopy, FailOverSparse,
     FailedOverBefore, SuspendedBefore, SuspendCopy, ActivateCopy, CopyMembers,
     UnwindCopy, UnwindSparse, ReverseShowCopy, SwapCopy, LockCopy,
     RestoreShowCopy, RestoreLockCopy, RestoreSyncCopy, SyncShowCopy, SyncCopy,
     At, AtUnit, UnitSteps, Step
<1>2. cur \in Mirror
  BY <1>1, CurrentUnit
     DEF CopyStep, PrepareCopy, FailOverShowCopy, FailOverSparse,
     FailedOverBefore, SuspendedBefore, SuspendCopy, ActivateCopy, CopyMembers,
     UnwindCopy, UnwindSparse, ReverseShowCopy, SwapCopy, LockCopy,
     RestoreShowCopy, RestoreLockCopy, RestoreSyncCopy, SyncShowCopy, SyncCopy,
     At, KindInv
<1>3. unit' = unit \/ \E reply \in Outcome : Request(cur, reply)
  <2>1. CASE SuspendCopy
    BY <2>1 DEF SuspendCopy, Request, Splits
  <2>2. CASE ActivateCopy \/ LockCopy \/ RestoreLockCopy
    BY <2>2 DEF ActivateCopy, LockCopy, RestoreLockCopy, Request, Grants, Access
  <2>3. CASE SwapCopy
    BY <2>3 DEF SwapCopy, Request, Swaps
  <2>4. CASE RestoreSyncCopy \/ SyncCopy
    BY <2>4, OutcomeTypes DEF RestoreSyncCopy, SyncCopy, Request, Syncs
  <2>5. CASE \/ PrepareCopy \/ FailOverShowCopy \/ FailOverSparse
             \/ FailedOverBefore \/ SuspendedBefore \/ CopyMembers \/ UnwindCopy
             \/ UnwindSparse \/ ReverseShowCopy \/ RestoreShowCopy \/ SyncShowCopy
    BY <2>5 DEF PrepareCopy, FailOverShowCopy, FailOverSparse, FailedOverBefore,
       SuspendedBefore, CopyMembers, UnwindCopy, UnwindSparse, Sparse,
       ReverseShowCopy, RestoreShowCopy, SyncShowCopy, groupVars
  <2>6. QED BY <2>1, <2>2, <2>3, <2>4, <2>5 DEF CopyStep
<1>4. QED BY <1>1, <1>2, <1>3

(* A step about a copy leaves all other units alone. *)
LEMMA CopyFrame == TypeInv /\ CopyStep => UnitFrame \/ (Ended /\ SyncShowCopy)
<1> SUFFICES ASSUME TypeInv, CopyStep PROVE UnitFrame \/ (Ended /\ SyncShowCopy)
  OBVIOUS
<1>1. CASE SyncShowCopy /\ Fail
  BY <1>1 DEF SyncShowCopy, Fail, Ended, planVars, groupVars
<1>2. CASE ~(SyncShowCopy /\ Fail)
  <2>1. \/ \E step : Continue(step)
        \/ \E result : Answer(result) \/ \E kind : Abandon(kind, result)
    <3>1. CASE SyncShowCopy
      BY <1>2, <3>1 DEF SyncShowCopy
    <3>2. CASE FailOverSparse \/ UnwindSparse
      BY <3>2 DEF FailOverSparse, UnwindSparse, Sparse, Failing
    <3>3. CASE ~SyncShowCopy /\ ~FailOverSparse /\ ~UnwindSparse
      BY <3>3 DEF CopyStep, PrepareCopy, FailOverShowCopy, FailedOverBefore,
         SuspendedBefore, SuspendCopy, SplitCopy, ActivateCopy, CopyMembers,
         UnwindCopy, ReverseShowCopy, SwapCopy, LockCopy, RestoreShowCopy,
         RestoreLockCopy, Locked, RestoreSyncCopy, SyncCopy, Failing
    <3>4. QED BY <3>1, <3>2, <3>3
  <2>2. QED BY <2>1, CopyRequests, EndFrame
<1>3. QED BY <1>1, <1>2

(* A step about a HyperMetro unit leaves all other units and all siblings  *)
(* alone.                                                                  *)
LEMMA MetroFrame ==
  TypeInv /\ MetroStep =>
    /\ cur \in Metro /\ AtUnit /\ sibling' = sibling
    /\ UnitFrame \/ (Ended /\ SyncShowGroup)
<1> SUFFICES ASSUME TypeInv, MetroStep
             PROVE  /\ cur \in Metro /\ AtUnit /\ sibling' = sibling
                    /\ UnitFrame \/ (Ended /\ SyncShowGroup)
  OBVIOUS
<1>1. AtUnit /\ sibling' = sibling
  BY DEF MetroStep, PrepareShowMetro, PrepareSwap, FailOverShowGroup,
     FailOverShowPair, FailOverSwap, FailOverShowAgain, FailOverStop,
     GroupMembers, PairMembers, ReverseShowMetro, ReverseMapGroup,
     ReverseMapPair, ReverseShowPair, ReverseDecide, ReverseSwapMetro,
     RestoreShowGroup,
     RestoreShowPair, RestoreSyncMetro, SyncShowGroup, SyncShowPair,
     SyncInquirePair, SyncMetroUnit, At, AtUnit, UnitSteps, Step, groupVars
<1>2. cur \in Metro
  BY <1>1, CurrentUnit
     DEF MetroStep, PrepareShowMetro, PrepareSwap, FailOverShowGroup,
     FailOverShowPair, FailOverSwap, FailOverShowAgain, FailOverStop,
     GroupMembers, PairMembers, ReverseShowMetro, ReverseMapGroup,
     ReverseMapPair, ReverseShowPair, ReverseDecide, ReverseSwapMetro,
     RestoreShowGroup,
     RestoreShowPair, RestoreSyncMetro, SyncShowGroup, SyncShowPair,
     SyncInquirePair, SyncMetroUnit, At, KindInv, Metro
<1>3. unit' = unit \/ \E reply \in Outcome : Request(cur, reply)
  <2>1. CASE PrepareSwap \/ FailOverSwap \/ ReverseSwapMetro
    BY <2>1, OutcomeTypes
       DEF PrepareSwap, FailOverSwap, ReverseSwapMetro, SwapMetro, Request, Swaps
  <2>2. CASE FailOverStop
    <3>1. PICK reply \in Outcome : Stops(cur, Local(cur), FALSE, reply)
      BY <2>2 DEF FailOverStop, Stops
    <3>2. Local(cur) \in Site
      BY <1>1, CurrentUnit
    <3>3. QED BY <3>1, <3>2 DEF Request
  <2>3. CASE RestoreSyncMetro \/ SyncMetroUnit
    BY <2>3, OutcomeTypes
       DEF RestoreSyncMetro, SyncMetroUnit, SyncMetro, Request, Syncs
  <2>4. QED
    BY <2>1, <2>2, <2>3
       DEF MetroStep, PrepareShowMetro, FailOverShowGroup, FailOverShowPair,
       FailOverShowAgain, GroupMembers, PairMembers, ReverseShowMetro,
       ReverseMapGroup, ReverseMapPair, ReverseShowPair, ReverseDecide,
       RestoreShowGroup,
       RestoreShowPair, SyncShowGroup, SyncShowPair, SyncInquirePair, groupVars
<1>4. CASE SyncShowGroup /\ Fail
  BY <1>1, <1>2, <1>4 DEF SyncShowGroup, Fail, Ended, planVars, groupVars
<1>5. CASE ~(SyncShowGroup /\ Fail)
  <2>1. \/ \E step : Continue(step)
        \/ \E result : Answer(result) \/ \E kind : Abandon(kind, result)
    <3>1. CASE \/ PrepareShowMetro \/ PrepareSwap \/ FailOverShowGroup
               \/ FailOverShowPair \/ FailOverSwap \/ FailOverShowAgain
               \/ FailOverStop \/ GroupMembers \/ PairMembers
      BY <3>1 DEF PrepareShowMetro, PrepareSwap, FailOverShowGroup,
         FailOverShowPair, FailOverSwap, FailOverShowAgain, FailOverStop,
         GroupMembers, PairMembers, IsolateGroup, IsolatePair, Failing
    <3>2. CASE \/ ReverseShowMetro \/ ReverseMapGroup \/ ReverseMapPair
               \/ ReverseShowPair \/ ReverseDecide \/ ReverseSwapMetro
               \/ RestoreShowGroup \/ RestoreShowPair \/ RestoreSyncMetro
      BY <3>2 DEF ReverseShowMetro, ReverseMapGroup, ReverseMapPair,
         ReverseShowPair, ReverseDecide, ReverseSwapMetro, RestoreShowGroup,
         RestoreShowPair, RestoreSyncMetro, ResyncPaused
    <3>3. CASE SyncShowGroup \/ SyncShowPair \/ SyncInquirePair \/ SyncMetroUnit
      BY <1>5, <3>3 DEF SyncShowGroup, SyncShowPair, SyncInquirePair,
         SyncMetroUnit
    <3>4. QED BY <3>1, <3>2, <3>3 DEF MetroStep
  <2>2. QED BY <1>1, <1>2, <1>3, <2>1, EndFrame
<1>6. QED BY <1>4, <1>5

(* The steps about the HyperMetros of a command touch nothing else.        *)
HyperFrame ==
  /\ UNCHANGED <<home, phase, cmd, asked, cur, sibling>>
  /\ \A u \in Unit \ MetroPair : unit'[u] = unit[u]
  /\ \/ cmd = "reverse" /\ pc' \in {"resync", "done"} /\ report' = report
     \/ cmd = "prepareReverse" /\ pc \in {"find", "hypers"}
        /\ pc' \in {"hypers", "next"} /\ todo' \in {todo, todo \cap Mirror}

LEMMA HyperFrames == TypeInv /\ HyperStep => HyperFrame \/ Ended
<1> SUFFICES ASSUME TypeInv, HyperStep PROVE HyperFrame \/ Ended
  OBVIOUS
<1> USE DEF At
<1>0. /\ \A h \in local.hyper : h[1] \in ThreeDC \cup MetroPair
      /\ MetroPair \subseteq Unit
  BY DEF TypeInv, TypeOK, CommandTypeOK, LocalRecord, Unit, Metro
<1>1. CASE FindHypers
  BY <1>1 DEF FindHypers, Fail, Ended, HyperFrame, groupVars, planVars
<1>2. CASE StopHyper
  <2>1. PICK h \in local.hyper, reply \in Outcome :
          /\ IF h[1] \in ThreeDC
               THEN UNCHANGED unit
               ELSE CMD_disablehcpair(h[1], Local(h[1]),
                                      unit[h[1]].primary # Local(h[1]), reply)
          /\ Recorded(h, reply)
    BY <1>2 DEF StopHyper
  <2>2. \A u \in Unit \ MetroPair : unit'[u] = unit[u]
    <3>1. CASE h[1] \in ThreeDC
      BY <2>1, <3>1
    <3>2. CASE h[1] \notin ThreeDC
      <4>1. h[1] \in MetroPair
        BY <1>0, <3>2
      <4>2. QED
        BY <1>0, <2>1, <3>2, <4>1 DEF CMD_disablehcpair, Idempotent, TypeInv,
           TypeOK, GroupArrayTypeOK
    <3>3. QED BY <3>1, <3>2
  <2>3. QED BY <1>2, <2>1, <2>2 DEF StopHyper, Recorded, HyperFrame, planVars
<1>3. CASE JudgeHyper
  BY <1>3 DEF JudgeHyper, Recorded, HyperFrame, groupVars, planVars
<1>4. CASE HypersDone \/ ReverseHypers \/ ReverseFinish
  BY <1>4 DEF HypersDone, ReverseHypers, ReverseFinish, HyperFrame, groupVars,
     planVars
<1>5. CASE ResyncHyper
  <2>1. PICK h \in local.hyper, reply \in Outcome :
          IF h[1] \in ThreeDC THEN UNCHANGED unit
                              ELSE CMD_synchmpair(h[1], reply)
    BY <1>5 DEF ResyncHyper
  <2>2. \A u \in Unit \ MetroPair : unit'[u] = unit[u]
    <3>1. CASE h[1] \in ThreeDC
      BY <2>1, <3>1
    <3>2. CASE h[1] \notin ThreeDC
      <4>1. h[1] \in MetroPair
        BY <1>0, <3>2
      <4>2. QED
        BY <1>0, <2>1, <3>2, <4>1 DEF CMD_synchmpair, Synchronized, Idempotent,
           TypeInv, TypeOK, GroupArrayTypeOK
    <3>3. QED BY <3>1, <3>2
  <2>3. QED BY <1>5, <2>2 DEF ResyncHyper, HyperFrame, planVars
<1>6. QED BY <1>1, <1>2, <1>3, <1>4, <1>5 DEF HyperStep

----------------------------------------------------------------------------
(* What a step may do to a copy, and when. *)
Opens(u)  == /\ phase[u] = "failingOver" /\ Quiet(u)
             /\ unit'[u] = [unit[u] EXCEPT !.access = "RW"]
Turns(u)  == /\ phase[u] = "reversing" /\ At("reverse", "swap") /\ cur = u
             /\ unit'[u] = [unit[u] EXCEPT !.primary = Other(unit[u].primary)]
Shuts(u)  == /\ \/ phase[u] = "reversing" /\ At("reverse", "lock") /\ cur = u
                \/ phase[u] = "restoring"
             /\ unit'[u] = [unit[u] EXCEPT !.access = "RO"]
Drifts(u) == \E to \in Status :
               /\ unit'[u] = [unit[u] EXCEPT !.status = to]
               /\ Quiet(u) /\ to \in Replicating => cmd = "sync" \/ ~Opened(u)
Moves(u) ==
  unit'[u] = unit[u] \/ Opens(u) \/ Turns(u) \/ Shuts(u) \/ Drifts(u)

(* One copy moves, while SRM waits; or SRM asks or is told, and none does. *)
OneMoves ==
  /\ \A u \in Mirror : Moves(u)
  /\ \A u, v \in Mirror : u # v => unit'[u] = unit[u] \/ unit'[v] = unit[v]
  /\ UNCHANGED <<home, phase>> \/ (UNCHANGED unit /\ (Start \/ Finish))

(* By itself an array changes neither access nor roles of a copy, and      *)
(* replicates again only what it replicated before.                        *)
LEMMA ArrayDrifts ==
  ASSUME TypeInv, ArrayStep, NEW u \in Mirror
  PROVE  \E to \in Status : /\ unit'[u] = [unit[u] EXCEPT !.status = to]
                            /\ Quiet(u) => to \notin Replicating
<1>0. Mirror \subseteq Unit /\ unit \in [Unit -> UnitRecord]
  BY DEF Unit, TypeInv, TypeOK, GroupArrayTypeOK
<1>1. CASE unit' = unit
  BY <1>0, <1>1 DEF Quiet, UnitRecord
<1>2. CASE unit' # unit
  <2>1. PICK v \in Unit : \/ SyncCompletes(v) \/ PeriodicSync(v)
                          \/ LinkBreaks(v)    \/ LinkHeals(v)
    BY <1>2 DEF ArrayStep, Background, HyperSyncCompletes
  <2>2. PICK from \in SUBSET Status, to \in Status :
          /\ StatusChange(v, from, to)
          /\ to \in Replicating => from \subseteq Replicating
    BY <2>1 DEF SyncCompletes, PeriodicSync, LinkBreaks, LinkHeals, Replicating,
       Status
  <2>3. CASE u = v
    BY <1>0, <2>2, <2>3 DEF StatusChange, Quiet, UnitRecord
  <2>4. CASE u # v
    BY <1>0, <2>2, <2>4 DEF StatusChange, Quiet, UnitRecord
  <2>5. QED BY <2>3, <2>4
<1>3. QED BY <1>1, <1>2

(* Every step is such a move, however often its request is delivered.      *)
LEMMA CopyMoves ==
  ASSUME TypeInv, KnownInv, Next
  PROVE  OneMoves
<1> USE DEF At
<1>0. Mirror \subseteq Unit /\ unit \in [Unit -> UnitRecord]
  BY DEF Unit, TypeInv, TypeOK, GroupArrayTypeOK
<1>1. CASE unit' = unit
  <2>1. UNCHANGED <<home, phase>> \/ Start \/ Finish
    BY StepKinds, CopyFrame, MetroFrame, HyperFrames
       DEF Preamble, Continue, Fail, PickUnit, Crash, ArrayStep, UnitFrame,
           Ended, HyperFrame, planVars
  <2>2. QED BY <1>1, <2>1 DEF OneMoves, Moves
<1>2. CASE unit' # unit /\ (MetroStep \/ HyperStep)
  <2>1. \A u \in Mirror : unit'[u] = unit[u]
    BY <1>0, <1>2, Kinds, MetroFrame, HyperFrames
       DEF UnitFrame, HyperFrame, Ended, Metro
  <2>2. UNCHANGED <<home, phase>>
    BY <1>2, MetroFrame, HyperFrames DEF UnitFrame, HyperFrame, Ended
  <2>3. QED BY <2>1, <2>2 DEF OneMoves, Moves
<1>3. CASE unit' # unit /\ ArrayStep
  <2>1. PICK u \in Unit : \/ SyncCompletes(u) \/ PeriodicSync(u)
                          \/ LinkBreaks(u)    \/ LinkHeals(u)
    BY <1>3 DEF ArrayStep, Background, HyperSyncCompletes
  <2>2. PICK from \in SUBSET Status, to \in Status :
          /\ StatusChange(u, from, to)
          /\ to \in Replicating => from \subseteq Replicating
    BY <2>1 DEF SyncCompletes, PeriodicSync, LinkBreaks, LinkHeals, Replicating,
       Status
  <2>3. /\ \A v \in Mirror \ {u} : unit'[v] = unit[v]
        /\ u \in Mirror => Drifts(u)
    BY <1>0, <2>2 DEF StatusChange, Drifts, Quiet, UnitRecord
  <2>4. UNCHANGED <<home, phase>>
    BY <1>3 DEF ArrayStep, planVars
  <2>5. QED BY <2>3, <2>4 DEF OneMoves, Moves
<1>4. CASE unit' # unit /\ CopyStep
  <2>1. UnitFrame /\ cur \in Mirror
    BY <1>4, CopyFrame, CopyRequests DEF Ended
  <2>2. /\ cur \in Unit /\ unit[cur] \in UnitRecord /\ cmd \in Command
        /\ phase[cur] \in Serving[cmd]
    BY <2>1, CurrentUnit DEF UnitFrame
  <2>3. Moves(cur)
    <3>1. CASE SuspendCopy
      <4>1. unit' = [unit EXCEPT ![cur].status = "Split"]
        BY <1>4, <2>2, <3>1, RequestEffect DEF SuspendCopy, Served, Splits
      <4>2. QED
        BY <1>0, <2>2, <4>1 DEF Moves, Drifts, Status, Replicating
    <3>2. CASE ActivateCopy
      <4>1. unit' = [unit EXCEPT ![cur].access = "RW"]
        BY <1>4, <2>2, <3>2, RequestEffect DEF ActivateCopy, Served, Grants
      <4>2. phase[cur] = "failingOver" /\ Quiet(cur)
        BY <2>2, <3>2 DEF ActivateCopy, KnownInv, Serving
      <4>3. QED BY <1>0, <2>2, <4>1, <4>2 DEF Moves, Opens
    <3>3. CASE SwapCopy
      <4>1. unit' = Swapped(cur)
        BY <1>4, <2>2, <3>3, RequestEffect DEF SwapCopy, Swaps
      <4>2. phase[cur] = "reversing" /\ cmd = "reverse" /\ pc = "swap"
        BY <2>2, <3>3 DEF SwapCopy, Serving
      <4>3. QED BY <1>0, <2>2, <4>1, <4>2 DEF Moves, Turns, Swapped
    <3>4. CASE LockCopy \/ RestoreLockCopy
      <4>1. unit' = [unit EXCEPT ![cur].access = "RO"]
        BY <1>4, <2>2, <3>4, RequestEffect
           DEF LockCopy, RestoreLockCopy, Served, Grants
      <4>2. \/ phase[cur] = "reversing" /\ cmd = "reverse" /\ pc = "lock"
            \/ phase[cur] = "restoring"
        BY <2>2, <3>4 DEF LockCopy, RestoreLockCopy, Serving
      <4>3. QED BY <1>0, <2>2, <4>1, <4>2 DEF Moves, Shuts
    <3>5. CASE RestoreSyncCopy \/ SyncCopy
      <4>1. unit' = [unit EXCEPT ![cur].status = "Synchronizing"]
        BY <1>4, <2>2, <3>5, RequestEffect, OutcomeTypes
           DEF RestoreSyncCopy, SyncCopy, Syncs
      <4>2. cmd = "sync" \/ ~Opened(cur)
        BY <2>1, <3>5 DEF RestoreSyncCopy, SyncCopy, KnownInv
      <4>3. QED BY <1>0, <2>2, <4>1, <4>2 DEF Moves, Drifts, Status
    <3>6. QED
      BY <1>4, <3>1, <3>2, <3>3, <3>4, <3>5
         DEF CopyStep, PrepareCopy, FailOverShowCopy, FailOverSparse,
         FailedOverBefore, SuspendedBefore, CopyMembers, UnwindCopy,
         UnwindSparse, Sparse, ReverseShowCopy, RestoreShowCopy, SyncShowCopy,
         groupVars
  <2>4. QED BY <1>0, <2>1, <2>3 DEF UnitFrame, OneMoves, Moves
<1>5. QED
  <2>1. Start \/ Preamble \/ PickUnit \/ Finish \/ Crash => unit' = unit
    BY DEF Start, Begin, Preamble, PickUnit, Finish, Crash, groupVars
  <2>2. QED BY <1>1, <1>2, <1>3, <1>4, <2>1, StepKinds

----------------------------------------------------------------------------
(* KnownInv is inductive: what the process knows of a copy stays true      *)
(* while it is handled, whatever the array does in between.                *)
LEMMA KnownSafe == TypeInv /\ KnownInv /\ [Next]_vars => KnownInv'
<1> SUFFICES ASSUME TypeInv, KnownInv, [Next]_vars PROVE KnownInv'
  OBVIOUS
<1>0. /\ TypeInv' /\ Mirror \subseteq Unit /\ unit \in [Unit -> UnitRecord]
      /\ local \in LocalRecord
  BY NextType DEF Unit, TypeInv, TypeOK, GroupArrayTypeOK, CommandTypeOK
<1>1. CASE cmd' \notin {"failover", "restore"}
  BY <1>1 DEF KnownInv, At
<1>2. CASE CopyStep /\ cmd' \in {"failover", "restore"}
  <2>1. /\ UnitFrame /\ cur \in Mirror /\ cmd' = cmd /\ cur' = cur
        /\ unit[cur] \in UnitRecord
    BY <1>0, <1>2, CopyFrame, CopyRequests DEF Ended, Vanish, UnitFrame
  <2>2. CASE FailOverShowCopy
    <3>1. PICK nfs \in Classified(cur) : \E row \in ShowCopy(cur, nfs) :
            \/ pc' = "next"
            \/ /\ row # NoRow
               /\ local' = [local EXCEPT !.seen = row, !.nfs = nfs,
                              !.rest = IF nfs THEN {} ELSE OthersOf(cur)]
               /\ pc' \in {"sparse", "suspend"}
      BY <2>2 DEF FailOverShowCopy, Answer, Continue
    <3>a. \A row \in ShowCopy(cur, nfs) : row = NoRow \/ row = unit[cur]
      BY DEF ShowCopy, CMD_showvstorepair_info, CMD_showconsistgrinfo, Answered
    <3>b. \/ pc' = "next"
          \/ /\ local'.seen = unit[cur] /\ unit' = unit
             /\ pc' \in {"sparse", "suspend"}
      BY <1>0, <2>2, <3>1, <3>a DEF FailOverShowCopy, groupVars, LocalRecord
    <3>2. QED
      BY <2>1, <2>2, <3>b DEF FailOverShowCopy, KnownInv, At, Suspended, Quiet,
         Opened, Replicating
  <2>3. CASE FailOverSparse
    <3>1. /\ unit' = unit /\ local'.seen = local.seen
          /\ pc' \in {"next", "sparse", "suspend"}
      BY <1>0, <2>3 DEF FailOverSparse, Sparse, Answer, Continue, Failing,
         groupVars, LocalRecord
    <3>2. QED
      BY <2>1, <2>3, <3>1 DEF FailOverSparse, KnownInv, At, Quiet, Opened
  <2>4. CASE FailedOverBefore \/ SuspendedBefore
    BY <2>1, <2>4 DEF FailedOverBefore, SuspendedBefore, KnownInv, At, Continue,
       groupVars, Quiet, Opened
  <2>5. CASE SuspendCopy
    <3>1. PICK reply \in Outcome : Splits(cur, reply) /\ SplitCopy(reply)
      BY <2>5 DEF SuspendCopy, Splits
    <3>2. CASE reply = "ok"
      <4>1. unit' = [unit EXCEPT ![cur].status = "Split"]
        BY <1>0, <2>1, <3>1, <3>2, RequestEffect DEF Served
      <4>2. QED
        BY <1>0, <2>1, <2>5, <3>1, <3>2, <4>1
           DEF SuspendCopy, SplitCopy, Failing, Continue, KnownInv, At, Quiet,
           Replicating
    <3>3. CASE reply # "ok"
      BY <2>1, <3>1, <3>3 DEF SplitCopy, Failing, Answer, KnownInv, At
    <3>4. QED BY <3>2, <3>3
  <2>6. CASE ActivateCopy
    <3>1. PICK reply \in Outcome :
            /\ Grants(cur, "RW", reply)
            /\ IF reply = "ok" THEN Continue("members") ELSE Answer("silent")
      BY <2>6 DEF ActivateCopy, Grants
    <3>2. CASE reply = "ok"
      <4>1. unit' = [unit EXCEPT ![cur].access = "RW"]
        BY <1>0, <2>1, <3>1, <3>2, RequestEffect DEF Served
      <4>2. QED
        BY <1>0, <2>1, <2>6, <3>1, <3>2, <4>1
           DEF ActivateCopy, Continue, KnownInv, At, Opened
    <3>3. CASE reply # "ok"
      BY <2>1, <3>1, <3>3 DEF Answer, KnownInv, At
    <3>4. QED BY <3>2, <3>3
  <2>7. CASE RestoreShowCopy
    BY <2>1, <2>7 DEF RestoreShowCopy, Continue, Answer, KnownInv, At
  <2>8. CASE RestoreLockCopy
    <3>1. PICK reply \in Outcome : Grants(cur, "RO", reply) /\ Locked(reply)
      BY <2>8 DEF RestoreLockCopy, Grants
    <3>2. CASE reply = "ok"
      <4>1. unit' = [unit EXCEPT ![cur].access = "RO"]
        BY <1>0, <2>1, <3>1, <3>2, RequestEffect DEF Served
      <4>2. QED
        BY <1>0, <2>1, <2>8, <4>1 DEF RestoreLockCopy, KnownInv, At, Opened
    <3>3. CASE reply # "ok"
      BY <2>1, <3>1, <3>3 DEF Locked, Answer, KnownInv, At
    <3>4. QED BY <3>2, <3>3
  <2>9. QED
    <3>1. cmd \in {"failover", "restore"}
      BY <1>2, <2>1
    <3>2. CopyMembers \/ RestoreSyncCopy => KnownInv'
      BY DEF CopyMembers, RestoreSyncCopy, Answer, KnownInv, At
    <3>3. ~(PrepareCopy \/ UnwindCopy \/ UnwindSparse \/ ReverseShowCopy
            \/ SwapCopy \/ LockCopy \/ SyncShowCopy \/ SyncCopy)
      BY <3>1 DEF PrepareCopy, UnwindCopy, UnwindSparse, ReverseShowCopy,
         SwapCopy, LockCopy, SyncShowCopy, SyncCopy, At
    <3>4. QED
      BY <1>2, <2>2, <2>3, <2>4, <2>5, <2>6, <2>7, <2>8, <3>2, <3>3 DEF CopyStep
<1>3. CASE MetroStep /\ cmd' \in {"failover", "restore"}
  <2>1. cur' = cur /\ cur \in Metro /\ cur' \notin Mirror
    BY <1>3, MetroFrame, Kinds DEF UnitFrame, Ended, Vanish
  <2>2. pc' \notin {"sparse", "suspend", "activate"}
    <3>1. pc' \in {"sparse", "suspend", "activate"} => AtUnit'
      BY <1>3 DEF AtUnit, UnitSteps, Step
    <3>2. AtUnit' => KindInv'
      BY <1>0 DEF TypeInv, ProcessInv
    <3>3. QED BY <2>1, <3>1, <3>2 DEF KindInv
  <2>3. QED BY <2>1, <2>2 DEF KnownInv, At
<1>4. CASE HyperStep
  BY <1>4, HyperFrames DEF HyperFrame, Ended, Vanish, KnownInv, At, HyperStep,
     FindHypers, StopHyper, JudgeHyper, HypersDone, ReverseHypers, ResyncHyper,
     ReverseFinish
<1>5. CASE ArrayStep /\ cmd' \in {"failover", "restore"}
  <2>1. UNCHANGED procVars
    BY <1>5 DEF ArrayStep
  <2>2. \A u \in Mirror : Opened(u)' = Opened(u) /\ (Quiet(u) => Quiet(u)')
    <3>1. TAKE u \in Mirror
    <3>2. PICK to \in Status : /\ unit'[u] = [unit[u] EXCEPT !.status = to]
                               /\ Quiet(u) => to \notin Replicating
      BY <1>0, <1>5, ArrayDrifts
    <3>3. unit[u] \in UnitRecord
      BY <1>0 DEF TypeInv, TypeOK, GroupArrayTypeOK, Unit
    <3>4. unit'[u].access = unit[u].access /\ unit'[u].status = to
      BY <3>2, <3>3 DEF UnitRecord
    <3>5. QED BY <3>2, <3>4 DEF Opened, Quiet
  <2>3. AtUnit => KindInv
    BY DEF TypeInv, ProcessInv
  <2>4. pc \in {"sparse", "suspend", "activate"} => cur \in Mirror
    BY <1>5, <2>1, <2>3 DEF procVars, AtUnit, KindInv, UnitSteps, Step
  <2>5. QED BY <2>1, <2>2, <2>4 DEF procVars, KnownInv, At
<1>6. CASE Start \/ Preamble \/ PickUnit \/ Finish \/ Crash
  BY <1>6 DEF Start, Begin, Preamble, Continue, Fail, Vanish, PickUnit, Finish,
     Crash, KnownInv, At
<1>7. CASE UNCHANGED vars
  BY <1>7 DEF vars, groupVars, procVars, KnownInv, At, Quiet, Opened
<1>8. QED BY <1>1, <1>2, <1>3, <1>4, <1>5, <1>6, <1>7, StepKinds

(* What the process goes by is true of the copy, in every state. *)
THEOREM KnownInvariant == Spec => [](TypeInv /\ KnownInv)
<1>1. Init => TypeInv /\ KnownInv
  BY InitType DEF Init, CommandInit, NoProcess, KnownInv, At
<1>2. TypeInv /\ KnownInv /\ [Next]_vars => TypeInv' /\ KnownInv'
  BY NextType, KnownSafe
<1>3. QED BY <1>1, <1>2, PTL DEF Spec

(* Whatever fails, is killed or changes in between, and however often a    *)
(* request is delivered, a copy is opened to the hosts of the recovery     *)
(* site only while the array does not replicate to it.                     *)
THEOREM OpensOnlySuspended == Spec => CopyOpensSuspended
<1>1. TypeInv /\ KnownInv /\ [Next]_vars =>
        [\A u \in Mirror :
           unit[u].access = "RO" /\ unit'[u].access = "RW"
             => unit[u].status \notin Replicating]_vars
  <2> SUFFICES ASSUME TypeInv, KnownInv, Next, NEW u \in Mirror,
                      unit[u].access = "RO", unit'[u].access = "RW"
               PROVE  Quiet(u)
    BY DEF Quiet
  <2>1. unit[u] \in UnitRecord
    BY DEF TypeInv, TypeOK, GroupArrayTypeOK, Unit
  <2>2. Moves(u)
    BY CopyMoves DEF OneMoves
  <2>3. QED
    BY <2>1, <2>2 DEF Moves, Opens, Turns, Shuts, Drifts, UnitRecord
<1>2. QED BY <1>1, KnownInvariant, PTL DEF Spec, CopyOpensSuspended

(* A restore gives up what the hosts wrote at the recovery site only once  *)
(* they can write no more there.                                           *)
THEOREM OverwritesOnlyShut == Spec => RestoreOverwritesShut
<1>1. TypeInv /\ KnownInv /\ [Next]_vars =>
        [\A u \in Mirror :
           cmd = "restore" /\ cur = u /\ unit[u].status \notin Replicating
             /\ unit'[u].status = "Synchronizing"
               => unit[u].access = "RO"]_vars
  <2> SUFFICES ASSUME TypeInv, KnownInv, Next, NEW u \in Mirror,
                      cmd = "restore", Quiet(u),
                      unit'[u].status = "Synchronizing"
               PROVE  unit[u].access = "RO"
    BY DEF Quiet
  <2>1. unit[u] \in UnitRecord
    BY DEF TypeInv, TypeOK, GroupArrayTypeOK, Unit
  <2>2. Moves(u)
    BY CopyMoves DEF OneMoves
  <2>3. QED
    BY <2>1, <2>2 DEF Moves, Opens, Turns, Shuts, Drifts, UnitRecord, Quiet,
       Opened, Replicating, Access
<1>2. QED BY <1>1, KnownInvariant, PTL DEF Spec, RestoreOverwritesShut

----------------------------------------------------------------------------
(* CopyInv is inductive when an exchange of roles is delivered at most     *)
(* once.                                                                   *)

(* A move within a phase keeps what the phase says. *)
LEMMA PhaseKept ==
  ASSUME TypeInv, TurnInv, NEW u \in Mirror, PhaseInv(u), Moves(u),
         UNCHANGED <<home, phase>>
  PROVE  PhaseInv(u)'
<1>1. unit[u] \in UnitRecord /\ home[u] \in Site
  BY DEF TypeInv, TypeOK, GroupArrayTypeOK, CommandTypeOK, Unit
<1>2. CASE unit'[u] = unit[u] \/ Drifts(u)
  BY <1>1, <1>2 DEF Drifts, PhaseInv, SourceIsHome, Opened, UnitRecord
<1>3. CASE Opens(u)
  BY <1>1, <1>3 DEF Opens, PhaseInv, SourceIsHome, UnitRecord
<1>4. CASE Turns(u)
  BY <1>1, <1>4 DEF Turns, PhaseInv, TurnInv, SourceIsHome, UnitRecord, Other,
     Site
<1>5. CASE Shuts(u)
  BY <1>1, <1>5 DEF Shuts, PhaseInv, TurnInv, SourceIsHome, UnitRecord
<1>6. QED BY <1>2, <1>3, <1>4, <1>5 DEF Moves

(* So does what was reported of it before. *)
LEMMA ReportKept ==
  ASSUME TypeInv, TurnInv, NEW u \in Mirror, ReportInv(u), Moves(u),
         UNCHANGED <<home, cmd, asked>>, report'[u] = "ok" => report[u] = "ok"
  PROVE  ReportInv(u)'
<1>1. /\ unit[u] \in UnitRecord
      /\ u \in asked /\ cmd \in {"failover", "reverse"} =>
           phase[u] \in Serving[cmd]
  BY DEF TypeInv, TypeOK, GroupArrayTypeOK, CommandTypeOK, ProcessInv, Unit,
     NoProcess
<1>2. CASE cmd = "failover" /\ u \in asked
  BY <1>1, <1>2 DEF Moves, Opens, Turns, Shuts, Drifts, ReportInv, Opened,
     Serving, UnitRecord
<1>3. CASE cmd = "reverse" /\ u \in asked
  BY <1>1, <1>3 DEF Moves, Opens, Turns, Shuts, Drifts, ReportInv, TurnInv,
     SourceIsHome, Serving, UnitRecord
<1>4. QED BY <1>2, <1>3 DEF ReportInv

(* failover reports a copy at its last step. *)
LEMMA FailoverReports ==
  ASSUME TypeInv, CopyStep, cmd = "failover",
         report'[cur] = "ok", report[cur] # "ok"
  PROVE  CopyMembers
<1>1. cur \in Unit /\ report \in [Unit -> Result]
  BY CopyRequests, CurrentUnit DEF TypeInv, TypeOK, CommandTypeOK
<1>2. QED
  BY <1>1 DEF CopyStep, PrepareCopy, FailOverShowCopy, FailOverSparse, Sparse,
     FailedOverBefore, SuspendedBefore, SuspendCopy, SplitCopy, ActivateCopy,
     UnwindCopy, UnwindSparse, ReverseShowCopy, SwapCopy, LockCopy,
     RestoreShowCopy, RestoreLockCopy, RestoreSyncCopy, SyncShowCopy, SyncCopy,
     At, Failing, Continue, Answer

(* failover and reverse report a copy at three steps. *)
LEMMA CopyReports ==
  ASSUME TypeInv, KnownInv, TurnInv, CopyStep, UnitFrame, NEW u \in Mirror,
         report'[u] = "ok", report[u] # "ok"
  PROVE  /\ u = cur
         /\ cmd = "failover" => Opened(u)'
         /\ cmd = "reverse" => SourceIsHome(u)'
<1> USE DEF At
<1>1. u = cur /\ u \in Unit /\ unit \in [Unit -> UnitRecord]
      /\ UNCHANGED home
  BY DEF UnitFrame, Unit, TypeInv, TypeOK, GroupArrayTypeOK
<1>2. report \in [Unit -> Result]
  BY DEF TypeInv, TypeOK, CommandTypeOK
<1>3. CASE cmd = "failover"
  <2>1. CopyMembers
    BY <1>1, <1>3, FailoverReports
  <2>2. QED BY <1>1, <1>3, <2>1 DEF CopyMembers, KnownInv, Opened, groupVars
<1>4. CASE cmd = "reverse"
  <2>1. ReverseShowCopy \/ LockCopy
    BY <1>1, <1>2, <1>4 DEF CopyStep, PrepareCopy, FailOverShowCopy,
       FailOverSparse, FailedOverBefore, SuspendedBefore, SuspendCopy,
       ActivateCopy, CopyMembers, UnwindCopy, UnwindSparse, SwapCopy,
       RestoreShowCopy, RestoreLockCopy, RestoreSyncCopy, SyncShowCopy,
       SyncCopy, Failing, Continue, Answer
  <2>2. CASE ReverseShowCopy
    <3>1. PICK nfs \in Classified(cur) : \E row \in ShowCopy(cur, nfs) :
            \/ row = NoRow /\ Answer("err")
            \/ row # NoRow /\ IsMaster(row, cur)
            \/ Continue("swap")
      BY <2>2 DEF ReverseShowCopy
    <3>2. \A row \in ShowCopy(cur, nfs) : row = NoRow \/ row = unit[cur]
      BY DEF ShowCopy, CMD_showvstorepair_info, CMD_showconsistgrinfo, Answered
    <3>3. IsMaster(unit[cur], cur)
      BY <1>1, <1>2, <3>1, <3>2 DEF Answer, Continue
    <3>4. QED
      BY <1>1, <1>4, <2>2, <3>3 DEF ReverseShowCopy, groupVars, IsMaster, Local,
         RunsAt, SourceIsHome
  <2>3. CASE LockCopy
    <3>1. PICK reply \in Outcome : Grants(cur, "RO", reply)
      BY <2>3 DEF LockCopy, Grants
    <3>2. unit'[cur].primary = unit[cur].primary
      BY <1>1, <3>1, RequestEffect DEF Served, UnitRecord
    <3>3. QED BY <1>1, <2>3, <3>2 DEF LockCopy, TurnInv, SourceIsHome
  <2>4. QED BY <2>1, <2>2, <2>3
<1>5. QED BY <1>1, <1>3, <1>4

(* reverse exchanges the roles once: it does not come to the exchange when *)
(* they are exchanged, nor past it when they are not.                      *)
LEMMA TurnSafe ==
  ASSUME SingleDelivery, TypeInv, TurnInv, CopyStep, UnitFrame
  PROVE  TurnInv'
<1> USE DEF At
<1>1. /\ cur \in Unit /\ unit \in [Unit -> UnitRecord] /\ home \in [Unit -> Site]
      /\ UNCHANGED <<home, cur, cmd>>
  BY CurrentUnit DEF UnitFrame, TypeInv, TypeOK, GroupArrayTypeOK, CommandTypeOK
<1>2. CASE ReverseShowCopy
  <2>1. PICK nfs \in Classified(cur) : \E row \in ShowCopy(cur, nfs) :
          \/ pc' = "next"
          \/ /\ row # NoRow /\ ~IsMaster(row, cur) /\ pc' = "swap"
    BY <1>2 DEF ReverseShowCopy, Answer, Continue
  <2>2. \A row \in ShowCopy(cur, nfs) : row = NoRow \/ row = unit[cur]
    BY DEF ShowCopy, CMD_showvstorepair_info, CMD_showconsistgrinfo, Answered
  <2>3. pc' = "next" \/ (pc' = "swap" /\ ~IsMaster(unit[cur], cur))
    BY <2>1, <2>2
  <2>4. QED
    BY <1>1, <1>2, <2>3 DEF ReverseShowCopy, groupVars, IsMaster, Local, RunsAt,
       TurnInv, SourceIsHome
<1>3. CASE SwapCopy
  <2>1. PICK reply \in Outcome :
          /\ CMD_swapconsistgr(cur, reply) \/ CMD_swapvstorepair(cur, reply)
          /\ Failing(reply, "lock")
    BY <1>3 DEF SwapCopy
  <2>2. CASE reply = "ok"
    <3>1. Addresses = 1
      BY <1>3 DEF SingleDelivery, SwapCopy, TypeInv, ProcessInv
    <3>2. unit' = Swapped(cur)
      BY <1>1, <2>1, <2>2, <3>1, RequestEffect DEF Served
    <3>3. SourceIsHome(cur)' /\ pc' = "lock"
      BY <1>1, <1>3, <2>1, <2>2, <3>2 DEF SwapCopy, TurnInv, SourceIsHome,
         Swapped, UnitRecord, Site, Other, Failing, Continue
    <3>4. QED BY <1>1, <3>3 DEF TurnInv
  <2>3. CASE reply # "ok"
    BY <2>1, <2>3 DEF Failing, Answer, TurnInv
  <2>4. QED BY <2>2, <2>3
<1>4. CASE ~ReverseShowCopy /\ ~SwapCopy
  <2>1. cmd = "reverse" => pc' = "next"
    BY <1>4 DEF CopyStep, PrepareCopy, FailOverShowCopy, FailOverSparse,
       FailedOverBefore, SuspendedBefore, SuspendCopy, ActivateCopy,
       CopyMembers, UnwindCopy, UnwindSparse, LockCopy, RestoreShowCopy,
       RestoreLockCopy, RestoreSyncCopy, SyncShowCopy, SyncCopy, Answer
  <2>2. QED BY <1>1, <2>1 DEF TurnInv
<1>5. QED BY <1>2, <1>3, <1>4

(* What SRM asks for, and what it is told, keeps the phases true. *)
LEMMA CopyPlanSafe ==
  ASSUME TypeInv, CopyInv, Start \/ Finish
  PROVE  CopyInv'
<1> USE DEF At
<1>0. /\ UNCHANGED unit /\ phase \in [Unit -> Phase] /\ home \in [Unit -> Site]
      /\ \A u \in Mirror : u \in Unit /\ unit[u].primary \in Site
  BY DEF Start, Begin, Finish, groupVars, TypeInv, TypeOK, GroupArrayTypeOK,
     CommandTypeOK, UnitRecord, Unit
<1>1. CASE Start
  <2>1. PICK c \in Command, U \in SUBSET Unit : Begin(c, U)
    BY <1>1, GroupCommandAssumption DEF Start, Begin
  <2>2. /\ pc' = "preamble" /\ home' = home /\ report' = report /\ pc = "idle"
        /\ \A u \in U : phase[u] \in StartsIn[c]
        /\ \A u \in Unit : phase'[u] = IF u \in U THEN UnderWay(c, u) ELSE phase[u]
    BY <2>1 DEF Begin
  <2>3. \A u \in Unit : report'[u] # "ok"
    BY <2>2 DEF TypeInv, ProcessInv, NoProcess
  <2>4. ASSUME NEW u \in Mirror, u \in U PROVE PhaseInv(u)'
    <3>1. PhaseInv(u) /\ phase[u] \in StartsIn[c] /\ phase'[u] = UnderWay(c, u)
      BY <1>0, <2>2, <2>4 DEF CopyInv
    <3>2. CASE c \in {"prepareFailover", "failover", "sync"}
      BY <1>0, <2>2, <3>1, <3>2
         DEF StartsIn, UnderWay, PhaseInv, SourceIsHome, Opened
    <3>3. CASE c \in {"prepareReverse", "reverse", "restore"}
      BY <1>0, <2>2, <3>1, <3>3
         DEF StartsIn, UnderWay, PhaseInv, SourceIsHome, Opened
    <3>4. QED BY <3>2, <3>3 DEF Command
  <2>5. ASSUME NEW u \in Mirror, u \notin U PROVE PhaseInv(u)'
    BY <1>0, <2>2, <2>5 DEF CopyInv, PhaseInv, SourceIsHome, Opened
  <2>6. QED BY <1>0, <2>2, <2>3, <2>4, <2>5 DEF CopyInv, TurnInv, ReportInv
<1>2. CASE Finish
  <2>1. /\ cmd \in Command /\ pc' = "idle" /\ \A u \in Unit : report'[u] # "ok"
        /\ \A u \in asked : phase[u] \in Serving[cmd]
    BY <1>2, GroupCommandAssumption
       DEF Finish, Vanish, TypeInv, ProcessInv, Result
  <2>2. ASSUME NEW u \in Mirror, u \in asked, report[u] = "ok"
        PROVE  PhaseInv(u)'
    <3>1. /\ PhaseInv(u) /\ ReportInv(u) /\ phase[u] \in Serving[cmd]
          /\ phase'[u] = Reached[cmd]
          /\ home'[u] = IF cmd \in MovesHome THEN Other(home[u]) ELSE home[u]
      BY <1>0, <1>2, <2>1, <2>2 DEF Finish, CopyInv
    <3>2. CASE cmd = "failover"
      BY <1>0, <2>2, <3>1, <3>2 DEF Serving, Reached, MovesHome, PhaseInv,
         ReportInv, SourceIsHome, Opened, Other, Site
    <3>3. CASE cmd = "restore"
      BY <1>0, <3>1, <3>3 DEF Serving, Reached, MovesHome, PhaseInv,
         SourceIsHome, Other, Site
    <3>4. CASE cmd \in {"prepareFailover", "prepareReverse", "sync"}
      BY <1>0, <3>1, <3>4 DEF Serving, Reached, MovesHome, PhaseInv,
         SourceIsHome, Opened
    <3>5. CASE cmd = "reverse"
      BY <1>0, <2>2, <3>1, <3>5 DEF Serving, Reached, MovesHome, PhaseInv,
         ReportInv, SourceIsHome
    <3>6. QED BY <2>1, <3>2, <3>3, <3>4, <3>5 DEF Command
  <2>3. ASSUME NEW u \in Mirror, ~(u \in asked /\ report[u] = "ok")
        PROVE  PhaseInv(u)'
    <3>1. phase'[u] = phase[u] /\ home'[u] = home[u] /\ PhaseInv(u)
      BY <1>0, <1>2, <2>3 DEF Finish, CopyInv
    <3>2. QED BY <1>0, <3>1 DEF PhaseInv, SourceIsHome, Opened
  <2>4. QED BY <1>0, <2>1, <2>2, <2>3 DEF CopyInv, TurnInv, ReportInv
<1>3. QED BY <1>1, <1>2

LEMMA CopySafe ==
  ASSUME SingleDelivery, TypeInv, KnownInv, CopyInv, [Next]_vars
  PROVE  CopyInv'
<1> USE DEF At
<1>0. TypeInv' /\ \A u \in Mirror : u \in Unit
  BY NextType DEF Unit
<1>1. CASE Start \/ Finish
  BY <1>1, CopyPlanSafe
<1>2. CASE Next /\ ~(Start \/ Finish)
  <2>1. (\A u \in Mirror : Moves(u)) /\ UNCHANGED <<home, phase>>
    BY <1>2, CopyMoves DEF OneMoves
  <2>2. \A u \in Mirror : PhaseInv(u)'
    BY <2>1, PhaseKept DEF CopyInv
  <2>3. CASE cmd' \notin {"failover", "reverse"}
    BY <2>2, <2>3 DEF CopyInv, TurnInv, ReportInv
  <2>4. ASSUME TurnInv', UNCHANGED <<cmd, asked>>,
               \A u \in Mirror : report'[u] = "ok" => report[u] = "ok"
        PROVE  CopyInv'
    BY <2>1, <2>2, <2>4, ReportKept DEF CopyInv
  <2>5. CASE CopyStep /\ cmd' \in {"failover", "reverse"}
    <3>1. UnitFrame
      BY <2>5, CopyFrame DEF Ended, Vanish
    <3>2. TurnInv'
      BY <2>5, <3>1, TurnSafe DEF CopyInv
    <3>3. ASSUME NEW u \in Mirror PROVE ReportInv(u)'
      <4>1. CASE report'[u] = "ok" => report[u] = "ok"
        BY <2>1, <3>1, <4>1, ReportKept DEF CopyInv, UnitFrame
      <4>2. CASE report'[u] = "ok" /\ report[u] # "ok"
        BY <2>5, <3>1, <4>2, CopyReports DEF CopyInv, UnitFrame, ReportInv
      <4>3. QED BY <4>1, <4>2
    <3>4. QED BY <2>2, <3>2, <3>3 DEF CopyInv
  <2>6. CASE MetroStep /\ cmd' \in {"failover", "reverse"}
    <3>1. UnitFrame /\ cur' \in Metro /\ cur' \notin Mirror
      BY <2>6, MetroFrame, Kinds DEF Ended, Vanish, UnitFrame
    <3>2. pc' # "lock"
      BY <1>0, <2>6, <3>1 DEF TypeInv, ProcessInv, AtUnit, UnitSteps, Step, KindInv
    <3>3. \A u \in Mirror : report'[u] = report[u]
      BY <1>0, <3>1 DEF UnitFrame
    <3>4. QED BY <2>4, <3>1, <3>2, <3>3 DEF TurnInv, UnitFrame
  <2>7. CASE HyperStep /\ cmd' \in {"failover", "reverse"}
    <3>1. HyperFrame
      BY <2>7, HyperFrames DEF Ended, Vanish
    <3>2. pc' \in {"resync", "done"} /\ report' = report
      BY <2>7, <3>1 DEF HyperFrame
    <3>3. QED BY <2>4, <3>1, <3>2 DEF TurnInv, HyperFrame
  <2>8. CASE ArrayStep
    <3>1. UNCHANGED procVars
      BY <2>8 DEF ArrayStep
    <3>2. ASSUME NEW u \in Mirror PROVE unit'[u].primary = unit[u].primary
      <4>1. unit[u] \in UnitRecord
        BY <1>0 DEF TypeInv, TypeOK, GroupArrayTypeOK
      <4>2. QED BY <2>8, <4>1, ArrayDrifts DEF UnitRecord
    <3>3. pc = "lock" => cur \in Mirror
      BY <2>8 DEF TypeInv, ProcessInv, AtUnit, UnitSteps, Step, KindInv
    <3>4. TurnInv'
      BY <2>1, <3>1, <3>2, <3>3 DEF procVars, TurnInv, CopyInv, SourceIsHome
    <3>5. QED BY <2>4, <3>1, <3>4 DEF procVars
  <2>9. CASE Preamble \/ PickUnit \/ Crash
    <3>1. \/ cmd' = "none"
          \/ UNCHANGED <<cmd, asked, report>> /\ pc' \in {"find", "next", "show"}
      BY <2>9 DEF Preamble, Continue, Fail, Vanish, PickUnit, Crash
    <3>2. QED BY <2>3, <2>4, <3>1 DEF TurnInv
  <2>10. QED BY <1>2, <2>3, <2>5, <2>6, <2>7, <2>8, <2>9, StepKinds
<1>3. CASE UNCHANGED vars
  BY <1>3 DEF vars, groupVars, procVars, planVars, CopyInv, TurnInv, PhaseInv,
     ReportInv, SourceIsHome, Opened
<1>4. QED BY <1>1, <1>2, <1>3

(* What is true of a copy in every phase of the plan, whatever fails or is *)
(* killed.                                                                 *)
THEOREM CopyInvariant ==
  ASSUME SingleDelivery
  PROVE  Spec => [](TypeInv /\ KnownInv /\ CopyInv)
<1>1. Init => TypeInv /\ KnownInv /\ CopyInv
  <2> SUFFICES ASSUME Init PROVE TypeInv /\ KnownInv /\ CopyInv
    OBVIOUS
  <2>1. TypeInv
    BY InitType
  <2>2. KnownInv /\ TurnInv
    BY DEF Init, CommandInit, NoProcess, KnownInv, TurnInv, At
  <2>3. \A u \in Mirror : PhaseInv(u) /\ ReportInv(u)
    BY DEF Init, GroupArrayInit, CommandInit, NoProcess, Unit, PhaseInv,
       ReportInv, SourceIsHome
  <2>4. QED BY <2>1, <2>2, <2>3 DEF CopyInv
<1>2. TypeInv /\ KnownInv /\ CopyInv /\ [Next]_vars
        => TypeInv' /\ KnownInv' /\ CopyInv'
  BY NextType, KnownSafe, CopySafe
<1>3. QED BY <1>1, <1>2, PTL DEF Spec

(* From the report of a failover to the request of a restore the hosts at  *)
(* the site SRM takes for production can write.                            *)
THEOREM CopyWritable ==
  ASSUME SingleDelivery
  PROVE  Spec => []CopyStaysWritable
<1>1. TypeInv /\ CopyInv => CopyStaysWritable
  <2> SUFFICES ASSUME TypeInv, CopyInv, NEW u \in Mirror, phase[u] # "restoring"
               PROVE  home[u] \in WritableAt(u)
    BY DEF CopyStaysWritable
  <2>1. /\ PhaseInv(u) /\ phase[u] \in Phase
        /\ home[u] \in Site /\ unit[u].primary \in Site
    BY DEF CopyInv, TypeInv, TypeOK, GroupArrayTypeOK, CommandTypeOK,
       UnitRecord, Unit
  <2>2. QED
    BY <2>1 DEF PhaseInv, SourceIsHome, Opened, WritableAt, Other, Site, Phase
<1>2. QED BY <1>1, CopyInvariant, PTL

(* A copy that SRM takes for reversed or protected runs from where         *)
(* production runs.                                                        *)
THEOREM CopyRunsFromProduction ==
  ASSUME SingleDelivery
  PROVE  Spec => []ReversedFromProduction
<1>1. CopyInv => ReversedFromProduction
  BY DEF CopyInv, PhaseInv, SourceIsHome, ReversedFromProduction
<1>2. QED BY <1>1, CopyInvariant, PTL

----------------------------------------------------------------------------
(* A unit is handled once, whatever its kind. *)
LEMMA PendingSafe == TypeInv /\ PendingInv /\ [Next]_vars => PendingInv'
<1> SUFFICES ASSUME TypeInv, PendingInv, [Next]_vars PROVE PendingInv'
  OBVIOUS
<1> USE DEF PendingInv
<1>0. todo \subseteq Unit /\ AtUnit => cur \in Unit
  BY CurrentUnit DEF TypeInv, TypeOK, CommandTypeOK
<1>1. CASE UnitFrame
  <2>1. AtUnit' => report' = report
    BY <1>1 DEF UnitFrame, AtUnit, UnitSteps, Step
  <2>2. todo' \subseteq todo /\ cur' = cur /\ cmd' = cmd /\ AtUnit
    BY <1>1 DEF UnitFrame
  <2>3. \A u \in todo : report'[u] = report[u]
    <3>1. todo \subseteq Unit
      BY DEF TypeInv, TypeOK, CommandTypeOK
    <3>2. QED BY <1>1, <2>2, <3>1 DEF UnitFrame
  <2>4. QED BY <2>1, <2>2, <2>3
<1>2. CASE HyperStep /\ HyperFrame
  <2>1. cmd' = cmd /\ cmd \in {"reverse", "prepareReverse"}
    BY <1>2 DEF HyperFrame
  <2>2. ~AtUnit'
    BY <1>2 DEF HyperFrame, AtUnit, UnitSteps, Step
  <2>3. QED BY <2>1, <2>2
<1>3. CASE Ended \/ Crash \/ Finish
  BY <1>3 DEF Ended, Crash, Fail, Finish, Vanish, AtUnit, UnitSteps, Step
<1>4. CASE ArrayStep
  BY <1>4 DEF ArrayStep, procVars, AtUnit
<1>5. CASE Start
  BY <1>5 DEF Start, Begin, AtUnit, UnitSteps, Step, TypeInv, ProcessInv,
     NoProcess
<1>6. CASE Preamble
  BY <1>6 DEF Preamble, Continue, Fail, Vanish, AtUnit, UnitSteps, Step
<1>7. CASE PickUnit
  <2>1. PICK u \in todo : cur' = u /\ todo' = todo \ {u}
    BY <1>7 DEF PickUnit
  <2>2. UNCHANGED <<cmd, report>>
    BY <1>7 DEF PickUnit
  <2>3. QED BY <2>1, <2>2
<1>8. CASE UNCHANGED vars
  BY <1>8 DEF vars, procVars, AtUnit
<1>9. QED
  BY <1>1, <1>2, <1>3, <1>4, <1>5, <1>6, <1>7, <1>8, StepKinds, CopyFrame,
     MetroFrame, HyperFrames

(* The array changes the primary of no unit. *)
LEMMA ArrayKeepsRoles ==
  ASSUME TypeInv, ArrayStep, NEW u \in Unit
  PROVE  unit'[u].primary = unit[u].primary
<1>0. unit \in [Unit -> UnitRecord]
  BY DEF TypeInv, TypeOK, GroupArrayTypeOK
<1>1. CASE unit' = unit
  BY <1>1
<1>2. CASE unit' # unit
  <2>1. PICK v \in Unit : \E from, to : StatusChange(v, from, to)
    BY <1>2 DEF ArrayStep, Background, HyperSyncCompletes, SyncCompletes,
       PeriodicSync, LinkBreaks, LinkHeals
  <2>2. QED BY <1>0, <2>1 DEF StatusChange, UnitRecord
<1>3. QED BY <1>1, <1>2

(* A step about a HyperMetro group exchanges its sites only on the way to  *)
(* the recovery array; it is reported failed over when that array is the   *)
(* master, and reverse, which finds the master where it wants it, ends     *)
(* there.                                                                  *)
LEMMA MetroGroupStep ==
  ASSUME TypeInv, PendingInv, MetroStep, UnitFrame, cur \in MetroGroup,
         MetroInv(cur)
  PROVE  MetroInv(cur)'
<1> USE DEF At
<1>0. /\ cur \in Unit /\ unit \in [Unit -> UnitRecord] /\ home \in [Unit -> Site]
      /\ cur \notin MetroPair /\ cur \notin Mirror /\ local \in LocalRecord
      /\ report \in [Unit -> Result] /\ cur \in asked
      /\ cmd \in Command /\ phase[cur] \in Serving[cmd]
      /\ cmd = "failover" => report[cur] = "none"
      /\ UNCHANGED <<home, phase, cmd, asked, cur>>
  <2>1. AtUnit /\ UNCHANGED <<home, phase, cmd, asked, cur>>
    BY DEF UnitFrame
  <2>2. cur \notin MetroPair /\ cur \notin Mirror
    BY Kinds DEF Metro
  <2>3. cmd = "failover" => report[cur] = "none"
    BY <2>1 DEF PendingInv
  <2>4. QED
    BY <2>1, <2>2, <2>3, CurrentUnit
       DEF TypeInv, TypeOK, GroupArrayTypeOK, CommandTypeOK
<1>1. CASE unit' = unit
  <2>1. cmd = "failover" /\ report'[cur] = "ok" => ~SourceIsHome(cur)
    <3> SUFFICES ASSUME cmd = "failover", report'[cur] = "ok"
                 PROVE  ~SourceIsHome(cur)
      OBVIOUS
    <3>1. report'[cur] # report[cur]
      BY <1>0
    <3>2. CASE GroupMembers
      BY <1>0, <3>2 DEF GroupMembers, Answer, Local, RunsAt, SourceIsHome, Other
    <3>3. CASE ~GroupMembers
      BY <1>0, <3>1, <3>3
         DEF MetroStep, PrepareShowMetro, PrepareSwap, FailOverShowGroup,
         FailOverShowPair, FailOverSwap, FailOverShowAgain, FailOverStop,
         PairMembers, ReverseShowMetro, ReverseMapGroup, ReverseMapPair,
         ReverseShowPair, ReverseDecide, ReverseSwapMetro, RestoreShowGroup,
         RestoreShowPair,
         RestoreSyncMetro, SyncShowGroup, SyncShowPair, SyncInquirePair,
         SyncMetroUnit, IsolateGroup, Failing, Continue, Answer
    <3>4. QED BY <3>2, <3>3
  <2>2. ASSUME cmd = "reverse"
        PROVE  /\ pc' \in {"map", "inquire"} => local'.seen.primary = home[cur]
               /\ pc' # "swap"
    <3>1. phase[cur] = "reversing" /\ SourceIsHome(cur)
      BY <1>0, <2>2 DEF Serving, MetroInv, MetroPhases
    <3>2. CASE ReverseShowMetro
      <4>1. PICK row \in CMD_showconsistgrhminfo(cur) :
              /\ local' = [local EXCEPT !.seen = row]
              /\ pc' = "next" \/ (row # NoRow /\ pc' = "map")
        BY <3>2 DEF ReverseShowMetro, Answer, Continue
      <4>2. row = NoRow \/ row = unit[cur]
        BY DEF CMD_showconsistgrhminfo, Answered
      <4>3. local'.seen = row
        BY <1>0, <4>1 DEF LocalRecord
      <4>4. QED BY <3>1, <4>1, <4>2, <4>3 DEF SourceIsHome
    <3>3. CASE ReverseMapGroup
      BY <2>2, <3>3 DEF ReverseMapGroup, Continue, Answer, Abandon, MetroInv
    <3>4. CASE ReverseDecide
      BY <2>2, <3>4 DEF ReverseDecide, Answer, MetroInv, IsMaster, Local, RunsAt
    <3>5. CASE ReverseSwapMetro
      BY <2>2, <3>5 DEF ReverseSwapMetro, MetroInv
    <3>6. QED
      BY <1>0, <2>2, <3>2, <3>3, <3>4, <3>5
         DEF MetroStep, PrepareShowMetro, PrepareSwap, FailOverShowGroup,
         FailOverShowPair, FailOverSwap, FailOverShowAgain, FailOverStop,
         GroupMembers, PairMembers, ReverseMapPair, ReverseShowPair,
         RestoreShowGroup,
         RestoreShowPair, RestoreSyncMetro, SyncShowGroup, SyncShowPair,
         SyncInquirePair, SyncMetroUnit
  <2>3. QED BY <1>0, <1>1, <2>1, <2>2 DEF MetroInv, SourceIsHome
<1>2. CASE unit' # unit
  <2>1. \/ PrepareSwap \/ FailOverSwap \/ FailOverStop \/ ReverseSwapMetro
        \/ RestoreSyncMetro \/ SyncMetroUnit
    BY <1>2 DEF MetroStep, PrepareShowMetro, FailOverShowGroup,
       FailOverShowPair, FailOverShowAgain, GroupMembers, PairMembers,
       ReverseShowMetro, ReverseMapGroup, ReverseMapPair, ReverseShowPair,
       ReverseDecide, RestoreShowGroup,
       RestoreShowPair, SyncShowGroup, SyncShowPair,
       SyncInquirePair, groupVars
  <2>2. CASE PrepareSwap
    BY <1>0, <2>2 DEF PrepareSwap, Serving, MetroInv, MetroPhases
  <2>3. CASE FailOverSwap \/ FailOverStop
    <3>1. cmd = "failover" /\ report'[cur] # "ok"
      BY <1>0, <2>3 DEF FailOverSwap, FailOverStop, Failing, Continue, Answer
    <3>2. QED BY <1>0, <3>1 DEF Serving, MetroInv, MetroPhases
  <2>4. CASE ReverseSwapMetro
    BY <2>4 DEF ReverseSwapMetro, MetroInv
  <2>5. CASE RestoreSyncMetro \/ SyncMetroUnit
    <3>1. PICK reply \in Outcome : Syncs(cur, reply)
      BY <2>5, OutcomeTypes
         DEF RestoreSyncMetro, SyncMetroUnit, SyncMetro, Syncs
    <3>2. \/ unit' = unit
          \/ unit' = [unit EXCEPT ![cur].status = "Synchronizing"]
      BY <1>0, <3>1, RequestEffect
    <3>a. unit'[cur].primary = unit[cur].primary
      BY <1>0, <3>2 DEF UnitRecord
    <3>3. cmd \in {"restore", "sync"}
      BY <2>5 DEF RestoreSyncMetro, SyncMetroUnit
    <3>4. QED BY <1>0, <3>a, <3>3 DEF MetroInv, SourceIsHome
  <2>6. QED BY <2>1, <2>2, <2>3, <2>4, <2>5
<1>3. QED BY <1>1, <1>2

(* What SRM asks for, and what it is told. *)
LEMMA MetroPlanSafe ==
  ASSUME TypeInv, NEW u \in MetroGroup, MetroInv(u), Start \/ Finish
  PROVE  MetroInv(u)'
<1> USE DEF At
<1>0. /\ UNCHANGED unit /\ phase \in [Unit -> Phase] /\ home \in [Unit -> Site]
      /\ u \in Unit /\ unit[u].primary \in Site
  BY DEF Start, Begin, Finish, groupVars, TypeInv, TypeOK, GroupArrayTypeOK,
     CommandTypeOK, UnitRecord, Unit, Metro
<1>1. CASE Start
  <2>1. PICK c \in Command, U \in SUBSET Unit : Begin(c, U)
    BY <1>1, GroupCommandAssumption DEF Start, Begin
  <2>2. /\ pc' = "preamble" /\ home' = home /\ report'[u] = "none"
        /\ u \in U => phase[u] \in StartsIn[c] /\ phase'[u] = UnderWay(c, u)
        /\ u \notin U => phase'[u] = phase[u]
    BY <1>0, <2>1 DEF Begin, TypeInv, ProcessInv, NoProcess
  <2>3. phase'[u] \in MetroPhases => phase[u] \in MetroPhases
    <3>1. CASE c \in {"prepareFailover", "failover", "restore"} \/ u \notin U
      BY <2>2, <3>1 DEF UnderWay, MetroPhases
    <3>2. CASE c \in {"prepareReverse", "reverse", "sync"} /\ u \in U
      BY <2>2, <3>2 DEF StartsIn, UnderWay, MetroPhases
    <3>3. QED BY <3>1, <3>2 DEF Command
  <2>4. QED BY <1>0, <2>2, <2>3 DEF MetroInv, SourceIsHome
<1>2. CASE Finish
  <2>1. /\ cmd \in Command /\ pc' = "idle" /\ cmd' = "none"
        /\ u \in asked => phase[u] \in Serving[cmd]
    BY <1>2, GroupCommandAssumption DEF Finish, Vanish, TypeInv, ProcessInv
  <2>2. CASE u \in asked /\ report[u] = "ok"
    <3>1. /\ phase'[u] = Reached[cmd]
          /\ home'[u] = IF cmd \in MovesHome THEN Other(home[u]) ELSE home[u]
      BY <1>0, <1>2, <2>2 DEF Finish
    <3>2. CASE cmd = "failover"
      BY <1>0, <2>1, <2>2, <3>1, <3>2 DEF MetroInv, MovesHome, SourceIsHome,
         Other, Site
    <3>3. CASE cmd \in {"prepareReverse", "reverse"}
      BY <1>0, <2>1, <2>2, <3>1, <3>3 DEF MetroInv, MovesHome, SourceIsHome,
         Serving, MetroPhases
    <3>4. CASE cmd \in {"prepareFailover", "restore", "sync"}
      BY <2>1, <3>1, <3>4 DEF MetroInv, Reached, MetroPhases
    <3>5. QED BY <2>1, <3>2, <3>3, <3>4 DEF Command
  <2>3. CASE ~(u \in asked /\ report[u] = "ok")
    <3>1. phase'[u] = phase[u] /\ home'[u] = home[u]
      BY <1>0, <1>2, <2>3 DEF Finish
    <3>2. QED BY <1>0, <2>1, <3>1 DEF MetroInv, SourceIsHome
  <2>4. QED BY <2>2, <2>3
<1>3. QED BY <1>1, <1>2

LEMMA MetroSafe ==
  ASSUME TypeInv, MetroGroupInv, [Next]_vars
  PROVE  MetroGroupInv'
<1> USE DEF At
<1>1. PendingInv'
  BY PendingSafe DEF MetroGroupInv
<1>2. ASSUME NEW u \in MetroGroup PROVE MetroInv(u)'
  <2>0. /\ u \in Unit /\ u \notin Mirror /\ u \notin MetroPair /\ MetroInv(u)
        /\ PendingInv
    BY <1>2, Kinds DEF MetroGroupInv, Metro
  <2>1. CASE Start \/ Finish
    BY <2>0, <2>1, MetroPlanSafe
  <2>2. CASE MetroStep /\ UnitFrame /\ u = cur
    BY <2>0, <2>2, MetroGroupStep DEF UnitFrame, MetroInv, SourceIsHome
  <2>3. CASE UnitFrame /\ u # cur
    BY <2>0, <2>3 DEF UnitFrame, MetroInv, SourceIsHome
  <2>4. CASE HyperStep /\ HyperFrame
    BY <2>0, <2>4 DEF HyperFrame, MetroInv, SourceIsHome
  <2>5. CASE Ended
    BY <2>0, <2>5 DEF Ended, Vanish, MetroInv, SourceIsHome
  <2>6. CASE ArrayStep
    BY <2>0, <2>6, ArrayKeepsRoles
       DEF ArrayStep, planVars, procVars, MetroInv, SourceIsHome
  <2>7. CASE Preamble \/ PickUnit \/ Crash
    <3>1. /\ UNCHANGED <<unit, home, phase>>
          /\ \/ cmd' = "none"
             \/ UNCHANGED <<cmd, asked, report>> /\ pc' \in {"find", "next", "show"}
      BY <2>7 DEF Preamble, Continue, Fail, Vanish, PickUnit, Crash, planVars,
         groupVars
    <3>2. QED BY <2>0, <3>1 DEF MetroInv, SourceIsHome
  <2>8. CASE UNCHANGED vars
    BY <2>0, <2>8 DEF vars, groupVars, procVars, planVars, MetroInv, SourceIsHome
  <2>9. CopyStep /\ UnitFrame => u # cur
    BY <2>0, CopyRequests
  <2>10. QED
    BY <2>1, <2>2, <2>3, <2>4, <2>5, <2>6, <2>7, <2>8, <2>9, StepKinds,
       CopyFrame, MetroFrame, HyperFrames
<1>3. QED BY <1>1, <1>2 DEF MetroGroupInv

(* What is true of a HyperMetro group while production runs at the         *)
(* recovery array.                                                         *)
THEOREM MetroInvariant == Spec => [](TypeInv /\ MetroGroupInv)
<1>1. Init => TypeInv /\ MetroGroupInv
  <2> SUFFICES ASSUME Init PROVE TypeInv /\ MetroGroupInv
    OBVIOUS
  <2>1. PendingInv
    BY DEF Init, CommandInit, NoProcess, PendingInv, AtUnit, UnitSteps
  <2>2. \A u \in MetroGroup : MetroInv(u)
    BY DEF Init, GroupArrayInit, CommandInit, NoProcess, Unit, Metro, MetroInv,
       SourceIsHome
  <2>3. QED BY <2>1, <2>2, InitType DEF MetroGroupInv
<1>2. TypeInv /\ MetroGroupInv /\ [Next]_vars => TypeInv' /\ MetroGroupInv'
  BY NextType, MetroSafe
<1>3. QED BY <1>1, <1>2, PTL DEF Spec

(* The hosts where production runs can write a HyperMetro group from the   *)
(* report of failover to that of reverse, even when an exchange of its     *)
(* sites is delivered twice.                                               *)
THEOREM MetroServed == Spec => []MetroServesProduction
<1>1. MetroGroupInv => MetroServesProduction
  BY DEF MetroGroupInv, MetroInv, MetroPhases, SourceIsHome,
     MetroServesProduction, WritableAt
<1>2. QED BY <1>1, MetroInvariant, PTL

----------------------------------------------------------------------------
(* The siblings of a group change at two steps. *)
LEMMA SiblingFrame ==
  ASSUME TypeInv, Next, ~FailOverSparse, ~UnwindSparse
  PROVE  sibling' = sibling
<1>1. CASE CopyStep
  BY <1>1 DEF CopyStep, PrepareCopy, FailOverShowCopy, FailedOverBefore,
     SuspendedBefore, SuspendCopy, ActivateCopy, CopyMembers, UnwindCopy,
     ReverseShowCopy, SwapCopy, LockCopy, RestoreShowCopy, RestoreLockCopy,
     RestoreSyncCopy, SyncShowCopy, SyncCopy, groupVars
<1>2. CASE ArrayStep
  BY <1>2 DEF ArrayStep, Background, HyperSyncCompletes, SyncCompletes,
     PeriodicSync, LinkBreaks, LinkHeals, StatusChange
<1>3. CASE Start \/ Preamble \/ PickUnit \/ Finish \/ Crash
  BY <1>3 DEF Start, Begin, Preamble, PickUnit, Finish, Crash, groupVars
<1>4. QED
  BY <1>1, <1>2, <1>3, StepKinds, MetroFrame, HyperFrames DEF HyperFrame, Ended

(* At these it is the siblings of the group at hand that change, to what   *)
(* the command wants; a group is reported once all of them are visited.    *)
LEMMA SparseSiblings ==
  ASSUME TypeInv, RestInv, OwnSiblings, pc = "sparse",
         NEW access \in Access, NEW result \in {"silent", "err"},
         NEW next \in {"suspend", "next"}, Sparse(access, result, next)
  PROVE  /\ cur \in ConsistGroup /\ local'.rest \subseteq SiblingsOf[cur]
         /\ \A u \in ConsistGroup \ {cur} : \A s \in SiblingsOf[u] :
              sibling'[s] = sibling[s]
         /\ \A s \in Sibling : sibling'[s] \in {sibling[s], access}
         /\ Follow(SiblingsOf[cur] \ local.rest, access) =>
              \/ pc' = "next" /\ report' = [report EXCEPT ![cur] = "err"]
              \/ pc' = "next" /\ report' = [report EXCEPT ![cur] = "silent"]
              \/ /\ pc' = "sparse" /\ report' = report
                 /\ \A s \in SiblingsOf[cur] \ local'.rest : sibling'[s] = access
              \/ /\ pc' = next /\ report' = report
                 /\ \A s \in SiblingsOf[cur] : sibling'[s] = access
<1>1. /\ cur \in ConsistGroup /\ local.rest \subseteq SiblingsOf[cur]
      /\ sibling \in [Sibling -> Access] /\ local \in LocalRecord
      /\ SiblingsOf[cur] \subseteq Sibling
  BY UnitAssumption
     DEF RestInv, TypeInv, TypeOK, GroupArrayTypeOK, CommandTypeOK
<1>2. CASE Answer(result) /\ UNCHANGED <<groupVars, local>>
  BY <1>1, <1>2 DEF Answer, groupVars
<1>3. CASE local.rest = {} /\ Continue(next) /\ UNCHANGED <<groupVars, local>>
  BY <1>1, <1>3 DEF Continue, groupVars, Follow
<1>4. ASSUME NEW s \in local.rest, NEW reply \in Outcome,
             sibling' \in {[sibling EXCEPT ![s] = access]}
                          \cup (IF reply = "err" THEN {sibling} ELSE {}),
             local' = [local EXCEPT !.rest = @ \ {s}],
             Failing(reply, "sparse")
      PROVE  /\ local'.rest = local.rest \ {s}
             /\ \A t \in Sibling \ {s} : sibling'[t] = sibling[t]
             /\ sibling'[s] \in {sibling[s], access}
             /\ \/ pc' = "next" /\ report' = [report EXCEPT ![cur] = "err"]
                \/ pc' = "sparse" /\ report' = report /\ sibling'[s] = access
  BY <1>1, <1>4 DEF LocalRecord, Failing, Outcome, Continue, Answer
<1>5. CASE \E s \in local.rest : \E reply \in Outcome :
             /\ sibling' \in {[sibling EXCEPT ![s] = access]}
                             \cup (IF reply = "err" THEN {sibling} ELSE {})
             /\ local' = [local EXCEPT !.rest = @ \ {s}]
             /\ Failing(reply, "sparse")
  <2>1. PICK s \in local.rest :
          /\ local'.rest = local.rest \ {s}
          /\ \A t \in Sibling \ {s} : sibling'[t] = sibling[t]
          /\ sibling'[s] \in {sibling[s], access}
          /\ \/ pc' = "next" /\ report' = [report EXCEPT ![cur] = "err"]
             \/ pc' = "sparse" /\ report' = report /\ sibling'[s] = access
    BY <1>4, <1>5
  <2>2. \A u \in ConsistGroup \ {cur} : \A t \in SiblingsOf[u] :
          t \in Sibling \ {s}
    BY <1>1, <2>1, UnitAssumption DEF OwnSiblings
  <2>3. \A t \in Sibling : sibling'[t] \in {sibling[t], access}
    BY <2>1
  <2>4. ASSUME Follow(SiblingsOf[cur] \ local.rest, access), sibling'[s] = access
        PROVE  \A t \in SiblingsOf[cur] \ local'.rest : sibling'[t] = access
    BY <1>1, <2>1, <2>4 DEF Follow
  <2>5. QED BY <1>1, <2>1, <2>2, <2>3, <2>4
<1>6. QED BY <1>2, <1>3, <1>5 DEF Sparse

(* The steps that come to the siblings start with those of their group. *)
LEMMA RestSafe ==
  ASSUME TypeInv, RestInv, OwnSiblings, [Next]_vars
  PROVE  RestInv'
<1> USE DEF At
<1>0. TypeInv' /\ \A u \in ConsistGroup : OthersOf(u) = SiblingsOf[u]
  BY NextType DEF OthersOf
<1>1. CASE FailOverSparse \/ UnwindSparse
  <2>1. /\ pc = "sparse" /\ cur' = cur
        /\ Sparse("RW", "silent", "suspend") \/ Sparse("RO", "err", "next")
    BY <1>1, CopyFrame DEF FailOverSparse, UnwindSparse, CopyStep, UnitFrame,
       SyncShowCopy
  <2>2. cur \in ConsistGroup /\ local'.rest \subseteq SiblingsOf[cur]
    BY <2>1, SparseSiblings DEF Access
  <2>3. QED BY <2>1, <2>2 DEF RestInv
<1>2. CASE FailOverShowCopy
  <2>1. PICK nfs \in Classified(cur) : \E row \in ShowCopy(cur, nfs) :
          \/ pc' = "next"
          \/ /\ row # NoRow /\ (pc' = "sparse" => ~nfs)
             /\ local' = [local EXCEPT !.seen = row, !.nfs = nfs,
                            !.rest = IF nfs THEN {} ELSE OthersOf(cur)]
             /\ cur' = cur
    BY <1>2 DEF FailOverShowCopy, Answer, Continue, Classified
  <2>2. ~nfs => \A row \in ShowCopy(cur, nfs) :
                  row = NoRow \/ cur \in ConsistGroup
    BY DEF ShowCopy, CMD_showconsistgrinfo, Answered
  <2>3. local \in LocalRecord
    BY DEF TypeInv, TypeOK, CommandTypeOK
  <2>4. QED BY <1>0, <2>1, <2>2, <2>3 DEF RestInv, LocalRecord
<1>3. CASE UnwindCopy
  <2>1. /\ cur \in Mirror /\ cur' = cur
        /\ pc' = "sparse" => /\ cur \notin VStore
                             /\ local' = [local EXCEPT !.rest = OthersOf(cur)]
    <3>1. cur \in Mirror
      BY <1>3, CopyRequests DEF CopyStep
    <3>2. PICK nfs \in Classified(cur) :
            CASE nfs -> Answer(report[cur]) /\ UNCHANGED local
              [] ~nfs /\ cur \in VStore -> Answer("err") /\ UNCHANGED local
              [] ~nfs /\ cur \notin VStore ->
                   /\ local' = [local EXCEPT !.rest = OthersOf(cur)]
                   /\ Continue("sparse")
      BY <1>3 DEF UnwindCopy
    <3>3. nfs \in BOOLEAN
      BY <3>2 DEF Classified
    <3>4. QED BY <3>1, <3>2, <3>3 DEF Answer, Continue
  <2>2. local \in LocalRecord
    BY DEF TypeInv, TypeOK, CommandTypeOK
  <2>3. QED BY <1>0, <2>1, <2>2 DEF RestInv, LocalRecord, Mirror
<1>4. CASE CopyStep /\ ~(FailOverSparse \/ UnwindSparse \/ FailOverShowCopy
                         \/ UnwindCopy)
  BY <1>4 DEF CopyStep, PrepareCopy, FailedOverBefore, SuspendedBefore,
     SuspendCopy, SplitCopy, ActivateCopy, CopyMembers, ReverseShowCopy,
     SwapCopy, LockCopy, RestoreShowCopy, RestoreLockCopy, Locked,
     RestoreSyncCopy, SyncShowCopy, SyncCopy, Failing, Continue, Answer, Fail,
     Vanish, RestInv
<1>5. CASE MetroStep
  <2>1. \/ pc' = "idle"
        \/ cur' \in Metro /\ cur' \notin Mirror /\ cmd' # "none"
    BY <1>5, MetroFrame, Kinds, CurrentUnit
       DEF UnitFrame, Ended, Vanish, Command
  <2>2. pc' # "sparse"
    BY <1>0, <2>1 DEF TypeInv, ProcessInv, AtUnit, UnitSteps, Step, KindInv
  <2>3. QED BY <2>2 DEF RestInv
<1>6. CASE HyperStep
  BY <1>6 DEF HyperStep, FindHypers, StopHyper, JudgeHyper, HypersDone,
     ReverseHypers, ResyncHyper, ReverseFinish, Recorded, Fail, Vanish, RestInv
<1>7. CASE ArrayStep
  BY <1>7 DEF ArrayStep, procVars, RestInv
<1>8. CASE Start \/ Preamble \/ PickUnit \/ Finish \/ Crash
  BY <1>8 DEF Start, Begin, Preamble, Continue, PickUnit, Finish, Crash, Fail,
     Vanish, RestInv
<1>9. CASE UNCHANGED vars
  BY <1>9 DEF vars, procVars, RestInv
<1>10. QED
  BY <1>1, <1>2, <1>3, <1>4, <1>5, <1>6, <1>7, <1>8, <1>9, StepKinds

(* The siblings of every other group are left alone. *)
LEMMA SparseSafe ==
  ASSUME TypeInv, SiblingsInv, OwnSiblings, FailOverSparse \/ UnwindSparse,
         NEW u \in ConsistGroup
  PROVE  SiblingInv(u)'
<1> USE DEF At
<1>0. /\ UnitFrame /\ u \in Unit /\ SiblingInv(u) /\ RestInv
      /\ SiblingsOf[u] \subseteq Sibling
  BY CopyFrame, UnitAssumption
     DEF CopyStep, FailOverSparse, UnwindSparse, SyncShowCopy, SiblingsInv,
     Unit, Mirror
<1>a. /\ UNCHANGED <<home, phase, cmd, asked, cur>>
      /\ todo' \subseteq todo /\ cur \in Unit
      /\ phase[cur] \in Serving[cmd] /\ report \in [Unit -> Result]
      /\ UNCHANGED todo
  BY <1>0, CurrentUnit
     DEF UnitFrame, TypeInv, TypeOK, CommandTypeOK, FailOverSparse,
     UnwindSparse, Sparse, Answer, Continue, Failing
<1>1. CASE u # cur
  <2>1. /\ \A s \in SiblingsOf[u] : sibling'[s] = sibling[s]
        /\ report'[u] = report[u] /\ pc = "sparse"
    BY <1>0, <1>1, SparseSiblings
       DEF FailOverSparse, UnwindSparse, UnitFrame, Access
  <2>2. UnwindDone(u)' => UnwindDone(u)
    BY <1>a, <1>1, <2>1 DEF UnwindDone
  <2>3. QED
    BY <1>0, <1>a, <1>1, <2>1, <2>2 DEF SiblingInv, SiblingsVisited, Follow
<1>2. CASE u = cur /\ FailOverSparse
  <2>1. /\ cmd = "failover" /\ pc = "sparse" /\ Sparse("RW", "silent", "suspend")
        /\ phase[u] = "failingOver"
    BY <1>a, <1>2 DEF FailOverSparse, Serving
  <2>2. Follow(SiblingsOf[cur] \ local.rest, "RW")
    BY <1>0, <1>2, <2>1 DEF SiblingInv, SiblingsVisited
  <2>3. /\ \A s \in Sibling : sibling'[s] \in {sibling[s], "RW"}
        /\ \/ pc' = "next" /\ report'[u] # "ok"
           \/ /\ pc' = "sparse" /\ report' = report
              /\ \A s \in SiblingsOf[cur] \ local'.rest : sibling'[s] = "RW"
           \/ /\ pc' = "suspend" /\ report' = report
              /\ \A s \in SiblingsOf[cur] : sibling'[s] = "RW"
    BY <1>0, <1>a, <1>2, <2>1, <2>2, SparseSiblings DEF Access
  <2>4. report'[u] = "ok" /\ u \in asked =>
          \A s \in SiblingsOf[u] : sibling'[s] = "RW"
    BY <1>0, <2>1, <2>3 DEF SiblingInv, Follow
  <2>5. QED
    BY <1>a, <1>2, <2>1, <2>3, <2>4 DEF SiblingInv, SiblingsVisited, Follow,
       UnwindDone
<1>3. CASE u = cur /\ UnwindSparse
  <2>1. /\ cmd = "prepareReverse" /\ pc = "sparse" /\ Sparse("RO", "err", "next")
        /\ phase[u] = "unwinding"
    BY <1>a, <1>3 DEF UnwindSparse, Serving
  <2>2. Follow(SiblingsOf[cur] \ local.rest, "RO")
    BY <1>0, <1>3, <2>1 DEF SiblingInv, SiblingsVisited
  <2>3. \/ pc' = "next" /\ report'[u] # "ok"
        \/ /\ pc' = "sparse" /\ report' = report
           /\ \A s \in SiblingsOf[cur] \ local'.rest : sibling'[s] = "RO"
        \/ /\ pc' = "next" /\ report' = report
           /\ \A s \in SiblingsOf[cur] : sibling'[s] = "RO"
    BY <1>0, <1>a, <1>3, <2>1, <2>2, SparseSiblings DEF Access
  <2>4. QED
    BY <1>a, <1>3, <2>1, <2>3 DEF SiblingInv, SiblingsVisited, Follow,
       UnwindDone
<1>4. QED BY <1>1, <1>2, <1>3

(* A group is shown before its siblings are visited, and all of them are   *)
(* visited before it is handled any further.                               *)
LEMMA VisitedKept ==
  ASSUME TypeInv, CopyStep, UnitFrame, ~FailOverSparse, ~UnwindSparse,
         NEW u \in ConsistGroup, SiblingsVisited(u)
  PROVE  SiblingsVisited(u)'
<1> USE DEF At
<1>0. /\ UNCHANGED <<cmd, cur>> /\ sibling' = sibling /\ local \in LocalRecord
      /\ OthersOf(u) = SiblingsOf[u] /\ u \notin VStore
  BY SiblingFrame, Kinds
     DEF UnitFrame, TypeInv, TypeOK, CommandTypeOK, OthersOf, CopyStep, Next,
     ProcessStep, PrepareFailoverNext, GroupFailOverNext, PrepareReverseNext,
     GroupReverseNext, GroupRestoreNext, GroupSyncNext
<1>1. CASE u # cur
  BY <1>0, <1>1 DEF SiblingsVisited
<1>2. CASE u = cur /\ cmd \notin {"failover", "prepareReverse"}
  BY <1>0, <1>2 DEF SiblingsVisited
<1>3. CASE u = cur /\ cmd = "failover"
  <2>1. CASE FailOverShowCopy
    <3>1. \/ pc' = "next"
          \/ pc' = "sparse" /\ local'.rest = SiblingsOf[u]
      BY <1>0, <1>3, <2>1 DEF FailOverShowCopy, Classified, Answer, Continue,
         LocalRecord
    <3>2. QED BY <1>0, <1>3, <3>1 DEF SiblingsVisited, Follow
  <2>2. CASE FailedOverBefore \/ SuspendedBefore \/ SuspendCopy
             \/ ActivateCopy \/ CopyMembers
    <3>1. \/ pc' = "next"
          \/ /\ pc \in {"suspend", "activate", "members"}
             /\ pc' \in {"activate", "members"}
      BY <2>2 DEF FailedOverBefore, SuspendedBefore, SuspendCopy, SplitCopy,
         ActivateCopy, CopyMembers, Failing, Answer, Continue
    <3>2. QED BY <1>0, <1>3, <3>1 DEF SiblingsVisited, Follow
  <2>3. QED
    BY <1>3, <2>1, <2>2 DEF CopyStep, PrepareCopy, UnwindCopy, ReverseShowCopy,
       SwapCopy, LockCopy, RestoreShowCopy, RestoreLockCopy, RestoreSyncCopy,
       SyncShowCopy, SyncCopy
<1>4. CASE u = cur /\ cmd = "prepareReverse"
  <2>1. UnwindCopy
    BY <1>4 DEF CopyStep, PrepareCopy, FailOverShowCopy, FailedOverBefore,
       SuspendedBefore, SuspendCopy, ActivateCopy, CopyMembers,
       ReverseShowCopy, SwapCopy, LockCopy, RestoreShowCopy, RestoreLockCopy,
       RestoreSyncCopy, SyncShowCopy, SyncCopy
  <2>2. local'.rest = SiblingsOf[u]
    BY <1>0, <1>4, <2>1 DEF UnwindCopy, Classified, LocalRecord
  <2>3. QED BY <1>0, <1>4, <2>2 DEF SiblingsVisited, Follow
<1>5. QED BY <1>1, <1>2, <1>3, <1>4

(* What SRM asks for, and what it is told. *)
LEMMA SiblingPlanSafe ==
  ASSUME TypeInv, NEW u \in ConsistGroup, SiblingInv(u), Start \/ Finish
  PROVE  SiblingInv(u)'
<1> USE DEF At
<1>0. /\ UNCHANGED sibling /\ phase \in [Unit -> Phase] /\ u \in Unit
  BY DEF Start, Begin, Finish, groupVars, TypeInv, TypeOK, CommandTypeOK, Unit,
     Mirror
<1>1. CASE Start
  <2>1. PICK c \in Command, U \in SUBSET Unit : Begin(c, U)
    BY <1>1, GroupCommandAssumption DEF Start, Begin
  <2>2. /\ pc' = "preamble" /\ report'[u] = "none"
        /\ u \in U => phase[u] \in StartsIn[c] /\ phase'[u] = UnderWay(c, u)
        /\ u \notin U => phase'[u] = phase[u]
    BY <1>0, <2>1 DEF Begin, TypeInv, ProcessInv, NoProcess
  <2>3. /\ phase'[u] = "promoted" => phase[u] = "promoted"
        /\ phase'[u] \in {"unwound", "reversing", "reversed"} =>
             phase[u] \in {"unwound", "reversing", "reversed"}
    <3>1. CASE c \in {"prepareFailover", "failover", "restore"} \/ u \notin U
      BY <2>2, <3>1 DEF UnderWay
    <3>2. CASE c \in {"prepareReverse", "reverse", "sync"} /\ u \in U
      BY <2>2, <3>2 DEF StartsIn, UnderWay
    <3>3. QED BY <3>1, <3>2 DEF Command
  <2>4. QED
    BY <1>0, <2>2, <2>3 DEF SiblingInv, SiblingsVisited, Follow
<1>2. CASE Finish
  <2>1. /\ cmd \in Command /\ pc' = "idle" /\ cmd' = "none"
        /\ cmd # "reverse" => pc = "next" /\ todo = {}
        /\ u \in asked => phase[u] \in Serving[cmd]
    BY <1>2, GroupCommandAssumption DEF Finish, Vanish, TypeInv, ProcessInv
  <2>2. CASE u \in asked /\ report[u] = "ok"
    <3>1. phase'[u] = Reached[cmd]
      BY <1>0, <1>2, <2>2 DEF Finish
    <3>2. CASE cmd = "failover"
      BY <1>0, <2>1, <2>2, <3>1, <3>2 DEF SiblingInv, SiblingsVisited, Follow,
         Reached, UnwindDone
    <3>3. CASE cmd = "prepareReverse"
      BY <1>0, <2>1, <2>2, <3>1, <3>3 DEF SiblingInv, SiblingsVisited, Follow,
         Reached, UnwindDone
    <3>4. CASE cmd = "reverse"
      BY <1>0, <2>1, <2>2, <3>1, <3>4 DEF SiblingInv, SiblingsVisited, Follow,
         Reached, Serving
    <3>5. CASE cmd \in {"prepareFailover", "restore", "sync"}
      BY <2>1, <3>1, <3>5 DEF SiblingInv, SiblingsVisited, Reached, UnwindDone
    <3>6. QED BY <2>1, <3>2, <3>3, <3>4, <3>5 DEF Command
  <2>3. CASE ~(u \in asked /\ report[u] = "ok")
    <3>1. phase'[u] = phase[u]
      BY <1>0, <1>2, <2>3 DEF Finish
    <3>2. QED
      BY <1>0, <2>1, <3>1 DEF SiblingInv, SiblingsVisited, Follow, UnwindDone
  <2>4. QED BY <2>2, <2>3
<1>3. QED BY <1>1, <1>2

(* What is to be shown of a step within a phase. *)
LEMMA SiblingKept ==
  ASSUME NEW u \in ConsistGroup, SiblingInv(u), sibling' = sibling,
         UNCHANGED <<phase, cmd, asked>>, SiblingsVisited(u)',
         cmd = "failover" /\ u \in asked /\ report'[u] = "ok" =>
           report[u] = "ok" \/ Follow(SiblingsOf[u], "RW"),
         report'[u] = "ok" /\ UnwindDone(u)' =>
           report[u] = "ok" /\ UnwindDone(u)
  PROVE  SiblingInv(u)'
BY DEF SiblingInv, Follow

LEMMA SiblingsSafe ==
  ASSUME OwnSiblings, TypeInv, SiblingsInv, [Next]_vars
  PROVE  SiblingsInv'
<1> USE DEF At
<1>1. RestInv'
  BY RestSafe DEF SiblingsInv
<1>2. ASSUME NEW u \in ConsistGroup PROVE SiblingInv(u)'
  <2>0. /\ u \in Unit /\ u \in Mirror /\ u \notin Metro /\ SiblingInv(u)
        /\ SiblingsVisited(u)
    BY Kinds DEF SiblingsInv, SiblingInv, Mirror
  <2>1. CASE Start \/ Finish
    BY <2>0, <2>1, SiblingPlanSafe
  <2>2. CASE FailOverSparse \/ UnwindSparse
    BY <2>2, SparseSafe
  <2>3. CASE CopyStep /\ UnitFrame /\ ~FailOverSparse /\ ~UnwindSparse
    <3>1. /\ sibling' = sibling /\ SiblingsVisited(u)'
          /\ UNCHANGED <<phase, cmd, asked, cur>>
      BY <2>0, <2>3, VisitedKept, SiblingFrame
         DEF UnitFrame, CopyStep, Next, ProcessStep, PrepareFailoverNext,
         GroupFailOverNext, PrepareReverseNext, GroupReverseNext,
         GroupRestoreNext, GroupSyncNext
    <3>2. cmd = "failover" /\ report'[u] = "ok" =>
            report[u] = "ok" \/ Follow(SiblingsOf[u], "RW")
      <4>1. CASE u # cur
        BY <2>0, <2>3, <4>1 DEF UnitFrame
      <4>2. CASE u = cur
        BY <2>0, <2>3, <4>2, FailoverReports DEF CopyMembers, SiblingsVisited
      <4>3. QED BY <4>1, <4>2
    <3>3. report'[u] = "ok" /\ UnwindDone(u)' =>
            report[u] = "ok" /\ UnwindDone(u)
      <4> SUFFICES ASSUME report'[u] = "ok", UnwindDone(u)'
                   PROVE  report[u] = "ok" /\ UnwindDone(u)
        OBVIOUS
      <4>1. UnwindCopy /\ UNCHANGED todo
        BY <2>3, <3>1 DEF UnwindDone, CopyStep, PrepareCopy, FailOverShowCopy,
           FailedOverBefore, SuspendedBefore, SuspendCopy, ActivateCopy,
           CopyMembers, ReverseShowCopy, SwapCopy, LockCopy, RestoreShowCopy,
           RestoreLockCopy, RestoreSyncCopy, SyncShowCopy, SyncCopy,
           UnwindCopy, Answer, Continue
      <4>2. u = cur => pc' = "sparse"
        BY <4>1, Kinds DEF UnwindCopy, Classified, Continue
      <4>3. u # cur
        BY <3>1, <4>2 DEF UnwindDone
      <4>4. QED
        BY <2>0, <2>3, <4>1, <4>3 DEF UnitFrame, UnwindCopy, UnwindDone
    <3>4. QED BY <2>0, <3>1, <3>2, <3>3, SiblingKept
  <2>4. CASE MetroStep /\ UnitFrame
    <3>1. /\ sibling' = sibling /\ u # cur /\ report'[u] = report[u]
          /\ UNCHANGED <<phase, cmd, asked, cur>>
      BY <2>0, <2>4, MetroFrame DEF UnitFrame
    <3>2. ~UnwindDone(u)'
      BY <2>4, <3>1 DEF UnwindDone, MetroStep, PrepareShowMetro, PrepareSwap,
         FailOverShowGroup, FailOverShowPair, FailOverSwap, FailOverShowAgain,
         FailOverStop, GroupMembers, PairMembers, ReverseShowMetro,
         ReverseMapGroup, ReverseMapPair, ReverseShowPair, ReverseDecide,
         ReverseSwapMetro, RestoreShowGroup,
         RestoreShowPair, RestoreSyncMetro, SyncShowGroup,
         SyncShowPair, SyncInquirePair, SyncMetroUnit
    <3>3. SiblingsVisited(u)'
      BY <3>1 DEF SiblingsVisited
    <3>4. QED BY <2>0, <3>1, <3>2, <3>3, SiblingKept
  <2>5. CASE HyperStep /\ HyperFrame
    <3>1. sibling' = sibling /\ UNCHANGED <<phase, cmd, asked, cur>>
      BY <2>5 DEF HyperFrame
    <3>2. cmd # "failover" /\ pc' \in {"resync", "done", "hypers", "next"}
      BY <2>5 DEF HyperFrame
    <3>3. u \in asked => ~UnwindDone(u)'
      BY <2>0, <2>5 DEF HyperFrame, UnwindDone, TypeInv, ProcessInv
    <3>4. QED
      BY <2>0, <3>1, <3>2, <3>3 DEF SiblingInv, SiblingsVisited, Follow
  <2>6. CASE Ended
    <3>1. cmd' = "none" /\ asked' = {} /\ UNCHANGED <<sibling, phase>>
      BY <2>6 DEF Ended, Vanish
    <3>2. QED BY <2>0, <3>1 DEF SiblingInv, SiblingsVisited, Follow
  <2>7. CASE ArrayStep \/ UNCHANGED vars
    <3>1. sibling' = sibling
      BY <2>7, SiblingFrame
         DEF Next, FailOverSparse, UnwindSparse, vars, groupVars, ArrayStep,
         Background, HyperSyncCompletes, SyncCompletes, PeriodicSync,
         LinkBreaks, LinkHeals, StatusChange
    <3>2. UNCHANGED <<planVars, procVars>>
      BY <2>7 DEF ArrayStep, vars
    <3>3. QED
      BY <2>0, <3>1, <3>2 DEF planVars, procVars, SiblingInv, SiblingsVisited,
         Follow, UnwindDone
  <2>8. CASE Preamble \/ Crash
    <3>1. /\ UNCHANGED <<sibling, phase>>
          /\ \/ cmd' = "none" /\ asked' = {}
             \/ /\ UNCHANGED <<cmd, asked, report, cur>>
                /\ pc' \in {"find", "next"}
                /\ cmd = "prepareReverse" => pc' = "find"
      BY <2>8 DEF Preamble, Continue, Fail, Vanish, Crash, planVars, groupVars
    <3>2. QED
      BY <2>0, <3>1 DEF SiblingInv, SiblingsVisited, Follow, UnwindDone
  <2>9. CASE PickUnit
    <3>1. /\ UNCHANGED <<sibling, phase, cmd, asked, report>>
          /\ pc = "next" /\ pc' = "show" /\ todo' = todo \ {cur'}
      BY <2>9 DEF PickUnit, planVars, groupVars
    <3>2. UnwindDone(u)' => UnwindDone(u)
      BY <3>1 DEF UnwindDone
    <3>3. QED
      BY <2>0, <3>1, <3>2, SiblingKept DEF SiblingsVisited, SiblingInv
  <2>10. QED
    BY <2>1, <2>2, <2>3, <2>4, <2>5, <2>6, <2>7, <2>8, <2>9, StepKinds,
       CopyFrame, MetroFrame, HyperFrames
<1>3. QED BY <1>1, <1>2 DEF SiblingsInv

(* What is true of the siblings of a group in every phase of the plan. *)
THEOREM SiblingsInvariant ==
  ASSUME OwnSiblings
  PROVE  Spec => [](TypeInv /\ SiblingsInv)
<1>1. Init => TypeInv /\ SiblingsInv
  <2> SUFFICES ASSUME Init PROVE TypeInv /\ SiblingsInv
    OBVIOUS
  <2>1. \A u \in ConsistGroup : u \in Unit
    BY DEF Unit, Mirror
  <2>2. RestInv /\ \A u \in ConsistGroup : SiblingInv(u)
    BY <2>1 DEF Init, CommandInit, NoProcess, RestInv, SiblingInv,
       SiblingsVisited, At
  <2>3. QED BY <2>2, InitType DEF SiblingsInv
<1>2. TypeInv /\ SiblingsInv /\ [Next]_vars => TypeInv' /\ SiblingsInv'
  BY NextType, SiblingsSafe
<1>3. QED BY <1>1, <1>2, PTL DEF Spec

(* All other copies of a group are open when failover reports the group,   *)
(* and shut from the report of prepareReverse to that of reverse, though   *)
(* every call that visits them may fail and the process be killed midway.  *)
THEOREM SiblingsFollowGroup ==
  ASSUME OwnSiblings
  PROVE  Spec => []SiblingsFollow
<1>1. SiblingsInv => SiblingsFollow
  BY DEF SiblingsInv, SiblingInv, Follow, SiblingsFollow
<1>2. QED BY <1>1, SiblingsInvariant, PTL

----------------------------------------------------------------------------
(* GroupRecovery implements RecoveryPlan for copies: consistency groups    *)
(* and vStore pairs, whatever happens beside them to HyperMetro units,     *)
(* siblings and the HyperMetros of 3DC layouts.                            *)
(* The mapped variables of RecoveryPlan. *)
Homes == [u \in Mirror |-> home[u]]
Phases == [u \in Mirror |-> PlanPhase[phase[u]]]
Sources == [u \in Mirror |-> unit[u].primary]
Writables == [u \in Mirror |-> WritableAt(u)]

(* A step that moves one copy is a step of the plan, or changes nothing of *)
(* what the plan shows.                                                    *)
LEMMA MoveImplements ==
  ASSUME TypeInv, CopyInv, OneMoves, UNCHANGED <<home, phase>>
  PROVE  Plan!Next \/ UNCHANGED Plan!planVars
<1>1. \A u \in Mirror : /\ unit[u] \in UnitRecord /\ home[u] \in Site
                        /\ PhaseInv(u)
  BY DEF TypeInv, TypeOK, GroupArrayTypeOK, CommandTypeOK, CopyInv, Unit
<1>2. CASE \A u \in Mirror : /\ unit'[u].primary = unit[u].primary
                             /\ WritableAt(u)' = WritableAt(u)
  BY <1>2 DEF Plan!planVars
<1>3. CASE ~ \A u \in Mirror : /\ unit'[u].primary = unit[u].primary
                               /\ WritableAt(u)' = WritableAt(u)
  <2>1. PICK u \in Mirror : \/ unit'[u].primary # unit[u].primary
                            \/ WritableAt(u)' # WritableAt(u)
    BY <1>3
  <2>2. unit'[u] # unit[u]
    BY <2>1 DEF WritableAt
  <2>3. Moves(u) /\ \A v \in Mirror \ {u} : unit'[v] = unit[v]
    BY <2>2 DEF OneMoves
  <2>4. Opens(u) \/ Turns(u) \/ Shuts(u)
    BY <1>1, <2>1, <2>2, <2>3 DEF Moves, Drifts, WritableAt, UnitRecord
  <2>5. \A v \in Mirror \ {u} : WritableAt(v)' = WritableAt(v)
    BY <2>3 DEF WritableAt
  <2>6. Homes' = Homes /\ Phases' = Phases
    BY DEF Homes, Phases
  <2>7. CASE Opens(u)
    <3>1. /\ unit'[u].primary = unit[u].primary
          /\ WritableAt(u)' = Site
      BY <1>1, <2>7 DEF Opens, WritableAt, UnitRecord, Site, Other
    <3>2. Sources' = Sources /\ Writables' = [Writables EXCEPT ![u] = Site]
      BY <2>3, <2>5, <3>1 DEF Sources, Writables
    <3>3. Phases[u] = "failingOver"
      BY <2>7 DEF Opens, Phases, PlanPhase
    <3>4. Plan!Open(u)
      BY <2>6, <3>2, <3>3 DEF Plan!Open, Plan!Site, Sources, Writables, Site,
         Homes, Phases
    <3>5. QED BY <3>4 DEF Plan!Next
  <2>8. CASE Turns(u)
    <3>1. /\ unit'[u].primary = home[u] /\ unit[u].primary # home[u]
          /\ WritableAt(u) = Site /\ WritableAt(u)' = Site
      BY <1>1, <2>8 DEF Turns, CopyInv, TurnInv, PhaseInv, WritableAt,
         UnitRecord, Site, Other, Opened, SourceIsHome
    <3>2. /\ Sources' = [Sources EXCEPT ![u] = home[u]]
          /\ Writables' = Writables
      BY <2>3, <2>5, <3>1 DEF Sources, Writables
    <3>3. Phases[u] = "reversing"
      BY <2>8 DEF Turns, Phases, PlanPhase
    <3>4. Plan!Turn(u)
      BY <2>6, <3>1, <3>2, <3>3 DEF Plan!Turn, Plan!Site, Sources, Writables,
         Site, Homes, Phases
    <3>5. QED BY <3>4 DEF Plan!Next
  <2>9. CASE Shuts(u)
    <3>1. /\ unit'[u].primary = unit[u].primary
          /\ WritableAt(u)' = {unit[u].primary}
      BY <1>1, <2>9 DEF Shuts, WritableAt, UnitRecord, Access
    <3>2. /\ Sources' = Sources
          /\ Writables' = [Writables EXCEPT ![u] = {Sources[u]}]
      BY <2>3, <2>5, <3>1 DEF Sources, Writables
    <3>3. /\ Phases[u] \in {"reversing", "restoring"}
          /\ Phases[u] = "reversing" => unit[u].primary = home[u]
      BY <2>9 DEF Shuts, CopyInv, TurnInv, SourceIsHome, Phases, PlanPhase
    <3>4. Plan!Close(u)
      BY <2>6, <3>2, <3>3 DEF Plan!Close, Sources, Writables, Homes, Phases
    <3>5. QED BY <3>4 DEF Plan!Next
  <2>10. QED BY <2>4, <2>7, <2>8, <2>9
<1>4. QED BY <1>2, <1>3

(* SRM asks the plan for what its commands are for; to prepare is to leave *)
(* the plan as it is.                                                      *)
LEMMA StartImplements ==
  ASSUME TypeInv, Start
  PROVE  Plan!Next \/ UNCHANGED Plan!planVars
<1>0. /\ unit' = unit /\ home' = home /\ phase \in [Unit -> Phase]
      /\ \A u \in Mirror : u \in Unit
  BY DEF Start, Begin, groupVars, TypeInv, TypeOK, CommandTypeOK, Unit
<1>1. Homes' = Homes /\ Sources' = Sources /\ Writables' = Writables
  BY <1>0 DEF Homes, Sources, Writables, WritableAt
<1>2. PICK c \in Command, U \in SUBSET Unit : Begin(c, U)
  BY GroupCommandAssumption DEF Start, Begin
<1> DEFINE D == U \cap Mirror
<1>3. /\ D \in SUBSET Mirror
      /\ \A u \in D : /\ phase[u] \in StartsIn[c]
                      /\ Phases[u] = PlanPhase[phase[u]]
      /\ \A u \in Mirror : phase'[u] = IF u \in D THEN UnderWay(c, u)
                                                  ELSE phase[u]
  BY <1>0, <1>2 DEF Begin, Phases
<1>4. ASSUME NEW from, NEW underway,
             \A u \in D : /\ PlanPhase[phase[u]] \in {from, underway}
                          /\ PlanPhase[UnderWay(c, u)] = underway
      PROVE  Plan!Ask(D, from, underway)
  <2>1. Phases' = [u \in Mirror |-> IF u \in D THEN underway ELSE Phases[u]]
    BY <1>3, <1>4 DEF Phases
  <2>2. \A u \in D : Phases[u] \in {from, underway}
    BY <1>3, <1>4
  <2>3. QED
    BY <1>1, <2>1, <2>2 DEF Plan!Ask, Homes, Phases, Sources, Writables
<1>5. CASE c = "failover"
  <2>1. \A u \in D : /\ PlanPhase[phase[u]] \in {"protected", "failingOver"}
                     /\ PlanPhase[UnderWay(c, u)] = "failingOver"
    BY <1>3, <1>5 DEF StartsIn, UnderWay, PlanPhase
  <2>2. Plan!AskFailover(D)
    BY <1>4, <2>1 DEF Plan!AskFailover
  <2>3. QED BY <1>3, <2>2 DEF Plan!Next
<1>6. CASE c = "reverse"
  <2>1. \A u \in D : /\ PlanPhase[phase[u]] \in {"promoted", "reversing"}
                     /\ PlanPhase[UnderWay(c, u)] = "reversing"
    BY <1>3, <1>6 DEF StartsIn, UnderWay, PlanPhase
  <2>2. Plan!AskReverse(D)
    BY <1>4, <2>1 DEF Plan!AskReverse
  <2>3. QED BY <1>3, <2>2 DEF Plan!Next
<1>7. CASE c = "restore"
  <2>1. \A u \in D : /\ PlanPhase[phase[u]] \in {"promoted", "restoring"}
                     /\ PlanPhase[UnderWay(c, u)] = "restoring"
    BY <1>3, <1>7 DEF StartsIn, UnderWay, PlanPhase
  <2>2. Plan!AskRestore(D)
    BY <1>4, <2>1 DEF Plan!AskRestore
  <2>3. QED BY <1>3, <2>2 DEF Plan!Next
<1>8. CASE c \in {"prepareFailover", "prepareReverse", "sync"}
  <2>1. \A u \in Mirror : PlanPhase[phase'[u]] = PlanPhase[phase[u]]
    BY <1>3, <1>8 DEF StartsIn, UnderWay, PlanPhase
  <2>2. Phases' = Phases
    BY <2>1 DEF Phases
  <2>3. QED BY <1>1, <2>2 DEF Plan!planVars, Homes, Phases, Sources, Writables
<1>9. QED BY <1>5, <1>6, <1>7, <1>8 DEF Command

(* A command is only reported for a copy of which the plan allows it. *)
LEMMA FinishImplements ==
  ASSUME TypeInv, CopyInv, Finish
  PROVE  Plan!Next \/ UNCHANGED Plan!planVars
<1>D. PICK D \in SUBSET Mirror :
        D = {u \in asked : report[u] = "ok"} \cap Mirror
  OBVIOUS
<1>0. /\ unit' = unit /\ phase \in [Unit -> Phase] /\ home \in [Unit -> Site]
      /\ \A u \in Mirror : u \in Unit /\ unit[u] \in UnitRecord
  BY DEF Finish, groupVars, TypeInv, TypeOK, GroupArrayTypeOK, CommandTypeOK,
     Unit
<1>1. Sources' = Sources /\ Writables' = Writables
  BY <1>0 DEF Sources, Writables, WritableAt
<1>2. /\ cmd \in Command /\ D \in SUBSET Mirror
      /\ \A u \in D : /\ phase[u] \in Serving[cmd]
                      /\ PhaseInv(u) /\ ReportInv(u)
                      /\ u \in asked /\ report[u] = "ok"
  BY <1>D, GroupCommandAssumption DEF Finish, TypeInv, ProcessInv, CopyInv
<1>3. \A u \in Mirror :
        /\ phase'[u] = IF u \in D THEN Reached[cmd] ELSE phase[u]
        /\ home'[u] = IF u \in D /\ cmd \in MovesHome THEN Other(home[u])
                                                      ELSE home[u]
  BY <1>0, <1>D DEF Finish
<1>4. CASE cmd \in {"failover", "restore"}
  <2>1. /\ Phases' = [u \in Mirror |-> IF u \in D THEN PlanPhase[Reached[cmd]]
                                                  ELSE Phases[u]]
        /\ Homes' = [u \in Mirror |-> IF u \in D THEN Other(Homes[u])
                                                 ELSE Homes[u]]
    BY <1>3, <1>4 DEF Phases, Homes, MovesHome
  <2>2. CASE cmd = "failover"
    <3>0. \A u \in D : /\ phase[u] = "failingOver" /\ u \in Mirror
                       /\ unit[u].primary = home[u] /\ unit[u].access = "RW"
      BY <1>2, <2>2 DEF Serving, PhaseInv, ReportInv, SourceIsHome, Opened
    <3>1. \A u \in D : /\ Phases[u] = "failingOver"
                       /\ Other(Homes[u]) \in Writables[u]
      BY <3>0 DEF WritableAt, Phases, PlanPhase, Homes, Writables
    <3>2. Plan!Promoted(D)
      BY <1>1, <1>2, <2>1, <2>2, <3>1 DEF Plan!Promoted, Plan!Other, Other,
         Reached, PlanPhase, Homes, Phases, Sources, Writables
    <3>3. QED BY <1>2, <3>2 DEF Plan!Next
  <2>3. CASE cmd = "restore"
    <3>0. \A u \in D : /\ phase[u] = "restoring" /\ u \in Mirror
                       /\ unit[u].primary # home[u]
      BY <1>2, <2>3 DEF Serving, PhaseInv, SourceIsHome
    <3>1. \A u \in D : Phases[u] = "restoring" /\ Sources[u] # Homes[u]
      BY <3>0 DEF Phases, PlanPhase, Homes, Sources
    <3>2. Plan!Restored(D)
      BY <1>1, <1>2, <2>1, <2>3, <3>1 DEF Plan!Restored, Plan!Other, Other,
         Reached, PlanPhase, Homes, Phases, Sources, Writables
    <3>3. QED BY <1>2, <3>2 DEF Plan!Next
  <2>4. QED BY <1>4, <2>2, <2>3
<1>5. CASE cmd \notin {"failover", "restore"}
  <2>1. Homes' = Homes
    BY <1>3, <1>5 DEF Homes, MovesHome
  <2>2. CASE cmd = "reverse"
    <3>0. \A u \in D : /\ phase[u] = "reversing" /\ u \in Mirror
                       /\ unit[u].primary = home[u]
      BY <1>2, <2>2 DEF Serving, ReportInv, SourceIsHome
    <3>1. \A u \in D : Phases[u] = "reversing" /\ Sources[u] = Homes[u]
      BY <3>0 DEF Phases, PlanPhase, Homes, Sources
    <3>2. Phases' = [u \in Mirror |-> IF u \in D THEN "protected"
                                                 ELSE Phases[u]]
      BY <1>3, <2>2 DEF Phases, Reached, PlanPhase
    <3>3. Plan!Reversed(D)
      BY <1>1, <2>1, <3>1, <3>2 DEF Plan!Reversed, Homes, Phases, Sources,
         Writables
    <3>4. QED BY <1>2, <3>3 DEF Plan!Next
  <2>3. CASE cmd \in {"prepareFailover", "prepareReverse", "sync"}
    <3>1. \A u \in Mirror : PlanPhase[phase'[u]] = PlanPhase[phase[u]]
      BY <1>2, <1>3, <2>3 DEF Serving, Reached, PlanPhase
    <3>2. Phases' = Phases
      BY <3>1 DEF Phases
    <3>3. QED
      BY <1>1, <2>1, <3>2 DEF Plan!planVars, Homes, Phases, Sources, Writables
  <2>4. QED BY <1>2, <1>5, <2>2, <2>3 DEF Command
<1>6. QED BY <1>4, <1>5

(* GroupRecovery implements RecoveryPlan: crashes, failed calls, stale     *)
(* answers and reruns never show SRM or the hosts anything of a copy that  *)
(* the contract does not allow.                                            *)
THEOREM ImplementsPlan ==
  ASSUME SingleDelivery
  PROVE  Spec => CopyContract
<1>1. Init => Plan!Init
  <2>1. \A u \in Mirror : u \in Unit /\ u \notin Metro
    BY Kinds
  <2>2. QED
    BY <2>1 DEF Init, GroupArrayInit, CommandInit, Plan!Init, WritableAt,
       PlanPhase
<1>2. TypeInv /\ KnownInv /\ CopyInv /\ [Next]_vars
        => [Plan!Next]_Plan!planVars
  <2> SUFFICES ASSUME TypeInv, KnownInv, CopyInv, [Next]_vars
               PROVE  Plan!Next \/ UNCHANGED Plan!planVars
    OBVIOUS
  <2>1. CASE Start
    BY <2>1, StartImplements
  <2>2. CASE Finish
    BY <2>2, FinishImplements
  <2>3. CASE Next /\ ~Start /\ ~Finish
    <3>1. OneMoves /\ UNCHANGED <<home, phase>>
      BY <2>3, CopyMoves DEF OneMoves
    <3>2. QED BY <3>1, MoveImplements
  <2>4. CASE UNCHANGED vars
    BY <2>4 DEF vars, groupVars, planVars, Plan!planVars, WritableAt
  <2>5. QED BY <2>1, <2>2, <2>3, <2>4
<1>3. QED BY <1>1, <1>2, CopyInvariant, PTL DEF Spec, CopyContract, Plan!Spec
=============================================================================
