------------------------ MODULE RecoverySafety_proofs ------------------------
(***************************************************************************)
(* Theorems about RecoveryWorkflow, for any devices, siblings, commands    *)
(* and, where it is not assumed otherwise, any number of management        *)
(* addresses: its types, then SafetyInv and what follows from it, then     *)
(* the invariants that need less.                                          *)
(***************************************************************************)
EXTENDS RecoverySafety, TLAPS

(* TypeOK alone is not inductive: a step about cur needs a cur. *)
DeviceSteps == Step \ {"idle", "preamble", "next"}
ProcessInv ==
  /\ pc # "idle" => cmd \in Command
  /\ pc \in DeviceSteps => cur \in Device
TypeInv == TypeOK /\ ProcessInv

(* What a device step leaves to prove, its frame being one of three. *)
LEMMA StepType ==
  ASSUME TypeInv, pc \in DeviceSteps,
         \/ \E step \in DeviceSteps : Continue(step)
         \/ \E result \in Result : Answer(result) \/ Abandon(result),
         ArrayTypeOK', local' \in LocalRecord
  PROVE  TypeInv'
<1> USE DEF TypeInv, TypeOK, PlanTypeOK, ProcessTypeOK, ProcessInv, planVars,
            DeviceSteps, Step
<1>1. CASE \E step \in DeviceSteps : Continue(step)
  BY <1>1 DEF Continue
<1>2. CASE \E result \in Result : Answer(result)
  BY <1>2 DEF Answer
<1>3. CASE \E result \in Result : Abandon(result)
  BY <1>3 DEF Abandon
<1>4. QED BY <1>1, <1>2, <1>3

(* A request leaves well-typed pairs, however often it is delivered. *)
LEMMA RequestType ==
  ASSUME TypeInv, NEW p \in Pair, NEW reply \in Reply,
         \/ CMD_splithymirror(p, reply)
         \/ \E access \in Access : CMD_changeSlaveRw(p, access, reply)
         \/ CMD_synchymirror(p, reply)
         \/ CMD_swaphymirror(p, reply)
  PROVE  pair' \in [Pair -> PairRecord]
<1> USE DEF TypeInv, TypeOK, ArrayTypeOK, PairRecord
<1>1. CASE CMD_splithymirror(p, reply)
  BY <1>1 DEF CMD_splithymirror, Idempotent, Status
<1>2. CASE \E access \in Access : CMD_changeSlaveRw(p, access, reply)
  BY <1>2 DEF CMD_changeSlaveRw, Idempotent, Access
<1>3. CASE CMD_synchymirror(p, reply)
  BY <1>3 DEF CMD_synchymirror, Idempotent, Status
<1>4. CASE CMD_swaphymirror(p, reply)
  BY <1>4 DEF CMD_swaphymirror, Site, Other
<1>5. QED BY <1>1, <1>2, <1>3, <1>4

(* A call is answered by ok or err. *)
LEMMA OutcomeReply == \A reply \in Outcome : reply \in Reply
BY DEF Outcome, Reply

(* So is CMD_synchymirror. *)
LEMMA SyncOutcomeReply == \A p : \A reply \in SyncOutcome(p) : reply \in Reply
BY DEF SyncOutcome, Outcome, Reply

(* A process past the preamble and between devices has a device. *)
LEMMA CurrentDevice ==
  ASSUME TypeInv, pc \in DeviceSteps
  PROVE  /\ cur \in Device /\ cur \in Pair
         /\ RunsAt(cmd, cur) \in Site
         /\ pair[cur] \in PairRecord
         /\ OthersOf(cur) \subseteq Sibling
<1>1. cur \in Device /\ cur \in Pair
  BY DEF TypeInv, ProcessInv, Pair
<1>2. RunsAt(cmd, cur) \in Site
  BY <1>1 DEF RunsAt, TypeInv, TypeOK, PlanTypeOK, Site, Other
<1>3. QED
  BY <1>1, <1>2, DeviceAssumption DEF TypeInv, TypeOK, ArrayTypeOK, OthersOf

(* Picking the next device keeps the types. *)
LEMMA PickType ==
  ASSUME TypeInv, NEW c \in Command, NEW step \in DeviceSteps,
         PickDevice(c, step)
  PROVE  TypeInv'
BY DEF PickDevice, At, TypeInv, TypeOK, ProcessTypeOK, ProcessInv, DeviceSteps,
   Step, Command, arrayVars, planVars, ArrayTypeOK, PlanTypeOK, FreshLocal,
   NoPair, LocalRecord, PairRecord, Status, Site, Access, Reply

(* What leaving _exec_hymirror_failover_out changes. *)
LEMMA ExecutedFrame ==
  ASSUME TypeInv, NEW reply \in Reply, Executed(reply)
  PROVE  /\ \/ \E step \in DeviceSteps : Continue(step)
            \/ \E result \in Result : Answer(result)
         /\ local' \in LocalRecord
BY DEF Executed, DeviceSteps, Step, Result, TypeInv, TypeOK, ProcessTypeOK,
   LocalRecord

(* The steps of failover keep the types. *)
LEMMA FailOverType == TypeInv /\ FailOverNext => TypeInv'
<1> SUFFICES ASSUME TypeInv, FailOverNext PROVE TypeInv'
  OBVIOUS
<1> USE DEF At
<1>a. local \in LocalRecord /\ ArrayTypeOK
  BY DEF TypeInv, TypeOK, ProcessTypeOK
<1>1. CASE FailOverPick
  BY <1>1, PickType DEF FailOverPick, Command, DeviceSteps, Step
<1>2. CASE Classify
  <2>1. local' \in LocalRecord /\ pc \in DeviceSteps /\ ArrayTypeOK'
    BY <1>2, <1>a DEF Classify, LocalRecord, DeviceSteps, Step, arrayVars,
       ArrayTypeOK
  <2>2. \E step \in DeviceSteps : Continue(step)
    BY <1>2 DEF Classify, DeviceSteps, Step
  <2>3. QED BY <2>1, <2>2, StepType
<1>3. CASE Expose
  <2>1. local' \in LocalRecord /\ pc \in DeviceSteps
    BY <1>3, <1>a DEF Expose, DeviceSteps, Step
  <2>2. ArrayTypeOK'
    BY <1>3, <1>a, <2>1, CurrentDevice DEF Expose, Mapping, ArrayTypeOK
  <2>3. \/ \E step \in DeviceSteps : Continue(step)
        \/ \E result \in Result : Abandon(result)
    BY <1>3 DEF Expose, Exposed, DeviceSteps, Step, Result
  <2>4. QED BY <2>1, <2>2, <2>3, StepType
<1>4. CASE FailOverShow
  <2>1. pc \in DeviceSteps /\ ArrayTypeOK'
    BY <1>4, <1>a DEF FailOverShow, DeviceSteps, Step, arrayVars, ArrayTypeOK
  <2>2. CASE Executed("err")
    BY <2>1, <2>2, ExecutedFrame, StepType DEF Reply
  <2>3. CASE ~Executed("err")
    <3>1. local' \in LocalRecord
      BY <1>4, <1>a, <2>1, <2>3, CurrentDevice DEF FailOverShow, LocalRecord
    <3>2. \E step \in DeviceSteps : Continue(step)
      BY <1>4, <2>3 DEF FailOverShow, DeviceSteps, Step
    <3>3. QED BY <2>1, <3>1, <3>2, StepType
  <2>4. QED BY <2>2, <2>3
<1>5. CASE Sparse
  <2>1. pc \in DeviceSteps
    BY <1>5 DEF Sparse, DeviceSteps, Step
  <2>2. \A p \in local.rest : p \in Pair
    BY <1>a DEF LocalRecord, Pair
  <2>3. pair' \in [Pair -> PairRecord]
    BY <1>5, <1>a, <2>2, RequestType DEF Sparse, ArrayTypeOK, Access, Reply
  <2>4. ArrayTypeOK'
    BY <1>5, <1>a, <2>3 DEF Sparse, ArrayTypeOK
  <2>5. CASE Executed("err")
    BY <2>1, <2>4, <2>5, ExecutedFrame, StepType DEF Reply
  <2>6. CASE ~Executed("err")
    <3>1. local' \in LocalRecord
      BY <1>5, <1>a, <2>6 DEF Sparse, LocalRecord
    <3>2. \E step \in DeviceSteps : Continue(step)
      BY <1>5, <2>6 DEF Sparse, DeviceSteps, Step
    <3>3. QED BY <2>1, <2>4, <3>1, <3>2, StepType
  <2>7. QED BY <2>5, <2>6
<1>6. CASE AlreadyPromoted
  <2>1. pc \in DeviceSteps /\ ArrayTypeOK' /\ Executed("ok")
    BY <1>6, <1>a DEF AlreadyPromoted, DeviceSteps, Step, arrayVars, ArrayTypeOK
  <2>2. QED BY <2>1, ExecutedFrame, StepType DEF Reply
<1>7. CASE AlreadySuspended
  <2>1. pc \in DeviceSteps /\ ArrayTypeOK' /\ local' \in LocalRecord
    BY <1>7, <1>a DEF AlreadySuspended, DeviceSteps, Step, arrayVars,
       ArrayTypeOK
  <2>2. \E step \in DeviceSteps : Continue(step)
    BY <1>7 DEF AlreadySuspended, DeviceSteps, Step
  <2>3. QED BY <2>1, <2>2, StepType
<1>8. CASE Suspend
  <2>1. pc \in DeviceSteps
    BY <1>8 DEF Suspend, DeviceSteps, Step
  <2>2. PICK reply \in Reply : CMD_splithymirror(cur, reply) /\ SplitDone(reply)
    BY <1>8, OutcomeReply DEF Suspend
  <2>3. ArrayTypeOK'
    BY <1>8, <1>a, <2>1, <2>2, RequestType, CurrentDevice DEF Suspend,
       ArrayTypeOK
  <2>4. CASE Executed("err")
    BY <2>1, <2>3, <2>4, ExecutedFrame, StepType DEF Reply
  <2>5. CASE ~Executed("err")
    <3>1. \E step \in DeviceSteps : Continue(step)
      BY <2>2, <2>5 DEF SplitDone, DeviceSteps, Step
    <3>2. local' \in LocalRecord
      BY <2>2, <2>5, <1>a DEF SplitDone
    <3>3. QED BY <2>1, <2>3, <3>1, <3>2, StepType
  <2>6. QED BY <2>4, <2>5
<1>9. CASE Activate
  <2>1. pc \in DeviceSteps
    BY <1>9 DEF Activate, DeviceSteps, Step
  <2>2. PICK reply \in Reply :
          CMD_changeSlaveRw(cur, "RW", reply) /\ Executed(reply)
    BY <1>9, OutcomeReply DEF Activate
  <2>3. ArrayTypeOK'
    BY <1>9, <1>a, <2>1, <2>2, RequestType, CurrentDevice DEF Activate,
       ArrayTypeOK, Access
  <2>4. QED BY <2>1, <2>2, <2>3, ExecutedFrame, StepType
<1>10. CASE Remap
  <2>1. local' \in LocalRecord /\ pc \in DeviceSteps
    BY <1>10, <1>a DEF Remap, DeviceSteps, Step
  <2>2. ArrayTypeOK'
    BY <1>10, <1>a, <2>1, CurrentDevice DEF Remap, Mapping, FalseOk, ArrayTypeOK
  <2>3. PICK reply \in Reply : Remapped(reply)
    BY <1>10, OutcomeReply DEF Remap, Reply
  <2>4. \/ \E step \in DeviceSteps : Continue(step)
        \/ \E result \in Result : Answer(result) \/ Abandon(result)
    BY <2>3, <1>a DEF Remapped, DeviceSteps, Step, Result, LocalRecord, Reply
  <2>5. QED BY <2>1, <2>2, <2>4, StepType
<1>11. CASE Identify \/ AddShare \/ FindShare \/ Unshare \/ AddShareAgain
  <2>0. pc \in DeviceSteps /\ (local' = local \/ Named(cur))
    BY <1>11 DEF Identify, AddShare, FindShare, Unshare, AddShareAgain,
       DeviceSteps, Step
  <2>1. local' \in LocalRecord /\ pc \in DeviceSteps
    BY <1>a, <2>0, CurrentDevice DEF Named, LocalRecord
  <2>2. ArrayTypeOK'
    BY <1>11, <1>a, <2>1, CurrentDevice DEF Identify, AddShare, FindShare, Unshare,
       AddShareAgain, Share, arrayVars, ArrayTypeOK
  <2>3. \/ \E step \in DeviceSteps : Continue(step)
        \/ \E result \in Result : Answer(result)
    BY <1>11, OutcomeReply DEF Identify, AddShare, FindShare, Unshare, AddShareAgain,
       DeviceSteps, Step, Result, Reply
  <2>4. QED BY <2>1, <2>2, <2>3, StepType
<1>12. QED
  BY <1>1, <1>2, <1>3, <1>4, <1>5, <1>6, <1>7, <1>8, <1>9, <1>10, <1>11
     DEF FailOverNext

(* The steps of reverseReplication keep the types. *)
LEMMA ReverseType == TypeInv /\ ReverseNext => TypeInv'
<1> SUFFICES ASSUME TypeInv, ReverseNext PROVE TypeInv'
  OBVIOUS
<1> USE DEF At
<1>a. local \in LocalRecord /\ ArrayTypeOK
  BY DEF TypeInv, TypeOK, ProcessTypeOK
<1>1. CASE ReversePick
  BY <1>1, PickType DEF ReversePick, Command, DeviceSteps, Step
<1>2. CASE ReverseShow
  <2>1. pc \in DeviceSteps /\ ArrayTypeOK' /\ local' \in LocalRecord
    BY <1>2, <1>a DEF ReverseShow, DeviceSteps, Step, arrayVars, ArrayTypeOK
  <2>2. \/ \E step \in DeviceSteps : Continue(step)
        \/ \E result \in Result : Answer(result)
    BY <1>2 DEF ReverseShow, NothingToReverse, DeviceSteps, Step, Result
  <2>3. QED BY <2>1, <2>2, StepType
<1>3. CASE Swap
  <2>1. pc \in DeviceSteps /\ local' \in LocalRecord
    BY <1>3, <1>a DEF Swap, DeviceSteps, Step
  <2>2. PICK reply \in Reply : CMD_swaphymirror(cur, reply) /\ Swapped(reply)
    BY <1>3, OutcomeReply DEF Swap
  <2>3. ArrayTypeOK'
    BY <1>3, <1>a, <2>1, <2>2, RequestType, CurrentDevice DEF Swap, ArrayTypeOK
  <2>4. \/ \E step \in DeviceSteps : Continue(step)
        \/ \E result \in Result : Answer(result)
    BY <2>2 DEF Swapped, DeviceSteps, Step, Result
  <2>5. QED BY <2>1, <2>3, <2>4, StepType
<1>4. CASE ReverseLock
  <2>1. pc \in DeviceSteps /\ local' \in LocalRecord
    BY <1>4, <1>a DEF ReverseLock, DeviceSteps, Step
  <2>2. PICK reply \in Reply : CMD_changeSlaveRw(cur, "RO", reply)
    BY <1>4, OutcomeReply DEF ReverseLock
  <2>3. ArrayTypeOK'
    BY <1>4, <1>a, <2>1, <2>2, RequestType, CurrentDevice DEF ReverseLock,
       ArrayTypeOK, Access
  <2>4. \E result \in Result : Answer(result)
    BY <1>4 DEF ReverseLock, Result
  <2>5. QED BY <2>1, <2>3, <2>4, StepType
<1>5. QED BY <1>1, <1>2, <1>3, <1>4 DEF ReverseNext

(* The steps of restoreReplication keep the types. *)
LEMMA RestoreType == TypeInv /\ RestoreNext => TypeInv'
<1> SUFFICES ASSUME TypeInv, RestoreNext PROVE TypeInv'
  OBVIOUS
<1> USE DEF At
<1>a. local \in LocalRecord /\ ArrayTypeOK
  BY DEF TypeInv, TypeOK, ProcessTypeOK
<1>1. CASE RestorePick
  BY <1>1, PickType DEF RestorePick, Command, DeviceSteps, Step
<1>2. CASE RestoreShow
  <2>1. pc \in DeviceSteps /\ ArrayTypeOK'
    BY <1>2, <1>a DEF RestoreShow, DeviceSteps, Step, arrayVars, ArrayTypeOK
  <2>2. local' \in LocalRecord
    BY <1>2, <1>a, <2>1, CurrentDevice DEF RestoreShow, LocalRecord, PairRecord
  <2>3. \/ \E step \in DeviceSteps : Continue(step)
        \/ \E result \in Result : Answer(result)
    BY <1>2 DEF RestoreShow, DeviceSteps, Step, Result
  <2>4. QED BY <2>1, <2>2, <2>3, StepType
<1>3. CASE RestoreLock
  <2>1. pc \in DeviceSteps /\ local' \in LocalRecord
    BY <1>3, <1>a DEF RestoreLock, DeviceSteps, Step
  <2>2. PICK reply \in Reply : CMD_changeSlaveRw(cur, "RO", reply) /\ Locked(reply)
    BY <1>3, OutcomeReply DEF RestoreLock
  <2>3. ArrayTypeOK'
    BY <1>3, <1>a, <2>1, <2>2, RequestType, CurrentDevice DEF RestoreLock,
       ArrayTypeOK, Access
  <2>4. \/ \E step \in DeviceSteps : Continue(step)
        \/ \E result \in Result : Answer(result)
    BY <2>2 DEF Locked, DeviceSteps, Step, Result
  <2>5. QED BY <2>1, <2>3, <2>4, StepType
<1>4. CASE Resync
  <2>1. pc \in DeviceSteps /\ local' \in LocalRecord
    BY <1>4, <1>a DEF Resync, DeviceSteps, Step
  <2>2. PICK reply \in Reply : CMD_synchymirror(cur, reply)
    BY <1>4, SyncOutcomeReply DEF Resync
  <2>3. ArrayTypeOK'
    BY <1>4, <1>a, <2>1, <2>2, RequestType, CurrentDevice DEF Resync, ArrayTypeOK
  <2>4. \E result \in Result : Answer(result)
    BY <1>4 DEF Resync, Result
  <2>5. QED BY <2>1, <2>3, <2>4, StepType
<1>5. QED BY <1>1, <1>2, <1>3, <1>4 DEF RestoreNext

(* The steps of syncOnce keep the types. *)
LEMMA SyncType == TypeInv /\ SyncNext => TypeInv'
<1> SUFFICES ASSUME TypeInv, SyncNext PROVE TypeInv'
  OBVIOUS
<1> USE DEF At
<1>a. local \in LocalRecord /\ ArrayTypeOK
  BY DEF TypeInv, TypeOK, ProcessTypeOK
<1>1. CASE SyncPick
  BY <1>1, PickType DEF SyncPick, Command, DeviceSteps, Step
<1>2. CASE SyncShow \/ Inquire
  <2>1. pc \in DeviceSteps /\ ArrayTypeOK' /\ local' \in LocalRecord
    BY <1>2, <1>a DEF SyncShow, Inquire, DeviceSteps, Step, arrayVars, ArrayTypeOK
  <2>2. \/ \E step \in DeviceSteps : Continue(step)
        \/ \E result \in Result : Answer(result)
    BY <1>2 DEF SyncShow, Inquire, DeviceSteps, Step, Result
  <2>3. QED BY <2>1, <2>2, StepType
<1>3. CASE StartSync
  <2>1. pc \in DeviceSteps /\ local' \in LocalRecord
    BY <1>3, <1>a DEF StartSync, DeviceSteps, Step
  <2>2. PICK reply \in Reply : CMD_synchymirror(cur, reply) /\ Answer(reply)
    BY <1>3, SyncOutcomeReply DEF StartSync
  <2>3. ArrayTypeOK'
    BY <1>3, <1>a, <2>1, <2>2, RequestType, CurrentDevice DEF StartSync,
       ArrayTypeOK
  <2>4. \E result \in Result : Answer(result)
    BY <2>2 DEF Result, Reply
  <2>5. QED BY <2>1, <2>3, <2>4, StepType
<1>4. QED BY <1>1, <1>2, <1>3 DEF SyncNext

(* What the arrays do by themselves keeps the types. *)
LEMMA ArrayStepType == TypeInv /\ ArrayStep => TypeInv'
<1> SUFFICES ASSUME TypeInv, ArrayStep PROVE TypeInv'
  OBVIOUS
<1>1. PICK p \in Pair : \E from \in SUBSET Status, to \in Status :
                       StatusChange(p, from, to)
  BY DEF ArrayStep, Background, SyncCompletes, PeriodicSync, Recovers,
     LinkBreaks, LinkHeals, Status, Replicating
<1>2. ArrayTypeOK'
  BY <1>1 DEF StatusChange, TypeInv, TypeOK, ArrayTypeOK, PairRecord
<1>3. QED
  BY <1>2 DEF ArrayStep, planVars, procVars, TypeInv, TypeOK, PlanTypeOK,
     ProcessTypeOK, ProcessInv

(* The locals of a fresh process are well typed. *)
LEMMA FreshLocalType == FreshLocal \in LocalRecord
BY DEF FreshLocal, NoPair, LocalRecord, PairRecord, Status, Site, Access, Reply

(* The steps outside the device loop keep the types. *)
LEMMA FrameStepsType ==
  TypeInv /\ (Start \/ Preamble \/ Finish \/ Crash \/ Stabilize) => TypeInv'
<1> USE DEF TypeInv, TypeOK, ArrayTypeOK, PlanTypeOK, ProcessTypeOK, ProcessInv,
            arrayVars, planVars, procVars, DeviceSteps, Step
<1>1. FreshLocal \in LocalRecord
  BY FreshLocalType
<1>2. ASSUME TypeInv, NEW c \in Commands, NEW D \in SUBSET Device, Begin(c, D)
      PROVE  TypeInv'
  BY <1>2, CommandAssumption DEF Begin, UnderWay, Command, Phase, Result
<1>3. ASSUME TypeInv, Preamble PROVE TypeInv'
  BY <1>1, <1>3 DEF Preamble, Vanish, Result
<1>4. ASSUME TypeInv, Finish PROVE TypeInv'
  <2>1. phase' \in [Device -> Phase]
    BY <1>4 DEF Finish, Reached, Command, Phase
  <2>2. home' \in [Device -> Site]
    BY <1>4 DEF Finish, Other, Site
  <2>3. QED BY <1>1, <1>4, <2>1, <2>2 DEF Finish, Vanish, Result
<1>5. ASSUME TypeInv, Crash PROVE TypeInv'
  BY <1>1, <1>5 DEF Crash, Vanish, Result
<1>6. ASSUME TypeInv, Stabilize PROVE TypeInv'
  BY <1>6 DEF Stabilize
<1>7. QED BY <1>2, <1>3, <1>4, <1>5, <1>6 DEF Start

(* The initial states are well typed. *)
LEMMA InitType == Init => TypeInv
<1> SUFFICES ASSUME Init PROVE TypeInv
  OBVIOUS
<1>1. ArrayTypeOK
  BY DeviceAssumption DEF Init, ArrayInit, ArrayTypeOK, PairRecord, Status,
     Site, Access
<1>2. PlanTypeOK /\ ProcessTypeOK /\ ProcessInv
  BY FreshLocalType DEF Init, CommandInit, PlanTypeOK, ProcessTypeOK,
     ProcessInv, DeviceSteps, Step, Site, Phase, Result
<1>3. QED BY <1>1, <1>2 DEF TypeInv, TypeOK

(* Every step keeps the types. *)
LEMMA NextType == TypeInv /\ [Next]_vars => TypeInv'
<1> SUFFICES ASSUME TypeInv, [Next]_vars PROVE TypeInv'
  OBVIOUS
<1>1. CASE ProcessStep
  BY <1>1, FrameStepsType, FailOverType, ReverseType, RestoreType, SyncType
     DEF ProcessStep
<1>2. CASE Start \/ Crash \/ ArrayStep \/ Stabilize
  BY <1>2, FrameStepsType, ArrayStepType
<1>3. CASE UNCHANGED vars
  BY <1>3 DEF vars, arrayVars, planVars, procVars, TypeInv, TypeOK,
     ArrayTypeOK, PlanTypeOK, ProcessTypeOK, ProcessInv
<1>4. QED BY <1>1, <1>2, <1>3 DEF Next

(* Every variable keeps its type, and a device step always has a device:   *)
(* whichever calls fail, in whichever command, the process is never left   *)
(* at a step about a device without one.                                   *)
THEOREM TypeCorrect == Spec => []TypeOK
<1>1. TypeInv => TypeOK
  BY DEF TypeInv
<1>2. QED BY <1>1, InitType, NextType, PTL DEF Spec
----------------------------------------------------------------------------
(* A request that was answered has had its effect once, and one that       *)
(* failed has had it once or not at all.                                   *)
Served(reply, after) == pair' = after \/ (reply = "err" /\ pair' = pair)

(* What a request that is delivered at most once does to a pair. *)
LEMMA RequestEffect ==
  ASSUME TypeInv, NEW p \in Pair, NEW reply \in Reply
  PROVE
  /\ CMD_splithymirror(p, reply) =>
       Served(reply, [pair EXCEPT ![p].status = "Split"])
  /\ \A access : CMD_changeSlaveRw(p, access, reply) =>
       Served(reply, [pair EXCEPT ![p].access = access])
  /\ CMD_synchymirror(p, reply) =>
       \/ pair' = pair
       \/ pair' = [pair EXCEPT ![p].status = "Synchronizing"]
  /\ Addresses = 1 /\ CMD_swaphymirror(p, reply) =>
       Served(reply, [pair EXCEPT ![p].primary = Other(pair[p].primary)])
<1> USE DEF Reply, Served, TypeInv, TypeOK, ArrayTypeOK, PairRecord
<1>1. \A n \in Deliveries(reply) : n # 0 \/ reply = "err"
  BY DeviceAssumption DEF Deliveries
<1>2. CMD_splithymirror(p, reply) =>
        Served(reply, [pair EXCEPT ![p].status = "Split"])
  BY <1>1 DEF CMD_splithymirror, Idempotent
<1>3. ASSUME NEW access, CMD_changeSlaveRw(p, access, reply)
      PROVE  Served(reply, [pair EXCEPT ![p].access = access])
  BY <1>1, <1>3 DEF CMD_changeSlaveRw, Idempotent
<1>4. CMD_synchymirror(p, reply) =>
        \/ pair' = pair
        \/ pair' = [pair EXCEPT ![p].status = "Synchronizing"]
  BY <1>1 DEF CMD_synchymirror, Idempotent
<1>5. ASSUME Addresses = 1, CMD_swaphymirror(p, reply)
      PROVE  Served(reply, [pair EXCEPT ![p].primary = Other(pair[p].primary)])
  <2>1. \A n \in Deliveries(reply) : n = 1 \/ (n = 0 /\ reply = "err")
    BY <1>5 DEF Deliveries
  <2>2. QED BY <1>5, <2>1 DEF CMD_swaphymirror
<1>6. QED BY <1>2, <1>3, <1>4, <1>5

(* A device step keeps the invariant if it does for the device it handles. *)
LEMMA StepSafe ==
  ASSUME TypeInv, SafetyInv, pc \in DeviceSteps,
         \/ \E step \in DeviceSteps : Continue(step)
         \/ \E result \in Result : Answer(result) \/ Abandon(result),
         \A d \in Device \ {cur} : pair'[d] = pair[d],
         PhaseInv(cur)', ReportInv(cur)', pc' # "next" => StepInv'
  PROVE  SafetyInv'
<1> USE DEF DeviceSteps, Step, TypeInv, TypeOK, ProcessTypeOK, AtDevice,
            planVars, SafetyInv
<1>1. /\ UNCHANGED <<cmd, cur, home, phase>> /\ todo' \subseteq todo
      /\ pc' \in DeviceSteps \cup {"next"}
      /\ \A d \in Device \ {cur} : report'[d] = report[d]
  BY DEF Continue, Answer, Abandon
<1>2. ASSUME NEW d \in Device \ {cur} PROVE PhaseInv(d)' /\ ReportInv(d)'
  BY <1>1, <1>2 DEF PhaseInv, ReportInv, SourceIsHome, Opened, Quiet
<1>3. QED BY <1>1, <1>2

(* The steps of reverseReplication preserve the invariant. *)
LEMMA ReverseSafe ==
  ASSUME TypeInv, SafetyInv, SingleDelivery, ReverseNext, ~ReversePick
  PROVE  SafetyInv'
<1> USE DEF At
<1>1. pc \in DeviceSteps
  BY DEF ReverseNext, ReverseShow, Swap, ReverseLock, DeviceSteps, Step
<1>2. /\ cur \in Device /\ cur \in Pair /\ phase[cur] = "reversing"
      /\ cmd = "reverse" /\ pair[cur] \in PairRecord
      /\ home[cur] \in Site
      /\ PhaseInv(cur) /\ ReportInv(cur) /\ StepInv
  BY <1>1, CurrentDevice DEF ReverseNext, ReverseShow, Swap, ReverseLock,
     SafetyInv, AtDevice, DeviceSteps, StepInv, ReportInv, UnderWay,
     TypeInv, TypeOK, PlanTypeOK
<1>3. CASE ReverseShow
  <2>1. pair' = pair
    BY <1>3 DEF ReverseShow, arrayVars
  <2>2. \/ \E step \in DeviceSteps : Continue(step)
        \/ \E result \in Result : Answer(result)
    BY <1>3 DEF ReverseShow, NothingToReverse, DeviceSteps, Step, Result
  <2>3. AlreadyReversed(pair[cur]) <=> SourceIsHome(cur)
    BY <1>2 DEF AlreadyReversed, RunsAt, SourceIsHome, PhaseInv, Opened,
       Quiet,
       Replicating
  <2>4. PhaseInv(cur)' /\ ReportInv(cur)' /\ (pc' # "next" => StepInv')
    BY <1>2, <1>3, <2>1, <2>3 DEF ReverseShow, NothingToReverse, Continue,
       Answer, planVars, PhaseInv, ReportInv, StepInv, SourceIsHome, Opened,
       Quiet, TypeInv, TypeOK, ProcessTypeOK
  <2>5. QED BY <1>1, <2>1, <2>2, <2>4, StepSafe
<1>4. CASE Swap
  <2>1. PICK reply \in Reply : CMD_swaphymirror(cur, reply) /\ Swapped(reply)
    BY <1>4, OutcomeReply DEF Swap
  <2>2. Served(reply, [pair EXCEPT ![cur].primary = Other(pair[cur].primary)])
    BY <1>2, <2>1, RequestEffect DEF SingleDelivery, SafetyInv
  <2>3. \/ \E step \in DeviceSteps : Continue(step)
        \/ \E result \in Result : Answer(result)
    BY <2>1 DEF Swapped, DeviceSteps, Step, Result
  <2>4. PhaseInv(cur)' /\ ReportInv(cur)' /\ (pc' # "next" => StepInv')
    <3>1. ~SourceIsHome(cur) /\ Opened(cur)
      BY <1>2, <1>4 DEF Swap, StepInv, PhaseInv
    <3>2. \/ reply = "err" /\ pair' = pair
          \/ pair'[cur].primary = home[cur]
      BY <1>2, <2>2, <3>1 DEF Served, SourceIsHome, Other, Site, PairRecord,
         TypeInv, TypeOK, ArrayTypeOK
    <3>3. QED
      BY <1>2, <2>1, <3>1, <3>2 DEF Swapped, Continue, Answer, planVars,
         PhaseInv, ReportInv, StepInv, SourceIsHome, Opened, Quiet, TypeInv,
         TypeOK, ProcessTypeOK
  <2>5. \A d \in Device \ {cur} : pair'[d] = pair[d]
    BY <1>2, <2>2 DEF Served, Pair, TypeInv, TypeOK, ArrayTypeOK
  <2>6. QED BY <1>1, <2>3, <2>4, <2>5, StepSafe
<1>5. CASE ReverseLock
  <2>1. PICK reply \in Reply :
          /\ CMD_changeSlaveRw(cur, "RO", reply)
          /\ Answer(IF reply = "ok" THEN "ok" ELSE "silent")
    BY <1>5, OutcomeReply DEF ReverseLock
  <2>2. Served(reply, [pair EXCEPT ![cur].access = "RO"])
    BY <1>2, <2>1, RequestEffect
  <2>3. \E result \in Result : Answer(result)
    BY <2>1 DEF Result
  <2>4. PhaseInv(cur)' /\ ReportInv(cur)' /\ pc' = "next"
    <3>1. SourceIsHome(cur) /\ pair'[cur].primary = pair[cur].primary
      BY <1>2, <1>5, <2>2 DEF ReverseLock, StepInv, Served, PairRecord,
         TypeInv,
         TypeOK, ArrayTypeOK
    <3>2. QED
      BY <1>2, <2>1, <3>1 DEF Answer, planVars, PhaseInv, ReportInv, UnderWay,
         SourceIsHome, TypeInv, TypeOK, ProcessTypeOK
  <2>5. \A d \in Device \ {cur} : pair'[d] = pair[d]
    BY <1>2, <2>2 DEF Served, Pair, TypeInv, TypeOK, ArrayTypeOK
  <2>6. QED BY <1>1, <2>3, <2>4, <2>5, StepSafe
<1>6. QED BY <1>3, <1>4, <1>5 DEF ReverseNext

(* restoreReplication and syncOnce change neither the direction of a pair   *)
(* nor anything else the invariant speaks of in their phases.               *)
LEMMA ResyncingSafe ==
  ASSUME TypeInv, SafetyInv, SingleDelivery,
         RestoreNext \/ SyncNext, ~RestorePick, ~SyncPick
  PROVE  SafetyInv'
<1> USE DEF At
<1>1. pc \in DeviceSteps /\ cmd \in {"restore", "sync"}
  BY DEF RestoreNext, RestoreShow, RestoreLock, Resync, SyncNext, SyncShow,
     Inquire, StartSync, DeviceSteps, Step
<1>2. /\ cur \in Device /\ cur \in Pair /\ report[cur] # "absent"
      /\ PhaseInv(cur) /\ ReportInv(cur) /\ pair[cur] \in PairRecord
      /\ phase[cur] = UnderWay[cmd]
  BY <1>1, CurrentDevice DEF SafetyInv, AtDevice, DeviceSteps, StepInv,
     ReportInv
<1>3. \/ pair' = pair
      \/ \E access : Served("err", [pair EXCEPT ![cur].access = access])
      \/ pair' = [pair EXCEPT ![cur].status = "Synchronizing"]
  <2>1. CASE RestoreShow \/ SyncShow \/ Inquire
    BY <2>1 DEF RestoreShow, SyncShow, Inquire, arrayVars
  <2>2. CASE RestoreLock
    BY <1>2, <2>2, OutcomeReply, RequestEffect DEF RestoreLock, Served
  <2>3. CASE Resync \/ StartSync
    BY <1>2, <2>3, SyncOutcomeReply, RequestEffect DEF Resync, StartSync
  <2>4. QED BY <2>1, <2>2, <2>3 DEF RestoreNext, SyncNext
<1>4. /\ pair'[cur].primary = pair[cur].primary
      /\ \A d \in Device \ {cur} : pair'[d] = pair[d]
  BY <1>2, <1>3 DEF Served, Pair, PairRecord, TypeInv, TypeOK, ArrayTypeOK
<1>5. \/ \E step \in DeviceSteps : Continue(step)
      \/ \E result \in Result \ {"absent"} : Answer(result)
  BY SyncOutcomeReply DEF RestoreNext, RestoreShow, RestoreLock, Locked,
     Resync, SyncNext, SyncShow, Inquire, StartSync, DeviceSteps, Step,
     Result,
     Reply
<1>6. PhaseInv(cur)' /\ ReportInv(cur)' /\ StepInv'
  <2>1. /\ cur' = cur /\ cmd' = cmd /\ home' = home /\ phase' = phase
        /\ todo' = todo /\ report'[cur] # "absent"
    BY <1>2, <1>5 DEF Continue, Answer, planVars, TypeInv, TypeOK,
       ProcessTypeOK
  <2>2. QED
    BY <1>1, <1>2, <1>4, <2>1 DEF PhaseInv, ReportInv, StepInv, SourceIsHome,
       UnderWay
<1>7. QED BY <1>1, <1>4, <1>5, <1>6, StepSafe

(* In failover no step turns a pair round or touches another device, so    *)
(* what is left to show of one is where it goes and what it records.       *)
LEMMA FailOverFrame ==
  ASSUME TypeInv, SafetyInv, cmd = "failover", pc \in DeviceSteps,
         \/ \E step \in DeviceSteps : Continue(step)
         \/ \E result \in Result \ {"absent"} : Answer(result) \/ Abandon(result),
         \A d \in Device \ {cur} : pair'[d] = pair[d],
         pair'[cur].primary = pair[cur].primary,
         report'[cur] = "ok" => Opened(cur)',
         pc' \in {"sparse", "suspend"} =>
           /\ local'.seen.status \in Suspended => Quiet(cur)'
           /\ local'.seen.access = "RW" => pair'[cur].access = "RW",
         pc' = "activate" => Quiet(cur)',
         pc' \in {"publish", "unshare", "reshare"} => Opened(cur)',
         pc' = "remap" /\ local'.ret = "ok" => Opened(cur)'
  PROVE  SafetyInv'
<1>1. /\ cur \in Device /\ report[cur] # "absent" /\ pc # "idle"
      /\ PhaseInv(cur) /\ ReportInv(cur) /\ phase[cur] = "failingOver"
  BY CurrentDevice DEF SafetyInv, AtDevice, DeviceSteps, StepInv,
     ReportInv, UnderWay
<1>2. /\ cur' = cur /\ cmd' = cmd /\ home' = home /\ phase' = phase
      /\ todo' \subseteq todo /\ report'[cur] # "absent"
  BY <1>1 DEF Continue, Answer, Abandon, planVars, TypeInv, TypeOK,
     ProcessTypeOK
<1>3. PhaseInv(cur)' /\ ReportInv(cur)'
  BY <1>1, <1>2 DEF PhaseInv, ReportInv, SourceIsHome, UnderWay
<1>4. StepInv'
  BY <1>1, <1>2 DEF StepInv
<1>5. QED BY <1>3, <1>4, StepSafe

(* Wherever _exec_hymirror_failover_out is left with success, the pair is  *)
(* writable at the recovery site and no longer replicates.                 *)
LEMMA ExecutedSafe ==
  ASSUME TypeInv, SafetyInv, cmd = "failover", pc \in DeviceSteps,
         \A d \in Device \ {cur} : pair'[d] = pair[d],
         pair'[cur].primary = pair[cur].primary,
         Opened(cur) => Opened(cur)',
         NEW reply \in Reply, Executed(reply),
         reply = "ok" => Opened(cur)'
  PROVE  SafetyInv'
<1>1. cur \in Device /\ ReportInv(cur) /\ pc # "idle"
  BY CurrentDevice DEF SafetyInv, DeviceSteps
<1>2. CASE Fusion
  <2>1. Continue("remap") /\ local' = [local EXCEPT !.ret = reply]
    BY <1>2 DEF Executed
  <2>2. local'.ret = reply /\ report' = report /\ pc' = "remap"
    BY <2>1 DEF Continue, TypeInv, TypeOK, ProcessTypeOK, LocalRecord
  <2>3. report[cur] = "ok" => Opened(cur)
    BY <1>1 DEF ReportInv
  <2>4. \E step \in DeviceSteps : Continue(step)
    BY <2>1 DEF DeviceSteps, Step
  <2>5. report'[cur] = "ok" => Opened(cur)'
    BY <2>2, <2>3
  <2>6. QED BY <2>2, <2>4, <2>5, FailOverFrame
<1>3. CASE ~Fusion /\ reply = "ok"
  <2>1. Continue("publish") /\ Opened(cur)'
    BY <1>3 DEF Executed
  <2>2. \E step \in DeviceSteps : Continue(step)
    BY <2>1 DEF DeviceSteps, Step
  <2>3. pc' = "publish"
    BY <2>1 DEF Continue
  <2>4. QED BY <2>1, <2>2, <2>3, FailOverFrame
<1>4. CASE ~Fusion /\ reply = "err"
  <2>1. Answer("err")
    BY <1>4 DEF Executed
  <2>2. pc' = "next" /\ report'[cur] = "err"
    BY <1>1, <2>1 DEF Answer, TypeInv, TypeOK, ProcessTypeOK
  <2>3. \E result \in Result \ {"absent"} : Answer(result)
    BY <2>1 DEF Result
  <2>4. QED BY <2>2, <2>3, FailOverFrame
<1>5. QED BY <1>2, <1>3, <1>4 DEF Reply

(* The steps of failover preserve the invariant. *)
LEMMA FailOverSafe ==
  ASSUME TypeInv, SafetyInv, SingleDelivery, FailOverNext, ~FailOverPick
  PROVE  SafetyInv'
<1> USE DEF At
<1>1. pc \in DeviceSteps /\ cmd = "failover"
  BY DEF FailOverNext, Classify, Expose, FailOverShow, Sparse,
     AlreadyPromoted,
     AlreadySuspended, Suspend, Activate, Remap, Identify, AddShare,
     FindShare, Unshare, AddShareAgain, DeviceSteps, Step
<1>2. /\ cur \in Device /\ cur \in Pair /\ pair[cur] \in PairRecord
      /\ StepInv /\ ReportInv(cur) /\ local \in LocalRecord
      /\ report[cur] = "ok" => Opened(cur)
  BY <1>1, CurrentDevice DEF SafetyInv, AtDevice, DeviceSteps, ReportInv,
     TypeInv, TypeOK, ProcessTypeOK
<1>c. \A step \in DeviceSteps : Continue(step) =>
        pc' = step /\ cur' = cur /\ report' = report
  BY DEF Continue
<1>d. \A result \in Result : Answer(result) \/ Abandon(result) =>
        pc' = "next" /\ cur' = cur /\ report'[cur] = result
  BY <1>2 DEF Answer, Abandon, TypeInv, TypeOK, ProcessTypeOK
<1>e. pair' = pair /\ cur' = cur => (Opened(cur)' <=> Opened(cur))
  BY DEF Opened, Quiet
<1>f. ASSUME pair' = pair, NEW reply \in Reply, Executed(reply),
             reply = "ok" => Opened(cur)
      PROVE  SafetyInv'
  <2>1. cur' = cur
    BY <1>f DEF Executed, Continue, Answer
  <2>2. QED BY <1>1, <1>e, <1>f, <2>1, ExecutedSafe
<1>3. CASE Classify
  <2>1. pair' = pair
    BY <1>3 DEF Classify, arrayVars
  <2>2. PICK step \in {"show", "expose"} : Continue(step)
    BY <1>3 DEF Classify
  <2>3. step \in DeviceSteps
    BY DEF DeviceSteps, Step
  <2>4. QED BY <1>1, <1>2, <1>c, <1>e, <2>1, <2>2, <2>3, FailOverFrame
<1>4. CASE Expose
  <2>1. pair' = pair
    BY <1>4 DEF Expose
  <2>2. CASE Continue("show")
    BY <1>1, <1>2, <1>c, <1>e, <2>1, <2>2, FailOverFrame DEF DeviceSteps, Step
  <2>3. CASE Abandon("err")
    BY <1>1, <1>2, <1>d, <2>1, <2>3, FailOverFrame DEF Result
  <2>4. QED BY <1>4, <2>2, <2>3 DEF Expose, Exposed
<1>5. CASE FailOverShow
  <2>1. pair' = pair
    BY <1>5 DEF FailOverShow, arrayVars
  <2>2. CASE Executed("err")
    BY <1>f, <2>1, <2>2 DEF Reply
  <2>3. CASE ~Executed("err")
    <3>1. local'.seen = pair[cur]
      BY <1>2, <1>5, <2>3 DEF FailOverShow, LocalRecord
    <3>2. PICK step \in {"sparse", "suspend"} : Continue(step)
      BY <1>5, <2>3 DEF FailOverShow
    <3>3. step \in DeviceSteps
      BY DEF DeviceSteps, Step
    <3>4. pair[cur].status \in Suspended => Quiet(cur)
      BY DEF Quiet, Suspended, Replicating
    <3>5. cur' = cur /\ pc' = step /\ report' = report
      BY <1>c, <3>2, <3>3
    <3>6. Quiet(cur) => Quiet(cur)'
      BY <2>1, <3>5 DEF Quiet
    <3>7. QED
      BY <1>1, <1>2, <1>e, <2>1, <3>1, <3>2, <3>3, <3>4, <3>5, <3>6,
         FailOverFrame
  <2>4. QED BY <2>2, <2>3
<1>6. CASE Sparse
  <2>1. /\ pc = "sparse"
        /\ local.seen.status \in Suspended => Quiet(cur)
        /\ local.seen.access = "RW" => pair[cur].access = "RW"
    BY <1>1, <1>2, <1>6 DEF Sparse, StepInv
  <2>2. \A d \in Device : pair'[d] = pair[d]
    <3>1. \A p \in local.rest : p \in Pair /\ p \notin Device
      BY <1>2, DeviceAssumption DEF LocalRecord, Pair
    <3>2. CASE pair' = pair
      BY <3>2
    <3>3. CASE pair' # pair
      <4>1. PICK p \in local.rest, reply \in Reply : CMD_changeSlaveRw(p, "RW", reply)
        BY <1>6, <3>3 DEF Sparse, Reply
      <4>2. Served(reply, [pair EXCEPT ![p].access = "RW"])
        BY <3>1, <4>1, RequestEffect
      <4>3. QED BY <3>1, <4>2 DEF Served, TypeInv, TypeOK, ArrayTypeOK, Pair
    <3>4. QED BY <3>2, <3>3
  <2>3. cur' = cur => /\ Opened(cur)' <=> Opened(cur)
                      /\ Quiet(cur)' <=> Quiet(cur)
    BY <1>2, <2>2 DEF Opened, Quiet
  <2>4. CASE Executed("err")
    <3>1. cur' = cur
      BY <2>4 DEF Executed, Continue, Answer
    <3>2. QED BY <1>1, <1>2, <2>2, <2>3, <2>4, <3>1, ExecutedSafe DEF Reply
  <2>5. CASE ~Executed("err")
    <3>1. PICK step \in {"sparse", "suspend"} : Continue(step)
      BY <1>6, <2>5 DEF Sparse
    <3>2. step \in DeviceSteps
      BY DEF DeviceSteps, Step
    <3>3. local'.seen = local.seen
      BY <1>2, <1>6, <2>5 DEF Sparse, LocalRecord
    <3>4. cur' = cur /\ pc' = step /\ report' = report
      BY <1>c, <3>1, <3>2
    <3>5. QED
      BY <1>1, <1>2, <2>1, <2>2, <2>3, <3>1, <3>2, <3>3, <3>4, FailOverFrame
  <2>6. QED BY <2>4, <2>5
<1>7. CASE AlreadyPromoted
  <2>1. pair' = pair /\ Executed("ok")
    BY <1>7 DEF AlreadyPromoted, arrayVars
  <2>2. Opened(cur)
    BY <1>1, <1>2, <1>7 DEF AlreadyPromoted, StepInv, Opened
  <2>3. QED BY <1>f, <2>1, <2>2 DEF Reply
<1>8. CASE AlreadySuspended
  <2>1. pair' = pair /\ Continue("activate")
    BY <1>8 DEF AlreadySuspended, arrayVars
  <2>2. Quiet(cur)
    BY <1>1, <1>2, <1>8 DEF AlreadySuspended, StepInv
  <2>3. cur' = cur /\ pc' = "activate" /\ report' = report /\ Quiet(cur)'
    BY <2>1, <2>2 DEF Continue, Quiet
  <2>4. QED
    BY <1>1, <1>2, <1>e, <2>1, <2>3, FailOverFrame DEF DeviceSteps, Step
<1>9. CASE Suspend
  <2>1. PICK reply \in Reply : CMD_splithymirror(cur, reply) /\ SplitDone(reply)
    BY <1>9, OutcomeReply DEF Suspend
  <2>2. Served(reply, [pair EXCEPT ![cur].status = "Split"])
    BY <1>2, <2>1, RequestEffect
  <2>3. cur' = cur
    BY <2>1 DEF SplitDone, Executed, Continue, Answer
  <2>4. /\ \A d \in Device \ {cur} : pair'[d] = pair[d]
        /\ pair'[cur].primary = pair[cur].primary
        /\ Opened(cur) => Opened(cur)'
        /\ reply = "ok" => Quiet(cur)'
    BY <1>2, <2>2, <2>3 DEF Served, Opened, Quiet, Replicating, TypeInv,
       TypeOK, ArrayTypeOK, PairRecord, Pair, Reply
  <2>5. CASE reply = "err"
    BY <1>1, <2>1, <2>4, <2>5, ExecutedSafe DEF SplitDone
  <2>6. CASE reply = "ok"
    <3>1. Continue("activate")
      BY <2>1, <2>6 DEF SplitDone
    <3>2. pc' = "activate" /\ report' = report
      BY <3>1 DEF Continue
    <3>3. QED
      BY <1>1, <1>2, <2>4, <2>6, <3>1, <3>2, FailOverFrame
         DEF DeviceSteps, Step
  <2>7. QED BY <2>5, <2>6 DEF Reply
<1>10. CASE Activate
  <2>1. PICK reply \in Reply :
          CMD_changeSlaveRw(cur, "RW", reply) /\ Executed(reply)
    BY <1>10, OutcomeReply DEF Activate
  <2>2. Served(reply, [pair EXCEPT ![cur].access = "RW"])
    BY <1>2, <2>1, RequestEffect
  <2>3. cur' = cur /\ Quiet(cur)
    BY <1>1, <1>2, <1>10, <2>1 DEF Activate, StepInv, Executed, Continue,
       Answer
  <2>4. /\ \A d \in Device \ {cur} : pair'[d] = pair[d]
        /\ pair'[cur].primary = pair[cur].primary
        /\ Opened(cur) => Opened(cur)'
        /\ reply = "ok" => Opened(cur)'
    BY <1>2, <2>2, <2>3 DEF Served, Opened, Quiet, TypeInv, TypeOK,
       ArrayTypeOK, PairRecord, Pair, Reply
  <2>5. QED BY <1>1, <2>1, <2>4, ExecutedSafe
<1>11. CASE Remap
  <2>1. pair' = pair
    BY <1>11 DEF Remap
  <2>2. PICK reply \in Reply : Remapped(reply)
    BY <1>11, OutcomeReply DEF Remap, Reply
  <2>3. CASE reply = "ok" /\ local.ret = "ok"
    <3>1. Continue("publish") /\ Opened(cur)
      BY <1>1, <1>2, <1>11, <2>2, <2>3 DEF Remap, Remapped, StepInv
    <3>2. QED
      BY <1>1, <1>2, <1>c, <1>e, <2>1, <3>1, FailOverFrame
         DEF DeviceSteps, Step
  <2>4. CASE ~(reply = "ok" /\ local.ret = "ok")
    <3>1. Answer("err") \/ Abandon("err")
      BY <1>2, <2>2, <2>4 DEF Remapped, LocalRecord, Reply
    <3>2. QED BY <1>1, <1>2, <1>d, <2>1, <3>1, FailOverFrame DEF Result
  <2>5. QED BY <2>3, <2>4
<1>12. CASE Identify \/ AddShare \/ FindShare \/ Unshare \/ AddShareAgain
  <2>1. pair' = pair /\ Opened(cur)
    BY <1>1, <1>2, <1>12 DEF Identify, AddShare, FindShare, Unshare,
       AddShareAgain,
       arrayVars, StepInv
  <2>2. \/ \E step \in {"unshare", "reshare"} : Continue(step)
        \/ \E result \in Reply : Answer(result)
    BY <1>12, OutcomeReply DEF Identify, AddShare, FindShare, Unshare,
       AddShareAgain,
       Reply
  <2>3. ASSUME NEW step \in {"unshare", "reshare"}, Continue(step)
        PROVE  SafetyInv'
    BY <1>1, <1>2, <1>c, <1>e, <2>1, <2>3, FailOverFrame DEF DeviceSteps, Step
  <2>4. ASSUME NEW result \in Reply, Answer(result) PROVE SafetyInv'
    BY <1>1, <1>2, <1>d, <1>e, <2>1, <2>4, FailOverFrame DEF Result, Reply
  <2>5. QED BY <2>2, <2>3, <2>4
<1>13. QED
  BY <1>3, <1>4, <1>5, <1>6, <1>7, <1>8, <1>9, <1>10, <1>11, <1>12
     DEF FailOverNext

(* Picking the next device preserves the invariant. *)
LEMMA PickSafe ==
  ASSUME TypeInv, SafetyInv, NEW c \in Command,
         NEW step \in {"classify", "show"}, PickDevice(c, step)
  PROVE  SafetyInv'
<1>1. /\ pair' = pair /\ home' = home /\ phase' = phase /\ cmd' = cmd
      /\ report' = report /\ cur' \in todo /\ todo' \subseteq todo
      /\ todo \subseteq Device /\ pc' = step
  BY DEF PickDevice, arrayVars, planVars, TypeInv, TypeOK, ProcessTypeOK
<1>2. \A d \in Device : PhaseInv(d) /\ ReportInv(d)
  BY DEF PickDevice, At, SafetyInv
<1>3. \A d \in Device : PhaseInv(d)' /\ ReportInv(d)'
  BY <1>1, <1>2 DEF PhaseInv, ReportInv, SourceIsHome, Opened, Quiet
<1>4. report'[cur'] # "absent"
  BY <1>1, <1>2 DEF ReportInv
<1>5. StepInv'
  BY <1>1, <1>4 DEF StepInv
<1>6. QED BY <1>1, <1>3, <1>5 DEF SafetyInv

(* The arrays by themselves turn no pair round and, where recovery is left *)
(* to the operator, resume none.                                           *)
LEMMA ArrayStepSafe ==
  ASSUME TypeInv, SafetyInv, ManualRecovery, ArrayStep
  PROVE  SafetyInv'
<1>1. \A d \in Device : /\ pair'[d].primary = pair[d].primary
                        /\ pair'[d].access = pair[d].access
                        /\ Quiet(d) => Quiet(d)'
  <2>1. PICK p \in Pair : \/ SyncCompletes(p) \/ PeriodicSync(p) \/ Recovers(p)
                          \/ LinkBreaks(p)    \/ LinkHeals(p)
    BY DEF ArrayStep, Background
  <2>2. PICK from \in SUBSET Status, to \in Status :
               /\ StatusChange(p, from, to)
               /\ p \notin AutoRecovery /\ to \in Replicating =>
                    from \subseteq Replicating
    BY <2>1 DEF SyncCompletes, PeriodicSync, Recovers, LinkBreaks, LinkHeals,
       Replicating, Status
  <2>3. p \in Device => p \notin AutoRecovery
    BY DEF ManualRecovery
  <2>4. QED
    BY <2>2, <2>3 DEF StatusChange, Quiet, Pair, PairRecord, TypeInv, TypeOK,
       ArrayTypeOK
<1>2. UNCHANGED <<home, phase, cmd, todo, pc, cur, local, report>>
  BY DEF ArrayStep, planVars, procVars
<1>3. \A d \in Device : /\ SourceIsHome(d)' <=> SourceIsHome(d)
                        /\ Opened(d) => Opened(d)'
  BY <1>1, <1>2 DEF SourceIsHome, Opened
<1>4. \A d \in Device : PhaseInv(d) => PhaseInv(d)'
  BY <1>2, <1>3 DEF PhaseInv
<1>5. \A d \in Device : ReportInv(d) => ReportInv(d)'
  BY <1>2, <1>3 DEF ReportInv
<1>6. AtDevice => cur \in Device
  BY CurrentDevice DEF AtDevice, DeviceSteps, TypeInv, TypeOK, ProcessTypeOK
<1>7. AtDevice /\ StepInv => StepInv'
  BY <1>1, <1>2, <1>3, <1>6 DEF StepInv
<1>8. QED BY <1>2, <1>4, <1>5, <1>7 DEF SafetyInv, AtDevice

(* SRM's side: what a command finds when it starts and what its report     *)
(* makes of the phase of a device.                                         *)
LEMMA FrameStepsSafe ==
  ASSUME TypeInv, SafetyInv, Start \/ Preamble \/ Finish \/ Crash \/ Stabilize
  PROVE  SafetyInv'
<1>1. pair' = pair
  BY DEF Start, Begin, Preamble, Finish, Crash, Stabilize, arrayVars
<1>2. CASE Start
  <2>1. PICK c \in Command, D \in SUBSET Device : Begin(c, D)
    BY <1>2, CommandAssumption DEF Start
  <2>2. pc' = "preamble" /\ home' = home /\ cmd' \in Commands
    BY <2>1 DEF Begin
  <2>3. ASSUME NEW d \in Device PROVE PhaseInv(d)' /\ ReportInv(d)'
    BY <1>1, <2>1, <2>2, CommandAssumption DEF Begin, StartsIn, UnderWay,
       Command, SafetyInv, PhaseInv, ReportInv, SourceIsHome, Opened, Quiet
  <2>4. QED BY <2>2, <2>3 DEF SafetyInv, AtDevice
<1>3. CASE Finish
  <2>1. pc' = "idle" /\ cmd' = "none" /\ cmd \in Command
    BY <1>3 DEF Finish, Vanish, TypeInv, ProcessInv
  <2>2. ASSUME NEW d \in Device PROVE PhaseInv(d)'
    <3>1. PhaseInv(d) /\ ReportInv(d) /\ home[d] \in Site
          /\ pair[d] \in PairRecord
      BY <1>3 DEF Finish, SafetyInv, TypeInv, TypeOK, PlanTypeOK, ArrayTypeOK,
         Pair
    <3>2. CASE report[d] # "ok"
      BY <1>1, <1>3, <3>1, <3>2 DEF Finish, PhaseInv, SourceIsHome, Opened,
         Quiet
    <3>3. CASE report[d] = "ok"
      <4>1. /\ phase[d] = UnderWay[cmd] /\ phase'[d] = Reached[cmd]
            /\ home'[d] = IF cmd \in {"failover", "restore"}
                            THEN Other(home[d]) ELSE home[d]
        BY <1>3, <3>1, <3>3 DEF Finish, ReportInv
      <4>2. pair[d].primary \in Site
        BY <3>1 DEF PairRecord
      <4>3. QED
        BY <1>1, <2>1, <3>1, <3>3, <4>1, <4>2 DEF PhaseInv, ReportInv,
           SourceIsHome, Opened, Quiet, UnderWay, Reached, Other, Site,
           Command
    <3>4. QED BY <3>2, <3>3
  <2>3. QED BY <2>1, <2>2 DEF SafetyInv, AtDevice
<1>4. CASE Preamble \/ Crash \/ Stabilize
  <2>1. home' = home /\ phase' = phase
    BY <1>4 DEF Preamble, Crash, Stabilize, planVars
  <2>2. \A d \in Device : PhaseInv(d)'
    BY <1>1, <2>1 DEF SafetyInv, PhaseInv, SourceIsHome, Opened, Quiet
  <2>3. CASE Vanish
    BY <2>2, <2>3 DEF Vanish, SafetyInv, AtDevice
  <2>4. CASE Preamble /\ ~Vanish
    BY <1>1, <2>1, <2>2, <2>4 DEF Preamble, SafetyInv, AtDevice, ReportInv,
       SourceIsHome, Opened, Quiet
  <2>5. CASE Stabilize
    BY <1>1, <2>1, <2>2, <2>5 DEF Stabilize, procVars, SafetyInv, AtDevice,
       ReportInv, StepInv, SourceIsHome, Opened, Quiet
  <2>6. QED BY <1>4, <2>3, <2>4, <2>5 DEF Crash
<1>5. QED BY <1>2, <1>3, <1>4

(* In every state: what the process knows and what SRM has been told is    *)
(* true of the pair, through crashes, reruns and half-done runs.           *)
THEOREM SafetyInvariant ==
  ASSUME SingleDelivery, ManualRecovery
  PROVE  Spec => [](TypeInv /\ SafetyInv)
<1>1. Init => TypeInv /\ SafetyInv
  BY InitType DEF Init, ArrayInit, CommandInit, SafetyInv, AtDevice, PhaseInv,
     SourceIsHome, Pair
<1>2. TypeInv /\ SafetyInv /\ [Next]_vars => TypeInv' /\ SafetyInv'
  <2> SUFFICES ASSUME TypeInv, SafetyInv, [Next]_vars
               PROVE  TypeInv' /\ SafetyInv'
    OBVIOUS
  <2>1. TypeInv'
    BY NextType
  <2>2. CASE FailOverNext
    BY <2>1, <2>2, FailOverSafe, PickSafe DEF FailOverPick, Command
  <2>3. CASE ReverseNext
    BY <2>1, <2>3, ReverseSafe, PickSafe DEF ReversePick, Command
  <2>4. CASE RestoreNext \/ SyncNext
    BY <2>1, <2>4, ResyncingSafe, PickSafe DEF RestorePick, SyncPick, Command
  <2>5. CASE Start \/ Preamble \/ Finish \/ Crash \/ Stabilize
    BY <2>1, <2>5, FrameStepsSafe
  <2>6. CASE ArrayStep
    BY <2>1, <2>6, ArrayStepSafe
  <2>7. CASE UNCHANGED vars
    BY <2>1, <2>7 DEF vars, arrayVars, planVars, procVars, SafetyInv,
       AtDevice,
       PhaseInv, ReportInv, StepInv, SourceIsHome, Opened, Quiet
  <2>8. QED BY <2>1, <2>2, <2>3, <2>4, <2>5, <2>6, <2>7 DEF Next, ProcessStep
<1>3. QED BY <1>1, <1>2, PTL DEF Spec

(* From the moment a failover is reported until a restore is asked for,    *)
(* the hosts at the site SRM takes for production can write.               *)
THEOREM ProductionWritable ==
  ASSUME SingleDelivery, ManualRecovery
  PROVE  Spec => []ProductionStaysWritable
<1>1. TypeInv /\ SafetyInv => ProductionStaysWritable
  <2> SUFFICES ASSUME TypeInv, SafetyInv, NEW d \in Device,
                      phase[d] # "restoring"
               PROVE  home[d] \in WritableAt(d)
    BY DEF ProductionStaysWritable
  <2>1. /\ PhaseInv(d) /\ phase[d] \in Phase
        /\ home[d] \in Site /\ pair[d].primary \in Site
    BY DEF SafetyInv, TypeInv, TypeOK, PlanTypeOK, ArrayTypeOK, PairRecord,
       Pair
  <2>2. QED
    BY <2>1 DEF PhaseInv, SourceIsHome, Opened, WritableAt, Other, Site, Phase
<1>2. QED BY <1>1, SafetyInvariant, PTL

(* A device SRM takes for protected replicates from its production site.   *)
THEOREM ProtectedRunsFromProduction ==
  ASSUME SingleDelivery, ManualRecovery
  PROVE  Spec => []ProtectedFromProduction
<1>1. TypeInv /\ SafetyInv => ProtectedFromProduction
  BY DEF ProtectedFromProduction, SafetyInv, PhaseInv, SourceIsHome
<1>2. QED BY <1>1, SafetyInvariant, PTL
----------------------------------------------------------------------------
(* Only the mapping of the device at hand is changed, and not where it is   *)
(* in production.                                                           *)
LEMMA MappingChange ==
  ASSUME TypeInv, NEW reply, NEW present, cur \in Device,
         \/ /\ Mapping(cur, Other(home[cur]), reply, present)
            /\ misled' \in {misled, misled \ {<<cur, Other(home[cur])>>}}
         \/ FalseOk(cur, Other(home[cur])) /\ Fusion
  PROVE  /\ \A d \in Device : \A site \in Site :
              d # cur \/ site = home[cur] =>
                (MappedAt(d, site)' <=> MappedAt(d, site))
         /\ reply # "err" /\ present =>
              \/ <<cur, Other(home[cur])>> \in mapped'
              \/ Fusion /\ <<cur, Other(home[cur])>> \in misled'
<1>1. home[cur] \in Site /\ Other(home[cur]) # home[cur]
  BY DEF TypeInv, TypeOK, PlanTypeOK, Site, Other
<1>2. QED BY <1>1 DEF Mapping, FalseOk, MappedAt

(* A device is answered for in the step that ends its handling.            *)
LEMMA PendingStep ==
  ASSUME TypeInv, PendingInv, pc \in DeviceSteps,
         \/ \E step \in DeviceSteps : Continue(step)
         \/ \E result \in Result \ {"absent"} : Answer(result) \/ Abandon(result)
  PROVE  PendingInv'
BY DEF Continue, Answer, Abandon, PendingInv, AtDevice, DeviceSteps, Step,
   planVars,
   TypeInv, TypeOK, ProcessTypeOK

(* Every step of failover goes on, answers for the device or gives up.     *)
LEMMA FailOverFrames ==
  ASSUME TypeInv, FailOverNext, ~FailOverPick
  PROVE  /\ cmd = "failover" /\ pc \in DeviceSteps
         /\ \/ \E step \in DeviceSteps : Continue(step)
            \/ \E result \in Result \ {"absent"} : Answer(result) \/ Abandon(result)
<1> USE DEF At, DeviceSteps, Step, Result, Outcome, Reply
<1>a. local.ret \in Reply
  BY DEF TypeInv, TypeOK, ProcessTypeOK, LocalRecord
<1>1. CASE Classify
  BY <1>1 DEF Classify
<1>2. CASE Expose
  BY <1>2 DEF Expose, Exposed
<1>3. CASE FailOverShow
  BY <1>3 DEF FailOverShow, Executed
<1>4. CASE Sparse
  BY <1>4 DEF Sparse, Executed
<1>5. CASE AlreadyPromoted
  BY <1>5 DEF AlreadyPromoted, Executed
<1>6. CASE AlreadySuspended
  BY <1>6 DEF AlreadySuspended
<1>7. CASE Suspend
  BY <1>7 DEF Suspend, SplitDone, Executed
<1>8. CASE Activate
  BY <1>8 DEF Activate, Executed
<1>9. CASE Remap
  BY <1>9, <1>a DEF Remap, Remapped
<1>10. CASE Identify
  BY <1>10 DEF Identify
<1>11. CASE AddShare
  BY <1>11 DEF AddShare
<1>12. CASE FindShare
  BY <1>12 DEF FindShare
<1>13. CASE Unshare
  BY <1>13 DEF Unshare
<1>14. CASE AddShareAgain
  BY <1>14 DEF AddShareAgain
<1>15. QED
  BY <1>1, <1>2, <1>3, <1>4, <1>5, <1>6, <1>7, <1>8, <1>9, <1>10, <1>11,
     <1>12, <1>13, <1>14 DEF FailOverNext

(* So does every step of the other commands; they map nothing.             *)
LEMMA OtherFrames ==
  ASSUME TypeInv, ReverseNext \/ RestoreNext \/ SyncNext,
         ~ReversePick, ~RestorePick, ~SyncPick
  PROVE  /\ cmd \in {"reverse", "restore", "sync"}
         /\ pc \in DeviceSteps /\ UNCHANGED <<mapped, misled>>
         /\ \/ \E step \in DeviceSteps : Continue(step)
            \/ \E result \in Result \ {"absent"} : Answer(result) \/ Abandon(result)
BY DEF ReverseNext, ReverseShow, NothingToReverse, Swap, Swapped, ReverseLock,
  RestoreNext, RestoreShow, RestoreLock, Locked, Resync, SyncNext, SyncShow,
  Inquire, StartSync,
  SyncOutcome, At, DeviceSteps, Step, Result, Outcome, Reply, arrayVars

(* A step of failover keeps MappingInv if it does for the device handled.  *)
LEMMA StepMapped ==
  ASSUME TypeInv, MappingInv, cmd = "failover", pc \in DeviceSteps,
         \/ \E step \in DeviceSteps : Continue(step)
         \/ \E result \in Result \ {"absent"} : Answer(result) \/ Abandon(result),
         \A d \in Device : \A site \in Site :
           d # cur \/ site = home[cur] =>
             (MappedAt(d, site)' <=> MappedAt(d, site)),
         report'[cur] = "ok" => MappedThere(cur)',
         pc' # "next" =>
           /\ local'.isNFS => cur \in FS
           /\ pc' = "remap" => Fusion
           /\ pc' = "publish" => MappedThere(cur)'
           /\ ~Fusion /\ pc' \in {"show", "sparse", "suspend", "activate"} =>
                MappedThere(cur)'
           /\ pc' \in {"unshare", "reshare"} => cur \in FS
  PROVE  MappingInv'
<1>1. PendingInv'
  BY PendingStep DEF MappingInv
<1>2. /\ UNCHANGED <<cmd, cur, home, phase>>
      /\ \A d \in Device \ {cur} : report'[d] = report[d]
  BY DEF Continue, Answer, Abandon, planVars, TypeInv, TypeOK, ProcessTypeOK
<1>3. \A d \in Device : home[d] \in Site /\ Other(home[d]) \in Site
  BY DEF TypeInv, TypeOK, PlanTypeOK, Site, Other
<1>4. ProductionStaysMapped'
  BY <1>2, <1>3 DEF MappingInv, ProductionStaysMapped
<1>5. \A d \in Device \ {cur} : MappedThere(d)' <=> MappedThere(d)
  BY <1>2, <1>3 DEF MappedThere, MappedAt
<1>6. phase[cur] \notin {"promoted", "restoring"}
  BY DEF MappingInv, PendingInv, AtDevice, DeviceSteps, Step, UnderWay,
     TypeInv, TypeOK, ProcessTypeOK, ProcessInv
<1>7. QED
  BY <1>1, <1>2, <1>4, <1>5, <1>6 DEF MappingInv, AtDevice, DeviceSteps

(* The steps of failover: what is reported has been mapped. *)
LEMMA FailOverMapped ==
  ASSUME TypeInv, MappingInv, FailOverNext, ~FailOverPick
  PROVE  MappingInv'
<1> USE DEF At
<1>a. /\ cmd = "failover" /\ pc \in DeviceSteps
      /\ \/ \E step \in DeviceSteps : Continue(step)
         \/ \E result \in Result \ {"absent"} : Answer(result) \/ Abandon(result)
  BY FailOverFrames
<1>b. cur \in Device /\ local \in LocalRecord /\ local.ret \in Reply
      /\ RunsAt(cmd, cur) = Other(home[cur]) /\ report[cur] = "none"
      /\ AtDevice /\ report \in [Device -> Result] /\ UNCHANGED <<cur, home>>
  BY <1>a DEF TypeInv, TypeOK, ProcessTypeOK, ProcessInv, RunsAt, MappingInv,
              PendingInv, AtDevice, DeviceSteps, Step, LocalRecord, Continue,
              Answer, Abandon, planVars
<1>c. /\ local.isNFS => cur \in FS
      /\ pc = "remap" => Fusion
      /\ pc = "publish" => MappedThere(cur)
      /\ ~Fusion /\ pc \in {"show", "sparse", "suspend", "activate"} =>
           MappedThere(cur)
      /\ pc \in {"unshare", "reshare"} => cur \in FS
  BY <1>a, <1>b DEF MappingInv
<1>d. ASSUME UNCHANGED <<mapped, misled>>,
             report'[cur] = "ok" => MappedThere(cur),
             pc' # "next" =>
               /\ local'.isNFS => cur \in FS
               /\ pc' = "remap" => Fusion
               /\ pc' = "publish" => MappedThere(cur)
               /\ ~Fusion /\ pc' \in {"show", "sparse", "suspend", "activate"} =>
                    MappedThere(cur)
               /\ pc' \in {"unshare", "reshare"} => cur \in FS
      PROVE  MappingInv'
  <2>1. MappedThere(cur)' <=> MappedThere(cur)
    BY <1>b, <1>d DEF MappedThere, MappedAt
  <2>2. \A d \in Device : \A site \in Site : MappedAt(d, site)' <=> MappedAt(d, site)
    BY <1>d DEF MappedAt
  <2>3. QED BY <1>a, <1>d, <2>1, <2>2, StepMapped
<1>1. CASE Classify
  BY <1>1, <1>b, <1>c, <1>d DEF Classify, Continue, Answer, LocalRecord,
     arrayVars, Outcome, Reply, MappedThere, MappedAt
<1>2. CASE Expose
  <2>1. PICK reply \in Outcome : /\ Mapping(cur, Other(home[cur]), reply, ~Fusion)
                                 /\ Exposed(reply)
                                 /\ misled' = misled \ {<<cur, Other(home[cur])>>}
    BY <1>2, <1>b DEF Expose
  <2>2. reply # "err" /\ ~Fusion => MappedThere(cur)'
    BY <1>b, <2>1, MappingChange DEF MappedThere, MappedAt
  <2>3. /\ report'[cur] # "ok" /\ pc' \in {"next", "show"}
        /\ pc' = "show" => reply # "err"
    BY <1>b, <2>1 DEF Exposed, Continue, Abandon, Outcome, Reply
  <2>4. local' = local
    BY <1>2 DEF Expose
  <2>5. QED
    BY <1>a, <1>b, <1>c, <2>1, <2>2, <2>3, <2>4, MappingChange, StepMapped
<1>3. CASE FailOverShow
  BY <1>3, <1>b, <1>c, <1>d DEF FailOverShow, Executed, Continue, Answer,
     LocalRecord, arrayVars, Outcome, Reply, MappedThere, MappedAt
<1>4. CASE Sparse
  BY <1>4, <1>b, <1>c, <1>d DEF Sparse, Executed, Continue, Answer,
     LocalRecord, arrayVars, Outcome, Reply, MappedThere, MappedAt
<1>5. CASE AlreadyPromoted
  BY <1>5, <1>b, <1>c, <1>d DEF AlreadyPromoted, Executed, Continue, Answer,
     LocalRecord, arrayVars, Outcome, Reply, MappedThere, MappedAt
<1>6. CASE AlreadySuspended
  BY <1>6, <1>b, <1>c, <1>d DEF AlreadySuspended, Continue, Answer,
     LocalRecord, arrayVars, Outcome, Reply, MappedThere, MappedAt
<1>7. CASE Suspend
  BY <1>7, <1>b, <1>c, <1>d DEF Suspend, SplitDone, Executed, Continue,
     Answer, LocalRecord, arrayVars, Outcome, Reply, MappedThere, MappedAt
<1>8. CASE Activate
  BY <1>8, <1>b, <1>c, <1>d DEF Activate, Executed, Continue, Answer,
     LocalRecord, arrayVars, Outcome, Reply, MappedThere, MappedAt
<1>9. CASE Remap
  <2>0. Fusion
    BY <1>9, <1>c DEF Remap
  <2>1. PICK reply \in {"ok", "err"} :
          /\ \/ Mapping(cur, Other(home[cur]), reply, TRUE) /\ misled' = misled
             \/ FalseOk(cur, Other(home[cur]))
          /\ Remapped(reply)
    BY <1>9, <1>b DEF Remap, Outcome, Reply
  <2>2. reply # "err" => MappedThere(cur)'
    BY <1>b, <2>0, <2>1, MappingChange DEF MappedThere, MappedAt
  <2>3. /\ report'[cur] # "ok" /\ pc' \in {"next", "publish"}
        /\ pc' = "publish" => reply # "err"
    BY <1>b, <2>1 DEF Remapped, Continue, Abandon, Answer, Outcome, Reply
  <2>4. local' = local
    BY <1>9 DEF Remap
  <2>5. QED
    BY <1>a, <1>b, <1>c, <2>0, <2>1, <2>2, <2>3, <2>4, MappingChange, StepMapped
<1>10. CASE Identify
  BY <1>10, <1>b, <1>c, <1>d DEF Identify, Continue, Answer, LocalRecord,
     arrayVars, Outcome, Reply, MappedThere, MappedAt
<1>11. CASE AddShare
  BY <1>11, <1>b, <1>c, <1>d DEF AddShare, Share, Named, Continue, Answer,
     LocalRecord, arrayVars, Outcome, Reply, MappedThere, MappedAt
<1>12. CASE FindShare
  BY <1>12, <1>b, <1>c, <1>d DEF FindShare, Share, Named, Continue, Answer,
     LocalRecord, arrayVars, Outcome, Reply, MappedThere, MappedAt
<1>13. CASE Unshare
  BY <1>13, <1>b, <1>c, <1>d DEF Unshare, Share, Continue, Answer,
     LocalRecord, arrayVars, Outcome, Reply, MappedThere, MappedAt
<1>14. CASE AddShareAgain
  BY <1>14, <1>b, <1>c, <1>d DEF AddShareAgain, Share, Named, Continue,
     Answer, LocalRecord, arrayVars, Outcome, Reply, MappedThere, MappedAt
<1>15. QED
  BY <1>1, <1>2, <1>3, <1>4, <1>5, <1>6, <1>7, <1>8, <1>9, <1>10, <1>11,
     <1>12, <1>13, <1>14 DEF FailOverNext

(* The other commands map nothing.  They report only what failover has     *)
(* mapped before.                                                          *)
LEMMA OthersMapped ==
  ASSUME TypeInv, MappingInv, ReverseNext \/ RestoreNext \/ SyncNext,
         ~ReversePick, ~RestorePick, ~SyncPick
  PROVE  MappingInv'
<1>1. /\ PendingInv' /\ cmd' = cmd /\ cmd # "failover"
      /\ UNCHANGED <<mapped, misled, planVars>>
  BY OtherFrames, PendingStep DEF MappingInv, Continue, Answer, Abandon
<1>2. QED
  BY <1>1 DEF MappingInv, ProductionStaysMapped, MappedThere, planVars, MappedAt

(* A device is taken up as the commands before have left it mapped.        *)
LEMMA PickMapped ==
  ASSUME TypeInv, MappingInv, NEW c \in Command,
         NEW step \in {"classify", "show"}, PickDevice(c, step),
         c = "failover" => step = "classify"
  PROVE  MappingInv'
<1>1. /\ UNCHANGED <<mapped, misled, planVars, report, cmd>>
      /\ cmd = c /\ pc' = step /\ ~local'.isNFS
  BY DEF PickDevice, At, FreshLocal, arrayVars
<1>2. PendingInv'
  BY <1>1 DEF PickDevice, MappingInv, PendingInv, AtDevice, planVars
<1>3. QED
  BY <1>1, <1>2 DEF MappingInv, ProductionStaysMapped, MappedThere, planVars, MappedAt

(* The steps outside the device loop map nothing; Finish moves production  *)
(* to the site failover has mapped, and back to the one mapped before it.  *)
LEMMA FrameStepsMapped ==
  ASSUME TypeInv, MappingInv, Start \/ Preamble \/ Finish \/ Crash \/ Stabilize
  PROVE  MappingInv'
<1>1. UNCHANGED <<mapped, misled>>
  BY DEF Start, Begin, Preamble, Finish, Crash, Stabilize, arrayVars
<1>2. CASE Stabilize
  BY <1>2 DEF Stabilize, MappingInv, PendingInv, AtDevice,
     ProductionStaysMapped, MappedThere, planVars, MappedAt,
              procVars, arrayVars
<1>3. CASE Crash \/ (Preamble /\ Vanish)
  BY <1>1, <1>3 DEF Crash, Preamble, Vanish, MappingInv, PendingInv, AtDevice,
     ProductionStaysMapped, MappedThere, planVars, MappedAt
<1>4. CASE Preamble /\ ~Vanish
  BY <1>1, <1>4 DEF Preamble, MappingInv, PendingInv, AtDevice,
     ProductionStaysMapped, MappedThere, planVars, MappedAt
<1>5. CASE Start
  <2>1. PICK c \in Commands, D \in SUBSET Device : Begin(c, D)
    BY <1>5 DEF Start
  <2>2. c \in Command
    BY CommandAssumption
  <2>3. PendingInv'
    BY <2>1 DEF Begin, PendingInv, AtDevice, TypeInv, TypeOK, ProcessTypeOK
  <2>4. \A d \in Device : phase'[d] \in {"promoted", "restoring"} =>
                            phase[d] \in {"promoted", "restoring"}
    BY <2>1, <2>2 DEF Begin, StartsIn, UnderWay, Command
  <2>5. QED
    BY <1>1, <2>1, <2>3, <2>4 DEF Begin, MappingInv, AtDevice,
       ProductionStaysMapped, MappedThere, MappedAt
<1>6. CASE Finish
  <2>1. /\ pc = "next" /\ cmd \in Command
        /\ \A d \in Device : /\ home[d] \in Site
                             /\ Other(Other(home[d])) = home[d]
                             /\ report[d] = "ok" => phase[d] = UnderWay[cmd]
    BY <1>6 DEF Finish, TypeInv, TypeOK, PlanTypeOK, ProcessInv, Site, Other,
       MappingInv, PendingInv
  <2>2. PendingInv'
    BY <1>6 DEF Finish, Vanish, PendingInv, AtDevice
  <2>3. ASSUME NEW d \in Device, d \notin FS
        PROVE  /\ MappedAt(d, home'[d])
               /\ phase'[d] \in {"promoted", "restoring"} =>
                    MappedAt(d, Other(home'[d]))
    <3>1. CASE report[d] = "ok"
      <4>1. /\ phase[d] = UnderWay[cmd] /\ home[d] \in Site
            /\ Other(Other(home[d])) = home[d]
        BY <2>1, <2>3, <3>1
      <4>a. /\ MappedAt(d, home[d])
            /\ phase[d] \in {"promoted", "restoring"} => MappedThere(d)
            /\ cmd = "failover" => MappedThere(d)
        BY <2>3, <3>1 DEF MappingInv, ProductionStaysMapped
      <4>b. MappedThere(d) => MappedAt(d, Other(home[d]))
        BY <2>3 DEF MappedThere
      <4>2. /\ home'[d] = IF cmd \in {"failover", "restore"} THEN Other(home[d])
                                                            ELSE home[d]
            /\ phase'[d] = Reached[cmd]
        BY <1>6, <2>3, <3>1 DEF Finish
      <4>3. CASE cmd \in {"failover", "restore"}
        BY <4>1, <4>a, <4>b, <4>2, <4>3 DEF UnderWay
      <4>4. CASE cmd \in {"reverse", "sync"}
        BY <4>1, <4>a, <4>2, <4>4 DEF Reached
      <4>5. QED BY <2>1, <4>3, <4>4 DEF Command
    <3>2. CASE report[d] # "ok"
      BY <1>6, <2>1, <2>3, <3>2 DEF Finish, MappingInv, ProductionStaysMapped,
         MappedThere, MappedAt
    <3>3. QED BY <3>1, <3>2
  <2>4. cmd' = "none"
    BY <1>6 DEF Finish, Vanish
  <2>5. QED
    BY <1>1, <2>2, <2>3, <2>4 DEF MappingInv, ProductionStaysMapped,
       MappedThere, MappedAt
<1>7. QED BY <1>2, <1>3, <1>4, <1>5, <1>6

(* A LUN stays mapped where production runs (SraBasic::_add_map before the *)
(* promotion, CMD_unmountSlave and _add_map around it on FusionStorage),   *)
(* however often requests are delivered and whatever the arrays do, but    *)
(* for a mapping that FusionStorage was not brought to make and the SRA    *)
(* was told OK of.                                                         *)
THEOREM ProductionMapped == Spec => []ProductionStaysMapped
<1>1. Init => TypeInv /\ MappingInv
  BY InitType DEF Init, ArrayInit, CommandInit, MappingInv, PendingInv,
     AtDevice, ProductionStaysMapped, MappedAt
<1>2. ASSUME TypeInv, MappingInv, [Next]_vars
      PROVE  TypeInv' /\ MappingInv'
  <2>1. TypeInv'
    BY <1>2, NextType
  <2>2. CASE UNCHANGED vars
    BY <1>2, <2>1, <2>2 DEF vars, arrayVars, planVars, procVars, MappingInv,
       PendingInv,
       AtDevice, ProductionStaysMapped, MappedThere, MappedAt
  <2>3. CASE FailOverPick \/ ReversePick \/ RestorePick \/ SyncPick
    BY <1>2, <2>1, <2>3, PickMapped
    DEF FailOverPick, ReversePick, RestorePick, SyncPick, Command
  <2>4. CASE /\ ProcessStep
             /\ ~(FailOverPick \/ ReversePick \/ RestorePick \/ SyncPick)
    BY <1>2, <2>1, <2>4, FailOverMapped, OthersMapped, FrameStepsMapped DEF
       ProcessStep
  <2>5. CASE ArrayStep
    BY <1>2, <2>1, <2>5 DEF ArrayStep, Background, SyncCompletes,
       PeriodicSync, Recovers,
       LinkBreaks, LinkHeals, StatusChange, planVars, procVars, MappingInv,
       PendingInv,
       AtDevice, ProductionStaysMapped, MappedThere, MappedAt
  <2>6. CASE Start \/ Crash \/ Stabilize
    BY <1>2, <2>1, <2>6, FrameStepsMapped
  <2>7. QED BY <1>2, <2>1, <2>2, <2>3, <2>4, <2>5, <2>6 DEF Next
<1>3. MappingInv => ProductionStaysMapped
  BY DEF MappingInv
<1>4. QED BY <1>1, <1>2, <1>3, PTL DEF Spec

----------------------------------------------------------------------------
(* Data starts to flow to a device. *)
Starts(d) ==
  pair[d].status \notin Replicating /\ pair'[d].status \in Replicating

(* No request but CMD_synchymirror makes the array replicate, however often *)
(* it is delivered.                                                         *)
LEMMA OtherRequests ==
  ASSUME TypeInv, NEW p \in Pair, NEW reply \in Reply,
         \/ CMD_splithymirror(p, reply)
         \/ \E access \in Access : CMD_changeSlaveRw(p, access, reply)
         \/ CMD_swaphymirror(p, reply),
         NEW d \in Device
  PROVE  ~Starts(d)
<1>1. d \in Pair /\ pair \in [Pair -> PairRecord]
  BY DEF TypeInv, TypeOK, ArrayTypeOK, Pair
<1>2. CASE CMD_splithymirror(p, reply)
  BY <1>1, <1>2, RequestEffect DEF Served, Starts, Replicating, PairRecord
<1>3. ASSUME NEW access \in Access, CMD_changeSlaveRw(p, access, reply)
      PROVE  ~Starts(d)
  BY <1>1, <1>3, RequestEffect DEF Served, Starts, PairRecord
<1>4. CASE CMD_swaphymirror(p, reply)
  BY <1>1, <1>4 DEF CMD_swaphymirror, Starts, PairRecord
<1>5. QED BY <1>2, <1>3, <1>4

(* failover suspends and opens; it resumes nothing. *)
LEMMA FailOverStartsNone ==
  ASSUME TypeInv, FailOverNext, NEW d \in Device
  PROVE  ~Starts(d)
<1> USE OtherRequests, OutcomeReply DEF At
<1>a. UNCHANGED pair => ~Starts(d)
  BY DEF Starts
<1>b. ~FailOverPick => cur \in Pair /\ local.rest \subseteq Sibling
  BY CurrentDevice DEF FailOverNext, Classify, Expose, FailOverShow, Sparse,
     AlreadyPromoted,
     AlreadySuspended, Suspend, Activate, Remap, Identify, AddShare,
     FindShare, Unshare,
     AddShareAgain, DeviceSteps, Step, TypeInv, TypeOK, ProcessTypeOK,
     LocalRecord
<1>1. CASE Suspend
  BY <1>1, <1>b DEF Suspend, FailOverPick, PickDevice
<1>2. CASE Activate
  BY <1>2, <1>b DEF Activate, Access, FailOverPick, PickDevice
<1>3. CASE Sparse
  BY <1>3, <1>a, <1>b DEF Sparse, Access, Reply, Pair, FailOverPick,
     PickDevice
<1>4. QED
  BY <1>1, <1>2, <1>3, <1>a DEF FailOverNext, FailOverPick, PickDevice,
     Classify, Expose, FailOverShow,
     AlreadyPromoted, AlreadySuspended, Remap, Identify, AddShare, FindShare,
     Unshare,
     AddShareAgain, arrayVars

(* restoreReplication resumes what it has just locked; reverseReplication  *)
(* leaves the status alone.                                                *)
LEMMA OthersStartLocked ==
  ASSUME TypeInv, LockInv, ReverseNext \/ RestoreNext,
         NEW d \in Device, Starts(d)
  PROVE  pair'[d].access = "RO"
<1> USE DEF At
<1>1. pc \in DeviceSteps \/ ReversePick \/ RestorePick
  BY DEF ReverseNext, RestoreNext, ReverseShow, Swap, ReverseLock,
     RestoreShow, RestoreLock, Resync,
     DeviceSteps, Step
<1>2. CASE Resync
  <2>1. cur \in Pair /\ pair[cur].access = "RO" /\ pair \in [Pair -> PairRecord]
    BY <1>2, CurrentDevice DEF Resync, LockInv, DeviceSteps, Step, TypeInv,
       TypeOK, ArrayTypeOK
  <2>2. PICK reply \in Reply : CMD_synchymirror(cur, reply)
    BY <1>2, SyncOutcomeReply DEF Resync
  <2>3. \/ pair' = pair
        \/ pair' = [pair EXCEPT ![cur].status = "Synchronizing"]
    BY <2>1, <2>2, RequestEffect
  <2>4. QED BY <2>1, <2>3 DEF Starts, PairRecord, Pair
<1>3. CASE ~Resync
  BY <1>1, <1>3, CurrentDevice, OtherRequests, OutcomeReply
  DEF ReverseNext, ReversePick, PickDevice, ReverseShow, Swap, ReverseLock,
      RestoreNext, RestorePick, RestoreShow, RestoreLock, Starts, Access,
      arrayVars
<1>4. QED BY <1>2, <1>3

(* The lock outlasts what the arrays do by themselves. *)
LEMMA LockKept ==
  ASSUME TypeInv, LockInv, [Next]_vars, "sync" \notin Commands
  PROVE  LockInv'
<1> USE DEF At
<1>1. CASE RestoreLock
  <2>1. /\ cur \in Pair /\ pair \in [Pair -> PairRecord]
        /\ cur' = cur /\ cmd' = cmd
    BY <1>1, CurrentDevice DEF RestoreLock, Locked, Continue, Answer,
       DeviceSteps, Step, TypeInv, TypeOK, ArrayTypeOK
  <2>2. PICK reply \in Reply : CMD_changeSlaveRw(cur, "RO", reply) /\ Locked(reply)
    BY <1>1, OutcomeReply DEF RestoreLock
  <2>3. pc' = "resync" => pair' = [pair EXCEPT ![cur].access = "RO"]
    BY <2>1, <2>2, RequestEffect DEF Served, Locked, Continue, Answer
  <2>4. QED BY <2>1, <2>3 DEF LockInv, PairRecord
<1>2. CASE ArrayStep
  <2>1. UNCHANGED <<pc, cmd, cur>>
    BY <1>2 DEF ArrayStep, procVars
  <2>2. PICK p \in Pair, to \in Status : pair' = [pair EXCEPT ![p].status = to]
    BY <1>2 DEF ArrayStep, Background, SyncCompletes, PeriodicSync, Recovers,
       LinkBreaks, LinkHeals,
       StatusChange, Status
  <2>3. cmd = "restore" /\ pc = "resync" => cur \in Pair
    BY CurrentDevice DEF DeviceSteps, Step
  <2>4. QED
    BY <2>1, <2>2, <2>3 DEF LockInv, TypeInv, TypeOK, ArrayTypeOK, PairRecord
<1>3. CASE FailOverNext
  <2>1. FailOverPick => cmd' = "failover"
    BY DEF FailOverPick, PickDevice
  <2>2. ~FailOverPick => cmd' = "failover"
    BY <1>3, FailOverFrames DEF Continue, Answer, Abandon
  <2>3. "failover" \in Commands
    BY <1>3, FailOverFrames DEF LockInv, FailOverPick, PickDevice, At
  <2>4. QED BY <2>1, <2>2, <2>3 DEF LockInv
<1>4. CASE ReverseNext \/ SyncNext \/ (RestoreNext /\ ~RestoreLock)
  BY <1>4 DEF ReverseNext, ReversePick, PickDevice, ReverseShow,
     NothingToReverse, Swap, Swapped, ReverseLock,
      SyncNext, SyncPick, SyncShow, Inquire, StartSync,
      RestoreNext, RestorePick, RestoreShow, Resync, Continue, Answer, LockInv
<1>5. CASE Start \/ Preamble \/ Finish \/ Crash \/ Stabilize \/ UNCHANGED vars
  BY <1>5 DEF Start, Begin, Preamble, Finish, Crash, Stabilize, Vanish, vars,
     arrayVars, procVars, LockInv
<1>6. QED
  BY <1>1, <1>2, <1>3, <1>4, <1>5 DEF Next, ProcessStep

(* No synchronization starts over a secondary the hosts may write, however *)
(* often requests are delivered: restoreReplication resumes a pair only    *)
(* after CMD_changeSlaveRw has made it read-only, and a pair that recovers *)
(* by itself is read-only.  syncOnce is left out because it asks for no    *)
(* access: it may run over a pair that reverseReplication or               *)
(* restoreReplication has reported done without locking it.                *)
THEOREM LockedBeforeSync ==
  ASSUME "sync" \notin Commands
  PROVE  Spec => SyncOnlyOntoReadOnly
<1>1. Init => LockInv
  BY DEF Init, CommandInit, LockInv
<1>2. ASSUME TypeInv, LockInv, [Next]_vars, NEW d \in Device, Starts(d)
      PROVE  pair'[d].access = "RO"
  <2>1. CASE FailOverNext
    BY <1>2, <2>1, FailOverStartsNone
  <2>2. CASE ReverseNext \/ RestoreNext
    BY <1>2, <2>2, OthersStartLocked
  <2>3. ~SyncNext
    BY <1>2 DEF SyncNext, SyncPick, PickDevice, SyncShow, Inquire, StartSync,
       At, LockInv
  <2>4. CASE ArrayStep
    <3>1. d \in Pair /\ pair \in [Pair -> PairRecord]
      BY <1>2 DEF TypeInv, TypeOK, ArrayTypeOK, Pair
    <3>2. PICK p \in Pair :
            \/ SyncCompletes(p) \/ PeriodicSync(p) \/ Recovers(p)
            \/ LinkBreaks(p) \/ LinkHeals(p)
      BY <2>4 DEF ArrayStep, Background
    <3>3. QED
      BY <1>2, <3>1, <3>2 DEF SyncCompletes, PeriodicSync, Recovers,
         LinkBreaks, LinkHeals,
         StatusChange, Starts, Replicating, PairRecord
  <2>5. CASE Start \/ Preamble \/ Finish \/ Crash \/ Stabilize \/ UNCHANGED vars
    BY <1>2, <2>5 DEF Start, Begin, Preamble, Finish, Crash, Stabilize, vars,
       arrayVars, Starts
  <2>6. QED BY <1>2, <2>1, <2>2, <2>3, <2>4, <2>5 DEF Next, ProcessStep
<1>3. TypeInv /\ LockInv /\ [Next]_vars
        => [\A d \in Device : Starts(d) => pair'[d].access = "RO"]_vars
  BY <1>2
<1>4. QED
  BY <1>1, <1>3, InitType, NextType, LockKept, PTL DEF Spec,
     SyncOnlyOntoReadOnly, Starts

----------------------------------------------------------------------------
(* RestoreReplication::_is_slave_device_out for the only device there is.  *)
LEMMA RestoreSteps ==
  ASSUME TypeInv, RestoredInv, OneDevice, RestoreNext, ~RestorePick
  PROVE  RestoredInv'
<1> USE DEF At
<1>1. /\ cur \in Device /\ cur \in Pair /\ todo = {} /\ report[cur] = "none"
      /\ pc \in DeviceSteps /\ AtDevice /\ cmd = "restore"
      /\ local \in LocalRecord /\ pair \in [Pair -> PairRecord]
      /\ report \in [Device -> Result]
  BY CurrentDevice DEF RestoreNext, RestoreShow, RestoreLock, Resync,
     DeviceSteps, Step,
     RestoredInv, PendingInv, AtDevice, OneDevice, TypeInv, TypeOK,
     ArrayTypeOK, ProcessTypeOK
<1>2. /\ cur' = cur /\ todo' = {} /\ cmd' = "restore" /\ UNCHANGED phase
      /\ pc' \in {"next", "lock", "resync"}
  BY <1>1 DEF RestoreNext, RestoreShow, RestoreLock, Locked, Resync, Continue,
     Answer, planVars
<1>3. PendingInv'
  <2>1. \/ \E step \in DeviceSteps : Continue(step)
        \/ \E result \in Result \ {"absent"} : Answer(result)
    BY DEF RestoreNext, RestoreShow, RestoreLock, Locked, Resync, DeviceSteps,
       Step, Result
  <2>2. QED BY <1>1, <2>1, PendingStep DEF RestoredInv
<1>4. CASE RestoreShow
  <2>1. local.front = "empty" /\ pair' = pair
    BY <1>4 DEF RestoreShow, RestoredInv, arrayVars
  <2>2. \/ pc' = "lock" /\ report' = report
        \/ pc' = "next" /\ (report'[cur] = "ok" => pair[cur].status # "Split")
    BY <1>1, <1>4, <2>1 DEF RestoreShow, Continue, Answer
  <2>3. QED
    BY <1>1, <1>2, <1>3, <2>1, <2>2 DEF RestoredInv, RestoredSplitIsReadOnly,
       OneDevice
<1>5. CASE RestoreLock
  <2>1. PICK reply \in Reply : CMD_changeSlaveRw(cur, "RO", reply) /\ Locked(reply)
    BY <1>5, OutcomeReply DEF RestoreLock
  <2>2. pc' = "resync" => pair'[cur].access = "RO" /\ report' = report
    BY <1>1, <2>1, RequestEffect DEF Served, Locked, Continue, Answer,
       PairRecord
  <2>3. pc' # "resync" => report'[cur] # "ok"
    BY <1>1, <2>1 DEF Locked, Continue, Answer
  <2>4. QED
    BY <1>1, <1>2, <1>3, <2>2, <2>3 DEF RestoredInv, RestoredSplitIsReadOnly,
       OneDevice
<1>6. CASE Resync
  <2>1. PICK reply \in Reply : CMD_synchymirror(cur, reply)
    BY <1>6, SyncOutcomeReply DEF Resync
  <2>a. pair' = pair \/ pair' = [pair EXCEPT ![cur].status = "Synchronizing"]
    BY <1>1, <2>1, RequestEffect
  <2>2. /\ pair'[cur].access = pair[cur].access /\ pair[cur].access = "RO"
        /\ pc' = "next"
    BY <1>1, <1>6, <2>a DEF Resync, RestoredInv, Answer, PairRecord
  <2>3. QED
    BY <1>1, <1>2, <1>3, <2>2 DEF RestoredInv, RestoredSplitIsReadOnly,
       OneDevice
<1>7. QED BY <1>4, <1>5, <1>6 DEF RestoreNext

(* The arrays split nothing and open nothing by themselves. *)
LEMMA ArrayRestored ==
  ASSUME TypeInv, RestoredInv, ArrayStep
  PROVE  RestoredInv'
<1>1. UNCHANGED <<cmd, todo, pc, cur, local, report, phase>>
  BY DEF ArrayStep, planVars, procVars
<1>2. PICK p \in Pair, to \in Status \ {"Split"} :
        pair' = [pair EXCEPT ![p].status = to]
  BY DEF ArrayStep, Background, SyncCompletes, PeriodicSync, Recovers,
     LinkBreaks, LinkHeals,
     StatusChange, Status
<1>3. pair \in [Pair -> PairRecord] /\ Device \subseteq Pair
  BY DEF TypeInv, TypeOK, ArrayTypeOK, Pair
<1>4. cmd = "restore" /\ pc = "resync" => cur \in Pair
  BY CurrentDevice DEF DeviceSteps, Step
<1>5. \A q \in Pair : /\ pair'[q].access = pair[q].access
                      /\ pair'[q].status = "Split" => pair[q].status = "Split"
  BY <1>2, <1>3 DEF PairRecord
<1>6. QED
  BY <1>1, <1>3, <1>4, <1>5 DEF RestoredInv, PendingInv, AtDevice,
     RestoredSplitIsReadOnly

(* A restored device whose pair is still Split has been locked, if it is   *)
(* the only one the command is for (RestoreReplication::_is_slave_device_  *)
(* out judges every device by the first status of its list).               *)
THEOREM RestoredLocked ==
  ASSUME OneDevice
  PROVE  Spec => []RestoredSplitIsReadOnly
<1> USE DEF At
<1>1. Init => RestoredInv
  BY DEF Init, CommandInit, RestoredInv, PendingInv, AtDevice,
     RestoredSplitIsReadOnly, FreshLocal
<1>2. ASSUME TypeInv, RestoredInv, [Next]_vars
      PROVE  RestoredInv'
  <2>a. local \in LocalRecord
    BY <1>2 DEF TypeInv, TypeOK, ProcessTypeOK
  <2>1. CASE RestoreNext /\ ~RestorePick
    BY <1>2, <2>1, RestoreSteps
  <2>2. CASE ArrayStep
    BY <1>2, <2>2, ArrayRestored
  <2>3. CASE (FailOverNext \/ ReverseNext \/ SyncNext)
              /\ ~FailOverPick /\ ~ReversePick /\ ~SyncPick
    <3>a. /\ cmd # "restore" /\ pc \in DeviceSteps
          /\ \/ \E step \in DeviceSteps : Continue(step)
             \/ \E result \in Result \ {"absent"} : Answer(result) \/ Abandon(result)
      <4>1. CASE FailOverNext
        BY <1>2, <2>3, <4>1, FailOverFrames
      <4>2. CASE ReverseNext
        BY <1>2, <2>3, <4>2, OtherFrames DEF ReverseNext, ReverseShow, Swap,
           ReverseLock, RestorePick, PickDevice
      <4>3. CASE SyncNext
        BY <1>2, <2>3, <4>3, OtherFrames DEF SyncNext, SyncShow, Inquire,
           StartSync, RestorePick, PickDevice
      <4>4. QED BY <2>3, <4>1, <4>2, <4>3
    <3>1. /\ PendingInv' /\ cmd' = cmd /\ cmd # "restore"
          /\ local.front = "empty"
      BY <1>2, <3>a, PendingStep DEF RestoredInv, Continue, Answer, Abandon
    <3>2. local'.front = local.front
      <4>1. CASE FailOverNext
        BY <2>a, <2>3, <4>1 DEF FailOverNext, Classify, Expose, FailOverShow,
           Sparse, AlreadyPromoted,
           AlreadySuspended, Suspend, SplitDone, Activate, Remap, Identify,
           AddShare, FindShare,
           Unshare, AddShareAgain, Executed, Named, LocalRecord
      <4>2. CASE ReverseNext \/ SyncNext
        BY <2>3, <4>2 DEF ReverseNext, ReverseShow, Swap, ReverseLock,
           SyncNext, SyncShow, Inquire, StartSync
      <4>3. QED BY <2>3, <4>1, <4>2
    <3>3. QED BY <3>1, <3>2 DEF RestoredInv, RestoredSplitIsReadOnly
  <2>4. CASE FailOverPick \/ ReversePick \/ RestorePick \/ SyncPick
    <3>1. PICK c \in Command, step \in {"classify", "show"} : PickDevice(c, step)
      BY <2>4 DEF FailOverPick, ReversePick, RestorePick, SyncPick, Command
    <3>2. /\ local.front = "empty" /\ local'.front = "empty"
          /\ UNCHANGED <<cmd, pair, report, phase>>
          /\ pc' = step
      BY <1>2, <3>1, <2>a DEF PickDevice, RestoredInv, FreshLocal, arrayVars,
         planVars
    <3>3. PendingInv'
      BY <1>2, <3>1, <3>2 DEF PickDevice, RestoredInv, PendingInv, AtDevice
    <3>4. QED BY <1>2, <3>2, <3>3 DEF RestoredInv, RestoredSplitIsReadOnly
  <2>5. CASE Start
    <3>1. PICK c \in Commands, D \in SUBSET Device : Begin(c, D)
      BY <2>5 DEF Start
    <3>2. local.front = "empty" /\ local' = local /\ pc' = "preamble"
      BY <1>2, <3>1 DEF RestoredInv, Begin
    <3>3. PendingInv'
      BY <1>2, <3>1 DEF Begin, PendingInv, AtDevice, TypeInv, TypeOK,
         ProcessTypeOK
    <3>4. \A d \in Device : report'[d] # "ok"
      BY <3>1 DEF Begin
    <3>5. QED BY <3>2, <3>3, <3>4 DEF RestoredInv, RestoredSplitIsReadOnly
  <2>6. CASE Preamble \/ Finish \/ Crash
    <3>1. CASE Vanish
      BY <3>1 DEF Vanish, RestoredInv, PendingInv, AtDevice,
         RestoredSplitIsReadOnly, FreshLocal
    <3>2. CASE ~Vanish
      BY <1>2, <2>6, <3>2 DEF Preamble, Finish, Crash, RestoredInv,
         PendingInv, AtDevice,
         RestoredSplitIsReadOnly, arrayVars, planVars
    <3>3. QED BY <3>1, <3>2
  <2>7. CASE Stabilize \/ UNCHANGED vars
    BY <1>2, <2>7 DEF Stabilize, vars, arrayVars, planVars, procVars,
       RestoredInv, PendingInv, AtDevice,
       RestoredSplitIsReadOnly
  <2>8. QED
    BY <1>2, <2>1, <2>2, <2>3, <2>4, <2>5, <2>6, <2>7
    DEF Next, ProcessStep, FailOverNext, ReverseNext, RestoreNext, SyncNext
<1>3. RestoredInv => RestoredSplitIsReadOnly
  BY DEF RestoredInv
<1>4. QED BY <1>1, <1>2, <1>3, InitType, NextType, PTL DEF Spec

----------------------------------------------------------------------------
(* RecoveryWorkflow implements RecoveryPlan, and the action properties:    *)
(* both follow from the few ways in which a step may move a pair.          *)
(* What a step may do to the pair of a device, and when. *)
Suspends(d) == /\ phase[d] = "failingOver"
               /\ pair'[d] = [pair[d] EXCEPT !.status = "Split"]
Opens(d)    == /\ phase[d] = "failingOver" /\ Quiet(d)
               /\ pair'[d] = [pair[d] EXCEPT !.access = "RW"]
Turns(d)    == /\ phase[d] = "reversing" /\ ~SourceIsHome(d) /\ Opened(d)
               /\ pair'[d] = [pair[d] EXCEPT !.primary = home[d]]
Locks(d)    == /\ \/ phase[d] = "reversing" /\ SourceIsHome(d)
                  \/ phase[d] = "restoring"
               /\ pair'[d] = [pair[d] EXCEPT !.access = "RO"]
Resyncs(d)  == /\ \/ phase[d] = "protected" /\ SourceIsHome(d)
                  \/ phase[d] = "restoring"
               /\ pair'[d] = [pair[d] EXCEPT !.status = "Synchronizing"]
Drifts(d)   == \E to \in Status :
                 /\ pair'[d] = [pair[d] EXCEPT !.status = to]
                 /\ Quiet(d) => to \notin Replicating

Moves(d) ==
  \/ pair'[d] = pair[d]
  \/ Suspends(d) \/ Opens(d) \/ Turns(d) \/ Locks(d) \/ Resyncs(d) \/ Drifts(d)

(* The pair of one device moves, while SRM waits. *)
OneMoves ==
  /\ UNCHANGED <<home, phase>>
  /\ \A d \in Device : Moves(d)
  /\ \A d, e \in Device : d # e => pair'[d] = pair[d] \/ pair'[e] = pair[e]

(* Every step of a command at its device is a move of the contract. *)
LEMMA DeviceMoves ==
  ASSUME TypeInv, SafetyInv, SingleDelivery,
         FailOverNext \/ ReverseNext \/ RestoreNext \/ SyncNext
  PROVE  OneMoves
<1> USE DEF At
<1>1. UNCHANGED <<home, phase>>
  <2>1. \A reply : Executed(reply) => UNCHANGED planVars
    BY DEF Executed, Continue, Answer
  <2>2. \A reply \in Reply : Remapped(reply) => UNCHANGED planVars
    BY DEF Remapped, Continue, Answer, Abandon, Reply, TypeInv, TypeOK,
       ProcessTypeOK, LocalRecord
  <2>6. Remap => \E reply \in Reply : Remapped(reply)
    BY OutcomeReply DEF Remap, Reply
  <2>3. CASE FailOverNext
    BY <2>1, <2>2, <2>3, <2>6, OutcomeReply
       DEF FailOverNext, FailOverPick, PickDevice, Classify, Expose, Exposed,
       FailOverShow, Sparse, AlreadyPromoted, AlreadySuspended, Suspend,
       SplitDone, Activate, Remap, Identify, AddShare, FindShare, Unshare,
       AddShareAgain, Continue, Answer, Abandon, planVars
  <2>4. CASE ReverseNext \/ RestoreNext \/ SyncNext
    BY <2>4 DEF ReverseNext, RestoreNext, SyncNext, ReversePick, RestorePick,
       SyncPick, PickDevice, ReverseShow, NothingToReverse, Swap, Swapped,
       ReverseLock, RestoreShow, RestoreLock, Locked, Resync, SyncShow,
       Inquire, StartSync, Continue, Answer, planVars
  <2>5. QED BY <2>3, <2>4
<1>2. CASE pair' = pair
  BY <1>1, <1>2 DEF OneMoves, Moves
<1>3. CASE pair' # pair
  <2>1. Sparse \/ Suspend \/ Activate \/ Swap \/ ReverseLock \/ RestoreLock
        \/ Resync \/ StartSync
    BY <1>3 DEF FailOverNext, ReverseNext, RestoreNext, SyncNext, FailOverPick,
       ReversePick, RestorePick, SyncPick, PickDevice, Classify, Expose,
       FailOverShow, AlreadyPromoted, AlreadySuspended, Remap, Identify,
       AddShare, FindShare, Unshare, AddShareAgain, ReverseShow, RestoreShow,
       SyncShow, Inquire, arrayVars
  <2>2. pc \in DeviceSteps
    BY <2>1 DEF Sparse, Suspend, Activate, Swap, ReverseLock, RestoreLock,
       Resync, StartSync, DeviceSteps, Step
  <2>3. /\ cur \in Device /\ cur \in Pair /\ pair[cur] \in PairRecord
        /\ PhaseInv(cur) /\ StepInv /\ phase[cur] = UnderWay[cmd]
        /\ local \in LocalRecord /\ home[cur] \in Site
    BY <2>2, CurrentDevice DEF SafetyInv, AtDevice, DeviceSteps, StepInv,
       ReportInv, TypeInv, TypeOK, ProcessTypeOK, PlanTypeOK
  <2>4. CASE Sparse
    <3>1. PICK p \in local.rest, reply \in Reply : CMD_changeSlaveRw(p, "RW", reply)
      BY <1>3, <2>4 DEF Sparse, Reply
    <3>2. p \in Pair /\ p \notin Device
      BY <2>3, DeviceAssumption DEF LocalRecord, Pair
    <3>3. Served(reply, [pair EXCEPT ![p].access = "RW"])
      BY <3>1, <3>2, RequestEffect
    <3>4. \A d \in Device : pair'[d] = pair[d]
      BY <3>2, <3>3 DEF Served, TypeInv, TypeOK, ArrayTypeOK, Pair
    <3>5. QED BY <1>1, <3>4 DEF OneMoves, Moves
  <2>5. CASE ~Sparse
    <3>1. Moves(cur) /\ \A d \in Device \ {cur} : pair'[d] = pair[d]
      <4>0. pair \in [Pair -> PairRecord] /\ \A d \in Device : d \in Pair
        BY DEF TypeInv, TypeOK, ArrayTypeOK, Pair
      <4>1. CASE Suspend
        <5>1. pair' = [pair EXCEPT ![cur].status = "Split"]
          BY <1>3, <2>3, <4>1, OutcomeReply, RequestEffect DEF Suspend, Served
        <5>2. QED BY <2>3, <4>0, <4>1, <5>1 DEF Suspend, Moves, Suspends, UnderWay
      <4>2. CASE Activate
        <5>1. pair' = [pair EXCEPT ![cur].access = "RW"]
          BY <1>3, <2>3, <4>2, OutcomeReply, RequestEffect DEF Activate, Served
        <5>2. QED
          BY <2>3, <4>0, <4>2, <5>1 DEF Activate, Moves, Opens, UnderWay, StepInv
      <4>3. CASE Swap
        <5>1. pair' = [pair EXCEPT ![cur].primary = Other(pair[cur].primary)]
          BY <1>3, <2>3, <4>3, OutcomeReply, RequestEffect
             DEF Swap, Served, SingleDelivery, SafetyInv
        <5>2. /\ ~SourceIsHome(cur) /\ Opened(cur) /\ phase[cur] = "reversing"
              /\ Other(pair[cur].primary) = home[cur]
          BY <2>3, <4>3 DEF Swap, StepInv, PhaseInv, UnderWay, SourceIsHome,
             Other, Site, PairRecord
        <5>3. QED BY <2>3, <4>0, <5>1, <5>2 DEF Moves, Turns
      <4>4. CASE ReverseLock \/ RestoreLock
        <5>1. pair' = [pair EXCEPT ![cur].access = "RO"]
          BY <1>3, <2>3, <4>4, OutcomeReply, RequestEffect
             DEF ReverseLock, RestoreLock, Served
        <5>2. QED
          BY <2>3, <4>0, <4>4, <5>1 DEF ReverseLock, RestoreLock, Moves, Locks,
             UnderWay, StepInv
      <4>5. CASE Resync \/ StartSync
        <5>1. pair' = [pair EXCEPT ![cur].status = "Synchronizing"]
          BY <1>3, <2>3, <4>5, SyncOutcomeReply, RequestEffect
             DEF Resync, StartSync, Served
        <5>2. QED
          BY <2>3, <4>0, <4>5, <5>1 DEF Resync, StartSync, Moves, Resyncs,
             UnderWay, PhaseInv
      <4>6. QED BY <2>1, <2>5, <4>1, <4>2, <4>3, <4>4, <4>5
    <3>2. \A d \in Device : Moves(d)
      BY <3>1 DEF Moves
    <3>3. QED BY <1>1, <3>1, <3>2 DEF OneMoves
  <2>6. QED BY <2>4, <2>5
<1>4. QED BY <1>2, <1>3

(* What the arrays do by themselves changes neither access nor roles. *)
LEMMA ArrayMoves ==
  ASSUME TypeInv, SafetyInv, ManualRecovery, ArrayStep
  PROVE  OneMoves
<1>1. PICK p \in Pair : \/ SyncCompletes(p) \/ PeriodicSync(p) \/ Recovers(p)
                        \/ LinkBreaks(p)    \/ LinkHeals(p)
  BY DEF ArrayStep, Background
<1>2. PICK from \in SUBSET Status, to \in Status :
        /\ StatusChange(p, from, to)
        /\ p \notin AutoRecovery /\ to \in Replicating =>
             from \subseteq Replicating
  BY <1>1 DEF SyncCompletes, PeriodicSync, Recovers, LinkBreaks, LinkHeals,
     Replicating, Status
<1>3. p \in Device => p \notin AutoRecovery
  BY DEF ManualRecovery
<1>4. /\ \A d \in Device : d # p => pair'[d] = pair[d]
      /\ p \in Device => Drifts(p)
  BY <1>2, <1>3 DEF StatusChange, Drifts, Quiet, Pair, TypeInv, TypeOK,
     ArrayTypeOK
<1>5. UNCHANGED <<home, phase>>
  BY DEF ArrayStep, planVars
<1>6. QED BY <1>4, <1>5 DEF OneMoves, Moves

(* Every step of the workflow is a move of the contract at each device. *)
LEMMA NextMoves ==
  ASSUME TypeInv, SafetyInv, SingleDelivery, ManualRecovery, Next
  PROVE  \/ OneMoves
         \/ pair' = pair /\ (Start \/ Preamble \/ Finish \/ Crash \/ Stabilize)
<1>1. CASE FailOverNext \/ ReverseNext \/ RestoreNext \/ SyncNext
  BY <1>1, DeviceMoves
<1>2. CASE ArrayStep
  BY <1>2, ArrayMoves
<1>3. CASE Start \/ Preamble \/ Finish \/ Crash \/ Stabilize
  BY <1>3 DEF Start, Begin, Preamble, Finish, Crash, Stabilize, arrayVars
<1>4. QED BY <1>1, <1>2, <1>3 DEF Next, ProcessStep

(* Whatever fails or is killed, a device is opened to the hosts of the     *)
(* recovery site only while its pair does not replicate to it.             *)
THEOREM OpenedOnlySuspended ==
  ASSUME SingleDelivery, ManualRecovery
  PROVE  Spec => WritableOnlySuspended
<1>1. TypeInv /\ SafetyInv /\ [Next]_vars =>
        [\A d \in Device : pair[d].access = "RO" /\ pair'[d].access = "RW"
                           => pair[d].status \notin Replicating]_vars
  <2> SUFFICES ASSUME TypeInv, SafetyInv, Next, NEW d \in Device,
                      pair[d].access = "RO", pair'[d].access = "RW"
               PROVE  Quiet(d)
    BY DEF Quiet
  <2>1. pair[d] \in PairRecord
    BY DEF TypeInv, TypeOK, ArrayTypeOK, Pair
  <2>2. Moves(d)
    BY NextMoves DEF OneMoves, Moves
  <2>3. QED
    BY <2>1, <2>2 DEF Moves, Suspends, Opens, Turns, Locks, Resyncs, Drifts,
       PairRecord
<1>2. QED BY <1>1, SafetyInvariant, PTL DEF Spec, WritableOnlySuspended

(* Data starts to flow only away from production, or into a restore.       *)
THEOREM ReplicatesFromProduction ==
  ASSUME SingleDelivery, ManualRecovery
  PROVE  Spec => ReplicationRunsFromProduction
<1>1. TypeInv /\ SafetyInv /\ [Next]_vars =>
        [\A d \in Device :
           pair[d].status \notin Replicating /\ pair'[d].status \in Replicating
             => pair'[d].primary = home[d] \/ phase[d] = "restoring"]_vars
  <2> SUFFICES ASSUME TypeInv, SafetyInv, Next, NEW d \in Device,
                      Quiet(d), pair'[d].status \in Replicating
               PROVE  pair'[d].primary = home[d] \/ phase[d] = "restoring"
    BY DEF Quiet
  <2>1. pair[d] \in PairRecord
    BY DEF TypeInv, TypeOK, ArrayTypeOK, Pair
  <2>2. Moves(d)
    BY NextMoves DEF OneMoves, Moves
  <2>3. QED
    BY <2>1, <2>2 DEF Moves, Suspends, Opens, Turns, Locks, Resyncs, Drifts,
       PairRecord, Quiet, Replicating, SourceIsHome
<1>2. QED BY <1>1, SafetyInvariant, PTL DEF Spec, ReplicationRunsFromProduction

(* The mapped variables of RecoveryPlan. *)
Sources == [d \in Device |-> pair[d].primary]
Writables == [d \in Device |-> WritableAt(d)]

(* A step that moves one pair is a step of the plan, or changes nothing of *)
(* what the plan shows.                                                    *)
LEMMA MoveImplements ==
  ASSUME TypeInv, SafetyInv, OneMoves
  PROVE  Plan!Next \/ UNCHANGED Plan!planVars
<1>1. \A d \in Device : /\ pair[d] \in PairRecord /\ home[d] \in Site
                        /\ PhaseInv(d)
  BY DEF TypeInv, TypeOK, ArrayTypeOK, PlanTypeOK, SafetyInv, Pair
<1>2. CASE \A d \in Device : /\ pair'[d].primary = pair[d].primary
                             /\ WritableAt(d)' = WritableAt(d)
  BY <1>2 DEF OneMoves, Plan!planVars
<1>3. CASE ~ \A d \in Device : /\ pair'[d].primary = pair[d].primary
                               /\ WritableAt(d)' = WritableAt(d)
  <2>1. PICK d \in Device : \/ pair'[d].primary # pair[d].primary
                           \/ WritableAt(d)' # WritableAt(d)
    BY <1>3
  <2>2. pair'[d] # pair[d]
    BY <2>1 DEF WritableAt
  <2>3. /\ Moves(d) /\ UNCHANGED <<home, phase>>
        /\ \A e \in Device \ {d} : pair'[e] = pair[e]
    BY <2>2 DEF OneMoves
  <2>4. Opens(d) \/ Turns(d) \/ Locks(d)
    BY <1>1, <2>1, <2>2, <2>3 DEF Moves, Suspends, Resyncs, Drifts, WritableAt,
       PairRecord
  <2>5. \A e \in Device \ {d} : WritableAt(e)' = WritableAt(e)
    BY <2>3 DEF WritableAt
  <2>6. CASE Opens(d)
    <3>1. /\ pair'[d].primary = pair[d].primary
          /\ WritableAt(d)' = Site
      BY <1>1, <2>6 DEF Opens, WritableAt, PairRecord, Site, Other
    <3>2. Sources' = Sources /\ Writables' = [Writables EXCEPT ![d] = Site]
      BY <2>3, <2>5, <3>1 DEF Sources, Writables
    <3>3. Plan!Open(d)
      BY <2>3, <2>6, <3>2 DEF Plan!Open, Plan!Site, Opens, Sources, Writables,
         Site
    <3>4. QED BY <3>3 DEF Plan!Next
  <2>7. CASE Turns(d)
    <3>1. /\ pair'[d].primary = home[d] /\ pair[d].primary # home[d]
          /\ WritableAt(d) = Site /\ WritableAt(d)' = Site
      BY <1>1, <2>7 DEF Turns, WritableAt, PairRecord, Site, Other, Opened,
         SourceIsHome
    <3>2. /\ Sources' = [Sources EXCEPT ![d] = home[d]]
          /\ Writables' = Writables
      BY <2>3, <2>5, <3>1 DEF Sources, Writables
    <3>3. Plan!Turn(d)
      BY <2>3, <2>7, <3>1, <3>2 DEF Plan!Turn, Plan!Site, Turns, Sources,
         Writables, Site
    <3>4. QED BY <3>3 DEF Plan!Next
  <2>8. CASE Locks(d)
    <3>1. /\ pair'[d].primary = pair[d].primary
          /\ WritableAt(d)' = {pair[d].primary}
      BY <1>1, <2>8 DEF Locks, WritableAt, PairRecord, Access
    <3>2. /\ Sources' = Sources
          /\ Writables' = [Writables EXCEPT ![d] = {Sources[d]}]
      BY <2>3, <2>5, <3>1 DEF Sources, Writables
    <3>3. Plan!Close(d)
      BY <2>3, <2>8, <3>2 DEF Plan!Close, Locks, Sources, Writables,
         SourceIsHome
    <3>4. QED BY <3>3 DEF Plan!Next
  <2>9. QED BY <2>4, <2>6, <2>7, <2>8
<1>4. QED BY <1>2, <1>3

(* What SRM asks for and is told is a step of the plan: a command is only  *)
(* reported for a device of which the plan allows it.                      *)
LEMMA FrameImplements ==
  ASSUME TypeInv, SafetyInv, pair' = pair,
         Start \/ Preamble \/ Finish \/ Crash \/ Stabilize
  PROVE  Plan!Next \/ UNCHANGED Plan!planVars
<1>1. Sources' = Sources /\ Writables' = Writables
  BY DEF Sources, Writables, WritableAt
<1>2. CASE Preamble \/ Crash \/ Stabilize
  BY <1>1, <1>2 DEF Preamble, Crash, Stabilize, planVars, Plan!planVars,
     Sources, Writables
<1>3. CASE Start
  <2>1. PICK c \in Command, D \in SUBSET Device : Begin(c, D)
    BY <1>3, CommandAssumption DEF Start
  <2>2. /\ \A d \in D : phase[d] \in StartsIn[c]
        /\ phase' = [d \in Device |-> IF d \in D THEN UnderWay[c] ELSE phase[d]]
        /\ home' = home
    BY <2>1 DEF Begin
  <2>3. CASE c = "failover"
    BY <1>1, <2>2, <2>3 DEF Plan!Next, Plan!AskFailover, Plan!Ask, StartsIn,
       UnderWay, Sources, Writables
  <2>4. CASE c = "reverse"
    BY <1>1, <2>2, <2>4 DEF Plan!Next, Plan!AskReverse, Plan!Ask, StartsIn,
       UnderWay, Sources, Writables
  <2>5. CASE c = "restore"
    BY <1>1, <2>2, <2>5 DEF Plan!Next, Plan!AskRestore, Plan!Ask, StartsIn,
       UnderWay, Sources, Writables
  <2>6. CASE c = "sync"
    <3>1. phase' = phase
      BY <2>2, <2>6 DEF StartsIn, UnderWay, TypeInv, TypeOK, PlanTypeOK
    <3>2. QED BY <1>1, <2>2, <3>1 DEF Plan!planVars, Sources, Writables
  <2>7. QED BY <2>3, <2>4, <2>5, <2>6 DEF Command
<1>4. CASE Finish
  <2> DEFINE done == {d \in Device : report[d] = "ok"}
  <2>1. /\ pc = "next" /\ cmd \in Command
        /\ phase' = [d \in Device |-> IF d \in done THEN Reached[cmd] ELSE phase[d]]
        /\ home' = [d \in Device |->
                      IF d \in done
                        THEN IF cmd \in {"failover", "restore"}
                               THEN Other(home[d]) ELSE home[d]
                        ELSE home[d]]
    BY <1>4 DEF Finish, TypeInv, ProcessInv
  <2>2. \A d \in done : /\ PhaseInv(d) /\ ReportInv(d)
                        /\ phase[d] = UnderWay[cmd]
    BY <2>1 DEF SafetyInv, ReportInv
  <2>3. \A d \in Device : home[d] \in Site /\ pair[d] \in PairRecord
    BY DEF TypeInv, TypeOK, PlanTypeOK, ArrayTypeOK, Pair
  <2>4. home \in [Device -> Site] /\ phase \in [Device -> Phase]
    BY DEF TypeInv, TypeOK, PlanTypeOK
  <2>5. CASE cmd = "failover"
    <3>1. \A d \in done : phase[d] = "failingOver" /\ Other(home[d]) \in WritableAt(d)
      BY <2>2, <2>3, <2>5 DEF UnderWay, PhaseInv, ReportInv, SourceIsHome,
         Opened, WritableAt
    <3>2. Plan!Promoted(done)
      BY <1>1, <2>1, <2>5, <3>1 DEF Plan!Promoted, Plan!Other, Other, Reached,
         Sources, Writables
    <3>3. QED BY <3>2 DEF Plan!Next
  <2>6. CASE cmd = "reverse"
    <3>1. \A d \in done : phase[d] = "reversing" /\ pair[d].primary = home[d]
      BY <2>2, <2>6 DEF UnderWay, ReportInv, SourceIsHome
    <3>2. home' = home
      BY <2>1, <2>4, <2>6
    <3>3. Plan!Reversed(done)
      BY <1>1, <2>1, <2>6, <3>1, <3>2 DEF Plan!Reversed, Reached, Sources,
         Writables
    <3>4. QED BY <3>3 DEF Plan!Next
  <2>7. CASE cmd = "restore"
    <3>1. \A d \in done : phase[d] = "restoring" /\ pair[d].primary # home[d]
      BY <2>2, <2>7 DEF UnderWay, PhaseInv, SourceIsHome
    <3>2. Plan!Restored(done)
      BY <1>1, <2>1, <2>7, <3>1 DEF Plan!Restored, Plan!Other, Other, Reached,
         Sources, Writables
    <3>3. QED BY <3>2 DEF Plan!Next
  <2>8. CASE cmd = "sync"
    <3>1. home' = home /\ phase' = phase
      BY <2>1, <2>2, <2>4, <2>8 DEF UnderWay, Reached
    <3>2. QED BY <1>1, <3>1 DEF Plan!planVars, Sources, Writables
  <2>9. QED BY <2>1, <2>5, <2>6, <2>7, <2>8 DEF Command
<1>5. QED BY <1>2, <1>3, <1>4

(* RecoveryWorkflow implements RecoveryPlan: crashes, failed calls, stale  *)
(* answers and reruns never show SRM or the hosts anything the contract    *)
(* does not allow.                                                         *)
THEOREM ImplementsPlan ==
  ASSUME SingleDelivery, ManualRecovery
  PROVE  Spec => PlanContract
<1>1. Init => Plan!Init
  BY DEF Init, ArrayInit, CommandInit, Plan!Init, WritableAt, Pair, Other
<1>2. TypeInv /\ SafetyInv /\ [Next]_vars => [Plan!Next]_Plan!planVars
  <2> SUFFICES ASSUME TypeInv, SafetyInv, [Next]_vars
               PROVE  Plan!Next \/ UNCHANGED Plan!planVars
    OBVIOUS
  <2>1. CASE Next
    BY <2>1, NextMoves, MoveImplements, FrameImplements
  <2>2. CASE UNCHANGED vars
    BY <2>2 DEF vars, arrayVars, planVars, Plan!planVars, WritableAt
  <2>3. QED BY <2>1, <2>2
<1>3. QED BY <1>1, <1>2, SafetyInvariant, PTL DEF Spec, PlanContract, Plan!Spec
=============================================================================
