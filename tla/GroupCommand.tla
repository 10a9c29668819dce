---------------------------- MODULE GroupCommand ----------------------------
(***************************************************************************)
(* One SRA process over units, and the protocol of SRM for the whole cycle *)
(* of a recovery plan: prepareFailover, failover, prepareReverse, reverse  *)
(* and syncOnce, or restore instead of the last three.  As in SraCommand a *)
(* process survives in nothing but what it has done to the arrays, and SRM *)
(* reruns a command until its units are reported.                          *)
(***************************************************************************)
EXTENDS GroupArray

CONSTANTS
  Commands,      \* the commands SRM issues, a subset of Command
  NoUnit         \* cur when no unit is being handled

Command == {"prepareFailover", "failover", "prepareReverse", "reverse",
            "restore", "sync"}
Phase == {"protected", "preparing", "prepared", "failingOver", "promoted",
          "unwinding", "unwound", "reversing", "reversed", "restoring"}

ASSUME GroupCommandAssumption ==
  /\ Commands \subseteq Command
  /\ NoUnit \notin Unit

VARIABLES
  home, phase,   \* SRM's recovery plan: where production runs, what is under way
  cmd, todo,     \* the command running, the units it has still to handle
  asked,         \* all the units of the command
  pc, cur,       \* its next step, the unit it handles
  local,         \* the C++ locals that outlive a REST call
  report         \* what the response will say of each unit

planVars == <<home, phase>>
procVars == <<cmd, todo, asked, pc, cur, local, report>>

(* "none": nothing recorded; "silent": neither <Success> nor <Error>. *)
Result == {"none", "ok", "err", "silent"}
Step == {"idle", "preamble", "find", "hypers", "next", "show", "sparse",
         "suspend", "activate", "members", "swap", "lock", "map", "resync",
         "inquire", "stop", "show again", "done"}

LocalRecord ==
  [seen  : UnitRecord \cup {NoRow},       \* the row the last show returned
   nfs   : BOOLEAN,                       \* SraBasic::isNFS
   rest  : SUBSET Sibling,                \* sibling groups still to be changed
   hyper : SUBSET ((ThreeDC \cup MetroPair) \X Status), \* three_dc_luns: the
                                  \* HyperMetros found, with their status then
   front : Status \cup {"empty"}] \* the front of restore's lst_pair_status
FreshLocal == [seen |-> NoRow, nfs |-> FALSE, rest |-> {}, hyper |-> {},
               front |-> "empty"]

CommandTypeOK ==
  /\ home \in [Unit -> Site]
  /\ phase \in [Unit -> Phase]
  /\ cmd \in Command \cup {"none"}
  /\ todo \subseteq asked /\ asked \subseteq Unit
  /\ pc \in Step
  /\ cur \in Unit \cup {NoUnit}
  /\ local \in LocalRecord
  /\ report \in [Unit -> Result]

NoProcess ==
  /\ cmd = "none" /\ todo = {} /\ asked = {}
  /\ pc = "idle" /\ cur = NoUnit
  /\ local = FreshLocal
  /\ report = [u \in Unit |-> "none"]

CommandInit ==
  /\ home = [u \in Unit |-> "A"]
  /\ phase = [u \in Unit |-> "protected"]
  /\ NoProcess

----------------------------------------------------------------------------
(* The frame of a step. *)
At(c, step) == cmd = c /\ pc = step

Continue(step) ==
  /\ pc' = step
  /\ UNCHANGED <<cmd, todo, asked, cur, report, planVars>>

Answer(result) ==
  /\ report' = [report EXCEPT ![cur] = result]
  /\ pc' = "next"
  /\ UNCHANGED <<cmd, todo, asked, cur, planVars>>

(* A `return' out of the loop over the units of one kind. *)
Abandon(kind, result) ==
  /\ report' = [report EXCEPT ![cur] = result]
  /\ pc' = "next" /\ todo' = todo \ kind
  /\ UNCHANGED <<cmd, asked, cur, planVars>>

Vanish ==
  /\ cmd' = "none" /\ todo' = {} /\ asked' = {}
  /\ pc' = "idle" /\ cur' = NoUnit
  /\ local' = FreshLocal
  /\ report' = [u \in Unit |-> "none"]

(* An error of _outband_process itself replaces the whole response. *)
Fail == Vanish /\ UNCHANGED planVars

(* What failed is recorded as the error of the unit; the next step else. *)
Failing(reply, step) == IF reply = "ok" THEN Continue(step) ELSE Answer("err")

----------------------------------------------------------------------------
(* SRM's side of the protocol. *)
StartsIn ==
  [prepareFailover |-> {"protected", "preparing"},
   failover        |-> {"protected", "prepared", "failingOver"},
   prepareReverse  |-> {"promoted", "unwinding"},
   reverse         |-> {"unwound", "reversing"},
   restore         |-> {"promoted", "restoring"},
   sync            |-> {"protected", "reversed"}]
UnderWay(c, u) ==
  CASE c = "prepareFailover" -> "preparing"
    [] c = "failover"        -> "failingOver"
    [] c = "prepareReverse"  -> "unwinding"
    [] c = "reverse"         -> "reversing"
    [] c = "restore"         -> "restoring"
    [] c = "sync"            -> phase[u]
Reached ==
  [prepareFailover |-> "prepared", failover |-> "promoted",
   prepareReverse |-> "unwound", reverse |-> "reversed",
   restore |-> "protected", sync |-> "protected"]
MovesHome == {"failover", "restore"}

(* The array a command is sent to.  prepareReverse goes to the array that  *)
(* was the source, reverse to the one that becomes it.                     *)
RunsAt(c, u) ==
  IF c \in {"failover", "prepareReverse", "restore"} THEN Other(home[u])
                                                     ELSE home[u]

Begin(c, U) ==
  /\ pc = "idle"
  /\ c \in Commands
  /\ U # {}
  /\ \A u \in U : phase[u] \in StartsIn[c]
  /\ \A u, v \in U : home[u] = home[v]
  /\ cmd' = c /\ todo' = U /\ asked' = U /\ pc' = "preamble"
  /\ phase' = [u \in Unit |-> IF u \in U THEN UnderWay(c, u) ELSE phase[u]]
  /\ UNCHANGED <<groupVars, home, cur, local, report>>

(* SetStorageInfo, _get_array_info and check_array_id_validate_out. *)
Preamble ==
  /\ pc = "preamble"
  /\ UNCHANGED groupVars
  /\ \/ /\ Continue(IF cmd = "prepareReverse" THEN "find" ELSE "next")
        /\ UNCHANGED local
     \/ Fail

Crash ==
  /\ pc # "idle"
  /\ Fail
  /\ UNCHANGED groupVars

(* reverse goes on with the HyperMetros of its units after the last one. *)
Finish ==
  /\ pc = (IF cmd = "reverse" THEN "done" ELSE "next") /\ todo = {}
  /\ LET done == {u \in asked : report[u] = "ok"}
     IN /\ phase' = [u \in Unit |-> IF u \in done THEN Reached[cmd]
                                                  ELSE phase[u]]
        /\ home' = [u \in Unit |->
                      IF u \in done /\ cmd \in MovesHome THEN Other(home[u])
                                                         ELSE home[u]]
  /\ Vanish
  /\ UNCHANGED groupVars

(* One loop over the units follows the other, in the order _outband_process *)
(* calls them.                                                              *)
LoopsOf ==
  [prepareFailover |-> <<MetroPair, Mirror, MetroGroup>>,
   failover        |-> <<MetroPair, Mirror, MetroGroup>>,
   prepareReverse  |-> <<Mirror>>,
   reverse         |-> <<MetroPair, Mirror, MetroGroup>>,
   restore         |-> <<Mirror, MetroGroup, MetroPair>>,
   sync            |-> <<MetroPair, Mirror, MetroGroup>>]

PickUnit ==
  /\ pc = "next"
  /\ \E i \in DOMAIN LoopsOf[cmd] :
       /\ \A j \in 1 .. i - 1 : LoopsOf[cmd][j] \cap todo = {}
       /\ \E u \in LoopsOf[cmd][i] \cap todo :
            cur' = u /\ todo' = todo \ {u}
  /\ pc' = "show"
  /\ local' = [FreshLocal EXCEPT !.hyper = local.hyper, !.front = local.front]
  /\ UNCHANGED <<groupVars, cmd, asked, report, planVars>>
=============================================================================
