---------------------------- MODULE RecoveryPlan ----------------------------
(***************************************************************************)
(* What the SRA promises SRM about a replicated device, without processes, *)
(* REST calls or pair statuses: at which sites the hosts can write, from   *)
(* which site data is replicated, and how both may move while a command is *)
(* under way.  RecoveryWorkflow implements it when a request is delivered  *)
(* at most once.                                                           *)
(***************************************************************************)
CONSTANT Device

VARIABLES
  home,       \* [Device -> Site], where production runs
  phase,      \* [Device -> Phase], what SRM has asked for or been told
  source,     \* [Device -> Site], where replication runs from
  writable    \* [Device -> SUBSET Site], where the hosts can write

planVars == <<home, phase, source, writable>>

Site == {"A", "B"}
Other(site) == IF site = "A" THEN "B" ELSE "A"

Init ==
  /\ home = [d \in Device |-> "A"]
  /\ phase = [d \in Device |-> "protected"]
  /\ source = [d \in Device |-> "A"]
  /\ writable = [d \in Device |-> {"A"}]

(* SRM asks for an operation on some devices, or asks again. *)
Ask(D, from, underway) ==
  /\ \A d \in D : phase[d] \in {from, underway}
  /\ phase' = [d \in Device |-> IF d \in D THEN underway ELSE phase[d]]
  /\ UNCHANGED <<home, source, writable>>

AskFailover(D) == Ask(D, "protected", "failingOver")
AskReverse(D)  == Ask(D, "promoted", "reversing")
AskRestore(D)  == Ask(D, "promoted", "restoring")

(* SRM is told that the operation is done for some devices. *)
Promoted(D) ==
  /\ \A d \in D : phase[d] = "failingOver" /\ Other(home[d]) \in writable[d]
  /\ phase' = [d \in Device |-> IF d \in D THEN "promoted" ELSE phase[d]]
  /\ home' = [d \in Device |-> IF d \in D THEN Other(home[d]) ELSE home[d]]
  /\ UNCHANGED <<source, writable>>

Reversed(D) ==
  /\ \A d \in D : phase[d] = "reversing" /\ source[d] = home[d]
  /\ phase' = [d \in Device |-> IF d \in D THEN "protected" ELSE phase[d]]
  /\ UNCHANGED <<home, source, writable>>

Restored(D) ==
  /\ \A d \in D : phase[d] = "restoring" /\ source[d] # home[d]
  /\ phase' = [d \in Device |-> IF d \in D THEN "protected" ELSE phase[d]]
  /\ home' = [d \in Device |-> IF d \in D THEN Other(home[d]) ELSE home[d]]
  /\ UNCHANGED <<source, writable>>

(* The recovery site is opened to the hosts beside the production site. *)
Open(d) ==
  /\ phase[d] = "failingOver"
  /\ writable' = [writable EXCEPT ![d] = Site]
  /\ UNCHANGED <<home, phase, source>>

(* Replication turns to run from the production site, which stays open. *)
Turn(d) ==
  /\ phase[d] = "reversing"
  /\ source[d] # home[d] /\ writable[d] = Site
  /\ source' = [source EXCEPT ![d] = home[d]]
  /\ UNCHANGED <<home, phase, writable>>

(* The side replication runs to is closed: the former production site of a *)
(* reversed device, the site a restore gives up.                           *)
Close(d) ==
  /\ phase[d] = "reversing" => source[d] = home[d]
  /\ phase[d] \in {"reversing", "restoring"}
  /\ writable' = [writable EXCEPT ![d] = {source[d]}]
  /\ UNCHANGED <<home, phase, source>>

Next ==
  \/ \E D \in SUBSET Device :
       \/ AskFailover(D) \/ AskReverse(D) \/ AskRestore(D)
       \/ Promoted(D) \/ Reversed(D) \/ Restored(D)
  \/ \E d \in Device : Open(d) \/ Turn(d) \/ Close(d)

Spec == Init /\ [][Next]_planVars
=============================================================================
