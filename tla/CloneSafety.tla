---------------------------- MODULE CloneSafety ----------------------------
(***************************************************************************)
(* The inductive invariants of CloneTest: which device a process is at,    *)
(* which clone is whose, and what a start knows of the clones it goes on   *)
(* to name.                                                                *)
(***************************************************************************)
EXTENDS CloneTest

(* The steps at one device, and those for one kind of device. *)
AtDevice == {"create", "find", "unshare", "reshare", "snap", "clone", "mapHost",
             "findShare", "delShare", "delClone", "showRows", "unmap", "delLun",
             "delSnap"}
ForFileSystem == {"create", "share", "unshare", "reshare", "list", "findShare",
                  "delShare", "delClone"}
ForLun == {"snap", "clone", "map", "mapHost", "identify", "showRows", "unmap",
           "delLun", "delSnap"}

(* A process is at devices of its command, all of one kind, and no other   *)
(* command of SRM is under way for them.                                   *)
TurnInv ==
  /\ pc = "idle" => cmd = "none" /\ Asked = {} /\ local = FreshLocal
  /\ pc # "idle" => cmd \in {"start", "stop"} /\ Asked # {}
  /\ todo \subseteq Asked /\ Asked \subseteq served
  /\ \A d \in Asked :
       phase[d] = IF cmd = "start" THEN "starting" ELSE "stopping"
  /\ pc \in AtDevice => cur \in todo
  /\ pc \in ForFileSystem => Asked \subseteq FS
  /\ pc \in ForLun => Asked \subseteq Device \ FS

TypeInv == TypeOK /\ TurnInv

(* A device has one clone at most, which has its name. *)
OneClone ==
  \A c1, c2 \in CloneId :
    cloneOf[c1] = cloneOf[c2] /\ cloneOf[c1] # NoObject => c1 = c2

(* What a process has read of the clones still holds when it uses it. *)
KnownInv ==
  /\ pc = "delSnap" => cur \in misled \/ ClonesOf(cur) = {}
  /\ pc \in {"showRows", "unmap", "delLun"} => (local.exist <=> cur \in snapped)
  /\ pc \in {"findShare", "delShare", "delClone", "unmap"} =>
       local.found[cur] \in ClonesOf(cur)
  /\ cmd = "start" =>
       \A d \in Device : local.found[d] # NoObject =>
         d \in Asked /\ local.found[d] \in ClonesOf(d)
  /\ cmd = "start" /\ local.nfs # NoObject => cloneOf[local.nfs] \in Asked

Gone(d) == d \notin snapped /\ (d \in misled \/ ClonesOf(d) = {})
GoneInv ==
  /\ StoppedIsGone
  /\ cmd = "stop" => \A d \in Device : report[d] = "ok" => Gone(d)

CopyInv == OneClone /\ KnownInv /\ GoneInv

(* The start is through with the device: the clone it has found can be     *)
(* used, as far as it was told the truth.  Its loops pass over a device    *)
(* with an error, and end the command at any other that has no clone or    *)
(* cannot be exposed.                                                      *)
Ready(d) == report[d] # "err" => /\ local.found[d] # NoObject
                                 /\ d \in misled \/ Exposed(local.found[d])
StartInv ==
  /\ pc \in {"share", "map", "mapHost"} => \A d \in Asked \ todo : Ready(d)
  /\ pc = "mapHost" => /\ local.found[cur] # NoObject
                       /\ \/ cur \in misled
                          \/ Host \ hosts[local.found[cur]] \subseteq local.rows
  /\ pc \in {"list", "identify"} => \A d \in Asked : Ready(d)
  /\ pc = "respond" /\ cmd = "start" => \A d \in Asked : Ready(d)

ReadyInv == TestedIsExposed /\ StartInv
=============================================================================
