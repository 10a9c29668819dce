------------------------------ MODULE Transport ------------------------------
(***************************************************************************)
(* What the commands take for granted about the calls of the adapters.     *)
(***************************************************************************)
EXTENDS RestCall

Kept == {"none", "in", "refused", "hollow", "lost"}

(* The state of the connections and of the call is of the declared shape: a *)
(* call is at one of the addresses, it has read no more rows than pages     *)
(* from each address can hold, and it retries within its limits.            *)
TypeOK ==
  /\ g_bFusionStorage \in BOOLEAN
  /\ conn \in [1 .. Addresses -> Kept]
  /\ aged \subseteq {a \in 1 .. Addresses : conn[a] # "none"}
  /\ session \subseteq {a \in 1 .. Addresses : conn[a] = "in"}
  /\ stock \in 0 .. MaxRows
  /\ call.at \in 1 .. Addresses
  /\ call.step \in {"connect", "send", "stuck"}
  /\ call.first \in 0 .. stock
  /\ Len(call.rows) <= Addresses * MaxRows
  /\ UnderWay => call.tries \in 1 .. Part.busy
  /\ call.ssl \in 0 .. SSL_ERROR_RETRY_NUM
  /\ call.executed \in 0 .. Addresses + 1

Ended(kind) == call.last.result # "none" /\ call.last.part.kind = kind

(* The answer came from the array or is the error of a failed login: the    *)
(* login at this address was not answered without error and without data.   *)
Answering(last) == conn[last.at] # "hollow"

(* A change that is reported done was executed by the array, and no change  *)
(* is executed more often than there are management addresses, whatever     *)
(* sessions were lost, logins refused and requests repeated on the way      *)
(* (doRequest, getConn and the loop of every call).  It is what Deliveries  *)
(* takes for granted in ReplicationPair and GroupArray.  Two cases are left *)
(* out: the calls through CRESTFusionStorage::fullRestPkg, whose result is  *)
(* undefined when no address answers and may be good when the array         *)
(* refuses, and a login without error and without data, over which nothing  *)
(* is sent and no error is answered.                                        *)
DeliveredAsReported ==
  Ended("change") =>
    LET done == call.last
    IN /\ done.executed <= Addresses
       /\ done.result = "ok" /\ done.part.spent # "any" /\ Answering(done) =>
            done.executed >= 1

(* Shows whose code loses nothing that it has asked for: the range asked    *)
(* for is the one it goes on after, its list is cleared for the next        *)
(* address, no page is read twice, no row is left out and a failure is      *)
(* reported.  Not among them are CMD_shownfs, CMD_shownfs_byfsid,           *)
(* CMD_showhymirrorinfo_all, FusionStorage's CMD_showhyimgoflun, the shows  *)
(* that report success when nothing answered, and CMD_showmap.              *)
Careful(part) ==
  /\ part.full \in {0, part.ask} /\ ~part.keeps /\ ~part.rereads
  /\ part.row \cap {"left", "stuck"} = {}
  /\ part.spent = "error" /\ part.refused = "error" /\ part.lost # "ok"

(* A show that reports success has read every object of the array exactly   *)
(* once and in order, also when pages, addresses or sessions were lost half *)
(* way (the paging loops, for example CMD_showlun and CMD_showhost).  The   *)
(* login without error and without data is left out again: a list ends or   *)
(* is empty there.                                                          *)
ListComplete ==
  Ended("show") =>
    LET done == call.last
    IN done.result = "ok" /\ Careful(done.part) /\ Answering(done) =>
         done.rows = Stock

(* Calls that may go on for ever: the same address is asked again           *)
(* (CMD_shownfs_byfsid), a row is not stepped over (FusionStorage's         *)
(* CMD_showhymirrorinfo_all), or a page is read again while the login is    *)
(* refused (FusionStorage's CMD_showhyimgoflun).                            *)
Endless(c) ==
  \E i \in DOMAIN c :
    c[i].lost = "again" \/ "stuck" \in c[i].row \/ c[i].rereads

(* Every other call ends, though the network never heals: each address gets *)
(* a bounded number of requests.  Assumed is that a request returns.        *)
CallEnds == (UnderWay /\ ~Endless(call.todo)) ~> ~UnderWay

(* An address that is asked again and again is also logged in to again and  *)
(* again: no session the array has forgotten, and no login that was refused *)
(* or not answered, is used for ever (CRESTCmd::getConn).                   *)
LogInAt(a) == call.at = a /\ \E outcome \in Kept : LogIn(outcome)
ReuseAt(a) == call.at = a /\ Reuse

SessionRenewed ==
  \A a \in 1 .. Addresses :
    []<><<ReuseAt(a)>>_vars => []<><<LogInAt(a)>>_vars
=============================================================================
