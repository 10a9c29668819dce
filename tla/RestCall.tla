------------------------------ MODULE RestCall -------------------------------
(***************************************************************************)
(* The transport under the commands: one process of the adapter, its       *)
(* connections to the management addresses of one array                    *)
(* (CmdAdapter/RESTConn.cpp, CRESTCmd::getConn) and the calls it makes     *)
(* through them, part by part (RestProfile).                               *)
(*                                                                         *)
(* A connection logs in when it is constructed and remembers the outcome:  *)
(*   "in"       a session was opened;                                      *)
(*   "refused"  the array answered the login with an error, which          *)
(*              doRequest then returns as the answer of every request;     *)
(*   "hollow"   an OceanStor array answered it without an error and        *)
(*              without data: that counts as a failed login too, and the   *)
(*              answer to every request is that there is no error and no   *)
(*              data;                                                      *)
(*   "lost"     the login was not answered: every request fails.           *)
(* It is kept until it is older than SESSION_INVALID_TIME, ten minutes,    *)
(* whatever the array does with the session meanwhile.                     *)
(***************************************************************************)
EXTENDS RestProfile, SequencesExt

CONSTANTS
  Calls,                \* [BOOLEAN -> the calls of the adapter], by
                        \* g_bFusionStorage; a call is a sequence of parts
  Addresses,            \* management addresses of the array
  SSL_ERROR_RETRY_NUM   \* 10, RESTConn.cpp; lowered in the instances

ASSUME TransportAssumption ==
  /\ Addresses \in Nat \ {0}
  /\ SSL_ERROR_RETRY_NUM \in Nat
  /\ DOMAIN Calls = BOOLEAN
  /\ \A fusion \in BOOLEAN : Calls[fusion] \subseteq Seq(Parts)

VARIABLES
  g_bFusionStorage,  \* which of the two adapters the process uses
  conn,      \* [1 .. Addresses -> the outcome of the login], m_connList
  aged,      \* addresses whose connection is older than SESSION_INVALID_TIME
  session,   \* addresses whose session the array still knows
  stock,     \* number of objects the array holds: 1 .. stock
  call       \* the call under way

vars == <<g_bFusionStorage, conn, aged, session, stock, call>>

Stock == [i \in 1 .. stock |-> i]

(* A part that has ended, for the properties to speak about. *)
NoPart ==
  [part |-> <<>>, result |-> "none", at |-> 1, executed |-> 0, rows |-> <<>>]

(* The next part goes through the addresses from the first. *)
Walk(todo) ==
  [todo |-> todo, at |-> 1, step |-> "connect", first |-> 0,
   rows |-> <<>>, tries |-> 1, ssl |-> 0, executed |-> 0, last |-> NoPart]

Part == Head(call.todo)
UnderWay == call.todo # <<>>
Connecting == UnderWay /\ call.step = "connect"
Sending == UnderWay /\ call.step = "send"
Fresh == Connecting /\ call.at = 1 /\ call.first = 0

Init ==
  /\ g_bFusionStorage \in BOOLEAN
  /\ conn = [a \in 1 .. Addresses |-> "none"]
  /\ aged = {}
  /\ session = {}
  /\ stock \in 0 .. MaxRows
  /\ call = Walk(<<>>)

Issue ==
  /\ ~UnderWay
  /\ \E c \in Calls[g_bFusionStorage] : call' = Walk(c)
  /\ UNCHANGED <<g_bFusionStorage, conn, aged, session, stock>>

----------------------------------------------------------------------------
(* What becomes of the call, c, after a reply. *)
Results(result) == IF result = "any" THEN {"ok", "error"} ELSE {result}

(* The part ends; the call with it, or the next part to be sent begins.    *)
Concluded(c, result) ==
  LET part == Head(c.todo)
      left == CASE result = "ok"    -> 1
                [] part.ignored > 0 -> part.ignored
                [] OTHER            -> Len(c.todo)
  IN [Walk(SubSeq(c.todo, left + 1, Len(c.todo))) EXCEPT
        !.last = [part |-> part, result |-> result, at |-> c.at,
                  executed |-> c.executed, rows |-> c.rows]]

(* The list is cleared when the next address is tried. *)
KeptRows_NotCleared(part, rows) == rows
KeptRows(part, rows) ==
  IF part.keeps \/ part.lost = "onward" THEN rows ELSE <<>>

NextAddress_RoundRobin(c) ==
  call' = [c EXCEPT !.at = (@ % Addresses) + 1, !.step = "connect",
                    !.first = IF Part.lost = "onward" THEN @ ELSE 0,
                    !.rows = KeptRows(Part, @), !.tries = 1, !.ssl = 0]
NextAddress(c) ==
  IF c.at < Addresses
    THEN call' = [c EXCEPT !.at = @ + 1, !.step = "connect",
                           !.first = IF Part.lost = "onward" THEN @ ELSE 0,
                           !.rows = KeptRows(Part, @), !.tries = 1, !.ssl = 0]
    ELSE \E result \in Results(Part.spent) : call' = Concluded(c, result)

Failed(c) ==
  CASE Part.lost \in {"next", "onward"} -> NextAddress(c)
    [] Part.lost = "again" -> call' = [c EXCEPT !.ssl = 0]
    [] OTHER -> call' = Concluded(c, Part.lost)

(* Bound: beyond one execution for each address they are not counted. *)
Executed(c) ==
  [c EXCEPT !.executed = IF c.first = 0 THEN Min({@ + 1, Addresses + 1}) ELSE @]

Page(c) ==
  IF Part.kind = "change" THEN <<>>
  ELSE SubSeq(Stock, c.first + 1, Min({c.first + Part.ask, stock}))

(* The rows of a page are in the list: a full page asks for the next one,   *)
(* which fullRestPkg sends to the first address again.                      *)
PageRead(c, size) ==
  IF Part.full > 0 /\ size = Part.full
    THEN LET anew == Part.lost = "onward"
         IN [c EXCEPT !.first = @ + Part.full, !.ssl = 0,
                      !.at = IF anew THEN 1 ELSE @,
                      !.step = IF anew THEN "connect" ELSE @]
    ELSE Concluded(c, IF c.rows = <<>> THEN Part.empty ELSE "ok")

----------------------------------------------------------------------------
(* getConn: a connection is constructed, and logs in, when there is none    *)
(* for the address or when it is too old; the old one logs out first.       *)
Renewed_FirstOnly == conn[call.at] = "none"
Renewed == conn[call.at] = "none" \/ call.at \in aged

LogIn(outcome) ==
  /\ Connecting /\ Renewed
  /\ outcome = "hollow" => ~g_bFusionStorage
  /\ conn' = [conn EXCEPT ![call.at] = outcome]
  /\ aged' = aged \ {call.at}
  /\ session' = IF outcome = "in" THEN session \cup {call.at}
                ELSE session \ {call.at}
  /\ call' = [call EXCEPT !.step = "send", !.last = NoPart]
  /\ UNCHANGED <<g_bFusionStorage, stock>>

Reuse ==
  /\ Connecting /\ ~Renewed
  /\ call' = [call EXCEPT !.step = "send", !.last = NoPart]
  /\ UNCHANGED <<g_bFusionStorage, conn, aged, session, stock>>

(* By what is known, the part is not called for, or the call ends here.     *)
Skip ==
  /\ Fresh /\ Part.skip > 0
  /\ call' = Walk(SubSeq(call.todo, Part.skip + 1, Len(call.todo)))
  /\ UNCHANGED <<g_bFusionStorage, conn, aged, session, stock>>

Reject ==
  /\ Fresh /\ Part.check
  /\ call' = Walk(<<>>)
  /\ UNCHANGED <<g_bFusionStorage, conn, aged, session, stock>>

----------------------------------------------------------------------------
(* The replies to a request. *)
LoggedIn == Sending /\ conn[call.at] = "in"
Accepted == LoggedIn /\ call.at \in session

Served ==
  /\ Accepted
  /\ LET c == Executed(call)
         page == Page(c)
     IN call' = PageRead([c EXCEPT !.rows = @ \o page], Len(page))
  /\ UNCHANGED <<g_bFusionStorage, conn, aged, session, stock>>

(* A request about row i of the page fails, or the loop does not leave it.  *)
RowFails ==
  /\ Accepted
  /\ LET c == Executed(call)
         page == Page(c)
     IN \E i \in 1 .. Len(page), outcome \in Part.row :
          LET before == [c EXCEPT !.rows = @ \o SubSeq(page, 1, i - 1)]
          IN CASE outcome = "next"  -> NextAddress(before)
               [] outcome = "error" -> call' = Concluded(before, "error")
               [] outcome = "stuck" -> call' = [before EXCEPT !.step = "stuck"]
               [] outcome = "left"  ->
                    call' = PageRead([c EXCEPT !.rows = @ \o RemoveAt(page, i)],
                                     Len(page))
  /\ UNCHANGED <<g_bFusionStorage, conn, aged, session, stock>>

Stuck ==
  /\ UnderWay /\ call.step = "stuck"
  /\ UNCHANGED vars

(* The array answers with an error, to a session it no longer knows always; *)
(* or the remembered answer to the login is returned.                       *)
Refused ==
  /\ LoggedIn \/ (Sending /\ conn[call.at] = "refused")
  /\ \E result \in Results(Part.refused) : call' = Concluded(call, result)
  /\ UNCHANGED <<g_bFusionStorage, conn, aged, session, stock>>

(* A login answered without error and without data: a change is taken for   *)
(* done, and a list for one that ends here, and nothing is sent.            *)
Hollow ==
  /\ Sending /\ conn[call.at] = "hollow"
  /\ call' = PageRead(call, 0)
  /\ UNCHANGED <<g_bFusionStorage, conn, aged, session, stock>>

(* The answer to a refused login does not replace m_responseObjects, where  *)
(* the page before is still found (CRestPackage::operator=); that page may  *)
(* be read again and again.  Bound: beyond the last object the range does   *)
(* not grow any more, and what is read again there is not kept.             *)
PageBefore(rows) == SubSeq(rows, Len(rows) - Part.full + 1, Len(rows))
Reread ==
  /\ Sending /\ conn[call.at] = "refused"
  /\ Part.rereads /\ Part.full <= Len(call.rows)
  /\ LET beyond == call.first + Part.full > stock
     IN call' = [call EXCEPT
                   !.first = IF beyond THEN stock ELSE @ + Part.full,
                   !.rows = IF beyond THEN @ ELSE @ \o PageBefore(@),
                   !.at = 1, !.step = "connect", !.ssl = 0]
  /\ UNCHANGED <<g_bFusionStorage, conn, aged, session, stock>>

(* 0x4040071F: sent again after three seconds, then to the next address.    *)
Busy_OneMore ==
  /\ Accepted /\ Part.busy > 1
  /\ IF call.tries <= Part.busy
       THEN call' = [call EXCEPT !.tries = @ + 1, !.ssl = 0]
       ELSE NextAddress(call)
  /\ UNCHANGED <<g_bFusionStorage, conn, aged, session, stock>>
Busy ==
  /\ Accepted /\ Part.busy > 1
  /\ IF call.tries < Part.busy
       THEN call' = [call EXCEPT !.tries = @ + 1, !.ssl = 0]
       ELSE NextAddress(call)
  /\ UNCHANGED <<g_bFusionStorage, conn, aged, session, stock>>

(* doRequest: CURLE_SSL_CONNECT_ERROR comes before the request is sent.     *)
SslError ==
  /\ LoggedIn
  /\ IF call.ssl < SSL_ERROR_RETRY_NUM
       THEN call' = [call EXCEPT !.ssl = @ + 1]
       ELSE Failed(call)
  /\ UNCHANGED <<g_bFusionStorage, conn, aged, session, stock>>

(* Any other transport error: the request was executed or it was not.       *)
Lost ==
  /\ LoggedIn \/ (Sending /\ conn[call.at] = "lost")
  /\ \E c \in {call} \cup IF Accepted THEN {Executed(call)} ELSE {} : Failed(c)
  /\ UNCHANGED <<g_bFusionStorage, conn, aged, session, stock>>

----------------------------------------------------------------------------
(* The array forgets a session: a timeout of its own, a restart, a limit.   *)
Evict(a) ==
  /\ session' = session \ {a} /\ session' # session
  /\ UNCHANGED <<g_bFusionStorage, conn, aged, stock, call>>

Age(a) ==
  /\ conn[a] # "none" /\ a \notin aged
  /\ aged' = aged \cup {a}
  /\ UNCHANGED <<g_bFusionStorage, conn, session, stock, call>>

Process ==
  \/ \E outcome \in {"in", "refused", "hollow", "lost"} : LogIn(outcome)
  \/ Reuse \/ Skip \/ Reject
  \/ Served \/ RowFails \/ Refused \/ Hollow \/ Reread
  \/ Busy \/ SslError \/ Lost \/ Stuck

Next ==
  \/ Issue
  \/ Process
  \/ \E a \in 1 .. Addresses : Evict(a) \/ Age(a)

(* The process runs on, curl returns from every request, time passes.       *)
Fairness ==
  /\ WF_vars(Process)
  /\ \A a \in 1 .. Addresses : WF_vars(Age(a))

Spec == Init /\ [][Next]_vars /\ Fairness

=============================================================================
