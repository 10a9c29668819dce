----------------------------- MODULE RestProfile -----------------------------
(***************************************************************************)
(* How a CMD_* function of the two REST adapters sends its requests.       *)
(*                                                                         *)
(* A call is a sequence of parts, sent one after the other until one       *)
(* fails.  A part is one loop over the management addresses of the array   *)
(* (rstLogInInfo.lstArrayIP), and the functions differ in a few points:    *)
(*   kind     "change": the array does something; "show": it answers rows  *)
(*   ask      rows asked for in one request                                *)
(*   full     rows after which a further page is asked for, 0 for none     *)
(*   lost     what a transport error leads to: the "next" address, the     *)
(*            same one "again", the next one for the page alone            *)
(*            ("onward"), or the result "ok" or "error"                    *)
(*   refused  the result when the array answers with an error; "any" where *)
(*            it depends on the type of a field of the answer              *)
(*   spent    the result when no address is left; "any" if the function    *)
(*            ends without a return statement                              *)
(*   empty    the result when the answer holds no row                      *)
(*   keeps    the rows read from an address survive the change to the next *)
(*   rereads  the answer to the page before is read as that of the next    *)
(*            when the login is refused between them                       *)
(*   busy     requests sent to an address that answers "busy"              *)
(*   row      what a row may lead to that a request of its own is sent     *)
(*            for: the "next" address, an "error", the row "left" out, or  *)
(*            a loop that does not get past it ("stuck")                   *)
(*   check    a condition may end the call before the first request, with  *)
(*            an error or with nothing to do                               *)
(*   skip     parts a condition may leave out from this one on             *)
(*   ignored  parts left out from this one on when it fails: the caller    *)
(*            does not look at their result; 0 if the call fails           *)
(***************************************************************************)
EXTENDS Naturals, Sequences

CONSTANTS
  RECOMMEND_RANGE_COUNT,  \* 150, CmdRESTAdapter.h
  SPECIAL_RANGE_COUNT,    \* 100, CmdRESTAdapter.h
  MaxRows                 \* bound: objects the array holds

ASSUME RangeAssumption ==
  /\ SPECIAL_RANGE_COUNT \in 1 .. RECOMMEND_RANGE_COUNT
  /\ RECOMMEND_RANGE_COUNT \in Nat
  /\ MaxRows \in Nat

Result == {"ok", "error"}

PartRecord ==
  [kind : {"change", "show"}, ask : Nat, full : Nat,
   lost : {"next", "again", "onward"} \cup Result,
   refused : Result \cup {"any"}, spent : Result \cup {"any"},
   empty : Result, keeps : BOOLEAN, rereads : BOOLEAN, busy : Nat \ {0},
   row : SUBSET {"next", "error", "left", "stuck"}, check : BOOLEAN,
   skip : Nat, ignored : Nat]

(* What all the functions have in common: a change is one request, a request *)
(* that is not for a page is answered with all the rows, and a page that is  *)
(* asked for again at the next address leaves no row of it behind.           *)
Regular(part) ==
  /\ part.kind = "change" => part.full = 0
  /\ part.full = 0 => part.ask >= MaxRows
  /\ part.lost = "onward" => ~part.keeps /\ "next" \notin part.row
  /\ part.rereads => part.lost = "onward" /\ part.full > 0

Parts == {part \in PartRecord : Regular(part)}

(* PUT, POST and DELETE: one request, the next address when it is lost, the *)
(* error of the array is the result.                                        *)
Change ==
  [kind |-> "change", ask |-> MaxRows, full |-> 0, lost |-> "next",
   refused |-> "error", spent |-> "error", empty |-> "ok", keeps |-> FALSE,
   rereads |-> FALSE, busy |-> 1, row |-> {}, check |-> FALSE, skip |-> 0,
   ignored |-> 0]

(* A change the array may be too busy for (0x4040071F), sent three times.   *)
Patient == [Change EXCEPT !.busy = 3]

(* GET of all the rows there are, and of the one row with an identifier.    *)
Show == [Change EXCEPT !.kind = "show"]
Find == [Show EXCEPT !.empty = "error"]

(* GET in pages. *)
Pages ==
  [Show EXCEPT !.ask = RECOMMEND_RANGE_COUNT, !.full = RECOMMEND_RANGE_COUNT]

(* The caller goes on whatever these parts give. *)
Ignored(parts) ==
  [i \in DOMAIN parts |->
     IF parts[i].ignored > 0 THEN parts[i]
     ELSE [parts[i] EXCEPT !.ignored = Len(parts) - i + 1]]

(* Sent only under a condition on what the function knows. *)
Optional(parts) == [parts EXCEPT ![1].skip = Len(parts)]

(* A condition may end the call before the first request. *)
Checked(parts) == [parts EXCEPT ![1].check = TRUE]
=============================================================================
