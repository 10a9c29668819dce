--------------------------- MODULE Transport_proofs ---------------------------
(***************************************************************************)
(* Proofs about the transport.  The invariants speak of a call record, c,  *)
(* because the steps pass one on: what Executed and Page make of the call  *)
(* is no state of its own.                                                 *)
(***************************************************************************)
EXTENDS Transport, SequenceTheorems, TLAPS

Ending ==
  [part : Parts, result : Result, at : 1 .. Addresses,
   executed : 0 .. Addresses + 1, rows : Seq(Nat)]

CallRecord ==
  [todo : Seq(Parts), at : 1 .. Addresses, step : {"connect", "send", "stuck"},
   first : 0 .. stock, rows : Seq(Nat), tries : Nat,
   ssl : 0 .. SSL_ERROR_RETRY_NUM, executed : 0 .. Addresses + 1,
   last : {NoPart} \cup Ending]

(* The rows of an address are no more than those of the pages read from it. *)
Room(c) ==
  LET part == Head(c.todo)
  IN IF c.todo # <<>>
       THEN /\ c.tries \in 1 .. part.busy
            /\ c.step = "stuck" => Len(c.rows) <= c.at * stock
            /\ c.step # "stuck" =>
                 Len(c.rows) <= IF part.keeps THEN (c.at - 1) * stock + c.first
                                ELSE c.first
       ELSE c.rows = <<>>

Fits(c) == c \in CallRecord /\ Room(c)

TypeInv ==
  /\ g_bFusionStorage \in BOOLEAN
  /\ conn \in [1 .. Addresses -> Kept]
  /\ aged \subseteq {a \in 1 .. Addresses : conn[a] # "none"}
  /\ session \subseteq {a \in 1 .. Addresses : conn[a] = "in"}
  /\ stock \in 0 .. MaxRows
  /\ Fits(call)

(* The result of a change is not made up. *)
Honest(part) ==
  /\ part.lost \notin {"again", "ok"}
  /\ part.spent = "error" => part.refused = "error"
  /\ part.spent # "ok"

AllHonest(todo) ==
  \A i \in 1 .. Len(todo) : todo[i].kind = "change" => Honest(todo[i])

HonestCalls == \A fusion \in BOOLEAN : \A c \in Calls[fusion] : AllHonest(c)

(* The calls the two adapters make (CmdRESTAdapter.cpp and                  *)
(* CmdRESTFusionStorage.cpp), and the parts they may be made of.             *)
OceanStor == INSTANCE ArrayCalls
Fusion == INSTANCE FusionCalls

HonestParts == {part \in Parts : part.kind = "change" => Honest(part)}

(* A change is one request to each address: it has been executed at those  *)
(* before the present one at most.                                         *)
LastDelivered(c) ==
  c.last.result # "none" /\ c.last.part.kind = "change" =>
    /\ c.last.executed <= Addresses
    /\ c.last.result = "ok" /\ c.last.part.spent # "any" /\ Answering(c.last) =>
         c.last.executed >= 1

Delivers(c) ==
  /\ AllHonest(c.todo)
  /\ c.todo # <<>> /\ Head(c.todo).kind = "change" =>
       c.first = 0 /\ c.executed <= c.at - 1
  /\ LastDelivered(c)

(* The list of a careful show holds the rows of the pages read so far.      *)
LastListed(c) ==
  c.last.result = "ok" /\ c.last.part.kind = "show" /\ Careful(c.last.part)
    /\ Answering(c.last) => c.last.rows = Stock

Listed(c) ==
  /\ c.todo # <<>> /\ Head(c.todo).kind = "show" /\ Careful(Head(c.todo)) =>
       c.step # "stuck" /\ c.rows = [i \in 1 .. c.first |-> i]
  /\ LastListed(c)

----------------------------------------------------------------------------
(* The fields of a part, one by one.                                        *)
LEMMA PartFields ==
  ASSUME NEW part \in Parts
  PROVE  /\ part.kind \in {"change", "show"} /\ part.ask \in Nat
         /\ part.full \in Nat
         /\ part.lost \in {"next", "again", "onward", "ok", "error"}
         /\ part.refused \in {"ok", "error", "any"}
         /\ part.spent \in {"ok", "error", "any"}
         /\ part.empty \in {"ok", "error"} /\ part.keeps \in BOOLEAN
         /\ part.rereads \in BOOLEAN
         /\ part.busy \in Nat \ {0}
         /\ part.row \subseteq {"next", "error", "left", "stuck"}
         /\ part.skip \in Nat /\ part.ignored \in Nat
         /\ Regular(part)
BY DEF Parts, PartRecord, Result

(* Those of a call; what is left of it are calls of parts.                  *)
LEMMA CallFields ==
  ASSUME NEW c \in CallRecord
  PROVE  /\ c.todo \in Seq(Parts) /\ c.at \in 1 .. Addresses
         /\ c.step \in {"connect", "send", "stuck"} /\ c.first \in 0 .. stock
         /\ c.rows \in Seq(Nat) /\ Len(c.rows) \in Nat /\ c.tries \in Nat
         /\ c.ssl \in 0 .. SSL_ERROR_RETRY_NUM
         /\ c.executed \in 0 .. Addresses + 1
         /\ c.last \in {NoPart} \cup Ending
         /\ c.todo # <<>> => Head(c.todo) \in Parts
BY HeadTailProperties, LenProperties DEF CallRecord

(* A call that begins. *)
LEMMA WalkFits ==
  ASSUME stock \in Nat, NEW todo \in Seq(Parts)
  PROVE  Fits(Walk(todo))
<1> DEFINE w == Walk(todo)
<1>1. w.rows = <<>> /\ w.first = 0 /\ w.at = 1 /\ w.step = "connect"
      /\ w.tries = 1 /\ w.todo = todo /\ w.executed = 0 /\ w.ssl = 0
  BY DEF Walk
<1>2. w \in CallRecord
  BY TransportAssumption, EmptySeq DEF Walk, CallRecord
<1>3. todo # <<>> => Head(todo).busy \in Nat \ {0}
  BY PartFields, HeadTailProperties
<1>4. Len(<<>>) = 0
  BY EmptySeq
<1>5. Room(w)
  <2> HIDE DEF w
  <2>1. CASE todo = <<>>
    BY <1>1, <2>1 DEF Room
  <2>2. CASE todo # <<>>
    BY <1>1, <1>3, <1>4, <2>2 DEF Room
  <2>3. QED BY <2>1, <2>2
<1>6. QED BY <1>2, <1>5 DEF Fits

(* A part that ends, and the call with it or not. *)
LEMMA ConcludedFits ==
  ASSUME stock \in Nat,
         NEW c \in CallRecord, c.todo # <<>>, NEW result \in Result
  PROVE  /\ Fits(Concluded(c, result))
         /\ Concluded(c, result).last =
              [part |-> Head(c.todo), result |-> result, at |-> c.at,
               executed |-> c.executed, rows |-> c.rows]
         /\ Concluded(c, result).at = 1 /\ Concluded(c, result).first = 0
         /\ Concluded(c, result).rows = <<>> /\ Concluded(c, result).executed = 0
         /\ Concluded(c, result).step = "connect"
         /\ Concluded(c, result).todo = <<>> \/
            \E n \in 1 .. Len(c.todo) :
              Concluded(c, result).todo = SubSeq(c.todo, n, Len(c.todo))
<1> DEFINE part == Head(c.todo)
           left == CASE result = "ok" -> 1
                     [] part.ignored > 0 -> part.ignored
                     [] OTHER -> Len(c.todo)
           rest == SubSeq(c.todo, left + 1, Len(c.todo))
           ending == [part |-> part, result |-> result, at |-> c.at,
                      executed |-> c.executed, rows |-> c.rows]
           w == Walk(rest)
           d == Concluded(c, result)
<1>1. part \in Parts /\ part.ignored \in Nat
  BY CallFields, PartFields
<1>2. c.todo \in Seq(Parts) /\ Len(c.todo) \in Nat \ {0}
  BY CallFields, EmptySeq
<1>3. left \in Nat \ {0}
  BY <1>1, <1>2
<1>4. d = [w EXCEPT !.last = ending]
  BY DEF Concluded
<1>5. \A i \in left + 1 .. Len(c.todo) : c.todo[i] \in Parts
  <2> HIDE DEF left
  <2> QED BY <1>2, <1>3, ElementOfSeq
<1>6. rest \in Seq(Parts)
  <2> HIDE DEF left
  <2> QED BY <1>2, <1>3, <1>5, SubSeqProperties
<1>7. rest = <<>> \/ \E n \in 1 .. Len(c.todo) : rest = SubSeq(c.todo, n, Len(c.todo))
  <2> HIDE DEF left
  <2>1. CASE left + 1 <= Len(c.todo)
    BY <1>2, <1>3, <2>1
  <2>2. CASE left + 1 > Len(c.todo)
    BY <1>2, <1>3, <2>2, SubSeqEmpty
  <2>3. QED BY <1>2, <1>3, <2>1, <2>2
<1> HIDE DEF rest
<1>8. Fits(w)
  BY <1>6, WalkFits
<1>9. ending \in Ending
  BY <1>1, CallFields DEF Ending
<1>10. w \in CallRecord /\ w.todo = rest
  BY <1>8 DEF Fits, Walk
<1>11. d \in CallRecord /\ d.last = ending /\ d.todo = rest
  <2> HIDE DEF w, ending
  <2> QED BY <1>4, <1>9, <1>10 DEF CallRecord
<1>12. Room(d)
  <2>1. d.todo = w.todo /\ d.rows = w.rows /\ d.tries = w.tries
        /\ d.at = w.at /\ d.first = w.first /\ d.step = w.step
    BY <1>4 DEF Walk
  <2>2. Room(w)
    BY <1>8 DEF Fits
  <2> HIDE DEF w, d
  <2>3. QED BY <2>1, <2>2 DEF Room
<1>13. /\ d.at = 1 /\ d.first = 0 /\ d.rows = <<>> /\ d.executed = 0
       /\ d.step = "connect"
  BY <1>4 DEF Walk
<1>14. QED BY <1>7, <1>11, <1>12, <1>13 DEF Fits

(* A change of address, of a call that has read no more than one address    *)
(* can give.                                                                *)
LEMMA NextAddressFits ==
  ASSUME stock \in Nat, UnderWay,
         NEW c \in CallRecord, c.todo = call.todo,
         Part.keeps => Len(c.rows) <= c.at * stock,
         Part.lost = "onward" => Len(c.rows) <= c.first,
         NextAddress(c)
  PROVE  Fits(call')
<1>1. Part \in Parts /\ Part = Head(c.todo) /\ c.todo # <<>>
  BY CallFields DEF Part, UnderWay
<1>2. CASE c.at < Addresses
  <2> DEFINE first == IF Part.lost = "onward" THEN c.first ELSE 0
             rows == KeptRows(Part, c.rows)
             d == [c EXCEPT !.at = c.at + 1, !.step = "connect",
                            !.first = first, !.rows = rows,
                            !.tries = 1, !.ssl = 0]
  <2>1. call' = d
    BY <1>2 DEF NextAddress
  <2>2. c.at + 1 \in 1 .. Addresses /\ first \in 0 .. stock /\ rows \in Seq(Nat)
    BY <1>2, TransportAssumption, CallFields, EmptySeq DEF KeptRows
  <2>3. /\ d.at = c.at + 1 /\ d.step = "connect" /\ d.first = first
        /\ d.rows = rows /\ d.tries = 1 /\ d.todo = c.todo
    BY DEF CallRecord
  <2>4. d \in CallRecord
    <3> HIDE DEF first, rows
    <3>1. 0 \in 0 .. SSL_ERROR_RETRY_NUM /\ 1 \in Nat
      BY TransportAssumption
    <3>2. QED BY <2>2, <3>1 DEF CallRecord
  <2>5. Len(rows) <= IF Part.keeps THEN (d.at - 1) * stock + d.first ELSE d.first
    <3>1. CASE Part.keeps
      <4>1. rows = c.rows /\ first = 0
        BY <3>1, <1>1, PartFields DEF KeptRows, Regular
      <4>2. d.at - 1 = c.at
        BY <2>3, CallFields
      <4>3. c.at * stock \in Nat
        BY CallFields
      <4>4. QED
        <5> HIDE DEF d, rows, first
        <5> QED BY <3>1, <4>1, <4>2, <4>3, <2>3
    <3>2. CASE ~Part.keeps /\ Part.lost = "onward"
      <4>1. rows = c.rows /\ first = c.first
        BY <3>2 DEF KeptRows
      <4>2. QED
        <5> HIDE DEF d, rows, first
        <5> QED BY <3>2, <4>1, <2>3
    <3>3. CASE ~Part.keeps /\ Part.lost # "onward"
      <4>1. rows = <<>> /\ first = 0 /\ Len(<<>>) = 0
        BY <3>3, EmptySeq DEF KeptRows
      <4>2. QED
        <5> HIDE DEF d, rows, first
        <5> QED BY <3>3, <4>1, <2>3
    <3>4. QED BY <3>1, <3>2, <3>3
  <2>6. Room(d)
    <3>1. Part.busy \in Nat \ {0}
      BY <1>1, PartFields
    <3> HIDE DEF d, rows, first
    <3> QED BY <1>1, <2>3, <2>5, <3>1 DEF Room
  <2>7. QED BY <2>1, <2>4, <2>6 DEF Fits
<1>3. CASE ~(c.at < Addresses)
  <2>1. PICK result \in Results(Part.spent) : call' = Concluded(c, result)
    BY <1>3 DEF NextAddress
  <2>2. Part.spent \in {"ok", "error", "any"}
    BY <1>1, PartFields
  <2>3. result \in Result
    BY <2>1, <2>2 DEF Results, Result
  <2>4. QED BY <2>1, <2>3, <1>1, ConcludedFits
<1>4. QED BY <1>2, <1>3

(* A request that was lost. *)
LEMMA FailedFits ==
  ASSUME stock \in Nat, UnderWay,
         NEW c, Fits(c), c.todo = call.todo, c.step # "stuck",
         Failed(c)
  PROVE  Fits(call')
<1>1. Part \in Parts /\ Part = Head(c.todo) /\ c.todo # <<>> /\ c \in CallRecord
  BY CallFields DEF Part, UnderWay, Fits
<1>2. Part.lost \in {"next", "again", "onward", "ok", "error"}
      /\ (Part.lost = "onward" => ~Part.keeps)
  BY <1>1, PartFields DEF Regular
<1>3. Len(c.rows) <= IF Part.keeps THEN (c.at - 1) * stock + c.first ELSE c.first
  BY <1>1 DEF Fits, Room
<1>4. CASE Part.lost \in {"next", "onward"}
  <2>1. NextAddress(c)
    BY <1>4 DEF Failed
  <2>2. Part.keeps => Len(c.rows) <= c.at * stock
    <3>1. c.at \in Nat \ {0} /\ c.first \in 0 .. stock /\ Len(c.rows) \in Nat
      BY <1>1, TransportAssumption, CallFields
    <3>2. (c.at - 1) * stock + stock = c.at * stock
      BY <3>1
    <3>3. (c.at - 1) * stock \in Nat
      BY <3>1
    <3>4. PICK m \in Nat : m = (c.at - 1) * stock
      BY <3>3
    <3>5. Part.keeps => Len(c.rows) <= m + c.first
      BY <1>3, <3>4
    <3>6. PICK l \in Nat : l = Len(c.rows)
      BY <3>1
    <3>7. Part.keeps => l <= m + stock
      BY <3>1, <3>5, <3>6
    <3>8. m + stock = c.at * stock
      BY <3>2, <3>4
    <3>9. QED BY <3>6, <3>7, <3>8
  <2>3. QED BY <1>1, <1>2, <1>3, <2>1, <2>2, NextAddressFits
<1>5. CASE Part.lost = "again"
  <2> DEFINE d == [c EXCEPT !.ssl = 0]
  <2>1. call' = d
    BY <1>5 DEF Failed
  <2>2. d \in CallRecord
    <3>1. 0 \in 0 .. SSL_ERROR_RETRY_NUM
      BY TransportAssumption
    <3>2. QED BY <1>1, <3>1 DEF CallRecord
  <2>3. d.todo = c.todo /\ d.rows = c.rows /\ d.tries = c.tries
        /\ d.at = c.at /\ d.first = c.first /\ d.step = c.step
    BY <1>1 DEF CallRecord
  <2>4. Room(d)
    <3> HIDE DEF d
    <3> QED BY <2>3 DEF Fits, Room
  <2>5. QED BY <2>1, <2>2, <2>4 DEF Fits
<1>6. CASE Part.lost \in {"ok", "error"}
  <2>1. call' = Concluded(c, Part.lost) /\ Part.lost \in Result
    BY <1>6 DEF Failed, Result
  <2>2. QED BY <1>1, <2>1, ConcludedFits
<1>7. QED BY <1>2, <1>4, <1>5, <1>6

----------------------------------------------------------------------------
(* The smaller of two numbers. *)
LEMMA SmallerOfTwo ==
  ASSUME NEW i \in Int, NEW j \in Int
  PROVE  Min({i, j}) = IF i <= j THEN i ELSE j
BY DEF Min

(* A request that reached the array.                                        *)
LEMMA ExecutedFits ==
  ASSUME stock \in Nat, NEW c, Fits(c)
  PROVE  /\ Fits(Executed(c))
         /\ \E n \in 0 .. Addresses + 1 :
              /\ Executed(c) = [c EXCEPT !.executed = n]
              /\ n <= c.executed + 1
              /\ c.first = 0 => n >= 1
<1> DEFINE n == IF c.first = 0 THEN Min({c.executed + 1, Addresses + 1})
                ELSE c.executed
           d == [c EXCEPT !.executed = n]
<1>1. c \in CallRecord
  BY DEF Fits
<1>2. n \in 0 .. Addresses + 1 /\ n <= c.executed + 1 /\ (c.first = 0 => n >= 1)
  <2>1. c.executed \in 0 .. Addresses + 1
    BY <1>1, CallFields
  <2>2. Min({c.executed + 1, Addresses + 1}) =
          IF c.executed + 1 <= Addresses + 1 THEN c.executed + 1 ELSE Addresses + 1
    BY <2>1, TransportAssumption, SmallerOfTwo
  <2>3. QED BY <2>1, <2>2, TransportAssumption
<1>3. Executed(c) = d
  BY DEF Executed
<1> HIDE DEF n
<1>4. d \in CallRecord
  BY <1>1, <1>2 DEF CallRecord
<1>5. d.todo = c.todo /\ d.rows = c.rows /\ d.tries = c.tries
      /\ d.at = c.at /\ d.first = c.first /\ d.step = c.step
  BY <1>1 DEF CallRecord
<1>6. Room(d)
  <2> HIDE DEF d
  <2> QED BY <1>5 DEF Fits, Room
<1>7. QED BY <1>2, <1>3, <1>4, <1>6 DEF Fits

(* The rows of a page: those after the ones read, as many as were asked for *)
(* or are left.                                                             *)
LEMMA PageRows ==
  ASSUME stock \in Nat, UnderWay, Part \in Parts,
         NEW c, c.first \in 0 .. stock
  PROVE  /\ Page(c) \in Seq(Nat)
         /\ Len(Page(c)) \in 0 .. stock - c.first
         /\ Part.kind = "change" => Page(c) = <<>>
         /\ Part.kind = "show" =>
              Len(Page(c)) = IF c.first + Part.ask <= stock THEN Part.ask
                             ELSE stock - c.first
         /\ \A i \in 1 .. Len(Page(c)) : Page(c)[i] = c.first + i
<1>1. CASE Part.kind = "change"
  BY <1>1, EmptySeq DEF Page
<1>2. CASE Part.kind = "show"
  <2> DEFINE last == IF c.first + Part.ask <= stock THEN c.first + Part.ask ELSE stock
  <2>1. Part.ask \in Nat
    BY PartFields
  <2>2. last \in Nat /\ last <= stock /\ last >= c.first
    BY <2>1
  <2>3. PICK lo \in Int : lo = c.first + 1
    OBVIOUS
  <2>4. PICK hi \in Int : hi = last
    BY <2>2
  <2>5. Page(c) = SubSeq(Stock, lo, hi)
    <3>1. Min({c.first + Part.ask, stock}) = last
      BY <2>1, SmallerOfTwo
    <3>2. QED BY <1>2, <2>3, <2>4, <3>1 DEF Page
  <2>6. \A i \in lo .. hi : Stock[i] = i /\ Stock[i] \in Nat
    BY <2>2, <2>3, <2>4 DEF Stock
  <2> HIDE DEF last
  <2>7. /\ Page(c) \in Seq(Nat)
        /\ Len(Page(c)) = IF lo <= hi THEN hi - lo + 1 ELSE 0
        /\ \A i \in 1 .. hi - lo + 1 : Page(c)[i] = Stock[lo + i - 1]
    BY <2>5, <2>6, SubSeqProperties
  <2>8. Len(Page(c)) = last - c.first
    <3>1. PICK n : n = Len(Page(c)) /\ n = IF lo <= hi THEN hi - lo + 1 ELSE 0
      BY <2>7
    <3>2. n = last - c.first
      BY <2>2, <2>3, <2>4, <3>1
    <3>3. QED BY <3>1, <3>2
  <2>9. \A i \in 1 .. Len(Page(c)) : Page(c)[i] = c.first + i
    <3> SUFFICES ASSUME NEW i \in 1 .. Len(Page(c))
                 PROVE  Page(c)[i] = c.first + i
      OBVIOUS
    <3>1. i \in 1 .. hi - lo + 1 /\ lo + i - 1 \in lo .. hi
          /\ lo + i - 1 = c.first + i
      <4>1. Len(Page(c)) = hi - lo + 1 /\ i \in Int /\ c.first \in Int
        <5>1. c.first \in Int /\ last \in Int
          BY <2>2
        <5>2. last - c.first = hi - lo + 1
          BY <2>3, <2>4, <5>1
        <5>3. QED BY <2>3, <2>4, <2>8, <5>1, <5>2
      <4>2. i \in 1 .. hi - lo + 1
        BY <4>1
      <4>3. i >= 1 /\ i <= hi - lo + 1 /\ lo \in Int /\ hi \in Int
        BY <2>3, <2>4, <4>1, <4>2
      <4>4. lo + i - 1 = c.first + i
        BY <2>3, <4>1
      <4>5. lo + i - 1 \in lo .. hi
        BY <4>1, <4>3
      <4>6. QED BY <4>2, <4>4, <4>5
    <3>2. PICK j \in lo .. hi : j = lo + i - 1
      BY <3>1
    <3>3. Page(c)[i] = Stock[j]
      BY <2>7, <3>1, <3>2
    <3>4. QED BY <2>6, <3>1, <3>2, <3>3
  <2>10. Len(Page(c)) \in 0 .. stock - c.first
    BY <2>2, <2>8
  <2>11. Len(Page(c)) = IF c.first + Part.ask <= stock THEN Part.ask
                        ELSE stock - c.first
    BY <2>1, <2>8 DEF last
  <2>12. QED BY <1>2, <2>7, <2>9, <2>10, <2>11
<1>3. QED BY <1>1, <1>2, PartFields

(* A list of the rows up to some number, and the page after it.             *)
LEMMA RowsAndPage ==
  ASSUME stock \in Nat, UnderWay, Part \in Parts,
         NEW c, c.first \in 0 .. stock,
         c.rows = [i \in 1 .. c.first |-> i]
  PROVE  c.rows \o Page(c) = [i \in 1 .. c.first + Len(Page(c)) |-> i]
<1> DEFINE list == [i \in 1 .. c.first + Len(Page(c)) |-> i]
<1>1. /\ Page(c) \in Seq(Nat) /\ Len(Page(c)) \in Nat
      /\ \A i \in 1 .. Len(Page(c)) : Page(c)[i] = c.first + i
  BY PageRows
<1>2. c.rows \in Seq(Nat) /\ Len(c.rows) = c.first
  OBVIOUS
<1>3. list \in Seq(Nat) /\ Len(list) = c.first + Len(Page(c))
  BY <1>1
<1>4. /\ c.rows \o Page(c) \in Seq(Nat)
      /\ Len(c.rows \o Page(c)) = c.first + Len(Page(c))
      /\ \A i \in 1 .. c.first + Len(Page(c)) :
           (c.rows \o Page(c))[i] = IF i <= c.first THEN c.rows[i]
                                     ELSE Page(c)[i - c.first]
  BY <1>1, <1>2, ConcatProperties
<1>5. ASSUME NEW i \in 1 .. c.first + Len(Page(c))
      PROVE  (c.rows \o Page(c))[i] = list[i]
  <2>1. CASE i <= c.first
    BY <1>4, <2>1
  <2>2. CASE i > c.first
    <3>1. PICK j \in 1 .. Len(Page(c)) : j = i - c.first
      BY <1>1, <2>2
    <3>2. (c.rows \o Page(c))[i] = Page(c)[j] /\ c.first + j = i
      BY <1>4, <2>2, <3>1
    <3>3. QED BY <1>1, <3>2
  <2>3. QED BY <2>1, <2>2
<1> HIDE DEF list
<1>6. PICK s \in Seq(Nat) : s = c.rows \o Page(c)
  BY <1>4
<1>7. Len(s) = Len(list) /\ \A i \in 1 .. Len(s) : s[i] = list[i]
  BY <1>3, <1>4, <1>5, <1>6
<1>8. s = list
  BY <1>3, <1>7, SeqEqual
<1>9. QED BY <1>6, <1>8 DEF list

(* A page has been read, and is the last one or not.                        *)
LEMMA PageReadFits ==
  ASSUME stock \in Nat, UnderWay,
         NEW c, NEW d \in CallRecord, NEW size \in 0 .. stock - c.first,
         c \in CallRecord, Fits(c), c.step # "stuck",
         c.todo = call.todo, d.todo = call.todo, d.first = c.first,
         d.at = c.at, d.tries = c.tries, d.step = c.step,
         Len(d.rows) <= Len(c.rows) + size,
         call' = PageRead(d, size)
  PROVE  Fits(call')
<1>1. Part \in Parts /\ Part = Head(d.todo) /\ d.todo # <<>> /\ Part = Head(c.todo)
  BY CallFields DEF Part, UnderWay
<1>2. Part.full \in Nat /\ Part.empty \in Result
      /\ (Part.lost = "onward" => ~Part.keeps)
  BY <1>1, PartFields DEF Regular, Result
<1>3. CASE Part.full > 0 /\ size = Part.full
  <2> DEFINE first == d.first + size
             at == IF Part.lost = "onward" THEN 1 ELSE d.at
             step == IF Part.lost = "onward" THEN "connect" ELSE d.step
             e == [d EXCEPT !.first = first, !.ssl = 0, !.at = at, !.step = step]
  <2>1. call' = e
    BY <1>3 DEF PageRead
  <2>2. first \in 0 .. stock /\ at \in 1 .. Addresses
        /\ step \in {"connect", "send"} /\ 0 \in 0 .. SSL_ERROR_RETRY_NUM
    <3>1. /\ d.at \in 1 .. Addresses /\ d.step \in {"connect", "send"}
          /\ d.first \in Nat
      BY CallFields
    <3>2. 1 \in 1 .. Addresses /\ 0 \in 0 .. SSL_ERROR_RETRY_NUM
      BY TransportAssumption
    <3>3. at \in 1 .. Addresses /\ step \in {"connect", "send"}
      BY <3>1, <3>2
    <3>4. c.first \in 0 .. stock /\ d.first = c.first
      BY CallFields
    <3>5. first \in 0 .. stock
      BY <3>4
    <3>6. QED BY <3>2, <3>3, <3>5
  <2>3. /\ e.first = first /\ e.at = at /\ e.step = step
        /\ e.tries = d.tries /\ e.rows = d.rows /\ e.todo = d.todo
    BY DEF CallRecord
  <2>4. e \in CallRecord
    <3> HIDE DEF first, at, step
    <3> QED BY <2>2 DEF CallRecord
  <2>5. Len(d.rows) <= IF Part.keeps THEN (at - 1) * stock + first ELSE first
    <3>1. Len(c.rows) <= IF Part.keeps THEN (c.at - 1) * stock + c.first ELSE c.first
      BY <1>1 DEF Fits, Room
    <3>2. c.at - 1 \in Nat /\ (c.at - 1) * stock \in Nat
      <4>1. c.at \in 1 .. Addresses
        BY CallFields
      <4>2. PICK n \in Nat : n = c.at - 1
        BY <4>1, TransportAssumption
      <4>3. n * stock \in Nat
        OBVIOUS
      <4>4. QED BY <4>2, <4>3
    <3>3. Part.keeps => at = c.at
      BY <1>2
    <3>4. Len(d.rows) \in Nat /\ Len(c.rows) \in Nat /\ first = c.first + size
          /\ c.first \in Nat /\ size \in Nat
          /\ Len(d.rows) <= Len(c.rows) + size
      BY CallFields
    <3> HIDE DEF at, first
    <3>5. CASE Part.keeps
      <4>1. PICK m \in Nat : m = (c.at - 1) * stock
        BY <3>2
      <4>2. Len(c.rows) <= m + c.first
        BY <3>1, <3>5, <4>1
      <4>3. Len(d.rows) <= m + first
        <5>1. PICK k \in Nat, l \in Nat, f \in Nat :
                k = Len(d.rows) /\ l = Len(c.rows) /\ f = c.first
          BY <3>4
        <5>2. l <= m + f /\ k <= l + size /\ first = f + size
          BY <3>4, <4>2, <5>1
        <5>3. k <= m + (f + size)
          BY <3>4, <5>2
        <5>4. QED BY <5>1, <5>2, <5>3
      <4>4. QED BY <3>3, <3>5, <4>1, <4>3
    <3>6. CASE ~Part.keeps
      BY <3>1, <3>4, <3>6
    <3>7. QED BY <3>5, <3>6
  <2>6. d.tries \in 1 .. Part.busy
    BY <1>1 DEF Fits, Room
  <2>7. Room(e)
    <3> HIDE DEF e, at, first, step
    <3> QED BY <1>1, <2>2, <2>3, <2>5, <2>6 DEF Room
  <2>8. QED BY <2>1, <2>4, <2>7 DEF Fits
<1>4. CASE ~(Part.full > 0 /\ size = Part.full)
  <2> DEFINE result == IF d.rows = <<>> THEN Part.empty ELSE "ok"
  <2>1. call' = Concluded(d, result) /\ result \in Result
    BY <1>2, <1>4 DEF PageRead, Result
  <2>2. QED BY <1>1, <2>1, ConcludedFits
<1>5. QED BY <1>3, <1>4

(* What an address gives besides those before it is no more than the array  *)
(* holds.                                                                   *)
LEMMA OneAddressMore ==
  ASSUME stock \in Nat, UnderWay,
         NEW c, Fits(c), c.step # "stuck", c.todo = call.todo,
         NEW size \in 0 .. stock - c.first
  PROVE  Len(c.rows) + size <= c.at * stock
<1>1. c \in CallRecord /\ c.todo # <<>> /\ Head(c.todo) = Part /\ Part \in Parts
  BY CallFields DEF Fits, UnderWay, Part
<1>2. c.at \in Nat /\ c.at >= 1 /\ c.first \in 0 .. stock /\ Len(c.rows) \in Nat
  BY <1>1, TransportAssumption, CallFields
<1>3. PICK n \in Nat : n = c.at - 1
  BY <1>2
<1>4. PICK m \in Nat : m = n * stock
  BY <1>3
<1>5. c.at * stock = m + stock
  <2>1. c.at = n + 1
    BY <1>2, <1>3
  <2>2. (n + 1) * stock = n * stock + stock
    BY <1>3
  <2>3. QED BY <1>4, <2>1, <2>2
<1>6. Len(c.rows) <= m + c.first
  <2>1. Len(c.rows) <= IF Part.keeps THEN (c.at - 1) * stock + c.first ELSE c.first
    BY <1>1 DEF Fits, Room
  <2>2. (c.at - 1) * stock = m
    BY <1>3, <1>4
  <2>3. CASE Part.keeps
    BY <2>1, <2>2, <2>3
  <2>4. CASE ~Part.keeps
    BY <1>2, <2>1, <2>4
  <2>5. QED BY <2>3, <2>4
<1>7. QED BY <1>2, <1>5, <1>6

----------------------------------------------------------------------------
(* The steps. *)
(* What Fits says depends on the call and on what is held only.             *)
LEMMA SameCall ==
  ASSUME TypeInv, UNCHANGED <<stock, call>>
  PROVE  Fits(call)'
BY DEF TypeInv, Fits, CallRecord, Room

(* A call that is as it was fits as it did.                                 *)
LEMMA SameStock ==
  ASSUME stock' = stock, Fits(call')
  PROVE  Fits(call)'
BY DEF Fits, CallRecord, Room

(* What the addresses hold together is a number of rows.                    *)
LEMMA StockHeld ==
  ASSUME TypeInv
  PROVE  /\ stock \in Nat /\ stock <= MaxRows
         /\ call \in CallRecord
         /\ UnderWay => Part \in Parts
BY RangeAssumption, CallFields DEF TypeInv, Fits, UnderWay, Part

(* A call is issued, or goes on without a part of it.                       *)
LEMMA WalkStep ==
  ASSUME TypeInv, Issue \/ Skip \/ Reject
  PROVE  Fits(call')
<1> USE StockHeld
<1>1. CASE Issue
  <2>1. PICK c \in Calls[g_bFusionStorage] : call' = Walk(c)
    BY <1>1 DEF Issue
  <2>2. c \in Seq(Parts)
    BY <2>1, TransportAssumption DEF TypeInv
  <2>3. QED BY <2>1, <2>2, WalkFits
<1>2. CASE Skip
  <2> DEFINE rest == SubSeq(call.todo, Part.skip + 1, Len(call.todo))
  <2>1. UnderWay
    BY <1>2 DEF Skip, Fresh, Connecting
  <2>2. Part.skip \in Nat /\ call.todo \in Seq(Parts)
    BY <2>1, PartFields, CallFields
  <2>3. \A i \in Part.skip + 1 .. Len(call.todo) : call.todo[i] \in Parts
    BY <2>2, ElementOfSeq
  <2>4. rest \in Seq(Parts)
    BY <2>2, <2>3, SubSeqProperties, LenProperties
  <2>5. call' = Walk(rest)
    BY <1>2 DEF Skip
  <2> HIDE DEF rest
  <2>6. QED BY <2>4, <2>5, WalkFits
<1>3. CASE Reject
  BY <1>3, WalkFits, EmptySeq DEF Reject
<1>4. QED BY <1>1, <1>2, <1>3

(* A request is to be sent. *)
LEMMA ConnectStep ==
  ASSUME TypeInv, Connecting, call' = [call EXCEPT !.step = "send", !.last = NoPart]
  PROVE  Fits(call')
<1> DEFINE d == [call EXCEPT !.step = "send", !.last = NoPart]
<1>1. call \in CallRecord
  BY StockHeld
<1>2. d \in CallRecord
  BY <1>1 DEF CallRecord
<1>3. d.todo = call.todo /\ d.rows = call.rows /\ d.tries = call.tries
      /\ d.at = call.at /\ d.first = call.first /\ d.step = "send"
  BY <1>1 DEF CallRecord
<1>4. Room(d)
  <2>1. call.step # "stuck" /\ Room(call)
    BY DEF Connecting, TypeInv, Fits
  <2> HIDE DEF d
  <2>2. QED BY <1>3, <2>1 DEF Room
<1>5. QED BY <1>2, <1>4 DEF Fits

(* A request that is served, with its page.                                 *)
LEMMA ServedFits ==
  ASSUME TypeInv, Served
  PROVE  Fits(call')
<1> USE StockHeld
<1>1. UnderWay /\ call.step # "stuck"
  BY DEF Served, Accepted, LoggedIn, Sending
<1>2. PICK c : c = Executed(call)
  OBVIOUS
<1>3. /\ Fits(c) /\ c \in CallRecord
      /\ c.todo = call.todo /\ c.first = call.first /\ c.step = call.step
  <2>1. Fits(c)
    BY <1>2, ExecutedFits DEF TypeInv
  <2>2. PICK n : c = [call EXCEPT !.executed = n]
    BY <1>2, ExecutedFits DEF TypeInv
  <2>3. QED BY <2>1, <2>2 DEF Fits, CallRecord
<1>4. Part \in Parts /\ c.first \in 0 .. stock /\ c.rows \in Seq(Nat)
  BY <1>1, <1>3, CallFields
<1>5. Page(c) \in Seq(Nat) /\ Len(Page(c)) \in 0 .. stock - c.first
  BY <1>1, <1>4, PageRows
<1>6. PICK rows \in Seq(Nat) : rows = c.rows \o Page(c)
  BY <1>4, <1>5, ConcatProperties
<1>7. PICK d : d = [c EXCEPT !.rows = rows]
  OBVIOUS
<1>8. /\ d \in CallRecord /\ d.todo = c.todo /\ d.first = c.first
      /\ d.at = c.at /\ d.tries = c.tries /\ d.step = c.step /\ d.rows = rows
  BY <1>3, <1>7 DEF CallRecord
<1>9. call' = PageRead(d, Len(Page(c)))
  BY <1>2, <1>6, <1>7 DEF Served
<1>10. Len(d.rows) <= Len(c.rows) + Len(Page(c))
  BY <1>4, <1>5, <1>6, <1>8, ConcatProperties, LenProperties
<1>11. QED BY <1>1, <1>3, <1>5, <1>8, <1>9, <1>10, PageReadFits

(* The rows before one of a page, and those but one, after a list.          *)
LEMMA RowsAround ==
  ASSUME NEW rows \in Seq(Nat), NEW page \in Seq(Nat), NEW i \in 1 .. Len(page)
  PROVE  /\ rows \o SubSeq(page, 1, i - 1) \in Seq(Nat)
         /\ Len(rows \o SubSeq(page, 1, i - 1)) = Len(rows) + (i - 1)
         /\ rows \o RemoveAt(page, i) \in Seq(Nat)
         /\ Len(rows \o RemoveAt(page, i)) = Len(rows) + (Len(page) - 1)
<1>1. Len(page) \in Nat /\ i - 1 \in Int /\ i + 1 \in Int
  BY LenProperties
<1>2. PICK before : before = SubSeq(page, 1, i - 1)
  OBVIOUS
<1>3. PICK after : after = SubSeq(page, i + 1, Len(page))
  OBVIOUS
<1>4. before \in Seq(Nat) /\ Len(before) = i - 1
  <2>1. \A j \in 1 .. i - 1 : page[j] \in Nat
    BY <1>1, ElementOfSeq
  <2>2. before \in Seq(Nat) /\ Len(before) = IF 1 <= i - 1 THEN i - 1 - 1 + 1 ELSE 0
    BY <1>1, <1>2, <2>1, SubSeqProperties
  <2>3. QED BY <1>1, <2>2
<1>5. after \in Seq(Nat) /\ Len(after) = Len(page) - i
  <2>1. \A j \in i + 1 .. Len(page) : page[j] \in Nat
    BY <1>1, ElementOfSeq
  <2>2. after \in Seq(Nat)
        /\ Len(after) = IF i + 1 <= Len(page) THEN Len(page) - (i + 1) + 1 ELSE 0
    BY <1>1, <1>3, <2>1, SubSeqProperties
  <2>3. QED BY <1>1, <2>2
<1>6. PICK kept : kept = before \o after
  OBVIOUS
<1>7. kept \in Seq(Nat) /\ Len(kept) = Len(page) - 1
  <2>1. kept \in Seq(Nat) /\ Len(kept) = Len(before) + Len(after)
    BY <1>4, <1>5, <1>6, ConcatProperties
  <2>2. QED BY <1>1, <1>4, <1>5, <2>1
<1>8. RemoveAt(page, i) = kept
  BY <1>2, <1>3, <1>6 DEF RemoveAt
<1>9. rows \o before \in Seq(Nat) /\ Len(rows \o before) = Len(rows) + (i - 1)
  BY <1>4, ConcatProperties
<1>10. rows \o kept \in Seq(Nat) /\ Len(rows \o kept) = Len(rows) + (Len(page) - 1)
  BY <1>7, ConcatProperties
<1>11. QED BY <1>2, <1>8, <1>9, <1>10

(* A request about a row fails in the list of a show, which then holds some *)
(* of the rows of its page.                                                 *)
LEMMA RowFailure ==
  ASSUME TypeInv, RowFails
  PROVE  /\ UnderWay /\ call.step # "stuck" /\ Part.kind = "show"
         /\ \E outcome \in Part.row, rows \in Seq(Nat),
               size \in 1 .. stock - call.first :
              /\ Len(rows) < Len(call.rows) + size
              /\ \E d \in CallRecord :
                   /\ d = [Executed(call) EXCEPT !.rows = rows]
                   /\ \/ outcome = "next" /\ NextAddress(d)
                      \/ outcome = "error" /\ call' = Concluded(d, "error")
                      \/ outcome = "stuck" /\ call' = [d EXCEPT !.step = "stuck"]
                      \/ outcome = "left" /\ call' = PageRead(d, size)
<1> USE StockHeld
<1>1. UnderWay /\ call.step # "stuck"
  BY DEF RowFails, Accepted, LoggedIn, Sending
<1>2. PICK c : c = Executed(call)
  OBVIOUS
<1>3. PICK page : page = Page(c)
  OBVIOUS
<1>4. /\ c \in CallRecord /\ c.first = call.first /\ c.rows = call.rows
  <2>1. Fits(c)
    BY <1>2, ExecutedFits DEF TypeInv
  <2>2. PICK n : c = [call EXCEPT !.executed = n]
    BY <1>2, ExecutedFits DEF TypeInv
  <2>3. QED BY <2>1, <2>2 DEF Fits, CallRecord
<1>5. Part \in Parts /\ c.first \in 0 .. stock /\ c.rows \in Seq(Nat)
  BY <1>1, <1>4, CallFields
<1>6. page \in Seq(Nat) /\ Len(page) \in 0 .. stock - c.first
      /\ (Part.kind = "change" => Len(page) = 0)
  BY <1>1, <1>3, <1>5, PageRows, EmptySeq
<1>7. PICK i \in 1 .. Len(page) : \E outcome \in Part.row :
        LET before == [c EXCEPT !.rows = @ \o SubSeq(page, 1, i - 1)]
        IN CASE outcome = "next"  -> NextAddress(before)
             [] outcome = "error" -> call' = Concluded(before, "error")
             [] outcome = "stuck" -> call' = [before EXCEPT !.step = "stuck"]
             [] outcome = "left"  ->
                  call' = PageRead([c EXCEPT !.rows = @ \o RemoveAt(page, i)],
                                   Len(page))
  BY <1>2, <1>3 DEF RowFails
<1>8. Part.kind = "show" /\ Len(page) \in 1 .. stock - call.first
      /\ Len(call.rows) \in Nat /\ i \in Nat
  <2>1. i \in Nat /\ Len(page) \in Nat /\ Len(page) >= 1
    <3>1. PICK l : l = Len(page) /\ l \in Nat
      BY <1>6, LenProperties
    <3>2. i \in 1 .. l
      BY <3>1
    <3>3. i \in Nat /\ l >= 1
      BY <3>1, <3>2
    <3>4. QED BY <3>1, <3>3
  <2>2. Part.kind = "show"
    BY <1>5, <1>6, <2>1, PartFields
  <2>3. Len(call.rows) \in Nat
    BY <1>4, <1>5, LenProperties
  <2>4. QED BY <1>4, <1>5, <1>6, <2>1, <2>2, <2>3
<1>9. PICK some \in Seq(Nat) : some = c.rows \o SubSeq(page, 1, i - 1)
                                /\ Len(some) = Len(c.rows) + (i - 1)
  BY <1>5, <1>6, <1>7, RowsAround
<1>10. PICK kept \in Seq(Nat) : kept = c.rows \o RemoveAt(page, i)
                                /\ Len(kept) = Len(c.rows) + (Len(page) - 1)
  BY <1>5, <1>6, <1>7, RowsAround
<1>11. PICK before : before = [c EXCEPT !.rows = some]
  OBVIOUS
<1>12. PICK d : d = [c EXCEPT !.rows = kept]
  OBVIOUS
<1>13. before \in CallRecord /\ d \in CallRecord
  BY <1>4, <1>11, <1>12 DEF CallRecord
<1>14. /\ Len(some) < Len(call.rows) + Len(page)
       /\ Len(kept) < Len(call.rows) + Len(page)
  <2>1. /\ Len(some) = Len(call.rows) + (i - 1)
        /\ Len(kept) = Len(call.rows) + (Len(page) - 1)
    BY <1>4, <1>9, <1>10
  <2>2. /\ Len(call.rows) \in Nat /\ Len(page) \in Nat
        /\ i \in Nat /\ i <= Len(page)
    BY <1>8
  <2>3. QED BY <2>1, <2>2
<1>15. PICK outcome \in Part.row :
         CASE outcome = "next"  -> NextAddress(before)
           [] outcome = "error" -> call' = Concluded(before, "error")
           [] outcome = "stuck" -> call' = [before EXCEPT !.step = "stuck"]
           [] outcome = "left"  -> call' = PageRead(d, Len(page))
  BY <1>7, <1>9, <1>10, <1>11, <1>12
<1>16. outcome \in {"next", "error", "left", "stuck"}
  BY <1>5, PartFields
<1>17. CASE outcome = "left"
  <2>1. call' = PageRead(d, Len(page))
    BY <1>15, <1>17
  <2>2. QED BY <1>1, <1>2, <1>8, <1>12, <1>13, <1>14, <1>17, <2>1
<1>18. CASE outcome \in {"next", "error", "stuck"}
  <2>1. \/ outcome = "next" /\ NextAddress(before)
        \/ outcome = "error" /\ call' = Concluded(before, "error")
        \/ outcome = "stuck" /\ call' = [before EXCEPT !.step = "stuck"]
    BY <1>15, <1>18
  <2>2. QED BY <1>1, <1>2, <1>8, <1>11, <1>13, <1>14, <2>1
<1>19. QED BY <1>16, <1>17, <1>18

(* RowFails: a request about one row of the page.                           *)
LEMMA RowFailsFits ==
  ASSUME TypeInv, RowFails
  PROVE  Fits(call')
<1> USE StockHeld
<1>1. UnderWay /\ call.step # "stuck"
  BY RowFailure
<1>2. PICK outcome \in Part.row, rows \in Seq(Nat),
           size \in 1 .. stock - call.first, d \in CallRecord :
        /\ Len(rows) < Len(call.rows) + size
        /\ d = [Executed(call) EXCEPT !.rows = rows]
        /\ \/ outcome = "next" /\ NextAddress(d)
           \/ outcome = "error" /\ call' = Concluded(d, "error")
           \/ outcome = "stuck" /\ call' = [d EXCEPT !.step = "stuck"]
           \/ outcome = "left" /\ call' = PageRead(d, size)
  BY RowFailure
<1>3. PICK c : c = Executed(call)
  OBVIOUS
<1>4. /\ Fits(c) /\ c \in CallRecord /\ c.todo = call.todo /\ c.at = call.at
      /\ c.first = call.first /\ c.step = call.step /\ c.rows = call.rows
  <2>1. Fits(c)
    BY <1>3, ExecutedFits DEF TypeInv
  <2>2. PICK n : c = [call EXCEPT !.executed = n]
    BY <1>3, ExecutedFits DEF TypeInv
  <2>3. QED BY <2>1, <2>2 DEF Fits, CallRecord
<1>5. /\ d.todo = c.todo /\ d.first = c.first /\ d.at = c.at
      /\ d.tries = c.tries /\ d.step = c.step /\ d.rows = rows
  BY <1>2, <1>3, <1>4 DEF CallRecord
<1>6. Part \in Parts /\ d.todo # <<>> /\ Head(d.todo) = Part
      /\ Len(rows) \in Nat /\ Len(c.rows) \in Nat /\ size \in 0 .. stock - c.first
  <2>1. d.todo # <<>> /\ Head(d.todo) = Part
    BY <1>1, <1>4, <1>5 DEF UnderWay, Part
  <2>2. Part \in Parts /\ c.first \in 0 .. stock /\ c.rows \in Seq(Nat)
    BY <1>1, <1>4, CallFields
  <2>3. Len(rows) \in Nat /\ Len(c.rows) \in Nat
    BY <1>2, <2>2, LenProperties
  <2>4. size \in 0 .. stock - c.first
    BY <1>2, <1>4, <2>2
  <2>5. QED BY <2>1, <2>2, <2>3, <2>4
<1>7. Len(rows) <= d.at * stock
  <2>1. Len(c.rows) + size <= c.at * stock
    BY <1>1, <1>4, <1>6, OneAddressMore
  <2>2. c.at \in Nat
    BY <1>4, CallFields
  <2>3. PICK n \in Nat : n = c.at * stock
    BY <2>2
  <2>4. QED BY <1>2, <1>4, <1>5, <1>6, <2>1, <2>3
<1>8. CASE outcome = "next" /\ NextAddress(d)
  <2>1. Part.lost # "onward"
    BY <1>2, <1>6, <1>8, PartFields DEF Regular
  <2>2. QED BY <1>1, <1>4, <1>5, <1>7, <1>8, <2>1, NextAddressFits
<1>9. CASE outcome = "error" /\ call' = Concluded(d, "error")
  BY <1>6, <1>9, ConcludedFits DEF Result
<1>10. CASE outcome = "stuck" /\ call' = [d EXCEPT !.step = "stuck"]
  <2>1. PICK e : e = [d EXCEPT !.step = "stuck"]
    OBVIOUS
  <2>2. /\ e \in CallRecord /\ e.todo = d.todo /\ e.first = d.first
        /\ e.at = d.at /\ e.tries = d.tries /\ e.rows = d.rows
        /\ e.step = "stuck"
    BY <2>1 DEF CallRecord
  <2>3. d.tries \in 1 .. Part.busy
    BY <1>4, <1>5, <1>6 DEF Fits, Room
  <2>4. Room(e)
    BY <1>5, <1>6, <1>7, <2>2, <2>3 DEF Room
  <2>5. QED BY <1>10, <2>1, <2>2, <2>4 DEF Fits
<1>11. CASE outcome = "left" /\ call' = PageRead(d, size)
  <2>1. Len(d.rows) <= Len(c.rows) + size
    BY <1>2, <1>4, <1>5, <1>6
  <2>2. QED BY <1>1, <1>4, <1>5, <1>6, <1>11, <2>1, PageReadFits
<1>12. QED BY <1>2, <1>8, <1>9, <1>10, <1>11

(* A reply without rows: an error, or none.                                 *)
LEMMA ReplyFits ==
  ASSUME TypeInv, Refused \/ Busy \/ SslError \/ Lost
  PROVE  Fits(call')
<1> USE StockHeld
<1>1. UnderWay /\ call.step # "stuck" /\ Fits(call) /\ Part \in Parts
      /\ call.todo # <<>> /\ Part = Head(call.todo)
  BY DEF Refused, Busy, SslError, Lost, Accepted, LoggedIn, Sending, TypeInv,
         UnderWay, Part
<1>2. CASE Refused
  <2>1. PICK result \in Results(Part.refused) : call' = Concluded(call, result)
    BY <1>2 DEF Refused
  <2>2. Part.refused \in {"ok", "error", "any"}
    BY <1>1, PartFields
  <2>3. result \in Result
    BY <2>1, <2>2 DEF Results, Result
  <2>4. QED BY <1>1, <2>1, <2>3, ConcludedFits
<1>3. CASE Busy
  <2>1. CASE call.tries < Part.busy
    <3>1. PICK d : d = [call EXCEPT !.tries = @ + 1, !.ssl = 0]
      OBVIOUS
    <3>2. call' = d
      BY <1>3, <2>1, <3>1 DEF Busy
    <3>3. Part.busy \in Nat /\ call.tries \in 1 .. Part.busy /\ call.tries \in Nat
          /\ call.tries + 1 \in Nat /\ 0 \in 0 .. SSL_ERROR_RETRY_NUM
      BY <1>1, PartFields, CallFields, TransportAssumption DEF Fits, Room
    <3>4. /\ d \in CallRecord /\ d.todo = call.todo /\ d.first = call.first
          /\ d.at = call.at /\ d.tries = call.tries + 1 /\ d.rows = call.rows
          /\ d.step = call.step
      <4>1. PICK tries \in Nat : tries = call.tries + 1
        BY <3>3
      <4>2. d = [call EXCEPT !.tries = tries, !.ssl = 0]
        BY <3>1, <4>1
      <4>3. QED BY <3>3, <4>1, <4>2 DEF CallRecord
    <3>5. d.tries \in 1 .. Part.busy
      BY <2>1, <3>3, <3>4
    <3>6. Room(d)
      BY <1>1, <3>4, <3>5 DEF Fits, Room
    <3>7. QED BY <3>2, <3>4, <3>6 DEF Fits
  <2>2. CASE ~(call.tries < Part.busy)
    <3>1. NextAddress(call)
      BY <1>3, <2>2 DEF Busy
    <3>2. call.first \in 0 .. stock /\ Len(call.rows) \in Nat
          /\ (Part.lost = "onward" => ~Part.keeps)
      BY <1>1, CallFields, PartFields DEF Regular
    <3>3. Part.keeps => Len(call.rows) <= call.at * stock
      <4>1. 0 \in 0 .. stock - call.first
        BY <3>2
      <4>2. Len(call.rows) + 0 <= call.at * stock
        BY <1>1, <4>1, OneAddressMore
      <4>3. QED BY <3>2, <4>2
    <3>4. Part.lost = "onward" => Len(call.rows) <= call.first
      BY <1>1, <3>2 DEF Fits, Room
    <3>5. QED BY <1>1, <3>1, <3>3, <3>4, NextAddressFits
  <2>3. QED BY <2>1, <2>2
<1>4. CASE SslError
  <2>1. CASE call.ssl < SSL_ERROR_RETRY_NUM
    <3>1. PICK d : d = [call EXCEPT !.ssl = @ + 1]
      OBVIOUS
    <3>2. call' = d
      BY <1>4, <2>1, <3>1 DEF SslError
    <3>3. call.ssl + 1 \in 0 .. SSL_ERROR_RETRY_NUM
      BY <2>1, CallFields, TransportAssumption
    <3>4. /\ d \in CallRecord /\ d.todo = call.todo /\ d.first = call.first
          /\ d.at = call.at /\ d.tries = call.tries /\ d.rows = call.rows
          /\ d.step = call.step
      BY <3>1, <3>3 DEF CallRecord
    <3>5. Room(d)
      BY <1>1, <3>4 DEF Fits, Room
    <3>6. QED BY <3>2, <3>4, <3>5 DEF Fits
  <2>2. CASE ~(call.ssl < SSL_ERROR_RETRY_NUM)
    BY <1>1, <1>4, <2>2, FailedFits DEF SslError
  <2>3. QED BY <2>1, <2>2
<1>5. CASE Lost
  <2>1. PICK c \in {call, Executed(call)} : Failed(c)
    BY <1>5 DEF Lost
  <2>2. Fits(c) /\ c.todo = call.todo /\ c.step = call.step
    <3>1. CASE c = call
      BY <1>1, <3>1
    <3>2. CASE c = Executed(call)
      <4>1. PICK n \in 0 .. Addresses + 1 : c = [call EXCEPT !.executed = n]
        BY <1>1, <3>2, ExecutedFits
      <4>2. c.todo = call.todo /\ c.step = call.step
        BY <1>1, <4>1 DEF CallRecord
      <4>3. Fits(c)
        BY <1>1, <3>2, ExecutedFits
      <4>4. QED BY <4>2, <4>3
    <3>3. QED BY <2>1, <3>1, <3>2
  <2>3. QED BY <1>1, <2>1, <2>2, FailedFits
<1>6. QED BY <1>2, <1>3, <1>4, <1>5

(* A page without rows is answered in place of the array: it is the last.   *)
LEMMA HollowFits ==
  ASSUME TypeInv, Hollow
  PROVE  Fits(call')
<1> USE StockHeld
<1>1. UnderWay /\ call.step # "stuck" /\ call' = PageRead(call, 0)
  BY DEF Hollow, Sending
<1>2. call.first \in 0 .. stock /\ Len(call.rows) \in Nat
  BY CallFields
<1>3. 0 \in 0 .. stock - call.first /\ Len(call.rows) <= Len(call.rows) + 0
  BY <1>2
<1>4. Fits(call)
  BY DEF TypeInv
<1>5. QED BY <1>1, <1>3, <1>4, PageReadFits

(* A page that is read again takes the rows of a full one, unless that is   *)
(* beyond the last object.                                                  *)
LEMMA RereadFits ==
  ASSUME TypeInv, Reread
  PROVE  Fits(call')
<1> USE StockHeld
<1> DEFINE beyond == call.first + Part.full > stock
           first == IF beyond THEN stock ELSE call.first + Part.full
           rows == IF beyond THEN call.rows
                   ELSE call.rows \o PageBefore(call.rows)
           d == [call EXCEPT !.first = first, !.rows = rows, !.at = 1,
                             !.step = "connect", !.ssl = 0]
<1>1. /\ UnderWay /\ call.step # "stuck" /\ call' = d
      /\ Part.rereads /\ Part.full <= Len(call.rows)
  BY DEF Reread, Sending
<1>2. /\ call.first \in 0 .. stock /\ Len(call.rows) \in Nat
      /\ call.rows \in Seq(Nat)
  BY CallFields
<1>3. Part.full \in Nat /\ ~Part.keeps /\ Part.busy \in Nat
  BY <1>1, PartFields DEF Regular
<1>4. /\ Part = Head(call.todo) /\ call.todo # <<>> /\ Room(call)
      /\ Len(call.rows) <= call.first /\ call.tries \in 1 .. Part.busy
  BY <1>1, <1>3 DEF Room, Part, UnderWay, TypeInv, Fits
<1>5. first \in 0 .. stock
  BY <1>2, <1>3
<1>6. PICK n \in Nat : n = Len(call.rows)
  BY <1>2
<1>7. PICK lo \in Int : lo = n - Part.full + 1
  BY <1>3, <1>6
<1>8. lo >= 1 /\ n - lo + 1 = Part.full
  BY <1>1, <1>3, <1>6, <1>7
<1>9. \A i \in lo .. n : call.rows[i] \in Nat
  BY <1>2, <1>6, <1>8, ElementOfSeq
<1>10. /\ PageBefore(call.rows) \in Seq(Nat)
       /\ Len(PageBefore(call.rows)) = Part.full
  <2>1. PageBefore(call.rows) = SubSeq(call.rows, lo, n)
    BY <1>6, <1>7 DEF PageBefore
  <2>2. /\ SubSeq(call.rows, lo, n) \in Seq(Nat)
        /\ Len(SubSeq(call.rows, lo, n)) = IF lo <= n THEN n - lo + 1 ELSE 0
    BY <1>9, SubSeqProperties
  <2>3. (IF lo <= n THEN n - lo + 1 ELSE 0) = Part.full
    BY <1>3, <1>7, <1>8
  <2>4. QED BY <2>1, <2>2, <2>3
<1>11. rows \in Seq(Nat) /\ Len(rows) <= first
  <2>1. CASE beyond
    BY <1>2, <1>4, <2>1
  <2>2. CASE ~beyond
    <3>1. /\ call.rows \o PageBefore(call.rows) \in Seq(Nat)
          /\ Len(call.rows \o PageBefore(call.rows)) = n + Part.full
      <4>1. PICK s \in Seq(Nat), page \in Seq(Nat) :
              /\ s = call.rows /\ Len(s) = n
              /\ page = PageBefore(call.rows) /\ Len(page) = Part.full
        BY <1>2, <1>6, <1>10
      <4>2. s \o page \in Seq(Nat) /\ Len(s \o page) = Len(s) + Len(page)
        BY ConcatProperties
      <4>3. QED BY <4>1, <4>2
    <3>2. n + Part.full <= call.first + Part.full
      BY <1>2, <1>3, <1>4, <1>6
    <3>3. QED BY <2>2, <3>1, <3>2
  <2>3. QED BY <2>1, <2>2
<1> HIDE DEF first, rows
<1>12. d \in CallRecord
  <2>1. 1 \in 1 .. Addresses /\ 0 \in 0 .. SSL_ERROR_RETRY_NUM
    BY TransportAssumption
  <2>2. QED BY <1>5, <1>11, <2>1 DEF CallRecord
<1>13. /\ d.todo = call.todo /\ d.rows = rows /\ d.tries = call.tries
       /\ d.first = first /\ d.step = "connect"
  BY DEF CallRecord
<1>14. Room(d)
  <2> HIDE DEF d
  <2> QED BY <1>3, <1>4, <1>11, <1>13 DEF Room
<1>15. QED BY <1>1, <1>12, <1>14 DEF Fits

----------------------------------------------------------------------------
(* The invariant of the types. *)
LEMMA InitType == Init => TypeInv
<1> SUFFICES ASSUME Init PROVE TypeInv
  OBVIOUS
<1>1. stock \in Nat
  BY RangeAssumption DEF Init
<1>2. Fits(call)
  BY <1>1, WalkFits, EmptySeq DEF Init
<1>3. QED BY <1>2 DEF Init, TypeInv, Kept

(* Every step keeps the types.                                              *)
LEMMA NextType ==
  ASSUME TypeInv, [Next]_vars
  PROVE  TypeInv'
<1>1. CASE UNCHANGED vars
  BY <1>1, SameCall DEF vars, TypeInv
<1>2. ASSUME NEW outcome \in {"in", "refused", "hollow", "lost"}, LogIn(outcome)
      PROVE  TypeInv'
  <2>1. Fits(call')
    BY <1>2, ConnectStep DEF LogIn
  <2>2. call.at \in 1 .. Addresses
    BY StockHeld, CallFields
  <2>3. QED BY <1>2, <2>1, <2>2, SameStock DEF LogIn, TypeInv, Kept
<1>3. CASE Reuse
  <2>1. Fits(call')
    BY <1>3, ConnectStep DEF Reuse
  <2>2. QED BY <1>3, <2>1, SameStock DEF Reuse, TypeInv
<1>4. CASE Issue \/ Skip \/ Reject
  BY <1>4, WalkStep, SameStock DEF Issue, Skip, Reject, TypeInv
<1>5. CASE Served
  BY <1>5, ServedFits, SameStock DEF Served, TypeInv
<1>6. CASE RowFails
  BY <1>6, RowFailsFits, SameStock DEF RowFails, TypeInv
<1>7. CASE Refused \/ Hollow \/ Reread \/ Busy \/ SslError \/ Lost
  <2>1. UNCHANGED <<g_bFusionStorage, conn, aged, session, stock>>
    BY <1>7 DEF Refused, Hollow, Reread, Busy, SslError, Lost
  <2>2. QED BY <1>7, <2>1, ReplyFits, HollowFits, RereadFits, SameStock DEF TypeInv
<1>8. CASE Stuck
  BY <1>8, SameCall DEF Stuck, vars, TypeInv
<1>9. ASSUME NEW a \in 1 .. Addresses, Evict(a)
      PROVE  TypeInv'
  BY <1>9, SameCall DEF Evict, TypeInv
<1>10. ASSUME NEW a \in 1 .. Addresses, Age(a)
       PROVE  TypeInv'
  BY <1>10, SameCall DEF Age, TypeInv
<1>11. QED
  BY <1>1, <1>2, <1>3, <1>4, <1>5, <1>6, <1>7, <1>8, <1>9, <1>10
  DEF Next, Process

(* TypeInv is inductive: a call is what is left of one of Calls, at one of  *)
(* the addresses, with no more rows than the addresses so far can give (the *)
(* loops of the CMD_* functions over the addresses).                        *)
THEOREM TypeInvariant == Spec => []TypeInv
BY InitType, NextType, PTL DEF Spec

(* No list is longer than what the addresses hold together.                 *)
THEOREM TypeCorrect == Spec => []TypeOK
<1>1. TypeInv => TypeOK
  <2> SUFFICES ASSUME TypeInv PROVE TypeOK
    OBVIOUS
  <2>1. /\ call.at \in 1 .. Addresses /\ call.first \in 0 .. stock
        /\ call.step \in {"connect", "send", "stuck"}
        /\ call.ssl \in 0 .. SSL_ERROR_RETRY_NUM
        /\ call.executed \in 0 .. Addresses + 1
    BY StockHeld, CallFields
  <2>2. UnderWay => call.tries \in 1 .. Part.busy
    BY DEF TypeInv, Fits, Room, UnderWay, Part
  <2>3. Len(call.rows) <= call.at * stock
    <3>1. CASE ~UnderWay
      <4>1. call.at \in Nat /\ stock \in Nat /\ Len(call.rows) = 0
        BY <2>1, <3>1, StockHeld, EmptySeq DEF TypeInv, Fits, Room, UnderWay
      <4>2. call.at * stock \in Nat
        BY <4>1
      <4>3. QED BY <4>1, <4>2
    <3>2. CASE UnderWay /\ call.step = "stuck"
      BY <3>2 DEF TypeInv, Fits, Room, UnderWay
    <3>3. CASE UnderWay /\ call.step # "stuck"
      <4>1. 0 \in 0 .. stock - call.first /\ Len(call.rows) \in Nat
        BY <2>1, StockHeld, CallFields
      <4>2. Len(call.rows) + 0 <= call.at * stock
        BY <3>3, <4>1, StockHeld, OneAddressMore DEF TypeInv
      <4>3. QED BY <4>1, <4>2
    <3>4. QED BY <3>1, <3>2, <3>3
  <2>4. call.at * stock <= Addresses * MaxRows
    <3>1. call.at \in Nat /\ stock \in Nat /\ MaxRows \in Nat /\ Addresses \in Nat
      BY <2>1, StockHeld, RangeAssumption, TransportAssumption
    <3>2. PICK m \in Nat, n \in Nat : Addresses = call.at + m /\ MaxRows = stock + n
      <4>1. Addresses - call.at \in Nat /\ MaxRows - stock \in Nat
        BY <2>1, <3>1, StockHeld
      <4>2. QED BY <3>1, <4>1
    <3>3. (call.at + m) * (stock + n) = call.at * stock + call.at * n + m * stock + m * n
      BY <3>1
    <3>4. call.at * n \in Nat /\ m * stock \in Nat /\ m * n \in Nat
          /\ call.at * stock \in Nat
      BY <3>1
    <3>5. QED BY <3>2, <3>3, <3>4
  <2>5. Len(call.rows) <= Addresses * MaxRows
    <3>1. Len(call.rows) \in Nat /\ call.at * stock \in Nat /\ Addresses * MaxRows \in Nat
      BY <2>1, StockHeld, CallFields, RangeAssumption, TransportAssumption
    <3>2. QED BY <2>3, <2>4, <3>1
  <2>6. QED BY <2>1, <2>2, <2>5 DEF TypeInv, TypeOK
<1>2. QED BY <1>1, TypeInvariant, PTL

----------------------------------------------------------------------------
(* Changes.  What is left of an honest call is honest. *)
LEMMA RestHonest ==
  ASSUME NEW todo \in Seq(Parts), AllHonest(todo), NEW n \in 1 .. Len(todo)
  PROVE  AllHonest(SubSeq(todo, n, Len(todo)))
<1> DEFINE rest == SubSeq(todo, n, Len(todo))
<1>1. Len(todo) \in Nat
  BY LenProperties
<1>2. \A i \in n .. Len(todo) : todo[i] \in Parts
  BY <1>1, ElementOfSeq
<1>3. /\ Len(rest) = Len(todo) - n + 1
      /\ \A i \in 1 .. Len(todo) - n + 1 : rest[i] = todo[n + i - 1]
  <2>1. /\ Len(rest) = IF n <= Len(todo) THEN Len(todo) - n + 1 ELSE 0
        /\ \A i \in 1 .. Len(todo) - n + 1 : rest[i] = todo[n + i - 1]
    BY <1>1, <1>2, SubSeqProperties
  <2>2. QED BY <1>1, <2>1
<1> HIDE DEF rest
<1>4. ASSUME NEW i \in 1 .. Len(rest), rest[i].kind = "change"
      PROVE  Honest(rest[i])
  <2>1. PICK j \in 1 .. Len(todo) : j = n + i - 1
    BY <1>1, <1>3
  <2>2. rest[i] = todo[j]
    BY <1>3, <2>1
  <2>3. QED BY <1>4, <2>1, <2>2 DEF AllHonest
<1>5. AllHonest(rest)
  BY <1>4 DEF AllHonest
<1>6. QED BY <1>5 DEF rest

(* So is its first part.                                                    *)
LEMMA HeadHonest ==
  ASSUME NEW todo \in Seq(Parts), AllHonest(todo), todo # <<>>,
         Head(todo).kind = "change"
  PROVE  Honest(Head(todo))
<1>1. Len(todo) \in Nat \ {0}
  BY EmptySeq
<1>2. Head(todo) = todo[1] /\ 1 \in 1 .. Len(todo)
  BY <1>1
<1>3. QED BY <1>2 DEF AllHonest

(* A call that begins has delivered nothing yet.                            *)
LEMMA WalkDelivers ==
  ASSUME NEW todo, AllHonest(todo)
  PROVE  Delivers(Walk(todo))
BY DEF Delivers, LastDelivered, Walk, NoPart

(* A part that ends in success has been served.                             *)
LEMMA ConcludedDelivers ==
  ASSUME stock \in Nat, NEW c \in CallRecord, AllHonest(c.todo), c.todo # <<>>,
         NEW result \in Result,
         Head(c.todo).kind = "change" =>
           /\ c.executed <= Addresses
           /\ result = "ok" /\ Head(c.todo).spent # "any" /\ conn[c.at] # "hollow" =>
                c.executed >= 1
  PROVE  Delivers(Concluded(c, result))
<1>1. PICK d : d = Concluded(c, result)
  OBVIOUS
<1>2. /\ d.first = 0 /\ d.executed = 0 /\ d.at = 1
      /\ d.last = [part |-> Head(c.todo), result |-> result, at |-> c.at,
                   executed |-> c.executed, rows |-> c.rows]
  BY <1>1, ConcludedFits
<1>3. c.todo \in Seq(Parts) /\ AllHonest(<<>>)
  BY CallFields, EmptySeq DEF AllHonest
<1>4. AllHonest(d.todo)
  <2>1. d.todo = <<>> \/ \E n \in 1 .. Len(c.todo) : d.todo = SubSeq(c.todo, n, Len(c.todo))
    BY <1>1, ConcludedFits
  <2>2. QED BY <1>3, <2>1, RestHonest
<1>5. LastDelivered(d)
  BY <1>2 DEF LastDelivered, Answering
<1>6. QED BY <1>1, <1>2, <1>4, <1>5 DEF Delivers

(* The next address: what the last one has delivered is kept count of.      *)
LEMMA NextAddressDelivers ==
  ASSUME stock \in Nat, UnderWay, NEW c \in CallRecord, c.todo = call.todo,
         AllHonest(c.todo), LastDelivered(c),
         Part.kind = "change" => c.first = 0 /\ c.executed <= c.at,
         NextAddress(c)
  PROVE  Delivers(call')
<1>1. c.todo # <<>> /\ Head(c.todo) = Part /\ Part \in Parts /\ c.todo \in Seq(Parts)
      /\ c.at \in 1 .. Addresses /\ c.executed \in 0 .. Addresses + 1
  BY CallFields DEF UnderWay, Part
<1>2. CASE c.at < Addresses
  <2>1. PICK first, rows :
          /\ call' = [c EXCEPT !.at = c.at + 1, !.step = "connect",
                               !.first = first, !.rows = rows,
                               !.tries = 1, !.ssl = 0]
          /\ first = IF Part.lost = "onward" THEN c.first ELSE 0
    BY <1>2 DEF NextAddress
  <2>2. /\ call'.at = c.at + 1 /\ call'.first = first /\ call'.todo = c.todo
        /\ call'.executed = c.executed /\ call'.last = c.last
    BY <2>1 DEF CallRecord
  <2>3. Part.kind = "change" => first = 0 /\ c.executed <= (c.at + 1) - 1
    BY <1>1, <2>1, TransportAssumption
  <2>4. LastDelivered(call')
    BY <2>2 DEF LastDelivered
  <2>5. QED BY <1>1, <2>2, <2>3, <2>4 DEF Delivers
<1>3. CASE ~(c.at < Addresses)
  <2>1. PICK result \in Results(Part.spent) : call' = Concluded(c, result)
    BY <1>3 DEF NextAddress
  <2>2. Part.spent \in {"ok", "error", "any"}
    BY <1>1, PartFields
  <2>3. result \in Result
    BY <2>1, <2>2 DEF Results, Result
  <2>4. ASSUME Part.kind = "change"
        PROVE  c.executed <= Addresses /\ (result = "ok" => Part.spent = "any")
    <3>1. Honest(Part)
      BY <1>1, <2>4, HeadHonest
    <3>2. Part.spent # "any" => result = "error"
      BY <2>1, <2>2, <3>1 DEF Honest, Results
    <3>3. c.executed <= Addresses
      BY <1>1, <2>4, TransportAssumption
    <3>4. QED BY <3>2, <3>3
  <2>5. QED BY <1>1, <2>1, <2>3, <2>4, ConcludedDelivers
<1>4. QED BY <1>2, <1>3

(* A request that was lost may have been delivered.                         *)
LEMMA FailedDelivers ==
  ASSUME stock \in Nat, UnderWay, NEW c \in CallRecord, c.todo = call.todo,
         AllHonest(c.todo), LastDelivered(c),
         Part.kind = "change" => c.first = 0 /\ c.executed <= c.at,
         Failed(c)
  PROVE  Delivers(call')
<1>1. c.todo # <<>> /\ Head(c.todo) = Part /\ Part \in Parts /\ c.todo \in Seq(Parts)
      /\ c.at \in 1 .. Addresses /\ c.executed \in 0 .. Addresses + 1
  BY CallFields DEF UnderWay, Part
<1>2. Part.lost \in {"next", "again", "onward", "ok", "error"}
  BY <1>1, PartFields
<1>3. Part.kind = "change" => Part.lost \notin {"again", "ok"}
  BY <1>1, HeadHonest DEF Honest
<1>4. CASE Part.lost \in {"next", "onward"}
  <2>1. NextAddress(c)
    BY <1>4 DEF Failed
  <2>2. QED BY <2>1, NextAddressDelivers
<1>5. CASE Part.lost = "again"
  <2>1. call' = [c EXCEPT !.ssl = 0]
    BY <1>5 DEF Failed
  <2>2. call'.todo = c.todo /\ call'.last = c.last
    BY <2>1 DEF CallRecord
  <2>3. QED BY <1>1, <1>3, <1>5, <2>2 DEF Delivers, LastDelivered
<1>6. CASE Part.lost \in {"ok", "error"}
  <2>1. call' = Concluded(c, Part.lost) /\ Part.lost \in Result
    BY <1>6 DEF Failed, Result
  <2>2. Part.kind = "change" => c.executed <= Addresses /\ Part.lost # "ok"
    BY <1>1, <1>3, TransportAssumption
  <2>3. QED BY <1>1, <2>1, <2>2, ConcludedDelivers
<1>7. QED BY <1>2, <1>4, <1>5, <1>6

(* A request that reached the array. *)
LEMMA ExecutedDelivers ==
  ASSUME TypeInv, UnderWay, Delivers(call), NEW c, c = Executed(call)
  PROVE  /\ c \in CallRecord /\ c.todo = call.todo /\ c.first = call.first
         /\ c.at = call.at /\ c.rows = call.rows /\ c.step = call.step
         /\ AllHonest(c.todo) /\ LastDelivered(c)
         /\ Part.kind = "change" =>
              c.first = 0 /\ c.executed <= c.at /\ c.executed >= 1
<1>1. call \in CallRecord /\ stock \in Nat /\ Fits(call)
  BY StockHeld DEF TypeInv
<1>2. PICK n \in 0 .. Addresses + 1 :
        /\ c = [call EXCEPT !.executed = n]
        /\ n <= call.executed + 1
        /\ call.first = 0 => n >= 1
  BY <1>1, ExecutedFits
<1>3. /\ c \in CallRecord /\ c.todo = call.todo /\ c.first = call.first
      /\ c.at = call.at /\ c.executed = n /\ c.last = call.last
      /\ c.rows = call.rows /\ c.step = call.step
  BY <1>1, <1>2 DEF CallRecord
<1>4. Part.kind = "change" => call.first = 0 /\ call.executed <= call.at - 1
  BY DEF Delivers, UnderWay, Part
<1>5. call.at \in 1 .. Addresses /\ call.executed \in 0 .. Addresses + 1
  BY <1>1, CallFields
<1>6. Part.kind = "change" => n <= call.at /\ n >= 1
  BY <1>2, <1>4, <1>5, TransportAssumption
<1>7. QED BY <1>3, <1>4, <1>6 DEF Delivers, LastDelivered

(* The page of a change is empty, and it is not asked for another. *)
LEMMA PageReadDelivers ==
  ASSUME stock \in Nat, UnderWay, NEW c \in CallRecord, c.todo = call.todo,
         AllHonest(c.todo), LastDelivered(c), NEW size,
         Part.kind = "change" =>
           c.executed <= c.at /\ (conn[c.at] # "hollow" => c.executed >= 1),
         call' = PageRead(c, size)
  PROVE  Delivers(call')
<1>1. c.todo # <<>> /\ Head(c.todo) = Part /\ Part \in Parts
      /\ c.at \in 1 .. Addresses /\ c.executed \in 0 .. Addresses + 1
  BY CallFields DEF UnderWay, Part
<1>2. Part.empty \in Result /\ (Part.kind = "change" => ~(Part.full > 0))
  BY <1>1, PartFields DEF Regular, Result
<1>3. CASE Part.full > 0 /\ size = Part.full
  <2>1. PICK first, at, step :
          call' = [c EXCEPT !.first = first, !.ssl = 0, !.at = at, !.step = step]
    BY <1>3 DEF PageRead
  <2>2. call'.todo = c.todo /\ call'.last = c.last
    BY <2>1 DEF CallRecord
  <2>3. QED BY <1>1, <1>2, <1>3, <2>2 DEF Delivers, LastDelivered
<1>4. CASE ~(Part.full > 0 /\ size = Part.full)
  <2>1. PICK result \in Result : call' = Concluded(c, result)
    BY <1>2, <1>4 DEF PageRead, Result
  <2>2. Part.kind = "change" => c.executed <= Addresses
    BY <1>1, TransportAssumption
  <2>3. QED BY <1>1, <2>1, <2>2, ConcludedDelivers
<1>5. QED BY <1>3, <1>4

(* Every step keeps Delivers, if the parts are honest.                      *)
LEMMA ChangeStep ==
  ASSUME TypeInv, Delivers(call), HonestCalls, [Next]_vars
  PROVE  Delivers(call')
<1> USE StockHeld
<1>1. CASE call' = call
  BY <1>1
<1>2. CASE Issue
  <2>1. PICK c \in Calls[g_bFusionStorage] : call' = Walk(c)
    BY <1>2 DEF Issue
  <2>2. AllHonest(c)
    BY <2>1 DEF HonestCalls, TypeInv
  <2>3. QED BY <2>1, <2>2, WalkDelivers
<1>3. CASE Skip
  <2>1. PICK rest : rest = SubSeq(call.todo, Part.skip + 1, Len(call.todo))
    OBVIOUS
  <2>2. Part.skip \in Nat /\ call.todo \in Seq(Parts) /\ Len(call.todo) \in Nat
        /\ AllHonest(call.todo)
    BY <1>3, PartFields, CallFields, LenProperties
    DEF Skip, Fresh, Connecting, Delivers
  <2>3. AllHonest(rest)
    <3>1. CASE Part.skip + 1 <= Len(call.todo)
      <4>1. PICK n \in 1 .. Len(call.todo) : n = Part.skip + 1
        BY <2>2, <3>1
      <4>2. AllHonest(SubSeq(call.todo, n, Len(call.todo)))
        BY <2>2, RestHonest
      <4>3. QED BY <2>1, <4>1, <4>2
    <3>2. CASE Part.skip + 1 > Len(call.todo)
      <4>1. rest = <<>>
        BY <2>1, <2>2, <3>2, SubSeqEmpty
      <4>2. QED BY <4>1, EmptySeq DEF AllHonest
    <3>3. QED BY <2>2, <3>1, <3>2
  <2>4. call' = Walk(rest)
    BY <1>3, <2>1 DEF Skip
  <2>5. QED BY <2>3, <2>4, WalkDelivers
<1>4. CASE Reject
  <2>1. AllHonest(<<>>)
    BY EmptySeq DEF AllHonest
  <2>2. QED BY <1>4, <2>1, WalkDelivers DEF Reject
<1>5. ASSUME call' = [call EXCEPT !.step = "send", !.last = NoPart]
      PROVE  Delivers(call')
  <2>1. /\ call'.todo = call.todo /\ call'.first = call.first /\ call'.at = call.at
        /\ call'.executed = call.executed /\ call'.last = NoPart
    BY <1>5 DEF CallRecord
  <2>2. LastDelivered(call')
    BY <2>1 DEF LastDelivered, NoPart
  <2>3. QED BY <2>1, <2>2 DEF Delivers
<1>6. CASE Served
  <2>1. UnderWay
    BY <1>6 DEF Served, Accepted, LoggedIn, Sending
  <2>2. PICK c : c = Executed(call)
    OBVIOUS
  <2>3. /\ c \in CallRecord /\ c.todo = call.todo /\ AllHonest(c.todo)
        /\ LastDelivered(c) /\ c.first \in 0 .. stock /\ c.rows \in Seq(Nat)
        /\ Part.kind = "change" => c.executed <= c.at /\ c.executed >= 1
    BY <2>1, <2>2, ExecutedDelivers, CallFields
  <2>4. c.rows \o Page(c) \in Seq(Nat)
    BY <2>1, <2>3, PageRows, ConcatProperties
  <2>5. PICK d : d = [c EXCEPT !.rows = c.rows \o Page(c)]
    OBVIOUS
  <2>6. /\ d \in CallRecord /\ d.todo = call.todo /\ d.last = c.last
        /\ d.executed = c.executed /\ d.at = c.at
    BY <2>3, <2>4, <2>5 DEF CallRecord
  <2>7. call' = PageRead(d, Len(Page(c)))
    BY <1>6, <2>2, <2>5 DEF Served
  <2>8. LastDelivered(d)
    BY <2>3, <2>6 DEF LastDelivered
  <2>9. QED BY <2>1, <2>3, <2>6, <2>7, <2>8, PageReadDelivers
<1>7. CASE RowFails
  <2>1. UnderWay /\ Part.kind = "show"
    BY <1>7, RowFailure
  <2>2. PICK outcome \in Part.row, rows \in Seq(Nat),
             size \in 1 .. stock - call.first, d \in CallRecord :
          /\ Len(rows) < Len(call.rows) + size
          /\ d = [Executed(call) EXCEPT !.rows = rows]
          /\ \/ outcome = "next" /\ NextAddress(d)
             \/ outcome = "error" /\ call' = Concluded(d, "error")
             \/ outcome = "stuck" /\ call' = [d EXCEPT !.step = "stuck"]
             \/ outcome = "left" /\ call' = PageRead(d, size)
    BY <1>7, RowFailure
  <2>3. PICK c : c = Executed(call)
    OBVIOUS
  <2>4. c \in CallRecord /\ c.todo = call.todo /\ AllHonest(c.todo) /\ LastDelivered(c)
    BY <2>1, <2>3, ExecutedDelivers
  <2>5. d.todo = call.todo /\ d.last = c.last
    BY <2>2, <2>3, <2>4 DEF CallRecord
  <2>6. AllHonest(d.todo) /\ LastDelivered(d) /\ d.todo # <<>> /\ Head(d.todo) = Part
    BY <2>1, <2>4, <2>5 DEF LastDelivered, UnderWay, Part
  <2>7. CASE NextAddress(d)
    BY <2>1, <2>5, <2>6, <2>7, NextAddressDelivers
  <2>8. CASE call' = Concluded(d, "error")
    BY <2>1, <2>6, <2>8, ConcludedDelivers DEF Result
  <2>9. CASE call' = [d EXCEPT !.step = "stuck"]
    <3>1. call'.todo = d.todo /\ call'.last = d.last
      BY <2>9 DEF CallRecord
    <3>2. QED BY <2>1, <2>6, <3>1 DEF Delivers, LastDelivered
  <2>10. CASE call' = PageRead(d, size)
    BY <2>1, <2>5, <2>6, <2>10, PageReadDelivers
  <2>11. QED BY <2>2, <2>7, <2>8, <2>9, <2>10
<1>8. ASSUME UnderWay
      PROVE  /\ call.todo # <<>> /\ Head(call.todo) = Part /\ Part \in Parts
             /\ AllHonest(call.todo) /\ LastDelivered(call)
             /\ Part.kind = "change" =>
                  /\ call.first = 0 /\ call.executed <= call.at
                  /\ call.executed <= Addresses /\ Honest(Part)
  <2>1. call.at \in 1 .. Addresses /\ call.executed \in 0 .. Addresses + 1
        /\ call.todo \in Seq(Parts)
    BY CallFields
  <2>2. AllHonest(call.todo) /\ LastDelivered(call)
    BY DEF Delivers
  <2>3. Part.kind = "change" => call.first = 0 /\ call.executed <= call.at - 1
    BY <1>8 DEF Delivers, UnderWay, Part
  <2>4. Part.kind = "change" => call.executed <= call.at /\ call.executed <= Addresses
    BY <2>1, <2>3, TransportAssumption
  <2>5. Part.kind = "change" => Honest(Part)
    BY <1>8, <2>1, <2>2, HeadHonest DEF UnderWay, Part
  <2>6. QED BY <1>8, <2>2, <2>3, <2>4, <2>5 DEF UnderWay, Part
<1>9. CASE Refused
  <2>1. UnderWay
    BY <1>9 DEF Refused, LoggedIn, Sending
  <2>2. PICK result \in Results(Part.refused) : call' = Concluded(call, result)
    BY <1>9 DEF Refused
  <2>3. Part.refused \in {"ok", "error", "any"} /\ Part.spent \in {"ok", "error", "any"}
    BY <1>8, <2>1, PartFields
  <2>4. result \in Result
    BY <2>2, <2>3 DEF Results, Result
  <2>5. Part.kind = "change" /\ Part.spent # "any" => result = "error"
    BY <1>8, <2>1, <2>2, <2>3 DEF Honest, Results
  <2>6. QED BY <1>8, <2>1, <2>2, <2>4, <2>5, ConcludedDelivers
<1>10. CASE Busy
  <2>1. UnderWay
    BY <1>10 DEF Busy, Accepted, LoggedIn, Sending
  <2>2. CASE call.tries < Part.busy
    <3>1. PICK tries : call' = [call EXCEPT !.tries = tries, !.ssl = 0]
      BY <1>10, <2>2 DEF Busy
    <3>2. /\ call'.todo = call.todo /\ call'.first = call.first /\ call'.at = call.at
          /\ call'.executed = call.executed /\ call'.last = call.last
      BY <3>1 DEF CallRecord
    <3>3. QED BY <3>2 DEF Delivers, LastDelivered
  <2>3. CASE ~(call.tries < Part.busy)
    <3>1. NextAddress(call)
      BY <1>10, <2>3 DEF Busy
    <3>2. QED BY <1>8, <2>1, <3>1, NextAddressDelivers
  <2>4. QED BY <2>2, <2>3
<1>11. CASE SslError
  <2>1. UnderWay
    BY <1>11 DEF SslError, LoggedIn, Sending
  <2>2. CASE call.ssl < SSL_ERROR_RETRY_NUM
    <3>1. PICK ssl : call' = [call EXCEPT !.ssl = ssl]
      BY <1>11, <2>2 DEF SslError
    <3>2. /\ call'.todo = call.todo /\ call'.first = call.first /\ call'.at = call.at
          /\ call'.executed = call.executed /\ call'.last = call.last
      BY <3>1 DEF CallRecord
    <3>3. QED BY <3>2 DEF Delivers, LastDelivered
  <2>3. CASE ~(call.ssl < SSL_ERROR_RETRY_NUM)
    BY <1>8, <1>11, <2>1, <2>3, FailedDelivers DEF SslError
  <2>4. QED BY <2>2, <2>3
<1>12. CASE Lost
  <2>1. UnderWay
    BY <1>12 DEF Lost, Accepted, LoggedIn, Sending
  <2>2. PICK c \in {call, Executed(call)} : Failed(c)
    BY <1>12 DEF Lost
  <2>3. CASE c = call
    BY <1>8, <2>1, <2>2, <2>3, FailedDelivers
  <2>4. CASE c = Executed(call)
    <3>1. /\ c \in CallRecord /\ c.todo = call.todo
          /\ AllHonest(c.todo) /\ LastDelivered(c)
          /\ Part.kind = "change" => c.first = 0 /\ c.executed <= c.at
      BY <2>1, <2>4, ExecutedDelivers
    <3>2. QED BY <2>1, <2>2, <3>1, FailedDelivers
  <2>5. QED BY <2>2, <2>3, <2>4
<1>13. CASE \/ UNCHANGED vars \/ Stuck
           \/ \E a \in 1 .. Addresses : Evict(a) \/ Age(a)
  BY <1>1, <1>13 DEF vars, Stuck, Evict, Age
<1>14. CASE \/ Reuse
           \/ \E outcome \in {"in", "refused", "hollow", "lost"} : LogIn(outcome)
  BY <1>5, <1>14 DEF Reuse, LogIn
<1>15. CASE Hollow
  <2>1. UnderWay /\ conn[call.at] = "hollow" /\ call' = PageRead(call, 0)
    BY <1>15 DEF Hollow, Sending
  <2>2. QED BY <1>8, <2>1, PageReadDelivers
<1>16. CASE Reread
  <2>1. UnderWay /\ Part.rereads
    BY <1>16 DEF Reread, Sending
  <2>2. Part.kind = "show"
    BY <1>8, <2>1, PartFields DEF Regular
  <2>3. PICK first, rows :
          call' = [call EXCEPT !.first = first, !.rows = rows, !.at = 1,
                               !.step = "connect", !.ssl = 0]
    BY <1>16 DEF Reread
  <2>4. call'.todo = call.todo /\ call'.last = call.last
    BY <2>3 DEF CallRecord
  <2>5. QED BY <1>8, <2>1, <2>2, <2>4 DEF Delivers, LastDelivered
<1>17. QED
  BY <1>2, <1>3, <1>4, <1>6, <1>7, <1>9, <1>10, <1>11, <1>12, <1>13, <1>14,
     <1>15, <1>16
  DEF Next, Process

(* The logins stay what they are until the next part has begun.             *)
LEMMA LoginsStay ==
  ASSUME TypeInv, [Next]_vars
  PROVE  conn' = conn \/ call'.last = NoPart
<1>1. ASSUME NEW outcome, LogIn(outcome)
      PROVE  call'.last = NoPart
  <2>1. call \in CallRecord
    BY StockHeld
  <2>2. call' = [call EXCEPT !.step = "send", !.last = NoPart]
    BY <1>1 DEF LogIn
  <2>3. QED BY <2>1, <2>2 DEF CallRecord
<1>2. CASE Process
  BY <1>1, <1>2
  DEF Process, Reuse, Skip, Reject, Served, RowFails, Refused, Hollow, Reread,
      Busy, SslError, Lost, Stuck, vars
<1>3. CASE Issue \/ \E a \in 1 .. Addresses : Evict(a) \/ Age(a)
  BY <1>3 DEF Issue, Evict, Age
<1>4. QED BY <1>2, <1>3 DEF Next, vars

(* A call made of honest parts that reports success has reached the array,  *)
(* and at most once for each address; one that reports a failure may have:  *)
(* the loops over m_vec_ip of the CMD_* functions, with their retries.      *)
THEOREM ReportsDelivered ==
  ASSUME HonestCalls
  PROVE  Spec => []DeliveredAsReported
<1>1. Init => TypeInv /\ Delivers(call)
  <2>1. AllHonest(<<>>)
    BY EmptySeq DEF AllHonest
  <2>2. QED BY <2>1, InitType, WalkDelivers DEF Init
<1>2. TypeInv /\ Delivers(call) /\ [Next]_vars => TypeInv' /\ Delivers(call)'
  <2>1. TypeInv /\ Delivers(call) /\ [Next]_vars => Delivers(call')
    BY ChangeStep
  <2>2. ASSUME TypeInv, Delivers(call'), [Next]_vars
        PROVE  Delivers(call)'
    <3>1. CASE conn' = conn
      BY <2>2, <3>1 DEF Delivers, LastDelivered, Answering
    <3>2. CASE call'.last = NoPart
      BY <2>2, <3>2 DEF Delivers, LastDelivered, NoPart
    <3>3. QED BY <2>2, <3>1, <3>2, LoginsStay
  <2>3. QED BY <2>1, <2>2, NextType
<1>3. Delivers(call) => DeliveredAsReported
  BY DEF Delivers, LastDelivered, DeliveredAsReported, Ended
<1>4. QED BY <1>1, <1>2, <1>3, PTL DEF Spec

-----------------------------------------------------------------------------
(* The tables of calls. *)
(* The parts and the builders are those of RestProfile in every module.     *)
LEMMA SameParts ==
  /\ OceanStor!Change = Change /\ OceanStor!Patient = Patient
  /\ OceanStor!Show = Show /\ OceanStor!Find = Find /\ OceanStor!Pages = Pages
  /\ Fusion!Change = Change
  /\ Fusion!Show = Show /\ Fusion!Find = Find /\ Fusion!Pages = Pages
BY DEF Change, Patient, Show, Find, Pages, OceanStor!Change, OceanStor!Patient,
  OceanStor!Show, OceanStor!Find, OceanStor!Pages,
  Fusion!Change, Fusion!Show, Fusion!Find, Fusion!Pages

(* So are the calls that are built from them.                               *)
LEMMA SameBuilders ==
  ASSUME NEW parts
  PROVE  /\ OceanStor!Ignored(parts) = Ignored(parts)
         /\ Fusion!Ignored(parts) = Ignored(parts)
         /\ OceanStor!Optional(parts) = Optional(parts)
         /\ Fusion!Optional(parts) = Optional(parts)
         /\ OceanStor!Checked(parts) = Checked(parts)
BY DEF Ignored, Optional, Checked, OceanStor!Ignored, OceanStor!Optional,
   OceanStor!Checked, Fusion!Ignored, Fusion!Optional

(* The parts the tables begin with. *)
LEMMA BasicParts ==
  {Change, Patient, Show, Find, Pages} \subseteq HonestParts
<1>1. /\ RECOMMEND_RANGE_COUNT \in Nat /\ RECOMMEND_RANGE_COUNT > 0
      /\ MaxRows \in Nat
  BY RangeAssumption
<1>2. Change \in HonestParts
  BY <1>1 DEF Change, HonestParts, Parts, PartRecord, Result, Regular, Honest
<1>3. Patient \in HonestParts
  <2>1. PICK part \in HonestParts : part = Change
    BY <1>2
  <2>2. Patient = [part EXCEPT !.busy = 3]
    BY <2>1 DEF Patient
  <2>3. QED BY <2>2 DEF HonestParts, Parts, PartRecord, Regular, Honest
<1>4. Show \in HonestParts /\ Show.kind = "show"
  <2>1. PICK part \in HonestParts : part = Change
    BY <1>2
  <2>2. Show = [part EXCEPT !.kind = "show"]
    BY <2>1 DEF Show
  <2>3. QED BY <2>2 DEF HonestParts, Parts, PartRecord, Regular, Honest
<1>5. PICK show \in HonestParts : show = Show
  BY <1>4
<1>6. Find \in HonestParts
  <2>1. Find = [show EXCEPT !.empty = "error"]
    BY <1>5 DEF Find
  <2>2. QED BY <2>1 DEF HonestParts, Parts, PartRecord, Result, Regular, Honest
<1>7. Pages \in HonestParts
  <2>1. Pages = [show EXCEPT !.ask = RECOMMEND_RANGE_COUNT,
                             !.full = RECOMMEND_RANGE_COUNT]
    BY <1>5 DEF Pages
  <2>2. show.kind = "show"
    BY <1>4, <1>5
  <2>3. PICK n \in Nat : n = RECOMMEND_RANGE_COUNT /\ n > 0
    BY <1>1
  <2>4. PICK pages : pages = [show EXCEPT !.ask = n, !.full = n]
    OBVIOUS
  <2>5. show \in PartRecord /\ Regular(show)
    BY DEF HonestParts, Parts
  <2>6. pages \in PartRecord
    BY <2>4, <2>5 DEF PartRecord
  <2>7. /\ pages.kind = "show" /\ pages.full = n /\ pages.lost = show.lost
        /\ pages.keeps = show.keeps /\ pages.row = show.row
        /\ pages.rereads = show.rereads
    BY <2>2, <2>4, <2>5 DEF PartRecord
  <2>8. Regular(pages)
    BY <2>3, <2>5, <2>7 DEF Regular
  <2>9. QED BY <2>1, <2>3, <2>4, <2>6, <2>7, <2>8 DEF HonestParts, Parts
<1>8. QED BY <1>2, <1>3, <1>4, <1>6, <1>7

(* What the builders make of such parts are such parts.                      *)
LEMMA BuiltParts ==
  ASSUME NEW parts \in Seq(HonestParts)
  PROVE  /\ Ignored(parts) \in Seq(HonestParts)
         /\ Optional(parts) \in Seq(HonestParts)
         /\ Checked(parts) \in Seq(HonestParts)
<1>1. /\ Len(parts) \in Nat /\ DOMAIN parts = 1 .. Len(parts)
      /\ \A i \in 1 .. Len(parts) : parts[i] \in HonestParts
  BY LenProperties, ElementOfSeq
<1>2. ASSUME NEW part \in HonestParts, NEW n \in Nat
      PROVE  /\ [part EXCEPT !.ignored = n] \in HonestParts
             /\ [part EXCEPT !.skip = n] \in HonestParts
             /\ [part EXCEPT !.check = TRUE] \in HonestParts
  <2>1. PICK p : p = [part EXCEPT !.ignored = n]
    OBVIOUS
  <2>2. p \in HonestParts
    BY <2>1 DEF HonestParts, Parts, PartRecord, Regular, Honest
  <2>3. PICK q : q = [part EXCEPT !.skip = n]
    OBVIOUS
  <2>4. q \in HonestParts
    BY <2>3 DEF HonestParts, Parts, PartRecord, Regular, Honest
  <2>5. PICK r : r = [part EXCEPT !.check = TRUE]
    OBVIOUS
  <2>6. r \in HonestParts
    BY <2>5 DEF HonestParts, Parts, PartRecord, Regular, Honest
  <2>7. QED BY <2>1, <2>2, <2>3, <2>4, <2>5, <2>6
<1>3. Ignored(parts) \in Seq(HonestParts)
  <2>1. PICK f : f = [i \in 1 .. Len(parts) |->
                  IF parts[i].ignored > 0 THEN parts[i]
                  ELSE [parts[i] EXCEPT !.ignored = Len(parts) - i + 1]]
    OBVIOUS
  <2>2. ASSUME NEW i \in 1 .. Len(parts) PROVE f[i] \in HonestParts
    <3>1. Len(parts) - i + 1 \in Nat
      BY <1>1
    <3>2. [parts[i] EXCEPT !.ignored = Len(parts) - i + 1] \in HonestParts
      BY <1>1, <1>2, <3>1
    <3>3. QED BY <1>1, <2>1, <3>2
  <2>3. f \in [1 .. Len(parts) -> HonestParts]
    BY <2>1, <2>2
  <2>4. f \in Seq(HonestParts)
    BY <1>1, <2>3
  <2>5. Ignored(parts) = f
    BY <1>1, <2>1 DEF Ignored
  <2>6. QED BY <2>4, <2>5
<1>4. Optional(parts) \in Seq(HonestParts)
  <2>1. CASE parts = <<>>
    <3>1. DOMAIN parts = {} /\ 1 \notin DOMAIN parts
      BY <1>1, <2>1
    <3>2. Optional(parts) = parts
      BY <1>1, <3>1 DEF Optional
    <3>3. QED BY <3>2
  <2>2. CASE parts # <<>>
    <3>1. 1 \in 1 .. Len(parts)
      BY <1>1, <2>2, EmptySeq
    <3>2. [parts[1] EXCEPT !.skip = Len(parts)] \in HonestParts
      BY <1>1, <1>2, <3>1
    <3>3. QED BY <3>1, <3>2, ExceptSeq DEF Optional
  <2>3. QED BY <2>1, <2>2
<1>5. Checked(parts) \in Seq(HonestParts)
  <2>1. CASE parts = <<>>
    <3>1. DOMAIN parts = {} /\ 1 \notin DOMAIN parts
      BY <1>1, <2>1
    <3>2. Checked(parts) = parts
      BY <1>1, <3>1 DEF Checked
    <3>3. QED BY <3>2
  <2>2. CASE parts # <<>>
    <3>1. 1 \in 1 .. Len(parts)
      BY <1>1, <2>2, EmptySeq
    <3>2. [parts[1] EXCEPT !.check = TRUE] \in HonestParts
      BY <1>1, <1>2, <3>1
    <3>3. QED BY <3>1, <3>2, ExceptSeq DEF Checked
  <2>3. QED BY <2>1, <2>2
<1>6. QED BY <1>3, <1>4, <1>5
(* The parts that differ from those in one point or two: shows, but for      *)
(* fullRestPkg, whose result may be anything when it is refused.             *)
LEMMA EditedParts ==
  /\ [Pages EXCEPT !.ask = SPECIAL_RANGE_COUNT] \in HonestParts
  /\ [Pages EXCEPT !.ask = SPECIAL_RANGE_COUNT, !.lost = "again"] \in HonestParts
  /\ [Pages EXCEPT !.spent = "ok"] \in HonestParts
  /\ [Pages EXCEPT !.keeps = TRUE, !.row = {"next"}] \in HonestParts
  /\ [Pages EXCEPT !.lost = "onward", !.rereads = TRUE, !.row = {"error"}] \in HonestParts
  /\ [Show EXCEPT !.lost = "error"] \in HonestParts
  /\ [Find EXCEPT !.lost = "error"] \in HonestParts
  /\ [Pages EXCEPT !.lost = "error"] \in HonestParts
  /\ [Find EXCEPT !.row = {"error"}] \in HonestParts
  /\ [Find EXCEPT !.empty = "ok"] \in HonestParts
  /\ [Show EXCEPT !.lost = "error", !.spent = "ok"] \in HonestParts
  /\ [Show EXCEPT !.lost = "ok"] \in HonestParts
  /\ [Show EXCEPT !.spent = "ok"] \in HonestParts
  /\ [Show EXCEPT !.row = {"left"}] \in HonestParts
  /\ [Show EXCEPT !.lost = "error", !.refused = "ok", !.keeps = TRUE,
    !.row = {"next", "stuck"}] \in HonestParts
  /\ [Change EXCEPT !.spent = "any", !.refused = "any"] \in HonestParts
<1>1. \A b \in {Show, Find, Pages} :
        b \in Parts /\ b.kind = "show" /\ b.lost = "next" /\ ~b.keeps /\ ~b.rereads
  <2>1. {Show, Find, Pages} \subseteq Parts
    BY BasicParts DEF HonestParts
  <2>2. Show.kind = "show" /\ Show.lost = "next" /\ ~Show.keeps /\ ~Show.rereads
    BY DEF Show, Change
  <2>3. Find.kind = "show" /\ Find.lost = "next" /\ ~Find.keeps /\ ~Find.rereads
    BY DEF Find, Show, Change
  <2>4. Pages.kind = "show" /\ Pages.lost = "next" /\ ~Pages.keeps /\ ~Pages.rereads
    BY DEF Pages, Show, Change
  <2>5. QED BY <2>1, <2>2, <2>3, <2>4
<1>2. Pages.full > 0 /\ SPECIAL_RANGE_COUNT \in Nat
  BY RangeAssumption DEF Pages, Show, Change
<1>3. ASSUME NEW part \in PartRecord, part.kind = "show", Regular(part)
      PROVE  part \in HonestParts
  BY <1>3 DEF HonestParts, Parts
<1>4. [Pages EXCEPT !.ask = SPECIAL_RANGE_COUNT] \in HonestParts
  <2>1. PICK b \in Parts : /\ b = Pages /\ b.kind = "show" /\ b.lost = "next"
                           /\ ~b.keeps /\ ~b.rereads /\ b.full > 0
    BY <1>1, <1>2
  <2>2. PICK part : part = [b EXCEPT !.ask = SPECIAL_RANGE_COUNT]
    OBVIOUS
  <2>3. b \in PartRecord /\ Regular(b)
    BY DEF Parts
  <2>4. part \in PartRecord
    BY <1>2, <2>2, <2>3 DEF PartRecord, Result
  <2>5. part.kind = "show" /\ Regular(part)
    BY <1>2, <2>1, <2>2, <2>3 DEF PartRecord, Regular
  <2>6. QED BY <1>3, <2>1, <2>2, <2>4, <2>5
<1>5. [Pages EXCEPT !.ask = SPECIAL_RANGE_COUNT, !.lost = "again"] \in HonestParts
  <2>1. PICK b \in Parts : /\ b = Pages /\ b.kind = "show" /\ b.lost = "next"
                           /\ ~b.keeps /\ ~b.rereads /\ b.full > 0
    BY <1>1, <1>2
  <2>2. PICK part : part = [b EXCEPT !.ask = SPECIAL_RANGE_COUNT, !.lost = "again"]
    OBVIOUS
  <2>3. b \in PartRecord /\ Regular(b)
    BY DEF Parts
  <2>4. part \in PartRecord
    BY <1>2, <2>2, <2>3 DEF PartRecord, Result
  <2>5. part.kind = "show" /\ Regular(part)
    BY <1>2, <2>1, <2>2, <2>3 DEF PartRecord, Regular
  <2>6. QED BY <1>3, <2>1, <2>2, <2>4, <2>5
<1>6. [Pages EXCEPT !.spent = "ok"] \in HonestParts
  <2>1. PICK b \in Parts : /\ b = Pages /\ b.kind = "show" /\ b.lost = "next"
                           /\ ~b.keeps /\ ~b.rereads
    BY <1>1
  <2>2. PICK part : part = [b EXCEPT !.spent = "ok"]
    OBVIOUS
  <2>3. b \in PartRecord /\ Regular(b)
    BY DEF Parts
  <2>4. part \in PartRecord
    BY <1>2, <2>2, <2>3 DEF PartRecord, Result
  <2>5. part.kind = "show" /\ Regular(part)
    BY <1>2, <2>1, <2>2, <2>3 DEF PartRecord, Regular
  <2>6. QED BY <1>3, <2>1, <2>2, <2>4, <2>5
<1>7. [Pages EXCEPT !.keeps = TRUE, !.row = {"next"}] \in HonestParts
  <2>1. PICK b \in Parts : /\ b = Pages /\ b.kind = "show" /\ b.lost = "next"
                           /\ ~b.keeps /\ ~b.rereads
    BY <1>1
  <2>2. PICK part : part = [b EXCEPT !.keeps = TRUE, !.row = {"next"}]
    OBVIOUS
  <2>3. b \in PartRecord /\ Regular(b)
    BY DEF Parts
  <2>4. part \in PartRecord
    BY <1>2, <2>2, <2>3 DEF PartRecord, Result
  <2>5. part.kind = "show" /\ Regular(part)
    BY <1>2, <2>1, <2>2, <2>3 DEF PartRecord, Regular
  <2>6. QED BY <1>3, <2>1, <2>2, <2>4, <2>5
<1>8. [Pages EXCEPT !.lost = "onward", !.rereads = TRUE, !.row = {"error"}] \in HonestParts
  <2>1. PICK b \in Parts : /\ b = Pages /\ b.kind = "show" /\ b.lost = "next"
                           /\ ~b.keeps /\ b.full > 0
    BY <1>1, <1>2
  <2>2. PICK part : part = [b EXCEPT !.lost = "onward", !.rereads = TRUE, !.row = {"error"}]
    OBVIOUS
  <2>3. b \in PartRecord /\ Regular(b)
    BY DEF Parts
  <2>4. part \in PartRecord
    BY <1>2, <2>2, <2>3 DEF PartRecord, Result
  <2>5. part.kind = "show" /\ Regular(part)
    BY <1>2, <2>1, <2>2, <2>3 DEF PartRecord, Regular
  <2>6. QED BY <1>3, <2>1, <2>2, <2>4, <2>5
<1>9. [Show EXCEPT !.lost = "error"] \in HonestParts
  <2>1. PICK b \in Parts : /\ b = Show /\ b.kind = "show" /\ b.lost = "next"
                           /\ ~b.keeps /\ ~b.rereads
    BY <1>1
  <2>2. PICK part : part = [b EXCEPT !.lost = "error"]
    OBVIOUS
  <2>3. b \in PartRecord /\ Regular(b)
    BY DEF Parts
  <2>4. part \in PartRecord
    BY <1>2, <2>2, <2>3 DEF PartRecord, Result
  <2>5. part.kind = "show" /\ Regular(part)
    BY <1>2, <2>1, <2>2, <2>3 DEF PartRecord, Regular
  <2>6. QED BY <1>3, <2>1, <2>2, <2>4, <2>5
<1>10. [Find EXCEPT !.lost = "error"] \in HonestParts
  <2>1. PICK b \in Parts : /\ b = Find /\ b.kind = "show" /\ b.lost = "next"
                           /\ ~b.keeps /\ ~b.rereads
    BY <1>1
  <2>2. PICK part : part = [b EXCEPT !.lost = "error"]
    OBVIOUS
  <2>3. b \in PartRecord /\ Regular(b)
    BY DEF Parts
  <2>4. part \in PartRecord
    BY <1>2, <2>2, <2>3 DEF PartRecord, Result
  <2>5. part.kind = "show" /\ Regular(part)
    BY <1>2, <2>1, <2>2, <2>3 DEF PartRecord, Regular
  <2>6. QED BY <1>3, <2>1, <2>2, <2>4, <2>5
<1>11. [Pages EXCEPT !.lost = "error"] \in HonestParts
  <2>1. PICK b \in Parts : /\ b = Pages /\ b.kind = "show" /\ b.lost = "next"
                           /\ ~b.keeps /\ ~b.rereads
    BY <1>1
  <2>2. PICK part : part = [b EXCEPT !.lost = "error"]
    OBVIOUS
  <2>3. b \in PartRecord /\ Regular(b)
    BY DEF Parts
  <2>4. part \in PartRecord
    BY <1>2, <2>2, <2>3 DEF PartRecord, Result
  <2>5. part.kind = "show" /\ Regular(part)
    BY <1>2, <2>1, <2>2, <2>3 DEF PartRecord, Regular
  <2>6. QED BY <1>3, <2>1, <2>2, <2>4, <2>5
<1>12. [Find EXCEPT !.row = {"error"}] \in HonestParts
  <2>1. PICK b \in Parts : /\ b = Find /\ b.kind = "show" /\ b.lost = "next"
                           /\ ~b.keeps /\ ~b.rereads
    BY <1>1
  <2>2. PICK part : part = [b EXCEPT !.row = {"error"}]
    OBVIOUS
  <2>3. b \in PartRecord /\ Regular(b)
    BY DEF Parts
  <2>4. part \in PartRecord
    BY <1>2, <2>2, <2>3 DEF PartRecord, Result
  <2>5. part.kind = "show" /\ Regular(part)
    BY <1>2, <2>1, <2>2, <2>3 DEF PartRecord, Regular
  <2>6. QED BY <1>3, <2>1, <2>2, <2>4, <2>5
<1>13. [Find EXCEPT !.empty = "ok"] \in HonestParts
  <2>1. PICK b \in Parts : /\ b = Find /\ b.kind = "show" /\ b.lost = "next"
                           /\ ~b.keeps /\ ~b.rereads
    BY <1>1
  <2>2. PICK part : part = [b EXCEPT !.empty = "ok"]
    OBVIOUS
  <2>3. b \in PartRecord /\ Regular(b)
    BY DEF Parts
  <2>4. part \in PartRecord
    BY <1>2, <2>2, <2>3 DEF PartRecord, Result
  <2>5. part.kind = "show" /\ Regular(part)
    BY <1>2, <2>1, <2>2, <2>3 DEF PartRecord, Regular
  <2>6. QED BY <1>3, <2>1, <2>2, <2>4, <2>5
<1>14. [Show EXCEPT !.lost = "error", !.spent = "ok"] \in HonestParts
  <2>1. PICK b \in Parts : /\ b = Show /\ b.kind = "show" /\ b.lost = "next"
                           /\ ~b.keeps /\ ~b.rereads
    BY <1>1
  <2>2. PICK part : part = [b EXCEPT !.lost = "error", !.spent = "ok"]
    OBVIOUS
  <2>3. b \in PartRecord /\ Regular(b)
    BY DEF Parts
  <2>4. part \in PartRecord
    BY <1>2, <2>2, <2>3 DEF PartRecord, Result
  <2>5. part.kind = "show" /\ Regular(part)
    BY <1>2, <2>1, <2>2, <2>3 DEF PartRecord, Regular
  <2>6. QED BY <1>3, <2>1, <2>2, <2>4, <2>5
<1>15. [Show EXCEPT !.lost = "ok"] \in HonestParts
  <2>1. PICK b \in Parts : /\ b = Show /\ b.kind = "show" /\ b.lost = "next"
                           /\ ~b.keeps /\ ~b.rereads
    BY <1>1
  <2>2. PICK part : part = [b EXCEPT !.lost = "ok"]
    OBVIOUS
  <2>3. b \in PartRecord /\ Regular(b)
    BY DEF Parts
  <2>4. part \in PartRecord
    BY <1>2, <2>2, <2>3 DEF PartRecord, Result
  <2>5. part.kind = "show" /\ Regular(part)
    BY <1>2, <2>1, <2>2, <2>3 DEF PartRecord, Regular
  <2>6. QED BY <1>3, <2>1, <2>2, <2>4, <2>5
<1>16. [Show EXCEPT !.spent = "ok"] \in HonestParts
  <2>1. PICK b \in Parts : /\ b = Show /\ b.kind = "show" /\ b.lost = "next"
                           /\ ~b.keeps /\ ~b.rereads
    BY <1>1
  <2>2. PICK part : part = [b EXCEPT !.spent = "ok"]
    OBVIOUS
  <2>3. b \in PartRecord /\ Regular(b)
    BY DEF Parts
  <2>4. part \in PartRecord
    BY <1>2, <2>2, <2>3 DEF PartRecord, Result
  <2>5. part.kind = "show" /\ Regular(part)
    BY <1>2, <2>1, <2>2, <2>3 DEF PartRecord, Regular
  <2>6. QED BY <1>3, <2>1, <2>2, <2>4, <2>5
<1>17. [Show EXCEPT !.row = {"left"}] \in HonestParts
  <2>1. PICK b \in Parts : /\ b = Show /\ b.kind = "show" /\ b.lost = "next"
                           /\ ~b.keeps /\ ~b.rereads
    BY <1>1
  <2>2. PICK part : part = [b EXCEPT !.row = {"left"}]
    OBVIOUS
  <2>3. b \in PartRecord /\ Regular(b)
    BY DEF Parts
  <2>4. part \in PartRecord
    BY <1>2, <2>2, <2>3 DEF PartRecord, Result
  <2>5. part.kind = "show" /\ Regular(part)
    BY <1>2, <2>1, <2>2, <2>3 DEF PartRecord, Regular
  <2>6. QED BY <1>3, <2>1, <2>2, <2>4, <2>5
<1>18. [Show EXCEPT !.lost = "error", !.refused = "ok", !.keeps = TRUE,
    !.row = {"next", "stuck"}] \in HonestParts
  <2>1. PICK b \in Parts : /\ b = Show /\ b.kind = "show" /\ b.lost = "next"
                           /\ ~b.keeps /\ ~b.rereads
    BY <1>1
  <2>2. PICK part : part = [b EXCEPT !.lost = "error", !.refused = "ok", !.keeps = TRUE,
    !.row = {"next", "stuck"}]
    OBVIOUS
  <2>3. b \in PartRecord /\ Regular(b)
    BY DEF Parts
  <2>4. part \in PartRecord
    BY <1>2, <2>2, <2>3 DEF PartRecord, Result
  <2>5. part.kind = "show" /\ Regular(part)
    BY <1>2, <2>1, <2>2, <2>3 DEF PartRecord, Regular
  <2>6. QED BY <1>3, <2>1, <2>2, <2>4, <2>5
<1>19. [Change EXCEPT !.spent = "any", !.refused = "any"] \in HonestParts
  <2>1. PICK b \in HonestParts : b = Change
    BY BasicParts
  <2>2. [b EXCEPT !.spent = "any", !.refused = "any"] \in HonestParts
    BY DEF HonestParts, Parts, PartRecord, Regular, Honest
  <2>3. QED BY <2>1, <2>2
<1>20. QED BY <1>4, <1>5, <1>6, <1>7, <1>8, <1>9, <1>10, <1>11, <1>12, <1>13, <1>14, <1>15, <1>16, <1>17, <1>18, <1>19

(* A part is a call, calls joined are a call, and two parts are.            *)
LEMMA SingleParts == \A part \in HonestParts : <<part>> \in Seq(HonestParts)
OBVIOUS

LEMMA JoinedParts == \A s, t \in Seq(HonestParts) : s \o t \in Seq(HonestParts)
OBVIOUS
LEMMA PairParts ==
  \A part, other \in HonestParts : <<part, other>> \in Seq(HonestParts)
OBVIOUS

(* The calls of CRESTCmd (CmdRESTAdapter.cpp) are made of such parts. *)
LEMMA OceanStorCalls == OceanStor!Supported \subseteq Seq(HonestParts)
<1>1. {OceanStor!CMD_showarrayinfo, OceanStor!CMD_showarraystretched,
       OceanStor!CMD_showlunforhyimg, OceanStor!CMD_showlunsbyconsisid,
       OceanStor!CMD_showhost_byname, OceanStor!CMD_showMapbyLunGroup,
       OceanStor!CMD_showMapbyHostGroup, OceanStor!CMD_showHostbyHostGroup,
       OceanStor!CMD_showHostGroupByHost_all, OceanStor!CMD_showHostByLUN} \subseteq Seq(HonestParts)
  BY BasicParts, SingleParts, SameParts
  DEF OceanStor!CMD_showarrayinfo, OceanStor!CMD_showarraystretched,
     OceanStor!CMD_showlunforhyimg, OceanStor!CMD_showlunsbyconsisid,
     OceanStor!CMD_showhost_byname, OceanStor!CMD_showMapbyLunGroup,
     OceanStor!CMD_showMapbyHostGroup, OceanStor!CMD_showHostbyHostGroup,
     OceanStor!CMD_showHostGroupByHost_all, OceanStor!CMD_showHostByLUN
<1>2. {OceanStor!CMD_showsys, OceanStor!CMD_showarraymodelinfo,
       OceanStor!CMD_showlun, OceanStor!CMD_showhyimginfo,
       OceanStor!CMD_showFShyimginfo, OceanStor!CMD_showhymirrorinfo,
       OceanStor!CMD_showhyperMetroDomain_all,
       OceanStor!CMD_showconsistgrinfo, OceanStor!CMD_showvstorepair_info,
       OceanStor!CMD_showHostGroupByHost} \subseteq Seq(HonestParts)
  BY BasicParts, SingleParts, SameParts
  DEF OceanStor!CMD_showsys, OceanStor!CMD_showarraymodelinfo,
     OceanStor!CMD_showlun, OceanStor!CMD_showhyimginfo,
     OceanStor!CMD_showFShyimginfo, OceanStor!CMD_showhymirrorinfo,
     OceanStor!CMD_showhyperMetroDomain_all, OceanStor!CMD_showconsistgrinfo,
     OceanStor!CMD_showvstorepair_info, OceanStor!CMD_showHostGroupByHost
<1>3. {OceanStor!CMD_showlun_all, OceanStor!CMD_showLIF,
       OceanStor!CMD_showHyperMetroPair_all,
       OceanStor!CMD_showconsistgrmember, OceanStor!CMD_showvstorepairmember,
       OceanStor!CMD_showiscsihostport, OceanStor!CMD_showfchostport,
       OceanStor!CMD_showhostlink, OceanStor!CMD_showHostByHostGroup,
       OceanStor!CMD_showLunByLunGroup, OceanStor!CMD_showSnapShotByLUNGroup} \subseteq Seq(HonestParts)
  BY BasicParts, SingleParts, SameParts
  DEF OceanStor!CMD_showlun_all, OceanStor!CMD_showLIF,
     OceanStor!CMD_showHyperMetroPair_all, OceanStor!CMD_showconsistgrmember,
     OceanStor!CMD_showvstorepairmember, OceanStor!CMD_showiscsihostport,
     OceanStor!CMD_showfchostport, OceanStor!CMD_showhostlink,
     OceanStor!CMD_showHostByHostGroup, OceanStor!CMD_showLunByLunGroup,
     OceanStor!CMD_showSnapShotByLUNGroup
<1>4. {OceanStor!CMD_addnfsclient, OceanStor!CMD_createhyimg,
       OceanStor!CMD_createFShyimg, OceanStor!CMD_delhyimg,
       OceanStor!CMD_activehyimg, OceanStor!CMD_activehyimg_list,
       OceanStor!CMD_disablehyimg, OceanStor!CMD_createCloneFS,
       OceanStor!CMD_synchymirror, OceanStor!CMD_splithymirror,
       OceanStor!CMD_swaphymirror, OceanStor!CMD_changeSlaveFsRw,
       OceanStor!CMD_changeSlaveLunRw, OceanStor!CMD_disablehcpair,
       OceanStor!CMD_swaphypermetro, OceanStor!CMD_synchmpair,
       OceanStor!CMD_changeCGSlaveLunRw,
       OceanStor!CMD_changeVstorePairSlaveLunRw, OceanStor!CMD_syncconsistgr,
       OceanStor!CMD_syncconsistgrhm, OceanStor!CMD_syncvstorepair,
       OceanStor!CMD_createHost, OceanStor!CMD_CreateLunGroup,
       OceanStor!CMD_CreateHostGroup, OceanStor!CMD_createMappingView,
       OceanStor!CMD_addLun2LunGroup, OceanStor!CMD_addHostsToHostGroup,
       OceanStor!CMD_associateToMappingview, OceanStor!CMD_delLunFromLunGroup,
       OceanStor!CMD_removeHostFromHostGroup,
       OceanStor!CMD_delHostFromHostGroup,
       OceanStor!CMD_removeLunGroupFromMap,
       OceanStor!CMD_removeHostGroupFromMap, OceanStor!CMD_delMappingByMapID} \subseteq Seq(HonestParts)
  BY BasicParts, SingleParts, SameParts
  DEF OceanStor!CMD_addnfsclient, OceanStor!CMD_createhyimg,
     OceanStor!CMD_createFShyimg, OceanStor!CMD_delhyimg,
     OceanStor!CMD_activehyimg, OceanStor!CMD_activehyimg_list,
     OceanStor!CMD_disablehyimg, OceanStor!CMD_createCloneFS,
     OceanStor!CMD_synchymirror, OceanStor!CMD_splithymirror,
     OceanStor!CMD_swaphymirror, OceanStor!CMD_changeSlaveFsRw,
     OceanStor!CMD_changeSlaveLunRw, OceanStor!CMD_disablehcpair,
     OceanStor!CMD_swaphypermetro, OceanStor!CMD_synchmpair,
     OceanStor!CMD_changeCGSlaveLunRw,
     OceanStor!CMD_changeVstorePairSlaveLunRw, OceanStor!CMD_syncconsistgr,
     OceanStor!CMD_syncconsistgrhm, OceanStor!CMD_syncvstorepair,
     OceanStor!CMD_createHost, OceanStor!CMD_CreateLunGroup,
     OceanStor!CMD_CreateHostGroup, OceanStor!CMD_createMappingView,
     OceanStor!CMD_addLun2LunGroup, OceanStor!CMD_addHostsToHostGroup,
     OceanStor!CMD_associateToMappingview, OceanStor!CMD_delLunFromLunGroup,
     OceanStor!CMD_removeHostFromHostGroup,
     OceanStor!CMD_delHostFromHostGroup, OceanStor!CMD_removeLunGroupFromMap,
     OceanStor!CMD_removeHostGroupFromMap, OceanStor!CMD_delMappingByMapID
<1>5. {OceanStor!CMD_swapconsistgr, OceanStor!CMD_swapvstorepair,
       OceanStor!CMD_swapconsistgrhm, OceanStor!CMD_splitconsistgr,
       OceanStor!CMD_splitvstorepair, OceanStor!CMD_stopconsistgrhm} \subseteq Seq(HonestParts)
  BY BasicParts, SingleParts, SameParts
  DEF OceanStor!CMD_swapconsistgr, OceanStor!CMD_swapvstorepair,
     OceanStor!CMD_swapconsistgrhm, OceanStor!CMD_splitconsistgr,
     OceanStor!CMD_splitvstorepair, OceanStor!CMD_stopconsistgrhm
<1>6. {OceanStor!CMD_showLunGroupByMap, OceanStor!CMD_showHostGroupByMap,
       OceanStor!CMD_showLUNGroupByName, OceanStor!CMD_showHostGroupByName,
       OceanStor!CMD_showMappingByName, OceanStor!CMD_showMapByHostGroup,
       OceanStor!CMD_showLunGroupByLUN} \subseteq Seq(HonestParts)
  BY BasicParts, SingleParts, SameParts, EditedParts
  DEF OceanStor!Hopeful, OceanStor!CMD_showLunGroupByMap,
     OceanStor!CMD_showHostGroupByMap, OceanStor!CMD_showLUNGroupByName,
     OceanStor!CMD_showHostGroupByName, OceanStor!CMD_showMappingByName,
     OceanStor!CMD_showMapByHostGroup, OceanStor!CMD_showLunGroupByLUN
<1>7. OceanStor!CMD_shownfs \in Seq(HonestParts)
  BY SingleParts, PairParts, BasicParts, SameParts, EditedParts
  DEF OceanStor!CMD_shownfs
<1>8. OceanStor!CMD_shownfs_byfsid \in Seq(HonestParts)
  BY SingleParts, PairParts, BasicParts, SameParts, EditedParts
  DEF OceanStor!CMD_shownfs_byfsid
<1>9. OceanStor!CMD_showhyimgoflun \in Seq(HonestParts)
  BY SingleParts, PairParts, BasicParts, SameParts, EditedParts
  DEF OceanStor!CMD_showhyimgoflun
<1>10. OceanStor!CMD_showhyimgoffs \in Seq(HonestParts)
  BY SingleParts, PairParts, BasicParts, SameParts, EditedParts
  DEF OceanStor!CMD_showhyimgoffs
<1>11. OceanStor!CMD_showClonefsOffs \in Seq(HonestParts)
  BY SingleParts, PairParts, BasicParts, SameParts, EditedParts
  DEF OceanStor!CMD_showClonefsOffs
<1>12. OceanStor!CMD_showhymirrorinfo_all \in Seq(HonestParts)
  BY SingleParts, PairParts, BasicParts, SameParts, EditedParts
  DEF OceanStor!CMD_showhymirrorinfo_all
<1>13. OceanStor!CMD_showLunGroupByMap_conn \in Seq(HonestParts)
  BY SingleParts, PairParts, BasicParts, SameParts, EditedParts
  DEF OceanStor!CMD_showLunGroupByMap_conn, OceanStor!OnConnection
<1>14. OceanStor!CMD_showHostGroupByMap_conn \in Seq(HonestParts)
  BY SingleParts, PairParts, BasicParts, SameParts, EditedParts
  DEF OceanStor!CMD_showHostGroupByMap_conn, OceanStor!OnConnection
<1>15. OceanStor!CMD_showLunByLunGroup_conn \in Seq(HonestParts)
  BY SingleParts, PairParts, BasicParts, SameParts, EditedParts
  DEF OceanStor!CMD_showLunByLunGroup_conn, OceanStor!OnConnection
<1>16. OceanStor!CMD_showtlvsysinfo \in Seq(HonestParts)
  BY <1>2, JoinedParts, BuiltParts, SameBuilders
  DEF OceanStor!CMD_showtlvsysinfo
<1>17. OceanStor!CMD_showfs \in Seq(HonestParts)
  BY <1>7, JoinedParts, BuiltParts, SameBuilders, BasicParts, SingleParts,
     SameParts
  DEF OceanStor!CMD_showfs
<1>18. OceanStor!CMD_addnfs \in Seq(HonestParts)
  BY <1>17, JoinedParts, BuiltParts, SameBuilders, BasicParts, SingleParts,
     SameParts
  DEF OceanStor!CMD_addnfs
<1>19. OceanStor!CMD_delnfs \in Seq(HonestParts)
  BY JoinedParts, BuiltParts, SameBuilders, BasicParts, SingleParts, SameParts
  DEF OceanStor!CMD_delnfs
<1>20. OceanStor!CMD_delFShyimg \in Seq(HonestParts)
  BY JoinedParts, BuiltParts, SameBuilders, BasicParts, SingleParts, SameParts
  DEF OceanStor!CMD_delFShyimg
<1>21. OceanStor!CMD_recreatehyimg \in Seq(HonestParts)
  BY <1>4, JoinedParts, BuiltParts, SameBuilders
  DEF OceanStor!CMD_recreatehyimg
<1>22. OceanStor!CMD_recreatehyimg_group \in Seq(HonestParts)
  BY <1>21, JoinedParts, BuiltParts, SameBuilders
  DEF OceanStor!CMD_recreatehyimg_group
<1>23. OceanStor!CMD_delclonefs \in Seq(HonestParts)
  BY JoinedParts, BuiltParts, SameBuilders, BasicParts, SingleParts, SameParts
  DEF OceanStor!CMD_delclonefs
<1>24. OceanStor!CMD_showarrayclonefs \in Seq(HonestParts)
  BY <1>2, JoinedParts, BuiltParts, SameBuilders
  DEF OceanStor!CMD_showarrayclonefs
<1>25. OceanStor!CMD_showhymirrorlun \in Seq(HonestParts)
  BY <1>2, JoinedParts, BuiltParts, SameBuilders, BasicParts, SingleParts,
     SameParts
  DEF OceanStor!CMD_showhymirrorlun
<1>26. OceanStor!CMD_showhymirrorlun_all \in Seq(HonestParts)
  BY <1>2, JoinedParts, BuiltParts, SameBuilders, BasicParts, SingleParts,
     SameParts
  DEF OceanStor!CMD_showhymirrorlun_all
<1>27. OceanStor!CMD_showhymirrorlun_all_fs \in Seq(HonestParts)
  BY <1>2, <1>17, JoinedParts, BuiltParts, SameBuilders, BasicParts,
     SingleParts, SameParts
  DEF OceanStor!CMD_showhymirrorlun_all_fs
<1>28. OceanStor!CMD_showhymirrorfs_all \in Seq(HonestParts)
  BY <1>2, <1>17, JoinedParts, BuiltParts, SameBuilders, BasicParts,
     SingleParts, SameParts
  DEF OceanStor!CMD_showhymirrorfs_all
<1>29. OceanStor!CMD_showhymirrorbyfs \in Seq(HonestParts)
  BY <1>2, JoinedParts, BuiltParts, SameBuilders, BasicParts, SingleParts,
     SameParts
  DEF OceanStor!CMD_showhymirrorbyfs
<1>30. OceanStor!CMD_showconsistgrhminfo \in Seq(HonestParts)
  BY <1>2, JoinedParts, BuiltParts, SameBuilders, BasicParts, SingleParts,
     SameParts
  DEF OceanStor!CMD_showconsistgrhminfo
<1>31. OceanStor!CMD_showhypermetroinfo \in Seq(HonestParts)
  BY <1>30, JoinedParts, BuiltParts, SameBuilders, BasicParts, SingleParts,
     SameParts
  DEF OceanStor!CMD_showhypermetroinfo
<1>32. OceanStor!CMD_showhypermetrolun_all \in Seq(HonestParts)
  BY <1>2, <1>30, JoinedParts, BuiltParts, SameBuilders, BasicParts,
     SingleParts, SameParts
  DEF OceanStor!CMD_showhypermetrolun_all
<1>33. OceanStor!CMD_showhost_all \in Seq(HonestParts)
  BY JoinedParts, BuiltParts, SameBuilders, BasicParts, SingleParts, SameParts
  DEF OceanStor!CMD_showhost_all
<1>34. OceanStor!CMD_showhost \in Seq(HonestParts)
  BY JoinedParts, BuiltParts, SameBuilders, BasicParts, SingleParts, SameParts
  DEF OceanStor!CMD_showhost
<1>35. OceanStor!CMD_showInitiatorInfo \in Seq(HonestParts)
  BY JoinedParts, BuiltParts, SameBuilders, BasicParts, SingleParts, SameParts
  DEF OceanStor!CMD_showInitiatorInfo
<1>36. OceanStor!CMD_addInitiatorToHost \in Seq(HonestParts)
  BY JoinedParts, BuiltParts, SameBuilders, BasicParts, SingleParts, SameParts
  DEF OceanStor!CMD_addInitiatorToHost
<1>37. OceanStor!CMD_removeInitiatorFromHost \in Seq(HonestParts)
  BY JoinedParts, BuiltParts, SameBuilders, BasicParts, SingleParts, SameParts
  DEF OceanStor!CMD_removeInitiatorFromHost
<1>38. OceanStor!CMD_showhostport \in Seq(HonestParts)
  BY <1>3, JoinedParts, BuiltParts, SameBuilders
  DEF OceanStor!CMD_showhostport
<1>39. OceanStor!CMD_delMapping \in Seq(HonestParts)
  <2>1. PICK hosts \in Seq(HonestParts) :
          hosts = Checked(Optional(OceanStor!CMD_removeHostGroupFromMap))
    BY <1>4, BuiltParts
  <2>2. PICK luns \in Seq(HonestParts) :
          luns = Optional(OceanStor!CMD_removeLunGroupFromMap)
    BY <1>4, BuiltParts
  <2>3. hosts \o luns \in Seq(HonestParts)
    BY JoinedParts
  <2>4. hosts \o luns \o OceanStor!CMD_delMappingByMapID \in Seq(HonestParts)
    BY <1>4, <2>3, JoinedParts
  <2>5. QED BY <2>1, <2>2, <2>4, SameBuilders DEF OceanStor!CMD_delMapping
<1>40. OceanStor!CMD_delLunGroup \in Seq(HonestParts)
  BY <1>4, JoinedParts, BuiltParts, SameBuilders, BasicParts, SingleParts,
     SameParts
  DEF OceanStor!CMD_delLunGroup
<1>41. OceanStor!CMD_delHostGroup \in Seq(HonestParts)
  BY <1>4, JoinedParts, BuiltParts, SameBuilders, BasicParts, SingleParts,
     SameParts
  DEF OceanStor!CMD_delHostGroup
<1>42. OceanStor!CMD_showmap_byhost \in Seq(HonestParts)
  BY <1>3, <1>6, <1>33, JoinedParts, BuiltParts, SameBuilders, BasicParts,
     SingleParts, SameParts
  DEF OceanStor!CMD_showmap_byhost
<1>43. OceanStor!CMD_showmap \in Seq(HonestParts)
  BY <1>2, JoinedParts, BuiltParts, SameBuilders, BasicParts, SingleParts,
     SameParts, EditedParts
  DEF OceanStor!CMD_showmap
<1>44. QED
  BY <1>1, <1>2, <1>3, <1>4, <1>5, <1>6, <1>7, <1>8, <1>9, <1>10,
     <1>11, <1>12, <1>13, <1>14, <1>15, <1>16, <1>17, <1>18, <1>19, <1>20,
     <1>21, <1>22, <1>23, <1>24, <1>25, <1>26, <1>27, <1>28, <1>29, <1>30,
     <1>31, <1>32, <1>33, <1>34, <1>35, <1>36, <1>37, <1>38, <1>39, <1>40,
     <1>41, <1>42, <1>43
  DEF OceanStor!Supported

(* So are those of CRESTFusionStorage (CmdRESTFusionStorage.cpp). *)
LEMMA FusionStorageCalls == Fusion!Supported \subseteq Seq(HonestParts)
<1>1. {Fusion!CMD_showarrayinfo} \subseteq Seq(HonestParts)
  BY BasicParts, SingleParts, SameParts
  DEF Fusion!CMD_showarrayinfo
<1>2. {Fusion!CMD_showsys, Fusion!CMD_showarraymodelinfo,
       Fusion!CMD_showhymirrorinfo} \subseteq Seq(HonestParts)
  BY BasicParts, SingleParts, SameParts, EditedParts
  DEF Fusion!Hopeful, Fusion!CMD_showsys, Fusion!CMD_showarraymodelinfo,
     Fusion!CMD_showhymirrorinfo
<1>3. {Fusion!CMD_showarraystretched, Fusion!CMD_showmap,
       Fusion!CMD_showhostport, Fusion!CMD_showconsistgrhminfo,
       Fusion!CMD_stopconsistgrhm, Fusion!CMD_showconsistgrinfo,
       Fusion!CMD_showconsistgrinfo_all, Fusion!CMD_splitconsistgr,
       Fusion!CMD_swapconsistgrhm, Fusion!CMD_syncconsistgrhm,
       Fusion!CMD_showconsistgrmember} \subseteq Seq(HonestParts)
  BY EmptySeq
  DEF Fusion!CMD_showarraystretched, Fusion!CMD_showmap,
     Fusion!CMD_showhostport, Fusion!CMD_showconsistgrhminfo,
     Fusion!CMD_stopconsistgrhm, Fusion!CMD_showconsistgrinfo,
     Fusion!CMD_showconsistgrinfo_all, Fusion!CMD_splitconsistgr,
     Fusion!CMD_swapconsistgrhm, Fusion!CMD_syncconsistgrhm,
     Fusion!CMD_showconsistgrmember
<1>4. {Fusion!CMD_splithymirror, Fusion!CMD_changeSlaveLunRw,
       Fusion!CMD_synchymirror, Fusion!CMD_swaphymirror,
       Fusion!CMD_unmountSlave, Fusion!CMD_createhyimg, Fusion!CMD_delhyimg,
       Fusion!CMD_disablehcpair, Fusion!CMD_swaphypermetro,
       Fusion!CMD_synchmpair} \subseteq Seq(HonestParts)
  BY BasicParts, SingleParts, SameParts
  DEF Fusion!CMD_splithymirror, Fusion!CMD_changeSlaveLunRw,
     Fusion!CMD_synchymirror, Fusion!CMD_swaphymirror,
     Fusion!CMD_unmountSlave, Fusion!CMD_createhyimg, Fusion!CMD_delhyimg,
     Fusion!CMD_disablehcpair, Fusion!CMD_swaphypermetro,
     Fusion!CMD_synchmpair
<1>5. {Fusion!CMD_showlun, Fusion!CMD_showlunByname, Fusion!CMD_showhyimginfo,
       Fusion!CMD_showInitiatorInfo, Fusion!QueryHostsByHostGroupName} \subseteq Seq(HonestParts)
  BY BasicParts, SingleParts, SameParts, EditedParts
  DEF Fusion!Lookup, Fusion!CMD_showlun, Fusion!CMD_showlunByname,
     Fusion!CMD_showhyimginfo, Fusion!CMD_showInitiatorInfo,
     Fusion!QueryHostsByHostGroupName
<1>6. {Fusion!CMD_cloneSnap2Lun, Fusion!CMD_dellun, Fusion!operateHostMapping,
       Fusion!operateHostGroupMapping} \subseteq Seq(HonestParts)
  BY BasicParts, SingleParts, SameParts, EditedParts
  DEF Fusion!fullRestPkg, Fusion!CMD_cloneSnap2Lun, Fusion!CMD_dellun,
     Fusion!operateHostMapping, Fusion!operateHostGroupMapping
<1>7. {Fusion!CMD_showHostbyHostGroup} \subseteq Seq(HonestParts)
  BY BasicParts, SingleParts, SameParts
  DEF Fusion!CMD_showHostbyHostGroup
<1>8. {Fusion!CMD_showHyperMetroPair_all} \subseteq Seq(HonestParts)
  BY BasicParts, SingleParts, SameParts
  DEF Fusion!CMD_showHyperMetroPair_all
<1>9. Fusion!CMD_showhymirrorinfo_all \in Seq(HonestParts)
  BY SingleParts, PairParts, BasicParts, SameParts, EditedParts
  DEF Fusion!CMD_showhymirrorinfo_all
<1>10. Fusion!QueryHostInfoByHostName \in Seq(HonestParts)
  BY SingleParts, PairParts, BasicParts, SameParts, EditedParts
  DEF Fusion!QueryHostInfoByHostName, Fusion!Lookup
<1>11. Fusion!QueryHostMapByVolName \in Seq(HonestParts)
  BY SingleParts, PairParts, BasicParts, SameParts, EditedParts
  DEF Fusion!QueryHostMapByVolName, Fusion!Lookup
<1>12. Fusion!QueryHostGroupMapByVolName \in Seq(HonestParts)
  BY SingleParts, PairParts, BasicParts, SameParts, EditedParts
  DEF Fusion!QueryHostGroupMapByVolName, Fusion!Lookup
<1>13. Fusion!CMD_createHost \in Seq(HonestParts)
  BY SingleParts, PairParts, BasicParts, SameParts, EditedParts
  DEF Fusion!CMD_createHost, Fusion!Lookup, Fusion!fullRestPkg
<1>14. Fusion!CMD_showhypermetroinfo \in Seq(HonestParts)
  BY SingleParts, PairParts, BasicParts, SameParts, EditedParts
  DEF Fusion!CMD_showhypermetroinfo
<1>15. Fusion!CMD_showtlvsysinfo \in Seq(HonestParts)
  BY <1>2, JoinedParts, BuiltParts, SameBuilders
  DEF Fusion!CMD_showtlvsysinfo
<1>16. Fusion!CMD_showhymirrorlun_all \in Seq(HonestParts)
  BY <1>2, <1>5, JoinedParts, BuiltParts, SameBuilders, BasicParts,
     SingleParts, SameParts
  DEF Fusion!CMD_showhymirrorlun_all, Fusion!Lookup
<1>17. Fusion!CMD_showhyimgoflun \in Seq(HonestParts)
  BY <1>5, JoinedParts, BuiltParts, SameBuilders, BasicParts, SingleParts,
     SameParts, EditedParts
  DEF Fusion!CMD_showhyimgoflun
<1>18. Fusion!CMD_showmap_bylun \in Seq(HonestParts)
  BY <1>5, <1>11, <1>12, JoinedParts, BuiltParts, SameBuilders
  DEF Fusion!CMD_showmap_bylun
<1>19. Fusion!CMD_showmap_withlun \in Seq(HonestParts)
  BY <1>18, JoinedParts, BuiltParts, SameBuilders
  DEF Fusion!CMD_showmap_withlun
<1>20. Fusion!CMD_showmapByName \in Seq(HonestParts)
  BY <1>11, <1>12, JoinedParts, BuiltParts, SameBuilders
  DEF Fusion!CMD_showmapByName
<1>21. Fusion!CMD_showhost \in Seq(HonestParts)
  BY <1>10, JoinedParts, BuiltParts, SameBuilders
  DEF Fusion!CMD_showhost
<1>22. Fusion!CMD_addInitiatorToHost \in Seq(HonestParts)
  BY JoinedParts, BuiltParts, SameBuilders, BasicParts, SingleParts,
     SameParts, EditedParts
  DEF Fusion!CMD_addInitiatorToHost, Fusion!fullRestPkg
<1>23. Fusion!findRemoteArraySn \in Seq(HonestParts)
  BY <1>1, JoinedParts, BuiltParts, SameBuilders
  DEF Fusion!findRemoteArraySn
<1>24. Fusion!CMD_showhyperMetroDomain_all \in Seq(HonestParts)
  BY <1>23, JoinedParts, BuiltParts, SameBuilders, BasicParts, SingleParts,
     SameParts, EditedParts
  DEF Fusion!CMD_showhyperMetroDomain_all, Fusion!Hopeful
<1>25. Fusion!CMD_showhypermetrolun_all \in Seq(HonestParts)
  BY <1>2, <1>24, JoinedParts, BuiltParts, SameBuilders, BasicParts,
     SingleParts, SameParts, EditedParts
  DEF Fusion!CMD_showhypermetrolun_all, Fusion!Hopeful
<1>26. QED
  BY <1>1, <1>2, <1>3, <1>4, <1>5, <1>6, <1>7, <1>8, <1>9, <1>10,
     <1>11, <1>12, <1>13, <1>14, <1>15, <1>16, <1>17, <1>18, <1>19, <1>20,
     <1>21, <1>22, <1>23, <1>24, <1>25
  DEF Fusion!Supported

(* DeliveredAsReported holds of the adapters as they are written: no CMD_*   *)
(* function of CRESTCmd or CRESTFusionStorage that changes something reports *)
(* a success the array has not given, but for the two cases the property     *)
(* leaves out: FusionStorage's calls through fullRestPkg, and OceanStor's    *)
(* after a login that was answered without error and without data.           *)
THEOREM AdaptersReportDelivered ==
  ASSUME Calls[FALSE] \subseteq OceanStor!Supported,
         Calls[TRUE] \subseteq Fusion!Supported
  PROVE  Spec => []DeliveredAsReported
<1>1. ASSUME NEW c \in Seq(HonestParts)
      PROVE  AllHonest(c)
  BY <1>1 DEF AllHonest, HonestParts
<1>2. HonestCalls
  <2>1. Calls[FALSE] \subseteq Seq(HonestParts)
        /\ Calls[TRUE] \subseteq Seq(HonestParts)
    BY OceanStorCalls, FusionStorageCalls
  <2>2. QED BY <1>1, <2>1 DEF HonestCalls
<1>3. QED BY <1>2, ReportsDelivered

----------------------------------------------------------------------------
(* Shows. *)
(* An empty list has the rows up to none.                                   *)
LEMMA NoRows == <<>> = [i \in 1 .. 0 |-> i]
<1>1. PICK none : none = [i \in 1 .. 0 |-> i]
  OBVIOUS
<1>2. none \in Seq(Nat) /\ Len(none) = 0
  BY <1>1
<1>3. QED BY <1>1, <1>2, EmptySeq

(* A show that begins has listed nothing.                                   *)
LEMMA WalkListed ==
  ASSUME NEW todo
  PROVE  Listed(Walk(todo))
BY NoRows DEF Listed, LastListed, Walk, NoPart

(* A part that ends, the list being complete for its address.               *)
LEMMA ConcludedListed ==
  ASSUME stock \in Nat, NEW c \in CallRecord, c.todo # <<>>, NEW result \in Result,
         Head(c.todo).kind = "show" /\ Careful(Head(c.todo)) /\ result = "ok"
           /\ conn[c.at] # "hollow" => c.rows = Stock
  PROVE  Listed(Concluded(c, result))
<1>1. PICK d : d = Concluded(c, result)
  OBVIOUS
<1>2. /\ d.first = 0 /\ d.rows = <<>> /\ d.step = "connect"
      /\ d.last = [part |-> Head(c.todo), result |-> result, at |-> c.at,
                   executed |-> c.executed, rows |-> c.rows]
  BY <1>1, ConcludedFits
<1>3. LastListed(d)
  BY <1>2 DEF LastListed, Answering
<1>4. QED BY <1>1, <1>2, <1>3, NoRows DEF Listed

(* The next address: a careful show begins its list anew.                   *)
LEMMA NextAddressListed ==
  ASSUME stock \in Nat, UnderWay, NEW c \in CallRecord, c.todo = call.todo,
         LastListed(c),
         Part.kind = "show" /\ Careful(Part) /\ Part.lost = "onward" =>
           c.rows = [i \in 1 .. c.first |-> i],
         NextAddress(c)
  PROVE  Listed(call')
<1>1. c.todo # <<>> /\ Head(c.todo) = Part /\ Part \in Parts
  BY CallFields DEF UnderWay, Part
<1>2. CASE c.at < Addresses
  <2>1. PICK first, rows :
          /\ call' = [c EXCEPT !.at = c.at + 1, !.step = "connect",
                               !.first = first, !.rows = rows,
                               !.tries = 1, !.ssl = 0]
          /\ first = IF Part.lost = "onward" THEN c.first ELSE 0
          /\ rows = KeptRows(Part, c.rows)
    BY <1>2 DEF NextAddress
  <2>2. /\ call'.first = first /\ call'.rows = rows /\ call'.todo = c.todo
        /\ call'.step = "connect" /\ call'.last = c.last
    BY <2>1 DEF CallRecord
  <2>3. Part.kind = "show" /\ Careful(Part) => rows = [i \in 1 .. first |-> i]
    <3>1. CASE Part.lost = "onward"
      BY <2>1, <3>1 DEF KeptRows
    <3>2. CASE Part.lost # "onward"
      BY <2>1, <3>2, NoRows DEF KeptRows, Careful
    <3>3. QED BY <3>1, <3>2
  <2>4. LastListed(call')
    BY <2>2 DEF LastListed
  <2>5. QED BY <1>1, <2>2, <2>3, <2>4 DEF Listed
<1>3. CASE ~(c.at < Addresses)
  <2>1. PICK result \in Results(Part.spent) : call' = Concluded(c, result)
    BY <1>3 DEF NextAddress
  <2>2. result \in Result
    BY <1>1, <2>1, PartFields DEF Results, Result
  <2>3. Careful(Part) => result = "error"
    BY <2>1 DEF Careful, Results
  <2>4. QED BY <1>1, <2>1, <2>2, <2>3, ConcludedListed
<1>4. QED BY <1>2, <1>3

(* A page that was lost is asked for again.                                 *)
LEMMA FailedListed ==
  ASSUME stock \in Nat, UnderWay, NEW c \in CallRecord, c.todo = call.todo,
         Listed(c), Failed(c)
  PROVE  Listed(call')
<1>1. c.todo # <<>> /\ Head(c.todo) = Part /\ Part \in Parts
  BY CallFields DEF UnderWay, Part
<1>2. Part.lost \in {"next", "again", "onward", "ok", "error"}
  BY <1>1, PartFields
<1>3. CASE Part.lost \in {"next", "onward"}
  <2>1. NextAddress(c)
    BY <1>3 DEF Failed
  <2>2. QED BY <1>1, <2>1, NextAddressListed DEF Listed
<1>4. CASE Part.lost = "again"
  <2>1. call' = [c EXCEPT !.ssl = 0]
    BY <1>4 DEF Failed
  <2>2. /\ call'.todo = c.todo /\ call'.last = c.last /\ call'.step = c.step
        /\ call'.rows = c.rows /\ call'.first = c.first
    BY <2>1 DEF CallRecord
  <2>3. QED BY <2>2 DEF Listed, LastListed
<1>5. CASE Part.lost \in {"ok", "error"}
  <2>1. call' = Concluded(c, Part.lost) /\ Part.lost \in Result
    BY <1>5 DEF Failed, Result
  <2>2. Careful(Part) => Part.lost # "ok"
    BY DEF Careful
  <2>3. QED BY <1>1, <2>1, <2>2, ConcludedListed
<1>6. QED BY <1>2, <1>3, <1>4, <1>5

(* A page of a careful show is followed by the next one unless it is the    *)
(* last.                                                                    *)
LEMMA PageReadListed ==
  ASSUME stock \in 0 .. MaxRows, UnderWay, NEW c \in CallRecord, c.todo = call.todo,
         c.step # "stuck", LastListed(c), NEW size \in Nat,
         Part.kind = "show" /\ Careful(Part) =>
           /\ c.rows = [i \in 1 .. c.first + size |-> i]
           /\ size = IF c.first + Part.ask <= stock THEN Part.ask
                     ELSE stock - c.first,
         call' = PageRead(c, size)
  PROVE  Listed(call')
<1>1. c.todo # <<>> /\ Head(c.todo) = Part /\ Part \in Parts
      /\ stock \in Nat /\ MaxRows \in Nat /\ c.first \in 0 .. stock
  BY CallFields, RangeAssumption DEF UnderWay, Part
<1>2. Part.empty \in Result /\ Part.full \in Nat /\ Part.ask \in Nat
      /\ (Part.full = 0 => Part.ask >= MaxRows)
  BY <1>1, PartFields DEF Regular, Result
<1>3. CASE Part.full > 0 /\ size = Part.full
  <2>1. PICK first, at, step :
          /\ call' = [c EXCEPT !.first = first, !.ssl = 0, !.at = at, !.step = step]
          /\ first = c.first + size
          /\ step \in {"connect", c.step}
    BY <1>3 DEF PageRead
  <2>2. /\ call'.todo = c.todo /\ call'.last = c.last /\ call'.rows = c.rows
        /\ call'.first = first /\ call'.step = step
    BY <2>1 DEF CallRecord
  <2>3. QED BY <1>1, <2>1, <2>2 DEF Listed, LastListed
<1>4. CASE ~(Part.full > 0 /\ size = Part.full)
  <2>1. PICK result \in Result : call' = Concluded(c, result)
    BY <1>2, <1>4 DEF PageRead, Result
  <2>2. ASSUME Part.kind = "show", Careful(Part)
        PROVE  c.rows = Stock
    <3>1. Part.full \in {0, Part.ask}
      BY <2>2 DEF Careful
    <3>2. size = stock - c.first
      <4>1. CASE Part.full = 0
        BY <1>1, <1>2, <2>2, <4>1
      <4>2. CASE Part.full = Part.ask /\ Part.full # 0
        BY <1>1, <1>2, <1>4, <2>2, <4>2
      <4>3. QED BY <3>1, <4>1, <4>2
    <3>3. c.first + size = stock
      BY <1>1, <3>2
    <3>4. QED BY <2>2, <3>3 DEF Stock
  <2>3. QED BY <1>1, <2>1, <2>2, ConcludedListed
<1>5. QED BY <1>3, <1>4

(* Every step keeps Listed.                                                 *)
LEMMA ShowStep ==
  ASSUME TypeInv, Listed(call), [Next]_vars
  PROVE  call' = call \/ Listed(call')
<1> USE StockHeld
<1>1. CASE Issue \/ Skip \/ Reject
  BY <1>1, WalkListed DEF Issue, Skip, Reject
<1>2. ASSUME call' = [call EXCEPT !.step = "send", !.last = NoPart]
      PROVE  Listed(call')
  <2>1. /\ call'.todo = call.todo /\ call'.first = call.first /\ call'.rows = call.rows
        /\ call'.step = "send" /\ call'.last = NoPart
    BY <1>2 DEF CallRecord
  <2>2. LastListed(call')
    BY <2>1 DEF LastListed, NoPart
  <2>3. QED BY <2>1, <2>2 DEF Listed
<1>3. ASSUME UnderWay
      PROVE  /\ call.todo # <<>> /\ Head(call.todo) = Part /\ Part \in Parts
             /\ LastListed(call)
             /\ Part.kind = "show" /\ Careful(Part) =>
                  call.rows = [i \in 1 .. call.first |-> i]
  BY <1>3 DEF Listed, UnderWay, Part
<1>4. ASSUME NEW c, c = Executed(call)
      PROVE  /\ c \in CallRecord /\ c.todo = call.todo /\ c.first = call.first
             /\ c.rows = call.rows /\ c.step = call.step /\ c.last = call.last
             /\ Listed(c)
  <2>1. PICK n \in 0 .. Addresses + 1 : c = [call EXCEPT !.executed = n]
    BY <1>4, ExecutedFits DEF TypeInv
  <2>2. /\ c \in CallRecord /\ c.todo = call.todo /\ c.first = call.first
        /\ c.rows = call.rows /\ c.step = call.step /\ c.last = call.last
    BY <2>1 DEF CallRecord
  <2>3. QED BY <2>2 DEF Listed, LastListed
<1>5. CASE Served
  <2>1. UnderWay /\ call.step # "stuck"
    BY <1>5 DEF Served, Accepted, LoggedIn, Sending
  <2>2. PICK c : c = Executed(call)
    OBVIOUS
  <2>3. /\ c \in CallRecord /\ c.todo = call.todo /\ c.first = call.first
        /\ c.rows = call.rows /\ c.step = call.step /\ LastListed(c)
        /\ c.first \in 0 .. stock /\ c.rows \in Seq(Nat)
    BY <1>4, <2>2, CallFields DEF Listed
  <2>4. PICK size : size = Len(Page(c))
    OBVIOUS
  <2>5. Page(c) \in Seq(Nat) /\ size \in Nat
        /\ (Part.kind = "show" =>
              size = IF c.first + Part.ask <= stock THEN Part.ask ELSE stock - c.first)
    BY <1>3, <2>1, <2>3, <2>4, PageRows
  <2>6. c.rows \o Page(c) \in Seq(Nat)
    BY <2>3, <2>5, ConcatProperties
  <2>7. PICK d : d = [c EXCEPT !.rows = c.rows \o Page(c)]
    OBVIOUS
  <2>8. /\ d \in CallRecord /\ d.todo = call.todo /\ d.last = c.last
        /\ d.first = c.first /\ d.rows = c.rows \o Page(c) /\ d.step = call.step
    BY <2>3, <2>6, <2>7 DEF CallRecord
  <2>9. call' = PageRead(d, size)
    BY <1>5, <2>2, <2>4, <2>7 DEF Served
  <2>10. Part.kind = "show" /\ Careful(Part) => d.rows = [i \in 1 .. d.first + size |-> i]
    BY <1>3, <2>1, <2>3, <2>4, <2>8, RowsAndPage
  <2>11. LastListed(d) /\ stock \in 0 .. MaxRows
    BY <2>3, <2>8 DEF LastListed, TypeInv
  <2>12. QED BY <2>1, <2>5, <2>8, <2>9, <2>10, <2>11, PageReadListed
<1>6. CASE RowFails
  <2>1. UnderWay /\ call.step # "stuck" /\ Part.kind = "show"
    BY <1>6, RowFailure
  <2>2. PICK outcome \in Part.row, rows \in Seq(Nat),
             size \in 1 .. stock - call.first, d \in CallRecord :
          /\ Len(rows) < Len(call.rows) + size
          /\ d = [Executed(call) EXCEPT !.rows = rows]
          /\ \/ outcome = "next" /\ NextAddress(d)
             \/ outcome = "error" /\ call' = Concluded(d, "error")
             \/ outcome = "stuck" /\ call' = [d EXCEPT !.step = "stuck"]
             \/ outcome = "left" /\ call' = PageRead(d, size)
    BY <1>6, RowFailure
  <2>3. PICK c : c = Executed(call)
    OBVIOUS
  <2>4. c \in CallRecord /\ c.todo = call.todo /\ c.step = call.step
        /\ c.last = call.last
    BY <1>4, <2>3
  <2>5. d.todo = call.todo /\ d.last = call.last /\ d.step = call.step
    BY <2>2, <2>3, <2>4 DEF CallRecord
  <2>6. LastListed(d) /\ d.todo # <<>> /\ Head(d.todo) = Part /\ Part \in Parts
    BY <1>3, <2>1, <2>5 DEF LastListed
  <2>7. CASE outcome = "next" /\ NextAddress(d)
    <3>1. Part.lost # "onward"
      BY <2>2, <2>6, <2>7, PartFields DEF Regular
    <3>2. QED BY <2>1, <2>5, <2>6, <2>7, <3>1, NextAddressListed
  <2>8. CASE outcome = "error" /\ call' = Concluded(d, "error")
    BY <2>6, <2>8, ConcludedListed DEF Result
  <2>9. CASE outcome = "stuck" /\ call' = [d EXCEPT !.step = "stuck"]
    <3>1. ~Careful(Part)
      BY <2>2, <2>9 DEF Careful
    <3>2. call'.todo = d.todo /\ call'.last = d.last
      BY <2>9 DEF CallRecord
    <3>3. QED BY <2>6, <3>1, <3>2 DEF Listed, LastListed
  <2>10. CASE outcome = "left" /\ call' = PageRead(d, size)
    <3>1. ~Careful(Part)
      BY <2>2, <2>10 DEF Careful
    <3>2. stock \in 0 .. MaxRows /\ size \in Nat
      BY <2>2 DEF TypeInv
    <3>3. QED BY <2>1, <2>5, <2>6, <2>10, <3>1, <3>2, PageReadListed
  <2>11. QED BY <2>2, <2>7, <2>8, <2>9, <2>10
<1>7. CASE Refused
  <2>1. UnderWay
    BY <1>7 DEF Refused, LoggedIn, Sending
  <2>2. PICK result \in Results(Part.refused) : call' = Concluded(call, result)
    BY <1>7 DEF Refused
  <2>3. result \in Result
    BY <1>3, <2>1, <2>2, PartFields DEF Results, Result
  <2>4. Careful(Part) => result = "error"
    BY <2>2 DEF Careful, Results
  <2>5. QED BY <1>3, <2>1, <2>2, <2>3, <2>4, ConcludedListed
<1>8. CASE Busy
  <2>1. UnderWay
    BY <1>8 DEF Busy, Accepted, LoggedIn, Sending
  <2>2. CASE call.tries < Part.busy
    <3>1. PICK tries : call' = [call EXCEPT !.tries = tries, !.ssl = 0]
      BY <1>8, <2>2 DEF Busy
    <3>2. /\ call'.todo = call.todo /\ call'.first = call.first /\ call'.rows = call.rows
          /\ call'.step = call.step /\ call'.last = call.last
      BY <3>1 DEF CallRecord
    <3>3. QED BY <3>2 DEF Listed, LastListed
  <2>3. CASE ~(call.tries < Part.busy)
    <3>1. NextAddress(call)
      BY <1>8, <2>3 DEF Busy
    <3>2. QED BY <1>3, <2>1, <3>1, NextAddressListed
  <2>4. QED BY <2>2, <2>3
<1>9. CASE SslError
  <2>1. UnderWay
    BY <1>9 DEF SslError, LoggedIn, Sending
  <2>2. CASE call.ssl < SSL_ERROR_RETRY_NUM
    <3>1. PICK ssl : call' = [call EXCEPT !.ssl = ssl]
      BY <1>9, <2>2 DEF SslError
    <3>2. /\ call'.todo = call.todo /\ call'.first = call.first /\ call'.rows = call.rows
          /\ call'.step = call.step /\ call'.last = call.last
      BY <3>1 DEF CallRecord
    <3>3. QED BY <3>2 DEF Listed, LastListed
  <2>3. CASE ~(call.ssl < SSL_ERROR_RETRY_NUM)
    BY <1>9, <2>1, <2>3, FailedListed DEF SslError
  <2>4. QED BY <2>2, <2>3
<1>10. CASE Lost
  <2>1. UnderWay
    BY <1>10 DEF Lost, Accepted, LoggedIn, Sending
  <2>2. PICK c \in {call, Executed(call)} : Failed(c)
    BY <1>10 DEF Lost
  <2>3. c \in CallRecord /\ c.todo = call.todo /\ Listed(c)
    BY <1>4, <2>2
  <2>4. QED BY <2>1, <2>2, <2>3, FailedListed
<1>11. CASE \/ UNCHANGED vars \/ Stuck
           \/ \E a \in 1 .. Addresses : Evict(a) \/ Age(a)
  BY <1>11 DEF vars, Stuck, Evict, Age
<1>12. CASE \/ Reuse
           \/ \E outcome \in {"in", "refused", "hollow", "lost"} : LogIn(outcome)
  BY <1>2, <1>12 DEF Reuse, LogIn
<1>13. CASE Hollow
  <2>1. UnderWay /\ conn[call.at] = "hollow" /\ call' = PageRead(call, 0)
    BY <1>13 DEF Hollow, Sending
  <2>2. Part.empty \in Result /\ Part.full \in Nat
    BY <1>3, <2>1, PartFields DEF Result
  <2>3. PICK result \in Result : call' = Concluded(call, result)
    BY <2>1, <2>2 DEF PageRead, Result
  <2>4. QED BY <1>3, <2>1, <2>3, ConcludedListed
<1>14. CASE Reread
  <2>1. UnderWay /\ Part.rereads
    BY <1>14 DEF Reread, Sending
  <2>2. ~Careful(Part)
    BY <2>1 DEF Careful
  <2>3. PICK first, rows :
          call' = [call EXCEPT !.first = first, !.rows = rows, !.at = 1,
                               !.step = "connect", !.ssl = 0]
    BY <1>14 DEF Reread
  <2>4. call'.todo = call.todo /\ call'.last = call.last
    BY <2>3 DEF CallRecord
  <2>5. QED BY <1>3, <2>1, <2>2, <2>4 DEF Listed, LastListed
<1>15. QED
  BY <1>1, <1>5, <1>6, <1>7, <1>8, <1>9, <1>10, <1>11, <1>12, <1>13, <1>14
  DEF Next, Process

(* The array does not change under a call. *)
LEMMA StockStays ==
  ASSUME [Next]_vars
  PROVE  stock' = stock
BY DEF Next, Process, Issue, LogIn, Reuse, Skip, Reject, Served, RowFails, Refused,
       Hollow, Reread, Busy, SslError, Lost, Stuck, Evict, Age, vars

(* A careful show that reports success has listed every object once and in *)
(* order, whatever pages, addresses or sessions were lost half way (the    *)
(* paging loops of CRESTCmd and CRESTFusionStorage, CMD_showlun the first). *)
THEOREM ListsComplete == Spec => []ListComplete
<1>1. Init => TypeInv /\ Listed(call)
  BY InitType, WalkListed DEF Init
<1>2. TypeInv /\ Listed(call) /\ [Next]_vars => TypeInv' /\ Listed(call)'
  <2> SUFFICES ASSUME TypeInv, Listed(call), [Next]_vars
               PROVE  Listed(call)'
    BY NextType
  <2>1. stock' = stock
    BY StockStays
  <2>2. Listed(call')
    BY ShowStep
  <2>3. CASE conn' = conn
    BY <2>1, <2>2, <2>3 DEF Listed, LastListed, Stock, Careful, Answering
  <2>4. CASE call'.last = NoPart
    BY <2>1, <2>2, <2>4 DEF Listed, LastListed, Stock, Careful, NoPart
  <2>5. QED BY <2>3, <2>4, LoginsStay
<1>3. Listed(call) => ListComplete
  BY DEF Listed, LastListed, ListComplete, Ended
<1>4. QED BY <1>1, <1>2, <1>3, PTL DEF Spec
==================================================================
