----------------------------- MODULE StockProofs -----------------------------
(***************************************************************************)
(* Theorems about Stock for any number of products, locations, keys,       *)
(* orders, counts and transactions.                                        *)
(*                                                                         *)
(* StockInv is about the balances and what transactions have read; Books   *)
(* is about sums: the total of a product, what its movements brought and   *)
(* took at their costs, and what entered for each purchase order.  A step  *)
(* adds at most two rows to the table of movements, and the lemmas of Sums *)
(* say what that does to each sum.                                         *)
(***************************************************************************)
EXTENDS Stock, Sums

\* Balances are quantities, and so is what the movements say of them.
Shelved ==
    /\ balance \in [Places -> Nat]
    /\ DOMAIN movement \subseteq Ids
    /\ \A i \in DOMAIN movement : movement[i].place \in Places /\ movement[i].quantity \in Int

Papers ==
    /\ order \in [Orders -> RefTo(OrderRows)]
    /\ count \in [Counts -> RefTo(CountRows)]

\* What a transaction has read says which shelf it will move, and by how much.
CopyOf(c) ==
    /\ c = [id |-> c.id, row |-> c.row, balance |-> c.balance, fresh |-> c.fresh]
    /\ c.id \in Ids => c.row.place \in Places /\ c.row.quantity \in Int
    /\ c.id \in Orders => c.row \in OrderRows
    /\ c.id \in Counts => c.row \in CountRows /\ c.balance \in Nat

CopiesRead ==
    /\ seen = [w \in Workers |-> seen[w]]
    /\ \A w \in Workers : seen[w] # NoRow => CopyOf(seen[w])

\* The order or the count that a transaction has read is still there.
Kept ==
    \A w \in Workers : seen[w] # NoRow =>
        /\ seen[w].id \in Orders => order[seen[w].id] # NoRow
        /\ seen[w].id \in Counts => count[seen[w].id] # NoRow

StockInv == Shelved /\ Papers /\ CopiesRead /\ Kept

\* No step takes an order or a count away.
Grows ==
    /\ \A o \in Orders : order[o] # NoRow => order'[o] # NoRow
    /\ \A c \in Counts : count[c] # NoRow => count'[c] # NoRow

\* Nothing has been moved, ordered, counted or read.
LEMMA InitStock == Init => StockInv
  BY DEF Init, StockInv, Shelved, Papers, CopiesRead, Kept, RefTo

-----------------------------------------------------------------------------
(* One slip of Shelves is filled in by move(), two by transfer(). *)

\* The movement of move() goes on a slip of its own, and the balance follows.
LEMMA MovedOnASlip ==
    ASSUME Shelved, NEW i \in Ids, NEW place \in Places, NEW quantity \in Int,
           NEW type, NEW given, NEW o, NEW original,
           Moved(i, type, place, quantity, given, o, original)
    PROVE  Shelved' /\ ShelvesOf!Next
<1>1. i \notin DOMAIN movement
  BY DEF Moved, Free
<1> DEFINE line == Line(type, place, quantity, CostOf(place[1], type, quantity, given), o, original)
<1>2. /\ DOMAIN movement' = DOMAIN movement \cup {i}
      /\ movement'[i] = line
      /\ \A j \in DOMAIN movement : movement'[j] = movement[j]
  BY <1>1 DEF Moved, Booked
<1>3. line.place = place /\ line.quantity = quantity
  BY DEF Line
<1>4. balance[place] \in Nat /\ balance[place] + quantity \in Nat
  BY DEF Shelved, Moved, Enough
<1>5. balance' = [balance EXCEPT ![place] = @ + quantity]
  BY DEF Moved
<1>6. Shelved'
  BY <1>2, <1>3, <1>4, <1>5 DEF Shelved
<1>7. ShelvesOf!Next
  <2> DEFINE slip == [j \in Ids |-> IF j \in DOMAIN movement
                                    THEN [place |-> movement[j].place,
                                          moved |-> movement[j].quantity]
                                    ELSE NoRow]
             paper == [place |-> place, moved |-> quantity]
  <2>1. paper # NoRow
    BY StockRowAssumption
  <2>2. slip[i] = NoRow /\ slip'[i] = paper
    BY <1>1, <1>2, <1>3
  <2>3. slip' = [slip EXCEPT ![i] = paper]
    BY <1>1, <1>2, <1>3
  <2> HIDE DEF slip
  <2>4. i \in {s \in Ids : slip[s] = NoRow /\ slip'[s] # NoRow}
    BY <2>1, <2>2
  <2>5. /\ slip[i] = NoRow
        /\ balance[slip'[i].place] + slip'[i].moved >= 0
        /\ balance' = [balance EXCEPT ![slip'[i].place] = @ + slip'[i].moved]
        /\ slip' = [slip EXCEPT ![i] = [place |-> slip'[i].place, moved |-> slip'[i].moved]]
    BY <2>2, <2>3, <1>4, <1>5
  <2>. QED
    BY <2>4, <2>5 DEF ShelvesOf!Next, ShelvesOf!Filled, ShelvesOf!Move, ShelvesOf!Moving, slip
<1>. QED BY <1>6, <1>7

\* transfer() fills in two slips, one for each shelf.
LEMMA TransferOnSlips ==
    ASSUME Shelved, StockAssumption, NEW k \in Keys, NEW p \in Products,
           NEW from \in Locations, NEW to \in Locations, Transfer(k, p, from, to)
    PROVE  Shelved' /\ ShelvesOf!Next
<1> DEFINE out == <<k, "out">>
           in == <<k, "in">>
           a == <<p, from>>
           b == <<p, to>>
<1>1. PICK q \in Quantities :
        /\ from # to
        /\ Free(out) /\ Free(in)
        /\ Enough(a, -q)
        /\ balance' = [balance EXCEPT ![a] = @ - q, ![b] = @ + q]
        /\ movement' = [i \in DOMAIN movement \cup {out, in} |->
               CASE i = out -> Line("TRANSFER_OUT", a, -q, average[p], NoRow, NoRow)
                 [] i = in -> Line("TRANSFER_IN", b, q, average[p], NoRow, NoRow)
                 [] OTHER -> movement[i]]
  BY DEF Transfer
<1>2. /\ out \in Ids /\ in \in Ids /\ out # in
      /\ a \in Places /\ b \in Places /\ a # b
  BY <1>1 DEF Ids, Places
<1>3. /\ out \notin DOMAIN movement /\ in \notin DOMAIN movement
      /\ q \in Nat
  BY <1>1 DEF Free, StockAssumption
<1> DEFINE lout == Line("TRANSFER_OUT", a, -q, average[p], NoRow, NoRow)
           lin == Line("TRANSFER_IN", b, q, average[p], NoRow, NoRow)
<1>4. /\ lout.place = a /\ lout.quantity = -q
      /\ lin.place = b /\ lin.quantity = q
  BY DEF Line
<1>5. /\ DOMAIN movement' = DOMAIN movement \cup {out, in}
      /\ movement'[out] = lout
      /\ movement'[in] = lin
      /\ \A j \in DOMAIN movement : movement'[j] = movement[j]
  <2> HIDE DEF lout, lin
  <2>1. movement' = [i \in DOMAIN movement \cup {out, in} |->
               CASE i = out -> lout [] i = in -> lin [] OTHER -> movement[i]]
    BY <1>1 DEF lout, lin
  <2>. HIDE DEF out, in
  <2>. QED BY <2>1, <1>2, <1>3
<1> HIDE DEF lout, lin, out, in, a, b
<1>6. balance[a] \in Nat /\ balance[b] \in Nat /\ balance[a] >= q
  BY <1>1, <1>2, <1>3 DEF Shelved, Enough
<1>7. Shelved'
  BY <1>1, <1>2, <1>3, <1>4, <1>5, <1>6 DEF Shelved
<1>8. ShelvesOf!Next
  <2> DEFINE slip == [j \in Ids |-> IF j \in DOMAIN movement
                                    THEN [place |-> movement[j].place,
                                          moved |-> movement[j].quantity]
                                    ELSE NoRow]
             gone == [place |-> a, moved |-> -q]
             come == [place |-> b, moved |-> q]
  <2>1. gone # NoRow /\ come # NoRow
    BY <1>2, <1>3, StockRowAssumption
  <2>2. /\ slip[out] = NoRow /\ slip'[out] = gone
        /\ slip[in] = NoRow /\ slip'[in] = come
    BY <1>2, <1>3, <1>4, <1>5
  <2>3. slip' = [slip EXCEPT ![out] = gone, ![in] = come]
    BY <1>2, <1>3, <1>4, <1>5
  <2>4. /\ gone.place = a /\ gone.moved = -q
        /\ come.place = b /\ come.moved = q
    OBVIOUS
  <2> HIDE DEF slip, gone, come
  <2>5. /\ out \in {s \in Ids : slip[s] = NoRow /\ slip'[s] # NoRow}
        /\ in \in {s \in Ids : slip[s] = NoRow /\ slip'[s] # NoRow}
    BY <1>2, <2>1, <2>2
  <2>6. /\ slip'[out].place # slip'[in].place /\ out # in
        /\ slip[out] = NoRow /\ slip[in] = NoRow
        /\ balance[slip'[out].place] >= slip'[in].moved
        /\ balance' = [balance EXCEPT ![slip'[out].place] = @ - slip'[in].moved,
                                      ![slip'[in].place] = @ + slip'[in].moved]
    BY <1>1, <1>2, <1>6, <2>2, <2>4
  <2>7. slip' = [slip EXCEPT
                   ![out] = [place |-> slip'[out].place, moved |-> -slip'[in].moved],
                   ![in] = [place |-> slip'[in].place, moved |-> slip'[in].moved]]
    BY <2>2, <2>3, <2>4 DEF gone, come
  <2>. QED
    BY <2>5, <2>6, <2>7 DEF ShelvesOf!Next, ShelvesOf!Filled, ShelvesOf!Carry, ShelvesOf!Moving, slip
<1>. QED BY <1>7, <1>8

-----------------------------------------------------------------------------
(* The handlers *)

\* What a step does to the shelves: nothing, or one step of Shelves.
ShelfStep == Shelved' /\ (ShelvesOf!Next \/ UNCHANGED <<balance, movement>>)

\* A copy that says what it must may be held, and holding it moves nothing.
LEMMA HoldKeeps ==
    ASSUME StockInv, NEW w \in Workers, NEW i, NEW row, NEW b, NEW keys,
           Hold(w, i, row, b, keys),
           i \in Ids => row.place \in Places /\ row.quantity \in Int,
           i \in Orders => row \in OrderRows /\ order[i] # NoRow,
           i \in Counts => row \in CountRows /\ b \in Nat /\ count[i] # NoRow
    PROVE  StockInv' /\ UNCHANGED <<balance, movement>>
<1>1. UNCHANGED <<balance, movement, order, count>>
  BY DEF Hold
<1>2. Shelved' /\ Papers'
  BY <1>1 DEF StockInv, Shelved, Papers
<1> DEFINE copy == [id |-> i, row |-> row, balance |-> b, fresh |-> keys]
<1>3. CopyOf(copy)
  BY DEF CopyOf
<1>4. seen' = [seen EXCEPT ![w] = copy]
  BY DEF Hold
<1> HIDE DEF copy
<1>5. CopiesRead'
  BY <1>3, <1>4 DEF StockInv, CopiesRead, CopyOf
<1>6. Kept'
  <2>1. copy.id = i
    BY DEF copy
  <2>. QED BY <1>1, <1>4, <2>1 DEF StockInv, CopiesRead, Kept
<1>. QED BY <1>1, <1>2, <1>5, <1>6 DEF StockInv

\* Reading moves nothing, and what is read is what is there.
LEMMA LoadKeeps ==
    ASSUME StockInv, NEW w \in Workers, LoadStep(w)
    PROVE  StockInv' /\ UNCHANGED <<balance, movement>>
<1>1. CASE \E i \in DOMAIN movement : LoadMovement(w, i)
  <2>1. PICK i \in DOMAIN movement : LoadMovement(w, i)
    BY <1>1
  <2>2. Hold(w, i, movement[i], NoRow, {})
    BY <2>1 DEF LoadMovement
  <2>3. /\ movement[i].place \in Places /\ movement[i].quantity \in Int
        /\ i \notin Orders /\ i \notin Counts
    BY StockRowAssumption DEF StockInv, Shelved
  <2>. QED BY <2>2, <2>3, HoldKeeps
<1>2. CASE \E o \in Orders : LoadOrder(w, o)
  <2>1. PICK o \in Orders : LoadOrder(w, o)
    BY <1>2
  <2>2. Hold(w, o, order[o], NoRow, {k \in Keys : Free(<<k, o>>)})
    BY <2>1 DEF LoadOrder
  <2>3. order[o] # NoRow /\ order[o] \in OrderRows /\ o \notin Ids /\ o \notin Counts
    BY <2>1, StockRowAssumption DEF LoadOrder, StockInv, Papers, RefTo
  <2>. QED BY <2>2, <2>3, HoldKeeps
<1>3. CASE \E c \in Counts : LoadCount(w, c)
  <2>1. PICK c \in Counts : LoadCount(w, c)
    BY <1>3
  <2>2. Hold(w, c, count[c], balance[count[c].place], {})
    BY <2>1 DEF LoadCount
  <2>3. count[c] # NoRow /\ count[c] \in CountRows /\ c \notin Ids /\ c \notin Orders
    BY <2>1, StockRowAssumption DEF LoadCount, StockInv, Papers, RefTo
  <2>4. balance[count[c].place] \in Nat
    BY <2>3 DEF StockInv, Shelved, CountRows
  <2>. QED BY <2>2, <2>3, <2>4, HoldKeeps
<1>4. CASE \E l \in Locations : LoadLocation(w, l)
  <2>1. PICK l \in Locations : LoadLocation(w, l)
    BY <1>4
  <2>2. Hold(w, l, NoRow, NoRow, {})
    BY <2>1 DEF LoadLocation
  <2>3. l \notin Ids /\ l \notin Orders /\ l \notin Counts
    BY StockRowAssumption
  <2>. QED BY <2>2, <2>3, HoldKeeps
<1>5. CASE LookAgain(w)
  <2>1. /\ UNCHANGED <<balance, movement, order, count>>
        /\ seen[w] # NoRow /\ seen[w].id \in Counts
        /\ seen' = [seen EXCEPT ![w].balance = balance[seen[w].row.place]]
    BY <1>5 DEF LookAgain, Holds
  <2>2. Shelved' /\ Papers'
    BY <2>1 DEF StockInv, Shelved, Papers
  <2>3. CopyOf(seen[w])
    BY <2>1 DEF StockInv, CopiesRead
  <2>4. balance[seen[w].row.place] \in Nat
    BY <2>1, <2>3 DEF CopyOf, StockInv, Shelved, CountRows
  <2> DEFINE copy == [seen[w] EXCEPT !.balance = balance[seen[w].row.place]]
  <2>5. /\ copy = [id |-> seen[w].id, row |-> seen[w].row,
                   balance |-> balance[seen[w].row.place], fresh |-> seen[w].fresh]
        /\ seen[w].id \notin Ids /\ seen[w].id \notin Orders
    BY <2>1, <2>3, StockRowAssumption DEF CopyOf
  <2>6. CopyOf(copy)
    BY <2>1, <2>3, <2>4, <2>5 DEF CopyOf
  <2>7. seen' = [seen EXCEPT ![w] = copy]
    BY <2>1
  <2> HIDE DEF copy
  <2>8. CopiesRead'
    BY <2>6, <2>7 DEF StockInv, CopiesRead, CopyOf
  <2>9. Kept'
    <3>1. copy.id = seen[w].id
      BY DEF copy
    <3>. QED BY <2>1, <2>7, <3>1 DEF StockInv, CopiesRead, Kept
  <2>. QED BY <2>1, <2>2, <2>8, <2>9 DEF StockInv
<1>6. CASE Abandon(w)
  <2>1. UNCHANGED <<balance, movement, order, count>> /\ Done(w)
    BY <1>6 DEF Abandon
  <2>2. Shelved' /\ Papers'
    BY <2>1 DEF StockInv, Shelved, Papers
  <2>. QED BY <2>1, <2>2 DEF StockInv, CopiesRead, CopyOf, Kept, Done
<1>. QED BY <1>1, <1>2, <1>3, <1>4, <1>5, <1>6 DEF LoadStep

\* Ending a transaction keeps what the others have read.
LEMMA DoneKeeps ==
    ASSUME CopiesRead, Kept, Grows, NEW w \in Workers, Done(w)
    PROVE  CopiesRead' /\ Kept'
  BY DEF CopiesRead, CopyOf, Kept, Grows, Done

\* reverse() moves the shelf of the original by the opposite quantity.
LEMMA ReverseKeeps ==
    ASSUME StockInv, NEW w \in Workers, NEW k \in Keys, Reverse(w, k)
    PROVE  StockInv' /\ ShelfStep
<1> DEFINE c == seen[w]
<1>1. /\ c # NoRow /\ c.id \in Ids
      /\ Moved(<<k, "move">>, "ADJUSTMENT", c.row.place, -c.row.quantity, c.row.cost, NoRow, c.id)
      /\ Done(w) /\ UNCHANGED <<order, count>>
  BY DEF Reverse, Holds
<1>2. c.row.place \in Places /\ -c.row.quantity \in Int /\ <<k, "move">> \in Ids
  BY <1>1 DEF StockInv, CopiesRead, CopyOf, Ids
<1>3. Shelved' /\ ShelvesOf!Next
  BY <1>1, <1>2, MovedOnASlip DEF StockInv
<1>4. Papers' /\ CopiesRead' /\ Kept'
  BY <1>1, DoneKeeps DEF StockInv, Papers, Grows
<1>. QED BY <1>3, <1>4 DEF StockInv, ShelfStep

LEMMA StayedShelf == ASSUME Shelved, Stayed PROVE ShelfStep
  BY DEF Stayed, ShelfStep, Shelved

\* Closing a count keeps its row.
LEMMA CloseKeeps ==
    ASSUME StockInv, NEW w \in Workers, seen[w] # NoRow, seen[w].id \in Counts,
           NEW status \in {"OPEN", "APPLIED", "CANCELLED"}, CloseCount(w, status)
    PROVE  Papers' /\ CopiesRead' /\ Kept'
<1> DEFINE c == seen[w].id
<1>1. /\ count' = [count EXCEPT ![c].status = status]
      /\ Done(w) /\ UNCHANGED order
  BY DEF CloseCount
<1>2. count[c] \in CountRows
  BY DEF StockInv, Papers, Kept, RefTo
<1>3. [count[c] EXCEPT !.status = status] \in CountRows
  BY <1>2 DEF CountRows
<1>4. Papers' /\ Grows
  BY <1>1, <1>3, StockRowAssumption DEF StockInv, Papers, RefTo, Grows
<1>. QED BY <1>1, <1>4, DoneKeeps DEF StockInv

\* A count moves its own shelf, and only when it is applied.
LEMMA CountKeeps ==
    ASSUME StockInv, StockAssumption, NEW w \in Workers, CountStep(w)
    PROVE  StockInv' /\ ShelfStep
<1> DEFINE c == seen[w]
<1>1. CASE \E x \in Counts, p \in Products : OpenCount(w, x, p)
  <2>1. PICK x \in Counts, p \in Products : OpenCount(w, x, p)
    BY <1>1
  <2>2. /\ c.id \in Locations
        /\ count' = [count EXCEPT ![x] =
              [status |-> "OPEN", place |-> <<p, c.id>>, counted |-> NoRow]]
        /\ Done(w) /\ UNCHANGED <<balance, movement, order>>
    BY <2>1 DEF OpenCount, Holds
  <2> DEFINE opened == [status |-> "OPEN", place |-> <<p, c.id>>, counted |-> NoRow]
  <2>3. opened \in CountRows
    BY <2>2 DEF RefTo, CountRows, Places
  <2> HIDE DEF opened
  <2>4. Papers' /\ Grows
    BY <2>2, <2>3, StockRowAssumption DEF StockInv, Papers, RefTo, Grows, opened
  <2>. QED BY <2>2, <2>4, DoneKeeps DEF StockInv, ShelfStep, Shelved
<1>2. CASE \E q \in Counted : Tally(w, q)
  <2>1. PICK q \in Counted : Tally(w, q)
    BY <1>2
  <2>2. /\ c # NoRow /\ c.id \in Counts /\ q \in Nat
        /\ count' = [count EXCEPT ![c.id].counted = q]
        /\ Done(w) /\ UNCHANGED <<balance, movement, order>>
    BY <2>1 DEF Tally, Holds, StockAssumption
  <2>3. count[c.id] \in CountRows
    BY <2>2 DEF StockInv, Papers, Kept, RefTo
  <2>4. [count[c.id] EXCEPT !.counted = q] \in CountRows
    BY <2>2, <2>3 DEF CountRows, RefTo
  <2>5. Papers' /\ Grows
    BY <2>2, <2>4, StockRowAssumption DEF StockInv, Papers, RefTo, Grows
  <2>. QED BY <2>2, <2>5, DoneKeeps DEF StockInv, ShelfStep, Shelved
<1>3. CASE ApplyCount(w)
  <2> DEFINE i == <<c.id, "count">>
             diff == c.row.counted - c.balance
  <2>1. /\ c # NoRow /\ c.id \in Counts
        /\ \/ /\ c.row.counted \notin {NoRow, c.balance}
              /\ Moved(i, "ADJUSTMENT", c.row.place, diff, NoRow, NoRow, NoRow)
           \/ Stayed
        /\ CloseCount(w, "APPLIED")
    BY <1>3 DEF ApplyCount, Holds
  <2>2. c.row \in CountRows /\ c.balance \in Nat /\ i \in Ids
    BY <2>1 DEF StockInv, CopiesRead, CopyOf, Ids
  <2>3. ASSUME c.row.counted \notin {NoRow, c.balance},
               Moved(i, "ADJUSTMENT", c.row.place, diff, NoRow, NoRow, NoRow)
        PROVE  ShelfStep
    <3>1. c.row.place \in Places /\ diff \in Int
      BY <2>2, <2>3 DEF CountRows, RefTo
    <3>. HIDE DEF i, diff
    <3>. QED BY <2>2, <2>3, <3>1, MovedOnASlip DEF StockInv, ShelfStep
  <2>4. ShelfStep
    BY <2>1, <2>3, StayedShelf DEF StockInv
  <2>5. Papers' /\ CopiesRead' /\ Kept'
    BY <2>1, CloseKeeps
  <2>. QED BY <2>4, <2>5 DEF StockInv, ShelfStep
<1>4. CASE CancelCount(w)
  <2>1. /\ c # NoRow /\ c.id \in Counts
        /\ CloseCount(w, "CANCELLED") /\ Stayed
    BY <1>4 DEF CancelCount, Holds
  <2>2. Papers' /\ CopiesRead' /\ Kept'
    BY <2>1, CloseKeeps
  <2>. QED BY <2>1, <2>2, StayedShelf DEF StockInv, ShelfStep
<1>. QED BY <1>1, <1>2, <1>3, <1>4 DEF CountStep

\* A status on an order moves nothing.
LEMMA MoveOrderKeeps ==
    ASSUME StockInv, NEW w \in Workers, NEW from, NEW to \in OrderStatuses, MoveOrder(w, from, to)
    PROVE  StockInv' /\ ShelfStep
<1>1. /\ seen[w] # NoRow /\ seen[w].id \in Orders
      /\ order' = [order EXCEPT ![seen[w].id].status = to]
      /\ Done(w) /\ UNCHANGED <<balance, movement, count>>
  BY DEF MoveOrder, Holds
<1>2. order[seen[w].id] \in OrderRows
  BY <1>1 DEF StockInv, Papers, Kept, RefTo
<1>3. [order[seen[w].id] EXCEPT !.status = to] \in OrderRows
  BY <1>2 DEF OrderRows
<1>4. Papers' /\ Grows
  BY <1>1, <1>3, StockRowAssumption DEF StockInv, Papers, RefTo, Grows
<1>. QED BY <1>1, <1>4, DoneKeeps DEF StockInv, ShelfStep, Shelved

\* What receive() makes of the row of an order
LEMMA ArrivedRow ==
    ASSUME NEW o \in Orders, order[o] \in OrderRows, NEW q \in Nat, NEW cost \in Nat
    PROVE  /\ Arrived(o, q, cost) \in OrderRows
           /\ Arrived(o, q, cost).billed = order[o].billed + q * cost
           /\ Arrived(o, q, cost).received = order[o].received + q
<1> DEFINE row == order[o]
           received == row.received + q
           billed == row.billed + q * cost
           status == IF received >= row.quantity THEN "RECEIVED" ELSE "PARTIALLY_RECEIVED"
<1>1. received \in Nat /\ billed \in Nat /\ status \in OrderStatuses
  <2> DEFINE paid == q * cost
  <2>1. paid \in Nat
    OBVIOUS
  <2> HIDE DEF paid
  <2>2. row.billed + paid \in Nat
    BY <2>1 DEF OrderRows
  <2>. QED BY <2>2 DEF OrderRows, OrderStatuses, paid
<1>2. Arrived(o, q, cost) =
        [row EXCEPT !.received = received, !.billed = billed, !.status = status]
  BY DEF Arrived
<1> HIDE DEF received, billed, status
<1>3. Arrived(o, q, cost) \in OrderRows
  BY <1>1, <1>2 DEF OrderRows
<1>4. Arrived(o, q, cost).billed = billed /\ Arrived(o, q, cost).received = received
  BY <1>2 DEF OrderRows
<1>. QED BY <1>3, <1>4 DEF received, billed

\* receive() moves the shelf it receives on, or finds its movement there.
LEMMA ReceiveKeeps ==
    ASSUME StockInv, StockAssumption, NEW w \in Workers, NEW k \in Keys, NEW l \in Locations,
           NEW q \in Quantities, NEW cost \in Costs, Receive(w, k, l, q, cost)
    PROVE  StockInv' /\ ShelfStep
<1> DEFINE c == seen[w]
           i == <<k, c.id>>
           place == <<c.row.product, l>>
<1>1. /\ c # NoRow /\ c.id \in Orders
      /\ \/ Moved(i, "PURCHASE_IN", place, q, cost, c.id, NoRow)
         \/ Stayed
      /\ order' = [order EXCEPT ![c.id] = Arrived(c.id, q, cost)]
      /\ Done(w) /\ UNCHANGED count
  BY DEF Receive, Holds
<1>2. c.row \in OrderRows
  BY <1>1 DEF StockInv, CopiesRead, CopyOf
<1>3. i \in Ids /\ place \in Places /\ q \in Nat /\ cost \in Nat
  BY <1>1, <1>2 DEF Ids, Places, OrderRows, StockAssumption
<1>4. ShelfStep
  <2> HIDE DEF i, place
  <2>1. ASSUME Moved(i, "PURCHASE_IN", place, q, cost, c.id, NoRow) PROVE ShelfStep
    BY <1>3, <2>1, MovedOnASlip DEF StockInv, ShelfStep
  <2>. QED BY <1>1, <2>1, StayedShelf DEF StockInv
<1>5. order[c.id] \in OrderRows
  BY <1>1 DEF StockInv, Papers, Kept, RefTo
<1>6. Arrived(c.id, q, cost) \in OrderRows
  BY <1>1, <1>3, <1>5, ArrivedRow
<1>7. Papers' /\ Grows
  BY <1>1, <1>6, StockRowAssumption DEF StockInv, Papers, RefTo, Grows
<1>. QED BY <1>1, <1>4, <1>7, DoneKeeps DEF StockInv, ShelfStep

\* A purchase order is written before anybody reads it.
LEMMA CreateKeeps ==
    ASSUME StockInv, StockAssumption, NEW o \in Orders, NEW p \in Products, NEW q \in Ordered,
           CreatePurchase(o, p, q)
    PROVE  StockInv' /\ ShelfStep
<1> DEFINE row == [status |-> "DRAFT", product |-> p, quantity |-> q,
                   received |-> 0, billed |-> 0]
<1>1. row \in OrderRows
  BY DEF OrderRows, OrderStatuses, StockAssumption
<1>2. /\ order' = [order EXCEPT ![o] = row]
      /\ UNCHANGED <<balance, movement, count, seen>>
  BY DEF CreatePurchase
<1> HIDE DEF row
<1>3. Shelved' /\ Papers' /\ CopiesRead' /\ Kept'
  BY <1>1, <1>2, StockRowAssumption
  DEF StockInv, Shelved, Papers, CopiesRead, CopyOf, Kept, RefTo
<1>. QED BY <1>2, <1>3 DEF StockInv, ShelfStep

\* What only moves goods leaves papers and readings alone.
LEMMA MoveKeeps ==
    ASSUME StockInv, StockAssumption, MoveStep
    PROVE  StockInv' /\ ShelfStep
<1>1. UNCHANGED <<order, count, seen>>
  <2>1. ASSUME NEW k \in Keys, NEW type \in Types, NEW place \in Places, NEW cost \in RefTo(Costs),
               Move(k, type, place, cost)
        PROVE  UNCHANGED <<order, count, seen>>
    BY <2>1, ZenonT(30) DEF Move
  <2>2. ASSUME NEW k \in Keys, NEW p \in Products, NEW from \in Locations, NEW to \in Locations,
               Transfer(k, p, from, to)
        PROVE  UNCHANGED <<order, count, seen>>
    BY <2>2, ZenonT(30) DEF Transfer
  <2>. QED BY <2>1, <2>2 DEF MoveStep
<1>2. Papers' /\ CopiesRead' /\ Kept'
  BY <1>1 DEF StockInv, Papers, CopiesRead, CopyOf, Kept
<1>3. CASE \E k \in Keys, type \in Types, place \in Places, cost \in RefTo(Costs) :
               Move(k, type, place, cost)
  <2>1. PICK k \in Keys, type \in Types, place \in Places, cost \in RefTo(Costs),
             q \in Quantities : \E quantity \in Signed(type, q) :
                 Moved(<<k, "move">>, type, place, quantity, cost, NoRow, NoRow)
    BY <1>3 DEF Move
  <2>2. PICK quantity \in Signed(type, q) :
                 Moved(<<k, "move">>, type, place, quantity, cost, NoRow, NoRow)
    BY <2>1
  <2>3. quantity \in Int /\ <<k, "move">> \in Ids
    BY DEF Signed, StockAssumption, Ids
  <2>. QED BY <1>2, <2>2, <2>3, MovedOnASlip DEF StockInv, ShelfStep
<1>4. CASE \E k \in Keys, p \in Products, from, to \in Locations : Transfer(k, p, from, to)
  BY <1>2, <1>4, TransferOnSlips DEF StockInv, ShelfStep
<1>. QED BY <1>3, <1>4 DEF MoveStep

\* Every step keeps the invariant and is a step of Shelves or none.
LEMMA NextStock ==
    ASSUME StockInv, StockAssumption, [Next]_vars
    PROVE  StockInv' /\ ShelfStep
<1>1. CASE MoveStep
  BY <1>1, MoveKeeps
<1>2. CASE \E o \in Orders, p \in Products, q \in Ordered : CreatePurchase(o, p, q)
  BY <1>2, CreateKeeps
<1>3. ASSUME NEW w \in Workers, LoadStep(w) PROVE StockInv' /\ ShelfStep
  BY <1>3, LoadKeeps DEF StockInv, ShelfStep
<1>4. ASSUME NEW w \in Workers, NEW k \in Keys, Reverse(w, k) PROVE StockInv' /\ ShelfStep
  BY <1>4, ReverseKeeps
<1>5. ASSUME NEW w \in Workers, CountStep(w) PROVE StockInv' /\ ShelfStep
  BY <1>5, CountKeeps
<1>6. ASSUME NEW w \in Workers, OrderStep(w) PROVE StockInv' /\ ShelfStep
  <2>1. CASE SubmitPurchase(w)
    BY <2>1, MoveOrderKeeps DEF SubmitPurchase, OrderStatuses
  <2>2. CASE ApprovePurchase(w)
    BY <2>2, MoveOrderKeeps DEF ApprovePurchase, OrderStatuses
  <2>3. CASE CancelPurchase(w)
    BY <2>3, MoveOrderKeeps DEF CancelPurchase, OrderStatuses
  <2>4. CASE \E k \in Keys, l \in Locations, q \in Quantities, cost \in Costs :
                 Receive(w, k, l, q, cost)
    BY <2>4, ReceiveKeeps
  <2>. QED BY <1>6, <2>1, <2>2, <2>3, <2>4 DEF OrderStep
<1>7. CASE UNCHANGED vars
  BY <1>7 DEF vars, StockInv, Shelved, Papers, CopiesRead, CopyOf, Kept, ShelfStep
<1>. QED BY <1>1, <1>2, <1>3, <1>4, <1>5, <1>6, <1>7 DEF Next

-----------------------------------------------------------------------------
(* Sums over shelves and over movements *)

\* A table of movements as the database holds one
MovementTable(m) ==
    IsFiniteSet(DOMAIN m) /\ DOMAIN m \subseteq Ids /\ \A i \in DOMAIN m : m[i] \in MovementRows

TotalOf(b, p) == MapThenSumSet(LAMBDA l : b[<<p, l>>], Locations)
WorthOf(m, S) == MapThenSumSet(LAMBDA i : m[i].quantity * m[i].cost, S)
QuantityOf(m, S) == MapThenSumSet(LAMBDA i : m[i].quantity, S)

Shelf(b, p) == [l \in Locations |-> b[<<p, l>>]]
Worths(m) == [i \in DOMAIN m |-> m[i].quantity * m[i].cost]
Units(m) == [i \in DOMAIN m |-> m[i].quantity]

\* balance over the locations of a product
LEMMA TotalIsSum ==
    ASSUME NEW b \in [Places -> Nat], NEW p \in Products
    PROVE  /\ Numbers(Shelf(b, p), Locations)
           /\ TotalOf(b, p) = SumOf(Shelf(b, p), Locations)
           /\ TotalOf(b, p) \in Nat
<1> DEFINE f == Shelf(b, p)
           Adds(h) == h = [s \in SUBSET Locations |->
                             IF s = {} THEN 0
                             ELSE b[<<p, CHOOSE x \in s : TRUE>>] + h[s \ {CHOOSE x \in s : TRUE}]]
           iter == CHOOSE h : Adds(h)
<1>1. TotalOf(b, p) = iter[Locations]
  BY DEF TotalOf, MapThenSumSet, MapThenFoldSet
<1>2. \A l \in Locations : f[l] = b[<<p, l>>] /\ f[l] \in Nat
  BY DEF Shelf, Places
<1>3. Numbers(f, Locations) /\ IsFiniteSet(Locations)
  <2> HIDE DEF f
  <2>1. \A l \in Locations : f[l] \in Int
    <3>1. \A l \in Locations : f[l] \in Nat
      BY <1>2
    <3>. QED BY <3>1
  <2>. QED BY <2>1, StockAssumption DEF Numbers
<1>4. \A h : Adds(h) <=> Recursive(h, f, Locations)
  <2>1. ASSUME NEW s \in SUBSET Locations, s # {}
        PROVE  f[CHOOSE x \in s : TRUE] = b[<<p, CHOOSE x \in s : TRUE>>]
    <3>1. (CHOOSE x \in s : TRUE) \in Locations
      BY <2>1
    <3> HIDE DEF f
    <3>. QED BY <1>2, <3>1
  <2> HIDE DEF f
  <2>2. ASSUME NEW h PROVE Adds(h) <=> Recursive(h, f, Locations)
    <3>1. [s \in SUBSET Locations |->
              IF s = {} THEN 0
              ELSE b[<<p, CHOOSE x \in s : TRUE>>] + h[s \ {CHOOSE x \in s : TRUE}]]
          = [s \in SUBSET Locations |->
              IF s = {} THEN 0
              ELSE f[CHOOSE x \in s : TRUE] + h[s \ {CHOOSE x \in s : TRUE}]]
      BY <2>1
    <3>. QED BY <3>1, Zenon DEF Recursive
  <2>. QED BY <2>2
<1> HIDE DEF f, Adds
<1>5. Adds(iter)
  BY <1>3, <1>4, SumOfIs
<1>6. iter[Locations] = SumOf(f, Locations)
  BY <1>3, <1>4, <1>5, SumOfIs
<1>7. SumOf(f, Locations) \in Nat
  BY <1>2, <1>3, SumOfGrows
<1>. QED BY <1>1, <1>3, <1>6, <1>7 DEF f

\* What a set of movements brought and took, at their costs
LEMMA WorthIsSum ==
    ASSUME NEW m, MovementTable(m), NEW S \in SUBSET DOMAIN m
    PROVE  /\ IsFiniteSet(S) /\ Numbers(Worths(m), S)
           /\ \A i \in S : Worths(m)[i] = m[i].quantity * m[i].cost
           /\ WorthOf(m, S) = SumOf(Worths(m), S)
           /\ WorthOf(m, S) \in Int
<1> DEFINE f == Worths(m)
           Adds(h) == h = [s \in SUBSET S |->
                             IF s = {} THEN 0
                             ELSE m[CHOOSE x \in s : TRUE].quantity * m[CHOOSE x \in s : TRUE].cost
                                  + h[s \ {CHOOSE x \in s : TRUE}]]
           iter == CHOOSE h : Adds(h)
<1>1. WorthOf(m, S) = iter[S]
  BY DEF WorthOf, MapThenSumSet, MapThenFoldSet
<1>2. \A i \in S : f[i] = m[i].quantity * m[i].cost
  BY DEF Worths
<1>3. \A i \in S : f[i] \in Int
  <2>1. ASSUME NEW i \in S PROVE f[i] \in Int
    <3>1. m[i].quantity \in Int /\ m[i].cost \in Int
      BY DEF MovementTable, MovementRows
    <3>. QED BY <1>2, <3>1
  <2>. QED BY <2>1
<1>4. Numbers(f, S) /\ IsFiniteSet(S)
  BY <1>3, FS_Subset DEF Numbers, MovementTable
<1>5. \A h : Adds(h) <=> Recursive(h, f, S)
  <2>1. ASSUME NEW s \in SUBSET S, s # {}
        PROVE  f[CHOOSE x \in s : TRUE] =
                  m[CHOOSE x \in s : TRUE].quantity * m[CHOOSE x \in s : TRUE].cost
    <3>1. (CHOOSE x \in s : TRUE) \in S
      BY <2>1
    <3>. QED BY <1>2, <3>1
  <2> HIDE DEF f
  <2>. QED BY <2>1 DEF Recursive
<1> HIDE DEF f, Adds
<1>6. Adds(iter)
  BY <1>4, <1>5, SumOfIs
<1>7. iter[S] = SumOf(f, S) /\ SumOf(f, S) \in Int
  BY <1>4, <1>5, <1>6, SumOfIs
<1>. QED BY <1>1, <1>2, <1>4, <1>7 DEF f

\* What a set of movements brought and took, in units
LEMMA QuantityIsSum ==
    ASSUME NEW m, MovementTable(m), NEW S \in SUBSET DOMAIN m
    PROVE  /\ IsFiniteSet(S) /\ Numbers(Units(m), S)
           /\ \A i \in S : Units(m)[i] = m[i].quantity
           /\ QuantityOf(m, S) = SumOf(Units(m), S)
           /\ QuantityOf(m, S) \in Int
<1> DEFINE f == Units(m)
           Adds(h) == h = [s \in SUBSET S |->
                             IF s = {} THEN 0
                             ELSE m[CHOOSE x \in s : TRUE].quantity + h[s \ {CHOOSE x \in s : TRUE}]]
           iter == CHOOSE h : Adds(h)
<1>1. QuantityOf(m, S) = iter[S]
  BY DEF QuantityOf, MapThenSumSet, MapThenFoldSet
<1>2. \A i \in S : f[i] = m[i].quantity /\ f[i] \in Int
  BY DEF Units, MovementTable, MovementRows
<1>3. Numbers(f, S) /\ IsFiniteSet(S)
  BY <1>2, FS_Subset DEF Numbers, MovementTable
<1>4. \A h : Adds(h) <=> Recursive(h, f, S)
  <2>1. ASSUME NEW s \in SUBSET S, s # {}
        PROVE  f[CHOOSE x \in s : TRUE] = m[CHOOSE x \in s : TRUE].quantity
    BY <1>2, <2>1
  <2> HIDE DEF f
  <2>. QED BY <2>1 DEF Recursive
<1> HIDE DEF f, Adds
<1>5. Adds(iter)
  BY <1>3, <1>4, SumOfIs
<1>6. iter[S] = SumOf(f, S) /\ SumOf(f, S) \in Int
  BY <1>3, <1>4, <1>5, SumOfIs
<1>. QED BY <1>1, <1>2, <1>3, <1>6 DEF f

\* One balance changes, and the total of its product by as much.
LEMMA TotalMoves ==
    ASSUME NEW b \in [Places -> Nat], NEW u \in [Places -> Nat], NEW place \in Places,
           NEW quantity \in Int, u[place] = b[place] + quantity,
           \A a \in Places : a # place => u[a] = b[a], NEW p \in Products
    PROVE  TotalOf(u, p) = TotalOf(b, p) + (IF place[1] = p THEN quantity ELSE 0)
<1>1. /\ Numbers(Shelf(b, p), Locations) /\ Numbers(Shelf(u, p), Locations)
      /\ TotalOf(b, p) = SumOf(Shelf(b, p), Locations) /\ TotalOf(b, p) \in Nat
      /\ TotalOf(u, p) = SumOf(Shelf(u, p), Locations)
      /\ IsFiniteSet(Locations)
  BY TotalIsSum, StockAssumption
<1>2. place[2] \in Locations /\ place = <<place[1], place[2]>>
  BY DEF Places
<1>3. \A l \in Locations : <<p, l>> \in Places /\ Shelf(b, p)[l] = b[<<p, l>>] /\ Shelf(u, p)[l] = u[<<p, l>>]
  BY DEF Places, Shelf
<1>4. CASE place[1] = p
  <2>1. PICK x : x = place[2]
    OBVIOUS
  <2>2. \A l \in Locations : l # x => Shelf(b, p)[l] = Shelf(u, p)[l]
    <3>1. ASSUME NEW l \in Locations, l # x PROVE Shelf(b, p)[l] = Shelf(u, p)[l]
      <4>1. <<p, l>> # place
        BY <1>2, <2>1, <3>1
      <4>. QED BY <1>3, <4>1
    <3>. QED BY <3>1
  <2>3. Shelf(u, p)[x] - Shelf(b, p)[x] = quantity
    <3>1. b[place] \in Nat
      OBVIOUS
    <3>. QED BY <1>2, <1>3, <1>4, <2>1, <3>1
  <2>4. SumOf(Shelf(u, p), Locations) = SumOf(Shelf(b, p), Locations)
                                         + (Shelf(u, p)[x] - Shelf(b, p)[x])
    BY <1>1, <1>2, <2>1, <2>2, SumOfChanged
  <2>. QED BY <1>1, <1>4, <2>3, <2>4
<1>5. CASE place[1] # p
  <2>1. \A l \in Locations : Shelf(b, p)[l] = Shelf(u, p)[l]
    <3>1. ASSUME NEW l \in Locations PROVE Shelf(b, p)[l] = Shelf(u, p)[l]
      <4>1. <<p, l>> # place
        BY <1>2, <1>5
      <4>. QED BY <1>3, <4>1
    <3>. QED BY <3>1
  <2>2. SumOf(Shelf(b, p), Locations) = SumOf(Shelf(u, p), Locations)
    BY <1>1, <2>1, SumOfSame
  <2>. QED BY <1>1, <1>5, <2>2
<1>. QED BY <1>4, <1>5

OfProduct(m, p) == {i \in DOMAIN m : m[i].place[1] = p}
OfOrder(m, o) == {i \in DOMAIN m : m[i].of = o}

\* Table u has what table m has, and row under key i.
Adding(m, u, i, row) ==
    /\ i \in Ids \ DOMAIN m /\ DOMAIN u = DOMAIN m \cup {i}
    /\ u[i] = row /\ \A j \in DOMAIN m : u[j] = m[j]

LEMMA AddingTyped ==
    ASSUME NEW m, MovementTable(m), NEW u, NEW i, NEW row \in MovementRows, Adding(m, u, i, row)
    PROVE  MovementTable(u)
<1>1. IsFiniteSet(DOMAIN m \cup {i})
  BY FS_AddElement DEF MovementTable
<1>. QED BY <1>1 DEF MovementTable, Adding

\* A part of the table grows by the new row, or stays as it is.
LEMMA PartGrows ==
    ASSUME NEW m, MovementTable(m), NEW u, NEW i, NEW row \in MovementRows, Adding(m, u, i, row),
           NEW S \in SUBSET DOMAIN m, NEW T, T = S \cup {i}
    PROVE  /\ WorthOf(u, T) = WorthOf(m, S) + row.quantity * row.cost
           /\ QuantityOf(u, T) = QuantityOf(m, S) + row.quantity
           /\ Cardinality(T) = Cardinality(S) + 1
           /\ WorthOf(u, S) = WorthOf(m, S) /\ QuantityOf(u, S) = QuantityOf(m, S)
<1>1. MovementTable(u) /\ i \notin S /\ T \in SUBSET DOMAIN u /\ S \in SUBSET DOMAIN u
  BY AddingTyped DEF Adding
<1>2. /\ IsFiniteSet(S) /\ Numbers(Worths(m), S) /\ Numbers(Units(m), S)
      /\ WorthOf(m, S) = SumOf(Worths(m), S) /\ QuantityOf(m, S) = SumOf(Units(m), S)
      /\ \A j \in S : Worths(m)[j] = m[j].quantity * m[j].cost /\ Units(m)[j] = m[j].quantity
  BY WorthIsSum, QuantityIsSum
<1>3. /\ Numbers(Worths(u), T) /\ Numbers(Units(u), T)
      /\ WorthOf(u, T) = SumOf(Worths(u), T) /\ QuantityOf(u, T) = SumOf(Units(u), T)
      /\ \A j \in T : Worths(u)[j] = u[j].quantity * u[j].cost /\ Units(u)[j] = u[j].quantity
  BY <1>1, WorthIsSum, QuantityIsSum
<1>4. WorthOf(u, S) = SumOf(Worths(u), S) /\ QuantityOf(u, S) = SumOf(Units(u), S)
  BY <1>1, WorthIsSum, QuantityIsSum
<1>5. \A j \in S : Worths(m)[j] = Worths(u)[j] /\ Units(m)[j] = Units(u)[j]
  <2>1. \A j \in S : j \in T /\ u[j] = m[j]
    BY DEF Adding
  <2>. QED BY <1>2, <1>3, <2>1
<1>6. Worths(u)[i] = row.quantity * row.cost /\ Units(u)[i] = row.quantity
  BY <1>3 DEF Adding
<1>7. SumOf(Worths(u), T) = SumOf(Worths(m), S) + Worths(u)[i]
  BY <1>1, <1>2, <1>3, <1>5, SumOfAdded
<1>8. SumOf(Units(u), T) = SumOf(Units(m), S) + Units(u)[i]
  BY <1>1, <1>2, <1>3, <1>5, SumOfAdded
<1>9. Cardinality(T) = Cardinality(S) + 1
  BY <1>1, <1>2, FS_AddElement
<1>10. SumOf(Worths(m), S) = SumOf(Worths(u), S) /\ SumOf(Units(m), S) = SumOf(Units(u), S)
  <2>1. SumOf(Worths(m), S) = SumOf(Worths(u), S)
    BY <1>2, <1>5, SumOfSame
  <2>2. SumOf(Units(m), S) = SumOf(Units(u), S)
    BY <1>2, <1>5, SumOfSame
  <2>. QED BY <2>1, <2>2
<1>. QED BY <1>2, <1>3, <1>4, <1>6, <1>7, <1>8, <1>9, <1>10

-----------------------------------------------------------------------------
(* The average cost *)

\* What is worth W after N movements is worth it at average a, up to rounding.
Near(T, a, W, N) == 2 * Distance(W, T * a) <= N * MaxStock

\* Math.round() is off by at most a half.
LEMMA RoundedNear ==
    ASSUME NEW n \in Nat, NEW d \in Nat, d > 0, NEW r, r = Rounded(n, d)
    PROVE  /\ r \in Nat
           /\ 2 * n <= 2 * (d * r) + d /\ 2 * (d * r) <= 2 * n + d
<1>1. PICK a \in Nat, e \in Nat : a = 2 * n + d /\ e = 2 * d /\ e > 0
  OBVIOUS
<1>2. r = a \div e
  BY <1>1 DEF Rounded
<1>3. r \in Nat /\ e * r <= a /\ a < e * r + e
  BY <1>1, <1>2
<1>4. e * r = 2 * (d * r)
  BY <1>1, <1>3
<1>. QED BY <1>1, <1>3, <1>4

\* An entry with a cost of its own: the average of all there is and of what comes
LEMMA NearAfterEntry ==
    ASSUME NEW T \in Nat, NEW a \in Nat, NEW W \in Int, NEW N \in Nat, Near(T, a, W, N),
           NEW q \in Nat, q > 0, NEW c \in Nat, T + q <= MaxStock,
           NEW b, b = Rounded(T * a + q * c, T + q)
    PROVE  b \in Nat /\ Near(T + q, b, W + q * c, N + 1)
<1>1. PICK n \in Nat, d \in Nat, X \in Nat, Y \in Nat :
          X = T * a /\ Y = q * c /\ n = X + Y /\ d = T + q /\ d > 0
  <2>1. T * a \in Nat /\ q * c \in Nat
    OBVIOUS
  <2>. QED BY <2>1
<1>2. b \in Nat /\ 2 * n <= 2 * (d * b) + d /\ 2 * (d * b) <= 2 * n + d
  BY <1>1, RoundedNear
<1>3. PICK Z \in Nat : Z = d * b
  BY <1>1, <1>2
<1>4. MaxStock \in Nat /\ d <= MaxStock
  BY <1>1, StockAssumption
<1>5. PICK M \in Nat : M = N * MaxStock /\ (N + 1) * MaxStock = M + MaxStock
  BY <1>4
<1>6. 2 * Distance(W, X) <= M
  BY <1>1, <1>5 DEF Near
<1>7. 2 * Distance(W + Y, Z) <= M + MaxStock
  BY <1>1, <1>2, <1>3, <1>4, <1>6 DEF Distance
<1>. QED BY <1>1, <1>2, <1>3, <1>5, <1>7 DEF Near

\* What comes or goes at the average leaves it as it is.
LEMMA NearAfterMove ==
    ASSUME NEW T \in Nat, NEW a \in Nat, NEW W \in Int, NEW N \in Nat, Near(T, a, W, N),
           NEW q \in Int
    PROVE  Near(T + q, a, W + q * a, N + 1)
<1>1. PICK X \in Int, Y \in Int, Z \in Int : X = T * a /\ Y = q * a /\ Z = (T + q) * a
  OBVIOUS
<1>2. Z = X + Y
  BY <1>1
<1>3. MaxStock \in Nat
  BY StockAssumption
<1>4. PICK M \in Nat : M = N * MaxStock /\ (N + 1) * MaxStock = M + MaxStock
  BY <1>3
<1>5. 2 * Distance(W, X) <= M
  BY <1>1, <1>4 DEF Near
<1>6. 2 * Distance(W + Y, Z) <= M + MaxStock
  BY <1>2, <1>3, <1>5 DEF Distance
<1>. QED BY <1>1, <1>4, <1>6 DEF Near

-----------------------------------------------------------------------------
(* The books of the stock *)

\* For each product: there is no more of it than MaxStock, and its average cost
\* is what its movements say of it.
NearCost(b, a, m) ==
    \A p \in Products :
        /\ TotalOf(b, p) <= MaxStock
        /\ Near(TotalOf(b, p), a[p], WorthOf(m, OfProduct(m, p)), Cardinality(OfProduct(m, p)))

CostsInv ==
    /\ StockInv
    /\ MovementTable(movement)
    /\ average \in [Products -> Nat]
    /\ NearCost(balance, average, movement)

LEMMA NearCostIs ==
    ASSUME NearCost(balance, average, movement)
    PROVE  WorthIsCost
  BY DEF NearCost, Near, WorthIsCost, Worth, WorthOf, MovementsOf, OfProduct, Total, TotalOf

\* One row more for a product: the others stay as they are, and it is near its
\* new average if that average says so.
LEMMA NearOne ==
    ASSUME NEW m, MovementTable(m), NEW n, NEW i, NEW row \in MovementRows, Adding(m, n, i, row),
           NEW b \in [Places -> Nat], NEW u \in [Places -> Nat],
           NEW a \in [Products -> Nat], NEW c \in [Products -> Nat], NearCost(b, a, m),
           NEW place \in Places, NEW quantity \in Int, NEW x, x = place[1],
           row.place = place, row.quantity = quantity, u[place] = b[place] + quantity,
           \A y \in Places : y # place => u[y] = b[y],
           \A p \in Products : p # x => c[p] = a[p],
           TotalOf(b, x) + quantity <= MaxStock,
           Near(TotalOf(b, x) + quantity, c[x], WorthOf(m, OfProduct(m, x)) + quantity * row.cost,
                Cardinality(OfProduct(m, x)) + 1)
    PROVE  NearCost(u, c, n)
<1>1. ASSUME NEW p \in Products
      PROVE  TotalOf(u, p) = TotalOf(b, p) + (IF place[1] = p THEN quantity ELSE 0)
  BY TotalMoves, ZenonT(30)
<1>2. ASSUME NEW p \in Products
      PROVE  /\ TotalOf(u, p) <= MaxStock
             /\ Near(TotalOf(u, p), c[p], WorthOf(n, OfProduct(n, p)), Cardinality(OfProduct(n, p)))
  <2>1. PICK S, U, V : S = OfProduct(m, p) /\ U = OfProduct(n, p) /\ V = S \cup {i}
    OBVIOUS
  <2>2. S \in SUBSET DOMAIN m /\ i \notin S
    BY <2>1 DEF OfProduct, Adding
  <2>3. /\ WorthOf(n, V) = WorthOf(m, S) + quantity * row.cost /\ Cardinality(V) = Cardinality(S) + 1
        /\ WorthOf(n, S) = WorthOf(m, S)
    BY <2>1, <2>2, PartGrows
  <2>4. CASE p = x
    <3>1. U = V
      BY <2>1, <2>4 DEF OfProduct, Adding
    <3>2. TotalOf(u, p) = TotalOf(b, p) + quantity
      BY <1>1, <2>4
    <3>. QED BY <2>1, <2>3, <2>4, <3>1, <3>2
  <2>5. CASE p # x
    <3>1. U = S
      BY <2>1, <2>5 DEF OfProduct, Adding
    <3>2. TotalOf(u, p) = TotalOf(b, p) /\ c[p] = a[p]
      <4>1. TotalOf(b, p) \in Nat
        BY TotalIsSum
      <4>. QED BY <1>1, <2>5, <4>1
    <3>. QED BY <2>1, <2>3, <3>1, <3>2 DEF NearCost
  <2>. QED BY <2>4, <2>5
<1>. QED BY <1>2 DEF NearCost

\* One movement, of those that move() books
LEMMA MovedCosts ==
    ASSUME CostsInv, NEW i \in Ids, NEW type \in Entries \cup Exits \cup {"ADJUSTMENT"},
           NEW place \in Places, NEW quantity \in Int, NEW given \in RefTo(Nat),
           NEW o \in RefTo(Orders), NEW original \in RefTo(Ids),
           Moved(i, type, place, quantity, given, o, original), Room(place[1], quantity)
    PROVE  /\ MovementTable(movement') /\ average' \in [Products -> Nat]
           /\ NearCost(balance', average', movement')
           /\ \E row \in MovementRows :
                 /\ Adding(movement, movement', i, row)
                 /\ row.of = o /\ row.quantity = quantity
                 /\ quantity > 0 /\ type \in CostEntries /\ given # NoRow => row.cost = given
<1>1. PICK x, T, cost : x = place[1] /\ T = TotalOf(balance, x) /\ cost = CostOf(x, type, quantity, given)
  OBVIOUS
<1>2. /\ x \in Products /\ balance \in [Places -> Nat] /\ T \in Nat
      /\ average \in [Products -> Nat] /\ average[x] \in Nat
      /\ MovementTable(movement) /\ NearCost(balance, average, movement)
  <2>1. x \in Products /\ balance \in [Places -> Nat]
    BY <1>1 DEF Places, CostsInv, StockInv, Shelved
  <2>. QED BY <1>1, <2>1, TotalIsSum DEF CostsInv
<1>3. cost \in Nat
  BY <1>1, <1>2 DEF CostOf, RefTo
<1>4. PICK row : row = Line(type, place, quantity, cost, o, original)
  OBVIOUS
<1>5. /\ row \in MovementRows /\ row.place = place /\ row.quantity = quantity
      /\ row.cost = cost /\ row.of = o
  BY <1>3, <1>4 DEF Line, MovementRows
<1>6. Adding(movement, movement', i, row)
  BY <1>1, <1>4 DEF Moved, Free, Booked, Adding
<1>7. MovementTable(movement')
  BY <1>2, <1>5, <1>6, AddingTyped
<1>8. PICK now : now = average'[x]
  OBVIOUS
<1>9. /\ balance' \in [Places -> Nat] /\ balance'[place] = balance[place] + quantity
      /\ \A a \in Places : a # place => balance'[a] = balance[a]
  <2>1. balance[place] + quantity \in Nat /\ balance' = [balance EXCEPT ![place] = @ + quantity]
    BY <1>2 DEF Moved, Enough
  <2>. QED BY <1>2, <2>1
<1>10. TotalOf(balance', x) = T + quantity
  <2>1. TotalOf(balance', x) = TotalOf(balance, x) + (IF place[1] = x THEN quantity ELSE 0)
    BY <1>2, <1>9, TotalMoves
  <2>. QED BY <1>1, <2>1
<1>11. T + quantity \in Nat /\ T + quantity <= MaxStock
  <2>1. TotalOf(balance', x) \in Nat
    BY <1>2, <1>9, TotalIsSum
  <2>2. T + quantity <= MaxStock
    BY <1>1 DEF Room, Total, TotalOf
  <2>. QED BY <1>1, <1>2, <1>10, <2>1, <2>2
<1>12. PICK W, N : /\ W = WorthOf(movement, OfProduct(movement, x))
                   /\ N = Cardinality(OfProduct(movement, x))
  OBVIOUS
<1>13. W \in Int /\ N \in Nat /\ Near(T, average[x], W, N)
  <2>1. OfProduct(movement, x) \in SUBSET DOMAIN movement
    BY DEF OfProduct
  <2>2. IsFiniteSet(OfProduct(movement, x)) /\ W \in Int
    BY <1>2, <1>12, <2>1, WorthIsSum
  <2>3. N \in Nat
    BY <1>12, <2>2, FS_CardinalityType
  <2>. QED BY <1>1, <1>2, <1>12, <2>2, <2>3 DEF NearCost
<1>14. /\ now \in Nat /\ Near(T + quantity, now, W + quantity * cost, N + 1)
       /\ average' = [average EXCEPT ![x] = now]
  <2>1. CASE BringsCost(type, quantity)
    <3>1. quantity > 0 /\ quantity \in Nat
      BY <2>1 DEF BringsCost
    <3>2. average' = [average EXCEPT ![x] = Weighted(place, quantity, cost)]
      BY <1>1, <2>1 DEF Moved
    <3>3. now = Rounded(T * average[x] + quantity * cost, T + quantity)
      BY <1>1, <1>2, <1>8, <3>2 DEF Weighted, Total, TotalOf
    <3>4. now \in Nat /\ Near(T + quantity, now, W + quantity * cost, N + 1)
      BY <1>2, <1>3, <1>11, <1>13, <3>1, <3>3, NearAfterEntry
    <3>. QED BY <1>2, <1>8, <3>2, <3>4
  <2>2. CASE ~BringsCost(type, quantity)
    <3>1. average' = average /\ cost = average[x] /\ now = average[x]
      BY <1>1, <1>8, <2>2 DEF Moved, CostOf
    <3>2. Near(T + quantity, now, W + quantity * cost, N + 1)
      BY <1>2, <1>13, <3>1, NearAfterMove
    <3>. QED BY <1>2, <3>1, <3>2
  <2>. QED BY <2>1, <2>2
<1>15. NearCost(balance', average', movement')
  <2>1. average' \in [Products -> Nat] /\ average'[x] = now
        /\ \A p \in Products : p # x => average'[p] = average[p]
    BY <1>2, <1>14
  <2>2. /\ TotalOf(balance, x) + quantity <= MaxStock
        /\ Near(TotalOf(balance, x) + quantity, average'[x],
                WorthOf(movement, OfProduct(movement, x)) + quantity * row.cost,
                Cardinality(OfProduct(movement, x)) + 1)
    BY <1>1, <1>5, <1>11, <1>12, <1>14, <2>1
  <2>. QED BY <1>1, <1>2, <1>5, <1>6, <1>9, <2>1, <2>2, NearOne
<1>16. quantity > 0 /\ type \in CostEntries /\ given # NoRow => row.cost = given
  BY <1>1, <1>5 DEF CostOf, BringsCost
<1>. QED BY <1>2, <1>5, <1>6, <1>7, <1>14, <1>15, <1>16 DEF NearCost

\* A way out and a way in of product p, of one quantity and at the average: the
\* movements are m and the balances b between them.
Carried(p, m, b, out, in, lout, lin) ==
    /\ Adding(movement, m, out, lout) /\ Adding(m, movement', in, lin)
    /\ lout \in MovementRows /\ lin \in MovementRows
    /\ lout.of = NoRow /\ lin.of = NoRow
    /\ lout.place[1] = p /\ lin.place[1] = p
    /\ lout.cost = average[p] /\ lin.cost = average[p]
    /\ lout.quantity + lin.quantity = 0 /\ lout.quantity <= 0
    /\ b \in [Places -> Nat] /\ balance' \in [Places -> Nat]
    /\ b[lout.place] = balance[lout.place] + lout.quantity
    /\ \A z \in Places : z # lout.place => b[z] = balance[z]
    /\ balance'[lin.place] = b[lin.place] + lin.quantity
    /\ \A z \in Places : z # lin.place => balance'[z] = b[z]

\* A transfer is two lines, one after the other: the average stays as it is.
LEMMA TransferLines ==
    ASSUME CostsInv, NEW k \in Keys, NEW p \in Products,
           NEW from \in Locations, NEW to \in Locations, Transfer(k, p, from, to)
    PROVE  \E m, b, out, in, lout, lin : Carried(p, m, b, out, in, lout, lin)
<1> DEFINE out == <<k, "out">>
           in == <<k, "in">>
           x == <<p, from>>
           y == <<p, to>>
<1>2. PICK q \in Quantities :
        /\ from # to
        /\ Free(out) /\ Free(in)
        /\ Enough(x, -q)
        /\ balance' = [balance EXCEPT ![x] = @ - q, ![y] = @ + q]
        /\ movement' = [i \in DOMAIN movement \cup {out, in} |->
               CASE i = out -> Line("TRANSFER_OUT", x, -q, average[p], NoRow, NoRow)
                 [] i = in -> Line("TRANSFER_IN", y, q, average[p], NoRow, NoRow)
                 [] OTHER -> movement[i]]
  BY DEF Transfer
<1>3. /\ out \in Ids /\ in \in Ids /\ out # in
      /\ x \in Places /\ y \in Places /\ x # y /\ x[1] = p /\ y[1] = p
  BY <1>2 DEF Ids, Places
<1> HIDE DEF out, in, x, y
<1>4. q \in Nat /\ q > 0 /\ balance \in [Places -> Nat] /\ average[p] \in Nat
  BY StockAssumption DEF CostsInv, StockInv, Shelved
<1>5. PICK lout, lin : /\ lout = Line("TRANSFER_OUT", x, -q, average[p], NoRow, NoRow)
                       /\ lin = Line("TRANSFER_IN", y, q, average[p], NoRow, NoRow)
  OBVIOUS
<1>6. /\ lout \in MovementRows /\ lin \in MovementRows
      /\ lout.of = NoRow /\ lin.of = NoRow /\ lout.place = x /\ lin.place = y
      /\ lout.cost = average[p] /\ lin.cost = average[p]
      /\ lout.quantity = -q /\ lin.quantity = q
  BY <1>3, <1>4, <1>5 DEF Line, MovementRows, Entries, CostEntries, Exits, RefTo
<1>7. PICK m : m = [i \in DOMAIN movement \cup {out} |-> IF i = out THEN lout ELSE movement[i]]
  OBVIOUS
<1>8. Adding(movement, m, out, lout) /\ Adding(m, movement', in, lin)
  <2>1. out \notin DOMAIN movement /\ in \notin DOMAIN movement
    BY <1>2 DEF Free
  <2>2. movement' = [i \in DOMAIN movement \cup {out, in} |->
               CASE i = out -> lout [] i = in -> lin [] OTHER -> movement[i]]
    BY <1>2, <1>5
  <2>. QED BY <1>3, <1>7, <2>1, <2>2 DEF Adding
<1>9. PICK b : b = [balance EXCEPT ![x] = @ - q]
  OBVIOUS
<1>10. balance[x] \in Nat /\ balance[x] - q \in Nat /\ balance[y] \in Nat
  BY <1>2, <1>3, <1>4 DEF Enough
<1>11. /\ b \in [Places -> Nat] /\ b[x] = balance[x] - q
       /\ \A z \in Places : z # x => b[z] = balance[z]
  BY <1>3, <1>4, <1>9, <1>10
<1>12. /\ balance' \in [Places -> Nat] /\ balance'[y] = b[y] + q
       /\ \A z \in Places : z # y => balance'[z] = b[z]
  BY <1>2, <1>3, <1>4, <1>10, <1>11
<1>13. balance[x] - q = balance[x] + (-q) /\ -q + q = 0 /\ -q <= 0
  BY <1>4, <1>10
<1>14. Carried(p, m, b, out, in, lout, lin)
  BY <1>3, <1>6, <1>8, <1>11, <1>12, <1>13 DEF Carried
<1>. QED BY <1>14

\* transfer() leaves what there is of the product, and its average cost.
LEMMA TransferCosts ==
    ASSUME CostsInv, NEW k \in Keys, NEW p \in Products,
           NEW from \in Locations, NEW to \in Locations, Transfer(k, p, from, to)
    PROVE  MovementTable(movement') /\ NearCost(balance', average, movement')
<1>0. PICK m, b, out, in, lout, lin : Carried(p, m, b, out, in, lout, lin)
  BY TransferLines
<1>1. /\ Adding(movement, m, out, lout) /\ Adding(m, movement', in, lin)
      /\ lout \in MovementRows /\ lin \in MovementRows
      /\ lout.of = NoRow /\ lin.of = NoRow
      /\ lout.place[1] = p /\ lin.place[1] = p
      /\ lout.cost = average[p] /\ lin.cost = average[p]
      /\ lout.quantity + lin.quantity = 0 /\ lout.quantity <= 0
      /\ b \in [Places -> Nat] /\ balance' \in [Places -> Nat]
      /\ b[lout.place] = balance[lout.place] + lout.quantity
      /\ \A z \in Places : z # lout.place => b[z] = balance[z]
      /\ balance'[lin.place] = b[lin.place] + lin.quantity
      /\ \A z \in Places : z # lin.place => balance'[z] = b[z]
  BY <1>0 DEF Carried
<1>2. /\ MovementTable(movement) /\ NearCost(balance, average, movement)
      /\ average \in [Products -> Nat] /\ average[p] \in Nat /\ balance \in [Places -> Nat]
  BY DEF CostsInv, StockInv, Shelved
<1>3. PICK x, y, q, r : x = lout.place /\ y = lin.place /\ q = lout.quantity /\ r = lin.quantity
  OBVIOUS
<1>4. x \in Places /\ y \in Places /\ q \in Int /\ r \in Int /\ q + r = 0 /\ q <= 0
  BY <1>1, <1>3 DEF MovementRows
<1>5. MovementTable(m) /\ MovementTable(movement')
  <2>1. MovementTable(m)
    BY <1>1, <1>2, AddingTyped
  <2>. QED BY <1>1, <2>1, AddingTyped
<1>6. TotalOf(balance, p) \in Nat /\ TotalOf(b, p) \in Nat /\ TotalOf(b, p) = TotalOf(balance, p) + q
  <2>1. TotalOf(balance, p) \in Nat /\ TotalOf(b, p) \in Nat
    BY <1>1, <1>2, TotalIsSum
  <2>2. b[x] = balance[x] + q /\ \A z \in Places : z # x => b[z] = balance[z]
    BY <1>1, <1>3
  <2>3. TotalOf(b, p) = TotalOf(balance, p) + (IF x[1] = p THEN q ELSE 0)
    BY <1>1, <1>2, <1>4, <2>2, TotalMoves
  <2>. QED BY <1>1, <1>3, <2>1, <2>3
<1>7. NearCost(b, average, m)
  <2>1. /\ WorthOf(movement, OfProduct(movement, p)) \in Int
        /\ Cardinality(OfProduct(movement, p)) \in Nat
    BY <1>2, WorthIsSum, FS_CardinalityType DEF OfProduct
  <2>2. /\ TotalOf(balance, p) <= MaxStock
        /\ Near(TotalOf(balance, p), average[p], WorthOf(movement, OfProduct(movement, p)),
                Cardinality(OfProduct(movement, p)))
    BY <1>2 DEF NearCost
  <2>3. TotalOf(balance, p) + q <= MaxStock
    BY <1>4, <1>6, <2>2, StockAssumption
  <2>4. Near(TotalOf(balance, p) + q, average[p],
             WorthOf(movement, OfProduct(movement, p)) + q * average[p],
             Cardinality(OfProduct(movement, p)) + 1)
    BY <1>2, <1>4, <1>6, <2>1, <2>2, NearAfterMove
  <2>. QED BY <1>1, <1>2, <1>3, <1>4, <2>3, <2>4, NearOne
<1>8. NearCost(balance', average, movement')
  <2>1. /\ WorthOf(m, OfProduct(m, p)) \in Int
        /\ Cardinality(OfProduct(m, p)) \in Nat
    BY <1>5, WorthIsSum, FS_CardinalityType DEF OfProduct
  <2>2. /\ Near(TotalOf(b, p), average[p], WorthOf(m, OfProduct(m, p)),
                Cardinality(OfProduct(m, p)))
    BY <1>7 DEF NearCost
  <2>3. TotalOf(b, p) + r <= MaxStock
    <3>1. TotalOf(balance, p) <= MaxStock
      BY <1>2 DEF NearCost
    <3>. QED BY <1>4, <1>6, <3>1
  <2>4. Near(TotalOf(b, p) + r, average[p], WorthOf(m, OfProduct(m, p)) + r * average[p],
             Cardinality(OfProduct(m, p)) + 1)
    BY <1>2, <1>4, <1>6, <2>1, <2>2, NearAfterMove
  <2>. QED BY <1>1, <1>2, <1>3, <1>4, <1>5, <1>7, <2>3, <2>4, NearOne
<1>. QED BY <1>5, <1>8

-----------------------------------------------------------------------------
(* The entries of purchase orders *)

LEMMA NothingIsNothing ==
    ASSUME NEW m, MovementTable(m)
    PROVE  WorthOf(m, {}) = 0 /\ QuantityOf(m, {}) = 0
<1>1. {} \in SUBSET DOMAIN m
  OBVIOUS
<1>2. WorthOf(m, {}) = SumOf(Worths(m), {}) /\ QuantityOf(m, {}) = SumOf(Units(m), {})
  BY <1>1, WorthIsSum, QuantityIsSum
<1>. QED BY <1>2, SumOfNone

\* An order that is there has what entered for it, and one that is not has nothing.
EntriesTrue(m, r) ==
    \A o \in Orders :
        IF r[o] = NoRow THEN OfOrder(m, o) = {}
        ELSE /\ WorthOf(m, OfOrder(m, o)) <= r[o].billed
             /\ QuantityOf(m, OfOrder(m, o)) <= r[o].received

OrderTables == [Orders -> RefTo(OrderRows)]

\* What was received on an order and billed for it is never less afterwards.
OrdersGrow(r, s) ==
    \A o \in Orders : r[o] # NoRow =>
        s[o] # NoRow /\ r[o].billed <= s[o].billed /\ r[o].received <= s[o].received

\* A row of an order is billed and counted on it.
Due(row, r, s) ==
    \A o \in Orders : row.of = o =>
        /\ r[o] # NoRow
        /\ r[o].billed + row.quantity * row.cost <= s[o].billed
        /\ r[o].received + row.quantity <= s[o].received

LEMMA EntriesStay ==
    ASSUME NEW m, MovementTable(m), NEW r \in OrderTables, NEW s \in OrderTables,
           OrdersGrow(r, s), EntriesTrue(m, r)
    PROVE  EntriesTrue(m, s)
<1>1. ASSUME NEW o \in Orders, s[o] # NoRow
      PROVE  WorthOf(m, OfOrder(m, o)) <= s[o].billed /\ QuantityOf(m, OfOrder(m, o)) <= s[o].received
  <2>1. s[o].billed \in Nat /\ s[o].received \in Nat
    BY <1>1 DEF OrderTables, RefTo, OrderRows
  <2>2. CASE r[o] = NoRow
    <3>1. OfOrder(m, o) = {}
      BY <2>2 DEF EntriesTrue
    <3>. QED BY <2>1, <3>1, NothingIsNothing
  <2>3. CASE r[o] # NoRow
    <3>1. /\ r[o].billed \in Nat /\ r[o].received \in Nat
          /\ r[o].billed <= s[o].billed /\ r[o].received <= s[o].received
          /\ WorthOf(m, OfOrder(m, o)) <= r[o].billed
          /\ QuantityOf(m, OfOrder(m, o)) <= r[o].received
      BY <2>3 DEF OrderTables, RefTo, OrderRows, OrdersGrow, EntriesTrue
    <3>2. WorthOf(m, OfOrder(m, o)) \in Int /\ QuantityOf(m, OfOrder(m, o)) \in Int
      BY WorthIsSum, QuantityIsSum DEF OfOrder
    <3>. QED BY <2>1, <3>1, <3>2
  <2>. QED BY <2>2, <2>3
<1>2. ASSUME NEW o \in Orders, s[o] = NoRow PROVE OfOrder(m, o) = {}
  BY <1>2 DEF OrdersGrow, EntriesTrue
<1>. QED BY <1>1, <1>2 DEF EntriesTrue

LEMMA EntriesAdded ==
    ASSUME NEW m, MovementTable(m), NEW n, NEW i, NEW row \in MovementRows, Adding(m, n, i, row),
           NEW r \in OrderTables, NEW s \in OrderTables,
           OrdersGrow(r, s), Due(row, r, s), EntriesTrue(m, r)
    PROVE  EntriesTrue(n, s)
<1>1. EntriesTrue(m, s)
  BY EntriesStay
<1>2. ASSUME NEW o \in Orders
      PROVE  IF s[o] = NoRow THEN OfOrder(n, o) = {}
             ELSE WorthOf(n, OfOrder(n, o)) <= s[o].billed /\ QuantityOf(n, OfOrder(n, o)) <= s[o].received
  <2>1. PICK S, U, V : S = OfOrder(m, o) /\ U = OfOrder(n, o) /\ V = S \cup {i}
    OBVIOUS
  <2>2. S \in SUBSET DOMAIN m
    BY <2>1 DEF OfOrder
  <2>3. /\ WorthOf(n, V) = WorthOf(m, S) + row.quantity * row.cost
        /\ QuantityOf(n, V) = QuantityOf(m, S) + row.quantity
        /\ WorthOf(n, S) = WorthOf(m, S) /\ QuantityOf(n, S) = QuantityOf(m, S)
    BY <2>1, <2>2, PartGrows
  <2> WorthOf(m, S) \in Int /\ QuantityOf(m, S) \in Int
    BY <2>2, WorthIsSum, QuantityIsSum
  <2>4. CASE row.of = o
    <3>1. U = V
      BY <2>1, <2>4 DEF OfOrder, Adding
    <3>2. /\ r[o] # NoRow /\ s[o] # NoRow
          /\ r[o].billed + row.quantity * row.cost <= s[o].billed
          /\ r[o].received + row.quantity <= s[o].received
      BY <2>4 DEF Due, OrdersGrow
    <3>3. /\ r[o].billed \in Nat /\ r[o].received \in Nat
          /\ s[o].billed \in Nat /\ s[o].received \in Nat
          /\ WorthOf(m, S) <= r[o].billed /\ QuantityOf(m, S) <= r[o].received
      BY <2>1, <3>2 DEF OrderTables, RefTo, OrderRows, EntriesTrue
    <3>4. PICK a \in Int, b \in Int : a = row.quantity * row.cost /\ b = row.quantity
      <4>1. row.quantity \in Int /\ row.cost \in Int
        BY DEF MovementRows
      <4>. QED BY <4>1
    <3>5. WorthOf(m, S) + a <= s[o].billed /\ QuantityOf(m, S) + b <= s[o].received
      BY <2>3, <3>2, <3>3, <3>4
    <3>. QED BY <2>1, <2>3, <3>1, <3>2, <3>4, <3>5
  <2>5. CASE row.of # o
    <3>1. U = S
      BY <2>1, <2>5 DEF OfOrder, Adding
    <3>. QED BY <1>1, <2>1, <2>3, <3>1 DEF EntriesTrue
  <2>. QED BY <2>4, <2>5
<1>. QED BY <1>2 DEF EntriesTrue

-----------------------------------------------------------------------------
(* What the handlers do to the books *)

\* What the theorems on costs and orders say of the tables
Books ==
    /\ MovementTable(movement)
    /\ average \in [Products -> Nat]
    /\ NearCost(balance, average, movement)
    /\ EntriesTrue(movement, order)

Reading == seen \in [Workers -> RefTo(Copies)]

BooksInv == StockInv /\ Books /\ Reading

\* Nothing moves, and no order loses what was received on it.
LEMMA QuietBooks ==
    ASSUME BooksInv, StockInv', UNCHANGED <<balance, average, movement>>, OrdersGrow(order, order')
    PROVE  Books'
<1>1. PICK r, s : r = order /\ s = order'
  OBVIOUS
<1>2. r \in OrderTables /\ s \in OrderTables
  BY <1>1 DEF BooksInv, StockInv, Papers, OrderTables
<1>3. EntriesTrue(movement, s)
  BY <1>1, <1>2, EntriesStay DEF BooksInv, Books
<1>. QED BY <1>1, <1>3 DEF BooksInv, Books

\* The orders stay as they are.
LEMMA SameOrders ==
    ASSUME StockInv, UNCHANGED order
    PROVE  OrdersGrow(order, order')
  BY DEF OrdersGrow, StockInv, Papers, RefTo, OrderRows

\* move() books one row, and if it is of an order it is billed on it.
LEMMA MovedBooks ==
    ASSUME BooksInv, StockInv',
           NEW i \in Ids, NEW type \in Entries \cup Exits \cup {"ADJUSTMENT"},
           NEW place \in Places, NEW quantity \in Int, NEW given \in RefTo(Nat),
           NEW o \in RefTo(Orders), NEW original \in RefTo(Ids),
           Moved(i, type, place, quantity, given, o, original), Room(place[1], quantity),
           OrdersGrow(order, order'),
           o \in Orders =>
               /\ quantity > 0 /\ type \in CostEntries /\ given # NoRow
               /\ order[o] # NoRow
               /\ order[o].billed + quantity * given <= order'[o].billed
               /\ order[o].received + quantity <= order'[o].received
    PROVE  Books'
<1>1. PICK r, s : r = order /\ s = order'
  OBVIOUS
<1>2. r \in OrderTables /\ s \in OrderTables
  BY <1>1 DEF BooksInv, StockInv, Papers, OrderTables
<1>3. CostsInv
  BY DEF BooksInv, Books, CostsInv
<1>4. /\ MovementTable(movement') /\ average' \in [Products -> Nat]
      /\ NearCost(balance', average', movement')
  BY <1>3, MovedCosts
<1>5. PICK row \in MovementRows :
         /\ Adding(movement, movement', i, row)
         /\ row.of = o /\ row.quantity = quantity
         /\ quantity > 0 /\ type \in CostEntries /\ given # NoRow => row.cost = given
  BY <1>3, MovedCosts
<1>6. Due(row, r, s)
  BY <1>1, <1>5 DEF Due
<1>7. EntriesTrue(movement', s)
  BY <1>1, <1>2, <1>5, <1>6, EntriesAdded DEF BooksInv, Books
<1>. QED BY <1>1, <1>4, <1>7 DEF Books

\* transfer() books two rows of no order.
LEMMA TransferBooks ==
    ASSUME BooksInv, NEW k \in Keys, NEW p \in Products,
           NEW from \in Locations, NEW to \in Locations, Transfer(k, p, from, to)
    PROVE  Books'
<1>1. CostsInv
  BY DEF BooksInv, Books, CostsInv
<1>2. UNCHANGED <<average, order>>
  BY DEF Transfer
<1>3. MovementTable(movement') /\ NearCost(balance', average, movement')
  BY <1>1, TransferCosts
<1>4. PICK m, b, out, in, lout, lin : Carried(p, m, b, out, in, lout, lin)
  BY <1>1, TransferLines
<1>5. /\ Adding(movement, m, out, lout) /\ Adding(m, movement', in, lin)
      /\ lout \in MovementRows /\ lin \in MovementRows
      /\ lout.of = NoRow /\ lin.of = NoRow
  BY <1>4 DEF Carried
<1>6. order \in OrderTables /\ OrdersGrow(order, order)
  BY DEF BooksInv, StockInv, Papers, OrderTables, OrdersGrow, RefTo, OrderRows
<1>7. Due(lout, order, order) /\ Due(lin, order, order)
  BY <1>5, StockRowAssumption DEF Due
<1>8. MovementTable(m) /\ EntriesTrue(m, order)
  BY <1>5, <1>6, <1>7, EntriesAdded, AddingTyped DEF BooksInv, Books
<1>9. EntriesTrue(movement', order)
  BY <1>5, <1>6, <1>7, <1>8, EntriesAdded
<1>. QED BY <1>2, <1>3, <1>9 DEF BooksInv, Books

\* What a transaction has read of a movement, an order or a count is a row of it.
LEMMA ReadRow ==
    ASSUME Reading, NEW w \in Workers, seen[w] # NoRow
    PROVE  /\ seen[w] \in Copies
           /\ seen[w].id \in Ids => seen[w].row \in MovementRows
           /\ seen[w].id \in Orders => seen[w].row \in OrderRows
           /\ seen[w].id \in Counts => seen[w].row \in CountRows /\ seen[w].balance \in Nat
<1>1. seen[w] \in Copies
  BY DEF Reading, RefTo
<1>. QED BY <1>1, StockRowAssumption DEF Copies

LEMMA DoneReads == ASSUME Reading, NEW w \in Workers, Done(w) PROVE Reading'
  BY DEF Reading, Done, RefTo

LEMMA HoldReads ==
    ASSUME Reading, NEW w \in Workers, NEW i, NEW row, NEW b, NEW keys, Hold(w, i, row, b, keys),
           [id |-> i, row |-> row, balance |-> b, fresh |-> keys] \in Copies
    PROVE  Reading'
<1>1. PICK copy : copy = [id |-> i, row |-> row, balance |-> b, fresh |-> keys]
  OBVIOUS
<1>2. seen' = [seen EXCEPT ![w] = copy] /\ copy \in Copies
  BY <1>1 DEF Hold
<1>. QED BY <1>2 DEF Reading, RefTo

\* What is read is a row as it is in its table.
LEMMA LoadReads ==
    ASSUME BooksInv, NEW w \in Workers, LoadStep(w)
    PROVE  Reading' /\ UNCHANGED <<balance, average, movement, order>>
<1>0. Reading /\ StockInv /\ MovementTable(movement)
  BY DEF BooksInv, Books
<1>1. CASE \E i \in DOMAIN movement : LoadMovement(w, i)
  <2>1. PICK i \in DOMAIN movement : LoadMovement(w, i)
    BY <1>1
  <2>2. PICK row : row = movement[i]
    OBVIOUS
  <2>3. row \in MovementRows /\ i \in Ids /\ Hold(w, i, row, NoRow, {})
    BY <1>0, <2>1, <2>2 DEF LoadMovement, MovementTable
  <2>4. [id |-> i, row |-> row, balance |-> NoRow, fresh |-> {}] \in Copies
    BY <2>3 DEF Copies
  <2>. QED BY <1>0, <2>3, <2>4, HoldReads DEF Hold
<1>2. CASE \E o \in Orders : LoadOrder(w, o)
  <2>1. PICK o \in Orders : LoadOrder(w, o)
    BY <1>2
  <2>2. PICK row, keys : row = order[o] /\ keys = {k \in Keys : Free(<<k, o>>)}
    OBVIOUS
  <2>3. row \in OrderRows /\ Hold(w, o, row, NoRow, keys)
    BY <1>0, <2>1, <2>2 DEF LoadOrder, StockInv, Papers, RefTo
  <2>4. keys \in SUBSET Keys
    BY <2>2
  <2>5. [id |-> o, row |-> row, balance |-> NoRow, fresh |-> keys] \in Copies
    BY <2>3, <2>4 DEF Copies
  <2>. QED BY <1>0, <2>3, <2>5, HoldReads DEF Hold
<1>3. CASE \E c \in Counts : LoadCount(w, c)
  <2>1. PICK c \in Counts : LoadCount(w, c)
    BY <1>3
  <2>2. PICK row, b : row = count[c] /\ b = balance[row.place]
    OBVIOUS
  <2>3. row \in CountRows /\ Hold(w, c, row, b, {})
    BY <1>0, <2>1, <2>2 DEF LoadCount, StockInv, Papers, RefTo
  <2>4. b \in Nat
    BY <1>0, <2>2, <2>3 DEF CountRows, StockInv, Shelved
  <2>5. [id |-> c, row |-> row, balance |-> b, fresh |-> {}] \in Copies
    BY <2>3, <2>4 DEF Copies
  <2>. QED BY <1>0, <2>3, <2>5, HoldReads DEF Hold
<1>4. CASE \E l \in Locations : LoadLocation(w, l)
  <2>1. PICK l \in Locations : LoadLocation(w, l)
    BY <1>4
  <2>2. Hold(w, l, NoRow, NoRow, {})
    BY <2>1 DEF LoadLocation
  <2>3. [id |-> l, row |-> NoRow, balance |-> NoRow, fresh |-> {}] \in Copies
    BY DEF Copies
  <2>. QED BY <1>0, <2>2, <2>3, HoldReads DEF Hold
<1>5. CASE LookAgain(w)
  <2>1. /\ UNCHANGED <<balance, average, movement, order>>
        /\ seen[w] # NoRow /\ seen[w].id \in Counts
        /\ seen' = [seen EXCEPT ![w].balance = balance[seen[w].row.place]]
    BY <1>5 DEF LookAgain, Holds
  <2>2. PICK b : b = balance[seen[w].row.place]
    OBVIOUS
  <2>3. seen[w] \in Copies /\ seen[w].row \in CountRows
    BY <1>0, <2>1, ReadRow
  <2>4. b \in Nat
    BY <1>0, <2>2, <2>3 DEF CountRows, StockInv, Shelved
  <2>5. seen[w] \in [id : Counts, row : CountRows, balance : Nat, fresh : {{}}]
    BY <2>1, <2>3, StockRowAssumption DEF Copies
  <2>6. [seen[w] EXCEPT !.balance = b] \in Copies
    BY <2>4, <2>5 DEF Copies
  <2>. QED BY <1>0, <2>1, <2>2, <2>6 DEF Reading, RefTo
<1>6. CASE Abandon(w)
  BY <1>0, <1>6, DoneReads DEF Abandon
<1>. QED BY <1>1, <1>2, <1>3, <1>4, <1>5, <1>6 DEF LoadStep

\* What move() books of a client's own
LEMMA MoveBooks ==
    ASSUME BooksInv, StockInv', NEW k \in Keys, NEW type \in Types, NEW place \in Places,
           NEW cost \in RefTo(Costs), Move(k, type, place, cost)
    PROVE  Books'
<1>1. PICK q \in Quantities : \E quantity \in Signed(type, q) :
        /\ Room(place[1], quantity)
        /\ Moved(<<k, "move">>, type, place, quantity, cost, NoRow, NoRow)
        /\ UNCHANGED <<order, count, seen>>
  BY DEF Move
<1>2. PICK quantity \in Signed(type, q) :
        /\ Room(place[1], quantity)
        /\ Moved(<<k, "move">>, type, place, quantity, cost, NoRow, NoRow)
        /\ UNCHANGED <<order, count, seen>>
  BY <1>1
<1>3. PICK i : i = <<k, "move">>
  OBVIOUS
<1>4. /\ quantity \in Int /\ i \in Ids /\ NoRow \notin Orders
      /\ type \in Entries \cup Exits \cup {"ADJUSTMENT"}
      /\ cost \in RefTo(Nat) /\ NoRow \in RefTo(Orders) /\ NoRow \in RefTo(Ids)
  BY <1>3, StockAssumption, StockRowAssumption DEF Signed, Ids, Entries, CostEntries, RefTo
<1>. QED BY <1>2, <1>3, <1>4, MovedBooks, SameOrders DEF BooksInv

LEMMA ReverseBooks ==
    ASSUME BooksInv, StockInv', NEW w \in Workers, NEW k \in Keys, Reverse(w, k)
    PROVE  Books' /\ Reading'
<1>1. PICK i, place, quantity, given, original :
        /\ i = <<k, "move">> /\ place = seen[w].row.place /\ quantity = -seen[w].row.quantity
        /\ given = seen[w].row.cost /\ original = seen[w].id
  OBVIOUS
<1>2. /\ seen[w] # NoRow /\ original \in Ids
      /\ Room(place[1], quantity)
      /\ Moved(i, "ADJUSTMENT", place, quantity, given, NoRow, original)
      /\ Done(w) /\ UNCHANGED order
  BY <1>1 DEF Reverse, Holds
<1>3. seen[w].row \in MovementRows /\ Reading
  BY <1>1, <1>2, ReadRow DEF BooksInv
<1>4. /\ quantity \in Int /\ i \in Ids /\ place \in Places /\ NoRow \notin Orders
      /\ given \in RefTo(Nat) /\ NoRow \in RefTo(Orders) /\ original \in RefTo(Ids)
  BY <1>1, <1>2, <1>3, StockRowAssumption DEF MovementRows, Ids, RefTo
<1>. QED BY <1>2, <1>3, <1>4, MovedBooks, SameOrders, DoneReads DEF BooksInv

\* A count books the difference at the average.
LEMMA CountBooks ==
    ASSUME BooksInv, StockInv', NEW w \in Workers, CountStep(w)
    PROVE  Books' /\ Reading'
<1>0. Reading /\ StockInv
  BY DEF BooksInv
<1>1. CASE \E c \in Counts, p \in Products : OpenCount(w, c, p)
  BY <1>0, <1>1, DoneReads, QuietBooks, SameOrders DEF OpenCount
<1>2. CASE \E q \in Counted : Tally(w, q)
  BY <1>0, <1>2, DoneReads, QuietBooks, SameOrders DEF Tally
<1>3. CASE ApplyCount(w)
  <2>1. PICK i, place, quantity :
          /\ i = <<seen[w].id, "count">> /\ place = seen[w].row.place
          /\ quantity = seen[w].row.counted - seen[w].balance
    OBVIOUS
  <2>2. /\ seen[w] # NoRow /\ seen[w].id \in Counts
        /\ \/ /\ seen[w].row.counted # NoRow /\ Room(place[1], quantity)
              /\ Moved(i, "ADJUSTMENT", place, quantity, NoRow, NoRow, NoRow)
           \/ Stayed
        /\ Done(w) /\ UNCHANGED order
    BY <1>3, <2>1 DEF ApplyCount, Holds, CloseCount
  <2>3. ASSUME seen[w].row.counted # NoRow, Room(place[1], quantity),
               Moved(i, "ADJUSTMENT", place, quantity, NoRow, NoRow, NoRow)
        PROVE  Books'
    <3>1. seen[w].row \in CountRows /\ seen[w].balance \in Nat
      BY <1>0, <2>2, ReadRow
    <3>2. /\ quantity \in Int /\ i \in Ids /\ place \in Places /\ NoRow \notin Orders
          /\ NoRow \in RefTo(Nat) /\ NoRow \in RefTo(Orders) /\ NoRow \in RefTo(Ids)
      BY <2>1, <2>2, <2>3, <3>1, StockRowAssumption DEF CountRows, Ids, RefTo
    <3>. QED BY <1>0, <2>2, <2>3, <3>2, MovedBooks, SameOrders
  <2>. QED BY <1>0, <2>2, <2>3, DoneReads, QuietBooks, SameOrders DEF Stayed
<1>4. CASE CancelCount(w)
  BY <1>0, <1>4, DoneReads, QuietBooks, SameOrders DEF CancelCount, CloseCount, Stayed
<1>. QED BY <1>1, <1>2, <1>3, <1>4 DEF CountStep

LEMMA MoveOrderBooks ==
    ASSUME BooksInv, StockInv', NEW w \in Workers, NEW from, NEW to \in OrderStatuses,
           MoveOrder(w, from, to)
    PROVE  Books' /\ Reading'
<1>1. /\ seen[w] # NoRow /\ seen[w].id \in Orders
      /\ order' = [order EXCEPT ![seen[w].id].status = to]
      /\ Done(w) /\ UNCHANGED <<balance, average, movement, count>>
  BY DEF MoveOrder, Holds
<1>2. PICK o : o = seen[w].id
  OBVIOUS
<1>3. order \in OrderTables /\ order[o] \in OrderRows
  BY <1>1, <1>2 DEF BooksInv, StockInv, Papers, Kept, RefTo, OrderTables
<1>4. PICK row : row = [order[o] EXCEPT !.status = to]
  OBVIOUS
<1>5. /\ row \in OrderRows
      /\ row.billed = order[o].billed /\ row.received = order[o].received
  BY <1>3, <1>4 DEF OrderRows
<1>6. OrdersGrow(order, order')
  <2>1. order' = [order EXCEPT ![o] = row]
    BY <1>1, <1>2, <1>4
  <2>. QED BY <1>3, <1>5, <2>1, StockRowAssumption DEF OrdersGrow, OrderTables, RefTo, OrderRows
<1>. QED BY <1>1, <1>6, QuietBooks, DoneReads DEF BooksInv

\* receive() bills what it books, and bills once more what was booked before.
LEMMA ReceiveBooks ==
    ASSUME BooksInv, StockInv', NEW w \in Workers, NEW k \in Keys, NEW l \in Locations,
           NEW q \in Quantities, NEW cost \in Costs, Receive(w, k, l, q, cost)
    PROVE  Books' /\ Reading'
<1>0. Reading /\ StockInv
  BY DEF BooksInv
<1>1. PICK o, i, place : o = seen[w].id /\ i = <<k, o>> /\ place = <<seen[w].row.product, l>>
  OBVIOUS
<1>2. /\ seen[w] # NoRow /\ o \in Orders
      /\ \/ /\ Room(seen[w].row.product, q)
            /\ Moved(i, "PURCHASE_IN", place, q, cost, o, NoRow)
         \/ Stayed
      /\ order' = [order EXCEPT ![o] = Arrived(o, q, cost)]
      /\ Done(w)
  BY <1>1 DEF Receive, Holds
<1>3. order \in OrderTables /\ order[o] \in OrderRows /\ order[o] # NoRow
  BY <1>0, <1>1, <1>2 DEF StockInv, Papers, Kept, RefTo, OrderTables
<1>4. q \in Nat /\ q > 0 /\ cost \in Nat /\ cost # NoRow
  BY StockAssumption, StockRowAssumption
<1>5. PICK row \in OrderRows : /\ row = Arrived(o, q, cost)
                               /\ row.billed = order[o].billed + q * cost
                               /\ row.received = order[o].received + q
  BY <1>2, <1>3, <1>4, ArrivedRow
<1>6. order' = [order EXCEPT ![o] = row] /\ order'[o] = row
  BY <1>2, <1>3, <1>5 DEF OrderTables
<1>7. OrdersGrow(order, order')
  <2>1. /\ order[o].billed \in Nat /\ order[o].received \in Nat
        /\ order[o].billed <= row.billed /\ order[o].received <= row.received
    <3>1. q * cost \in Nat
      BY <1>4
    <3>2. order[o].billed \in Nat /\ order[o].received \in Nat
      BY <1>3 DEF OrderRows
    <3>. QED BY <1>4, <1>5, <3>1, <3>2
  <2>2. \A x \in Orders : x # o => order'[x] = order[x]
    BY <1>3, <1>6 DEF OrderTables
  <2>3. \A x \in Orders : order[x] # NoRow => order[x].billed \in Nat /\ order[x].received \in Nat
    BY <1>3 DEF OrderTables, RefTo, OrderRows
  <2>. QED BY <1>5, <1>6, <2>1, <2>2, <2>3, StockRowAssumption DEF OrdersGrow
<1>8. ASSUME Room(seen[w].row.product, q), Moved(i, "PURCHASE_IN", place, q, cost, o, NoRow)
      PROVE  Books'
  <2>1. seen[w].row \in OrderRows
    BY <1>0, <1>1, <1>2, ReadRow
  <2>2. /\ place \in Places /\ place[1] = seen[w].row.product /\ i \in Ids /\ q \in Int
        /\ "PURCHASE_IN" \in CostEntries /\ "PURCHASE_IN" \in Entries \cup Exits \cup {"ADJUSTMENT"}
        /\ cost \in RefTo(Nat) /\ o \in RefTo(Orders) /\ NoRow \in RefTo(Ids)
    BY <1>1, <1>2, <1>4, <2>1 DEF Places, OrderRows, Ids, CostEntries, Entries, RefTo
  <2>3. /\ order[o].billed + q * cost <= order'[o].billed
        /\ order[o].received + q <= order'[o].received
    <3>1. row.billed \in Nat /\ row.received \in Nat
      BY DEF OrderRows
    <3>. QED BY <1>5, <1>6, <3>1
  <2>4. Room(place[1], q)
    BY <1>8, <2>2
  <2>. QED BY <1>2, <1>3, <1>4, <1>7, <1>8, <2>2, <2>3, <2>4, MovedBooks
<1>. QED BY <1>0, <1>2, <1>7, <1>8, QuietBooks, DoneReads DEF Stayed

\* Every step keeps the books and what has been read.
LEMMA NextBooks ==
    ASSUME BooksInv, [Next]_vars
    PROVE  BooksInv'
<1>1. StockInv'
  BY NextStock, StockAssumption DEF BooksInv
<1>2. StockInv /\ Reading
  BY DEF BooksInv
<1> SUFFICES Books' /\ Reading'
  BY <1>1 DEF BooksInv
<1>3. CASE MoveStep
  <2>1. UNCHANGED seen => Reading'
    BY <1>2 DEF Reading
  <2>2. ASSUME NEW k \in Keys, NEW type \in Types, NEW place \in Places,
               NEW cost \in RefTo(Costs), Move(k, type, place, cost)
        PROVE  Books' /\ UNCHANGED seen
    <3>1. UNCHANGED seen
      BY <2>2, ZenonT(30) DEF Move
    <3>. QED BY <1>1, <2>2, <3>1, MoveBooks
  <2>3. ASSUME NEW k \in Keys, NEW p \in Products, NEW from \in Locations, NEW to \in Locations,
               Transfer(k, p, from, to)
        PROVE  Books' /\ UNCHANGED seen
    <3>1. UNCHANGED seen
      BY <2>3, ZenonT(30) DEF Transfer
    <3>. QED BY <2>3, <3>1, TransferBooks
  <2>. QED BY <1>3, <2>1, <2>2, <2>3 DEF MoveStep
<1>4. CASE \E o \in Orders, p \in Products, q \in Ordered : CreatePurchase(o, p, q)
  <2>1. PICK o \in Orders, p \in Products, q \in Ordered : CreatePurchase(o, p, q)
    BY <1>4
  <2>2. PICK row : order' = [order EXCEPT ![o] = row]
    BY <2>1 DEF CreatePurchase
  <2>3. order[o] = NoRow /\ UNCHANGED <<balance, average, movement, seen>>
    BY <2>1 DEF CreatePurchase
  <2>4. order \in OrderTables
    BY <1>2 DEF StockInv, Papers, OrderTables
  <2>5. OrdersGrow(order, order')
    BY <2>2, <2>3, <2>4 DEF OrdersGrow, OrderTables, RefTo, OrderRows
  <2>6. Reading'
    BY <1>2, <2>3 DEF Reading
  <2>. QED BY <1>1, <2>3, <2>5, <2>6, QuietBooks
<1>5. ASSUME NEW w \in Workers, LoadStep(w) PROVE Books' /\ Reading'
  BY <1>1, <1>2, <1>5, LoadReads, QuietBooks, SameOrders
<1>6. ASSUME NEW w \in Workers, NEW k \in Keys, Reverse(w, k) PROVE Books' /\ Reading'
  BY <1>1, <1>6, ReverseBooks
<1>7. ASSUME NEW w \in Workers, CountStep(w) PROVE Books' /\ Reading'
  BY <1>1, <1>7, CountBooks
<1>8. ASSUME NEW w \in Workers, OrderStep(w) PROVE Books' /\ Reading'
  <2>1. CASE SubmitPurchase(w)
    BY <1>1, <2>1, MoveOrderBooks DEF SubmitPurchase, OrderStatuses
  <2>2. CASE ApprovePurchase(w)
    BY <1>1, <2>2, MoveOrderBooks DEF ApprovePurchase, OrderStatuses
  <2>3. CASE CancelPurchase(w)
    BY <1>1, <2>3, MoveOrderBooks DEF CancelPurchase, OrderStatuses
  <2>4. CASE \E k \in Keys, l \in Locations, q \in Quantities, cost \in Costs :
                 Receive(w, k, l, q, cost)
    BY <1>1, <2>4, ReceiveBooks
  <2>. QED BY <1>8, <2>1, <2>2, <2>3, <2>4 DEF OrderStep
<1>9. CASE UNCHANGED vars
  BY <1>1, <1>2, <1>9, QuietBooks, SameOrders DEF vars, Reading
<1>. QED BY <1>3, <1>4, <1>5, <1>6, <1>7, <1>8, <1>9 DEF Next

\* There is nothing in stock, at no cost, and nothing has entered.
LEMMA InitBooks == ASSUME Init PROVE BooksInv
<1>1. StockInv
  BY InitStock
<1>2. DOMAIN movement = {}
  BY DEF Init
<1>3. MovementTable(movement)
  BY <1>2, FS_EmptySet DEF MovementTable
<1>4. ASSUME NEW p \in Products
      PROVE  /\ TotalOf(balance, p) <= MaxStock
             /\ Near(TotalOf(balance, p), average[p], WorthOf(movement, OfProduct(movement, p)),
                     Cardinality(OfProduct(movement, p)))
  <2>1. /\ balance \in [Places -> Nat]
        /\ \A l \in Locations : Shelf(balance, p)[l] = 0
    BY DEF Init, Shelf, Places
  <2>2. TotalOf(balance, p) = SumOf(Shelf(balance, p), Locations) /\ Numbers(Shelf(balance, p), Locations)
    BY <2>1, TotalIsSum
  <2>3. SumOf(Shelf(balance, p), Locations) = 0
    BY <2>1, StockAssumption, SumOfZeros
  <2>4. OfProduct(movement, p) = {}
    BY <1>2 DEF OfProduct
  <2>5. WorthOf(movement, {}) = 0 /\ Cardinality({}) = 0
    BY <1>3, NothingIsNothing, FS_EmptySet
  <2>6. average[p] = 0 /\ MaxStock \in Nat
    BY StockAssumption DEF Init
  <2>7. Near(0, 0, 0, 0)
    BY <2>6 DEF Near, Distance
  <2>. QED BY <2>2, <2>3, <2>4, <2>5, <2>6, <2>7
<1>5. NearCost(balance, average, movement)
  BY <1>4 DEF NearCost
<1>6. EntriesTrue(movement, order)
  BY <1>2 DEF Init, EntriesTrue, OfOrder
<1>. QED BY <1>1, <1>3, <1>5, <1>6 DEF Init, BooksInv, Books, Reading, RefTo

-----------------------------------------------------------------------------
(* The theorems *)

\* No balance is ever below zero, and every movement is under a key of its own.
THEOREM BalancesStand == Spec => []Shelved
<1>1. Init => StockInv
  BY InitStock
<1>2. StockInv /\ [Next]_vars => StockInv'
  BY NextStock, StockAssumption
<1>3. StockInv => Shelved
  BY DEF StockInv
<1>. QED BY <1>1, <1>2, <1>3, PTL DEF Spec

\* Stock implements Shelves: for any number of transactions that act upon what
\* they read earlier, each movement is written once and moves its own balance.
THEOREM StockKeepsTheShelves == Spec => KeepsTheShelves
<1>1. Init => StockInv /\ ShelvesOf!Init
  BY InitStock DEF Init, ShelvesOf!Init
<1>2. StockInv /\ [Next]_vars => StockInv'
  BY NextStock, StockAssumption
<1> DEFINE slip == [i \in Ids |-> IF i \in DOMAIN movement
                                  THEN [place |-> movement[i].place,
                                        moved |-> movement[i].quantity]
                                  ELSE NoRow]
<1>3. StockInv /\ [Next]_vars => [ShelvesOf!Next]_<<balance, slip>>
  <2>1. UNCHANGED <<balance, movement>> => UNCHANGED <<balance, slip>>
    OBVIOUS
  <2>. QED BY <2>1, NextStock, StockAssumption DEF ShelfStep
<1>. QED BY <1>1, <1>2, <1>3, PTL DEF Spec, KeepsTheShelves, ShelvesOf!Spec

\* Every row of the stock has its columns, and every transaction has read a row:
\* no balance, cost, quantity received or amount billed is ever below zero.
THEOREM StockIsTyped == Spec => []StockTypeOK
<1>1. Init => BooksInv
  BY InitBooks
<1>2. BooksInv /\ [Next]_vars => BooksInv'
  BY NextBooks
<1>3. BooksInv => StockTypeOK
  BY DEF BooksInv, StockInv, Shelved, Papers, Books, Reading, MovementTable, StockTypeOK
<1>. QED BY <1>1, <1>2, <1>3, PTL DEF Spec

\* move() under its lock keeps the average cost: whatever counts, reversals,
\* receipts and transfers interleave, over any number of locations, what there
\* is of a product is worth at its average what its movements brought and took,
\* up to half a unit of cost for each movement and each of the MaxStock units.
THEOREM CostsAreKept == Spec => []WorthIsCost
<1>1. Init => BooksInv
  BY InitBooks
<1>2. BooksInv /\ [Next]_vars => BooksInv'
  BY NextBooks
<1>3. BooksInv => WorthIsCost
  BY NearCostIs DEF BooksInv, Books
<1>. QED BY <1>1, <1>2, <1>3, PTL DEF Spec

\* What entered the stock for a purchase order was counted on the order and
\* billed by its supplier, however many transactions receive it at once.
THEOREM ReceiptsAreBilled == Spec => []EntriesAreBilled
<1>1. Init => BooksInv
  BY InitBooks
<1>2. BooksInv /\ [Next]_vars => BooksInv'
  BY NextBooks
<1>3. BooksInv => EntriesAreBilled
  BY DEF BooksInv, Books, EntriesTrue, EntriesAreBilled, EntriesOf, OfOrder, Worth, WorthOf, QuantityOf
<1>. QED BY <1>1, <1>2, <1>3, PTL DEF Spec

=============================================================================
