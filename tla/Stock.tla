-------------------------------- MODULE Stock -------------------------------
(***************************************************************************)
(* StockService and the counts and purchases of InventoryService.          *)
(*                                                                         *)
(* move() locks the product before it reads the average cost and the       *)
(* balances, and holds the lock to the end of its transaction, so a move   *)
(* or a transfer is one step here: the key that it looked up earlier is    *)
(* checked again by the unique index when the row is written.  The         *)
(* handlers around it are not locked: a reversal, a count and an order are *)
(* read first (the Load actions) and acted upon later, with what was read, *)
(* while others commit.  Abandon is an error answer.                       *)
(*                                                                         *)
(* A count and an order have one item.  Quantities are units, costs are    *)
(* integers; the work orders that take parts are not checked here.         *)
(***************************************************************************)
EXTENDS Integers, FiniteSetsExt

CONSTANTS Products,   \* inventory_products
          Locations,  \* inventory_locations
          Keys,       \* idempotency keys that clients send
          Orders,     \* purchase_orders
          Counts,     \* inventory_counts
          Workers,    \* transactions that may be in flight at once
          Types,      \* types of movement that a client may ask for
          Quantities, \* quantities that a client may ask for
          Ordered,    \* quantities that an order may be for
          Counted,    \* quantities that a count may find
          Costs,      \* unit costs that a client may give
          MaxStock,   \* bound on what there may be of a product
          NoRow       \* null

CostEntries == {"PURCHASE_IN", "MANUAL_IN"}
Entries == CostEntries \cup {"RETURN_IN", "TRANSFER_IN"}
Exits == {"MAINTENANCE_OUT", "VEHICLE_OUT", "DRIVER_OUT", "TRANSFER_OUT", "LOSS"}

ASSUME StockAssumption ==
    /\ Quantities \cup Ordered \subseteq Nat \ {0}
    /\ Costs \cup Counted \subseteq Nat
    /\ MaxStock \in Nat
    /\ IsFiniteSet(Locations)
    /\ Types \subseteq {"MANUAL_IN", "RETURN_IN", "ADJUSTMENT"} \cup (Exits \ {"TRANSFER_OUT"})

VARIABLES balance,  \* stock_balances: a missing row is a balance of 0
          average,  \* averageCost of the products
          movement, \* inventory_movements, each under its idempotency key
          order,    \* purchase_orders with their item and what was billed for it
          count,    \* inventory_counts with their item
          seen      \* what each transaction in flight has read

vars == <<balance, average, movement, order, count, seen>>

Places == Products \X Locations

\* The keys that reach the table: a client's own, those that transfer() and
\* receive() make of it, and the one of each count.
Ids == (Keys \X ({"move", "out", "in"} \cup Orders)) \cup (Counts \X {"count"})

RefTo(S) == S \cup {NoRow}

MovementRows == [type : Entries \cup Exits \cup {"ADJUSTMENT"}, place : Places, quantity : Int,
                 cost : Nat, of : RefTo(Orders), reverses : RefTo(Ids)]
OrderStatuses == {"DRAFT", "PENDING_APPROVAL", "APPROVED", "PARTIALLY_RECEIVED",
                  "RECEIVED", "CANCELLED"}
OrderRows == [status : OrderStatuses, product : Products, quantity : Nat,
              received : Nat, billed : Nat]
CountRows == [status : {"OPEN", "APPLIED", "CANCELLED"}, place : Places, counted : RefTo(Nat)]
Copies ==
    [id : Ids, row : MovementRows, balance : {NoRow}, fresh : {{}}]
    \cup [id : Orders, row : OrderRows, balance : {NoRow}, fresh : SUBSET Keys]
    \cup [id : Counts, row : CountRows, balance : Nat, fresh : {{}}]
    \cup [id : Locations, row : {NoRow}, balance : {NoRow}, fresh : {{}}]

ASSUME StockRowAssumption ==
    /\ Ids \cap (Orders \cup Counts) = {} /\ Orders \cap Counts = {}
    /\ Locations \cap (Ids \cup Orders \cup Counts) = {}
    /\ NoRow \notin Orders
    /\ NoRow \notin [place : Places, moved : Int] \cup OrderRows \cup CountRows \cup Copies \cup Nat

-----------------------------------------------------------------------------
(* move(), and the weighted average cost *)

Total(p) == MapThenSumSet(LAMBDA l : balance[<<p, l>>], Locations)

\* Math.round
Rounded(n, d) == (2 * n + d) \div (2 * d)

\* Mutant of Weighted: what other locations have of the product is forgotten.
WeightedHere(place, quantity, cost) ==
    Rounded(balance[place] * average[place[1]] + quantity * cost, balance[place] + quantity)

\* weightedAverageCost: the average of all there is and of what comes
Weighted(place, quantity, cost) ==
    LET p == place[1] IN
    Rounded(Total(p) * average[p] + quantity * cost, Total(p) + quantity)

\* Entries that bring a cost.  RETURN_IN and TRANSFER_IN, and the adjustment
\* that no cost was given for, come at the average and leave it as it is.
BringsCost(type, quantity) == quantity > 0 /\ type \in CostEntries \cup {"ADJUSTMENT"}

\* What a movement is booked at: its own cost, or the average
CostOf(p, type, quantity, cost) ==
    IF BringsCost(type, quantity) /\ cost # NoRow THEN cost ELSE average[p]

\* Mutant of Enough: an exit that is not conditional on the balance.
EnoughOrNot(place, quantity) == TRUE

\* UPDATE ... WHERE "quantity" >= amount, and the CHECK of the table
Enough(place, quantity) == balance[place] + quantity >= 0

\* Mutant of Free: the table without its unique key.
FreeOrNot(i) == TRUE

\* inventory_movements_organizationId_idempotencyKey_key
Free(i) == i \notin DOMAIN movement

Line(type, place, quantity, cost, o, original) ==
    [type |-> type, place |-> place, quantity |-> quantity, cost |-> cost,
     of |-> o, reverses |-> original]

Booked(i, line) == [j \in DOMAIN movement \cup {i} |-> IF j = i THEN line ELSE movement[j]]

\* move(): the balance, the average cost and the row
Moved(i, type, place, quantity, given, o, original) ==
    LET p == place[1]
        cost == CostOf(p, type, quantity, given) IN
    /\ Free(i)
    /\ Enough(place, quantity)
    /\ balance' = [balance EXCEPT ![place] = @ + quantity]
    /\ average' = IF BringsCost(type, quantity)
                  THEN [average EXCEPT ![p] = Weighted(place, quantity, cost)]
                  ELSE average
    /\ movement' = Booked(i, Line(type, place, quantity, cost, o, original))

\* A movement of that key is there already: move() returns it.
Stayed == UNCHANGED <<balance, average, movement>>

Room(p, quantity) == Total(p) + quantity <= MaxStock

-----------------------------------------------------------------------------
(* Transactions *)

Hold(w, i, row, b, keys) ==
    /\ seen[w] = NoRow
    /\ seen' = [seen EXCEPT ![w] = [id |-> i, row |-> row, balance |-> b, fresh |-> keys]]
    /\ UNCHANGED <<balance, average, movement, order, count>>

Done(w) == seen' = [seen EXCEPT ![w] = NoRow]

Holds(w, S) == seen[w] # NoRow /\ seen[w].id \in S

Reversed(i) == \E j \in DOMAIN movement : movement[j].reverses = i

\* reverse(): the movement is there, is not a reversal or part of a transfer,
\* and has not been reversed.
LoadMovement(w, i) ==
    /\ movement[i].reverses = NoRow
    /\ movement[i].type \notin {"TRANSFER_IN", "TRANSFER_OUT"}
    /\ ~Reversed(i)
    /\ Hold(w, i, movement[i], NoRow, {})

\* receive(): the replay finds no movement of the order under these keys.
LoadOrder(w, o) ==
    /\ order[o] # NoRow
    /\ Hold(w, o, order[o], NoRow, {k \in Keys : Free(<<k, o>>)})

LoadCount(w, c) ==
    /\ count[c] # NoRow
    /\ Hold(w, c, count[c], balance[count[c].place], {})

\* openCount(): no count of the location is open.
LoadLocation(w, l) ==
    /\ \A c \in Counts : count[c] # NoRow /\ count[c].place[2] = l => count[c].status # "OPEN"
    /\ Hold(w, l, NoRow, NoRow, {})

\* The balance is read after the count.
LookAgain(w) ==
    /\ Holds(w, Counts)
    /\ seen' = [seen EXCEPT ![w].balance = balance[seen[w].row.place]]
    /\ UNCHANGED <<balance, average, movement, order, count>>

Abandon(w) ==
    /\ seen[w] # NoRow
    /\ Done(w)
    /\ UNCHANGED <<balance, average, movement, order, count>>

-----------------------------------------------------------------------------
(* Movements *)

\* Positive, and with a sign if it is an adjustment
Signed(type, q) == IF type \in Exits THEN {-q} ELSE IF type \in Entries THEN {q} ELSE {q, -q}

\* move() asked for by a client, or by an item of a work order
Move(k, type, place, cost) ==
    \E q \in Quantities : \E quantity \in Signed(type, q) :
        /\ Free(<<k, "move">>)
        /\ type \in CostEntries => cost # NoRow
        /\ Room(place[1], quantity)
        /\ Moved(<<k, "move">>, type, place, quantity, cost, NoRow, NoRow)
        /\ UNCHANGED <<order, count, seen>>

\* transfer(): the way out and the way in, of one transaction
Transfer(k, p, from, to) ==
    \E q \in Quantities :
        /\ from # to
        /\ Free(<<k, "out">>) /\ Free(<<k, "in">>)
        /\ Enough(<<p, from>>, -q)
        /\ balance' = [balance EXCEPT ![<<p, from>>] = @ - q, ![<<p, to>>] = @ + q]
        /\ movement' = [i \in DOMAIN movement \cup {<<k, "out">>, <<k, "in">>} |->
               CASE i = <<k, "out">> ->
                        Line("TRANSFER_OUT", <<p, from>>, -q, average[p], NoRow, NoRow)
                 [] i = <<k, "in">> ->
                        Line("TRANSFER_IN", <<p, to>>, q, average[p], NoRow, NoRow)
                 [] OTHER -> movement[i]]
        /\ UNCHANGED <<average, order, count, seen>>

\* reverse(): what left comes back at the cost it left at; what came leaves
\* at the average.
Reverse(w, k) ==
    LET c == seen[w] IN
    /\ Holds(w, Ids)
    /\ Room(c.row.place[1], -c.row.quantity)
    /\ Moved(<<k, "move">>, "ADJUSTMENT", c.row.place, -c.row.quantity, c.row.cost, NoRow, c.id)
    /\ Done(w)
    /\ UNCHANGED <<order, count>>

-----------------------------------------------------------------------------
(* Counts *)

OpenCount(w, c, p) ==
    /\ Holds(w, Locations)
    /\ count[c] = NoRow
    /\ count' = [count EXCEPT ![c] =
           [status |-> "OPEN", place |-> <<p, seen[w].id>>, counted |-> NoRow]]
    /\ Done(w)
    /\ UNCHANGED <<balance, average, movement, order>>

\* updateCount
Tally(w, q) ==
    /\ Holds(w, Counts)
    /\ seen[w].row.status = "OPEN"
    /\ count' = [count EXCEPT ![seen[w].id].counted = q]
    /\ Done(w)
    /\ UNCHANGED <<balance, average, movement, order>>

CloseCount(w, status) ==
    /\ seen[w].row.status = "OPEN"
    /\ count' = [count EXCEPT ![seen[w].id].status = status]
    /\ Done(w)
    /\ UNCHANGED order

\* applyCount(): the difference to the balance becomes an adjustment.
ApplyCount(w) ==
    LET c == seen[w]
        i == <<c.id, "count">>
        diff == c.row.counted - c.balance IN
    /\ Holds(w, Counts)
    /\ \/ /\ c.row.counted \notin {NoRow, c.balance} /\ Room(c.row.place[1], diff)
          /\ Moved(i, "ADJUSTMENT", c.row.place, diff, NoRow, NoRow, NoRow)
       \/ /\ c.row.counted \in {NoRow, c.balance} \/ ~Free(i)
          /\ Stayed
    /\ CloseCount(w, "APPLIED")

CancelCount(w) ==
    /\ Holds(w, Counts)
    /\ CloseCount(w, "CANCELLED")
    /\ Stayed

-----------------------------------------------------------------------------
(* Purchases *)

CreatePurchase(o, p, q) ==
    /\ order[o] = NoRow
    /\ order' = [order EXCEPT ![o] =
           [status |-> "DRAFT", product |-> p, quantity |-> q, received |-> 0, billed |-> 0]]
    /\ UNCHANGED <<balance, average, movement, count, seen>>

\* submitPurchase, approvePurchase and cancelPurchase write a status on the
\* order they have read.
MoveOrder(w, from, to) ==
    /\ Holds(w, Orders)
    /\ seen[w].row.status \in from
    /\ order' = [order EXCEPT ![seen[w].id].status = to]
    /\ Done(w)
    /\ UNCHANGED <<balance, average, movement, count>>

SubmitPurchase(w) == MoveOrder(w, {"DRAFT"}, "PENDING_APPROVAL")
ApprovePurchase(w) == MoveOrder(w, {"DRAFT", "PENDING_APPROVAL"}, "APPROVED")
CancelPurchase(w) ==
    /\ Holds(w, Orders) /\ seen[w].row.received = 0
    /\ MoveOrder(w, OrderStatuses \ {"RECEIVED", "CANCELLED"}, "CANCELLED")

\* Mutant of Arrived: only the receipt that completes the order is billed.
ArrivedWhenComplete(o, quantity, cost) ==
    LET row == order[o]
        received == row.received + quantity IN
    IF received >= row.quantity
    THEN [row EXCEPT !.received = received, !.billed = @ + quantity * cost, !.status = "RECEIVED"]
    ELSE [row EXCEPT !.received = received, !.status = "PARTIALLY_RECEIVED"]

\* What is received counts against the order as it was read, and is added to
\* the order as it is.
Arrived(o, quantity, cost) ==
    LET row == order[o]
        received == row.received + quantity IN
    [row EXCEPT !.received = received, !.billed = @ + quantity * cost,
                !.status = IF received >= row.quantity THEN "RECEIVED" ELSE "PARTIALLY_RECEIVED"]

\* receive(): a key that was fresh when the order was read may have been used
\* by now; move() then returns its movement and the rest goes on.
Receive(w, k, l, q, cost) ==
    LET c == seen[w]
        i == <<k, c.id>>
        place == <<c.row.product, l>> IN
    /\ Holds(w, Orders)
    /\ c.row.status \in {"APPROVED", "PARTIALLY_RECEIVED"}
    /\ k \in c.fresh
    /\ q <= c.row.quantity - c.row.received
    /\ \/ /\ Free(i) /\ Room(c.row.product, q)
          /\ Moved(i, "PURCHASE_IN", place, q, cost, c.id, NoRow)
       \/ /\ ~Free(i) /\ movement[i].quantity = q /\ movement[i].cost = cost
          /\ Stayed
    /\ order' = [order EXCEPT ![c.id] = Arrived(c.id, q, cost)]
    /\ Done(w)
    /\ UNCHANGED count

-----------------------------------------------------------------------------
Init ==
    /\ balance = [a \in Places |-> 0]
    /\ average = [p \in Products |-> 0]
    /\ movement = [i \in {} |-> NoRow]
    /\ order = [o \in Orders |-> NoRow]
    /\ count = [c \in Counts |-> NoRow]
    /\ seen = [w \in Workers |-> NoRow]

LoadStep(w) ==
    \/ \E i \in DOMAIN movement : LoadMovement(w, i)
    \/ \E o \in Orders : LoadOrder(w, o)
    \/ \E c \in Counts : LoadCount(w, c)
    \/ \E l \in Locations : LoadLocation(w, l)
    \/ LookAgain(w)
    \/ Abandon(w)

CountStep(w) ==
    \/ \E c \in Counts, p \in Products : OpenCount(w, c, p)
    \/ \E q \in Counted : Tally(w, q)
    \/ ApplyCount(w)
    \/ CancelCount(w)

OrderStep(w) ==
    \/ SubmitPurchase(w)
    \/ ApprovePurchase(w)
    \/ CancelPurchase(w)
    \/ \E k \in Keys, l \in Locations, q \in Quantities, cost \in Costs : Receive(w, k, l, q, cost)

MoveStep ==
    \/ \E k \in Keys, type \in Types, place \in Places, cost \in RefTo(Costs) :
           Move(k, type, place, cost)
    \/ \E k \in Keys, p \in Products, from, to \in Locations : Transfer(k, p, from, to)

Next ==
    \/ MoveStep
    \/ \E o \in Orders, p \in Products, q \in Ordered : CreatePurchase(o, p, q)
    \/ \E w \in Workers : \/ LoadStep(w)
                          \/ \E k \in Keys : Reverse(w, k)
                          \/ CountStep(w)
                          \/ OrderStep(w)

Spec == Init /\ [][Next]_vars

-----------------------------------------------------------------------------
(* Properties *)

\* Every row has its columns, and no balance is below zero: an exit and a
\* transfer take what is there when they are written, in move().
StockTypeOK ==
    /\ balance \in [Places -> Nat]
    /\ average \in [Products -> Nat]
    /\ DOMAIN movement \subseteq Ids
    /\ \A i \in DOMAIN movement : movement[i] \in MovementRows
    /\ order \in [Orders -> RefTo(OrderRows)]
    /\ count \in [Counts -> RefTo(CountRows)]
    /\ seen \in [Workers -> RefTo(Copies)]

MovementsOf(p) == {i \in DOMAIN movement : movement[i].place[1] = p}
Worth(S) == MapThenSumSet(LAMBDA i : movement[i].quantity * movement[i].cost, S)
Distance(a, b) == IF a < b THEN b - a ELSE a - b

\* move() keeps the average cost coherent with the balances: what a product is
\* worth at its average is what its movements brought and took, however they
\* interleave over its locations, up to the rounding of each average.
WorthIsCost ==
    \A p \in Products :
        2 * Distance(Worth(MovementsOf(p)), Total(p) * average[p])
            <= Cardinality(MovementsOf(p)) * MaxStock

EntriesOf(o) == {i \in DOMAIN movement : movement[i].of = o}

\* receive(): what entered the stock for an order is counted on the order and
\* billed by its supplier, although the order may be received twice at once.
EntriesAreBilled ==
    \A o \in Orders : order[o] # NoRow =>
        /\ Worth(EntriesOf(o)) <= order[o].billed
        /\ MapThenSumSet(LAMBDA i : movement[i].quantity, EntriesOf(o)) <= order[o].received

ShelvesOf == INSTANCE Shelves WITH
    Places <- Places, Slips <- Ids, Blank <- NoRow,
    shelf <- balance,
    slip <- [i \in Ids |->
                IF i \in DOMAIN movement
                THEN [place |-> movement[i].place, moved |-> movement[i].quantity]
                ELSE NoRow]

\* Whatever handlers interleave, a balance changes only with a movement of its
\* own that is written once, and the stock keeps the promise of Shelves.
KeepsTheShelves == ShelvesOf!Spec
=============================================================================
