----------------------------- MODULE FleetProofs -----------------------------
(***************************************************************************)
(* Theorems about the whole fleet: work orders and sales beside the rental *)
(* desk of RentalsProofs, for any number of cars, orders and workers.      *)
(* WorkInv adds to FleetInv what an open work order has to do with the     *)
(* agenda: the block it holds, and that no desk transaction has that one.  *)
(* SaleInv adds what holds of a car that was sold.                         *)
(***************************************************************************)
EXTENDS Sales, RentalsProofs

Units == [Vehicles -> [commercial : {"AVAILABLE", "RESERVED", "RENTED"} \cup OffFleet,
                       operational : OperationalStatuses]]

\* What the rental desk keeps, and the columns of work_orders.
FleetInv == IInv /\ wo \in [Orders -> RefTo(OrderRows)]

-----------------------------------------------------------------------------
(* Operators *)

\* What the two modules write of a car keeps the columns of vehicle_units.
LEMMA EntersTyped ==
    ASSUME IInv, NEW v, NEW op \in OperationalStatuses, Enters(v, op)
    PROVE  unit' \in Units
<1>1. CASE v \in Vehicles
  BY <1>1, UnitTyped DEF Enters, Units
<1>2. CASE v \notin Vehicles
  BY <1>2 DEF Enters, IInv, TypeOK, Units
<1> QED
  BY <1>1, <1>2

LEMMA CommercialTyped ==
    ASSUME IInv, NEW v,
           NEW status \in {"AVAILABLE", "RESERVED", "RENTED"} \cup OffFleet,
           Commercial(v, status)
    PROVE  unit' \in Units
<1>1. unit \in Units
  BY DEF IInv, TypeOK, Units
<1>2. CASE v \in Vehicles
  <2> DEFINE row == [unit[v] EXCEPT !.commercial = status]
  <2>1. row \in [commercial : {"AVAILABLE", "RESERVED", "RENTED"} \cup OffFleet,
                 operational : OperationalStatuses]
    BY <1>1, <1>2 DEF Units
  <2>2. unit' = [unit EXCEPT ![v] = row]
    BY <1>1, <1>2 DEF Commercial, Units
  <2> HIDE DEF row
  <2> QED
    BY <1>1, <1>2, <2>1, <2>2 DEF Units
<1>3. CASE v \notin Vehicles
  BY <1>1, <1>3 DEF Commercial, Units
<1> QED
  BY <1>2, <1>3

\* A block cut at a time it has reached leaves the agenda sound: it gives time
\* back and takes none.
LEMMA CutSound ==
    ASSUME NEW t, Sound(t), NEW b \in Blocks, t[b] # NoRow,
           NEW at \in Nat, t[b].from < at, at < t[b].to
    PROVE  Sound(Write(t, b, [t[b] EXCEPT !.to = at, !.until = at]))
<1> DEFINE row == [t[b] EXCEPT !.to = at, !.until = at]
<1>1. t[b] \in BlockRows
  BY DEF Sound, Table, RefTo
<1>2. /\ row \in BlockRows /\ row.vehicle = t[b].vehicle /\ row.from = t[b].from
      /\ row.to = at /\ row.until = at
  BY <1>1 DEF BlockRows
<1>3. at < t[b].until
  <2>1. t[b].to <= t[b].until
    BY DEF Sound, PeriodCheck
  <2> QED
    BY <1>1, <2>1 DEF BlockRows
<1> HIDE DEF row
<1>4. ASSUME NEW o \in Blocks \ {b}, t[o] # NoRow
      PROVE  ~Overlap(row, t[o])
  <2>1. t[o] \in BlockRows /\ ~Overlap(t[b], t[o])
    BY <1>4 DEF Sound, Table, RefTo, Disjoint
  <2>2. t[o].from \in Nat /\ t[b].until \in Nat
    BY <1>1, <2>1 DEF BlockRows
  <2> QED
    BY <1>2, <1>3, <2>1, <2>2 DEF Overlap
<1>5. Fits(t, b, row)
  BY <1>2, <1>4 DEF Fits, PeriodCheck
<1> QED
  BY <1>2, <1>5, WriteSound DEF row

\* freeAgenda() leaves the agenda sound.
LEMMA FreedSound ==
    ASSUME FleetInv, NEW b
    PROVE  Sound(Freed(b))
<1>1. Sound(block) /\ now \in Nat
  BY DEF FleetInv, IInv, TypeOK
<1>2. CASE ~Live(block, b)
  BY <1>1, <1>2 DEF Freed
<1>3. CASE Live(block, b) /\ block[b].from >= now
  BY <1>1, <1>3, ReleaseSound DEF Freed
<1>4. CASE Live(block, b) /\ ~(block[b].from >= now)
  <2>1. b \in Blocks /\ block[b] # NoRow /\ block[b] \in BlockRows
    BY <1>1, <1>4 DEF Live, Sound, Table, RefTo
  <2>2. block[b].from < now
    BY <1>1, <1>4, <2>1 DEF BlockRows
  <2>3. CASE block[b].to > now
    <3>1. now < block[b].to
      BY <1>1, <2>1, <2>3 DEF BlockRows
    <3>2. Sound(Write(block, b, [block[b] EXCEPT !.to = now, !.until = now]))
      BY <1>1, <2>1, <2>2, <3>1, CutSound
    <3> QED
      BY <1>4, <2>3, <3>2 DEF Freed
  <2>4. CASE ~(block[b].to > now)
    BY <1>1, <1>4, <2>4 DEF Freed
  <2> QED
    BY <2>3, <2>4
<1> QED
  BY <1>2, <1>3, <1>4

\* A step of the workshop or of a sale: cars and their agenda change, and
\* nothing else of the desk.
LEMMA DeskKept ==
    ASSUME IInv, UNCHANGED <<now, resv, ctr, leg, insp, bill, seen>>,
           unit' \in Units, Sound(block')
    PROVE  IInv'
<1>1. insp' \in [Contracts -> [Vehicles -> [{"DELIVERY", "RETURN"} -> InspRows]]]
  BY DEF IInv, TypeOK
<1> QED
  BY <1>1, RowsUntouched DEF Units

LEMMA DeskStutters ==
    ASSUME IInv, UNCHANGED rentalVars
    PROVE  IInv'
  BY StepInv DEF rentalVars

-----------------------------------------------------------------------------
(* Work orders *)

LEMMA OpenWorkStep ==
    ASSUME FleetInv, NEW o \in Orders, NEW v \in Vehicles, NEW blocks \in BOOLEAN,
           NEW due \in Deadlines, OpenWork(o, v, blocks, due)
    PROVE  FleetInv'
<1>1. due \in Nat /\ now \in Nat /\ Sound(block) /\ unit \in Units
  BY OrderAssumption DEF FleetInv, IInv, TypeOK, Units
<1>2. CASE blocks
  <2>1. WorkRow(v, due) \in BlockRows
    BY <1>1 DEF WorkRow, Row, BlockRows, RefTo
  <2>2. NewBlock \in Blocks
    BY <1>2, NewBlockIsBlock DEF OpenWork
  <2>3. Sound(block')
    BY <1>1, <1>2, <2>1, <2>2, WriteSound DEF OpenWork
  <2>4. unit' \in Units
    <3>1. CASE unit[v].operational # "BLOCKED"
      BY <1>2, <3>1, EntersTyped DEF OpenWork, FleetInv, OperationalStatuses
    <3>2. CASE unit[v].operational = "BLOCKED"
      BY <1>1, <1>2, <3>2 DEF OpenWork
    <3> QED
      BY <3>1, <3>2
  <2>5. IInv'
    BY <2>3, <2>4, DeskKept DEF OpenWork, FleetInv
  <2>6. \A status \in {"OPEN", "AWAITING_APPROVAL"} :
            [car |-> v, status |-> status, blocks |-> blocks, due |-> due,
             block |-> NewBlock, released |-> FALSE] \in OrderRows
    BY <1>1, <2>2 DEF OrderRows, OpenStatuses, RefTo
  <2>7. wo' \in [Orders -> RefTo(OrderRows)]
    BY <1>2, <2>6 DEF OpenWork, FleetInv, RefTo
  <2> QED
    BY <2>5, <2>7 DEF FleetInv
<1>3. CASE ~blocks
  <2>1. IInv'
    BY <1>1, <1>3, DeskKept DEF OpenWork, FleetInv
  <2>2. \A status \in {"OPEN", "AWAITING_APPROVAL"} :
            [car |-> v, status |-> status, blocks |-> blocks, due |-> NoRow,
             block |-> NoRow, released |-> FALSE] \in OrderRows
    BY DEF OrderRows, OpenStatuses, RefTo
  <2>3. PICK status \in {"OPEN", "AWAITING_APPROVAL"} :
            wo' = [wo EXCEPT ![o] =
                      [car |-> v, status |-> status, blocks |-> blocks, due |-> NoRow,
                       block |-> NoRow, released |-> FALSE]]
    BY <1>3 DEF OpenWork
  <2>4. wo' \in [Orders -> RefTo(OrderRows)]
    BY <2>2, <2>3 DEF FleetInv, RefTo
  <2> QED
    BY <2>1, <2>4 DEF FleetInv
<1> QED
  BY <1>2, <1>3

\* One column of an order changes to a value it may have.
LEMMA OrderTyped ==
    ASSUME FleetInv, NEW o \in Orders, wo[o] # NoRow
    PROVE  /\ wo[o] \in OrderRows
           /\ \A due \in Nat : [wo EXCEPT ![o].due = due] \in [Orders -> RefTo(OrderRows)]
           /\ \A s \in OpenStatuses \cup {"COMPLETED", "CANCELLED"} :
                 [wo EXCEPT ![o].status = s] \in [Orders -> RefTo(OrderRows)]
           /\ \A b \in RefTo(Blocks) :
                 /\ [wo EXCEPT ![o].released = TRUE, ![o].block = b]
                       \in [Orders -> RefTo(OrderRows)]
                 /\ [wo EXCEPT ![o].status = "CANCELLED", ![o].block = b]
                       \in [Orders -> RefTo(OrderRows)]
<1>1. wo[o] \in OrderRows
  BY DEF FleetInv, RefTo
<1>2. \A row \in OrderRows : [wo EXCEPT ![o] = row] \in [Orders -> RefTo(OrderRows)]
  BY DEF FleetInv, RefTo
<1>3. ASSUME NEW due \in Nat PROVE [wo[o] EXCEPT !.due = due] \in OrderRows
  BY <1>1 DEF OrderRows, RefTo
<1>4. ASSUME NEW s \in OpenStatuses \cup {"COMPLETED", "CANCELLED"}
      PROVE  [wo[o] EXCEPT !.status = s] \in OrderRows
  BY <1>1 DEF OrderRows
<1>5. ASSUME NEW b \in RefTo(Blocks)
      PROVE  /\ [wo[o] EXCEPT !.released = TRUE, !.block = b] \in OrderRows
             /\ [wo[o] EXCEPT !.status = "CANCELLED", !.block = b] \in OrderRows
  BY <1>1 DEF OrderRows
<1>6. ASSUME NEW due \in Nat
      PROVE  [wo EXCEPT ![o].due = due] = [wo EXCEPT ![o] = [wo[o] EXCEPT !.due = due]]
  BY DEF FleetInv
<1>7. ASSUME NEW s
      PROVE  [wo EXCEPT ![o].status = s] = [wo EXCEPT ![o] = [wo[o] EXCEPT !.status = s]]
  BY DEF FleetInv
<1>8. ASSUME NEW b
      PROVE  /\ [wo EXCEPT ![o].released = TRUE, ![o].block = b]
                  = [wo EXCEPT ![o] = [wo[o] EXCEPT !.released = TRUE, !.block = b]]
             /\ [wo EXCEPT ![o].status = "CANCELLED", ![o].block = b]
                  = [wo EXCEPT ![o] = [wo[o] EXCEPT !.status = "CANCELLED", !.block = b]]
  BY DEF FleetInv
<1> QED
  BY <1>1, <1>2, <1>3, <1>4, <1>5, <1>6, <1>7, <1>8

LEMMA UpdateWorkStep ==
    ASSUME FleetInv, NEW o \in Orders, NEW due \in Deadlines, UpdateWork(o, due)
    PROVE  FleetInv'
<1>1. due \in Nat /\ wo[o] # NoRow
  BY OrderAssumption DEF UpdateWork, OpenOrder
<1>2. wo' \in [Orders -> RefTo(OrderRows)]
  BY <1>1, OrderTyped DEF UpdateWork
<1>3. Sound(block')
  <2>1. CASE Live(block, wo[o].block)
    <3>1. block[wo[o].block] \in BlockRows /\ wo[o].block \in Blocks
      BY <2>1 DEF Live, FleetInv, IInv, Sound, Table, RefTo
    <3>2. Extended(block[wo[o].block], due) \in BlockRows
      BY <1>1, <3>1, MovedRowType
    <3> QED
      BY <2>1, <3>1, <3>2, WriteSound DEF UpdateWork, Postponed, FleetInv, IInv
  <2>2. CASE ~Live(block, wo[o].block)
    BY <2>2 DEF UpdateWork, Postponed, FleetInv, IInv
  <2> QED
    BY <2>1, <2>2
<1>4. IInv'
  BY <1>3, DeskKept DEF UpdateWork, FleetInv, IInv, TypeOK, Units
<1> QED
  BY <1>2, <1>4 DEF FleetInv

LEMMA TransitionStep ==
    ASSUME FleetInv, NEW o \in Orders, NEW to \in Stages, Transition(o, to)
    PROVE  FleetInv'
  BY OrderAssumption, OrderTyped, DeskStutters DEF Transition, OpenOrder, FleetInv

LEMMA ApproveWorkStep ==
    ASSUME FleetInv, NEW o \in Orders, ApproveWork(o)
    PROVE  FleetInv'
<1> DEFINE to == IF wo[o].status = "AWAITING_PARTS" THEN wo[o].status ELSE "IN_PROGRESS"
<1>1. wo[o] # NoRow /\ to \in OpenStatuses
  BY DEF ApproveWork, OpenOrder, OpenStatuses
<1>2. wo' = [wo EXCEPT ![o].status = to]
  BY DEF ApproveWork, FleetInv
<1> HIDE DEF to
<1>3. wo' \in [Orders -> RefTo(OrderRows)]
  BY <1>1, <1>2, OrderTyped
<1> QED
  BY <1>3, DeskStutters DEF ApproveWork, FleetInv

LEMMA CompleteWorkStep ==
    ASSUME FleetInv, NEW o \in Orders, CompleteWork(o)
    PROVE  FleetInv'
<1>1. wo' \in [Orders -> RefTo(OrderRows)]
  BY OrderTyped DEF CompleteWork, OpenOrder
<1>2. unit' \in Units
  <2>1. CASE unit[wo[o].car].operational = "IN_MAINTENANCE"
    BY <2>1, EntersTyped DEF CompleteWork, FleetInv, OperationalStatuses
  <2>2. CASE unit[wo[o].car].operational # "IN_MAINTENANCE"
    BY <2>2 DEF CompleteWork, FleetInv, IInv, TypeOK, Units
  <2> QED
    BY <2>1, <2>2
<1>3. IInv'
  BY <1>2, DeskKept DEF CompleteWork, FleetInv, IInv
<1> QED
  BY <1>1, <1>3 DEF FleetInv

\* freeAgenda() and restoreVehicle()
LEMMA FreesStep ==
    ASSUME FleetInv, NEW o \in Orders, Frees(o)
    PROVE  IInv'
<1>1. Sound(block')
  BY FreedSound DEF Frees
<1>2. unit' \in Units
  <2>1. CASE Restored(wo[o].car)
    BY <2>1, EntersTyped DEF Frees, FleetInv, OperationalStatuses
  <2>2. CASE ~Restored(wo[o].car)
    BY <2>2 DEF Frees, FleetInv, IInv, TypeOK, Units
  <2> QED
    BY <2>1, <2>2
<1> QED
  BY <1>1, <1>2, DeskKept DEF Frees, FleetInv

LEMMA KeptBlockTyped ==
    ASSUME FleetInv, NEW o \in Orders, wo[o] # NoRow
    PROVE  KeptBlock(o) \in RefTo(Blocks)
<1>1. wo[o] \in OrderRows
  BY OrderTyped
<1> QED
  BY <1>1 DEF KeptBlock, OrderRows, RefTo

LEMMA ClosedStep ==
    ASSUME FleetInv, NEW o \in Orders, ReleaseWork(o) \/ CancelWork(o)
    PROVE  FleetInv'
<1>1. wo[o] # NoRow /\ Frees(o)
  BY DEF ReleaseWork, CancelWork, OpenOrder
<1>2. IInv' /\ KeptBlock(o) \in RefTo(Blocks)
  BY <1>1, FreesStep, KeptBlockTyped
<1> DEFINE b == KeptBlock(o)
<1>3. \/ wo' = [wo EXCEPT ![o].released = TRUE, ![o].block = b]
      \/ wo' = [wo EXCEPT ![o].status = "CANCELLED", ![o].block = b]
  BY DEF ReleaseWork, CancelWork
<1> HIDE DEF b
<1>4. b \in RefTo(Blocks)
  BY <1>2 DEF b
<1>5. \A x \in RefTo(Blocks) :
         /\ [wo EXCEPT ![o].released = TRUE, ![o].block = x] \in [Orders -> RefTo(OrderRows)]
         /\ [wo EXCEPT ![o].status = "CANCELLED", ![o].block = x]
               \in [Orders -> RefTo(OrderRows)]
  BY <1>1, OrderTyped
<1>6. wo' \in [Orders -> RefTo(OrderRows)]
  BY <1>3, <1>4, <1>5
<1> QED
  BY <1>2, <1>6 DEF FleetInv

LEMMA WorkOrderInv ==
    ASSUME FleetInv, NEW o \in Orders, WorkOrderStep(o)
    PROVE  FleetInv'
  BY OpenWorkStep, UpdateWorkStep, TransitionStep, ApproveWorkStep, CompleteWorkStep,
     ClosedStep DEF WorkOrderStep

-----------------------------------------------------------------------------
(* Sales, the hourly job and the fleet by hand *)

\* One car changes, in either status.
LEMMA OneCarStep ==
    ASSUME FleetInv, UNCHANGED <<now, resv, ctr, leg, block, insp, bill, seen, wo>>,
           unit' \in Units
    PROVE  FleetInv'
  BY DeskKept DEF FleetInv, IInv

LEMMA ByAgendaTyped ==
    ASSUME NEW v
    PROVE  ByAgenda(v) \in {"AVAILABLE", "RESERVED", "RENTED"}
  BY DEF ByAgenda

LEMMA BlockOverdueStep ==
    ASSUME FleetInv, NEW v \in Vehicles, BlockOverdue(v)
    PROVE  FleetInv'
<1>1. unit' \in Units
  BY EntersTyped DEF BlockOverdue, FleetInv, OperationalStatuses
<1> QED
  BY <1>1, OneCarStep DEF BlockOverdue

LEMMA SaleStep ==
    ASSUME FleetInv, NEW s \in Ads,
           Negotiate(s) \/ Withdraw(s) \/ Close(s) \/ \E v \in Vehicles : List(s, v)
    PROVE  FleetInv'
<1>1. CASE Negotiate(s)
  BY <1>1, DeskStutters DEF Negotiate, FleetInv
<1>2. CASE Withdraw(s)
  <2>1. unit' \in Units
    BY <1>2, CommercialTyped, ByAgendaTyped DEF Withdraw, BackToFleet, FleetInv
  <2> QED
    BY <1>2, <2>1, OneCarStep DEF Withdraw
<1>3. CASE Close(s)
  <2>1. unit' \in Units
    BY <1>3, CommercialTyped DEF Close, FleetInv, OffFleet
  <2> QED
    BY <1>3, <2>1, OneCarStep DEF Close
<1>4. ASSUME NEW v \in Vehicles, List(s, v) PROVE FleetInv'
  <2>1. unit' \in Units
    BY <1>4, CommercialTyped DEF List, FleetInv, OffFleet
  <2> QED
    BY <1>4, <2>1, OneCarStep DEF List
<1> QED
  BY <1>1, <1>2, <1>3, <1>4

LEMMA ByHandStep ==
    ASSUME FleetInv, NEW v \in Vehicles, ForSaleByHand(v) \/ OffSaleByHand(v)
    PROVE  FleetInv'
<1>1. CASE ForSaleByHand(v)
  <2>1. unit' \in Units
    BY <1>1, CommercialTyped DEF ForSaleByHand, FleetInv, OffFleet
  <2> QED
    BY <1>1, <2>1, OneCarStep DEF ForSaleByHand
<1>2. CASE OffSaleByHand(v)
  <2>1. unit' \in Units
    BY <1>2, CommercialTyped, ByAgendaTyped DEF OffSaleByHand, BackToFleet, FleetInv
  <2> QED
    BY <1>2, <2>1, OneCarStep DEF OffSaleByHand
<1> QED
  BY <1>1, <1>2

LEMMA FleetInitInv == FleetInit => FleetInv
  BY InitInv DEF FleetInit, FleetInv, RefTo

LEMMA FleetStepInv == FleetInv /\ [FleetNext]_fleetVars => FleetInv'
<1> SUFFICES ASSUME FleetInv, [FleetNext]_fleetVars PROVE FleetInv'
  OBVIOUS
<1>1. CASE Next /\ UNCHANGED <<wo, sale>>
  BY <1>1, StepInv DEF FleetInv
<1>2. CASE \E o \in Orders : WorkOrderStep(o) /\ UNCHANGED sale
  BY <1>2, WorkOrderInv
<1>3. CASE \E v \in Vehicles : BlockOverdue(v) /\ UNCHANGED sale
  BY <1>3, BlockOverdueStep
<1>4. CASE \E s \in Ads : Negotiate(s) \/ Withdraw(s) \/ Close(s) \/ \E v \in Vehicles : List(s, v)
  BY <1>4, SaleStep
<1>5. CASE \E v \in Vehicles : ForSaleByHand(v) \/ OffSaleByHand(v)
  BY <1>5, ByHandStep
<1>6. CASE UNCHANGED fleetVars
  BY <1>6, DeskStutters DEF fleetVars, FleetInv
<1> QED
  BY <1>1, <1>2, <1>3, <1>4, <1>5, <1>6 DEF FleetNext

-----------------------------------------------------------------------------
(* The blocks of work orders, which the desk does not touch *)

IsWork(t, b) == t[b] # NoRow /\ t[b].kind = "MAINTENANCE"

\* Tables t and u have the same blocks of work orders.
WorkKept(t, u) == \A b \in Blocks : IsWork(t, b) \/ IsWork(u, b) => u[b] = t[b]

\* The block of an order is of no reservation and no contract, and no
\* transaction of the desk has found it.
Apart ==
    \A b \in Blocks : IsWork(block, b) =>
        /\ block[b].resv = NoRow /\ block[b].leg = NoRow
        /\ \A w \in Workers : seen[w] # NoRow => seen[w].block # b

\* A row of another kind, or none, is written where no order has its block.
LEMMA WrittenAside ==
    ASSUME NEW t, NEW u \in Table, WorkKept(t, u), NEW b \in Blocks, ~IsWork(u, b),
           NEW row, row = NoRow \/ row.kind # "MAINTENANCE",
           NEW x, x = [u EXCEPT ![b] = row]
    PROVE  WorkKept(t, x)
<1>1. x[b] = row /\ \A o \in Blocks : o # b => x[o] = u[o]
  BY DEF Table
<1>. QED BY <1>1 DEF WorkKept, IsWork

\* allocate() writes a row that was not there.
LEMMA AllocatedAside ==
    ASSUME NEW t \in Table, WorkKept(block, t), NEW v, NEW kind, kind # "MAINTENANCE",
           NEW from, NEW to, NEW r, NEW g, Allocate(t, v, kind, from, to, r, g)
    PROVE  WorkKept(block, block')
<1>1. NewBlock \in Blocks /\ block[NewBlock] = NoRow
  BY NewBlockIsBlock DEF Allocate, Unused
<1>2. PICK row : row = NewRow(v, kind, from, to, r, g)
  OBVIOUS
<1>3. row.kind # "MAINTENANCE"
  BY <1>2 DEF NewRow, Row
<1>4. ~IsWork(t, NewBlock)
  BY <1>1 DEF WorkKept, IsWork
<1>5. block' = [t EXCEPT ![NewBlock] = row]
  BY <1>2 DEF Allocate, Write
<1>. QED BY <1>1, <1>3, <1>4, <1>5, WrittenAside

\* release() of a block that no order has
LEMMA ReleasedAside ==
    ASSUME block \in Table, NEW b, b \in Blocks => ~IsWork(block, b)
    PROVE  Release(block, b) \in Table /\ WorkKept(block, Release(block, b))
<1>1. WorkKept(block, block)
  BY DEF WorkKept
<1>2. CASE b \in Blocks
  <2>1. PICK x : x = [block EXCEPT ![b] = NoRow]
    OBVIOUS
  <2>2. x \in Table
    BY <1>2, <2>1 DEF Table, RefTo
  <2>3. WorkKept(block, x)
    BY <1>1, <1>2, <2>1, WrittenAside
  <2>. QED BY <1>2, <2>1, <2>2, <2>3 DEF Release
<1>3. CASE b \notin Blocks
  BY <1>1, <1>3 DEF Release
<1>. QED BY <1>2, <1>3

\* A live block that the desk moves or cuts stays of its kind.
LEMMA MovedAside ==
    ASSUME block \in Table, NEW b, Live(block, b), ~IsWork(block, b), NEW row,
           row.kind = block[b].kind
    PROVE  WorkKept(block, Write(block, b, row)) /\ b \in Blocks
<1>1. WorkKept(block, block) /\ b \in Blocks /\ block[b].kind # "MAINTENANCE"
  BY DEF WorkKept, Live, IsWork
<1>2. PICK x : x = [block EXCEPT ![b] = row]
  OBVIOUS
<1>3. WorkKept(block, x)
  BY <1>1, <1>2, WrittenAside
<1>. QED BY <1>1, <1>2, <1>3 DEF Write

LEMMA KindStays ==
    ASSUME NEW row \in BlockRows, NEW at \in Nat
    PROVE  Truncated(row, at).kind = row.kind /\ Extended(row, at).kind = row.kind
  BY DEF Truncated, Extended, BlockRows

\* What a transaction of the desk found is no block of an order.
LEMMA HeldAside ==
    ASSUME FleetInv, Apart, NEW w \in Workers, seen[w] # NoRow
    PROVE  block \in Table /\ (seen[w].block \in Blocks => ~IsWork(block, seen[w].block))
  BY DEF Apart, FleetInv, IInv, Sound

\* Reservations give back and take blocks of their own.
LEMMA ReservationsAside ==
    ASSUME FleetInv, Apart, NEW w \in Workers, NEW r \in Reservations, ReservationStep(w, r)
    PROVE  WorkKept(block, block')
<1>1. block \in Table /\ WorkKept(block, block)
  BY DEF FleetInv, IInv, Sound, WorkKept
<1>2. Holding(w, r) => seen[w] # NoRow
  BY DEF Holding
<1>3. CASE LoadReservation(w, r)
  BY <1>1, <1>3 DEF LoadReservation
<1>4. ASSUME NEW v \in Vehicles, Confirm(w, r, v) PROVE WorkKept(block, block')
  BY <1>1, <1>4, AllocatedAside DEF Confirm
<1>5. ASSUME NEW v \in Vehicles \cup {NoRow}, NEW p \in Periods, Update(w, r, v, p)
      PROVE  WorkKept(block, block')
  <2>1. CASE UNCHANGED block
    BY <1>1, <2>1
  <2>2. CASE Allocate(Release(block, seen[w].block), v, "RESERVATION", p.from, p.to, r, NoRow)
    <3>1. PICK t : t = Release(block, seen[w].block)
      OBVIOUS
    <3>2. t \in Table /\ WorkKept(block, t)
      BY <1>2, <1>5, <3>1, HeldAside, ReleasedAside DEF Update
    <3>3. Allocate(t, v, "RESERVATION", p.from, p.to, r, NoRow)
      BY <2>2, <3>1
    <3>. QED BY <3>2, <3>3, AllocatedAside
  <2>. QED BY <1>5, <2>1, <2>2 DEF Update
<1>6. ASSUME NEW s \in {"CANCELLED", "NO_SHOW"}, Cancel(w, r, s) PROVE WorkKept(block, block')
  <2>1. seen[w] # NoRow /\ block' = Release(block, seen[w].block)
    BY <1>2, <1>6 DEF Cancel
  <2>2. WorkKept(block, Release(block, seen[w].block))
    BY <2>1, HeldAside, ReleasedAside
  <2>. QED BY <2>1, <2>2
<1>7. ASSUME NEW c \in Contracts, Checkout(w, r, c) PROVE WorkKept(block, block')
  <2>1. CASE ~Live(block, seen[w].block)
    BY <1>1, <1>7, <2>1 DEF Checkout
  <2>2. CASE Live(block, seen[w].block)
    <3>1. PICK b \in Blocks : b = seen[w].block
      BY <2>2 DEF Live
    <3>2. ~IsWork(block, b)
      BY <1>2, <1>7, <3>1, HeldAside DEF Checkout
    <3>3. block[b] \in BlockRows
      BY <1>1, <2>2, <3>1 DEF Live, Table, RefTo
    <3>4. PICK row : row = [block[b] EXCEPT !.kind = "CONTRACT", !.leg = NewLeg]
      OBVIOUS
    <3>5. row.kind = "CONTRACT"
      BY <3>3, <3>4 DEF BlockRows
    <3>6. block' = [block EXCEPT ![b] = row]
      BY <1>1, <1>7, <2>2, <3>1, <3>4 DEF Checkout, Table
    <3>. QED BY <1>1, <3>2, <3>5, <3>6, WrittenAside
  <2>. QED BY <2>1, <2>2
<1>. QED BY <1>3, <1>4, <1>5, <1>6, <1>7 DEF ReservationStep

\* So do contracts: cancellation, delivery, swap, extension, renewal and end.
LEMMA HeldMoves ==
    ASSUME FleetInv, Apart, NEW w \in Workers, NEW c \in Contracts, Holding(w, c),
           Live(block, seen[w].block)
    PROVE  /\ ~IsWork(block, seen[w].block)
           /\ seen[w].block \in Blocks /\ block[seen[w].block] \in BlockRows
           /\ now \in Nat
           /\ \A at \in Nat :
                 LET b == seen[w].block IN
                 /\ WorkKept(block, Write(block, b, Truncated(block[b], at)))
                 /\ WorkKept(block, Write(block, b, Extended(block[b], at)))
                 /\ Write(block, b, Truncated(block[b], at)) \in Table
<1>1. PICK b : b = seen[w].block
  OBVIOUS
<1>2. block \in Table /\ ~IsWork(block, b) /\ b \in Blocks
  BY <1>1, HeldAside DEF Holding, Live
<1>3. block[b] \in BlockRows /\ now \in Nat
  BY <1>1, LiveRow DEF FleetInv, IInv, TypeOK
<1>4. ASSUME NEW at \in Nat
      PROVE  /\ WorkKept(block, Write(block, b, Truncated(block[b], at)))
             /\ WorkKept(block, Write(block, b, Extended(block[b], at)))
             /\ Write(block, b, Truncated(block[b], at)) \in Table
  <2>1. PICK cut, more : cut = Truncated(block[b], at) /\ more = Extended(block[b], at)
    OBVIOUS
  <2>2. cut \in BlockRows /\ cut.kind = block[b].kind /\ more.kind = block[b].kind
    BY <1>3, <2>1, MovedRowType, KindStays
  <2>3. WorkKept(block, Write(block, b, cut)) /\ WorkKept(block, Write(block, b, more))
    BY <1>1, <1>2, <2>2, MovedAside
  <2>4. Write(block, b, cut) \in Table
    BY <1>2, <2>2 DEF Write, Table, RefTo
  <2>. QED BY <2>1, <2>3, <2>4
<1>. QED BY <1>1, <1>2, <1>3, <1>4

LEMMA SwapsAside ==
    ASSUME FleetInv, Apart, NEW w \in Workers, NEW c \in Contracts, NEW v \in Vehicles,
           SwapProposed(w, c, v) \/ SwapInForce(w, c, v)
    PROVE  WorkKept(block, block')
<1>1. block \in Table /\ WorkKept(block, block) /\ Holding(w, c) /\ seen[w] # NoRow
  BY DEF FleetInv, IInv, Sound, WorkKept, SwapProposed, SwapInForce, Holding
<1>2. CASE SwapProposed(w, c, v)
  <2>1. PICK t : t = Release(block, seen[w].block)
    OBVIOUS
  <2>2. t \in Table /\ WorkKept(block, t)
    BY <1>1, <2>1, HeldAside, ReleasedAside
  <2>3. Allocate(t, v, "CONTRACT", seen[w].row.from, seen[w].row.to, NoRow, NewLeg)
    BY <1>2, <2>1 DEF SwapProposed
  <2>. QED BY <2>2, <2>3, AllocatedAside
<1>3. CASE SwapInForce(w, c, v)
  <2>1. CASE Live(block, seen[w].block)
    <3>1. PICK t : t = Write(block, seen[w].block, Truncated(block[seen[w].block], now))
      OBVIOUS
    <3>2. t \in Table /\ WorkKept(block, t)
      BY <1>1, <2>1, <3>1, HeldMoves
    <3>3. Allocate(t, v, "CONTRACT", now, seen[w].row.to, NoRow, NewLeg)
      BY <1>3, <2>1, <3>1 DEF SwapInForce
    <3>. QED BY <3>2, <3>3, AllocatedAside
  <2>2. CASE ~Live(block, seen[w].block)
    <3>1. Allocate(block, v, "CONTRACT", now, seen[w].row.to, NoRow, NewLeg)
      BY <1>3, <2>2 DEF SwapInForce
    <3>. QED BY <1>1, <3>1, AllocatedAside
  <2>. QED BY <2>1, <2>2
<1>. QED BY <1>2, <1>3

LEMMA RenewAside ==
    ASSUME FleetInv, Apart, NEW w \in Workers, NEW c \in Contracts, NEW d \in Contracts,
           NEW to \in 0 .. MaxEnd, Renew(w, c, d, to)
    PROVE  WorkKept(block, block')
<1>1. block \in Table /\ WorkKept(block, block) /\ Holding(w, c)
  BY DEF FleetInv, IInv, Sound, WorkKept, Renew
<1>2. PICK bare : bare = IF Live(block, seen[w].block)
                         THEN [block EXCEPT ![seen[w].block].until = block[seen[w].block].to]
                         ELSE block
  OBVIOUS
<1>3. bare \in Table /\ WorkKept(block, bare)
  <2>1. CASE Live(block, seen[w].block)
    <3>1. PICK b \in Blocks : b = seen[w].block
      BY <2>1 DEF Live
    <3>2. ~IsWork(block, b) /\ block[b] \in BlockRows
      BY <1>1, <2>1, <3>1, HeldMoves
    <3>3. PICK row : row = [block[b] EXCEPT !.until = block[b].to]
      OBVIOUS
    <3>4. row.kind = block[b].kind /\ row \in BlockRows
      BY <3>2, <3>3 DEF BlockRows
    <3>5. bare = Write(block, b, row)
      BY <1>1, <1>2, <2>1, <3>1, <3>3 DEF Table, Write
    <3>6. WorkKept(block, bare)
      BY <1>1, <2>1, <3>1, <3>2, <3>4, <3>5, MovedAside
    <3>7. bare \in Table
      BY <1>1, <3>1, <3>4, <3>5 DEF Table, Write, RefTo
    <3>. QED BY <3>6, <3>7
  <2>2. CASE ~Live(block, seen[w].block)
    BY <1>1, <1>2, <2>2
  <2>. QED BY <2>1, <2>2
<1>4. \E v, from : Allocate(bare, v, "CONTRACT", from, to, NoRow, NewLeg)
  BY <1>2 DEF Renew, InsertContract
<1>. QED BY <1>3, <1>4, AllocatedAside

LEMMA ContractsAside ==
    ASSUME FleetInv, Apart, NEW w \in Workers, NEW c \in Contracts, ContractStep(w, c)
    PROVE  WorkKept(block, block')
<1>1. block \in Table /\ WorkKept(block, block)
  BY DEF FleetInv, IInv, Sound, WorkKept
<1>2. CASE LoadContract(w, c) \/ Submit(w, c) \/ Approve(w, c)
  BY <1>1, <1>2 DEF LoadContract, Submit, Approve, Advance
<1>3. CASE CancelContract(w, c)
  <2>1. seen[w] # NoRow /\ block' = Release(block, seen[w].block)
    BY <1>3 DEF CancelContract, Holding
  <2>2. WorkKept(block, Release(block, seen[w].block))
    BY <2>1, HeldAside, ReleasedAside
  <2>. QED BY <2>1, <2>2
<1>4. CASE Activate(w, c)
  <2>1. CASE Live(block, seen[w].block) /\ now < block[seen[w].block].from
    <3>1. PICK b \in Blocks : b = seen[w].block
      BY <2>1 DEF Live
    <3>2. ~IsWork(block, b) /\ block[b] \in BlockRows
      BY <1>4, <2>1, <3>1, HeldMoves DEF Activate
    <3>3. PICK row : row = [block[b] EXCEPT !.from = now]
      OBVIOUS
    <3>4. row.kind = block[b].kind
      BY <3>2, <3>3 DEF BlockRows
    <3>5. block' = Write(block, b, row)
      BY <1>4, <2>1, <3>1, <3>3 DEF Activate
    <3>6. WorkKept(block, Write(block, b, row))
      BY <1>1, <2>1, <3>1, <3>2, <3>4, MovedAside
    <3>. QED BY <3>5, <3>6
  <2>2. CASE ~(Live(block, seen[w].block) /\ now < block[seen[w].block].from)
    BY <1>1, <1>4, <2>2 DEF Activate
  <2>. QED BY <2>1, <2>2
<1>5. ASSUME NEW v \in Vehicles, SwapProposed(w, c, v) \/ SwapInForce(w, c, v)
      PROVE  WorkKept(block, block')
  BY <1>5, SwapsAside
<1>6. ASSUME NEW to \in 0 .. MaxEnd, Extend(w, c, to) PROVE WorkKept(block, block')
  <2>1. CASE Live(block, seen[w].block)
    <3>1. /\ Holding(w, c) /\ to \in Nat
          /\ block' = Write(block, seen[w].block, Extended(block[seen[w].block], to))
      BY <1>6, <2>1, TimeAssumption DEF Extend
    <3>. QED BY <2>1, <3>1, HeldMoves
  <2>2. CASE ~Live(block, seen[w].block)
    BY <1>1, <1>6, <2>2 DEF Extend
  <2>. QED BY <2>1, <2>2
<1>7. ASSUME NEW d \in Contracts, NEW to \in 0 .. MaxEnd, Renew(w, c, d, to)
      PROVE  WorkKept(block, block')
  BY <1>7, RenewAside
<1>8. ASSUME NEW s \in {"CLOSED", "TERMINATED"}, NEW at \in 0 .. MaxTime, Finish(w, c, s, at)
      PROVE  WorkKept(block, block')
  <2>1. PICK b \in First(LegBlocks(seen[w].leg)) :
            IF b = NoRow THEN UNCHANGED block
            ELSE IF at <= block[b].to
            THEN /\ Fits(block, b, Truncated(block[b], at))
                 /\ block' = Write(block, b, Truncated(block[b], at))
            ELSE block' = IF Fits(block, b, Extended(block[b], at))
                          THEN Write(block, b, Extended(block[b], at)) ELSE block
    BY <1>8 DEF Finish
  <2>2. CASE b = NoRow
    BY <1>1, <2>1, <2>2
  <2>3. CASE b # NoRow
    <3>1. b \in Blocks /\ block[b] # NoRow /\ block[b].leg # NoRow /\ Live(block, b)
      BY <2>3 DEF First, LegBlocks, Live
    <3>2. ~IsWork(block, b) /\ block[b] \in BlockRows /\ at \in Nat
      BY <1>1, <3>1, TimeAssumption DEF Apart, Table, RefTo
    <3>3. PICK cut, more : cut = Truncated(block[b], at) /\ more = Extended(block[b], at)
      OBVIOUS
    <3>4. cut.kind = block[b].kind /\ more.kind = block[b].kind
      BY <3>2, <3>3, KindStays
    <3>5. WorkKept(block, Write(block, b, cut)) /\ WorkKept(block, Write(block, b, more))
      BY <1>1, <3>1, <3>2, <3>4, MovedAside
    <3>. QED BY <1>1, <2>1, <2>3, <3>3, <3>5
  <2>. QED BY <2>2, <2>3
<1>. QED BY <1>2, <1>3, <1>4, <1>5, <1>6, <1>7, <1>8 DEF ContractStep

LEMMA DirectAside ==
    ASSUME FleetInv, Apart, Direct
    PROVE  WorkKept(block, block')
<1>1. block \in Table /\ WorkKept(block, block)
  BY DEF FleetInv, IInv, Sound, WorkKept
<1>2. ASSUME NEW r \in Reservations, NEW p \in Periods, NEW v \in Vehicles,
             RequestConfirmed(r, p, v)
      PROVE  WorkKept(block, block')
  BY <1>1, <1>2, AllocatedAside DEF RequestConfirmed
<1>3. ASSUME NEW c \in Contracts, NEW k \in ContractKinds, NEW v \in Vehicles, NEW p \in Periods,
             Propose(c, k, v, p)
      PROVE  WorkKept(block, block')
  BY <1>1, <1>3, AllocatedAside DEF Propose, InsertContract
<1>4. ASSUME NEW v \in Vehicles, NEW p \in BlockPeriods, CreateBlock(v, p)
      PROVE  WorkKept(block, block')
  BY <1>1, <1>4, AllocatedAside DEF CreateBlock
<1>5. ASSUME NEW b \in Blocks, ReleaseBlock(b) PROVE WorkKept(block, block')
  <2>1. ~IsWork(block, b) /\ block' = Release(block, b)
    BY <1>5 DEF ReleaseBlock, IsWork
  <2>2. WorkKept(block, Release(block, b))
    BY <1>1, <2>1, ReleasedAside
  <2>. QED BY <2>1, <2>2
<1>6. CASE \/ \E r \in Reservations, p \in Periods : Request(r, p)
           \/ \E c \in Contracts, v \in Vehicles, t \in {"DELIVERY", "RETURN"} :
                 OpenInspection(c, v, t) \/ CompleteInspection(c, v, t)
           \/ \E v \in Vehicles, to \in ManualStatuses : ChangeOperational(v, to)
  BY <1>1, <1>6 DEF Request, OpenInspection, CompleteInspection, ChangeOperational
<1>. QED BY <1>2, <1>3, <1>4, <1>5, <1>6 DEF Direct

\* No step of the desk touches the block of an order, and none creates one.
LEMMA DeskAside ==
    ASSUME FleetInv, Apart, Next
    PROVE  WorkKept(block, block')
<1>1. WorkKept(block, block)
  BY DEF WorkKept
<1>2. CASE \/ \E w \in Workers : Look(w) \/ Abandon(w)
           \/ \E late \in SUBSET Reservations : Expire(late)
           \/ Tick
  BY <1>1, <1>2 DEF Look, Abandon, Expire, Tick
<1>. QED BY <1>2, ReservationsAside, ContractsAside, DirectAside DEF Next

\* A transaction that ends, or finds what refers to its own row
LEMMA ApartAfter ==
    ASSUME FleetInv, Apart, WorkKept(block, block'),
           \/ seen' = seen
           \/ \E w \in Workers : \E copy :
                 /\ seen' = [seen EXCEPT ![w] = copy]
                 /\ copy # NoRow /\ copy.block \in Blocks => ~IsWork(block, copy.block)
    PROVE  Apart'
<1>1. ASSUME NEW b \in Blocks, block'[b] # NoRow, block'[b].kind = "MAINTENANCE"
      PROVE  block'[b] = block[b] /\ IsWork(block, b)
  BY <1>1 DEF WorkKept, IsWork
<1>2. \A v \in Workers : \/ seen'[v] = seen[v] \/ seen'[v] = NoRow
                         \/ seen'[v].block \in Blocks => ~IsWork(block, seen'[v].block)
  BY DEF FleetInv, IInv, TypeOK
<1>. QED BY <1>1, <1>2 DEF Apart, IsWork

LEMMA FoundAside ==
    ASSUME FleetInv, Apart, block' = block, NEW w \in Workers,
           NEW x, NEW b, NEW row, NEW g, NEW since, NEW renewed,
           b \in Blocks => ~IsWork(block, b),
           seen' = [seen EXCEPT ![w] = [id |-> x, row |-> row, leg |-> g, since |-> since,
                                        block |-> b, renewed |-> renewed]]
    PROVE  Apart'
<1>1. PICK copy : copy = [id |-> x, row |-> row, leg |-> g, since |-> since,
                          block |-> b, renewed |-> renewed]
  OBVIOUS
<1>2. copy.block \in Blocks => ~IsWork(block, copy.block)
  BY <1>1
<1>3. WorkKept(block, block')
  BY DEF WorkKept
<1>. QED BY <1>1, <1>2, <1>3, ApartAfter

\* What refers to a reservation or to an interval is no block of an order.
LEMMA ReferredAside ==
    ASSUME Apart
    PROVE  /\ \A r \in Reservations : \A b \in First(ResvBlocks(r)) : b \in Blocks => ~IsWork(block, b)
           /\ \A g : \A b \in First(LegBlocks(g)) : b \in Blocks => ~IsWork(block, b)
  BY NoRowAssumption DEF Apart, First, ResvBlocks, LegBlocks, IsWork

LEMMA FoundInAside ==
    ASSUME FleetInv, Apart, block' = block, NEW w \in Workers, NEW c, NEW row, NEW renewed,
           FoundIn(w, c, row, renewed)
    PROVE  Apart'
<1>1. PICK g : \E b \in First(LegBlocks(g)) :
          seen' = [seen EXCEPT ![w] =
                      [id |-> c, row |-> row, leg |-> g,
                       since |-> IF g = NoRow THEN NoRow ELSE leg[g].from, block |-> b,
                       renewed |-> renewed]]
  BY DEF FoundIn
<1>0. PICK since : since = IF g = NoRow THEN NoRow ELSE leg[g].from
  OBVIOUS
<1>2. PICK b \in First(LegBlocks(g)) :
          seen' = [seen EXCEPT ![w] = [id |-> c, row |-> row, leg |-> g, since |-> since,
                                       block |-> b, renewed |-> renewed]]
  BY <1>0, <1>1
<1>. QED BY <1>2, ReferredAside, FoundAside

\* The desk finds no block of an order.
LEMMA LookAside ==
    ASSUME FleetInv, Apart, NEW w \in Workers, Look(w)
    PROVE  Apart'
<1>1. block' = block /\ WorkKept(block, block')
  BY DEF Look, WorkKept
<1>2. ASSUME NEW b, b \in Blocks => ~IsWork(block, b), seen' = [seen EXCEPT ![w].block = b]
      PROVE  Apart'
  <2>1. PICK copy : copy = [seen[w] EXCEPT !.block = b]
    OBVIOUS
  <2>2. seen[w] \in ResvCopies \cup CtrCopies
    BY DEF Look, Idle, FleetInv, IInv, TypeOK, RefTo
  <2>3. copy.block = b
    BY <2>1, <2>2 DEF ResvCopies, CtrCopies
  <2>4. seen' = [seen EXCEPT ![w] = copy]
    BY <1>2, <2>1
  <2>. QED BY <1>1, <1>2, <2>3, <2>4, ApartAfter
<1>3. CASE /\ seen[w].id \in Reservations
           /\ \E b \in First(ResvBlocks(seen[w].id)) : seen' = [seen EXCEPT ![w].block = b]
  BY <1>2, <1>3, ReferredAside
<1>4. CASE \E b \in First(LegBlocks(seen[w].leg)) : seen' = [seen EXCEPT ![w].block = b]
  BY <1>2, <1>4, ReferredAside
<1>5. CASE \E renewed : FoundIn(w, seen[w].id, seen[w].row, renewed)
  BY <1>1, <1>5, FoundInAside
<1>. QED BY <1>3, <1>4, <1>5 DEF Look

LEMMA DeskApart ==
    ASSUME FleetInv, Apart, Next
    PROVE  Apart'
<1>1. WorkKept(block, block')
  BY DeskAside
<1>2. CASE seen' = seen
  BY <1>1, <1>2, ApartAfter
<1>3. ASSUME NEW w \in Workers, Done(w) PROVE Apart'
  BY <1>1, <1>3, ApartAfter DEF Done
<1>4. ASSUME NEW w \in Workers, NEW r \in Reservations, ReservationStep(w, r) PROVE Apart'
  <2>1. CASE LoadReservation(w, r)
    <3>1. PICK b \in First(ResvBlocks(r)) :
              seen' = [seen EXCEPT ![w] = [id |-> r, row |-> resv[r], leg |-> NoRow,
                                           since |-> NoRow, block |-> b, renewed |-> FALSE]]
      BY <2>1 DEF LoadReservation
    <3>2. block' = block /\ (b \in Blocks => ~IsWork(block, b))
      BY <2>1, ReferredAside DEF LoadReservation
    <3>. QED BY <3>1, <3>2, FoundAside
  <2>2. CASE ~LoadReservation(w, r)
    BY <1>3, <1>4, <2>2 DEF ReservationStep, Confirm, Update, Cancel, Checkout
  <2>. QED BY <2>1, <2>2
<1>5. ASSUME NEW w \in Workers, NEW c \in Contracts, ContractStep(w, c) PROVE Apart'
  <2>1. CASE LoadContract(w, c)
    BY <2>1, FoundInAside DEF LoadContract
  <2>2. CASE ~LoadContract(w, c)
    BY <1>3, <1>5, <2>2 DEF ContractStep, Submit, Approve, Advance, CancelContract, Activate,
                            SwapProposed, SwapInForce, Extend, Renew, Finish
  <2>. QED BY <2>1, <2>2
<1>6. ASSUME NEW w \in Workers, Look(w) \/ Abandon(w) PROVE Apart'
  BY <1>3, <1>6, LookAside DEF Abandon
<1>7. CASE Direct \/ Tick \/ \E late \in SUBSET Reservations : Expire(late)
  <2>1. ASSUME Direct PROVE seen' = seen
    <3>1. CASE \/ \E r \in Reservations, p \in Periods : Request(r, p)
               \/ \E r \in Reservations, p \in Periods, v \in Vehicles : RequestConfirmed(r, p, v)
      BY <3>1 DEF Request, RequestConfirmed
    <3>2. CASE \E c \in Contracts, k \in ContractKinds, v \in Vehicles, p \in Periods :
                  Propose(c, k, v, p)
      BY <3>2 DEF Propose
    <3>3. CASE \E c \in Contracts, v \in Vehicles, t \in {"DELIVERY", "RETURN"} :
                  OpenInspection(c, v, t) \/ CompleteInspection(c, v, t)
      BY <3>3 DEF OpenInspection, CompleteInspection
    <3>4. CASE \/ \E v \in Vehicles, to \in ManualStatuses : ChangeOperational(v, to)
               \/ \E v \in Vehicles, p \in BlockPeriods : CreateBlock(v, p)
               \/ \E b \in Blocks : ReleaseBlock(b)
      BY <3>4 DEF ChangeOperational, CreateBlock, ReleaseBlock
    <3>. QED BY <2>1, <3>1, <3>2, <3>3, <3>4 DEF Direct
  <2>2. (Tick \/ \E late \in SUBSET Reservations : Expire(late)) => seen' = seen
    BY DEF Tick, Expire
  <2>. QED BY <1>2, <1>7, <2>1, <2>2
<1>. QED BY <1>4, <1>5, <1>6, <1>7 DEF Next


-----------------------------------------------------------------------------
(* Orders and their blocks *)

\* An order and its block tell the same: the block keeps the car of the order,
\* an open order that blocks its car has one that ends when the order is due,
\* and no order is released while it is open.
OrderTrue(o) ==
    wo[o] # NoRow =>
        /\ wo[o].block # NoRow =>
              IsWork(block, wo[o].block) /\ block[wo[o].block].vehicle = wo[o].car
        /\ wo[o].status \in OpenStatuses =>
              /\ ~wo[o].released
              /\ wo[o].blocks => /\ wo[o].block # NoRow
                                 /\ block[wo[o].block].to = wo[o].due

\* Order o keeps the car of block b.
Claims(o, b) ==
    wo[o] # NoRow /\ wo[o].block = b /\ wo[o].status # "CANCELLED" /\ ~wo[o].released

\* No block is of two orders, and one that is not over has an order that keeps it.
OrdersTrue ==
    /\ \A o \in Orders : OrderTrue(o)
    /\ \A o, p \in Orders : /\ wo[o] # NoRow /\ wo[p] # NoRow
                            /\ wo[o].block # NoRow /\ wo[o].block = wo[p].block
                            => o = p
    /\ \A b \in Blocks : IsWork(block, b) /\ block[b].to > now => \E o \in Orders : Claims(o, b)

WorkInv == FleetInv /\ Apart /\ OrdersTrue

\* Blocks of orders stay as they are, and so do the orders: time only lets go.
LEMMA OrdersBeside ==
    ASSUME FleetInv, OrdersTrue, WorkKept(block, block'), wo' = wo, now' \in Nat, now <= now'
    PROVE  OrdersTrue'
<1>1. \A b \in Blocks : IsWork(block, b) => block'[b] = block[b]
  BY DEF WorkKept
<1>2. ASSUME NEW o \in Orders PROVE OrderTrue(o)'
  <2>1. wo[o] # NoRow => wo[o] \in OrderRows
    BY DEF FleetInv, RefTo
  <2>2. wo[o] # NoRow /\ wo[o].block # NoRow => wo[o].block \in Blocks
    BY <2>1 DEF OrderRows, RefTo
  <2>. QED BY <1>1, <2>1, <2>2 DEF OrdersTrue, OrderTrue, IsWork
<1>3. ASSUME NEW b \in Blocks, IsWork(block', b), block'[b].to > now'
      PROVE  \E o \in Orders : Claims(o, b)'
  <2>1. block'[b] = block[b] /\ IsWork(block, b)
    BY <1>3 DEF WorkKept, IsWork
  <2>2. block[b] \in BlockRows /\ now \in Nat
    BY <2>1 DEF IsWork, FleetInv, IInv, TypeOK, Sound, Table, RefTo
  <2>3. block[b].to \in Nat
    BY <2>2 DEF BlockRows
  <2>4. block[b].to > now
    BY <1>3, <2>1, <2>2, <2>3
  <2>5. PICK o \in Orders : Claims(o, b)
    BY <2>1, <2>4 DEF OrdersTrue
  <2>. QED BY <2>5 DEF Claims
<1>. QED BY <1>2, <1>3 DEF OrdersTrue

\* One order changes, and of the agenda no more than its block.
LEMMA OneOrder ==
    ASSUME FleetInv, OrdersTrue, NEW o \in Orders, wo[o] # NoRow, now' = now,
           \A p \in Orders \ {o} : wo'[p] = wo[p],
           NEW x, x = wo[o].block, wo'[o] # NoRow, wo'[o].block \in {x, NoRow},
           \A b \in Blocks : b # x => block'[b] = block[b],
           OrderTrue(o)',
           x \in Blocks /\ IsWork(block', x) /\ block'[x].to > now => Claims(o, x)'
    PROVE  OrdersTrue'
<1>1. ASSUME NEW p \in Orders PROVE OrderTrue(p)'
  <2>1. CASE p = o
    BY <2>1
  <2>2. CASE p # o
    <3>1. wo[p] # NoRow => wo[p] \in OrderRows
      BY DEF FleetInv, RefTo
    <3>2. wo[p] # NoRow /\ wo[p].block # NoRow => wo[p].block \in Blocks /\ wo[p].block # wo[o].block
      BY <2>2, <3>1 DEF OrderRows, RefTo, OrdersTrue
    <3>3. wo[p] # NoRow /\ wo[p].block # NoRow => block'[wo[p].block] = block[wo[p].block]
      BY <3>2
    <3>4. wo'[p] = wo[p] /\ OrderTrue(p)
      BY <2>2 DEF OrdersTrue
    <3>. QED BY <3>3, <3>4 DEF OrderTrue, IsWork
  <2>. QED BY <2>1, <2>2
<1>2. ASSUME NEW p \in Orders, NEW q \in Orders, wo'[p] # NoRow, wo'[q] # NoRow,
             wo'[p].block # NoRow, wo'[p].block = wo'[q].block
      PROVE  p = q
  BY <1>2 DEF OrdersTrue
<1>3. ASSUME NEW b \in Blocks, IsWork(block', b), block'[b].to > now'
      PROVE  \E p \in Orders : Claims(p, b)'
  <2>1. CASE b = wo[o].block
    BY <1>3, <2>1
  <2>2. CASE b # wo[o].block
    <3>1. block'[b] = block[b]
      BY <2>2
    <3>2. PICK p \in Orders : Claims(p, b)
      BY <1>3, <3>1 DEF OrdersTrue, IsWork
    <3>3. p # o
      BY <2>2, <3>2 DEF Claims
    <3>. QED BY <3>2, <3>3 DEF Claims
  <2>. QED BY <2>1, <2>2
<1>. QED BY <1>1, <1>2, <1>3 DEF OrdersTrue

\* A block of an order keeps to itself what the desk refers to.
LEMMA ApartBeside ==
    ASSUME FleetInv, Apart, seen' = seen, NEW x,
           \A b \in Blocks : b # x => block'[b] = block[b],
           x \in Blocks /\ IsWork(block', x) =>
              /\ block'[x].resv = NoRow /\ block'[x].leg = NoRow
              /\ \A w \in Workers : seen[w] # NoRow => seen[w].block # x
    PROVE  Apart'
  BY DEF Apart, IsWork

\* The columns of an order that a handler leaves alone
LEMMA OrderColumns ==
    ASSUME FleetInv, NEW o \in Orders, wo[o] # NoRow
    PROVE  /\ wo[o] \in OrderRows
           /\ \A due : wo' = [wo EXCEPT ![o].due = due] =>
                 /\ \A p \in Orders \ {o} : wo'[p] = wo[p]
                 /\ wo'[o] = [wo[o] EXCEPT !.due = due]
           /\ \A s : wo' = [wo EXCEPT ![o].status = s] =>
                 /\ \A p \in Orders \ {o} : wo'[p] = wo[p]
                 /\ wo'[o] = [wo[o] EXCEPT !.status = s]
  BY DEF FleetInv, RefTo

\* The columns of the block of an order, moved by extend()
LEMMA WorkMoved ==
    ASSUME NEW row \in BlockRows, NEW due
    PROVE  /\ Extended(row, due).to = due
           /\ Extended(row, due).vehicle = row.vehicle
           /\ Extended(row, due).kind = row.kind
           /\ Extended(row, due).resv = row.resv
           /\ Extended(row, due).leg = row.leg
  BY DEF Extended, BlockRows

\* The block of an order
LEMMA WorkBlock ==
    ASSUME FleetInv, OrdersTrue, NEW o \in Orders, wo[o] # NoRow, wo[o].block # NoRow
    PROVE  /\ wo[o].block \in Blocks /\ IsWork(block, wo[o].block)
           /\ block[wo[o].block] \in BlockRows /\ Live(block, wo[o].block)
<1>1. wo[o] \in OrderRows
  BY OrderColumns
<1>2. wo[o].block \in Blocks
  BY <1>1 DEF OrderRows, RefTo
<1>3. IsWork(block, wo[o].block)
  BY DEF OrdersTrue, OrderTrue
<1>. QED BY <1>2, <1>3 DEF IsWork, Live, FleetInv, IInv, Sound, Table, RefTo

LEMMA UpdateOrders ==
    ASSUME WorkInv, NEW o \in Orders, NEW due \in Deadlines, UpdateWork(o, due)
    PROVE  OrdersTrue' /\ Apart'
<1>1. PICK b : b = wo[o].block
  OBVIOUS
<1>2. /\ FleetInv /\ OrdersTrue /\ Apart /\ wo[o] # NoRow /\ b \in Blocks
      /\ IsWork(block, b) /\ block[b] \in BlockRows /\ Live(block, b)
      /\ block[b].vehicle = wo[o].car /\ ~wo[o].released /\ b # NoRow
  <2>1. wo[o] # NoRow /\ wo[o].status \in OpenStatuses /\ wo[o].blocks
    BY DEF UpdateWork, OpenOrder
  <2>2. OrderTrue(o)
    BY DEF WorkInv, OrdersTrue
  <2>3. b # NoRow /\ block[b].vehicle = wo[o].car /\ ~wo[o].released
    BY <1>1, <2>1, <2>2 DEF OrderTrue
  <2>. QED BY <1>1, <2>1, <2>3, WorkBlock DEF WorkInv
<1>3. PICK row : row = Extended(block[b], due)
  OBVIOUS
<1>4. /\ row.to = due /\ row.vehicle = wo[o].car /\ row.kind = "MAINTENANCE"
      /\ row.resv = NoRow /\ row.leg = NoRow
  BY <1>2, <1>3, WorkMoved DEF IsWork, Apart
<1>5. block' = Write(block, b, row)
  BY <1>1, <1>2, <1>3 DEF UpdateWork, Postponed
<1>6. block'[b] = row /\ \A x \in Blocks : x # b => block'[x] = block[x]
  BY <1>2, <1>5 DEF Write, FleetInv, IInv, Sound, Table
<1>7. row # NoRow
  BY <1>2, <1>3, MovedRowType, RowAssumption, OrderAssumption
<1>8. /\ wo[o] \in OrderRows /\ \A p \in Orders \ {o} : wo'[p] = wo[p]
      /\ wo'[o] = [wo[o] EXCEPT !.due = due]
  BY <1>2, OrderColumns DEF UpdateWork
<1>9. /\ wo'[o].due = due /\ wo'[o].block = b /\ wo'[o].car = wo[o].car
      /\ wo'[o].status = wo[o].status /\ wo'[o].released = wo[o].released
  BY <1>1, <1>8 DEF OrderRows
<1>10. wo'[o] \in OrderRows /\ wo'[o] # NoRow
  BY <1>8, OrderAssumption, OrderRowAssumption DEF OrderRows, RefTo
<1>11. OrderTrue(o)'
  BY <1>2, <1>4, <1>6, <1>7, <1>9 DEF OrderTrue, IsWork
<1>12. Claims(o, b)'
  BY <1>2, <1>9, <1>10 DEF Claims, UpdateWork, OpenOrder, OpenStatuses
<1>13. OrdersTrue'
  BY <1>1, <1>2, <1>6, <1>8, <1>9, <1>10, <1>11, <1>12, OneOrder DEF UpdateWork
<1>14. Apart'
  BY <1>2, <1>4, <1>6, ApartBeside DEF UpdateWork, Apart
<1>. QED BY <1>13, <1>14

\* transition(), approve() and complete() move the status and not the agenda.
LEMMA StatusOrders ==
    ASSUME WorkInv, NEW o \in Orders, OpenOrder(o), UNCHANGED <<now, block, seen>>,
           NEW s \in OpenStatuses \cup {"COMPLETED"}, wo' = [wo EXCEPT ![o].status = s]
    PROVE  OrdersTrue' /\ Apart'
<1>1. PICK b : b = wo[o].block
  OBVIOUS
<1>2. FleetInv /\ OrdersTrue /\ Apart /\ wo[o] # NoRow /\ OrderTrue(o) /\ ~wo[o].released
  BY DEF WorkInv, OrdersTrue, OrderTrue, OpenOrder
<1>3. /\ wo[o] \in OrderRows /\ \A p \in Orders \ {o} : wo'[p] = wo[p]
      /\ wo'[o] = [wo[o] EXCEPT !.status = s]
  BY <1>2, OrderColumns
<1>4. /\ wo'[o].due = wo[o].due /\ wo'[o].block = b /\ wo'[o].car = wo[o].car
      /\ wo'[o].status = s /\ wo'[o].released = wo[o].released
      /\ wo'[o].blocks = wo[o].blocks
  BY <1>1, <1>3 DEF OrderRows
<1>5. wo'[o] \in OrderRows /\ wo'[o] # NoRow
  BY <1>3, OrderRowAssumption DEF OrderRows
<1>6. OrderTrue(o)'
  <2>1. /\ b # NoRow => IsWork(block, b) /\ block[b].vehicle = wo[o].car
        /\ wo[o].blocks => b # NoRow /\ block[b].to = wo[o].due
    BY <1>1, <1>2 DEF OrderTrue, OpenOrder
  <2>2. b # NoRow => IsWork(block', b) /\ block'[b].vehicle = wo'[o].car
    BY <1>4, <2>1
  <2>3. wo'[o].blocks => b # NoRow /\ block'[b].to = wo'[o].due
    BY <1>4, <2>1
  <2>. QED BY <1>2, <1>4, <2>2, <2>3 DEF OrderTrue
<1>7. Claims(o, b)'
  BY <1>2, <1>4, <1>5 DEF Claims, OpenStatuses
<1>8. OrdersTrue'
  BY <1>1, <1>2, <1>3, <1>4, <1>5, <1>6, <1>7, OneOrder
<1>9. Apart'
  BY <1>2 DEF Apart
<1>. QED BY <1>8, <1>9

\* create() gives the order a block that no order and no transaction has.
LEMMA OpenOrders ==
    ASSUME WorkInv, NEW o \in Orders, NEW v \in Vehicles, NEW blocks \in BOOLEAN,
           NEW due \in Deadlines, OpenWork(o, v, blocks, due)
    PROVE  OrdersTrue' /\ Apart'
<1>1. FleetInv /\ OrdersTrue /\ Apart /\ wo[o] = NoRow /\ now' = now /\ seen' = seen
  BY DEF WorkInv, OpenWork
<1> DEFINE New(s) == [car |-> v, status |-> s, blocks |-> blocks,
                      due |-> IF blocks THEN due ELSE NoRow,
                      block |-> IF blocks THEN NewBlock ELSE NoRow, released |-> FALSE]
<1>0. PICK status \in {"OPEN", "AWAITING_APPROVAL"} : wo' = [wo EXCEPT ![o] = New(status)]
  BY DEF OpenWork
<1>2. PICK row : row = New(status) /\ wo' = [wo EXCEPT ![o] = row]
  BY <1>0
<1>3. wo'[o] = row /\ \A p \in Orders \ {o} : wo'[p] = wo[p]
  BY <1>1, <1>2 DEF FleetInv
<1>4. /\ row.car = v /\ row.status = status /\ row.blocks = blocks /\ ~row.released
      /\ row.due = IF blocks THEN due ELSE NoRow
      /\ row.block = IF blocks THEN NewBlock ELSE NoRow
  BY <1>2
<1>5. \A p \in Orders : wo[p] # NoRow /\ wo[p].block # NoRow =>
          wo[p].block \in Blocks /\ IsWork(block, wo[p].block)
  BY <1>1, WorkBlock
<1>6. CASE blocks
  <2>1. PICK b : b = NewBlock
    OBVIOUS
  <2>2. b \in Blocks /\ Unused(b)
    BY <1>6, <2>1, NewBlockIsBlock DEF OpenWork
  <2>3. PICK work : work = WorkRow(v, due)
    OBVIOUS
  <2>4. /\ work.vehicle = v /\ work.kind = "MAINTENANCE" /\ work.to = due
        /\ work.resv = NoRow /\ work.leg = NoRow
    BY <2>3 DEF WorkRow, Row
  <2>5. work \in BlockRows /\ work # NoRow
    <3>1. now \in Nat /\ due \in Nat
      BY <1>1, OrderAssumption DEF FleetInv, IInv, TypeOK
    <3>2. work \in BlockRows
      BY <2>3, <3>1 DEF WorkRow, Row, BlockRows, RefTo
    <3>. QED BY <3>2, RowAssumption
  <2>6. block' = Write(block, b, work)
    BY <1>6, <2>1, <2>3 DEF OpenWork
  <2>7. block'[b] = work /\ \A x \in Blocks : x # b => block'[x] = block[x]
    BY <1>1, <2>2, <2>6 DEF Write, FleetInv, IInv, Sound, Table
  <2>8. IsWork(block', b) /\ row.block = b /\ row.due = due
    BY <1>4, <1>6, <2>1, <2>4, <2>5, <2>7 DEF IsWork
  <2>9. OrderTrue(o)'
    BY <1>3, <1>4, <2>2, <2>4, <2>7, <2>8, NoRowAssumption DEF OrderTrue
  <2>10. ASSUME NEW p \in Orders, p # o PROVE OrderTrue(p)'
    <3>1. wo[p] # NoRow /\ wo[p].block # NoRow => block'[wo[p].block] = block[wo[p].block]
      BY <1>5, <2>2, <2>7 DEF Unused, IsWork
    <3>2. OrderTrue(p) /\ wo'[p] = wo[p]
      BY <1>1, <1>3, <2>10 DEF OrdersTrue
    <3>. QED BY <3>1, <3>2 DEF OrderTrue, IsWork
  <2>11. ASSUME NEW p \in Orders, NEW q \in Orders, wo'[p] # NoRow, wo'[q] # NoRow,
                wo'[p].block # NoRow, wo'[p].block = wo'[q].block
         PROVE  p = q
    <3>1. ASSUME NEW r \in Orders, r # o, wo'[r] # NoRow PROVE wo'[r].block # b
      <4>1. wo[r].block # NoRow => wo[r].block # b
        BY <1>3, <1>5, <2>2, <3>1 DEF Unused, IsWork
      <4>. QED BY <1>3, <2>2, <3>1, <4>1, NoRowAssumption
    <3>. QED BY <1>1, <1>3, <2>8, <2>11, <3>1 DEF OrdersTrue
  <2>12. ASSUME NEW x \in Blocks, IsWork(block', x), block'[x].to > now'
         PROVE  \E p \in Orders : Claims(p, x)'
    <3>1. CASE x = b
      <4>1. row # NoRow
        <5>1. row \in OrderRows
          <6>1. due \in Nat
            BY OrderAssumption
          <6>2. row = [car |-> v, status |-> status, blocks |-> blocks, due |-> due,
                       block |-> b, released |-> FALSE]
            BY <1>2, <1>6, <2>1
          <6>. QED BY <2>2, <6>1, <6>2 DEF OrderRows, OpenStatuses, RefTo
        <5>. QED BY <5>1, OrderRowAssumption
      <4>. QED BY <1>3, <1>4, <2>8, <3>1, <4>1 DEF Claims
    <3>2. CASE x # b
      <4>1. block'[x] = block[x]
        BY <2>7, <3>2
      <4>2. PICK p \in Orders : Claims(p, x)
        BY <1>1, <2>12, <4>1 DEF OrdersTrue, IsWork
      <4>3. p # o
        BY <1>1, <4>2 DEF Claims
      <4>. QED BY <1>3, <4>2, <4>3 DEF Claims
    <3>. QED BY <3>1, <3>2
  <2>13. Apart'
    BY <1>1, <2>2, <2>4, <2>7, ApartBeside DEF Unused
  <2>. QED BY <2>9, <2>10, <2>11, <2>12, <2>13 DEF OrdersTrue
<1>7. CASE ~blocks
  <2>1. block' = block /\ row.block = NoRow
    BY <1>4, <1>7 DEF OpenWork
  <2>2. OrderTrue(o)'
    BY <1>3, <1>4, <1>7, <2>1 DEF OrderTrue
  <2>3. ASSUME NEW p \in Orders, p # o PROVE OrderTrue(p)'
    BY <1>1, <1>3, <2>1, <2>3 DEF OrdersTrue, OrderTrue
  <2>4. ASSUME NEW p \in Orders, NEW q \in Orders, wo'[p] # NoRow, wo'[q] # NoRow,
               wo'[p].block # NoRow, wo'[p].block = wo'[q].block
        PROVE  p = q
    BY <1>1, <1>3, <2>1, <2>4 DEF OrdersTrue
  <2>5. ASSUME NEW x \in Blocks, IsWork(block', x), block'[x].to > now'
        PROVE  \E p \in Orders : Claims(p, x)'
    <3>1. PICK p \in Orders : Claims(p, x)
      BY <1>1, <2>1, <2>5 DEF OrdersTrue
    <3>2. p # o
      BY <1>1, <3>1 DEF Claims
    <3>. QED BY <1>3, <3>1, <3>2 DEF Claims
  <2>6. Apart'
    BY <1>1, <2>1 DEF Apart
  <2>. QED BY <2>2, <2>3, <2>4, <2>5, <2>6 DEF OrdersTrue
<1>. QED BY <1>6, <1>7

\* Time does not go back.
LEMMA TimeFlows ==
    ASSUME FleetInv, Next
    PROVE  now' \in Nat /\ now <= now'
<1>1. now \in Nat
  BY DEF FleetInv, IInv, TypeOK
<1>2. CASE Tick
  BY <1>1, <1>2 DEF Tick
<1>3. ASSUME now' = now PROVE now' \in Nat /\ now <= now'
  BY <1>1, <1>3
<1>4. ASSUME NEW w \in Workers, NEW r \in Reservations, ReservationStep(w, r) PROVE now' = now
  BY <1>4 DEF ReservationStep, LoadReservation, Confirm, Update, Cancel, Checkout
<1>5. ASSUME NEW w \in Workers, NEW c \in Contracts, ContractStep(w, c) PROVE now' = now
  BY <1>5 DEF ContractStep, LoadContract, Submit, Approve, Advance, CancelContract, Activate,
              SwapProposed, SwapInForce, Extend, Renew, Finish
<1>6. ASSUME Direct PROVE now' = now
  <2>1. CASE \/ \E r \in Reservations, p \in Periods : Request(r, p)
             \/ \E r \in Reservations, p \in Periods, v \in Vehicles : RequestConfirmed(r, p, v)
             \/ \E c \in Contracts, k \in ContractKinds, v \in Vehicles, p \in Periods :
                   Propose(c, k, v, p)
    BY <2>1 DEF Request, RequestConfirmed, Propose
  <2>2. CASE \E c \in Contracts, v \in Vehicles, t \in {"DELIVERY", "RETURN"} :
                OpenInspection(c, v, t) \/ CompleteInspection(c, v, t)
    BY <2>2 DEF OpenInspection, CompleteInspection
  <2>3. CASE \/ \E v \in Vehicles, to \in ManualStatuses : ChangeOperational(v, to)
             \/ \E v \in Vehicles, p \in BlockPeriods : CreateBlock(v, p)
             \/ \E b \in Blocks : ReleaseBlock(b)
    BY <2>3 DEF ChangeOperational, CreateBlock, ReleaseBlock
  <2>. QED BY <1>6, <2>1, <2>2, <2>3 DEF Direct
<1>7. CASE \/ \E w \in Workers : Look(w) \/ Abandon(w)
           \/ \E late \in SUBSET Reservations : Expire(late)
  BY <1>3, <1>7 DEF Look, Abandon, Expire
<1>. QED BY <1>2, <1>3, <1>4, <1>5, <1>6, <1>7 DEF Next

\* freeAgenda() leaves nothing to come of a block of an order.
LEMMA FreedWork ==
    ASSUME FleetInv, NEW x, x \in Blocks => IsWork(block, x), NEW t, t = Freed(x)
    PROVE  /\ \A b \in Blocks : b # x => t[b] = block[b]
           /\ x \in Blocks /\ t[x] # NoRow =>
                 /\ t[x].kind = "MAINTENANCE" /\ t[x].vehicle = block[x].vehicle
                 /\ t[x].resv = block[x].resv /\ t[x].leg = block[x].leg
                 /\ ~(t[x].to > now)
<1>1. block \in Table /\ now \in Nat
  BY DEF FleetInv, IInv, TypeOK, Sound
<1>2. CASE ~Live(block, x)
  BY <1>2 DEF Freed, Live, IsWork
<1>3. CASE Live(block, x) /\ block[x].from >= now
  BY <1>1, <1>3 DEF Freed, Release, Live, Table
<1>4. CASE Live(block, x) /\ ~(block[x].from >= now) /\ block[x].to > now
  <2>1. x \in Blocks /\ block[x] \in BlockRows /\ block[x].kind = "MAINTENANCE"
    BY <1>1, <1>4 DEF Live, Table, RefTo, IsWork
  <2>2. PICK row : row = [block[x] EXCEPT !.to = now, !.until = now]
    OBVIOUS
  <2>3. /\ row.kind = "MAINTENANCE" /\ row.vehicle = block[x].vehicle /\ row.to = now
        /\ row.resv = block[x].resv /\ row.leg = block[x].leg
    BY <2>1, <2>2 DEF BlockRows
  <2>4. t = [block EXCEPT ![x] = row]
    BY <1>4, <2>2 DEF Freed, Write
  <2>5. t[x] = row /\ \A b \in Blocks : b # x => t[b] = block[b]
    BY <1>1, <2>1, <2>4 DEF Table
  <2>. QED BY <1>1, <2>3, <2>5
<1>5. CASE Live(block, x) /\ ~(block[x].from >= now) /\ ~(block[x].to > now)
  BY <1>5 DEF Freed, Live, IsWork
<1>. QED BY <1>2, <1>3, <1>4, <1>5

LEMMA CloseOrders ==
    ASSUME WorkInv, NEW o \in Orders, ReleaseWork(o) \/ CancelWork(o)
    PROVE  OrdersTrue' /\ Apart'
<1>1. PICK x, k : x = wo[o].block /\ k = KeptBlock(o)
  OBVIOUS
<1>2. /\ FleetInv /\ OrdersTrue /\ Apart /\ wo[o] # NoRow
      /\ now' = now /\ seen' = seen /\ block' = Freed(x)
  BY <1>1 DEF WorkInv, ReleaseWork, CancelWork, OpenOrder, Frees
<1>3. wo[o] \in OrderRows /\ x \in RefTo(Blocks)
  BY <1>1, <1>2, OrderColumns DEF OrderRows
<1>4. x \in Blocks => IsWork(block, x) /\ block[x].vehicle = wo[o].car
  BY <1>1, <1>2, NoRowAssumption DEF OrdersTrue, OrderTrue
<1>5. /\ \A b \in Blocks : b # x => block'[b] = block[b]
      /\ x \in Blocks /\ block'[x] # NoRow =>
            /\ block'[x].kind = "MAINTENANCE" /\ block'[x].vehicle = wo[o].car
            /\ block'[x].resv = block[x].resv /\ block'[x].leg = block[x].leg
            /\ ~(block'[x].to > now)
  BY <1>2, <1>4, FreedWork
<1>6. k \in {x, NoRow} /\ (k # NoRow => k \in Blocks /\ block'[k] # NoRow)
  BY <1>1, <1>3, <1>4 DEF KeptBlock, Live, RefTo, IsWork
<1>7. PICK row : /\ \/ row = [wo[o] EXCEPT !.released = TRUE, !.block = k]
                    \/ row = [wo[o] EXCEPT !.status = "CANCELLED", !.block = k]
                 /\ row = [wo[o] EXCEPT !.released = TRUE, !.block = k] => wo[o].status = "COMPLETED"
                 /\ wo' = [wo EXCEPT ![o] = row]
  <2>1. CASE ReleaseWork(o)
    <3>1. wo' = [wo EXCEPT ![o].released = TRUE, ![o].block = k] /\ wo[o].status = "COMPLETED"
      BY <1>1, <2>1 DEF ReleaseWork
    <3>2. wo' = [wo EXCEPT ![o] = [wo[o] EXCEPT !.released = TRUE, !.block = k]]
      BY <1>2, <3>1 DEF FleetInv
    <3>. QED BY <3>1, <3>2
  <2>2. CASE CancelWork(o)
    <3>1. wo' = [wo EXCEPT ![o].status = "CANCELLED", ![o].block = k] /\ wo[o].status # "COMPLETED"
      BY <1>1, <2>2 DEF CancelWork, OpenOrder, OpenStatuses
    <3>2. PICK row : row = [wo[o] EXCEPT !.status = "CANCELLED", !.block = k]
      OBVIOUS
    <3>3. wo' = [wo EXCEPT ![o] = row]
      BY <1>2, <3>1, <3>2 DEF FleetInv
    <3>4. row.status = "CANCELLED"
      BY <1>3, <3>2 DEF OrderRows
    <3>5. row # [wo[o] EXCEPT !.released = TRUE, !.block = k]
      <4>1. PICK other : other = [wo[o] EXCEPT !.released = TRUE, !.block = k]
        OBVIOUS
      <4>2. other.status = wo[o].status
        BY <1>3, <4>1 DEF OrderRows
      <4>3. wo[o].status # "CANCELLED"
        BY <2>2 DEF CancelWork, OpenOrder, OpenStatuses
      <4>. QED BY <3>4, <4>1, <4>2, <4>3
    <3>. QED BY <3>2, <3>3, <3>5
  <2>. QED BY <2>1, <2>2
<1>8. wo'[o] = row /\ \A p \in Orders \ {o} : wo'[p] = wo[p]
  BY <1>2, <1>7 DEF FleetInv
<1>9. row.block = k /\ row.car = wo[o].car /\ row.status \in {"COMPLETED", "CANCELLED"}
  BY <1>3, <1>7 DEF OrderRows
<1>10. row \in OrderRows /\ row # NoRow
  <2>1. k \in RefTo(Blocks)
    BY <1>3, <1>6 DEF RefTo
  <2>2. row \in OrderRows
    BY <1>3, <1>7, <2>1 DEF OrderRows
  <2>. QED BY <2>2, OrderRowAssumption
<1>11. OrderTrue(o)'
  BY <1>5, <1>6, <1>8, <1>9 DEF OrderTrue, IsWork, OpenStatuses
<1>12. OrdersTrue'
  BY <1>1, <1>2, <1>5, <1>6, <1>8, <1>9, <1>10, <1>11, OneOrder DEF IsWork
<1>13. x \in Blocks /\ IsWork(block', x) =>
          /\ block'[x].resv = NoRow /\ block'[x].leg = NoRow
          /\ \A w \in Workers : seen[w] # NoRow => seen[w].block # x
  BY <1>2, <1>4, <1>5 DEF Apart, IsWork
<1>14. Apart'
  BY <1>2, <1>5, <1>13, ApartBeside
<1>. QED BY <1>12, <1>14

\* The orders and the agenda agree after every step of the fleet.
LEMMA WorkStep == WorkInv /\ [FleetNext]_fleetVars => WorkInv'
<1>. SUFFICES ASSUME WorkInv, [FleetNext]_fleetVars PROVE WorkInv'
  OBVIOUS
<1>1. FleetInv /\ Apart /\ OrdersTrue /\ FleetInv'
  BY FleetStepInv DEF WorkInv
<1>2. ASSUME UNCHANGED <<now, block, seen, wo>> PROVE Apart' /\ OrdersTrue'
  <2>1. now' \in Nat /\ now <= now' /\ WorkKept(block, block')
    BY <1>1, <1>2 DEF FleetInv, IInv, TypeOK, WorkKept
  <2>2. Apart'
    BY <1>1, <1>2 DEF Apart
  <2>. QED BY <1>1, <1>2, <2>1, <2>2, OrdersBeside
<1>3. CASE Next /\ UNCHANGED <<wo, sale>>
  <2>1. WorkKept(block, block') /\ Apart'
    BY <1>1, <1>3, DeskAside, DeskApart
  <2>2. now' \in Nat /\ now <= now'
    BY <1>1, <1>3, TimeFlows
  <2>. QED BY <1>1, <1>3, <2>1, <2>2, OrdersBeside DEF WorkInv
<1>4. ASSUME NEW o \in Orders, WorkOrderStep(o) PROVE WorkInv'
  <2>1. ASSUME NEW s \in OpenStatuses \cup {"COMPLETED"}, OpenOrder(o),
               UNCHANGED <<now, block, seen>>, wo' = [wo EXCEPT ![o].status = s]
        PROVE  WorkInv'
    BY <1>1, <2>1, StatusOrders DEF WorkInv
  <2>2. CASE \E to \in Stages : Transition(o, to)
    BY <2>1, <2>2, OrderAssumption DEF Transition, rentalVars, vars
  <2>3. CASE ApproveWork(o)
    <3>1. PICK s : s = IF wo[o].status = "AWAITING_PARTS" THEN wo[o].status ELSE "IN_PROGRESS"
      OBVIOUS
    <3>2. s \in OpenStatuses \cup {"COMPLETED"} /\ wo' = [wo EXCEPT ![o].status = s]
      BY <1>1, <2>3, <3>1 DEF ApproveWork, OpenStatuses, FleetInv
    <3>. QED BY <2>1, <2>3, <3>2 DEF ApproveWork, rentalVars, vars
  <2>4. CASE CompleteWork(o)
    BY <2>1, <2>4 DEF CompleteWork
  <2>. QED BY <1>1, <1>4, <2>2, <2>3, <2>4, OpenOrders, UpdateOrders, CloseOrders
           DEF WorkOrderStep, WorkInv
<1>5. CASE \/ \E v \in Vehicles : BlockOverdue(v) \/ ForSaleByHand(v) \/ OffSaleByHand(v)
           \/ \E s \in Ads : Negotiate(s) \/ Withdraw(s) \/ Close(s) \/ \E v \in Vehicles : List(s, v)
           \/ UNCHANGED fleetVars
  <2>1. UNCHANGED <<now, block, seen, wo>>
    BY <1>5 DEF BlockOverdue, ForSaleByHand, OffSaleByHand, Negotiate, Withdraw, Close, List,
                fleetVars, rentalVars, vars
  <2>. QED BY <1>1, <1>2, <2>1 DEF WorkInv
<1>. QED BY <1>3, <1>4, <1>5 DEF FleetNext

LEMMA WorkInit == FleetInit => WorkInv
<1>. SUFFICES ASSUME FleetInit PROVE WorkInv
  OBVIOUS
<1>1. (\A b \in Blocks : block[b] = NoRow) /\ (\A o \in Orders : wo[o] = NoRow)
  BY DEF FleetInit, Init
<1>2. Apart /\ OrdersTrue
  BY <1>1 DEF Apart, OrdersTrue, OrderTrue, IsWork
<1>. QED BY <1>2, FleetInitInv DEF WorkInv

-----------------------------------------------------------------------------
(* Cars in the workshop *)

\* No car enters the workshop.
NoneEnters ==
    \A v \in Vehicles : unit'[v].operational \in InWorkshop => unit[v].operational \in InWorkshop

\* Order o keeps its car.
Keeps(o) == wo[o] # NoRow /\ wo[o].status # "CANCELLED" /\ ~wo[o].released

Attended(v) == \E o \in Orders : Keeps(o) /\ wo[o].car = v

LEMMA OneCarEnters ==
    ASSUME IInv, NEW v, NEW op, Enters(v, op)
    PROVE  \A u \in Vehicles : unit'[u].operational = IF u = v THEN op ELSE unit[u].operational
  BY DEF Enters, IInv, TypeOK

\* recomputeCommercial() and the sales write the other status.
LEMMA CommercialAlone ==
    ASSUME IInv, \/ \E S : Recompute(S)
                 \/ \E v, status : Commercial(v, status)
    PROVE  NoneEnters
<1>1. CASE \E S : Recompute(S)
  <2>1. PICK S : Recompute(S)
    BY <1>1
  <2>2. ASSUME NEW v \in Vehicles PROVE unit'[v].operational = unit[v].operational
    BY <2>1 DEF Recompute, IInv, TypeOK
  <2>. QED BY <2>2 DEF NoneEnters
<1>2. CASE \E v, status : Commercial(v, status)
  BY <1>2 DEF Commercial, NoneEnters, IInv, TypeOK
<1>. QED BY <1>1, <1>2

LEMMA NoneEntersByDesk ==
    ASSUME IInv, Next, ManualStatuses \cap InWorkshop = {}
    PROVE  NoneEnters
<1>1. ASSUME unit' = unit PROVE NoneEnters
  BY <1>1 DEF NoneEnters
<1>2. ASSUME NEW w \in Workers, NEW r \in Reservations, ReservationStep(w, r) PROVE NoneEnters
  <2>1. unit' = unit \/ \E S : Recompute(S)
    BY <1>2 DEF ReservationStep, LoadReservation, Confirm, Update, Cancel, Checkout
  <2>. QED BY <1>1, <2>1, CommercialAlone
<1>3. ASSUME NEW w \in Workers, NEW c \in Contracts, ContractStep(w, c) PROVE NoneEnters
  <2>1. unit' = unit \/ \E S : Recompute(S)
    BY <1>3 DEF ContractStep, LoadContract, Submit, Approve, Advance, CancelContract, Activate,
                SwapProposed, SwapInForce, Extend, Renew, Finish
  <2>. QED BY <1>1, <2>1, CommercialAlone
<1>4. ASSUME NEW c \in Contracts, NEW v \in Vehicles, NEW t \in {"DELIVERY", "RETURN"},
             OpenInspection(c, v, t) \/ CompleteInspection(c, v, t)
      PROVE  NoneEnters
  <2>1. unit' = unit \/ Enters(v, "IN_INSPECTION") \/ Enters(v, "RELEASED")
    BY <1>4 DEF OpenInspection, CompleteInspection, Enters
  <2>. QED BY <1>1, <2>1, OneCarEnters DEF NoneEnters, InWorkshop
<1>5. ASSUME NEW v \in Vehicles, NEW to \in ManualStatuses, ChangeOperational(v, to)
      PROVE  NoneEnters
  <2>1. Enters(v, to) /\ to \notin InWorkshop
    BY <1>5 DEF ChangeOperational, Enters
  <2>. QED BY <2>1, OneCarEnters DEF NoneEnters
<1>6. CASE \E r \in Reservations, p \in Periods, v \in Vehicles : RequestConfirmed(r, p, v)
  BY <1>6, CommercialAlone DEF RequestConfirmed
<1>7. CASE \/ \E r \in Reservations, p \in Periods : Request(r, p)
           \/ \E c \in Contracts, k \in ContractKinds, v \in Vehicles, p \in Periods :
                 Propose(c, k, v, p)
           \/ \E v \in Vehicles, p \in BlockPeriods : CreateBlock(v, p)
           \/ \E b \in Blocks : ReleaseBlock(b)
  BY <1>1, <1>7 DEF Request, Propose, CreateBlock, ReleaseBlock
<1>8. CASE \/ \E w \in Workers : Look(w) \/ Abandon(w)
           \/ \E late \in SUBSET Reservations : Expire(late)
           \/ Tick
  BY <1>1, <1>8 DEF Look, Abandon, Expire, Tick
<1>. QED BY <1>2, <1>3, <1>4, <1>5, <1>6, <1>7, <1>8 DEF Next, Direct

\* An order goes on keeping its car, and so do the others.
LEMMA StillAttended ==
    ASSUME NEW o \in Orders, \A p \in Orders \ {o} : wo'[p] = wo[p],
           Keeps(o) => Keeps(o)' /\ wo'[o].car = wo[o].car,
           NEW v, Attended(v)
    PROVE  Attended(v)'
<1>1. PICK p \in Orders : Keeps(p) /\ wo[p].car = v
  BY DEF Attended
<1>2. CASE p = o
  BY <1>1, <1>2 DEF Attended
<1>3. CASE p # o
  BY <1>1, <1>3 DEF Attended, Keeps
<1>. QED BY <1>2, <1>3

LEMMA OrderOpened ==
    ASSUME FleetInv, NEW o \in Orders, NEW v \in Vehicles, NEW blocks \in BOOLEAN,
           NEW due \in Deadlines, OpenWork(o, v, blocks, due)
    PROVE  /\ \A p \in Orders \ {o} : wo'[p] = wo[p]
           /\ Keeps(o)' /\ wo'[o].car = v
<1> DEFINE New(s) == [car |-> v, status |-> s, blocks |-> blocks,
                      due |-> IF blocks THEN due ELSE NoRow,
                      block |-> IF blocks THEN NewBlock ELSE NoRow, released |-> FALSE]
<1>1. PICK status \in {"OPEN", "AWAITING_APPROVAL"} : wo' = [wo EXCEPT ![o] = New(status)]
  BY DEF OpenWork
<1>2. PICK row : row = New(status) /\ wo' = [wo EXCEPT ![o] = row]
  BY <1>1
<1>3. wo'[o] = row /\ \A p \in Orders \ {o} : wo'[p] = wo[p]
  BY <1>2 DEF FleetInv
<1>4. row.car = v /\ row.status = status /\ ~row.released
  BY <1>2
<1>5. row # NoRow
  <2>1. wo' \in [Orders -> RefTo(OrderRows)] /\ block \in [Blocks -> RefTo(BlockRows)]
    BY OpenWorkStep DEF FleetInv, IInv, TypeOK
  <2>2. due \in Nat
    BY OrderAssumption
  <2>3. blocks => NewBlock \in Blocks
    BY NewBlockIsBlock DEF OpenWork
  <2>4. row \in OrderRows
    BY <1>2, <2>2, <2>3 DEF OrderRows, OpenStatuses, RefTo
  <2>. QED BY <2>4, OrderRowAssumption
<1>. QED BY <1>3, <1>4, <1>5 DEF Keeps

LEMMA AttendedStep ==
    ASSUME WorkInv, WorkInv', WorkshopHasOrder, NEW o \in Orders, WorkOrderStep(o)
    PROVE  WorkshopHasOrder'
<1>1. FleetInv /\ IInv /\ OrdersTrue /\ OrdersTrue' /\ FleetInv'
  BY DEF WorkInv, FleetInv
<1>2. /\ \A v \in Vehicles : unit[v].operational \in InWorkshop => Attended(v)
      /\ (\A v \in Vehicles : unit'[v].operational \in InWorkshop => Attended(v)')
            => WorkshopHasOrder'
  BY DEF WorkshopHasOrder, Attended, Keeps
<1>3. ASSUME NEW v \in Vehicles, NEW blocks \in BOOLEAN, NEW due \in Deadlines,
             OpenWork(o, v, blocks, due)
      PROVE  WorkshopHasOrder'
  <2>0. ~Keeps(o)
    BY <1>3 DEF OpenWork, Keeps
  <2>1. /\ \A p \in Orders \ {o} : wo'[p] = wo[p]
        /\ Keeps(o)' /\ wo'[o].car = v
    BY <1>1, <1>3, OrderOpened
  <2>2. unit' = unit \/ Enters(v, "IN_MAINTENANCE")
    BY <1>3 DEF OpenWork
  <2>3. ASSUME NEW u \in Vehicles, unit'[u].operational \in InWorkshop PROVE Attended(u)'
    <3>1. CASE u = v
      BY <2>1, <3>1 DEF Attended
    <3>2. CASE u # v
      <4>1. unit[u].operational \in InWorkshop
        BY <1>1, <2>2, <2>3, <3>2, OneCarEnters
      <4>2. Attended(u)
        BY <1>2, <4>1
      <4>. QED BY <2>0, <2>1, <4>2, StillAttended
    <3>. QED BY <3>1, <3>2
  <2>. QED BY <1>2, <2>3
<1>4. ASSUME wo[o] # NoRow, \A p \in Orders \ {o} : wo'[p] = wo[p],
             Keeps(o) => Keeps(o)' /\ wo'[o].car = wo[o].car,
             unit' = unit \/ (/\ unit[wo[o].car].operational = "IN_MAINTENANCE"
                              /\ Enters(wo[o].car, "AWAITING_RELEASE"))
      PROVE  WorkshopHasOrder'
  <2>1. ASSUME NEW v \in Vehicles, unit'[v].operational \in InWorkshop PROVE Attended(v)'
    <3>1. unit[v].operational \in InWorkshop
      BY <1>1, <1>4, <2>1, OneCarEnters DEF InWorkshop
    <3>2. Attended(v)
      BY <1>2, <3>1
    <3>. QED BY <1>4, <3>2, StillAttended
  <2>. QED BY <1>2, <2>1
<1>5. ASSUME NEW s \in OpenStatuses \cup {"COMPLETED"}, wo[o] # NoRow,
             wo' = [wo EXCEPT ![o].status = s]
      PROVE  /\ \A p \in Orders \ {o} : wo'[p] = wo[p]
             /\ Keeps(o) => Keeps(o)' /\ wo'[o].car = wo[o].car
  <2>1. /\ wo[o] \in OrderRows /\ \A p \in Orders \ {o} : wo'[p] = wo[p]
        /\ wo'[o] = [wo[o] EXCEPT !.status = s]
    BY <1>1, <1>5, OrderColumns
  <2>2. /\ wo'[o].car = wo[o].car /\ wo'[o].status = s /\ wo'[o].released = wo[o].released
        /\ wo'[o] \in OrderRows
    BY <2>1 DEF OrderRows
  <2>. QED BY <2>1, <2>2, OrderRowAssumption DEF Keeps, OpenStatuses
<1>6. ASSUME NEW due \in Deadlines, UpdateWork(o, due) PROVE WorkshopHasOrder'
  <2>1. /\ wo[o] \in OrderRows /\ \A p \in Orders \ {o} : wo'[p] = wo[p] /\ wo[o] # NoRow
        /\ wo'[o] = [wo[o] EXCEPT !.due = due] /\ unit' = unit /\ due \in Nat
    BY <1>1, <1>6, OrderColumns, OrderAssumption DEF UpdateWork, OpenOrder
  <2>2. wo[o] # NoRow
    BY <1>6 DEF UpdateWork, OpenOrder
  <2>3. /\ wo'[o].car = wo[o].car /\ wo'[o].status = wo[o].status
        /\ wo'[o].released = wo[o].released /\ wo'[o] \in OrderRows
    BY <2>1 DEF OrderRows, RefTo
  <2>4. Keeps(o) => Keeps(o)' /\ wo'[o].car = wo[o].car
    BY <2>3, OrderRowAssumption DEF Keeps
  <2>. QED BY <1>4, <2>1, <2>2, <2>4
<1>7. CASE \E to \in Stages : Transition(o, to)
  BY <1>4, <1>5, <1>7, OrderAssumption DEF Transition, OpenOrder, rentalVars, vars
<1>8. CASE ApproveWork(o)
  <2>1. PICK s : s = IF wo[o].status = "AWAITING_PARTS" THEN wo[o].status ELSE "IN_PROGRESS"
    OBVIOUS
  <2>2. s \in OpenStatuses \cup {"COMPLETED"} /\ wo' = [wo EXCEPT ![o].status = s]
    BY <1>1, <1>8, <2>1 DEF ApproveWork, OpenStatuses, FleetInv
  <2>. QED BY <1>4, <1>5, <1>8, <2>2 DEF ApproveWork, OpenOrder, rentalVars, vars
<1>9. CASE CompleteWork(o)
  <2>1. wo[o] # NoRow /\ wo' = [wo EXCEPT ![o].status = "COMPLETED"]
    BY <1>9 DEF CompleteWork, OpenOrder
  <2>2. unit' = unit \/ (/\ unit[wo[o].car].operational = "IN_MAINTENANCE"
                         /\ Enters(wo[o].car, "AWAITING_RELEASE"))
    BY <1>9 DEF CompleteWork
  <2>. QED BY <1>4, <1>5, <2>1, <2>2
<1>10. CASE ReleaseWork(o) \/ CancelWork(o)
  <2>1. Frees(o) /\ now' = now
    BY <1>10 DEF ReleaseWork, CancelWork, Frees
  <2>2. \A p \in Orders \ {o} : wo'[p] = wo[p]
    BY <1>1, <1>10 DEF ReleaseWork, CancelWork, FleetInv
  <2>3. ASSUME NEW v \in Vehicles, unit'[v].operational \in InWorkshop PROVE Attended(v)'
    <3>1. /\ unit[v].operational \in InWorkshop
          /\ v = wo[o].car => ~Restored(wo[o].car)
      BY <1>1, <2>1, <2>3, OneCarEnters DEF Frees, InWorkshop
    <3>2. CASE v # wo[o].car
      <4>1. PICK p \in Orders : Keeps(p) /\ wo[p].car = v
        BY <1>2, <3>1 DEF Attended
      <4>2. wo'[p] = wo[p]
        BY <2>2, <3>2, <4>1
      <4>. QED BY <4>1, <4>2 DEF Attended, Keeps
    <3>3. CASE v = wo[o].car
      <4>1. MaintainedBy(block', v) # {}
        BY <3>1, <3>3 DEF Restored
      <4>2. PICK b \in Blocks : /\ IsWork(block', b) /\ block'[b].vehicle = v
                                /\ block'[b].to > now
        BY <4>1 DEF MaintainedBy, IsWork
      <4>3. PICK p \in Orders : Claims(p, b)'
        BY <1>1, <2>1, <4>2 DEF OrdersTrue
      <4>4. OrderTrue(p)'
        BY <1>1 DEF OrdersTrue
      <4>5. wo'[p].car = v
        BY <4>2, <4>3, <4>4, NoRowAssumption DEF Claims, OrderTrue
      <4>. QED BY <4>3, <4>5 DEF Attended, Keeps, Claims
    <3>. QED BY <3>2, <3>3
  <2>. QED BY <1>2, <2>3
<1>. QED BY <1>3, <1>6, <1>7, <1>8, <1>9, <1>10 DEF WorkOrderStep

-----------------------------------------------------------------------------
(* Cars that were sold: what the desk writes *)

IsSold(v) == unit[v].commercial = "SOLD"

\* What each write of the desk leaves under identifier b: what was there,
\* nothing, the block of a contract, or a new block of another kind, and a
\* reservation only of a car that may be rented.
DeskWrites(b) ==
    \/ block'[b] = block[b]
    \/ block'[b] = NoRow
    \/ block'[b].kind = "CONTRACT"
    \/ /\ Unused(b) /\ block'[b].leg = NoRow
       /\ block'[b].kind \in {"BLOCK", "RESERVATION"}
       /\ block'[b].kind = "RESERVATION" => Rentable(block'[b].vehicle)

\* A block of an interval is of a contract, and so is the one in the hands of
\* whoever changes a contract.
OfContracts ==
    /\ \A b \in Blocks : block[b] # NoRow /\ block[b].leg # NoRow => block[b].kind = "CONTRACT"
    /\ \A w \in Workers : seen[w] # NoRow /\ seen[w].id \in Contracts /\ Live(block, seen[w].block) =>
          block[seen[w].block].kind = "CONTRACT"

LEMMA OfContractsKept ==
    ASSUME OfContracts, \A w \in Workers : seen'[w] # NoRow => seen'[w] = seen[w],
           \A b \in Blocks : DeskWrites(b)
    PROVE  OfContracts'
<1>1. ASSUME NEW b \in Blocks, block'[b] # NoRow, block'[b].leg # NoRow
      PROVE  block'[b].kind = "CONTRACT"
  BY <1>1 DEF OfContracts, DeskWrites
<1>2. ASSUME NEW w \in Workers, seen'[w] # NoRow, seen'[w].id \in Contracts,
             Live(block', seen'[w].block)
      PROVE  block'[seen'[w].block].kind = "CONTRACT"
  <2>1. seen'[w] = seen[w]
    BY <1>2
  <2>2. PICK b \in Blocks : b = seen[w].block /\ block'[b] # NoRow
    BY <1>2, <2>1 DEF Live
  <2>3. ~Unused(b)
    BY <1>2, <2>1, <2>2 DEF Unused
  <2>4. block[b] # NoRow => block[b].kind = "CONTRACT"
    BY <1>2, <2>1, <2>2 DEF OfContracts, Live
  <2>5. block'[b].kind = "CONTRACT"
    BY <2>2, <2>3, <2>4 DEF DeskWrites
  <2>. QED BY <2>1, <2>2, <2>5
<1>. QED BY <1>1, <1>2 DEF OfContracts, Live

\* allocate() on top of a table in which only blocks of contracts changed
LEMMA AllocateWrites ==
    ASSUME NEW t \in Table, NEW v, NEW kind \in {"RESERVATION", "CONTRACT", "BLOCK"},
           NEW from, NEW to, NEW r, NEW g,
           kind # "CONTRACT" => g = NoRow,
           Allocate(t, v, kind, from, to, r, g),
           \A b \in Blocks : t[b] = block[b] \/ t[b] = NoRow \/ t[b].kind = "CONTRACT"
    PROVE  \A b \in Blocks : DeskWrites(b)
<1>1. PICK n \in Blocks :
          /\ Unused(n)
          /\ \A b \in Blocks : block'[b] = IF b = n THEN NewRow(v, kind, from, to, r, g) ELSE t[b]
  BY Allocated
<1>2. PICK row : row = NewRow(v, kind, from, to, r, g)
  OBVIOUS
<1>3. row.vehicle = v /\ row.kind = kind /\ row.leg = g
  BY <1>2, NewRowReads
<1>4. kind = "RESERVATION" => Rentable(v)
  BY DEF Allocate
<1>5. DeskWrites(n)
  <2>1. block'[n] = row
    BY <1>1, <1>2
  <2>. QED BY <1>1, <1>3, <1>4, <2>1 DEF DeskWrites
<1>6. ASSUME NEW b \in Blocks, b # n PROVE DeskWrites(b)
  BY <1>1, <1>6 DEF DeskWrites
<1>. QED BY <1>5, <1>6

LEMMA ReleaseWrites ==
    ASSUME IInv, NEW a
    PROVE  /\ Release(block, a) \in Table
           /\ \A b \in Blocks : Release(block, a)[b] = block[b] \/ Release(block, a)[b] = NoRow
  BY ReleasePrepared

\* A block of a contract moved, cut or extended is one still.
LEMMA RewriteWrites ==
    ASSUME IInv, NEW a \in Blocks, NEW n \in BlockRows, n.kind = "CONTRACT"
    PROVE  /\ Write(block, a, n) \in Table
           /\ \A b \in Blocks : Write(block, a, n)[b] = block[b] \/ Write(block, a, n)[b].kind = "CONTRACT"
<1>1. block \in Table
  BY DEF IInv, Sound
<1>2. Write(block, a, n) \in Table
  BY <1>1 DEF Write, Table, RefTo
<1>3. \A b \in Blocks : Write(block, a, n)[b] = IF b = a THEN n ELSE block[b]
  BY <1>1 DEF Write, Table
<1>. QED BY <1>2, <1>3

\* The block in the hands of whoever changes contract c
LEMMA CarriedInHand ==
    ASSUME IInv, OfContracts, NEW w \in Workers, NEW c \in Contracts, Holding(w, c),
           Live(block, seen[w].block)
    PROVE  /\ seen[w].block \in Blocks /\ block[seen[w].block] \in BlockRows
           /\ block[seen[w].block].kind = "CONTRACT"
<1>1. seen[w].block \in Blocks /\ block[seen[w].block] \in BlockRows
  BY LiveRow DEF IInv
<1>2. seen[w] # NoRow /\ seen[w].id \in Contracts
  BY DEF Holding
<1>3. block[seen[w].block].kind = "CONTRACT"
  BY <1>2 DEF OfContracts
<1>. QED BY <1>1, <1>3

LEMMA ReservationWrites ==
    ASSUME IInv, NEW w \in Workers, NEW r \in Reservations, ReservationStep(w, r)
    PROVE  \A b \in Blocks : DeskWrites(b)
<1>0. block \in Table
  BY DEF IInv, Sound
<1>1. CASE LoadReservation(w, r)
  BY <1>1 DEF LoadReservation, DeskWrites
<1>2. ASSUME NEW v \in Vehicles, Confirm(w, r, v) PROVE \A b \in Blocks : DeskWrites(b)
  <2>1. PICK from, to : from = seen[w].row.from /\ to = seen[w].row.to
    OBVIOUS
  <2>2. Allocate(block, v, "RESERVATION", from, to, r, NoRow)
    BY <1>2, <2>1 DEF Confirm
  <2>. QED BY <1>0, <2>2, AllocateWrites
<1>3. ASSUME NEW v \in Vehicles \cup {NoRow}, NEW p \in Periods, Update(w, r, v, p)
      PROVE  \A b \in Blocks : DeskWrites(b)
  <2>1. CASE UNCHANGED block
    BY <2>1 DEF DeskWrites
  <2>2. CASE Allocate(Release(block, seen[w].block), v, "RESERVATION", p.from, p.to, r, NoRow)
    BY <2>2, ReleaseWrites, AllocateWrites
  <2>. QED BY <1>3, <2>1, <2>2 DEF Update
<1>4. ASSUME NEW s, Cancel(w, r, s) PROVE \A b \in Blocks : DeskWrites(b)
  <2>1. block' = Release(block, seen[w].block)
    BY <1>4 DEF Cancel
  <2>. QED BY <2>1, ReleaseWrites DEF DeskWrites
<1>5. ASSUME NEW c \in Contracts, Checkout(w, r, c) PROVE \A b \in Blocks : DeskWrites(b)
  <2>1. CASE ~Live(block, seen[w].block)
    BY <1>5, <2>1 DEF Checkout, DeskWrites
  <2>2. CASE Live(block, seen[w].block)
    <3>1. PICK a \in Blocks : a = seen[w].block /\ block[a] \in BlockRows
      BY <2>2, LiveRow DEF IInv
    <3>2. block' = [block EXCEPT ![a].kind = "CONTRACT", ![a].leg = NewLeg]
      BY <1>5, <2>2, <3>1 DEF Checkout
    <3>3. block'[a].kind = "CONTRACT" /\ \A b \in Blocks \ {a} : block'[b] = block[b]
      BY <1>0, <3>1, <3>2 DEF Table, BlockRows
    <3>. QED BY <3>3 DEF DeskWrites
  <2>. QED BY <2>1, <2>2
<1>. QED BY <1>1, <1>2, <1>3, <1>4, <1>5 DEF ReservationStep

\* Activate, extend() and finish() write the block of the contract again.
LEMMA RewrittenWrites ==
    ASSUME IInv, NEW a \in Blocks, NEW n \in BlockRows, n.kind = "CONTRACT",
           block' = Write(block, a, n)
    PROVE  \A b \in Blocks : DeskWrites(b)
  BY RewriteWrites DEF DeskWrites

LEMMA ActivateWrites ==
    ASSUME IInv, OfContracts, NEW w \in Workers, NEW c \in Contracts, Activate(w, c)
    PROVE  \A b \in Blocks : DeskWrites(b)
<1>1. CASE UNCHANGED block
  BY <1>1 DEF DeskWrites
<1>2. CASE Live(block, seen[w].block) /\ ~UNCHANGED block
  <2>1. PICK a : a = seen[w].block
    OBVIOUS
  <2>2. a \in Blocks /\ block[a] \in BlockRows /\ block[a].kind = "CONTRACT"
    BY <1>2, <2>1, CarriedInHand DEF Activate
  <2>3. PICK n : n = [block[a] EXCEPT !.from = now]
    OBVIOUS
  <2>4. n \in BlockRows /\ n.kind = "CONTRACT"
    BY <2>2, <2>3 DEF BlockRows, IInv, TypeOK
  <2>5. block' = Write(block, a, n)
    BY <1>2, <2>1, <2>3 DEF Activate
  <2>. QED BY <2>2, <2>4, <2>5, RewrittenWrites
<1>. QED BY <1>1, <1>2 DEF Activate

LEMMA ExtendWrites ==
    ASSUME IInv, OfContracts, NEW w \in Workers, NEW c \in Contracts, NEW to \in Nat, Extend(w, c, to)
    PROVE  \A b \in Blocks : DeskWrites(b)
<1>1. CASE ~Live(block, seen[w].block)
  BY <1>1 DEF Extend, DeskWrites
<1>2. CASE Live(block, seen[w].block)
  <2>1. PICK a : a = seen[w].block
    OBVIOUS
  <2>2. a \in Blocks /\ block[a] \in BlockRows /\ block[a].kind = "CONTRACT"
    BY <1>2, <2>1, CarriedInHand DEF Extend
  <2>3. PICK n : n = Extended(block[a], to)
    OBVIOUS
  <2>4. n \in BlockRows /\ n.kind = "CONTRACT"
    BY <2>2, <2>3, KindStays, MovedRowType
  <2>5. block' = Write(block, a, n)
    BY <1>2, <2>1, <2>3 DEF Extend
  <2>. QED BY <2>2, <2>4, <2>5, RewrittenWrites
<1>. QED BY <1>1, <1>2

LEMMA FinishWrites ==
    ASSUME IInv, OfContracts, NEW w \in Workers, NEW c \in Contracts, NEW s, NEW at \in Nat,
           Finish(w, c, s, at)
    PROVE  \A b \in Blocks : DeskWrites(b)
<1>1. PICK g \in {seen[w].leg} : g # NoRow
  BY DEF Finish
<1>2. PICK a \in First(LegBlocks(g)) :
          IF a = NoRow THEN UNCHANGED block
          ELSE \/ block' = block
               \/ block' = Write(block, a, Truncated(block[a], at))
               \/ block' = Write(block, a, Extended(block[a], at))
  BY <1>1 DEF Finish
<1>3. CASE block' = block
  BY <1>3 DEF DeskWrites
<1>4. CASE a # NoRow /\ block' # block
  <2>1. a \in Blocks /\ block[a] # NoRow /\ block[a].leg = g
    BY <1>4 DEF First, LegBlocks
  <2>2. block[a] \in BlockRows /\ block[a].kind = "CONTRACT"
    BY <1>1, <2>1, RowTypes DEF OfContracts
  <2>3. PICK n \in {Truncated(block[a], at), Extended(block[a], at)} : block' = Write(block, a, n)
    BY <1>2, <1>4
  <2>4. n \in BlockRows /\ n.kind = "CONTRACT"
    BY <2>2, KindStays, MovedRowType
  <2>. QED BY <2>1, <2>3, <2>4, RewrittenWrites
<1>. QED BY <1>2, <1>3, <1>4

LEMMA SwapWrites ==
    ASSUME IInv, OfContracts, NEW w \in Workers, NEW c \in Contracts, NEW v,
           SwapProposed(w, c, v) \/ SwapInForce(w, c, v)
    PROVE  \A b \in Blocks : DeskWrites(b)
<1>0. block \in Table /\ now \in Nat
  BY DEF IInv, Sound, TypeOK
<1>1. CASE SwapProposed(w, c, v)
  <2>1. \E from, to : Allocate(Release(block, seen[w].block), v, "CONTRACT", from, to, NoRow, NewLeg)
    BY <1>1 DEF SwapProposed
  <2>. QED BY <2>1, ReleaseWrites, AllocateWrites
<1>2. CASE SwapInForce(w, c, v) /\ ~Live(block, seen[w].block)
  <2>1. \E from, to : Allocate(block, v, "CONTRACT", from, to, NoRow, NewLeg)
    BY <1>2 DEF SwapInForce
  <2>. QED BY <1>0, <2>1, AllocateWrites
<1>3. CASE SwapInForce(w, c, v) /\ Live(block, seen[w].block)
  <2>1. PICK a : a = seen[w].block
    OBVIOUS
  <2>2. a \in Blocks /\ block[a] \in BlockRows /\ block[a].kind = "CONTRACT"
    BY <1>3, <2>1, CarriedInHand DEF SwapInForce
  <2>3. PICK n : n = Truncated(block[a], now)
    OBVIOUS
  <2>4. n \in BlockRows /\ n.kind = "CONTRACT"
    BY <1>0, <2>2, <2>3, KindStays, MovedRowType
  <2>5. \E from, to : Allocate(Write(block, a, n), v, "CONTRACT", from, to, NoRow, NewLeg)
    BY <1>3, <2>1, <2>3 DEF SwapInForce
  <2>. QED BY <2>2, <2>4, <2>5, RewriteWrites, AllocateWrites
<1>. QED BY <1>1, <1>2, <1>3

\* renew() takes the preparation from the block of the contract.
LEMMA RenewWrites ==
    ASSUME IInv, OfContracts, NEW w \in Workers, NEW c \in Contracts, NEW d, NEW to, Renew(w, c, d, to)
    PROVE  \A b \in Blocks : DeskWrites(b)
<1>0. block \in Table
  BY DEF IInv, Sound
<1>1. CASE ~Live(block, seen[w].block)
  <2>1. \E v, from : Allocate(block, v, "CONTRACT", from, to, NoRow, NewLeg)
    BY <1>1 DEF Renew, InsertContract
  <2>. QED BY <1>0, <2>1, AllocateWrites
<1>2. CASE Live(block, seen[w].block)
  <2>1. PICK a : a = seen[w].block
    OBVIOUS
  <2>2. a \in Blocks /\ block[a] \in BlockRows /\ block[a].kind = "CONTRACT"
    BY <1>2, <2>1, CarriedInHand DEF Renew
  <2>3. PICK n : n = [block[a] EXCEPT !.until = block[a].to]
    OBVIOUS
  <2>4. n \in BlockRows /\ n.kind = "CONTRACT"
    BY <2>2, <2>3 DEF BlockRows
  <2>5. [block EXCEPT ![a].until = block[a].to] = Write(block, a, n)
    BY <1>0, <2>2, <2>3 DEF Write
  <2>6. \E v, from : Allocate(Write(block, a, n), v, "CONTRACT", from, to, NoRow, NewLeg)
    BY <1>2, <2>1, <2>5 DEF Renew, InsertContract
  <2>. QED BY <2>2, <2>4, <2>6, RewriteWrites, AllocateWrites
<1>. QED BY <1>1, <1>2

LEMMA DeskWritesAll ==
    ASSUME IInv, OfContracts, Next
    PROVE  \A b \in Blocks : DeskWrites(b)
<1>0. block \in Table /\ MaxTime \in Nat /\ MaxEnd \in Nat
  BY TimeAssumption DEF IInv, Sound
<1>1. ASSUME UNCHANGED block PROVE \A b \in Blocks : DeskWrites(b)
  BY <1>1 DEF DeskWrites
<1>2. ASSUME NEW w \in Workers, NEW c \in Contracts, ContractStep(w, c)
      PROVE  \A b \in Blocks : DeskWrites(b)
  <2>1. CASE LoadContract(w, c) \/ Submit(w, c) \/ Approve(w, c)
    BY <1>1, <2>1 DEF LoadContract, Submit, Approve, Advance
  <2>2. CASE CancelContract(w, c)
    <3>1. block' = Release(block, seen[w].block)
      BY <2>2 DEF CancelContract
    <3>. QED BY <3>1, ReleaseWrites DEF DeskWrites
  <2>3. CASE \E s \in {"CLOSED", "TERMINATED"}, at \in 0 .. MaxTime : Finish(w, c, s, at)
    BY <1>0, <2>3, FinishWrites
  <2>4. CASE \E to \in 0 .. MaxEnd : Extend(w, c, to)
    BY <1>0, <2>4, ExtendWrites
  <2>. QED BY <1>2, <2>1, <2>2, <2>3, <2>4, ActivateWrites, SwapWrites, RenewWrites DEF ContractStep
<1>3. CASE Direct
  <2>1. CASE \/ \E r \in Reservations, p \in Periods : Request(r, p)
             \/ \E v \in Vehicles, to \in ManualStatuses : ChangeOperational(v, to)
    BY <1>1, <2>1 DEF Request, ChangeOperational
  <2>2. ASSUME NEW c \in Contracts, NEW v \in Vehicles, NEW t \in {"DELIVERY", "RETURN"},
               OpenInspection(c, v, t) \/ CompleteInspection(c, v, t)
        PROVE  \A b \in Blocks : DeskWrites(b)
    BY <1>1, <2>2 DEF OpenInspection, CompleteInspection
  <2>3. CASE \E r \in Reservations, p \in Periods, v \in Vehicles : RequestConfirmed(r, p, v)
    <3>1. \E v, from, to, r : Allocate(block, v, "RESERVATION", from, to, r, NoRow)
      BY <2>3 DEF RequestConfirmed
    <3>. QED BY <1>0, <3>1, AllocateWrites
  <2>4. CASE \E c \in Contracts, k \in ContractKinds, v \in Vehicles, p \in Periods :
                Propose(c, k, v, p)
    <3>1. \E v, from, to : Allocate(block, v, "CONTRACT", from, to, NoRow, NewLeg)
      BY <2>4 DEF Propose, InsertContract
    <3>. QED BY <1>0, <3>1, AllocateWrites
  <2>5. CASE \E v \in Vehicles, p \in BlockPeriods : CreateBlock(v, p)
    <3>1. \E v, from, to : Allocate(block, v, "BLOCK", from, to, NoRow, NoRow)
      BY <2>5 DEF CreateBlock
    <3>. QED BY <1>0, <3>1, AllocateWrites
  <2>6. CASE \E b \in Blocks : ReleaseBlock(b)
    BY <2>6, ReleaseWrites DEF ReleaseBlock, DeskWrites
  <2>. QED BY <1>3, <2>1, <2>2, <2>3, <2>4, <2>5, <2>6 DEF Direct
<1>4. CASE \/ \E w \in Workers : Look(w) \/ Abandon(w)
           \/ \E late \in SUBSET Reservations : Expire(late)
           \/ Tick
  BY <1>1, <1>4 DEF Look, Abandon, Expire, Tick
<1>. QED BY <1>2, <1>3, <1>4, ReservationWrites DEF Next

-----------------------------------------------------------------------------
(* Cars that were sold: what the copies of the desk tell *)

\* Of a contract that is read or changed no interval is open but the one found.
OneInHand ==
    \A w \in Workers : seen[w] # NoRow /\ seen[w].id \in Contracts =>
        OpenLegs(seen[w].id) \subseteq {seen[w].leg}

\* A copy is taken, and nothing is written.
LEMMA ReadKeeps ==
    ASSUME IInv, UNCHANGED <<block, leg>>, NEW w \in Workers, NEW copy,
           seen' = [seen EXCEPT ![w] = copy],
           copy.id \in Contracts /\ Live(block, copy.block) => block[copy.block].kind = "CONTRACT",
           copy.id \in Contracts => OpenLegs(copy.id) \subseteq {copy.leg}
    PROVE  /\ OfContracts => OfContracts'
           /\ OneInHand => OneInHand'
<1>1. \A x \in Workers : seen'[x] = IF x = w THEN copy ELSE seen[x]
  BY DEF IInv, TypeOK
<1>2. OfContracts => OfContracts'
  BY <1>1 DEF OfContracts, Live
<1>3. \A c : OpenLegs(c)' = OpenLegs(c)
  BY DEF OpenLegs
<1>4. OneInHand => OneInHand'
  BY <1>1, <1>3 DEF OneInHand
<1>. QED BY <1>2, <1>4

LEMMA FoundInKeeps ==
    ASSUME IInv, OfContracts, UNCHANGED <<block, leg>>, NEW w \in Workers, NEW c \in Contracts,
           NEW row, NEW renewed, FoundIn(w, c, row, renewed)
    PROVE  OfContracts' /\ (OneInHand => OneInHand')
<1>1. PICK g \in First(OpenLegs(c)) : \E b \in First(LegBlocks(g)) :
          seen' = [seen EXCEPT ![w] =
                      [id |-> c, row |-> row, leg |-> g,
                       since |-> IF g = NoRow THEN NoRow ELSE leg[g].from, block |-> b,
                       renewed |-> renewed]]
  BY DEF FoundIn
<1>2. PICK since : since = IF g = NoRow THEN NoRow ELSE leg[g].from
  OBVIOUS
<1>3. PICK b \in First(LegBlocks(g)) :
          seen' = [seen EXCEPT ![w] = [id |-> c, row |-> row, leg |-> g, since |-> since,
                                       block |-> b, renewed |-> renewed]]
  BY <1>1, <1>2
<1>4. PICK copy : copy = [id |-> c, row |-> row, leg |-> g, since |-> since,
                          block |-> b, renewed |-> renewed]
  OBVIOUS
<1>5. copy.id = c /\ copy.leg = g /\ copy.block = b
  BY <1>4
<1>6. OpenLegs(c) \subseteq {g}
  BY DEF First, OpenLegs, IInv, OneOpen
<1>7. Live(block, b) => block[b].kind = "CONTRACT"
  <2>1. b \in LegBlocks(g) => block[b].kind = "CONTRACT"
    BY DEF LegBlocks, OfContracts
  <2>2. b = NoRow \/ b \in LegBlocks(g)
    BY DEF First
  <2>. QED BY <2>1, <2>2, NoRowAssumption DEF Live
<1>. QED BY <1>3, <1>4, <1>5, <1>6, <1>7, ReadKeeps

LEMMA LookKeeps ==
    ASSUME IInv, OfContracts, NEW w \in Workers, Look(w)
    PROVE  OfContracts' /\ (OneInHand => OneInHand')
<1>1. UNCHANGED <<block, leg>> /\ seen[w] # NoRow /\ seen[w] \in ResvCopies \cup CtrCopies
  BY DEF Look, Idle, IInv, TypeOK, RefTo
<1>2. ASSUME NEW b, seen' = [seen EXCEPT ![w].block = b],
             seen[w].id \in Contracts /\ Live(block, b) => block[b].kind = "CONTRACT"
      PROVE  OfContracts' /\ (OneInHand => OneInHand')
  <2>1. PICK copy : copy = [seen[w] EXCEPT !.block = b]
    OBVIOUS
  <2>2. copy.block = b /\ copy.id = seen[w].id /\ copy.leg = seen[w].leg
    BY <1>1, <2>1 DEF ResvCopies, CtrCopies
  <2>3. seen' = [seen EXCEPT ![w] = copy]
    BY <1>2, <2>1
  <2>4. OneInHand /\ seen[w].id \in Contracts => OpenLegs(seen[w].id) \subseteq {seen[w].leg}
    BY <1>1 DEF OneInHand
  <2>5. CASE OneInHand
    BY <1>1, <1>2, <2>2, <2>3, <2>4, <2>5, ReadKeeps
  <2>6. CASE ~OneInHand
    <3>1. \A x \in Workers : seen'[x] = IF x = w THEN copy ELSE seen[x]
      BY <2>3 DEF IInv, TypeOK
    <3>. QED BY <1>1, <1>2, <2>2, <2>6, <3>1 DEF OfContracts, Live
  <2>. QED BY <2>5, <2>6
<1>3. CASE /\ seen[w].id \in Reservations
           /\ \E b \in First(ResvBlocks(seen[w].id)) : seen' = [seen EXCEPT ![w].block = b]
  BY <1>2, <1>3, NoRowAssumption
<1>4. CASE \E b \in First(LegBlocks(seen[w].leg)) : seen' = [seen EXCEPT ![w].block = b]
  <2>1. \A b \in First(LegBlocks(seen[w].leg)) : Live(block, b) => block[b].kind = "CONTRACT"
    BY NoRowAssumption DEF First, LegBlocks, Live, OfContracts
  <2>. QED BY <1>2, <1>4, <2>1
<1>5. CASE /\ seen[w].id \in Contracts
           /\ \E renewed : FoundIn(w, seen[w].id, seen[w].row, renewed)
  BY <1>1, <1>5, FoundInKeeps
<1>. QED BY <1>3, <1>4, <1>5 DEF Look

LEMMA LoadReservationKeeps ==
    ASSUME IInv, OfContracts, NEW w \in Workers, NEW r \in Reservations, LoadReservation(w, r)
    PROVE  OfContracts' /\ (OneInHand => OneInHand')
<1>1. PICK b : seen' = [seen EXCEPT ![w] = [id |-> r, row |-> resv[r], leg |-> NoRow,
                                            since |-> NoRow, block |-> b, renewed |-> FALSE]]
  BY DEF LoadReservation
<1>2. PICK copy : copy = [id |-> r, row |-> resv[r], leg |-> NoRow,
                          since |-> NoRow, block |-> b, renewed |-> FALSE]
  OBVIOUS
<1>3. copy.id \notin Contracts
  BY <1>2, NoRowAssumption
<1>. QED BY <1>1, <1>2, <1>3, ReadKeeps DEF LoadReservation

\* What a step of the desk does to the copies: it reads, ends, or has none.
Reads == \/ \E w \in Workers, r \in Reservations : LoadReservation(w, r)
         \/ \E w \in Workers, c \in Contracts : LoadContract(w, c)
         \/ \E w \in Workers : Look(w)

LEMMA ReadsKeep ==
    ASSUME IInv, OfContracts, Reads
    PROVE  OfContracts' /\ (OneInHand => OneInHand')
  BY LoadReservationKeeps, FoundInKeeps, LookKeeps DEF Reads, LoadContract

\* A contract that is proposed is a new one.
NewlyProposed == \E c \in Contracts : /\ ctr[c] = NoRow /\ seen' = seen
                                      /\ \A g \in Legs : leg'[g] = leg[g] \/ leg'[g].ctr = c

LEMMA ReadsOrEnds ==
    ASSUME IInv, Next
    PROVE  \/ Reads
           \/ \E w \in Workers : Done(w)
           \/ UNCHANGED <<leg, seen>>
           \/ NewlyProposed
<1>1. ASSUME NEW w \in Workers, NEW r \in Reservations, ReservationStep(w, r)
      PROVE  Reads \/ Done(w)
  <2>1. LoadReservation(w, r) => Reads
    BY DEF Reads
  <2>2. ASSUME NEW v, NEW p, Confirm(w, r, v) \/ Update(w, r, v, p) PROVE Done(w)
    BY <2>2 DEF Confirm, Update
  <2>3. ASSUME NEW s, NEW c, Cancel(w, r, s) \/ Checkout(w, r, c) PROVE Done(w)
    BY <2>3 DEF Cancel, Checkout
  <2>. QED BY <1>1, <2>1, <2>2, <2>3 DEF ReservationStep
<1>2. ASSUME NEW w \in Workers, NEW c \in Contracts, ContractStep(w, c)
      PROVE  Reads \/ Done(w)
  <2>1. LoadContract(w, c) => Reads
    BY DEF Reads
  <2>2. CASE Submit(w, c) \/ Approve(w, c) \/ CancelContract(w, c) \/ Activate(w, c)
    BY <2>2 DEF Submit, Approve, Advance, CancelContract, Activate
  <2>3. ASSUME NEW v, SwapProposed(w, c, v) \/ SwapInForce(w, c, v) PROVE Done(w)
    BY <2>3 DEF SwapProposed, SwapInForce
  <2>4. ASSUME NEW d, NEW to, NEW s, NEW at,
               Extend(w, c, to) \/ Renew(w, c, d, to) \/ Finish(w, c, s, at)
        PROVE  Done(w)
    BY <2>4 DEF Extend, Renew, Finish
  <2>. QED BY <1>2, <2>1, <2>2, <2>3, <2>4 DEF ContractStep
<1>3. CASE Direct
  <2>1. CASE \/ \E r \in Reservations, p \in Periods : Request(r, p)
             \/ \E v \in Vehicles, to \in ManualStatuses : ChangeOperational(v, to)
             \/ \E r \in Reservations, p \in Periods, v \in Vehicles : RequestConfirmed(r, p, v)
    BY <2>1 DEF Request, ChangeOperational, RequestConfirmed
  <2>2. CASE \E c \in Contracts, v \in Vehicles, t \in {"DELIVERY", "RETURN"} :
                OpenInspection(c, v, t) \/ CompleteInspection(c, v, t)
    BY <2>2 DEF OpenInspection, CompleteInspection
  <2>3. ASSUME NEW c \in Contracts, NEW k \in ContractKinds, NEW v \in Vehicles, NEW p \in Periods,
               Propose(c, k, v, p)
        PROVE  NewlyProposed
    <3>1. ctr[c] = NoRow /\ seen' = seen /\ leg' = [leg EXCEPT ![NewLeg] = OpenLeg(c, v, p.from)]
      BY <2>3 DEF Propose, InsertContract
    <3>2. PICK row : row = OpenLeg(c, v, p.from)
      OBVIOUS
    <3>4. row.ctr = c
      BY <3>2 DEF OpenLeg
    <3>3. \A g \in Legs : leg'[g] = leg[g] \/ leg'[g] = row
      BY <3>1, <3>2 DEF IInv, TypeOK
    <3>. QED BY <3>1, <3>3, <3>4 DEF NewlyProposed
  <2>4. CASE \/ \E v \in Vehicles, p \in BlockPeriods : CreateBlock(v, p)
             \/ \E b \in Blocks : ReleaseBlock(b)
    BY <2>4 DEF CreateBlock, ReleaseBlock
  <2>. QED BY <1>3, <2>1, <2>2, <2>3, <2>4 DEF Direct
<1>4. CASE \E w \in Workers : Look(w) \/ Abandon(w)
  BY <1>4 DEF Reads, Abandon
<1>5. CASE Tick \/ \E late \in SUBSET Reservations : Expire(late)
  BY <1>5 DEF Tick, Expire
<1>. QED BY <1>1, <1>2, <1>3, <1>4, <1>5 DEF Next

LEMMA DeskOfContracts ==
    ASSUME IInv, OfContracts, Next
    PROVE  OfContracts'
<1>1. \A b \in Blocks : DeskWrites(b)
  BY DeskWritesAll
<1>2. CASE Reads
  BY <1>2, ReadsKeep
<1>3. CASE (\E w \in Workers : Done(w)) \/ seen' = seen
  <2>1. \A w \in Workers : seen'[w] # NoRow => seen'[w] = seen[w]
    BY <1>3 DEF Done, IInv, TypeOK
  <2>. QED BY <1>1, <2>1, OfContractsKept
<1>. QED BY <1>2, <1>3, ReadsOrEnds DEF NewlyProposed

LEMMA DeskOneInHand ==
    ASSUME OneAtATime, IInv, OfContracts, OneInHand, Next
    PROVE  OneInHand'
<1>1. CASE Reads
  BY <1>1, ReadsKeep
<1>2. CASE \E w \in Workers : Done(w)
  <2>1. \A w \in Workers : seen'[w] = NoRow
    BY <1>2 DEF Done, OneAtATime, IInv, TypeOK
  <2>. QED BY <2>1 DEF OneInHand
<1>3. CASE UNCHANGED <<leg, seen>>
  BY <1>3 DEF OneInHand, OpenLegs
<1>4. CASE NewlyProposed
  <2>1. PICK c \in Contracts : /\ ctr[c] = NoRow /\ seen' = seen
                               /\ \A g \in Legs : leg'[g] = leg[g] \/ leg'[g].ctr = c
    BY <1>4 DEF NewlyProposed
  <2>2. ASSUME NEW w \in Workers, seen'[w] # NoRow, seen'[w].id \in Contracts,
               NEW g \in Legs, leg'[g] # NoRow, leg'[g].ctr = seen'[w].id, leg'[g].till = NoRow
        PROVE  g = seen'[w].leg
    <3>1. seen'[w] = seen[w] /\ Known(seen[w])
      BY <2>1, <2>2 DEF IInv, Links
    <3>2. seen[w].id # c
      BY <2>1, <2>2, <3>1 DEF Known
    <3>3. leg'[g] = leg[g]
      BY <2>1, <2>2, <3>1, <3>2
    <3>4. g \in OpenLegs(seen[w].id)
      BY <2>2, <3>1, <3>3 DEF OpenLegs
    <3>. QED BY <2>2, <3>1, <3>4 DEF OneInHand
  <2>. QED BY <2>2 DEF OneInHand, OpenLegs
<1>. QED BY <1>1, <1>2, <1>3, <1>4, ReadsOrEnds

-----------------------------------------------------------------------------
(* Cars that were sold: who sells them *)

\* The desk sells no car and takes none back.
SoldAlone == \A v \in Vehicles : IsSold(v)' <=> IsSold(v)

LEMMA OperationalAlone ==
    ASSUME IInv, \/ UNCHANGED unit
                 \/ \E v, op : Enters(v, op)
                 \/ \E S : Recompute(S)
    PROVE  SoldAlone
<1>1. CASE UNCHANGED unit
  BY <1>1 DEF SoldAlone, IsSold
<1>2. CASE \E v, op : Enters(v, op)
  BY <1>2 DEF Enters, SoldAlone, IsSold, IInv, TypeOK
<1>3. CASE \E S : Recompute(S)
  <2>1. PICK S : Recompute(S)
    BY <1>3
  <2>2. ASSUME NEW v \in Vehicles PROVE IsSold(v)' <=> IsSold(v)
    <3>1. ByAgenda(v)' # "SOLD"
      BY DEF ByAgenda
    <3>. QED BY <2>1, <3>1 DEF Recompute, IsSold, OffFleet, IInv, TypeOK
  <2>. QED BY <2>2 DEF SoldAlone
<1>. QED BY <1>1, <1>2, <1>3

LEMMA DeskSellsNone ==
    ASSUME IInv, Next
    PROVE  SoldAlone
<1>1. ASSUME NEW w \in Workers, NEW r \in Reservations, ReservationStep(w, r)
      PROVE  unit' = unit \/ \E S : Recompute(S)
  BY <1>1 DEF ReservationStep, LoadReservation, Confirm, Update, Cancel, Checkout
<1>2. ASSUME NEW w \in Workers, NEW c \in Contracts, ContractStep(w, c)
      PROVE  unit' = unit \/ \E S : Recompute(S)
  BY <1>2 DEF ContractStep, LoadContract, Submit, Approve, Advance, CancelContract, Activate,
              SwapProposed, SwapInForce, Extend, Renew, Finish
<1>3. CASE Direct
  <2>1. ASSUME NEW c \in Contracts, NEW v \in Vehicles, NEW t \in {"DELIVERY", "RETURN"},
               OpenInspection(c, v, t) \/ CompleteInspection(c, v, t)
        PROVE  unit' = unit \/ Enters(v, "IN_INSPECTION") \/ Enters(v, "RELEASED")
    BY <2>1 DEF OpenInspection, CompleteInspection, Enters
  <2>2. CASE \E v \in Vehicles, to \in ManualStatuses : ChangeOperational(v, to)
    BY <2>2, OperationalAlone DEF ChangeOperational, Enters
  <2>3. CASE \E r \in Reservations, p \in Periods, v \in Vehicles : RequestConfirmed(r, p, v)
    BY <2>3, OperationalAlone DEF RequestConfirmed
  <2>4. CASE \/ \E r \in Reservations, p \in Periods : Request(r, p)
             \/ \E c \in Contracts, k \in ContractKinds, v \in Vehicles, p \in Periods :
                   Propose(c, k, v, p)
             \/ \E v \in Vehicles, p \in BlockPeriods : CreateBlock(v, p)
             \/ \E b \in Blocks : ReleaseBlock(b)
    BY <2>4, OperationalAlone DEF Request, Propose, CreateBlock, ReleaseBlock
  <2>. QED BY <1>3, <2>1, <2>2, <2>3, <2>4, OperationalAlone DEF Direct
<1>4. CASE \/ \E w \in Workers : Look(w) \/ Abandon(w)
           \/ \E late \in SUBSET Reservations : Expire(late)
           \/ Tick
  BY <1>4, OperationalAlone DEF Look, Abandon, Expire, Tick
<1>. QED BY <1>1, <1>2, <1>3, <1>4, OperationalAlone DEF Next

-----------------------------------------------------------------------------
(* Cars that were sold: cars that are driven *)

\* The car of interval g is with the customer.
Driven(g) == leg[g] # NoRow /\ leg[g].till = NoRow /\ ctr[leg[g].ctr].status = "ACTIVE"

\* It was so before, or the car may be rented.
Drivable(g) == (Driven(g) /\ leg'[g].car = leg[g].car) \/ Rentable(leg'[g].car)

\* No contract comes into force.
NoneDelivered ==
    \A c \in Contracts : ctr[c] # NoRow /\ ctr'[c].status = "ACTIVE" => ctr[c].status = "ACTIVE"

LEMMA NoneDeliveredBy ==
    ASSUME IInv, NEW c \in Contracts,
           \/ ctr' = ctr
           \/ \E row : ctr' = [ctr EXCEPT ![c] = row] /\ row.status # "ACTIVE"
           \/ \E s : ctr[c] # NoRow /\ ctr' = [ctr EXCEPT ![c].status = s] /\ s # "ACTIVE"
           \/ \E to : ctr[c] # NoRow /\ ctr' = [ctr EXCEPT ![c].to = to]
    PROVE  NoneDelivered
<1>0. ctr[c] # NoRow => ctr[c] \in CtrRows
  BY DEF IInv, TypeOK, RefTo
<1>1. CASE ctr' = ctr
  BY <1>1 DEF NoneDelivered
<1>2. ASSUME NEW row, ctr' = [ctr EXCEPT ![c] = row],
             row.status = "ACTIVE" => ctr[c].status = "ACTIVE"
      PROVE  NoneDelivered
  <2>1. \A d \in Contracts : ctr'[d] = IF d = c THEN row ELSE ctr[d]
    BY <1>2 DEF IInv, TypeOK
  <2>. QED BY <1>2, <2>1 DEF NoneDelivered
<1>3. ASSUME NEW s, ctr[c] # NoRow, ctr' = [ctr EXCEPT ![c].status = s], s # "ACTIVE"
      PROVE  NoneDelivered
  <2>1. PICK row : row = [ctr[c] EXCEPT !.status = s]
    OBVIOUS
  <2>2. row.status = s
    BY <1>0, <1>3, <2>1 DEF CtrRows
  <2>3. ctr' = [ctr EXCEPT ![c] = row]
    BY <1>3, <2>1
  <2>. QED BY <1>2, <1>3, <2>2, <2>3
<1>4. ASSUME NEW to, ctr[c] # NoRow, ctr' = [ctr EXCEPT ![c].to = to]
      PROVE  NoneDelivered
  <2>1. PICK row : row = [ctr[c] EXCEPT !.to = to]
    OBVIOUS
  <2>2. row.status = ctr[c].status
    BY <1>0, <1>4, <2>1 DEF CtrRows
  <2>3. ctr' = [ctr EXCEPT ![c] = row]
    BY <1>4, <2>1
  <2>. QED BY <1>2, <1>4, <2>2, <2>3
<1>. QED BY <1>1, <1>2, <1>3, <1>4

\* An interval that is as it was, or closed, or of a car that may be rented
LEMMA DrivableBy ==
    ASSUME IInv, NoneDelivered, NEW g \in Legs, Driven(g)',
           leg'[g] = leg[g] \/ leg'[g].till # NoRow \/ Rentable(leg'[g].car)
    PROVE  Drivable(g)
<1>1. CASE leg'[g] = leg[g]
  <2>1. leg[g] # NoRow /\ leg[g].till = NoRow /\ ctr'[leg[g].ctr].status = "ACTIVE"
    BY <1>1 DEF Driven
  <2>2. leg[g].ctr \in Contracts /\ ctr[leg[g].ctr] # NoRow
    BY <2>1, RowTypes DEF IInv, Links
  <2>3. PICK c \in Contracts : c = leg[g].ctr
    BY <2>2
  <2>4. ctr[c].status = "ACTIVE"
    BY <2>1, <2>2, <2>3 DEF NoneDelivered
  <2>. QED BY <1>1, <2>1, <2>3, <2>4 DEF Drivable, Driven
<1>2. CASE leg'[g].till # NoRow
  BY <1>2 DEF Driven
<1>3. CASE Rentable(leg'[g].car)
  BY <1>3 DEF Drivable
<1>. QED BY <1>1, <1>2, <1>3

LEMMA LegEnds ==
    ASSUME IInv, NEW h \in Legs, leg[h] \in LegRows, NEW at \in Nat,
           leg' = [leg EXCEPT ![h].till = at]
    PROVE  \A g \in Legs : leg'[g] = leg[g] \/ leg'[g].till # NoRow
<1>1. PICK row : row = [leg[h] EXCEPT !.till = at]
  OBVIOUS
<1>2. row.till # NoRow
  BY <1>1, NoRowAssumption DEF LegRows
<1>3. \A g \in Legs : leg'[g] = IF g = h THEN row ELSE leg[g]
  BY <1>1 DEF IInv, TypeOK
<1>. QED BY <1>2, <1>3

\* A new contract that is not in force, with its first interval
LEMMA StartedDrivable ==
    ASSUME IInv, SpareLegs # {}, NEW c \in Contracts, NEW v, NEW from, NEW row,
           row.status # "ACTIVE", ctr' = [ctr EXCEPT ![c] = row],
           leg' = [leg EXCEPT ![NewLeg] = OpenLeg(c, v, from)],
           NEW g \in Legs, Driven(g)'
    PROVE  Drivable(g)
<1>1. NoneDelivered
  BY NoneDeliveredBy
<1>2. PICK new : new = OpenLeg(c, v, from)
  OBVIOUS
<1>3. new.ctr = c
  BY <1>2 DEF OpenLeg
<1>4. leg'[g] = leg[g] \/ leg'[g] = new
  BY <1>2 DEF IInv, TypeOK
<1>5. ctr'[c] = row
  BY DEF IInv, TypeOK
<1>6. leg'[g] # new
  BY <1>3, <1>5 DEF Driven
<1>. QED BY <1>1, <1>4, <1>6, DrivableBy

LEMMA ReservationDrivable ==
    ASSUME IInv, NEW w \in Workers, NEW r \in Reservations, ReservationStep(w, r),
           NEW g \in Legs, Driven(g)'
    PROVE  Drivable(g)
<1>1. CASE UNCHANGED <<ctr, leg>>
  BY <1>1 DEF Driven, Drivable
<1>2. ASSUME NEW c \in Contracts, Checkout(w, r, c) PROVE Drivable(g)
  <2>1. PICK row : row = Contract("APPROVED", "PERIOD", seen[w].row.from, seen[w].row.to, r, NoRow)
    OBVIOUS
  <2>2. row.status # "ACTIVE"
    BY <2>1 DEF Contract
  <2>3. PICK v, from : v = seen[w].row.vehicle /\ from = seen[w].row.from
    OBVIOUS
  <2>4. SpareLegs # {} /\ ctr' = [ctr EXCEPT ![c] = row]
        /\ leg' = [leg EXCEPT ![NewLeg] = OpenLeg(c, v, from)]
    BY <1>2, <2>1, <2>3 DEF Checkout
  <2>. QED BY <2>2, <2>4, StartedDrivable
<1>3. ASSUME NEW v, NEW p, NEW s,
             LoadReservation(w, r) \/ Confirm(w, r, v) \/ Update(w, r, v, p) \/ Cancel(w, r, s)
      PROVE  UNCHANGED <<ctr, leg>>
  BY <1>3 DEF LoadReservation, Confirm, Update, Cancel
<1>. QED BY <1>1, <1>2, <1>3 DEF ReservationStep

\* create() and renew()
LEMMA InsertedDrivable ==
    ASSUME IInv, NEW t, NEW c \in Contracts, NEW kind, NEW v, NEW from, NEW to, NEW old,
           InsertContract(t, c, kind, v, from, to, old), NEW g \in Legs, Driven(g)'
    PROVE  Drivable(g)
<1>1. PICK row : row = Contract("DRAFT", kind, from, to, NoRow, old)
  OBVIOUS
<1>2. row.status # "ACTIVE"
  BY <1>1 DEF Contract
<1>3. SpareLegs # {} /\ ctr' = [ctr EXCEPT ![c] = row]
      /\ leg' = [leg EXCEPT ![NewLeg] = OpenLeg(c, v, from)]
  BY <1>1 DEF InsertContract
<1>. QED BY <1>2, <1>3, StartedDrivable

\* The delivery looks at the car that it delivers, and that is the only one.
LEMMA ActivateDrivable ==
    ASSUME IInv, OneInHand, NEW w \in Workers, NEW c \in Contracts, Activate(w, c),
           NEW g \in Legs, Driven(g)'
    PROVE  Drivable(g)
<1>1. PICK h : h = seen[w].leg
  OBVIOUS
<1>2. /\ h \in Legs /\ leg[h] \in LegRows /\ leg[h] # NoRow /\ Rentable(leg[h].car)
      /\ ctr[c] \in CtrRows /\ now \in Nat /\ seen[w] # NoRow /\ seen[w].id = c
  BY <1>1, HeldContract DEF Activate, Holding, IInv, TypeOK
<1>3. PICK row : row = [leg[h] EXCEPT !.from = now]
  OBVIOUS
<1>4. row.ctr = leg[h].ctr /\ row.car = leg[h].car /\ row.till = leg[h].till
  BY <1>2, <1>3 DEF LegRows
<1>5. \A x \in Legs : leg'[x] = IF x = h THEN row ELSE leg[x]
  BY <1>1, <1>3 DEF Activate, IInv, TypeOK
<1>6. CASE g = h
  BY <1>2, <1>4, <1>5, <1>6 DEF Drivable
<1>7. CASE g # h
  <2>1. leg'[g] = leg[g] /\ leg[g] # NoRow /\ leg[g].till = NoRow /\ ctr'[leg[g].ctr].status = "ACTIVE"
    BY <1>5, <1>7 DEF Driven
  <2>2. leg[g].ctr # c
    BY <1>1, <1>2, <1>7, <2>1 DEF OneInHand, OpenLegs
  <2>3. leg[g].ctr \in Contracts /\ ctr'[leg[g].ctr] = ctr[leg[g].ctr]
    BY <2>1, <2>2, RowTypes DEF Activate, IInv, TypeOK
  <2>. QED BY <2>1, <2>3 DEF Drivable, Driven
<1>. QED BY <1>6, <1>7

\* cancel() and finish(): the contract is over, or its interval stays as it was.
LEMMA EndedDrivable ==
    ASSUME IInv, NEW w \in Workers, NEW c \in Contracts, NEW s \in {"CLOSED", "TERMINATED"},
           NEW at \in Nat, CancelContract(w, c) \/ Finish(w, c, s, at),
           NEW g \in Legs, Driven(g)'
    PROVE  Drivable(g)
<1>1. Holding(w, c) /\ now \in Nat
  BY DEF CancelContract, Finish, IInv, TypeOK
<1>2. ctr[c] # NoRow /\ (seen[w].leg # NoRow =>
          seen[w].since \in Nat /\ seen[w].leg \in Legs /\ leg[seen[w].leg] \in LegRows)
  BY <1>1, HeldContract
<1>3. NoneDelivered
  <2>1. ctr' = [ctr EXCEPT ![c].status = "CANCELLED"] \/ ctr' = [ctr EXCEPT ![c].status = s]
    BY DEF CancelContract, Finish
  <2>. QED BY <1>2, <2>1, NoneDeliveredBy
<1>4. leg' = leg \/ (seen[w].leg # NoRow /\ \E x \in {now, at} :
          leg' = [leg EXCEPT ![seen[w].leg].till = Later(seen[w].since, x)])
  BY DEF CancelContract, Finish
<1>5. leg'[g] = leg[g] \/ leg'[g].till # NoRow
  <2>1. CASE leg' = leg
    BY <2>1
  <2>2. ASSUME NEW x \in {now, at}, seen[w].leg # NoRow,
               leg' = [leg EXCEPT ![seen[w].leg].till = Later(seen[w].since, x)]
        PROVE  leg'[g] = leg[g] \/ leg'[g].till # NoRow
    <3>1. PICK end \in Nat : end = Later(seen[w].since, x)
      BY <1>1, <1>2, <2>2 DEF Later
    <3>. QED BY <1>2, <2>2, <3>1, LegEnds
  <2>. QED BY <1>4, <2>1, <2>2
<1>. QED BY <1>3, <1>5, DrivableBy

\* A car that enters in place of another may be rented.
LEMMA SwapDrivable ==
    ASSUME IInv, NEW w \in Workers, NEW c \in Contracts, NEW v,
           SwapProposed(w, c, v) \/ SwapInForce(w, c, v), NEW g \in Legs, Driven(g)'
    PROVE  Drivable(g)
<1>1. Holding(w, c) /\ ctr' = ctr /\ seen[w].leg # NoRow /\ now \in Nat
  BY DEF SwapProposed, SwapInForce, IInv, TypeOK
<1>2. PICK h : h = seen[w].leg /\ h \in Legs /\ leg[h] \in LegRows /\ seen[w].since \in Nat
  BY <1>1, HeldContract
<1>3. Rentable(v)
  BY DEF SwapProposed, SwapInForce, Allocate
<1>4. \E at, from : at \in Nat /\ leg' = [leg EXCEPT ![h].till = at, ![NewLeg] = OpenLeg(c, v, from)]
  BY <1>1, <1>2 DEF SwapProposed, SwapInForce
<1>5. PICK at, from : at \in Nat /\ leg' = [leg EXCEPT ![h].till = at, ![NewLeg] = OpenLeg(c, v, from)]
  BY <1>4
<1>6. PICK new, row : new = OpenLeg(c, v, from) /\ row = [leg[h] EXCEPT !.till = at]
  OBVIOUS
<1>7. new.car = v
  BY <1>6 DEF OpenLeg
<1>8. row.till # NoRow
  BY <1>2, <1>5, <1>6, NoRowAssumption DEF LegRows
<1>9. SpareLegs # {} /\ leg[h] # NoRow
  BY <1>2, RowAssumption DEF SwapProposed, SwapInForce
<1>10. NewLeg \in Legs /\ NewLeg # h
  BY <1>9 DEF SpareLegs, NewLeg
<1>11. \A x \in Legs : leg'[x] = IF x = NewLeg THEN new ELSE IF x = h THEN row ELSE leg[x]
  BY <1>2, <1>5, <1>6, <1>10 DEF IInv, TypeOK
<1>12. leg'[g] = leg[g] \/ leg'[g].till # NoRow \/ Rentable(leg'[g].car)
  <2>1. leg'[g] \in {leg[g], row, new}
    BY <1>11
  <2>2. CASE leg'[g] = new
    BY <1>3, <1>7, <2>2
  <2>. QED BY <1>8, <2>1, <2>2
<1>13. NoneDelivered
  BY <1>1, NoneDeliveredBy
<1>. QED BY <1>12, <1>13, DrivableBy

LEMMA DeskDrivable ==
    ASSUME IInv, OneInHand, Next, NEW g \in Legs, Driven(g)'
    PROVE  Drivable(g)
<1>0. MaxTime \in Nat
  BY TimeAssumption
<1>1. ASSUME UNCHANGED <<ctr, leg>> PROVE Drivable(g)
  BY <1>1 DEF Driven, Drivable
<1>2. ASSUME NEW w \in Workers, NEW c \in Contracts, ContractStep(w, c) PROVE Drivable(g)
  <2>1. CASE LoadContract(w, c)
    BY <1>1, <2>1 DEF LoadContract
  <2>2. CASE Submit(w, c) \/ Approve(w, c)
    <3>1. /\ Holding(w, c) /\ leg' = leg
          /\ \E s : ctr' = [ctr EXCEPT ![c].status = s] /\ s # "ACTIVE"
      BY <2>2 DEF Submit, Approve, Advance
    <3>2. ctr[c] # NoRow
      BY <3>1, HeldContract
    <3>3. NoneDelivered
      BY <3>1, <3>2, NoneDeliveredBy
    <3>. QED BY <3>1, <3>3, DrivableBy
  <2>3. ASSUME NEW to, Extend(w, c, to) PROVE Drivable(g)
    <3>1. Holding(w, c) /\ leg' = leg /\ ctr' = [ctr EXCEPT ![c].to = to]
      BY <2>3 DEF Extend
    <3>2. ctr[c] # NoRow
      BY <3>1, HeldContract
    <3>3. NoneDelivered
      BY <3>1, <3>2, NoneDeliveredBy
    <3>. QED BY <3>1, <3>3, DrivableBy
  <2>4. ASSUME NEW d \in Contracts, NEW to, Renew(w, c, d, to) PROVE Drivable(g)
    <3>1. \E t, v, from : InsertContract(t, d, "LONG_TERM", v, from, to, c)
      BY <2>4 DEF Renew
    <3>. QED BY <3>1, InsertedDrivable
  <2>5. CASE \E s \in {"CLOSED", "TERMINATED"}, at \in 0 .. MaxTime : Finish(w, c, s, at)
    BY <1>0, <2>5, EndedDrivable
  <2>6. CASE CancelContract(w, c)
    BY <1>0, <2>6, EndedDrivable
  <2>. QED BY <1>2, <2>1, <2>2, <2>3, <2>4, <2>5, <2>6, ActivateDrivable, SwapDrivable DEF ContractStep
<1>3. CASE Direct
  <2>1. ASSUME NEW c \in Contracts, NEW k, NEW v, NEW p, Propose(c, k, v, p) PROVE Drivable(g)
    BY <2>1, InsertedDrivable DEF Propose
  <2>2. CASE \/ \E r \in Reservations, p \in Periods : Request(r, p)
             \/ \E r \in Reservations, p \in Periods, v \in Vehicles : RequestConfirmed(r, p, v)
    BY <1>1, <2>2 DEF Request, RequestConfirmed
  <2>3. CASE \E c \in Contracts, v \in Vehicles, t \in {"DELIVERY", "RETURN"} :
                OpenInspection(c, v, t) \/ CompleteInspection(c, v, t)
    BY <1>1, <2>3 DEF OpenInspection, CompleteInspection
  <2>4. CASE \/ \E v \in Vehicles, to \in ManualStatuses : ChangeOperational(v, to)
             \/ \E v \in Vehicles, p \in BlockPeriods : CreateBlock(v, p)
             \/ \E b \in Blocks : ReleaseBlock(b)
    BY <1>1, <2>4 DEF ChangeOperational, CreateBlock, ReleaseBlock
  <2>. QED BY <1>3, <2>1, <2>2, <2>3, <2>4 DEF Direct
<1>4. CASE \/ \E w \in Workers : Look(w) \/ Abandon(w)
           \/ \E late \in SUBSET Reservations : Expire(late)
           \/ Tick
  BY <1>1, <1>4 DEF Look, Abandon, Expire, Tick
<1>. QED BY <1>2, <1>3, <1>4, ReservationDrivable DEF Next

-----------------------------------------------------------------------------
(* Cars that were sold: the invariant *)

\* vehicle_sales_one_open
OneAnnouncement ==
    \A s, t \in Ads : /\ sale[s] # NoRow /\ sale[s].status \in OnSale
                      /\ sale[t] # NoRow /\ sale[t].status \in OnSale
                      /\ sale[s].car = sale[t].car
                      => s = t

\* Car v was sold once, and nobody offers it.
WasSold(v) ==
    /\ \E s \in Ads : sale[s] = [car |-> v, status |-> "SOLD"]
    /\ \A s \in Ads : sale[s] # NoRow /\ sale[s].car = v => sale[s].status \notin OnSale

\* No reservation and no work order waits for it.
Unbooked(v) == ToCome(v, {"RESERVATION", "MAINTENANCE"}) = {}
Unserviced(v) == \A o \in Orders : OpenOrder(o) => wo[o].car # v

\* No customer has it.
Undriven(v) == \A g \in Legs : Driven(g) => leg[g].car # v

\* What is sold is out of the business, but for who drives it.
SoldOut == \A v \in Vehicles : IsSold(v) => WasSold(v) /\ Unbooked(v) /\ Unserviced(v)
SoldUndriven == \A v \in Vehicles : IsSold(v) => Undriven(v)

SaleInv == WorkInv /\ OfContracts /\ sale \in [Ads -> RefTo(AdRows)] /\ OneAnnouncement /\ SoldOut

-----------------------------------------------------------------------------
(* Cars that were sold: the steps of the desk *)

LEMMA DeskUnbooked ==
    ASSUME SaleInv, Next, NEW v \in Vehicles, IsSold(v)
    PROVE  Unbooked(v)'
<1>1. IInv /\ OfContracts /\ Unbooked(v) /\ FleetInv /\ WorkKept(block, block')
  BY DeskAside DEF SaleInv, WorkInv, FleetInv, SoldOut
<1>2. \A b \in Blocks : DeskWrites(b)
  BY <1>1, DeskWritesAll
<1>3. now \in Nat /\ now' \in Nat /\ now <= now'
  BY <1>1, TimeFlows DEF IInv, TypeOK
<1>4. ASSUME NEW b \in Blocks, block'[b] # NoRow, block'[b].vehicle = v,
             block'[b].kind \in {"RESERVATION", "MAINTENANCE"}, block'[b].until > now'
      PROVE  FALSE
  <2>1. CASE block'[b] = block[b]
    <3>1. block[b].until \in Nat
      BY <1>1, <1>4, <2>1, RowTypes DEF BlockRows
    <3>2. block[b].until > now
      BY <1>3, <1>4, <2>1, <3>1
    <3>. QED BY <1>1, <1>4, <2>1, <3>2 DEF Unbooked, ToCome
  <2>2. CASE Rentable(block'[b].vehicle)
    BY <1>4, <2>2 DEF Rentable, IsSold, OffFleet
  <2>. QED BY <1>1, <1>2, <1>4, <2>1, <2>2 DEF DeskWrites
<1>. QED BY <1>4 DEF Unbooked, ToCome

LEMMA DeskSaleInv ==
    ASSUME SaleInv, WorkInv', Next, UNCHANGED <<wo, sale>>
    PROVE  SaleInv'
<1>1. IInv /\ OfContracts
  BY DEF SaleInv, WorkInv, FleetInv
<1>2. OfContracts' /\ SoldAlone
  BY <1>1, DeskOfContracts, DeskSellsNone
<1>3. ASSUME NEW v \in Vehicles, IsSold(v)' PROVE (WasSold(v) /\ Unbooked(v) /\ Unserviced(v))'
  <2>1. IsSold(v)
    BY <1>2, <1>3 DEF SoldAlone
  <2>2. Unbooked(v)'
    BY <2>1, DeskUnbooked
  <2>. QED BY <2>1, <2>2 DEF SaleInv, SoldOut, WasSold, Unserviced, OpenOrder
<1>. QED BY <1>2, <1>3 DEF SaleInv, SoldOut, OneAnnouncement

-----------------------------------------------------------------------------
(* Cars that were sold: the steps of the workshop *)

\* What a step of an order leaves under identifier b: what was there, nothing,
\* or a block of an order, that is over or of a car that is not sold.
OrderWrites(b) ==
    \/ block'[b] = block[b]
    \/ block'[b] = NoRow
    \/ /\ IsWork(block', b)
       /\ ~(block'[b].until > now) \/ ~IsSold(block'[b].vehicle)

LEMMA UpdateWrites ==
    ASSUME SaleInv, NEW o \in Orders, NEW due \in Deadlines, UpdateWork(o, due)
    PROVE  \A b \in Blocks : OrderWrites(b)
<1>1. PICK x : x = wo[o].block
  OBVIOUS
<1>2. /\ wo[o] # NoRow /\ OpenOrder(o) /\ wo[o] \in OrderRows /\ OrderTrue(o)
      /\ block \in Table /\ FleetInv /\ OrdersTrue
  BY DEF UpdateWork, OpenOrder, SaleInv, WorkInv, FleetInv, IInv, Sound, RefTo, OrdersTrue
<1>3. CASE ~Live(block, x)
  BY <1>1, <1>3 DEF UpdateWork, Postponed, OrderWrites
<1>4. CASE Live(block, x)
  <2>1. x \in Blocks /\ x # NoRow /\ block[x] \in BlockRows
    BY <1>2, <1>4, NoRowAssumption DEF Live, Table, RefTo
  <2>2. IsWork(block, x) /\ block[x].vehicle = wo[o].car
    BY <1>1, <1>2, <2>1 DEF OrderTrue
  <2>3. PICK row : row = Extended(block[x], due)
    OBVIOUS
  <2>4. row.kind = "MAINTENANCE" /\ row.vehicle = wo[o].car /\ row # NoRow
    <3>1. row \in BlockRows
      BY <2>1, <2>3, MovedRowType, OrderAssumption
    <3>. QED BY <2>1, <2>2, <2>3, <3>1, WorkMoved, RowAssumption DEF IsWork
  <2>5. ~IsSold(row.vehicle)
    <3>1. wo[o].car \in Vehicles
      BY <1>2 DEF OrderRows
    <3>. QED BY <1>2, <2>4, <3>1 DEF SaleInv, SoldOut, Unserviced
  <2>6. block' = [block EXCEPT ![x] = row]
    BY <1>1, <1>4, <2>3 DEF UpdateWork, Postponed, Write
  <2>7. \A b \in Blocks : block'[b] = IF b = x THEN row ELSE block[b]
    BY <1>2, <2>6 DEF Table
  <2>. QED BY <2>4, <2>5, <2>7 DEF OrderWrites, IsWork
<1>. QED BY <1>3, <1>4

LEMMA OpenWrites ==
    ASSUME SaleInv, NEW o \in Orders, NEW v \in Vehicles, NEW blocks \in BOOLEAN,
           NEW due \in Deadlines, OpenWork(o, v, blocks, due)
    PROVE  \A b \in Blocks : OrderWrites(b)
<1>1. block \in Table /\ now \in Nat
  BY DEF SaleInv, WorkInv, FleetInv, IInv, Sound, TypeOK
<1>2. CASE block' = block
  BY <1>2 DEF OrderWrites
<1>3. CASE blocks
  <2>1. PICK n, row : n = NewBlock /\ row = WorkRow(v, due)
    OBVIOUS
  <2>2. n \in Blocks /\ block' = [block EXCEPT ![n] = row]
    BY <1>3, <2>1, NewBlockIsBlock DEF OpenWork, Write
  <2>3. row.kind = "MAINTENANCE" /\ row.vehicle = v
    BY <2>1 DEF WorkRow, Row
  <2>4. row # NoRow
    <3>1. row \in BlockRows
      BY <1>1, <2>1, OrderAssumption DEF WorkRow, Row, BlockRows, RefTo
    <3>. QED BY <3>1, RowAssumption
  <2>5. ~IsSold(v)
    BY DEF OpenWork, IsSold
  <2>6. \A b \in Blocks : block'[b] = IF b = n THEN row ELSE block[b]
    BY <1>1, <2>2 DEF Table
  <2>. QED BY <2>3, <2>4, <2>5, <2>6 DEF OrderWrites, IsWork
<1>. QED BY <1>2, <1>3 DEF OpenWork

LEMMA FreedWrites ==
    ASSUME SaleInv, NEW o \in Orders, wo[o] # NoRow, block' = Freed(wo[o].block)
    PROVE  \A b \in Blocks : OrderWrites(b)
<1>1. block \in Table /\ now \in Nat /\ IInv
  BY DEF SaleInv, WorkInv, FleetInv, IInv, Sound, TypeOK
<1>2. PICK x : x = wo[o].block
  OBVIOUS
<1>3. CASE block' = block \/ block' = Release(block, x)
  BY <1>1, <1>3, ReleaseWrites DEF OrderWrites
<1>4. CASE Live(block, x) /\ block' = Write(block, x, [block[x] EXCEPT !.to = now, !.until = now])
  <2>1. x \in Blocks /\ x # NoRow /\ block[x] \in BlockRows
    BY <1>1, <1>4, NoRowAssumption DEF Live, Table, RefTo
  <2>2. block[x].kind = "MAINTENANCE"
    BY <1>2, <2>1 DEF SaleInv, WorkInv, OrdersTrue, OrderTrue, IsWork
  <2>3. PICK row : row = [block[x] EXCEPT !.to = now, !.until = now]
    OBVIOUS
  <2>4. row \in BlockRows /\ row.kind = "MAINTENANCE" /\ row.until = now
    BY <1>1, <2>1, <2>2, <2>3 DEF BlockRows
  <2>5. \A b \in Blocks : block'[b] = IF b = x THEN row ELSE block[b]
    BY <1>1, <1>4, <2>3 DEF Table, Write
  <2>6. row # NoRow /\ ~(row.until > now)
    BY <1>1, <2>4, RowAssumption
  <2>. QED BY <2>4, <2>5, <2>6 DEF OrderWrites, IsWork
<1>. QED BY <1>2, <1>3, <1>4 DEF Freed

\* No order opens again, and none is opened for a car that was sold.
OrdersStay ==
    \A p \in Orders : OpenOrder(p)' =>
        (OpenOrder(p) /\ wo'[p].car = wo[p].car) \/ ~IsSold(wo'[p].car)

LEMMA OneStays ==
    ASSUME FleetInv, NEW o \in Orders, wo[o] # NoRow, NEW row,
           wo' = [wo EXCEPT ![o] = row], row.car = wo[o].car,
           row.status \in OpenStatuses => OpenOrder(o)
    PROVE  OrdersStay
<1>1. \A p \in Orders : wo'[p] = IF p = o THEN row ELSE wo[p]
  BY DEF FleetInv
<1>. QED BY <1>1 DEF OrdersStay, OpenOrder

LEMMA WorkshopStep ==
    ASSUME SaleInv, NEW o \in Orders, WorkOrderStep(o)
    PROVE  /\ \A b \in Blocks : OrderWrites(b)
           /\ OrdersStay /\ SoldAlone /\ now' = now /\ seen' = seen /\ leg' = leg /\ ctr' = ctr
<1>1. FleetInv /\ IInv
  BY DEF SaleInv, WorkInv, FleetInv
<1>2. ASSUME block' = block PROVE \A b \in Blocks : OrderWrites(b)
  BY <1>2 DEF OrderWrites
<1>3. wo[o] # NoRow => wo[o] \in OrderRows
  BY <1>1 DEF FleetInv, RefTo
<1>4. ASSUME NEW s, wo[o] # NoRow, wo' = [wo EXCEPT ![o].status = s], s \in OpenStatuses => OpenOrder(o)
      PROVE  OrdersStay
  <2>1. PICK row : row = [wo[o] EXCEPT !.status = s]
    OBVIOUS
  <2>2. row.car = wo[o].car /\ row.status = s
    BY <1>3, <1>4, <2>1 DEF OrderRows
  <2>. QED BY <1>1, <1>4, <2>1, <2>2, OneStays
<1>5. ASSUME NEW v \in Vehicles, NEW blocks \in BOOLEAN, NEW due \in Deadlines,
             OpenWork(o, v, blocks, due)
      PROVE  OrdersStay /\ SoldAlone
  <2>1. (\A p \in Orders \ {o} : wo'[p] = wo[p]) /\ wo'[o].car = v
    BY <1>1, <1>5, OrderOpened
  <2>2. ~IsSold(v)
    BY <1>5 DEF OpenWork, IsSold
  <2>3. OrdersStay
    BY <2>1, <2>2 DEF OrdersStay, OpenOrder
  <2>4. unit' = unit \/ Enters(v, "IN_MAINTENANCE")
    BY <1>5 DEF OpenWork
  <2>. QED BY <1>1, <2>3, <2>4, OperationalAlone
<1>6. CASE \E v \in Vehicles, blocks \in BOOLEAN, due \in Deadlines : OpenWork(o, v, blocks, due)
  <2>1. UNCHANGED <<now, seen, leg, ctr>>
    BY <1>6 DEF OpenWork
  <2>. QED BY <1>5, <1>6, <2>1, OpenWrites
<1>7. ASSUME NEW due \in Deadlines, UpdateWork(o, due)
      PROVE  OrdersStay /\ SoldAlone /\ UNCHANGED <<now, seen, leg, ctr>>
  <2>1. wo[o] # NoRow /\ OpenOrder(o) /\ wo' = [wo EXCEPT ![o].due = due] /\ unit' = unit
        /\ UNCHANGED <<now, seen, leg, ctr>>
    BY <1>7 DEF UpdateWork, OpenOrder
  <2>2. PICK row : row = [wo[o] EXCEPT !.due = due]
    OBVIOUS
  <2>3. row.car = wo[o].car
    BY <1>3, <2>1, <2>2 DEF OrderRows
  <2>4. OrdersStay
    BY <1>1, <2>1, <2>2, <2>3, OneStays
  <2>. QED BY <1>1, <2>1, <2>4, OperationalAlone
<1>8. CASE \E to \in Stages : Transition(o, to)
  BY <1>1, <1>2, <1>4, <1>8, OperationalAlone DEF Transition, OpenOrder, rentalVars, vars
<1>9. CASE ApproveWork(o)
  <2>1. PICK s : s = IF wo[o].status = "AWAITING_PARTS" THEN wo[o].status ELSE "IN_PROGRESS"
    OBVIOUS
  <2>2. OpenOrder(o) /\ wo[o] # NoRow /\ wo' = [wo EXCEPT ![o].status = s]
    BY <1>1, <1>9, <2>1 DEF ApproveWork, OpenOrder, FleetInv
  <2>. QED BY <1>1, <1>2, <1>4, <1>9, <2>2, OperationalAlone DEF ApproveWork, rentalVars, vars
<1>10. CASE CompleteWork(o)
  <2>1. /\ OpenOrder(o) /\ wo[o] # NoRow /\ wo' = [wo EXCEPT ![o].status = "COMPLETED"]
        /\ UNCHANGED <<now, seen, leg, ctr, block>>
        /\ unit' = unit \/ Enters(wo[o].car, "AWAITING_RELEASE")
    BY <1>10 DEF CompleteWork, OpenOrder
  <2>. QED BY <1>1, <1>2, <1>4, <2>1, OperationalAlone
<1>11. CASE ReleaseWork(o) \/ CancelWork(o)
  <2>1. /\ wo[o] # NoRow /\ block' = Freed(wo[o].block) /\ UNCHANGED <<now, seen, leg, ctr>>
        /\ unit' = unit \/ Enters(wo[o].car, "RELEASED")
    BY <1>11 DEF ReleaseWork, CancelWork, Frees, OpenOrder
  <2>2. wo[o] \in OrderRows
    BY <1>3, <2>1
  <2>3. ASSUME ReleaseWork(o) PROVE OrdersStay
    <3>1. PICK row : row = [wo[o] EXCEPT !.released = TRUE, !.block = KeptBlock(o)]
      OBVIOUS
    <3>2. wo' = [wo EXCEPT ![o] = row] /\ wo[o].status = "COMPLETED"
      BY <1>1, <2>3, <3>1 DEF ReleaseWork, FleetInv
    <3>3. row.car = wo[o].car /\ row.status \notin OpenStatuses
      BY <2>2, <3>1, <3>2 DEF OrderRows, OpenStatuses
    <3>. QED BY <1>1, <2>1, <3>2, <3>3, OneStays
  <2>4. ASSUME CancelWork(o) PROVE OrdersStay
    <3>1. PICK row : row = [wo[o] EXCEPT !.status = "CANCELLED", !.block = KeptBlock(o)]
      OBVIOUS
    <3>2. wo' = [wo EXCEPT ![o] = row]
      BY <1>1, <2>4, <3>1 DEF CancelWork, FleetInv
    <3>3. row.car = wo[o].car /\ row.status \notin OpenStatuses
      BY <2>2, <3>1 DEF OrderRows, OpenStatuses
    <3>. QED BY <1>1, <2>1, <3>2, <3>3, OneStays
  <2>5. OrdersStay
    BY <1>11, <2>3, <2>4
  <2>. QED BY <1>1, <2>1, <2>5, FreedWrites, OperationalAlone
<1>. QED BY <1>6, <1>7, <1>8, <1>9, <1>10, <1>11, UpdateWrites DEF WorkOrderStep

LEMMA WorkSaleInv ==
    ASSUME SaleInv, WorkInv', UNCHANGED sale,
           \A b \in Blocks : OrderWrites(b), OrdersStay, SoldAlone, now' = now, seen' = seen
    PROVE  SaleInv'
<1>1. OfContracts /\ SoldOut /\ Apart' /\ OneAnnouncement /\ sale \in [Ads -> RefTo(AdRows)]
  BY DEF SaleInv, WorkInv
<1>2. ASSUME NEW b \in Blocks, block'[b] # NoRow, block'[b].leg # NoRow
      PROVE  block'[b].kind = "CONTRACT"
  <2>1. ~IsWork(block', b)
    BY <1>1, <1>2 DEF Apart
  <2>. QED BY <1>1, <1>2, <2>1 DEF OfContracts, OrderWrites
<1>3. ASSUME NEW w \in Workers, seen'[w] # NoRow, seen'[w].id \in Contracts,
             Live(block', seen'[w].block)
      PROVE  block'[seen'[w].block].kind = "CONTRACT"
  <2>1. PICK b \in Blocks : b = seen[w].block /\ block'[b] # NoRow
    BY <1>3 DEF Live
  <2>2. ~IsWork(block', b)
    BY <1>1, <1>3, <2>1 DEF Apart
  <2>3. block'[b] = block[b]
    BY <2>1, <2>2 DEF OrderWrites
  <2>. QED BY <1>1, <1>3, <2>1, <2>3 DEF OfContracts, Live
<1>4. OfContracts'
  BY <1>2, <1>3 DEF OfContracts, Live
<1>5. ASSUME NEW v \in Vehicles, IsSold(v)' PROVE (WasSold(v) /\ Unbooked(v) /\ Unserviced(v))'
  <2>1. IsSold(v) /\ WasSold(v) /\ Unbooked(v) /\ Unserviced(v)
    BY <1>1, <1>5 DEF SoldAlone, SoldOut
  <2>2. WasSold(v)'
    BY <2>1 DEF WasSold
  <2>3. ASSUME NEW b \in Blocks, block'[b] # NoRow, block'[b].vehicle = v,
               block'[b].kind \in {"RESERVATION", "MAINTENANCE"}, block'[b].until > now
        PROVE  FALSE
    <3>1. block'[b] = block[b]
      BY <2>1, <2>3 DEF OrderWrites
    <3>. QED BY <2>1, <2>3, <3>1 DEF Unbooked, ToCome
  <2>4. Unbooked(v)'
    BY <2>3 DEF Unbooked, ToCome
  <2>5. Unserviced(v)'
    BY <2>1 DEF Unserviced, OrdersStay, OpenOrder
  <2>. QED BY <2>2, <2>4, <2>5
<1>. QED BY <1>1, <1>4, <1>5 DEF SaleInv, SoldOut, OneAnnouncement

-----------------------------------------------------------------------------
(* Cars that were sold: the steps of the sales *)

\* What a step of the sales does: a car that is sold after it was sold once, and
\* was sold before or had nothing left to wait for.
SellsWell ==
    /\ sale' \in [Ads -> RefTo(AdRows)] /\ OneAnnouncement'
    /\ UNCHANGED <<now, ctr, leg, block, seen, wo>>
    /\ \A v \in Vehicles : IsSold(v)' =>
          WasSold(v)' /\ (IsSold(v) \/ (Unbooked(v) /\ Unserviced(v) /\ Undriven(v)))

LEMMA CommercialWrites ==
    ASSUME IInv, NEW v, NEW status, Commercial(v, status)
    PROVE  \A u \in Vehicles : IsSold(u)' <=> IF u = v THEN status = "SOLD" ELSE IsSold(u)
  BY DEF Commercial, IsSold, IInv, TypeOK

\* One announcement is written.
LEMMA AdWritten ==
    ASSUME SaleInv, NEW s \in Ads, NEW row \in AdRows, sale' = [sale EXCEPT ![s] = row]
    PROVE  /\ sale' \in [Ads -> RefTo(AdRows)]
           /\ \A t \in Ads : sale'[t] = IF t = s THEN row ELSE sale[t]
  BY DEF SaleInv, RefTo

\* An announcement that was open is written, and its car stays.
LEMMA AdGoesOn ==
    ASSUME SaleInv, NEW s \in Ads, NEW st \in OnSale \cup {"SOLD", "WITHDRAWN"},
           sale[s] # NoRow, sale[s].status \in OnSale, sale' = [sale EXCEPT ![s].status = st]
    PROVE  /\ sale' \in [Ads -> RefTo(AdRows)] /\ OneAnnouncement'
           /\ sale'[s] = [car |-> sale[s].car, status |-> st]
           /\ \A t \in Ads \ {s} : sale'[t] = sale[t]
           /\ sale[s].car \in Vehicles
<1>1. sale[s] \in AdRows
  BY DEF SaleInv, RefTo
<1>2. PICK row : row = [car |-> sale[s].car, status |-> st]
  OBVIOUS
<1>3. row \in AdRows /\ row.car = sale[s].car /\ row.status = st /\ sale[s].car \in Vehicles
  BY <1>1, <1>2 DEF AdRows
<1>4. [sale[s] EXCEPT !.status = st] = row
  BY <1>1, <1>2 DEF AdRows
<1>5. sale' = [sale EXCEPT ![s] = row]
  BY <1>4 DEF SaleInv
<1>6. /\ sale' \in [Ads -> RefTo(AdRows)]
      /\ \A t \in Ads : sale'[t] = IF t = s THEN row ELSE sale[t]
  BY <1>3, <1>5, AdWritten
<1>7. OneAnnouncement'
  BY <1>3, <1>6 DEF SaleInv, OneAnnouncement
<1>. QED BY <1>2, <1>3, <1>6, <1>7

LEMMA SoldNotOnSale ==
    ASSUME SaleInv, NEW v \in Vehicles, IsSold(v), NEW s \in Ads, sale[s] # NoRow, sale[s].car = v
    PROVE  sale[s].status \notin OnSale
  BY DEF SaleInv, SoldOut, WasSold

LEMMA NegotiateSells ==
    ASSUME SaleInv, NEW s \in Ads, Negotiate(s)
    PROVE  SellsWell
<1>1. /\ sale[s] # NoRow /\ sale[s].status \in OnSale /\ sale' = [sale EXCEPT ![s].status = "NEGOTIATING"]
      /\ UNCHANGED <<now, ctr, leg, block, seen, wo, unit>>
  BY DEF Negotiate, rentalVars, vars, OnSale
<1>2. /\ sale' \in [Ads -> RefTo(AdRows)] /\ OneAnnouncement'
      /\ sale'[s] = [car |-> sale[s].car, status |-> "NEGOTIATING"]
      /\ \A t \in Ads \ {s} : sale'[t] = sale[t]
  BY <1>1, AdGoesOn DEF OnSale
<1>3. ASSUME NEW v \in Vehicles, IsSold(v)' PROVE WasSold(v)' /\ IsSold(v)
  <2>1. IsSold(v) /\ WasSold(v)
    BY <1>1, <1>3 DEF IsSold, SaleInv, SoldOut
  <2>2. sale[s].car # v
    BY <1>1, <2>1, SoldNotOnSale
  <2>3. sale'[s].car # v
    BY <1>2, <2>2
  <2>4. PICK t \in Ads : sale[t] = [car |-> v, status |-> "SOLD"]
    BY <2>1 DEF WasSold
  <2>5. t # s
    BY <2>2, <2>4
  <2>. QED BY <1>2, <2>1, <2>3, <2>4, <2>5 DEF WasSold
<1>. QED BY <1>1, <1>2, <1>3 DEF SellsWell

LEMMA WithdrawSells ==
    ASSUME SaleInv, NEW s \in Ads, Withdraw(s)
    PROVE  SellsWell
<1>1. /\ sale[s] # NoRow /\ sale[s].status \in OnSale /\ sale' = [sale EXCEPT ![s].status = "WITHDRAWN"]
      /\ UNCHANGED <<now, ctr, leg, block, seen, wo>> /\ IInv
  BY DEF Withdraw, SaleInv, WorkInv, FleetInv
<1>2. /\ sale' \in [Ads -> RefTo(AdRows)] /\ OneAnnouncement'
      /\ sale'[s] = [car |-> sale[s].car, status |-> "WITHDRAWN"]
      /\ \A t \in Ads \ {s} : sale'[t] = sale[t]
  BY <1>1, AdGoesOn
<1>3. \A u \in Vehicles : IsSold(u)' => IsSold(u)
  <2>1. PICK v, st : v = sale[s].car /\ st = ByAgenda(v)
    OBVIOUS
  <2>2. Commercial(v, st) /\ st # "SOLD"
    BY <2>1, ByAgendaTyped DEF Withdraw, BackToFleet
  <2>. QED BY <1>1, <2>2, CommercialWrites
<1>4. ASSUME NEW v \in Vehicles, IsSold(v)' PROVE WasSold(v)' /\ IsSold(v)
  <2>1. IsSold(v) /\ WasSold(v)
    BY <1>3, <1>4 DEF SaleInv, SoldOut
  <2>2. sale[s].car # v
    BY <1>1, <2>1, SoldNotOnSale
  <2>3. sale'[s].car # v
    BY <1>2, <2>2
  <2>4. PICK t \in Ads : sale[t] = [car |-> v, status |-> "SOLD"]
    BY <2>1 DEF WasSold
  <2>5. t # s
    BY <2>2, <2>4
  <2>. QED BY <1>2, <2>1, <2>3, <2>4, <2>5 DEF WasSold
<1>. QED BY <1>1, <1>2, <1>4 DEF SellsWell

LEMMA CloseSells ==
    ASSUME SaleInv, NEW s \in Ads, Close(s)
    PROVE  SellsWell
<1>1. PICK v : v = sale[s].car
  OBVIOUS
<1>2. /\ sale[s] # NoRow /\ sale[s].status \in OnSale /\ sale' = [sale EXCEPT ![s].status = "SOLD"]
      /\ UNCHANGED <<now, ctr, leg, block, seen, wo>> /\ IInv
      /\ CanClose(v) /\ Commercial(v, "SOLD")
  BY <1>1 DEF Close, SaleInv, WorkInv, FleetInv
<1>3. /\ sale' \in [Ads -> RefTo(AdRows)] /\ OneAnnouncement' /\ v \in Vehicles
      /\ sale'[s] = [car |-> v, status |-> "SOLD"]
      /\ \A t \in Ads \ {s} : sale'[t] = sale[t]
  BY <1>1, <1>2, AdGoesOn
<1>4. \A u \in Vehicles : IsSold(u)' => u = v \/ IsSold(u)
  BY <1>2, CommercialWrites
<1>5. WasSold(v)'
  <2>1. ASSUME NEW t \in Ads, t # s, sale[t] # NoRow, sale[t].car = v
        PROVE  sale[t].status \notin OnSale
    BY <1>1, <1>2, <2>1 DEF SaleInv, OneAnnouncement
  <2>2. sale'[s].status \notin OnSale
    BY <1>3 DEF OnSale
  <2>. QED BY <1>3, <2>1, <2>2 DEF WasSold
<1>6. Unbooked(v) /\ Unserviced(v) /\ Undriven(v)
  BY <1>2 DEF CanClose, Unbooked, ToCome, Unserviced, Undriven, Driven
<1>7. ASSUME NEW u \in Vehicles, IsSold(u), u # v PROVE WasSold(u)'
  <2>1. PICK t \in Ads : sale[t] = [car |-> u, status |-> "SOLD"]
    BY <1>7 DEF SaleInv, SoldOut, WasSold
  <2>2. t # s
    BY <1>1, <1>7, <2>1
  <2>3. sale'[s].car = v
    BY <1>3
  <2>. QED BY <1>3, <1>7, <2>1, <2>2, <2>3 DEF SaleInv, SoldOut, WasSold
<1>. QED BY <1>2, <1>3, <1>4, <1>5, <1>6, <1>7 DEF SellsWell

LEMMA ListSells ==
    ASSUME SaleInv, NEW s \in Ads, NEW v \in Vehicles, List(s, v)
    PROVE  SellsWell
<1>1. PICK row : row = [car |-> v, status |-> "LISTED"]
  OBVIOUS
<1>2. /\ sale[s] = NoRow /\ ~IsSold(v) /\ sale' = [sale EXCEPT ![s] = row] /\ IInv
      /\ \A a \in Ads : sale[a] # NoRow /\ sale[a].car = v => sale[a].status \notin OnSale
      /\ UNCHANGED <<now, ctr, leg, block, seen, wo>> /\ Commercial(v, "FOR_SALE")
  BY <1>1 DEF List, IsSold, SaleInv, WorkInv, FleetInv
<1>3. row \in AdRows /\ row.car = v
  BY <1>1 DEF AdRows, OnSale
<1>4. /\ sale' \in [Ads -> RefTo(AdRows)]
      /\ \A t \in Ads : sale'[t] = IF t = s THEN row ELSE sale[t]
  BY <1>2, <1>3, AdWritten
<1>5. OneAnnouncement'
  BY <1>2, <1>3, <1>4 DEF SaleInv, OneAnnouncement
<1>6. \A u \in Vehicles : IsSold(u)' => u # v /\ IsSold(u)
  BY <1>2, CommercialWrites
<1>7. ASSUME NEW u \in Vehicles, IsSold(u), u # v PROVE WasSold(u)'
  <2>1. PICK t \in Ads : sale[t] = [car |-> u, status |-> "SOLD"]
    BY <1>7 DEF SaleInv, SoldOut, WasSold
  <2>2. sale[t] \in AdRows
    BY <1>7, <2>1 DEF AdRows
  <2>3. t # s
    BY <1>2, <2>2, AdAssumption
  <2>. QED BY <1>3, <1>4, <1>7, <2>1, <2>3 DEF SaleInv, SoldOut, WasSold
<1>. QED BY <1>2, <1>4, <1>5, <1>6, <1>7 DEF SellsWell

LEMMA ByHandSells ==
    ASSUME SaleInv, NEW v \in Vehicles, ForSaleByHand(v) \/ OffSaleByHand(v)
    PROVE  SellsWell
<1>1. IInv /\ UNCHANGED <<now, ctr, leg, block, seen, wo, sale>>
  BY DEF SaleInv, WorkInv, FleetInv, ForSaleByHand, OffSaleByHand
<1>2. \A u \in Vehicles : IsSold(u)' => IsSold(u)
  <2>1. PICK st \in {"FOR_SALE", ByAgenda(v)} : Commercial(v, st)
    BY DEF ForSaleByHand, OffSaleByHand, BackToFleet
  <2>2. st # "SOLD"
    BY ByAgendaTyped
  <2>. QED BY <1>1, <2>1, <2>2, CommercialWrites
<1>3. \A u \in Vehicles : WasSold(u) => WasSold(u)'
  BY <1>1 DEF WasSold
<1>. QED BY <1>1, <1>2, <1>3 DEF SaleInv, SoldOut, OneAnnouncement, SellsWell

LEMMA SalesSellWell ==
    ASSUME SaleInv,
           \/ \E s \in Ads : Negotiate(s) \/ Withdraw(s) \/ Close(s) \/ \E v \in Vehicles : List(s, v)
           \/ \E v \in Vehicles : ForSaleByHand(v) \/ OffSaleByHand(v)
    PROVE  SellsWell
  BY NegotiateSells, WithdrawSells, CloseSells, ListSells, ByHandSells

LEMMA SellsSaleInv ==
    ASSUME SaleInv, WorkInv', SellsWell
    PROVE  SaleInv'
<1>1. OfContracts'
  BY DEF SellsWell, SaleInv, OfContracts, Live
<1>2. ASSUME NEW v \in Vehicles, IsSold(v)' PROVE (WasSold(v) /\ Unbooked(v) /\ Unserviced(v))'
  <2>1. WasSold(v)' /\ Unbooked(v) /\ Unserviced(v)
    BY <1>2 DEF SellsWell, SaleInv, SoldOut
  <2>. QED BY <2>1 DEF SellsWell, Unbooked, ToCome, Unserviced, OpenOrder
<1>. QED BY <1>1, <1>2 DEF SaleInv, SoldOut, SellsWell

LEMMA SaleInit == FleetInit => SaleInv /\ OneInHand /\ SoldUndriven
<1>. SUFFICES ASSUME FleetInit PROVE SaleInv /\ OneInHand /\ SoldUndriven
  OBVIOUS
<1>1. /\ \A b \in Blocks : block[b] = NoRow
      /\ \A w \in Workers : seen[w] = NoRow
      /\ \A g \in Legs : leg[g] = NoRow
      /\ \A v \in Vehicles : unit[v].commercial = "AVAILABLE"
      /\ sale = [s \in Ads |-> NoRow]
  BY DEF FleetInit, Init
<1>2. OfContracts /\ OneAnnouncement /\ SoldOut /\ sale \in [Ads -> RefTo(AdRows)]
  BY <1>1 DEF OfContracts, OneAnnouncement, SoldOut, IsSold, RefTo
<1>3. OneInHand /\ SoldUndriven
  BY <1>1 DEF OneInHand, SoldUndriven, IsSold
<1>. QED BY <1>2, <1>3, WorkInit DEF SaleInv

\* A step of an order, or a plan that is overdue
LEMMA WorkshopAlone ==
    ASSUME SaleInv, \/ \E o \in Orders : WorkOrderStep(o)
                    \/ \E v \in Vehicles : BlockOverdue(v)
    PROVE  /\ \A b \in Blocks : OrderWrites(b)
           /\ OrdersStay /\ SoldAlone /\ UNCHANGED <<now, seen, leg, ctr>>
<1>1. CASE \E o \in Orders : WorkOrderStep(o)
  BY <1>1, WorkshopStep
<1>2. ASSUME NEW v \in Vehicles, BlockOverdue(v)
      PROVE  /\ \A b \in Blocks : OrderWrites(b)
             /\ OrdersStay /\ SoldAlone /\ UNCHANGED <<now, seen, leg, ctr>>
  <2>1. Enters(v, "BLOCKED") /\ UNCHANGED <<now, seen, leg, ctr, block, wo>> /\ IInv
    BY <1>2 DEF BlockOverdue, SaleInv, WorkInv, FleetInv
  <2>2. SoldAlone
    BY <2>1, OperationalAlone
  <2>. QED BY <2>1, <2>2 DEF OrderWrites, OrdersStay, OpenOrder
<1>. QED BY <1>1, <1>2

LEMMA SaleInvStep == SaleInv /\ [FleetNext]_fleetVars => SaleInv'
<1>. SUFFICES ASSUME SaleInv, [FleetNext]_fleetVars PROVE SaleInv'
  OBVIOUS
<1>1. WorkInv'
  BY WorkStep DEF SaleInv
<1>2. CASE Next /\ UNCHANGED <<wo, sale>>
  BY <1>1, <1>2, DeskSaleInv
<1>3. CASE \/ \E o \in Orders : WorkOrderStep(o) /\ UNCHANGED sale
           \/ \E v \in Vehicles : BlockOverdue(v) /\ UNCHANGED sale
  BY <1>1, <1>3, WorkshopAlone, WorkSaleInv
<1>4. CASE \/ \E s \in Ads : Negotiate(s) \/ Withdraw(s) \/ Close(s) \/ \E v \in Vehicles : List(s, v)
           \/ \E v \in Vehicles : ForSaleByHand(v) \/ OffSaleByHand(v)
  BY <1>1, <1>4, SalesSellWell, SellsSaleInv
<1>5. CASE UNCHANGED fleetVars
  <2>1. SellsWell
    BY <1>5 DEF fleetVars, rentalVars, vars, SaleInv, SoldOut, OneAnnouncement, WasSold, IsSold, SellsWell
  <2>. QED BY <1>1, <2>1, SellsSaleInv
<1>. QED BY <1>2, <1>3, <1>4, <1>5 DEF FleetNext

\* The copies that the desk works on tell of every interval, where transactions
\* follow one another, and then no car is driven off once it is sold.
LEMMA UndrivenStep ==
    ASSUME OneAtATime, SaleInv, OneInHand, SoldUndriven, [FleetNext]_fleetVars
    PROVE  OneInHand' /\ SoldUndriven'
<1>1. IInv /\ OfContracts
  BY DEF SaleInv, WorkInv, FleetInv
<1>2. CASE Next /\ UNCHANGED <<wo, sale>>
  <2>1. OneInHand'
    BY <1>1, <1>2, DeskOneInHand
  <2>2. ASSUME NEW v \in Vehicles, IsSold(v)', NEW g \in Legs, Driven(g)', leg'[g].car = v
        PROVE  FALSE
    <3>1. IsSold(v) /\ Drivable(g)
      BY <1>1, <1>2, <2>2, DeskSellsNone, DeskDrivable DEF SoldAlone
    <3>2. ~Rentable(v)
      BY <3>1 DEF IsSold, Rentable, OffFleet
    <3>. QED BY <2>2, <3>1, <3>2 DEF Drivable, SoldUndriven, Undriven
  <2>. QED BY <2>1, <2>2 DEF SoldUndriven, Undriven
<1>3. ASSUME UNCHANGED <<leg, ctr, seen>>,
             \A v \in Vehicles : IsSold(v)' => IsSold(v) \/ Undriven(v)
      PROVE  OneInHand' /\ SoldUndriven'
  BY <1>3 DEF OneInHand, OpenLegs, SoldUndriven, Undriven, Driven
<1>4. CASE \/ \E o \in Orders : WorkOrderStep(o)
           \/ \E v \in Vehicles : BlockOverdue(v)
  BY <1>3, <1>4, WorkshopAlone DEF SoldAlone
<1>5. CASE \/ \E s \in Ads : Negotiate(s) \/ Withdraw(s) \/ Close(s) \/ \E v \in Vehicles : List(s, v)
           \/ \E v \in Vehicles : ForSaleByHand(v) \/ OffSaleByHand(v)
  BY <1>3, <1>5, SalesSellWell DEF SellsWell
<1>6. CASE UNCHANGED fleetVars
  BY <1>3, <1>6 DEF fleetVars, rentalVars, vars, IsSold
<1>. QED BY <1>2, <1>4, <1>5, <1>6 DEF FleetNext

-----------------------------------------------------------------------------
(* The theorems *)

\* An order and the agenda of its car agree: one that is open and blocks the car
\* has its block, until it is due, and a block of maintenance that is not over
\* has an order still to be released, however the rental desk writes around it.
THEOREM OrdersHoldCars == FleetSpec => []OrderHoldsCar
<1>1. WorkInv => OrderHoldsCar
  <2>. SUFFICES ASSUME WorkInv PROVE OrderHoldsCar
    OBVIOUS
  <2>1. ASSUME NEW o \in Orders, OpenOrder(o), wo[o].blocks
        PROVE  /\ Live(block, wo[o].block)
               /\ block[wo[o].block].vehicle = wo[o].car
               /\ block[wo[o].block].kind = "MAINTENANCE"
               /\ block[wo[o].block].to = wo[o].due
    <3>1. OrderTrue(o) /\ wo[o] # NoRow /\ wo[o].status \in OpenStatuses
      BY <2>1 DEF WorkInv, OrdersTrue, OpenOrder
    <3>2. /\ wo[o].block # NoRow /\ block[wo[o].block].to = wo[o].due
          /\ block[wo[o].block].vehicle = wo[o].car
      BY <2>1, <3>1 DEF OrderTrue
    <3>. QED BY <3>1, <3>2, WorkBlock DEF WorkInv, IsWork
  <2>2. ASSUME NEW v \in Vehicles, NEW b \in MaintainedBy(block, v)
        PROVE  \E o \in Orders : /\ wo[o] # NoRow /\ wo[o].block = b
                                 /\ wo[o].status # "CANCELLED" /\ ~wo[o].released
    BY <2>2 DEF MaintainedBy, WorkInv, OrdersTrue, IsWork, Claims
  <2>. QED BY <2>1, <2>2 DEF OrderHoldsCar
<1>. QED BY <1>1, WorkInit, WorkStep, PTL DEF FleetSpec

\* While managers leave to the orders which cars go to the workshop, no car is
\* left there: when an order lets go, another keeps the car or it comes out.
THEOREM WorkshopIsAttended ==
    ASSUME ManualStatuses \cap InWorkshop = {}
    PROVE  FleetSpec => []WorkshopHasOrder
<1>1. FleetInit => WorkshopHasOrder
  BY DEF FleetInit, Init, WorkshopHasOrder, InWorkshop
<1>2. WorkInv /\ WorkInv' /\ WorkshopHasOrder /\ [FleetNext]_fleetVars => WorkshopHasOrder'
  <2>. SUFFICES ASSUME WorkInv, WorkInv', WorkshopHasOrder, [FleetNext]_fleetVars
                PROVE  WorkshopHasOrder'
    OBVIOUS
  <2>1. FleetInv /\ IInv
    BY DEF WorkInv, FleetInv
  <2>2. ASSUME wo' = wo, NoneEnters PROVE WorkshopHasOrder'
    BY <2>2 DEF WorkshopHasOrder, NoneEnters
  <2>3. CASE Next /\ UNCHANGED <<wo, sale>>
    BY <2>1, <2>2, <2>3, NoneEntersByDesk
  <2>4. CASE \E v \in Vehicles : BlockOverdue(v) /\ UNCHANGED sale
    BY <2>1, <2>2, <2>4, OneCarEnters DEF BlockOverdue, NoneEnters, InWorkshop
  <2>5. CASE \E v \in Vehicles : ForSaleByHand(v) \/ OffSaleByHand(v)
    BY <2>1, <2>2, <2>5, CommercialAlone DEF ForSaleByHand, OffSaleByHand, BackToFleet
  <2>6. CASE \E s \in Ads : Withdraw(s) \/ Close(s) \/ \E v \in Vehicles : List(s, v)
    BY <2>1, <2>2, <2>6, CommercialAlone DEF Withdraw, Close, List, BackToFleet
  <2>7. CASE (\E s \in Ads : Negotiate(s)) \/ UNCHANGED fleetVars
    BY <2>7 DEF Negotiate, fleetVars, rentalVars, vars, WorkshopHasOrder
  <2>. QED BY <2>3, <2>4, <2>5, <2>6, <2>7, AttendedStep DEF FleetNext
<1>. QED BY <1>1, <1>2, WorkInit, WorkStep, PTL DEF FleetSpec

\* What the desk keeps, it keeps beside the workshop and the sales.
THEOREM FleetInductive == FleetSpec => []FleetInv
  BY FleetInitInv, FleetStepInv, PTL DEF FleetSpec

\* Reservations, contracts, blocks by hand and work orders never overlap in the
\* agenda of a car: work orders write it with an allocation of their own, an
\* extension and two kinds of end.
THEOREM FleetNeverOverlaps == FleetSpec => []NoOverlap
<1>1. FleetInv => NoOverlap
  BY DEF FleetInv, IInv, Sound, NoOverlap
<1> QED
  BY <1>1, FleetInductive, PTL

\* A car that was sold has no reservation and no work order to come and is on
\* sale no more, though the transactions of the desk work on old copies: none
\* takes from its copy whether a car may be rented (availability.service.ts:60).
THEOREM SoldStaysOut == FleetSpec => []SoldOut
<1>1. SaleInv => SoldOut
  BY DEF SaleInv
<1>. QED BY <1>1, SaleInit, SaleInvStep, PTL DEF FleetSpec

\* A car that was sold is out of the business for good, contracts included
\* (sales.service.ts:194-196), where the desk changes one thing at a time.
THEOREM SoldForGood ==
    ASSUME OneAtATime
    PROVE  FleetSpec => []SoldIsGone
<1> DEFINE Inv == SaleInv /\ OneInHand /\ SoldUndriven
<1>1. FleetInit => Inv
  BY SaleInit
<1>2. Inv /\ [FleetNext]_fleetVars => Inv'
  BY SaleInvStep, UndrivenStep
<1>3. Inv => SoldIsGone
  <2>1. ASSUME Inv, NEW v \in Vehicles, IsSold(v)
        PROVE  WasSold(v) /\ Undriven(v) /\ Unbooked(v) /\ Unserviced(v)
    BY <2>1 DEF SaleInv, SoldOut, SoldUndriven
  <2>2. ASSUME NEW v \in Vehicles, Undriven(v)
        PROVE  \A g \in Legs : leg[g] # NoRow /\ leg[g].car = v /\ leg[g].till = NoRow =>
                  ctr[leg[g].ctr].status # "ACTIVE"
    BY <2>2 DEF Undriven, Driven
  <2>. SUFFICES ASSUME Inv, NEW v \in Vehicles, unit[v].commercial = "SOLD"
                PROVE  /\ WasSold(v) /\ Unbooked(v) /\ Unserviced(v)
                       /\ \A g \in Legs : leg[g] # NoRow /\ leg[g].car = v /\ leg[g].till = NoRow =>
                             ctr[leg[g].ctr].status # "ACTIVE"
    BY Zenon DEF SoldIsGone, WasSold, Unbooked, Unserviced
  <2>3. IsSold(v)
    BY Zenon DEF IsSold
  <2> HIDE DEF Inv
  <2>. QED BY <2>1, <2>2, <2>3
<1>. QED BY <1>1, <1>2, <1>3, PTL DEF FleetSpec
=============================================================================
