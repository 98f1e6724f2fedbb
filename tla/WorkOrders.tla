----------------------------- MODULE WorkOrders -----------------------------
(***************************************************************************)
(* Maintenance work orders, as the handlers of MaintenanceService change   *)
(* them: an order takes the car out of the agenda from the moment it is    *)
(* opened and sends it to the workshop; the car comes back when the order  *)
(* is released or cancelled.  A handler is one step here.  Estimates,      *)
(* amounts and items are left out: whether an order has them is chosen     *)
(* when a handler asks.                                                    *)
(***************************************************************************)
EXTENDS Rentals

CONSTANTS Orders,    \* work_orders rows
          Stages,    \* bound: the open statuses that orders go through
          Deadlines  \* bound: the ends that an order may be given

VARIABLE wo  \* work_orders

rentalVars == vars

OpenStatuses == {"OPEN", "AWAITING_ESTIMATE", "AWAITING_APPROVAL", "AWAITING_PARTS", "IN_PROGRESS"}

ASSUME OrderAssumption == Stages \subseteq OpenStatuses /\ Deadlines \subseteq Nat

\* due: the deadline, of an order that blocks its car; block: the row of
\* vehicle_allocations that refers to the order
OrderRows == [car : Vehicles, status : OpenStatuses \cup {"COMPLETED", "CANCELLED"},
              blocks : BOOLEAN, due : RefTo(Nat), block : RefTo(Blocks), released : BOOLEAN]

ASSUME OrderRowAssumption == NoRow \notin OrderRows

\* WORK_ORDER_TRANSITIONS, without the two that have routes of their own.  From
\* AWAITING_APPROVAL transition() asks for approvedAt, which only approve() sets,
\* and it moves the order itself.
Transitions ==
    [OPEN |-> OpenStatuses \ {"OPEN"},
     AWAITING_ESTIMATE |-> {"AWAITING_APPROVAL"},
     AWAITING_APPROVAL |-> {},
     AWAITING_PARTS |-> {"IN_PROGRESS"},
     IN_PROGRESS |-> {"AWAITING_PARTS"}]

InWorkshop == {"IN_MAINTENANCE", "AWAITING_RELEASE"}

\* The identifier of a new order
NewOrder == CHOOSE o \in Orders : wo[o] = NoRow

\* assertOpen
OpenOrder(o) == wo[o] # NoRow /\ wo[o].status \in OpenStatuses

Enters(v, op) == unit' = [unit EXCEPT ![v].operational = op]

\* MAINTENANCE blocks are allocated with bufferHours 0.
WorkRow(v, due) == Row(v, "MAINTENANCE", now, due, due, NoRow, NoRow)

-----------------------------------------------------------------------------
\* create(): the car is taken off the agenda until the order is due, which is
\* DEFAULT_BLOCK_DAYS from now if nobody says, unless the order needs no block.
OpenWork(o, v, blocks, due) ==
    /\ wo[o] = NoRow /\ o = NewOrder
    /\ unit[v].commercial # "SOLD"
    /\ IF blocks
       THEN /\ due > now
            /\ SpareBlocks # {} /\ Fits(block, NewBlock, WorkRow(v, due))
            /\ block' = Write(block, NewBlock, WorkRow(v, due))
            /\ IF unit[v].operational # "BLOCKED"
               THEN Enters(v, "IN_MAINTENANCE") ELSE UNCHANGED unit
       ELSE UNCHANGED <<block, unit>>
    /\ \E status \in {"OPEN", "AWAITING_APPROVAL"} \cap Stages :
          wo' = [wo EXCEPT ![o] =
                    [car |-> v, status |-> status, blocks |-> blocks,
                     due |-> IF blocks THEN due ELSE NoRow,
                     block |-> IF blocks THEN NewBlock ELSE NoRow, released |-> FALSE]]
    /\ UNCHANGED <<now, resv, ctr, leg, insp, bill, seen>>

\* Mutant of Postponed: the deadline is changed and the agenda is not.
PostponedAlone(o, due) == block' = block

\* extend() of the block of order o
Postponed(o, due) ==
    IF Live(block, wo[o].block)
    THEN LET row == Extended(block[wo[o].block], due)
         IN  Fits(block, wo[o].block, row) /\ block' = Write(block, wo[o].block, row)
    ELSE block' = block

\* update() of the deadline, of an order that blocks its car
UpdateWork(o, due) ==
    /\ OpenOrder(o) /\ wo[o].blocks
    /\ wo' = [wo EXCEPT ![o].due = due]
    /\ Postponed(o, due)
    /\ UNCHANGED <<now, unit, resv, ctr, leg, insp, bill, seen>>

\* transition()
Transition(o, to) ==
    /\ OpenOrder(o)
    /\ to \in Transitions[wo[o].status]
    /\ wo' = [wo EXCEPT ![o].status = to]
    /\ UNCHANGED rentalVars

\* approve(): an order that waited for it goes on.
ApproveWork(o) ==
    /\ OpenOrder(o)
    /\ wo' = [wo EXCEPT ![o].status = IF @ = "AWAITING_PARTS" THEN @ ELSE "IN_PROGRESS"]
    /\ UNCHANGED rentalVars

\* complete(): the car waits for its release, and its agenda with it.
CompleteWork(o) ==
    /\ OpenOrder(o) /\ wo[o].status = "IN_PROGRESS"
    /\ wo' = [wo EXCEPT ![o].status = "COMPLETED"]
    /\ IF unit[wo[o].car].operational = "IN_MAINTENANCE"
       THEN Enters(wo[o].car, "AWAITING_RELEASE") ELSE UNCHANGED unit
    /\ UNCHANGED <<now, resv, ctr, leg, block, insp, bill, seen>>

\* freeAgenda(): a block that has not begun is released, one that is running
\* ends now, without preparation.
Freed(b) ==
    IF ~Live(block, b) THEN block
    ELSE IF block[b].from >= now THEN Release(block, b)
    ELSE IF block[b].to > now THEN Write(block, b, [block[b] EXCEPT !.to = now, !.until = now])
    ELSE block

\* The reference that order o keeps to its block, once freed
KeptBlock(o) == IF Live(block, wo[o].block) /\ block'[wo[o].block] = NoRow THEN NoRow ELSE wo[o].block

MaintainedBy(t, v) ==
    {b \in Blocks : t[b] # NoRow /\ t[b].vehicle = v /\ t[b].kind = "MAINTENANCE" /\ t[b].to > now}

\* Mutant of Restored: a car that waits for its release is not looked at.
RestoredEarly(v) == unit[v].operational = "IN_MAINTENANCE" /\ MaintainedBy(block', v) = {}

\* restoreVehicle(): the car is in the workshop and no block of another order
\* runs on.  An open order that is overdue has none, and does not keep the car.
Restored(v) == unit[v].operational \in InWorkshop /\ MaintainedBy(block', v) = {}

Frees(o) ==
    /\ block' = Freed(wo[o].block)
    /\ IF Restored(wo[o].car) THEN Enters(wo[o].car, "RELEASED") ELSE UNCHANGED unit
    /\ UNCHANGED <<now, resv, ctr, leg, insp, bill, seen>>

ReleaseWork(o) ==
    /\ wo[o] # NoRow /\ wo[o].status = "COMPLETED" /\ ~wo[o].released
    /\ Frees(o)
    /\ wo' = [wo EXCEPT ![o].released = TRUE, ![o].block = KeptBlock(o)]

CancelWork(o) ==
    /\ OpenOrder(o)
    /\ Frees(o)
    /\ wo' = [wo EXCEPT ![o].status = "CANCELLED", ![o].block = KeptBlock(o)]

\* maintenanceAlerts(): a preventive plan is overdue and blocks its car.
BlockOverdue(v) ==
    /\ unit[v].commercial # "SOLD" /\ unit[v].operational = "RELEASED"
    /\ Enters(v, "BLOCKED")
    /\ UNCHANGED <<now, resv, ctr, leg, block, insp, bill, seen, wo>>

WorkOrderStep(o) ==
    \/ \E v \in Vehicles, blocks \in BOOLEAN, due \in Deadlines : OpenWork(o, v, blocks, due)
    \/ \E due \in Deadlines : UpdateWork(o, due)
    \/ \E to \in Stages : Transition(o, to)
    \/ ApproveWork(o) \/ CompleteWork(o) \/ ReleaseWork(o) \/ CancelWork(o)

-----------------------------------------------------------------------------
(* Properties *)

\* A car does not stay in the workshop with nobody to call it out: some order
\* of it is open, or waits for its release.
WorkshopHasOrder ==
    \A v \in Vehicles : unit[v].operational \in InWorkshop =>
        \E o \in Orders : /\ wo[o] # NoRow /\ wo[o].car = v
                          /\ wo[o].status # "CANCELLED" /\ ~wo[o].released

\* An open order that blocks its car has it in the agenda until the order is
\* due, and what is still to come in the agenda has an order not released yet.
OrderHoldsCar ==
    /\ \A o \in Orders : OpenOrder(o) /\ wo[o].blocks =>
          /\ Live(block, wo[o].block)
          /\ block[wo[o].block].vehicle = wo[o].car
          /\ block[wo[o].block].kind = "MAINTENANCE"
          /\ block[wo[o].block].to = wo[o].due
    /\ \A v \in Vehicles : \A b \in MaintainedBy(block, v) :
          \E o \in Orders : /\ wo[o] # NoRow /\ wo[o].block = b
                            /\ wo[o].status # "CANCELLED" /\ ~wo[o].released
=============================================================================
