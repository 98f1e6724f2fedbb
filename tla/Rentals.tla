------------------------------ MODULE Rentals -------------------------------
(***************************************************************************)
(* Reservations, contracts and the agenda of the cars, as the handlers of  *)
(* ReservationsService, ContractsService and FleetService change them.     *)
(*                                                                         *)
(* A handler runs in one READ COMMITTED transaction.  It loads the row it  *)
(* is about without locking it, checks what it loaded, reads more, and     *)
(* writes by primary key.  The model gives each handler two points: Load   *)
(* takes a copy of the row (and of the open vehicle interval and of the    *)
(* block found from it), and the handler's own action, later, checks that  *)
(* copy and writes.  Between the two other workers may commit; Look reads  *)
(* the interval and the block again, because those SELECTs come after the  *)
(* one of the row.  Abandon is an error answer: the transaction rolls      *)
(* back.  With one worker every handler is serial.                         *)
(***************************************************************************)
EXTENDS Agenda, FiniteSets

CONSTANTS Reservations,   \* reservations rows
          Contracts,      \* rental_contracts rows
          Legs,           \* contract_vehicles rows
          Workers,        \* transactions that may be in flight at once
          Periods,        \* [from, to] records a client may ask for
          BlockPeriods,   \* periods a manager may block by hand
          ContractKinds,  \* kinds of contract a client may ask for
          ManualStatuses, \* operational statuses a manager may set by hand
          Grace,          \* a confirmation may come this late (6 h)
          Slack,          \* findInspection looks this far back (one day)
          Inspections,    \* bound: "free", "needed" or "deliveries"
          MaxTime,        \* bound on the clock
          MaxEnd          \* bound on the end of an extended contract

ASSUME TimeAssumption ==
    /\ {Grace, Slack, MaxTime, MaxEnd} \subseteq Nat
    /\ Periods \cup BlockPeriods \subseteq {p \in [from : Nat, to : Nat] : p.from < p.to}
ASSUME KindAssumption ==
    /\ ContractKinds \subseteq {"PERIOD", "LONG_TERM"}
    /\ ManualStatuses \subseteq {"RELEASED", "BLOCKED", "IN_INSPECTION",
                          "IN_MAINTENANCE", "AWAITING_RELEASE"}
    /\ Inspections \in {"free", "needed", "deliveries"}
ASSUME NoRowAssumption ==
    /\ NoRow \notin Vehicles \cup Reservations \cup Contracts \cup Legs \cup Blocks
    /\ NoRow \notin Nat
    /\ Reservations \cap Contracts = {}

VARIABLES now,    \* the clock
          unit,   \* vehicle_units: commercialStatus and operationalStatus
          resv,   \* reservations
          ctr,    \* rental_contracts
          leg,    \* contract_vehicles: till is endAt, NoRow while open
          block,  \* vehicle_allocations, active rows
          insp,   \* inspections: if a draft is open, completedAt of the last
          bill,   \* receivables: the RENTAL titles and the final settlements
          seen    \* what each transaction in flight has read

vars == <<now, unit, resv, ctr, leg, block, insp, bill, seen>>

OffFleet == {"SOLD", "FOR_SALE"}

OperationalStatuses ==
    {"RELEASED", "BLOCKED", "IN_INSPECTION", "IN_MAINTENANCE", "AWAITING_RELEASE"}
Finished == {"CLOSED", "TERMINATED", "CANCELLED"}

\* Mutant of Proposal: a cancelled contract may be approved.
ProposalOrCancelled == {"DRAFT", "PENDING_APPROVAL", "CANCELLED"}
Proposal == {"DRAFT", "PENDING_APPROVAL"}
ResvStatuses == {"REQUESTED", "CONFIRMED", "CHECKED_OUT", "CANCELLED",
                 "NO_SHOW", "EXPIRED"}
CtrStatuses == Proposal \cup Finished \cup {"APPROVED", "ACTIVE"}

RefTo(S) == S \cup {NoRow}

LegRows == [ctr : Contracts, car : Vehicles, from : Nat, till : RefTo(Nat)]
BlockRows == [vehicle : Vehicles, kind : {"RESERVATION", "CONTRACT", "BLOCK", "MAINTENANCE"},
              from : Nat, to : Nat, until : Nat,
              resv : RefTo(Reservations), leg : RefTo(Legs)]
ResvRows == [status : ResvStatuses, vehicle : RefTo(Vehicles),
             from : Nat, to : Nat]
InspRows == [draft : BOOLEAN, at : RefTo(Nat)]
CtrRows == [status : CtrStatuses, kind : {"PERIOD", "LONG_TERM"}, from : Nat, to : Nat,
            resv : RefTo(Reservations), renews : RefTo(Contracts)]
ResvCopies == [id : Reservations, row : ResvRows, leg : {NoRow}, since : {NoRow},
               block : RefTo(Blocks), renewed : {FALSE}]
CtrCopies == [id : Contracts, row : CtrRows, leg : RefTo(Legs), since : RefTo(Nat),
              block : RefTo(Blocks), renewed : BOOLEAN]

\* A row is not a null.
ASSUME RowAssumption ==
    NoRow \notin LegRows \cup BlockRows \cup ResvRows \cup CtrRows \cup ResvCopies \cup CtrCopies

Later(a, b) == IF a > b THEN a ELSE b

-----------------------------------------------------------------------------
(* Queries *)

OpenLegs(c) == {g \in Legs : leg[g] # NoRow /\ leg[g].ctr = c /\ leg[g].till = NoRow}
LegBlocks(g) == {b \in Blocks : g # NoRow /\ block[b] # NoRow /\ block[b].leg = g}
ResvBlocks(r) == {b \in Blocks : block[b] # NoRow /\ block[b].resv = r}

\* findFirst: any row that matches, null when none does.
First(S) == IF S = {} THEN {NoRow} ELSE S

\* assertRentable
Rentable(v) == unit[v].commercial \notin OffFleet /\ unit[v].operational # "BLOCKED"

\* recomputeCommercial, for a car that is neither sold nor for sale
ByAgenda(v) ==
    IF \E g \in Legs : /\ leg[g] # NoRow /\ leg[g].car = v /\ leg[g].till = NoRow
                       /\ ctr[leg[g].ctr].status = "ACTIVE"
    THEN "RENTED"
    ELSE IF \E b \in Blocks : /\ block[b] # NoRow /\ block[b].vehicle = v
                              /\ block[b].kind = "RESERVATION" /\ block[b].to > now
    THEN "RESERVED"
    ELSE "AVAILABLE"

\* Mutant of Recompute: it reads the agenda before the handler writes it.
RecomputeFirst(S) ==
    unit' = [v \in Vehicles |->
                IF v \in S /\ unit[v].commercial \notin OffFleet
                THEN [unit[v] EXCEPT !.commercial = ByAgenda(v)] ELSE unit[v]]

\* recomputeCommercial(), the last call of a handler, for the cars of S
Recompute(S) ==
    unit' = [v \in Vehicles |->
                IF v \in S /\ unit[v].commercial \notin OffFleet
                THEN [unit[v] EXCEPT !.commercial = ByAgenda(v)'] ELSE unit[v]]

\* Identifiers for new rows.  One that a transaction still holds is not reused.
Unused(b) == block[b] = NoRow /\ \A w \in Workers : seen[w] # NoRow => seen[w].block # b
SpareBlocks == {b \in Blocks : Unused(b)}
NewBlock == CHOOSE b \in Blocks : Unused(b)
SpareLegs == {g \in Legs : leg[g] = NoRow}
NewLeg == CHOOSE g \in Legs : leg[g] = NoRow

OpenLeg(c, v, from) == [ctr |-> c, car |-> v, from |-> from, till |-> NoRow]

\* contract_vehicles_one_open
OneOpen(t) ==
    \A g, h \in Legs :
        /\ t[g] # NoRow /\ t[g].till = NoRow
        /\ t[h] # NoRow /\ t[h].till = NoRow
        /\ t[g].ctr = t[h].ctr
        => g = h

\* Mutant of Contract: the reservation it came from is not kept.
ContractUnlinked(status, kind, from, to, r, old) ==
    [status |-> status, kind |-> kind, from |-> from, to |-> to,
     resv |-> NoRow, renews |-> old]

Contract(status, kind, from, to, r, old) ==
    [status |-> status, kind |-> kind, from |-> from, to |-> to,
     resv |-> r, renews |-> old]

-----------------------------------------------------------------------------
(* Transactions *)

Idle(w) == seen[w] = NoRow
Holding(w, x) == seen[w] # NoRow /\ seen[w].id = x
Done(w) == seen' = [seen EXCEPT ![w] = NoRow]

\* Mutant of RenewedAlready: a renewal counts once it is in force.
RenewalInForce(c) ==
    \E e \in Contracts : ctr[e] # NoRow /\ ctr[e].renews = c /\ ctr[e].status = "ACTIVE"

\* Is there a renewal of c that was not cancelled?
RenewedAlready(c) ==
    \E e \in Contracts : ctr[e] # NoRow /\ ctr[e].renews = c /\ ctr[e].status # "CANCELLED"

\* load() of a reservation, and the first allocation found from it
LoadReservation(w, r) ==
    /\ Idle(w) /\ resv[r] # NoRow
    /\ \E b \in First(ResvBlocks(r)) :
          seen' = [seen EXCEPT ![w] = [id |-> r, row |-> resv[r], leg |-> NoRow,
                                       since |-> NoRow, block |-> b,
                                       renewed |-> FALSE]]
    /\ UNCHANGED <<now, unit, resv, ctr, leg, block, insp, bill>>

\* The open interval of contract c and its block, as a SELECT finds them, after
\* the one that looks for a renewal.
FoundIn(w, c, row, renewed) ==
    \E g \in First(OpenLegs(c)) : \E b \in First(LegBlocks(g)) :
        seen' = [seen EXCEPT ![w] =
                    [id |-> c, row |-> row, leg |-> g,
                     since |-> IF g = NoRow THEN NoRow ELSE leg[g].from, block |-> b,
                     renewed |-> renewed]]

\* load() of a contract, openVehicle() and the allocation of the interval
LoadContract(w, c) ==
    /\ Idle(w) /\ ctr[c] # NoRow
    /\ FoundIn(w, c, ctr[c], RenewedAlready(c))
    /\ UNCHANGED <<now, unit, resv, ctr, leg, block, insp, bill>>

\* The SELECTs after load() may run after another transaction commits.
Look(w) ==
    /\ ~Idle(w)
    /\ \/ /\ seen[w].id \in Reservations
          /\ \E b \in First(ResvBlocks(seen[w].id)) :
                seen' = [seen EXCEPT ![w].block = b]
       \/ /\ seen[w].id \in Contracts
          /\ \E renewed \in {seen[w].renewed, RenewedAlready(seen[w].id)} :
                FoundIn(w, seen[w].id, seen[w].row, renewed)
       \/ /\ seen[w].leg # NoRow
          /\ \E b \in First(LegBlocks(seen[w].leg)) :
                seen' = [seen EXCEPT ![w].block = b]
    /\ UNCHANGED <<now, unit, resv, ctr, leg, block, insp, bill>>

\* A refused request, a constraint violation or a lost connection: rollback.
Abandon(w) ==
    /\ ~Idle(w)
    /\ Done(w)
    /\ UNCHANGED <<now, unit, resv, ctr, leg, block, insp, bill>>

\* Transactions take milliseconds, the clock counts hours.
Tick ==
    /\ now < MaxTime
    /\ \A w \in Workers : Idle(w)
    /\ now' = now + 1
    /\ UNCHANGED <<unit, resv, ctr, leg, block, insp, bill, seen>>

-----------------------------------------------------------------------------
(* Reservations *)

\* allocate(): v is rentable, the row respects the period check and collides
\* with no row of table t, which is the agenda after this handler's releases.
Allocate(t, v, kind, from, to, r, g) ==
    /\ kind \in {"RESERVATION", "CONTRACT"} => Rentable(v)
    /\ SpareBlocks # {}
    /\ Fits(t, NewBlock, NewRow(v, kind, from, to, r, g))
    /\ block' = Write(t, NewBlock, NewRow(v, kind, from, to, r, g))

\* create(), without confirmation: a request occupies no agenda.
Request(r, p) ==
    /\ resv[r] = NoRow
    /\ resv' = [resv EXCEPT ![r] = [status |-> "REQUESTED", vehicle |-> NoRow,
                                   from |-> p.from, to |-> p.to]]
    /\ UNCHANGED <<now, unit, ctr, leg, block, insp, bill, seen>>

\* create() with dto.confirm: the request and its confirmation in one transaction
RequestConfirmed(r, p, v) ==
    /\ resv[r] = NoRow
    /\ p.from + Grace >= now
    /\ Allocate(block, v, "RESERVATION", p.from, p.to, r, NoRow)
    /\ resv' = [resv EXCEPT ![r] = [status |-> "CONFIRMED", vehicle |-> v,
                                   from |-> p.from, to |-> p.to]]
    /\ UNCHANGED <<now, ctr, leg, insp, bill, seen>>
    /\ Recompute({v})

\* confirm(): the car comes from the request or from the confirmation itself.
Confirm(w, r, v) ==
    /\ Holding(w, r)
    /\ LET row == seen[w].row IN
          /\ row.status = "REQUESTED"
          /\ row.from + Grace >= now
          /\ Allocate(block, v, "RESERVATION", row.from, row.to, r, NoRow)
    /\ resv' = [resv EXCEPT ![r].status = "CONFIRMED", ![r].vehicle = v]
    /\ Done(w)
    /\ UNCHANGED <<now, ctr, leg, insp, bill>>
    /\ Recompute({v})

\* update(): a confirmed reservation gives its block back and takes another.
Update(w, r, v, p) ==
    /\ Holding(w, r)
    /\ LET row == seen[w].row IN
          /\ v = NoRow => row.vehicle = NoRow
          /\ \/ /\ row.status = "REQUESTED"
                /\ UNCHANGED block
             \/ /\ row.status = "CONFIRMED"
                /\ v # NoRow
                /\ Allocate(Release(block, seen[w].block), v, "RESERVATION",
                            p.from, p.to, r, NoRow)
          /\ resv' = [resv EXCEPT ![r].vehicle = v, ![r].from = p.from, ![r].to = p.to]
          /\ Done(w)
          /\ UNCHANGED <<now, ctr, leg, insp, bill>>
          /\ Recompute({row.vehicle, v})

\* cancel(): cancellation, or no-show once the pick-up time has come
Cancel(w, r, status) ==
    /\ Holding(w, r)
    /\ LET row == seen[w].row IN
          /\ \/ status = "CANCELLED" /\ row.status \in {"REQUESTED", "CONFIRMED"}
             \/ status = "NO_SHOW" /\ row.status = "CONFIRMED" /\ row.from <= now
          /\ block' = Release(block, seen[w].block)
          /\ resv' = [resv EXCEPT ![r].status = status]
          /\ Done(w)
          /\ UNCHANGED <<now, ctr, leg, insp, bill>>
          /\ Recompute({row.vehicle})

\* checkout(): the reservation becomes an approved contract by period, and
\* the block found for it passes from RESERVATION to CONTRACT.
Checkout(w, r, c) ==
    /\ Holding(w, r)
    /\ ctr[c] = NoRow /\ SpareLegs # {}
    /\ \A d \in Contracts : ctr[d] # NoRow => ctr[d].resv # r  \* unique reservationId
    /\ LET row == seen[w].row
           b   == seen[w].block
       IN  /\ row.status = "CONFIRMED" /\ b # NoRow /\ row.vehicle # NoRow
           /\ ctr' = [ctr EXCEPT ![c] = Contract("APPROVED", "PERIOD", row.from, row.to,
                                                 r, NoRow)]
           /\ leg' = [leg EXCEPT ![NewLeg] = OpenLeg(c, row.vehicle, row.from)]
           /\ block' = IF Live(block, b)
                       THEN [block EXCEPT ![b].kind = "CONTRACT", ![b].leg = NewLeg]
                       ELSE block
    /\ resv' = [resv EXCEPT ![r].status = "CHECKED_OUT"]
    /\ Done(w)
    /\ UNCHANGED <<now, unit, insp, bill>>

\* expireRequested(): one UPDATE ... WHERE, its condition read as it writes.
\* Every request whose pick-up has passed expires, and with it those asked for
\* more than requestExpiryHours ago, which between two ticks may be any.
Asked == {r \in Reservations : resv[r] # NoRow /\ resv[r].status = "REQUESTED"}

\* Mutant of Overdue: the comparison of startAt turned round.
NotYetDue == {r \in Asked : resv[r].from > now}
Overdue == {r \in Asked : resv[r].from < now}

Expire(late) ==
    /\ late # {} /\ late \subseteq Asked
    /\ Overdue \subseteq late
    /\ resv' = [r \in Reservations |->
                  IF r \in late THEN [resv[r] EXCEPT !.status = "EXPIRED"] ELSE resv[r]]
    /\ UNCHANGED <<now, unit, ctr, leg, block, insp, bill, seen>>

-----------------------------------------------------------------------------
(* Contracts *)

\* insert(): the contract, its first interval and its block, all or nothing,
\* on top of agenda t.
InsertContract(t, c, kind, v, from, to, old) ==
    /\ ctr[c] = NoRow /\ SpareLegs # {}
    /\ from < to
    /\ Allocate(t, v, "CONTRACT", from, to, NoRow, NewLeg)
    /\ ctr' = [ctr EXCEPT ![c] = Contract("DRAFT", kind, from, to, NoRow, old)]
    /\ leg' = [leg EXCEPT ![NewLeg] = OpenLeg(c, v, from)]

\* create(): the agenda is taken from the proposal on.
Propose(c, kind, v, p) ==
    /\ InsertContract(block, c, kind, v, p.from, p.to, NoRow)
    /\ UNCHANGED <<now, unit, resv, insp, bill, seen>>

\* submit() and approve()
Advance(w, c, from, to) ==
    /\ Holding(w, c)
    /\ seen[w].row.status \in from
    /\ ctr' = [ctr EXCEPT ![c].status = to]
    /\ Done(w)
    /\ UNCHANGED <<now, unit, resv, leg, block, insp, bill>>

Submit(w, c) == Advance(w, c, {"DRAFT"}, "PENDING_APPROVAL")
Approve(w, c) == Advance(w, c, Proposal, "APPROVED")

\* cancel(), before delivery: the block is released, the interval closed and
\* the reservation it came from cancelled.
CancelContract(w, c) ==
    /\ Holding(w, c)
    /\ LET row == seen[w].row
           g   == seen[w].leg
       IN  /\ row.status \in Proposal \cup {"APPROVED"}
           /\ block' = Release(block, seen[w].block)
           /\ IF g = NoRow THEN UNCHANGED leg
              ELSE /\ leg[g].from <= Later(seen[w].since, now)
                   /\ leg' = [leg EXCEPT ![g].till = Later(seen[w].since, now)]
           /\ ctr' = [ctr EXCEPT ![c].status = "CANCELLED"]
           /\ resv' = IF row.resv = NoRow THEN resv
                      ELSE [resv EXCEPT ![row.resv].status = "CANCELLED"]
           /\ Done(w)
           /\ UNCHANGED <<now, insp, bill>>
           /\ Recompute(IF g = NoRow THEN {} ELSE {leg[g].car})

\* findInspection(): DELIVERY of any age, or one completed since the interval
\* began, give or take a day.
Inspected(c, v, type) == insp[c][v][type].at # NoRow
InspectedSince(c, v, type, since) ==
    Inspected(c, v, type) /\ insp[c][v][type].at + Slack >= since

\* Mutant of InForce: an approved contract may be finished too.
InForceSoon(row) == row.status \in {"APPROVED", "ACTIVE"}
InForce(row) == row.status = "ACTIVE"

\* activate(): the delivery.  A start in the future is moved to now, if the
\* car is free.  The UPDATE of the interval waits for any other handler of
\* this contract, so the title that already exists is seen afterwards.
Activate(w, c) ==
    /\ Holding(w, c)
    /\ seen[w].row.status = "APPROVED"
    /\ seen[w].leg # NoRow
    /\ LET g == seen[w].leg
           v == leg[g].car
           b == seen[w].block
       IN  /\ Rentable(v) /\ unit[v].operational = "RELEASED"
           /\ Inspected(c, v, "DELIVERY")
           /\ IF Live(block, b) /\ now < block[b].from
              THEN LET moved == [block[b] EXCEPT !.from = now]
                   IN  Fits(block, b, moved) /\ block' = Write(block, b, moved)
              ELSE UNCHANGED block
           \* contract_vehicles_period_chk: a closed interval was closed before now
           /\ leg[g].till # NoRow => leg[g].till > now
           /\ leg' = [leg EXCEPT ![g].from = now]
           /\ ctr' = [ctr EXCEPT ![c].status = "ACTIVE"]
           /\ bill' = IF ctr[c].kind = "PERIOD" /\ bill[c].rental = 0
                      THEN [bill EXCEPT ![c].rental = 1] ELSE bill
           /\ Done(w)
           /\ UNCHANGED <<now, resv, insp>>
           /\ Recompute({v})

\* swapVehicle() before delivery: only the agenda moves.
SwapProposed(w, c, v) ==
    /\ Holding(w, c)
    /\ seen[w].row.status \notin Finished \cup {"ACTIVE"}
    /\ seen[w].leg # NoRow /\ SpareLegs # {}
    /\ LET row == seen[w].row
           g   == seen[w].leg
       IN  /\ leg[g].car # v
           /\ leg[g].from <= seen[w].since
           /\ leg' = [leg EXCEPT ![g].till = seen[w].since, ![NewLeg] = OpenLeg(c, v, row.from)]
           /\ OneOpen(leg')
           /\ Allocate(Release(block, seen[w].block), v, "CONTRACT",
                       row.from, row.to, NoRow, NewLeg)
           /\ Done(w)
           /\ UNCHANGED <<now, resv, ctr, insp, bill>>
           /\ Recompute({leg[g].car, v})

\* swapVehicle() in force: the car that leaves is returned and inspected, the
\* one that enters inspected and released; the agenda of the first ends now.
SwapInForce(w, c, v) ==
    /\ Holding(w, c)
    /\ InForce(seen[w].row)
    /\ seen[w].leg # NoRow /\ SpareLegs # {}
    /\ LET row == seen[w].row
           g   == seen[w].leg
           b   == seen[w].block
           cut == Truncated(block[b], now)
       IN  /\ leg[g].car # v
           /\ now < row.to
           /\ unit[v].operational = "RELEASED"
           /\ InspectedSince(c, leg[g].car, "RETURN", seen[w].since)
           /\ InspectedSince(c, v, "DELIVERY", seen[w].since)
           /\ leg[g].from <= now
           /\ leg' = [leg EXCEPT ![g].till = now, ![NewLeg] = OpenLeg(c, v, now)]
           /\ OneOpen(leg')
           /\ IF Live(block, b)
              THEN /\ Fits(block, b, cut)
                   /\ Allocate(Write(block, b, cut), v, "CONTRACT", now, row.to, NoRow, NewLeg)
              ELSE Allocate(block, v, "CONTRACT", now, row.to, NoRow, NewLeg)
           /\ Done(w)
           /\ UNCHANGED <<now, resv, ctr, insp, bill>>
           /\ Recompute({leg[g].car, v})

\* extend(): only if the car is free afterwards.  The further title that the
\* added days of a contract in force may cost is left out.
Extend(w, c, to) ==
    /\ Holding(w, c)
    /\ seen[w].row.status \in {"APPROVED", "ACTIVE"}
    /\ seen[w].row.to < to
    /\ seen[w].leg # NoRow
    /\ LET b == seen[w].block IN
          IF Live(block, b)
          THEN /\ Fits(block, b, Extended(block[b], to))
               /\ block' = Write(block, b, Extended(block[b], to))
          ELSE UNCHANGED block
    /\ ctr' = [ctr EXCEPT ![c].to = to]
    /\ Done(w)
    /\ UNCHANGED <<now, unit, resv, leg, insp, bill>>

\* renew(): a new proposal that begins where c ends.  The block of c gives up
\* its preparation for the new one to fit.
Renew(w, c, d, to) ==
    /\ Holding(w, c)
    /\ seen[w].row.kind = "LONG_TERM" /\ InForce(seen[w].row)
    /\ ~seen[w].renewed
    /\ seen[w].leg # NoRow
    /\ LET row  == seen[w].row
           b    == seen[w].block
           bare == IF Live(block, b) THEN [block EXCEPT ![b].until = block[b].to] ELSE block
       IN  InsertContract(bare, d, "LONG_TERM", leg[seen[w].leg].car, row.to, to, c)
    /\ Done(w)
    /\ UNCHANGED <<now, unit, resv, insp, bill>>

\* finish(): close() and terminate().  Without a RETURN inspection only a
\* termination for a car that was not returned goes on.  A late return
\* extends the block if it can; if it cannot, the block is left as it is.
Finish(w, c, status, at) ==
    /\ Holding(w, c)
    /\ InForce(seen[w].row)
    /\ seen[w].leg # NoRow
    /\ LET g == seen[w].leg IN
          /\ IF InspectedSince(c, leg[g].car, "RETURN", seen[w].since)
             THEN at = insp[c][leg[g].car]["RETURN"].at
             ELSE status = "TERMINATED" /\ at = now
          /\ leg[g].from <= Later(seen[w].since, at)
          /\ leg' = [leg EXCEPT ![g].till = Later(seen[w].since, at)]
          /\ \E b \in First(LegBlocks(g)) :
                IF b = NoRow THEN UNCHANGED block
                ELSE IF at <= block[b].to
                THEN /\ Fits(block, b, Truncated(block[b], at))
                     /\ block' = Write(block, b, Truncated(block[b], at))
                ELSE block' = IF Fits(block, b, Extended(block[b], at))
                              THEN Write(block, b, Extended(block[b], at)) ELSE block
          /\ ctr' = [ctr EXCEPT ![c].status = status]
          /\ bill' = [bill EXCEPT ![c].closing = @ + 1]
          /\ Done(w)
          /\ UNCHANGED <<now, resv, insp>>
          /\ Recompute({leg[g].car})

-----------------------------------------------------------------------------
(* Inspections and the fleet *)

\* create(): an inspection of contract c; a delivery may be of a car that is to
\* enter, a return is of the car of the open interval.  A released car waits in
\* inspection.  One draft of each kind at a time; the bound "needed" leaves out
\* the ones no handler asks for yet, a second of a kind, and two drafts at once;
\* "deliveries" leaves out all but the delivery of a proposal too.
OpenInspection(c, v, type) ==
    /\ ctr[c] # NoRow /\ ctr[c].status \notin Finished
    /\ ~insp[c][v][type].draft
    /\ LET inUse == \E g \in OpenLegs(c) : leg[g].car = v IN
          /\ type = "RETURN" =>
                \/ inUse
                \/ /\ OpenLegs(c) = {} /\ ctr[c].resv # NoRow
                   /\ resv[ctr[c].resv].vehicle = v
          /\ Inspections = "deliveries" => type = "DELIVERY" /\ ctr[c].status # "ACTIVE"
          /\ Inspections # "free" =>
                /\ ~Inspected(c, v, type)
                /\ ctr[c].status = "ACTIVE" \/ (type = "DELIVERY" /\ inUse)
                /\ \A u \in Vehicles : unit[u].operational # "IN_INSPECTION"
    /\ insp' = [insp EXCEPT ![c][v][type].draft = TRUE]
    /\ unit' = IF unit[v].operational = "RELEASED"
               THEN [unit EXCEPT ![v].operational = "IN_INSPECTION"] ELSE unit
    /\ UNCHANGED <<now, resv, ctr, leg, block, bill, seen>>

\* complete(): whatever happened to the contract, the draft is completed now.
CompleteInspection(c, v, type) ==
    /\ insp[c][v][type].draft
    /\ insp' = [insp EXCEPT ![c][v][type] = [draft |-> FALSE, at |-> now]]
    /\ unit' = IF unit[v].operational = "IN_INSPECTION"
               THEN [unit EXCEPT ![v].operational = "RELEASED"] ELSE unit
    /\ UNCHANGED <<now, resv, ctr, leg, block, bill, seen>>

\* changeStatus(), operational
ChangeOperational(v, to) ==
    /\ unit[v].commercial # "SOLD"
    /\ to \in ManualStatuses /\ to # unit[v].operational
    /\ unit' = [unit EXCEPT ![v].operational = to]
    /\ UNCHANGED <<now, resv, ctr, leg, block, insp, bill, seen>>

\* createBlock() and releaseBlock()
CreateBlock(v, p) ==
    /\ unit[v].commercial # "SOLD"
    /\ Allocate(block, v, "BLOCK", p.from, p.to, NoRow, NoRow)
    /\ UNCHANGED <<now, unit, resv, ctr, leg, insp, bill, seen>>

ReleaseBlock(b) ==
    /\ block[b] # NoRow /\ block[b].kind = "BLOCK"
    /\ block' = Release(block, b)
    /\ UNCHANGED <<now, unit, resv, ctr, leg, insp, bill, seen>>

-----------------------------------------------------------------------------
Init ==
    /\ now = 0
    /\ unit = [v \in Vehicles |-> [commercial |-> "AVAILABLE", operational |-> "RELEASED"]]
    /\ resv = [r \in Reservations |-> NoRow]
    /\ ctr = [c \in Contracts |-> NoRow]
    /\ leg = [g \in Legs |-> NoRow]
    /\ block = [b \in Blocks |-> NoRow]
    /\ insp = [c \in Contracts |-> [v \in Vehicles |->
                  [t \in {"DELIVERY", "RETURN"} |-> [draft |-> FALSE, at |-> NoRow]]]]
    /\ bill = [c \in Contracts |-> [rental |-> 0, closing |-> 0]]
    /\ seen = [w \in Workers |-> NoRow]

ReservationStep(w, r) ==
    \/ LoadReservation(w, r)
    \/ \E v \in Vehicles : Confirm(w, r, v)
    \/ \E v \in Vehicles \cup {NoRow}, p \in Periods : Update(w, r, v, p)
    \/ \E s \in {"CANCELLED", "NO_SHOW"} : Cancel(w, r, s)
    \/ \E c \in Contracts : Checkout(w, r, c)

ContractStep(w, c) ==
    \/ LoadContract(w, c)
    \/ Submit(w, c)
    \/ Approve(w, c)
    \/ CancelContract(w, c)
    \/ Activate(w, c)
    \/ \E v \in Vehicles : SwapProposed(w, c, v)
    \/ \E v \in Vehicles : SwapInForce(w, c, v)
    \/ \E to \in 0 .. MaxEnd : Extend(w, c, to)
    \/ \E d \in Contracts, to \in 0 .. MaxEnd : Renew(w, c, d, to)
    \/ \E s \in {"CLOSED", "TERMINATED"}, at \in 0 .. MaxTime : Finish(w, c, s, at)

Direct ==
    \/ \E r \in Reservations, p \in Periods : Request(r, p)
    \/ \E r \in Reservations, p \in Periods, v \in Vehicles : RequestConfirmed(r, p, v)
    \/ \E c \in Contracts, k \in ContractKinds, v \in Vehicles, p \in Periods :
           Propose(c, k, v, p)
    \/ \E c \in Contracts, v \in Vehicles, t \in {"DELIVERY", "RETURN"} :
           OpenInspection(c, v, t) \/ CompleteInspection(c, v, t)
    \/ \E v \in Vehicles, to \in ManualStatuses : ChangeOperational(v, to)
    \/ \E v \in Vehicles, p \in BlockPeriods : CreateBlock(v, p)
    \/ \E b \in Blocks : ReleaseBlock(b)

Next ==
    \/ \E w \in Workers :
          \/ \E r \in Reservations : ReservationStep(w, r)
          \/ \E c \in Contracts : ContractStep(w, c)
          \/ Look(w)
          \/ Abandon(w)
    \/ Direct
    \/ \E late \in SUBSET Reservations : Expire(late)
    \/ Tick

Spec == Init /\ [][Next]_vars

\* The hourly job runs, transactions end (Prisma ends one that lasts too long)
\* and, though one is always in flight, time passes.
FairSpec ==
    /\ Spec
    /\ WF_vars(Expire(Overdue))
    /\ \A w \in Workers : WF_vars(Abandon(w))
    /\ SF_vars(Tick)

-----------------------------------------------------------------------------
(* Properties *)

\* Every row has the columns and the enums of the schema.
TypeOK ==
    /\ now \in Nat
    /\ unit \in [Vehicles -> [commercial : {"AVAILABLE", "RESERVED", "RENTED"} \cup OffFleet,
                              operational : OperationalStatuses]]
    /\ resv \in [Reservations -> RefTo(ResvRows)]
    /\ ctr \in [Contracts -> RefTo(CtrRows)]
    /\ leg \in [Legs -> RefTo(LegRows)]
    /\ block \in [Blocks -> RefTo(BlockRows)]
    /\ insp \in [Contracts -> [Vehicles -> [{"DELIVERY", "RETURN"} -> InspRows]]]
    /\ bill \in [Contracts -> [rental : Nat, closing : Nat]]
    /\ seen \in [Workers -> RefTo(ResvCopies \cup CtrCopies)]

\* Two active blocks of a car never overlap, preparation included, whatever
\* handlers race: every write of the agenda goes through the constraint.
NoOverlap == Disjoint(block)

\* A contract has one car at a time (contract_vehicles_one_open), through swaps.
OneCarPerContract == \A c \in Contracts : \A g, h \in OpenLegs(c) : g = h

\* A confirmed reservation is one block of its car and its period, and any
\* other that did not become a contract holds none (reservations.ts:94-100).
ConfirmedHoldsCar ==
    \A r \in Reservations : resv[r] # NoRow =>
        CASE resv[r].status = "CONFIRMED" ->
               \E b \in Blocks : /\ ResvBlocks(r) = {b}
                                 /\ block[b].kind = "RESERVATION"
                                 /\ block[b].vehicle = resv[r].vehicle
                                 /\ block[b].from = resv[r].from
                                 /\ block[b].to = resv[r].to
          [] resv[r].status = "CHECKED_OUT" -> TRUE
          [] OTHER -> ResvBlocks(r) = {}

\* From the proposal to the end a contract holds its car in the agenda up to
\* its end (contracts.service.ts:61-72); a finished one has no open interval,
\* and a cancelled one no block.
ContractHoldsCar ==
    \A c \in Contracts : ctr[c] # NoRow =>
        IF ctr[c].status \in Finished
        THEN /\ OpenLegs(c) = {}
             /\ ctr[c].status = "CANCELLED" =>
                   \A b \in Blocks : block[b] # NoRow /\ block[b].leg # NoRow =>
                        leg[block[b].leg].ctr # c
        ELSE \E g \in Legs, b \in Blocks :
                /\ OpenLegs(c) = {g} /\ LegBlocks(g) = {b}
                /\ block[b].kind = "CONTRACT"
                /\ block[b].vehicle = leg[g].car
                /\ block[b].from <= leg[g].from
                /\ block[b].to = ctr[c].to

\* The commercial status of a car in the fleet is what its contracts and its
\* reservations say (vehicle-status.service.ts:55-72): rented exactly while a
\* contract in force has it, and never available with a reservation to come.
CommercialFollowsAgenda ==
    \A v \in Vehicles : unit[v].commercial \notin OffFleet =>
        /\ unit[v].commercial = "RENTED" <=>
             \E c \in Contracts : /\ ctr[c] # NoRow /\ ctr[c].status = "ACTIVE"
                                  /\ \E g \in OpenLegs(c) : leg[g].car = v
        /\ unit[v].commercial = "AVAILABLE" =>
             \A b \in Blocks :
                 /\ block[b] # NoRow /\ block[b].vehicle = v
                 /\ block[b].kind = "RESERVATION"
                 => block[b].to <= now

\* A reservation is checked out exactly while a contract that was not
\* cancelled stands for it.
CheckedOutHasContract ==
    \A r \in Reservations : resv[r] # NoRow =>
        (resv[r].status = "CHECKED_OUT") =
        (\E c \in Contracts : ctr[c] # NoRow /\ ctr[c].resv = r /\ ctr[c].status # "CANCELLED")

\* The rent of a contract by period is billed once, when the car is delivered,
\* and the accounts of a contract are settled once, when it ends in force.  The
\* titles of extensions are not counted.
BilledOnce ==
    \A c \in Contracts :
        LET was(S) == ctr[c] # NoRow /\ ctr[c].status \in S
            used   == {"ACTIVE", "CLOSED", "TERMINATED"}
        IN  /\ bill[c].rental = IF was(used) /\ ctr[c].kind = "PERIOD" THEN 1 ELSE 0
            /\ bill[c].closing = IF was(used \ {"ACTIVE"}) THEN 1 ELSE 0

\* A block of the agenda carries the preparation of its car after it; the only
\* one that may not is that of a contract renewed with the same car.
PreparationKept ==
    \A b \in Blocks : block[b] # NoRow =>
        \/ block[b].until = block[b].to + Buffer(block[b].kind)
        \/ block[b].leg # NoRow /\ RenewedAlready(leg[block[b].leg].ctr)

\* A car may come back at any time up to the end of its contract, and the
\* contract be closed then (availability.service.ts:117-119): the next block of
\* the car, be it right behind the preparation, does not stand in the way.
EarlyReturnFits ==
    \A g \in Legs, b \in Blocks :
        /\ leg[g] # NoRow /\ leg[g].till = NoRow /\ ctr[leg[g].ctr].status = "ACTIVE"
        /\ b \in LegBlocks(g) /\ now <= block[b].to
        => Fits(block, b, Truncated(block[b], now))

\* A contract is renewed once: a second renewal waits for the first to be cancelled.
RenewedOnce ==
    \A c, d, e \in Contracts :
        /\ ctr[d] # NoRow /\ ctr[d].renews = c /\ ctr[d].status # "CANCELLED"
        /\ ctr[e] # NoRow /\ ctr[e].renews = c /\ ctr[e].status # "CANCELLED"
        => d = e

\* What has ended stays as it ended.
FinishedIsFinal ==
    [][\A c \in Contracts :
          ctr[c] # NoRow /\ ctr[c].status \in Finished => ctr'[c] = ctr[c]]_vars

\* A request is answered, by a person or by the hourly job (rentals.jobs.ts:55-70).
RequestsDoNotLinger ==
    \A r \in Reservations : r \in Asked ~> r \notin Asked

=============================================================================
