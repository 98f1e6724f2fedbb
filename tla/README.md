# Norty Car in TLA+

A verification project for the vehicle side of this repository: the rental desk (reservations,
contracts and the agenda of the cars), the workshop and the sale of cars, the finance ledger with
security deposits and payment webhooks, the stock with its purchases, and the outbox of alerts, all
of `apps/car-api`. The modules are translated from the TypeScript services, the SQL migration with the
constraints, and the shared rules of `packages/car-shared`. TLC checks them on small instances,
TLAPS proves the theorems listed below for every instance.

| Module | What it is |
|---|---|
| `Agenda` | `vehicle_allocations`: rows, constraints, `allocate`/`release`/`truncate`/`extend` as functions of a table |
| `Rentals` | reservations, contracts, vehicle status, inspections and blocks by hand, on top of `Agenda` |
| `RentalPromise` | abstract: a rental is promised one car for one period, no car twice at a time |
| `MCRentals`, `RentalsPromise` | instances for TLC; the refinement mapping from `Rentals` to `RentalPromise` |
| `RentalsProofs` | theorems about `Rentals` |
| `WorkOrders`, `Sales` | work orders on top of `Rentals`, and the sale of cars on top of both: the whole fleet |
| `MCFleet`, `FleetProofs` | instance for TLC; theorems about the whole fleet |
| `Ledger` | receivables, payables and payments |
| `Account` | abstract: a key brings its amount once, and never more than is owed is kept |
| `MCLedger`, `LedgerProofs` | instance for TLC; theorems about `Ledger` |
| `Deposits`, `MCDeposits`, `DepositsProofs` | security deposits on top of `Ledger`; instance for TLC; theorems |
| `Webhooks`, `WebhooksProofs` | events of a payment provider, on top of `Ledger`; theorems |
| `Stock` | moves, counts and purchases |
| `Shelves` | abstract: a movement is written once and moves its own balance, never below zero |
| `MCStock`, `StockProofs` | instance for TLC; theorems about `Stock` |
| `Sums` | lemmas: what a sum over a finite set is, and how it changes |
| `Outbox`, `OutboxProofs` | alerts, deliveries and the replicas that send them; theorems |

## 1. Inventory

The repository holds two products that share nothing but the platform: **my Home** (`apps/api`,
`apps/web`, condominiums) and **Norty Car** (`apps/car-api`, `apps/car-web`, car rental). Norty Car
carries most of the logic, so the project begins there. Its API is a set of NestJS services over
PostgreSQL through Prisma. `prisma.tenant(ctx, cb)` runs a handler in one READ COMMITTED
transaction; within one database, everything that two handlers share is a row.

| Component | State | Operations | What makes it correct |
|---|---|---|---|
| Agenda (`common/availability.service.ts`) | active rows of `vehicle_allocations` | allocate, release, truncate, extend | no two blocks of a car overlap, preparation included; a block carries its preparation |
| Reservations (`modules/reservations`) | `reservations` | create, confirm, update, cancel, no-show, checkout; hourly expiry | a confirmed one is exactly one block; any other that did not become a contract has none; requests do not stay unanswered |
| Contracts (`modules/contracts/contracts.service.ts`) | `rental_contracts`, `contract_vehicles`, versions, drivers | create, submit, approve, cancel, activate, swap, extend, renew, amend, close, terminate | from proposal to end it has one open interval and holds its car up to its end; one renewal; billed once; what has ended is final |
| Vehicle status (`common/vehicle-status.service.ts`, `modules/fleet`) | the two statuses of `vehicle_units` | recomputeCommercial, change by hand, blocks by hand | the commercial status agrees with contracts and agenda |
| Inspections (`modules/inspections`) | `inspections` | create, complete, approve, release | delivery and return have theirs before the contract moves |
| Finance (`modules/finance`) | `receivables`, `payables`, `payments`, reconciliations | create, approve, cancel, pay, reverse, reconcile | a title says what its payments say; a key pays once; a cancelled title has no payment |
| Payment webhooks (`modules/payments-webhooks`) | `inbound_webhook_events` | store, process, mark | an event pays once and is processed in the end |
| Security deposits (`modules/deposits`) | `security_deposits`, entries | receive, deduct, decide, refund | status and balance follow from entries and contract |
| Instalments (`modules/contracts/rentals.jobs.ts`, `car-shared/rules/finance.ts`) | receivables by due date | generate the due ones | each is generated once, on the right date |
| Work orders (`modules/maintenance`) | `work_orders`, items, MAINTENANCE blocks | open, postpone, approve, advance, complete, release, cancel; hourly block of overdue cars | the car is off the agenda while an order wants it; no car stays there without one |
| Sales (`modules/sales`) | `vehicle_sales` | announce, accept a proposal, withdraw, conclude; on and off sale by hand | a sold car has no future on the agenda, and is sold once |
| Stock, purchases (`modules/inventory`) | moves, balances, orders | move, reverse, count, receive | a balance changes only with a movement of its own and is never negative; what enters is billed; the average keeps the worth |
| Outbox, scheduler (`modules/notifications`) | `notification_deliveries`, jobs | notify, processDue, advisory lock | at least once, until the attempts are spent; what has ended stays |
| Claims, infractions, tyres, refuelling | one row each and the titles they create | transitions | transitions of their tables; the right payer pays once |
| Auth, organisations, portals, catalogue, customers, documents, reports, search, AI, integrations | records, sessions, files | CRUD, queries, I/O | permissions and isolation of organisations |
| my Home (`apps/api`) | reservations of common areas, visits, parcels, tickets | create, approve, cancel, check in/out | one live reservation per slot; a revoked visit does not enter |
| Web clients | none of their own | presentation | the API decides |

How they interact. Every writer of the agenda calls `AvailabilityService` with its own transaction,
and then `VehicleStatusService.recomputeCommercial` as its last call; so a reservation, a contract,
a block by hand and a work order meet only in the exclusion constraint of
`vehicle_allocations`. `checkout()` turns a reservation into a contract and passes the block on.
Contracts, work orders, purchases and infractions create titles; every payment (clerk, deposit,
webhook) goes through `LedgerService.applyPayment`. Jobs run hourly or nightly, on whichever
replica gets the advisory lock.

What is hard. (1) A handler reads the row it is about without a lock, checks it, and writes by
primary key: everything read may be stale when it writes. (2) Some safety is enforced only by the
database (exclusion constraint, partial unique indexes, period checks, row lock of a title, unique
keys) and some only by the code; what the two cover together has to be found out. (3) Long legal
sequences (swap, extend, renew, return early or late, cancel) have to keep rows of four tables in
agreement. (4) A webhook is three transactions with a process that may die between them and a
provider that repeats. (5) Two replicas run the same
queue, with copies that each other makes stale. `PROJECT.json` lists each hazard at its line; those
without a property say why.

## 2. Plan

Done: `Agenda`, `Rentals` and `RentalPromise`; `Ledger`, `Account`, `Webhooks` and `Deposits`;
`WorkOrders` and `Sales`; `Stock` and `Shelves`; `Outbox`; and the proofs of section 7. What would
come next, in this order:

1. The handlers of `WorkOrders` and `Sales` in two points, as those of `Rentals`, with the payable of
   a completion and the title of a sale.
2. Claims and infractions on top of `WorkOrders` and `Ledger`.
3. `Rules`: `monthlyInstallments` and the dates of a schedule, checked against definitions by sets.
4. `CommonAreas` (my Home): `reservations.service.ts:204-214` says of a cancelled reservation that "a
   unicidade de horário continua valendo só para reservas vivas"; the unique index of
   `apps/api/prisma/schema.prisma:621` counts the cancelled rows too.

## 3. The models and the code

### Transactions

A handler that first reads the row it is about has two points in the model. `LoadReservation`,
`LoadContract`, `ReadTitle` and `ReadPayment` store a copy in `seen[w]`, where `w` is a transaction
in flight; the handler's own action, later, checks the copy and commits all its writes at once.
In between other transactions commit, and `Look` lets the later SELECTs of the handler (the open interval, its
block, the search for a renewal) see what they committed, which is what READ COMMITTED allows. What
the code reads again at the end (`recomputeCommercial`, `assertRentable`, the constraints, an
`updateMany` with its `where`) the action reads from the current state. Writes are by primary key,
so a stale handler overwrites. `Abandon` is every way to end without a commit: a refusal, a
constraint violation, a timeout, a crash. Handlers that read nothing stale (create, the hourly job, a
block by hand, an inspection) are one action.

The atomic write is an abstraction: PostgreSQL takes row locks as statements run, so two
transactions that write the same row commit one after the other, and of two that would deadlock
one is rolled back (`Abandon`). A handler whose first write waits sees the committed rows in its
later reads; each action that depends on this says so (`Activate`, `CancelInstallments`).

### Agenda and Rentals

A table of the agenda maps identifiers to rows; an inactive row is `NoRow`, since no query and no
constraint sees it. `Fits` is the pair of constraints `vehicle_allocations_period_chk` and
`vehicle_allocations_no_overlap`; `Allocate` is `allocate()` with `assertRentable`. In `Rentals`,
`unit`, `resv`, `ctr`, `leg`, `block`, `insp` and `bill` are the tables; `leg` is
`contract_vehicles` with `till` its `endAt`; `bill` counts the titles that activation and the
end of a contract create. Each handler is an action with the name of its method or close to it:

| Code | Action |
|---|---|
| `ReservationsService.create`, with `dto.confirm` | `Request`, `RequestConfirmed` |
| `confirm`, `update`, `cancel` (no-show too), `checkout` | `Confirm`, `Update`, `Cancel`, `Checkout` |
| `expireRequested` (hourly) | `Expire` |
| `ContractsService.create`, `submit`, `approve`, `cancel` | `Propose`, `Submit`, `Approve`, `CancelContract` |
| `activate`, `extend`, `renew`, `close`/`terminate` | `Activate`, `Extend`, `Renew`, `Finish` |
| `swapVehicle` before delivery, in force | `SwapProposed`, `SwapInForce` |
| `InspectionsService.create`, `complete` | `OpenInspection`, `CompleteInspection` |
| `FleetService.changeStatus` (operational), `createBlock`, `releaseBlock` | `ChangeOperational`, `CreateBlock`, `ReleaseBlock` |

Points that are easy to get wrong and are kept as the code has them: `checkout` turns the block
into one of the contract and leaves its `reservationId`; `truncate` never makes an empty block and
counts the preparation from the new end; `extend` adds the preparation whatever the kind; `renew`
takes the preparation off the old block; `finish` swallows the failure of a late extension (inside
a savepoint) but not that of a truncation; `activate` moves a future start to now; a return
inspection counts if it was completed since the interval began, less `Slack`.

`RentalPromise` says what a customer is promised and nothing of rows. `RentalsPromise` reads the
stage of a rental from its statuses and the promise from the agenda, so a step after which the two
disagree is a step that the abstract specification refuses.

### WorkOrders and Sales

`wo` is `work_orders` and `sale` is `vehicle_sales`; the rest of the state is that of `Rentals`,
whose handlers go on with their stale copies while the workshop and the sales office act.

| Code | Action |
|---|---|
| `MaintenanceService.create`, `update` (deadline), `transition`, `approve` | `OpenWork`, `UpdateWork`, `Transition`, `ApproveWork` |
| `complete`, `release`, `cancel` | `CompleteWork`, `ReleaseWork`, `CancelWork` |
| `maintenanceAlerts` (hourly) | `BlockOverdue` |
| `SalesService.create`, `setProposalStatus`, `withdraw`, `close` | `List`, `Negotiate`, `Withdraw`, `Close` |
| `FleetService.changeStatus` (commercial) | `ForSaleByHand`, `OffSaleByHand` |

Kept as the code has them: a MAINTENANCE block begins without preparation and gets it when the
deadline moves (`extend` adds it whatever the kind); `freeAgenda` releases a block that has not
begun and cuts one that is running, without preparation; `restoreVehicle` asks for MAINTENANCE blocks
that end later, not for open orders, so that an order past its deadline no longer keeps its car; a
sale looks at blocks until `blockedUntil`, preparation included. Each of these handlers is one step.
Whether an order has an estimate, an approval or items is chosen when a handler asks, which allows
what any amounts would. An order without a block keeps no deadline.

### Ledger and Webhooks

`title` holds receivables and payables, `payment` the payments. `BeginPayment` is `applyPayment()` up
to `SELECT ... FOR UPDATE` and the reads under it; `CommitPayment` the writes, with `refreshTitle`.
A transaction between the two holds the lock of the title, and the UPDATE of any other
(`CancelTitle`, `DecidePayable`, `ReversePayment`) waits for it. These others decide on what they
read before, without the lock: that is the code. `Account` is the abstract specification.

`Webhooks` extends `Ledger`: `Deliver` is the first transaction of `handle()`, `BeginEvent` and
`CommitEvent` (or `PassEvent`) the second, `MarkEvent` the third, `DropEvent` a failure or a crash
between any two. `Clerk` and `Office` are the ordinary use of the ledger in the meantime.

### Deposits

`Deposits` extends `Ledger`: `deposit` and `entry` are the two tables, and the key of the payment that
an approved deduction makes is that of its entry (`deposit-offset:<id>`). `receipt`,
`requestDeduction` and `requestRefund` take the lock of the deposit first and are one step.
`decide` has up to three: it reads the entry without a lock (`ReadEntry`), then takes the lock of the
deposit and, for a deduction with a title, goes on to take that of the title (a payment of `Ledger`
between `BeginPayment` and `CommitPayment`); the trigger `deposit_entries_guard` refuses to decide
an entry again. The end of a contract derives the status without the lock and writes it later.
`recompute()` is a function of the entries. `ensureDeposit` for a deposit that exists changes
nothing here: the recomputation of one in force gives the status it has.

### Stock

`move()` locks the product before it reads and keeps the lock to its end, so a move, a transfer and an
adjustment are one step each; a repeated key is answered with the movement of that key, or refused by
the unique index. What is not locked is read by a Load action and used later: the movement that
`reverse` undoes, the count that `applyCount` applies, the order that `receive` and the transitions of
a purchase act on. `order` carries what was received and billed. `Shelves` knows nothing of keys looked
up too early: a movement appears once and moves one balance by its quantity.

### Outbox

Each replica ticks: `todo` are the jobs of its round, if it has the advisory lock; `batch` the copies
of deliveries it took, with or without the lock; `answer` the outcome it has not recorded yet. Between
these points the other replica acts and either may stop. `accepted` and `refused` are history: what
endpoints answered. The running flag of the scheduler, the limit of a batch and its order, and how long
a retry waits are left out (a delivery is due or is not); the loop over the endpoints of a channel is
one call with the set of those that accept.

## 4. The runs

| Run | Instance | Question |
|---|---|---|
| `rentals_serial` | 2 cars, 1 reservation, 1 contract (2 intervals), 3 blocks, 1 transaction, 3 periods, clock 0..2 | do the tables agree after every legal sequence, and is each step one of the promise? |
| `rentals_renewal` | 2 cars, 3 long-term contracts, 4 intervals and blocks, one instant | renewals of renewals, second renewals, swaps and cancellations, with cars blocked by hand |
| `rentals_desk` | 1 car, 1 reservation, 2 work orders, 1 sale, 2 blocks, clock 0..1, no symmetry | what desk, workshop, sales office and manager make of one car; every request leaves the queue |
| `ledger` | `Deposits` with 1 deposit of 3 entries, 1 title of 2, 2 payments, 2 transactions | payments, reversals, decisions and the end of a contract race on a title and a deposit |
| `webhooks` | 1 event, 2 deliveries at a time, 1 title, 1 other key | exactly once, and in the end; each step of the ledger keeps the promise of `Account` |
| `stock` | 1 product at 2 locations, 1 key, 1 order of 2, 1 count, 2 transactions | moves, reversals, counts and receipts with stale reads |
| `outbox` | 2 replicas, 1 alert for 2 endpoints, the 5 attempts of the code | what rival replicas and crashes do to a delivery; it ends in the end |
| `rentals_stale_holds`, `rentals_renewal_prep`, `rentals_renewal_return`, `deposit_end`, `ledger_cancel` | smallest instance | the findings below |

What the passing runs show. With handlers one at a time (the hourly job still runs between the read
and the write of a confirmation) `ConfirmedHoldsCar`, `ContractHoldsCar`, `CommercialFollowsAgenda`,
`CheckedOutHasContract`, `BilledOnce`, `EarlyReturnFits`, `FinishedIsFinal` and the refinement of
`RentalPromise` hold. With several at a time no two blocks of a car overlap and a contract still has
one car, thanks to the database (theorems `AgendaNeverOverlaps` and `OneCarAtATime`), and the others do not
have to: `rentals_stale_holds` shows it for the one with the clearest promise in the code.
`EarlyReturnFits` holds only without renewals. In the ledger the sum of
the payments, the balance and the key hold under every race that the model has; what fails is the
cancellation, which takes no lock.

A deposit never owes more than it holds, and a deduction and its payment are written together, whoever
decides twice; while its contract is in force its status is the one its balance gives. In the fleet, a
car in the workshop has an open order, an open order holds its car until its deadline and a sold car is out of the business: `SoldIsGone` is checked against
reservations that were read before the sale, and survives because `allocate` reads the car again.
(Its words on contracts are idle in this run, which has none.) The stock keeps its promise whatever
is stale, except for what is listed below. In the outbox a delivery is not given up before its attempts
nor marked as sent before it was accepted, though replicas overwrite each other.

Findings (each is a run that must fail, with the quotation in `PROJECT.json`):

1. `rentals_stale_holds`: cancelling or changing a reservation that was read before its checkout
   frees the car of the contract that has just been approved.
2. `rentals_renewal_prep`: cancelling a renewal does not give the preparation back to the old block.
3. `rentals_renewal_return`: a renewed contract cannot be closed with an early return in its last
   hours, because the preparation collides with the renewal.
4. `deposit_end`: the end of a contract derives the status of the deposit without its lock, a receipt
   comes in between, and the deposit ends CLOSED with money in it, which no derivation gives.
5. `ledger_cancel`: a cancellation races a payment, and the title ends cancelled and paid.

Seen while modelling, and without a run (the models have these behaviours, or leave the race out as
said; the properties are stated so that they hold in spite of them):

* Stock: `reverse()` looks for an earlier reversal without a lock, so two keys reverse a movement
  twice (`stock.service.ts:193`); a retry of `receive()` with its key counts the receipt again on the order; two
  receipts, or a receipt and a cancellation, of one order both go through; the difference that
  `applyCount` books is taken from a balance read before the lock.
* Outbox: both replicas send one delivery; an attempt is lost; SENT is overwritten from a stale
  copy. `scheduler.service.ts:22-24` says that only the one with the lock works, while
  `processDue()` runs without it.
* Sales: the checks of `close()` run without a lock, so a contract or a work order that commits between
  them and the write is not seen (`sales.service.ts:204`); the handler is one step here. A
  reservation whose period has passed can still be checked out and extended on a car that was sold
  meanwhile, since neither asks for the commercial status; so `SoldIsGone` speaks of contracts in
  force and of blocks of reservations and work orders.
* Work orders: the comment on `restoreVehicle` (`maintenance.service.ts:476`) speaks of the other open orders, its query
  of MAINTENANCE blocks that end later. So when an order is cancelled or released while another of the same car is past its
  deadline and open, the car leaves the workshop for the fleet, and postponing the other order later does not bring it back. No
  property says otherwise: `WorkshopHasOrder` asks for an order behind a car in the workshop, not the reverse.
  Two completions of one order both create the payable (`maintenance.service.ts:283`); the
  handler is one step here and payables are left out.

`CHECK_DEADLOCK FALSE` in every cfg but that of `outbox`: with rows, clock and identifiers used up,
nobody has anything left to do. Replicas always have.

## 5. Bounds

* Rows: the sets of identifiers bound what may ever be created. `Blocks` bounds what is active at
  once (a released identifier is reused, never one that a transaction still holds); `Legs` and
  `Payments` are never reused, so they bound how many swaps or payments one behaviour has. Two payments let a
  reversal race with a retry of its key.
* Time: periods are one or two units long, and the clock stops at `MaxTime`, past the end of the
  first period, so late and early returns and expired requests happen. The periods of `rentals_serial` are 0-1, 2-3 and
  3-4 and a car takes one unit to prepare, so a reservation can begin at the moment the car of the
  contract is ready, or leave one unit free: the car may come back early with the next rental right behind it, and a late
  return finds that rental in the way, so that its extension is swallowed. `MaxEnd` bounds the end of
  an extended or renewed contract. One unit also stands for the minute that `truncate` leaves.
  `Grace` (six hours for a late confirmation) and `Slack` (one day for inspections) are constants
  that the runs set to 0: the window itself is not explored.
* Inspections: one open draft of each kind per contract and car. `"free"` is the code; the runs use
  `"needed"`, which leaves out inspections that no handler asks for yet and two drafts at once in
  the whole fleet, and `"deliveries"` in the renewal run, which keeps only the delivery inspection
  of a proposal. So the renewal run neither swaps a car in force nor closes a contract with a
  return; it terminates without one. `rentals_serial` does both. The theorems
  hold for all three values.
* Fleet: two orders are the least that can want the same car; `Stages` leaves two of the open statuses
  of an order, the others differ in where `transition` leads; deadlines at 1 and 2 with a clock that
  stops at 1 are one that passes and one that does not. A manager sends no car to the workshop by hand
  (`ManualStatuses`): with that, `WorkshopHasOrder` would ask for an order nobody opened.
* Stock: one product, since products share nothing but keys; quantities of 1, orders of 2, so that an order is received
  in two times; two costs that make the average round; at most `MaxStock` = 2 units of a product, whatever
  brings them: a client, an order, a count or a reversal. It is also the bound on the rounding in
  `WorthIsCost`.
* Outbox: the number of attempts is the code's own; two replicas, one alert. Deliveries of different
  alerts meet only in the batch, which is a set.
* Money: a title of 2 and payments of 1 and 2 are the least that tell partial, full and too much
  apart.
* Symmetry: cars, contracts, reservations and workers (titles, keys and workers in the ledger).
  Blocks, intervals, payments and work orders are chosen with `CHOOSE` and are not in it; runs with
  liveness use none.

## 6. Fairness

`RequestsDoNotLinger` needs: the hourly job runs (`WF` of `Expire`: the scheduler calls it every
hour on the replica with the lock), a transaction ends (`WF` of `Abandon`: Prisma's interactive
transactions have a timeout), and time passes (`SF` of `Tick`, strong because the model lets the
clock move only when nothing is in flight, which is infinitely often but not always). The run has
one worker and its clock goes past the pick-up.

`EventsLand` needs: transactions end; a delivery that waits for the lock of the title gets it (`SF`
of `BeginEvent`: PostgreSQL queues waiters); and the provider delivers again what was not accepted
(`SF` of `Deliver`). The last is an assumption about the provider: the code answers with an error
and leaves `processedAt` empty so that a retry processes the event. The property is about
behaviours with finitely many crashes, and its conclusion allows for a title that can no longer take
the event (cancelled, or paid by someone else).

`AlertsArrive` needs each replica to go on with its tick (`WF` of `Tick`: a timer in every process), and the
time of a retry to come (`WF` of `Wake`). It assumes that from some time on no replica stops, loses the lock or fails a job:
before that anything may happen, any number of times.

No property needs a person to do anything: no fairness is assumed of clerks or customers.

## 7. Proofs

Assumptions: those named in the modules, that `NoRow` is not a row nor an identifier, that times are
natural numbers and amounts positive, that a period is not empty, that a product is kept at finitely many
locations. TLC evaluates them on every run.
Any number of cars, rows and transactions, any `Prep`, `Grace`, `Slack` and bounds.

`RentalsProofs`. `IInv` is `TypeOK /\ Sound(block) /\ OneOpen(leg) /\ Links`.

* `Sound` says that the agenda is well typed, that its periods are not empty and that it is
  `Disjoint`. Every write of a row goes through `Fits`, so `WriteSound` and `ReleaseSound`
  (lemmas about any table) carry it through each handler, those with two writes included. The
  delicate cases are the renewal, which shortens one block and inserts another, and the swap, which
  truncates and allocates.
* `OneOpen` says that a contract has one open interval. A swap may find its copy stale and close an
  interval that is closed already; it is the index that refuses the second one.
* `Links` are the foreign keys, and that what a stale copy refers to still exists. Without them
  `TypeOK` is not inductive: a handler that writes the interval it found would write to a row that
  might not exist.

`Inductive` is `Spec => []IInv`; `TypeCorrect`, `AgendaNeverOverlaps` (which the runs check too) and
`OneCarAtATime` are what it implies. There is one lemma per action.

That much holds however handlers race. What follows does not, as `rentals_stale_holds` shows, so it has a hypothesis on
the constants, `OneAtATime`: at most one of the handlers that first read and later write is in flight. The requests that are one step (a
proposal, a confirmed request, a block by hand, an inspection) and the hourly job may still run between its read and its
write, and do in the runs. Two more invariants stand on `IInv`, each with one lemma per handler:

* `SerialInv` says that a copy is what the row still is (`RowsFresh`; only a request may have lapsed meanwhile), and
  with it `Told`: one contract for each reservation (the unique index), `CheckedOutHasContract`,
  `BilledOnce` and `RenewedOnce`. Without `RowsFresh` none of these is inductive: a handler checks the status in its copy and
  overwrites the one in the row. `SerialInductive`, `CheckedOutStandsForContract`, `TitlesOnce`, `RenewalsOnce`.
* `HoldInv` adds `FoundFresh` (the interval and the block found for a copy are the only ones of its contract), `Kept` and
  `CommercialFollowsAgenda`. `Kept` is what the properties say read both ways: each block refers to a reservation or an open
  interval that wants it (`BlocksKept`), each reservation has the blocks its status calls for (`ReservationsKept`), each contract
  its interval and block (`ContractsKept`). The properties alone speak of the rows that should have a block; that a block
  whose row is over is released, and that a released identifier is not taken for one's own, needs the other way.
  Handlers are grouped by what they do to a contract: write it in place (`Rewritten`), change its car (`Swapped`), begin it
  (`Begun`). `ReservationHoldsItsCar`, `ContractHoldsItsCar`, `StatusFollowsAgenda`.

`DeskKeepsThePromise` is the refinement of `RentalPromise`, under `OneAtATime`. From `HoldInv` follow three facts of a state: `Tell`, that
what `Rented` says of a rental can be read from any row of it (the `CHOOSE`s of the mapping have one thing to choose); `Backed`, that
a promise is a block of its rental; and, from `Backed` and `Disjoint`, `NeverTwice`, that two rentals are not promised one car
at a time. For a step, `SparedStands` says that a rental none of whose rows is written is promised the same, and `StepKeeps` that one
rental that moves as `RentalPromise` allows, the others standing, is a step of it: the freedom of the car comes from `NeverTwice` in the
state after the step, not from the guards of the handler. There is one lemma per handler (`ConfirmPromise`, `ActivatePromise`, ...), which says
how the rental moves. The assumption `PromiseAssumption`, that `NoRow` is not a promise, is that of the rows.

`PrepInv` is about the other hazard of section 4, renewals, with any number of racing handlers but no contracts of long
term (`NoLongTerm`): every block has its preparation, and what a stale copy found is not a block made by hand. It
needs the rule that an identifier in somebody's hands is not given to a new row. `EarlyReturnAlwaysFits` and `PreparationStays`
follow: the two properties that the runs of findings 2 and 3 break, by renewing.

`Sums`. The balances of titles, deposits and products are sums over sets (`MapThenSumSet`), which the code
takes in whatever order the rows come. The library defines such a sum by a recursion over sets that takes out any
element first. `Additive(g, f, S)` says of a function `g` on the parts of `S` what a sum has to satisfy whatever
is taken out first; `AdditiveExists` builds one (induction over the parts of a finite set, which `SetInduction` gets
from the well-foundedness of the strict subset ordering, so that no theorem with an operator for a parameter is needed), and
`RecursionAdds` shows that every function that the recursion defines is that one. From these follow the
lemmas that the proofs use: what a sum does when an element comes (`SumOfMore`, `SumOfAdded`), when one changes
(`SumOfChanged`), when none does (`SumOfSame`), and that a part of what is not negative is not more than all of
it (`SumOfGrows`). A module that sums shows once that its operator is such a recursion (`PaidIsSum`,
`BalanceIsSum`, `TotalIsSum`, `WorthIsSum`, `QuantityIsSum`).

`LedgerProofs`. `IInv` is `Tables /\ Known /\ OnePaymentPerKey /\ LockedCopyIsFresh`. The copy that a
payment checks was read before it writes; `LockedCopyIsFresh` says that nothing has changed it,
because whoever writes a title first finds it unlocked and two transactions never have the lock.
`LockAndKey` proves it with the uniqueness of keys, and `PaysWithinBalance` derives the action property
`PaidWithinBalance`: each payment is written to a title that accepts it at that moment. `BooksInv` adds
the types, the sum itself, and `Receipts`: the table of payments is finite, so that it has a sum, and what was read
of a payment that can no longer change is what it still says, which a stale reversal relies on.
`TitlesTellPayments` is `TitleTellsPayments`. `LedgerKeepsTheBooks` is the refinement of `Account`, step by step: a payment
that is written is a `Receive` of its key, a reversal the `Return` of what that key brought, a new title an `Open`,
everything else a stutter, and the sum that `refreshTitle` writes is what `Account` keeps.

`WebhooksProofs`. `HookInv` adds to `BooksInv` who may pay under the key of an event: `Deliveries` says that
whoever does carries that event, with its title and amount, and that one that was applied has paid. Then the
unique key makes two deliveries, or a delivery and a retry after a crash, pay once: `EventsPayOnce`; `WebhooksAreTyped` are its types.
`WebhooksKeepTheBooks` shows that the ledger keeps the promise of `Account` with webhooks, clerks and office on it.

`DepositsProofs`. `DepositInv` has the books of the ledger below it, and two parts of its own. `MoneyInv`: an entry is of a
deposit that exists, the sums of `depositBalance()` cover what is requested, the status follows from them while the contract is in
force, and
(`EndingTrue`) an end of contract that has nothing to write found the deposit empty, and so it stays. `OffsetInv`: what a
decision read of its entry is still so but for the status, only a decision pays under the key of an entry, and it pays
what the entry says. The last is needed because between the two locks of an approval another transaction may decide
the same entry; the trigger refuses the second, and with it its payment. It implies
`DepositsAreTyped`, `RequestsStayCovered`, `DeductionsReach`, `StatusFollows`, `OffsetsTellTitles`, `OffsetsFit` and `DepositsKeepTheBooks`.

`StockProofs`. `StockInv` says that the rows and copies are typed, that no balance is below zero and that
what a stale copy names is still there. `BalancesStand` is what it implies for the tables, and
`StockKeepsTheShelves` the refinement: each step of `Stock` is a step of `Shelves` or a stutter,
with the abstract movements read from the table of the concrete ones. `BooksInv` adds three sums. `NearCost`: no
product has more than `MaxStock`, and its total at its average is what its movements brought and took, up to half a unit of cost for each movement and
each of those units. An entry with a cost of its own rounds once (`NearAfterEntry`, from `RoundedNear`: `Math.round` is off by
a half at most), what comes or goes at the average does not round (`NearAfterMove`), and a transfer is two of
those. `EntriesTrue`: what entered for an order is at most what the order counts and was billed for, and nothing entered for an order
that is not there. `CostsAreKept`, `ReceiptsAreBilled` and `StockIsTyped` follow. What keeps them in spite
of stale copies is that `move()` computes from rows it has locked and that a receipt is added to the order as it is.

`OutboxProofs`. The invariant relates each delivery to what the endpoints answered: the attempts counted in a row
or in any copy of it are at most the calls that failed, and an answer SENT that is not recorded yet
was given by all. It is needed because a stale copy may be recorded over a newer row, so that the row
alone says nothing. `OutboxIsTyped`, `OutboxTells` and `GivenUpWasTried` derive the types, `SentWasAccepted` and `FailedWasTried`;
`EndedForGood` the action property `SettledStays`, by cases on the points of a round.

`FleetProofs`. `FleetInv` is the invariant of `RentalsProofs` and the columns of `work_orders`. Every
step of `Rentals` keeps it by `StepInv`; the steps of `WorkOrders` and `Sales` write cars and the agenda only
(`DeskKept`), by `Fits`, or by cutting a block that is running (`CutSound`: it gives time back and
takes none). `FleetNeverOverlaps` is `NoOverlap` for the whole fleet. `WorkInv` adds `Apart` and `OrdersTrue`. `OrdersTrue` says that an
order and its block tell the same, that no block is of two orders, and that a block that is not over has an order that keeps its
car. A desk transaction writes blocks by the identifier that it read earlier, so `OrdersTrue` is not kept by
the desk alone: `Apart` says that a block of an order carries neither a reservation nor an interval of a contract
and that no desk transaction holds its identifier, hence (`WorkKept`) no stale write of the desk can hit it.
`OrdersHoldCars` is `OrderHoldsCar`. `WorkshopIsAttended` is `WorkshopHasOrder`; it assumes that managers send no car to the workshop
by hand, without which nobody promises an order (the run leaves those statuses out too).

`SaleInv` adds the sales to `WorkInv`. `SoldOut` says that a car that was sold has a sale that was closed and no open announcement, and that no
block of a reservation or an order and no open order waits for it; it holds however desk transactions race (`SoldStaysOut`),
because the desk rewrites blocks of contracts only (`OfContracts`), and inserts one of a reservation only for a car that may be rented when
it is written (`DeskWrites`, one lemma per handler), while an order puts a block only on a car that is not sold (`OrderWrites`).
`SellsWell` is what the steps of the sales have to show. `SoldForGood` is `SoldIsGone`, contracts included, under `OneAtATime`: a contract
comes into force with the open interval that its copy found, and `OneInHand` says that it has no other, so the car that
`activate()` looks at is the one that is driven off (`Drivable`). The run has its contracts idle; the theorem has not.

What is proved of `WebhookSpec`, `FleetSpec` and the `Spec` of a module holds of the specification with fairness, which implies it.

Only model-checked: the liveness properties, which no installed prover handles under fairness. Neither proved nor run:
`SoldIsGone` where several transactions of the desk change contracts at once.

## 8. What is not modelled

* In contracts: drivers and their change, versions, signatures, amendments of price, the
  amounts of the settlement, and the title that an extension may create for the added days (`bill` counts those of
  activation and end, and `BilledOnce` speaks of these only). In reservations: quotes and prices, customer and category checks.
* In work orders: estimates, items, costs, the payable of the supplier, preventive plans and their
  dates, the link to claims. In sales: prices, expenses, proposals that are not accepted, the title.
  In both, what two requests do inside one handler.
* The registration of cars, transfers between branches, odometer.
* In deposits: adjustment entries, which nothing creates, and the balance that activation asks for. In the stock:
  the catalogue, replenishment, orders and counts of several items, so the order in which several products are
  locked; the work order that takes a part. In the outbox: what the jobs do besides raising alerts,
  preferences, reading.
* Inspections without a contract, their checklist, photos, damages, approval and comparison.
* In the ledger: reconciliation, cost centres, late charges and reports. In webhooks: the signature,
  the audit row and the notification to the finance team.
* Row-level security and permissions: one organisation and users who may do everything.
* The components marked `not_modelled` in `PROJECT.json`, each with its reason; the plan above
  takes those with logic of their own.

## 9. Running it

    tlc -config RentalsSerial.cfg MCRentals     # also RentalsRenewal, StaleHolds, RenewalPrep, RenewalReturn
    tlc -config RentalsDesk.cfg MCFleet
    tlc -config Deposits.cfg MCDeposits         # also DepositEnd
    tlc -config LedgerCancel.cfg MCLedger
    tlc -config Webhooks.cfg Webhooks
    tlc -config Stock.cfg MCStock
    tlc -config Outbox.cfg Outbox
    tlapm Sums.tla                              # and each of the modules named ...Proofs

`PROJECT.json` lists, for every property of a passing run, a mutant: a plausible bug, defined beside the
definition it replaces, with which TLC finds the property violated.
