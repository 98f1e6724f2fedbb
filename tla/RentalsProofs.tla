---------------------------- MODULE RentalsProofs ----------------------------
(***************************************************************************)
(* Theorems about Rentals, for any number of cars, rows and workers.       *)
(***************************************************************************)
EXTENDS RentalsPromise, TLAPS

-----------------------------------------------------------------------------
(* The agenda *)

Table == [Blocks -> RefTo(BlockRows)]

\* What the two constraints of vehicle_allocations keep true of its rows.
Sound(t) ==
    /\ t \in Table
    /\ \A b \in Blocks : t[b] # NoRow => PeriodCheck(t[b])
    /\ Disjoint(t)

\* A row that fits may be written: allocate(), truncate(), extend().
LEMMA WriteSound ==
    ASSUME NEW t, Sound(t), NEW b \in Blocks, NEW row \in BlockRows, Fits(t, b, row)
    PROVE  Sound(Write(t, b, row))
<1>1. Write(t, b, row) \in Table
  BY DEF Sound, Table, Write, RefTo
<1>2. \A o \in Blocks : Write(t, b, row)[o] = IF o = b THEN row ELSE t[o]
  BY DEF Sound, Table, Write
<1>3. \A o \in Blocks : Write(t, b, row)[o] # NoRow => PeriodCheck(Write(t, b, row)[o])
  BY <1>2 DEF Sound, Fits
<1>4. ASSUME NEW x \in Blocks, NEW y \in Blocks, x # y,
             Write(t, b, row)[x] # NoRow, Write(t, b, row)[y] # NoRow
      PROVE  ~Overlap(Write(t, b, row)[x], Write(t, b, row)[y])
  <2>1. CASE x = b
    BY <1>2, <1>4, <2>1 DEF Fits
  <2>2. CASE y = b
    BY <1>2, <1>4, <2>2 DEF Fits, Overlap
  <2>3. CASE x # b /\ y # b
    BY <1>2, <1>4, <2>3 DEF Sound, Disjoint
  <2> QED
    BY <2>1, <2>2, <2>3
<1> QED
  BY <1>1, <1>3, <1>4 DEF Sound, Disjoint

\* A row may be released: there is one less to collide with.
LEMMA ReleaseSound ==
    ASSUME NEW t, Sound(t), NEW b
    PROVE  Sound(Release(t, b))
<1>1. CASE b \in Blocks
  <2>1. \A o \in Blocks : Release(t, b)[o] = IF o = b THEN NoRow ELSE t[o]
    BY <1>1 DEF Sound, Table, Release
  <2>2. Release(t, b) \in Table
    BY <1>1 DEF Sound, Table, Release, RefTo
  <2> QED
    BY <2>1, <2>2 DEF Sound, Disjoint
<1>2. CASE b \notin Blocks
  BY <1>2 DEF Release
<1> QED
  BY <1>1, <1>2

\* The rows that allocate(), truncate() and extend() write have the columns
\* of the table.
LEMMA NewRowType ==
    ASSUME NEW v \in Vehicles, NEW kind \in {"RESERVATION", "CONTRACT", "BLOCK"},
           NEW from \in Nat, NEW to \in Nat,
           NEW r \in RefTo(Reservations), NEW g \in RefTo(Legs)
    PROVE  NewRow(v, kind, from, to, r, g) \in BlockRows
  BY PrepAssumption DEF NewRow, Row, Buffer, BlockRows

LEMMA MovedRowType ==
    ASSUME NEW row \in BlockRows, NEW end \in Nat
    PROVE  Truncated(row, end) \in BlockRows /\ Extended(row, end) \in BlockRows
<1>1. ASSUME NEW to \in Nat, NEW until \in Nat
      PROVE  [row EXCEPT !.to = to, !.until = until] \in BlockRows
  BY DEF BlockRows
<1>2. Extended(row, end) \in BlockRows
  <2>1. end + Prep \in Nat
    BY PrepAssumption
  <2> QED
    BY <1>1, <2>1 DEF Extended
<1>3. Truncated(row, end) \in BlockRows
  <2> DEFINE stop == IF end <= row.from THEN row.from + 1 ELSE end
  <2>1. stop \in Nat /\ stop + Buffer(row.kind) \in Nat
    BY PrepAssumption DEF Buffer, BlockRows
  <2> HIDE DEF stop
  <2>2. [row EXCEPT !.to = stop, !.until = stop + Buffer(row.kind)] \in BlockRows
    BY <1>1, <2>1
  <2> QED
    BY <2>2 DEF Truncated, stop
<1> QED
  BY <1>2, <1>3

LEMMA NewBlockIsBlock ==
    ASSUME SpareBlocks # {}
    PROVE  NewBlock \in Blocks /\ Unused(NewBlock)
  BY DEF SpareBlocks, NewBlock

\* allocate() keeps a sound agenda sound.
LEMMA AllocateSound ==
    ASSUME NEW t, Sound(t),
           NEW v \in Vehicles, NEW kind \in {"RESERVATION", "CONTRACT", "BLOCK"},
           NEW from \in Nat, NEW to \in Nat,
           NEW r \in RefTo(Reservations), NEW g \in RefTo(Legs),
           Allocate(t, v, kind, from, to, r, g)
    PROVE  Sound(block')
  BY WriteSound, NewRowType, NewBlockIsBlock DEF Allocate

-----------------------------------------------------------------------------
(* The inductive invariant *)

\* What a transaction read still exists: rows change, and are never deleted.
Known(s) ==
    /\ s.id \in Reservations => resv[s.id] # NoRow
    /\ s.id \in Contracts =>
          /\ ctr[s.id] # NoRow
          /\ s.row.resv # NoRow => resv[s.row.resv] # NoRow
          /\ s.leg # NoRow => leg[s.leg] # NoRow /\ s.since \in Nat

\* Foreign keys, and what transactions in flight hold.
Links ==
    /\ \A g \in Legs : leg[g] # NoRow => ctr[leg[g].ctr] # NoRow
    /\ \A c \in Contracts : ctr[c] # NoRow /\ ctr[c].resv # NoRow => resv[ctr[c].resv] # NoRow
    /\ \A w \in Workers : seen[w] # NoRow => Known(seen[w])

IInv == TypeOK /\ Sound(block) /\ OneOpen(leg) /\ Links

\* The copy that worker w holds of reservation r.
LEMMA HeldReservation ==
    ASSUME TypeOK, NEW w \in Workers, NEW r \in Reservations, Holding(w, r)
    PROVE  seen[w] \in ResvCopies /\ seen[w].row \in ResvRows /\ seen[w].block \in RefTo(Blocks)
<1>1. seen[w] \in ResvCopies \cup CtrCopies
  BY DEF TypeOK, Holding, RefTo
<1>2. seen[w] \notin CtrCopies
  BY NoRowAssumption DEF Holding, CtrCopies
<1> QED
  BY <1>1, <1>2 DEF ResvCopies

\* The copy that worker w holds of contract c, and the interval it found.
LEMMA HeldContract ==
    ASSUME IInv, NEW w \in Workers, NEW c \in Contracts, Holding(w, c)
    PROVE  /\ seen[w] \in CtrCopies
           /\ seen[w].row \in CtrRows
           /\ seen[w].block \in RefTo(Blocks)
           /\ ctr[c] \in CtrRows /\ ctr[c] # NoRow
           /\ seen[w].row.resv # NoRow =>
                 /\ seen[w].row.resv \in Reservations
                 /\ resv[seen[w].row.resv] \in ResvRows
           /\ seen[w].leg # NoRow =>
                 /\ seen[w].leg \in Legs /\ seen[w].since \in Nat
                 /\ leg[seen[w].leg] \in LegRows /\ leg[seen[w].leg] # NoRow
<1>1. seen[w] \in CtrCopies
  <2>1. seen[w] \in ResvCopies \cup CtrCopies
    BY DEF IInv, TypeOK, Holding, RefTo
  <2>2. seen[w] \notin ResvCopies
    BY NoRowAssumption DEF Holding, ResvCopies
  <2> QED
    BY <2>1, <2>2
<1>2. Known(seen[w]) /\ seen[w].id = c
  BY DEF IInv, Links, Holding
<1>3. ctr[c] \in CtrRows /\ ctr[c] # NoRow
  BY <1>2 DEF Known, IInv, TypeOK, RefTo
<1>4. seen[w].row \in CtrRows /\ seen[w].block \in RefTo(Blocks) /\ seen[w].leg \in RefTo(Legs)
  BY <1>1 DEF CtrCopies
<1>5. ASSUME seen[w].row.resv # NoRow
      PROVE  seen[w].row.resv \in Reservations /\ resv[seen[w].row.resv] \in ResvRows
  <2>1. seen[w].row.resv \in Reservations
    BY <1>4, <1>5 DEF CtrRows, RefTo
  <2> QED
    BY <1>2, <1>5, <2>1 DEF Known, IInv, TypeOK, RefTo
<1>6. ASSUME seen[w].leg # NoRow
      PROVE  /\ seen[w].leg \in Legs /\ seen[w].since \in Nat
             /\ leg[seen[w].leg] \in LegRows /\ leg[seen[w].leg] # NoRow
  <2>1. seen[w].leg \in Legs
    BY <1>4, <1>6 DEF RefTo
  <2> QED
    BY <1>2, <1>6, <2>1 DEF Known, IInv, TypeOK, RefTo
<1> QED
  BY <1>1, <1>3, <1>4, <1>5, <1>6

\* recomputeCommercial() writes statuses of the enum and nothing else.
LEMMA RecomputeType ==
    ASSUME TypeOK, NEW S, Recompute(S)
    PROVE  unit' \in [Vehicles -> [commercial : {"AVAILABLE", "RESERVED", "RENTED"} \cup OffFleet,
                                   operational : OperationalStatuses]]
<1>1. \A v \in Vehicles : ByAgenda(v)' \in {"AVAILABLE", "RESERVED", "RENTED"}
  BY DEF ByAgenda
<1> QED
  BY <1>1 DEF Recompute, TypeOK

\* Rows are kept, foreign keys hold, and no transaction takes a new copy.
LEMMA LinksKept ==
    ASSUME IInv,
           \A r \in Reservations : resv[r] # NoRow => resv'[r] # NoRow,
           \A c \in Contracts : ctr[c] # NoRow => ctr'[c] # NoRow,
           \A g \in Legs : leg[g] # NoRow => leg'[g] # NoRow,
           \A g \in Legs : leg'[g] # NoRow => ctr'[leg'[g].ctr] # NoRow,
           \A c \in Contracts : ctr'[c] # NoRow /\ ctr'[c].resv # NoRow
                                    => resv'[ctr'[c].resv] # NoRow,
           \A w \in Workers : seen'[w] = NoRow \/ seen'[w] = seen[w]
    PROVE  Links'
<1>1. ASSUME NEW w \in Workers, seen'[w] # NoRow
      PROVE  Known(seen[w])'
  <2>1. seen'[w] = seen[w] /\ Known(seen[w]) /\ seen[w] \in ResvCopies \cup CtrCopies
    BY <1>1 DEF IInv, TypeOK, Links, RefTo
  <2>2. CASE seen[w] \in ResvCopies
    BY <2>1, <2>2, NoRowAssumption DEF Known, ResvCopies
  <2>3. CASE seen[w] \in CtrCopies
    <3>1. /\ seen[w].id \in Contracts /\ seen[w].id \notin Reservations
          /\ seen[w].row.resv \in Reservations \cup {NoRow}
          /\ seen[w].leg \in Legs \cup {NoRow}
      BY <2>3, NoRowAssumption DEF CtrCopies, CtrRows, RefTo
    <3> QED
      BY <2>1, <3>1 DEF Known
  <2> QED
    BY <2>1, <2>2, <2>3
<1> QED
  BY <1>1 DEF Links

\* Done(w) drops a copy and touches no other.
LEMMA DoneCopies ==
    ASSUME TypeOK, NEW w \in Workers, Done(w)
    PROVE  /\ seen' \in [Workers -> RefTo(ResvCopies \cup CtrCopies)]
           /\ \A x \in Workers : seen'[x] = NoRow \/ seen'[x] = seen[x]
  BY DEF TypeOK, Done, RefTo

-----------------------------------------------------------------------------
(* Transactions: what is read, and what is not written *)

LEMMA LoadReservationStep ==
    ASSUME IInv, NEW w \in Workers, NEW r \in Reservations, LoadReservation(w, r)
    PROVE  IInv'
<1>1. PICK b \in First(ResvBlocks(r)) :
          seen' = [seen EXCEPT ![w] = [id |-> r, row |-> resv[r], leg |-> NoRow,
                                       since |-> NoRow, block |-> b, renewed |-> FALSE]]
  BY DEF LoadReservation
<1> DEFINE copy == [id |-> r, row |-> resv[r], leg |-> NoRow,
                    since |-> NoRow, block |-> b, renewed |-> FALSE]
<1>2. b \in RefTo(Blocks)
  BY DEF First, ResvBlocks, RefTo
<1>3. copy \in ResvCopies
  BY <1>2 DEF LoadReservation, IInv, TypeOK, ResvCopies, RefTo
<1>4. Known(copy)
  BY NoRowAssumption DEF LoadReservation, Known
<1> HIDE DEF copy
<1>5. seen' = [seen EXCEPT ![w] = copy]
  BY <1>1 DEF copy
<1>6. TypeOK'
  BY <1>3, <1>5 DEF LoadReservation, IInv, TypeOK, RefTo
<1>7. Links'
  BY <1>4, <1>5 DEF LoadReservation, IInv, TypeOK, Links, Known
<1> QED
  BY <1>6, <1>7 DEF LoadReservation, IInv, Sound, Table, Disjoint, OneOpen

\* FoundIn() takes a copy whose interval and block exist.
LEMMA FoundInStep ==
    ASSUME IInv, NEW w \in Workers, NEW c \in Contracts, ctr[c] # NoRow,
           NEW row \in CtrRows, row.resv # NoRow => resv[row.resv] # NoRow,
           NEW renewed \in BOOLEAN,
           FoundIn(w, c, row, renewed),
           UNCHANGED <<now, unit, resv, ctr, leg, block, insp, bill>>
    PROVE  IInv'
<1>0. PICK g \in First(OpenLegs(c)) : \E b \in First(LegBlocks(g)) :
          seen' = [seen EXCEPT ![w] =
                      [id |-> c, row |-> row, leg |-> g,
                       since |-> IF g = NoRow THEN NoRow ELSE leg[g].from, block |-> b,
                       renewed |-> renewed]]
  BY DEF FoundIn
<1>1. PICK b \in First(LegBlocks(g)) :
          seen' = [seen EXCEPT ![w] =
                      [id |-> c, row |-> row, leg |-> g,
                       since |-> IF g = NoRow THEN NoRow ELSE leg[g].from, block |-> b,
                       renewed |-> renewed]]
  BY <1>0
<1> DEFINE since == IF g = NoRow THEN NoRow ELSE leg[g].from
           copy  == [id |-> c, row |-> row, leg |-> g, since |-> since, block |-> b,
                     renewed |-> renewed]
<1>2. b \in RefTo(Blocks) /\ g \in RefTo(Legs)
  BY DEF First, LegBlocks, OpenLegs, RefTo
<1>3. g # NoRow => leg[g] # NoRow /\ leg[g] \in LegRows
  BY <1>2 DEF First, OpenLegs, IInv, TypeOK, RefTo
<1>4. since \in RefTo(Nat) /\ (g # NoRow => since \in Nat)
  BY <1>3 DEF LegRows, RefTo
<1> HIDE DEF since
<1>5. copy \in CtrCopies
  BY <1>2, <1>4 DEF CtrCopies
<1>6. Known(copy)
  BY <1>3, <1>4, NoRowAssumption DEF Known
<1> HIDE DEF copy
<1>7. seen' = [seen EXCEPT ![w] = copy]
  BY <1>1 DEF copy, since
<1>8. TypeOK'
  BY <1>5, <1>7 DEF IInv, TypeOK, RefTo
<1>9. Links'
  BY <1>6, <1>7 DEF IInv, TypeOK, Links, Known
<1> QED
  BY <1>8, <1>9 DEF IInv, Sound, Table, Disjoint, OneOpen

LEMMA LoadContractStep ==
    ASSUME IInv, NEW w \in Workers, NEW c \in Contracts, LoadContract(w, c)
    PROVE  IInv'
<1>1. ctr[c] \in CtrRows /\ ctr[c] # NoRow
  BY DEF LoadContract, IInv, TypeOK, RefTo
<1>2. ctr[c].resv # NoRow => resv[ctr[c].resv] # NoRow
  BY <1>1 DEF IInv, Links
<1>3. RenewedAlready(c) \in BOOLEAN
  BY DEF RenewedAlready
<1> QED
  BY <1>1, <1>2, <1>3, FoundInStep DEF LoadContract

\* Only the block of a copy is read again.
LEMMA BlockLookedUp ==
    ASSUME IInv, NEW w \in Workers, seen[w] # NoRow,
           NEW b \in RefTo(Blocks), seen' = [seen EXCEPT ![w].block = b],
           UNCHANGED <<now, unit, resv, ctr, leg, block, insp, bill>>
    PROVE  IInv'
<1> DEFINE copy == [seen[w] EXCEPT !.block = b]
<1>1. seen[w] \in ResvCopies \cup CtrCopies /\ Known(seen[w])
  BY DEF IInv, TypeOK, Links, RefTo
<1>2. copy \in ResvCopies \cup CtrCopies
  <2>1. CASE seen[w] \in ResvCopies
    BY <2>1 DEF ResvCopies
  <2>2. CASE seen[w] \in CtrCopies
    BY <2>2 DEF CtrCopies
  <2> QED
    BY <1>1, <2>1, <2>2
<1>3. Known(copy)
  <2>1. /\ copy.id = seen[w].id /\ copy.row = seen[w].row
        /\ copy.leg = seen[w].leg /\ copy.since = seen[w].since
    <3>1. CASE seen[w] \in ResvCopies
      BY <3>1 DEF ResvCopies
    <3>2. CASE seen[w] \in CtrCopies
      BY <3>2 DEF CtrCopies
    <3> QED
      BY <1>1, <3>1, <3>2
  <2> QED
    BY <1>1, <2>1 DEF Known
<1>4. seen' = [seen EXCEPT ![w] = copy]
  BY DEF IInv, TypeOK
<1> HIDE DEF copy
<1>5. TypeOK'
  BY <1>2, <1>4 DEF IInv, TypeOK, RefTo
<1>6. Links'
  BY <1>3, <1>4 DEF IInv, TypeOK, Links, Known
<1> QED
  BY <1>5, <1>6 DEF IInv, Sound, Table, Disjoint, OneOpen

LEMMA LookStep ==
    ASSUME IInv, NEW w \in Workers, Look(w)
    PROVE  IInv'
<1>1. seen[w] # NoRow /\ seen[w] \in ResvCopies \cup CtrCopies
  BY DEF Look, Idle, IInv, TypeOK, RefTo
<1>2. CASE /\ seen[w].id \in Reservations
           /\ \E b \in First(ResvBlocks(seen[w].id)) : seen' = [seen EXCEPT ![w].block = b]
  <2>1. PICK b \in First(ResvBlocks(seen[w].id)) : seen' = [seen EXCEPT ![w].block = b]
    BY <1>2
  <2>2. b \in RefTo(Blocks)
    BY DEF First, ResvBlocks, RefTo
  <2> QED
    BY <1>1, <2>1, <2>2, BlockLookedUp DEF Look
<1>3. CASE /\ seen[w].id \in Contracts
           /\ \E renewed \in {seen[w].renewed, RenewedAlready(seen[w].id)} :
                 FoundIn(w, seen[w].id, seen[w].row, renewed)
  <2>1. PICK renewed \in {seen[w].renewed, RenewedAlready(seen[w].id)} :
            FoundIn(w, seen[w].id, seen[w].row, renewed)
    BY <1>3
  <2>2. Holding(w, seen[w].id)
    BY <1>1 DEF Holding
  <2>3. seen[w] \in CtrCopies /\ seen[w].row \in CtrRows /\ ctr[seen[w].id] # NoRow
    BY <1>3, <2>2, HeldContract
  <2>4. seen[w].row.resv # NoRow => resv[seen[w].row.resv] # NoRow
    BY <1>1, <1>3 DEF IInv, Links, Known
  <2>5. renewed \in BOOLEAN
    BY <2>3 DEF CtrCopies, RenewedAlready
  <2> QED
    BY <1>3, <2>1, <2>3, <2>4, <2>5, FoundInStep DEF Look
<1>4. CASE /\ seen[w].leg # NoRow
           /\ \E b \in First(LegBlocks(seen[w].leg)) : seen' = [seen EXCEPT ![w].block = b]
  <2>1. PICK b \in First(LegBlocks(seen[w].leg)) : seen' = [seen EXCEPT ![w].block = b]
    BY <1>4
  <2>2. b \in RefTo(Blocks)
    BY DEF First, LegBlocks, RefTo
  <2> QED
    BY <1>1, <2>1, <2>2, BlockLookedUp DEF Look
<1> QED
  BY <1>2, <1>3, <1>4 DEF Look

LEMMA AbandonStep ==
    ASSUME IInv, NEW w \in Workers, Abandon(w)
    PROVE  IInv'
<1>1. TypeOK'
  BY DoneCopies DEF Abandon, IInv, TypeOK
<1>2. Links'
  BY LinksKept, DoneCopies DEF Abandon, IInv, Links
<1> QED
  BY <1>1, <1>2 DEF Abandon, IInv, Sound, Table, Disjoint, OneOpen

LEMMA TickStep ==
    ASSUME IInv, Tick
    PROVE  IInv'
<1>1. TypeOK'
  <2>1. now' \in Nat
    BY DEF Tick, IInv, TypeOK
  <2> QED
    BY <2>1 DEF Tick, IInv, TypeOK
<1>2. Links'
  BY LinksKept DEF Tick, IInv, Links
<1> QED
  BY <1>1, <1>2 DEF Tick, IInv, Sound, Table, Disjoint, OneOpen

-----------------------------------------------------------------------------
(* Reservations *)

LEMMA PeriodType ==
    ASSUME NEW p \in Periods \cup BlockPeriods
    PROVE  p.from \in Nat /\ p.to \in Nat
  BY TimeAssumption

\* A reservation row is written, and perhaps a copy dropped.
LEMMA ReservationWritten ==
    ASSUME IInv, NEW r \in Reservations, NEW row \in ResvRows,
           resv' = [resv EXCEPT ![r] = row],
           now' = now, ctr' = ctr, leg' = leg, insp' = insp, bill' = bill,
           unit' = unit \/ (\E S : Recompute(S)),
           Sound(block'),
           seen' = seen \/ (\E w \in Workers : Done(w))
    PROVE  IInv'
<1>1. /\ seen' \in [Workers -> RefTo(ResvCopies \cup CtrCopies)]
      /\ \A x \in Workers : seen'[x] = NoRow \/ seen'[x] = seen[x]
  BY DoneCopies DEF IInv, TypeOK
<1>2. unit' \in [Vehicles -> [commercial : {"AVAILABLE", "RESERVED", "RENTED"} \cup OffFleet,
                             operational : OperationalStatuses]]
  BY RecomputeType DEF IInv, TypeOK
<1>3. resv' \in [Reservations -> RefTo(ResvRows)]
  BY DEF IInv, TypeOK, RefTo
<1>4. TypeOK'
  BY <1>1, <1>2, <1>3 DEF IInv, TypeOK, Sound, Table
<1>5. row # NoRow
  BY RowAssumption
<1>6. \A q \in Reservations : resv[q] # NoRow => resv'[q] # NoRow
  BY <1>5 DEF IInv, TypeOK
<1>7. \A c \in Contracts : ctr'[c] # NoRow /\ ctr'[c].resv # NoRow
                               => resv'[ctr'[c].resv] # NoRow
  <2> SUFFICES ASSUME NEW c \in Contracts, ctr[c] # NoRow, ctr[c].resv # NoRow
               PROVE  resv'[ctr[c].resv] # NoRow
    OBVIOUS
  <2>1. ctr[c] \in CtrRows
    BY DEF IInv, TypeOK, RefTo
  <2>2. ctr[c].resv \in Reservations
    BY <2>1 DEF CtrRows, RefTo
  <2> QED
    BY <1>6, <2>2 DEF IInv, Links
<1>8. Links'
  BY <1>1, <1>6, <1>7, LinksKept DEF IInv, Links
<1> QED
  BY <1>4, <1>8 DEF IInv, OneOpen

LEMMA RequestStep ==
    ASSUME IInv, NEW r \in Reservations, NEW p \in Periods, Request(r, p)
    PROVE  IInv'
<1> DEFINE row == [status |-> "REQUESTED", vehicle |-> NoRow, from |-> p.from, to |-> p.to]
<1>1. row \in ResvRows
  BY PeriodType DEF ResvRows, ResvStatuses, RefTo
<1>2. resv' = [resv EXCEPT ![r] = row]
  BY DEF Request
<1> HIDE DEF row
<1>3. Sound(block')
  BY DEF Request, IInv
<1> QED
  BY <1>1, <1>2, <1>3, ReservationWritten DEF Request

LEMMA RequestConfirmedStep ==
    ASSUME IInv, NEW r \in Reservations, NEW p \in Periods, NEW v \in Vehicles,
           RequestConfirmed(r, p, v)
    PROVE  IInv'
<1> DEFINE row == [status |-> "CONFIRMED", vehicle |-> v, from |-> p.from, to |-> p.to]
<1>1. row \in ResvRows
  BY PeriodType DEF ResvRows, ResvStatuses, RefTo
<1>2. resv' = [resv EXCEPT ![r] = row]
  BY DEF RequestConfirmed
<1> HIDE DEF row
<1>3. Sound(block')
  BY PeriodType, AllocateSound DEF RequestConfirmed, IInv, RefTo
<1>4. Recompute({v})
  BY DEF RequestConfirmed
<1> QED
  BY <1>1, <1>2, <1>3, <1>4, ReservationWritten DEF RequestConfirmed

\* The row that a handler holds may be written with another status.
LEMMA HeldRow ==
    ASSUME IInv, NEW w \in Workers, NEW r \in Reservations, Holding(w, r)
    PROVE  resv[r] \in ResvRows
<1>1. seen[w] # NoRow /\ seen[w].id = r
  BY DEF Holding
<1> QED
  BY <1>1 DEF IInv, Links, Known, TypeOK, RefTo

LEMMA ConfirmStep ==
    ASSUME IInv, NEW w \in Workers, NEW r \in Reservations, NEW v \in Vehicles,
           Confirm(w, r, v)
    PROVE  IInv'
<1> DEFINE row == [resv[r] EXCEPT !.status = "CONFIRMED", !.vehicle = v]
<1>1. Holding(w, r) /\ resv[r] \in ResvRows /\ seen[w].row \in ResvRows
  BY HeldReservation, HeldRow DEF Confirm, IInv
<1>2. row \in ResvRows
  BY <1>1 DEF ResvRows, ResvStatuses, RefTo
<1>3. resv' = [resv EXCEPT ![r] = row]
  BY DEF Confirm, IInv, TypeOK
<1> HIDE DEF row
<1>4. Sound(block')
  <2>1. seen[w].row.from \in Nat /\ seen[w].row.to \in Nat
    BY <1>1 DEF ResvRows
  <2> QED
    BY <2>1, AllocateSound DEF Confirm, IInv, RefTo
<1>5. Recompute({v}) /\ Done(w)
  BY DEF Confirm
<1> QED
  BY <1>2, <1>3, <1>4, <1>5, ReservationWritten DEF Confirm

LEMMA UpdateStep ==
    ASSUME IInv, NEW w \in Workers, NEW r \in Reservations,
           NEW v \in Vehicles \cup {NoRow}, NEW p \in Periods, Update(w, r, v, p)
    PROVE  IInv'
<1> DEFINE row == [resv[r] EXCEPT !.vehicle = v, !.from = p.from, !.to = p.to]
<1>1. resv[r] \in ResvRows
  BY HeldRow DEF Update
<1>2. row \in ResvRows
  BY <1>1, PeriodType DEF ResvRows, RefTo
<1>3. resv' = [resv EXCEPT ![r] = row]
  BY DEF Update, IInv, TypeOK
<1> HIDE DEF row
<1>4. Sound(block')
  <2>1. CASE UNCHANGED block
    BY <2>1 DEF IInv
  <2>2. CASE v # NoRow /\ Allocate(Release(block, seen[w].block), v, "RESERVATION",
                                    p.from, p.to, r, NoRow)
    BY <2>2, PeriodType, ReleaseSound, AllocateSound DEF IInv, RefTo
  <2> QED
    BY <2>1, <2>2 DEF Update
<1>5. Recompute({seen[w].row.vehicle, v}) /\ Done(w)
  BY DEF Update
<1> QED
  BY <1>2, <1>3, <1>4, <1>5, ReservationWritten DEF Update

LEMMA CancelStep ==
    ASSUME IInv, NEW w \in Workers, NEW r \in Reservations,
           NEW status \in {"CANCELLED", "NO_SHOW"}, Cancel(w, r, status)
    PROVE  IInv'
<1> DEFINE row == [resv[r] EXCEPT !.status = status]
<1>1. resv[r] \in ResvRows
  BY HeldRow DEF Cancel
<1>2. row \in ResvRows
  BY <1>1 DEF ResvRows, ResvStatuses
<1>3. resv' = [resv EXCEPT ![r] = row]
  BY DEF Cancel
<1> HIDE DEF row
<1>4. Sound(block')
  BY ReleaseSound DEF Cancel, IInv
<1>5. Recompute({seen[w].row.vehicle}) /\ Done(w)
  BY DEF Cancel
<1> QED
  BY <1>2, <1>3, <1>4, <1>5, ReservationWritten DEF Cancel

\* A change of kind and of interval moves no block.
LEMMA RelabelSound ==
    ASSUME Sound(block), NEW b \in Blocks, block[b] # NoRow,
           NEW kind \in {"RESERVATION", "CONTRACT", "BLOCK"}, NEW g \in Legs
    PROVE  Sound([block EXCEPT ![b].kind = kind, ![b].leg = g])
<1> DEFINE row == [block[b] EXCEPT !.kind = kind, !.leg = g]
           t   == [block EXCEPT ![b].kind = kind, ![b].leg = g]
<1>1. block[b] \in BlockRows
  BY DEF Sound, Table, RefTo
<1>2. /\ row \in BlockRows
      /\ row.vehicle = block[b].vehicle /\ row.from = block[b].from
      /\ row.to = block[b].to /\ row.until = block[b].until
  BY <1>1 DEF BlockRows, RefTo
<1>3. t = [block EXCEPT ![b] = row]
  BY DEF Sound, Table
<1> HIDE DEF row, t
<1>4. t \in Table /\ \A o \in Blocks : t[o] = IF o = b THEN row ELSE block[o]
  BY <1>2, <1>3 DEF Sound, Table, RefTo
<1>5. \A o \in Blocks : t[o] # NoRow => PeriodCheck(t[o])
  BY <1>2, <1>4 DEF Sound, PeriodCheck
<1>6. Disjoint(t)
  BY <1>2, <1>4 DEF Sound, Disjoint, Overlap
<1> QED
  BY <1>4, <1>5, <1>6 DEF Sound, t

\* A new contract and its first interval: no other interval of it is open.
LEMMA ContractInserted ==
    ASSUME IInv, NEW c \in Contracts, ctr[c] = NoRow, SpareLegs # {},
           NEW row \in CtrRows, ctr' = [ctr EXCEPT ![c] = row],
           row.resv # NoRow => resv[row.resv] # NoRow,
           NEW v \in Vehicles, NEW from \in Nat,
           leg' = [leg EXCEPT ![NewLeg] = OpenLeg(c, v, from)],
           resv' \in [Reservations -> RefTo(ResvRows)],
           \A r \in Reservations : resv[r] # NoRow => resv'[r] # NoRow,
           now' = now, unit' = unit, insp' = insp, bill' = bill,
           Sound(block'),
           seen' = seen \/ (\E w \in Workers : Done(w))
    PROVE  IInv'
<1> DEFINE new == OpenLeg(c, v, from)
<1>1. /\ seen' \in [Workers -> RefTo(ResvCopies \cup CtrCopies)]
      /\ \A x \in Workers : seen'[x] = NoRow \/ seen'[x] = seen[x]
  BY DoneCopies DEF IInv, TypeOK
<1>2. NewLeg \in Legs /\ leg[NewLeg] = NoRow
  BY DEF SpareLegs, NewLeg
<1>3. new \in LegRows /\ new # NoRow /\ new.ctr = c
  BY RowAssumption DEF OpenLeg, LegRows, RefTo
<1>4. row # NoRow
  BY RowAssumption
<1> HIDE DEF new
<1>5. leg' = [leg EXCEPT ![NewLeg] = new]
  BY DEF new
<1>6. TypeOK'
  BY <1>1, <1>2, <1>3, <1>5 DEF IInv, TypeOK, RefTo, Sound, Table
<1>7. \A g \in Legs : leg[g] # NoRow => leg[g].ctr \in Contracts /\ leg[g].ctr # c
  BY DEF IInv, Links, TypeOK, RefTo, LegRows
<1>8. \A g \in Legs : leg'[g] = IF g = NewLeg THEN new ELSE leg[g]
  BY <1>5 DEF IInv, TypeOK
<1>9. OneOpen(leg')
  <2> SUFFICES ASSUME NEW g \in Legs, NEW h \in Legs,
                      leg'[g] # NoRow, leg'[g].till = NoRow,
                      leg'[h] # NoRow, leg'[h].till = NoRow,
                      leg'[g].ctr = leg'[h].ctr
               PROVE  g = h
    BY DEF OneOpen
  <2>1. CASE g = NewLeg \/ h = NewLeg
    BY <1>3, <1>7, <1>8, <2>1
  <2>2. CASE g # NewLeg /\ h # NewLeg
    BY <1>8, <2>2 DEF IInv, OneOpen
  <2> QED
    BY <2>1, <2>2
<1>10. \A d \in Contracts : ctr'[d] = IF d = c THEN row ELSE ctr[d]
  BY DEF IInv, TypeOK
<1>11. \A d \in Contracts : ctr'[d] # NoRow /\ ctr'[d].resv # NoRow => resv'[ctr'[d].resv] # NoRow
  <2> SUFFICES ASSUME NEW d \in Contracts, ctr'[d] # NoRow, ctr'[d].resv # NoRow
               PROVE  resv'[ctr'[d].resv] # NoRow
    OBVIOUS
  <2>1. ctr'[d] \in CtrRows /\ ctr'[d].resv \in Reservations
    BY <1>6 DEF TypeOK, RefTo, CtrRows
  <2>2. resv[ctr'[d].resv] # NoRow
    BY <1>10 DEF IInv, Links
  <2> QED
    BY <2>1, <2>2
<1>12. Links'
  <2>1. \A g \in Legs : leg[g] # NoRow => leg'[g] # NoRow
    BY <1>3, <1>8
  <2>2. \A g \in Legs : leg'[g] # NoRow => ctr'[leg'[g].ctr] # NoRow
    BY <1>3, <1>4, <1>7, <1>8, <1>10 DEF IInv, Links
  <2> QED
    BY <1>1, <1>4, <1>10, <1>11, <2>1, <2>2, LinksKept
<1> QED
  BY <1>6, <1>9, <1>12 DEF IInv

LEMMA CheckoutStep ==
    ASSUME IInv, NEW w \in Workers, NEW r \in Reservations, NEW c \in Contracts,
           Checkout(w, r, c)
    PROVE  IInv'
<1> DEFINE held == seen[w].row
           row  == Contract("APPROVED", "PERIOD", held.from, held.to, r, NoRow)
           paid == [resv[r] EXCEPT !.status = "CHECKED_OUT"]
<1>1. /\ held \in ResvRows /\ seen[w].block \in RefTo(Blocks)
      /\ resv[r] \in ResvRows /\ resv[r] # NoRow
  BY HeldReservation, HeldRow, RowAssumption DEF Checkout, IInv
<1>2. held.from \in Nat /\ held.to \in Nat /\ held.vehicle \in Vehicles
  BY <1>1 DEF Checkout, ResvRows, RefTo
<1>3. row \in CtrRows /\ row.resv = r
  BY <1>2 DEF Contract, CtrRows, CtrStatuses, RefTo
<1>4. paid \in ResvRows /\ paid # NoRow
  BY <1>1, RowAssumption DEF ResvRows, ResvStatuses
<1>5. resv' = [resv EXCEPT ![r] = paid]
  BY DEF Checkout
<1>6. NewLeg \in Legs
  BY DEF Checkout, SpareLegs, NewLeg
<1>7. Sound(block')
  <2>1. CASE Live(block, seen[w].block)
    <3>1. block' = [block EXCEPT ![seen[w].block].kind = "CONTRACT", ![seen[w].block].leg = NewLeg]
      BY <2>1 DEF Checkout
    <3> QED
      BY <1>6, <2>1, <3>1, RelabelSound DEF Live, IInv
  <2>2. CASE ~Live(block, seen[w].block)
    BY <2>2 DEF Checkout, IInv
  <2> QED
    BY <2>1, <2>2
<1>8. ctr' = [ctr EXCEPT ![c] = row] /\ leg' = [leg EXCEPT ![NewLeg] = OpenLeg(c, held.vehicle, held.from)]
  BY DEF Checkout
<1> HIDE DEF row, paid, held
<1>9. /\ resv' \in [Reservations -> RefTo(ResvRows)]
      /\ \A q \in Reservations : resv[q] # NoRow => resv'[q] # NoRow
  BY <1>4, <1>5 DEF IInv, TypeOK, RefTo
<1>10. /\ ctr[c] = NoRow /\ SpareLegs # {} /\ Done(w)
       /\ now' = now /\ unit' = unit /\ insp' = insp /\ bill' = bill
  BY DEF Checkout
<1>11. row.resv # NoRow => resv[row.resv] # NoRow
  BY <1>1, <1>3
<1> QED
  BY <1>2, <1>3, <1>7, <1>8, <1>9, <1>10, <1>11, ContractInserted

LEMMA ExpireStep ==
    ASSUME IInv, NEW late \in SUBSET Reservations, Expire(late)
    PROVE  IInv'
<1>1. \A r \in late : resv[r] \in ResvRows
  BY DEF Expire, Asked, IInv, TypeOK, RefTo
<1>2. \A r \in late : [resv[r] EXCEPT !.status = "EXPIRED"] \in ResvRows
  BY <1>1 DEF ResvRows, ResvStatuses
<1>3. resv' \in [Reservations -> RefTo(ResvRows)]
  BY <1>2 DEF Expire, IInv, TypeOK, RefTo
<1>4. \A r \in Reservations : resv[r] # NoRow => resv'[r] # NoRow
  BY <1>2, RowAssumption DEF Expire
<1>5. TypeOK'
  BY <1>3 DEF Expire, IInv, TypeOK
<1>6. \A c \in Contracts : ctr[c] # NoRow /\ ctr[c].resv # NoRow => resv'[ctr[c].resv] # NoRow
  BY <1>4 DEF IInv, Links, TypeOK, RefTo, CtrRows
<1>7. Links'
  BY <1>4, <1>6, LinksKept DEF Expire, IInv, Links
<1> QED
  BY <1>5, <1>7 DEF Expire, IInv, Sound, Table, Disjoint, OneOpen


-----------------------------------------------------------------------------
(* Contracts *)

\* Contracts that exist are written, none is made: their rows keep the
\* reservation they came from.
LEMMA ContractsWritten ==
    ASSUME IInv,
           ctr' \in [Contracts -> RefTo(CtrRows)],
           \A c \in Contracts : ctr[c] # NoRow => ctr'[c] # NoRow,
           \A c \in Contracts : ctr'[c] # NoRow => ctr[c] # NoRow /\ ctr'[c].resv = ctr[c].resv,
           leg' \in [Legs -> RefTo(LegRows)],
           \A g \in Legs : leg[g] # NoRow => leg'[g] # NoRow,
           \A g \in Legs : leg'[g] # NoRow => ctr[leg'[g].ctr] # NoRow,
           OneOpen(leg'),
           resv' \in [Reservations -> RefTo(ResvRows)],
           \A r \in Reservations : resv[r] # NoRow => resv'[r] # NoRow,
           now' = now, insp' = insp,
           bill' \in [Contracts -> [rental : Nat, closing : Nat]],
           unit' = unit \/ (\E S : Recompute(S)),
           Sound(block'),
           NEW w \in Workers, Done(w)
    PROVE  IInv'
<1>1. /\ seen' \in [Workers -> RefTo(ResvCopies \cup CtrCopies)]
      /\ \A x \in Workers : seen'[x] = NoRow \/ seen'[x] = seen[x]
  BY DoneCopies DEF IInv
<1>2. unit' \in [Vehicles -> [commercial : {"AVAILABLE", "RESERVED", "RENTED"} \cup OffFleet,
                             operational : OperationalStatuses]]
  BY RecomputeType DEF IInv, TypeOK
<1>3. TypeOK'
  BY <1>1, <1>2 DEF IInv, TypeOK, Sound, Table
<1>4. \A c \in Contracts : ctr'[c] # NoRow /\ ctr'[c].resv # NoRow => resv'[ctr'[c].resv] # NoRow
  <2> SUFFICES ASSUME NEW c \in Contracts, ctr'[c] # NoRow, ctr'[c].resv # NoRow
               PROVE  resv'[ctr'[c].resv] # NoRow
    OBVIOUS
  <2>1. ctr'[c] \in CtrRows
    BY DEF RefTo
  <2>2. ctr'[c].resv \in Reservations
    BY <2>1 DEF CtrRows, RefTo
  <2>3. resv[ctr'[c].resv] # NoRow
    BY DEF IInv, Links
  <2> QED
    BY <2>2, <2>3
<1>5. \A g \in Legs : leg'[g] # NoRow => ctr'[leg'[g].ctr] # NoRow
  <2> SUFFICES ASSUME NEW g \in Legs, leg'[g] # NoRow
               PROVE  ctr'[leg'[g].ctr] # NoRow
    OBVIOUS
  <2>1. leg'[g] \in LegRows
    BY DEF RefTo
  <2>2. leg'[g].ctr \in Contracts
    BY <2>1 DEF LegRows
  <2> QED
    BY <2>2
<1>6. Links'
  BY <1>1, <1>4, <1>5, LinksKept
<1> QED
  BY <1>3, <1>6 DEF IInv

\* The status of a contract changes.
LEMMA StatusWritten ==
    ASSUME IInv, NEW c \in Contracts, ctr[c] \in CtrRows, NEW status \in CtrStatuses,
           ctr' = [ctr EXCEPT ![c].status = status]
    PROVE  /\ ctr' \in [Contracts -> RefTo(CtrRows)]
           /\ \A d \in Contracts : ctr[d] # NoRow => ctr'[d] # NoRow
           /\ \A d \in Contracts : ctr'[d] # NoRow => ctr[d] # NoRow /\ ctr'[d].resv = ctr[d].resv
<1> DEFINE row == [ctr[c] EXCEPT !.status = status]
<1>1. row \in CtrRows /\ row.resv = ctr[c].resv /\ row # NoRow /\ ctr[c] # NoRow
  BY RowAssumption DEF CtrRows
<1>2. ctr' = [ctr EXCEPT ![c] = row]
  OBVIOUS
<1> HIDE DEF row
<1> QED
  BY <1>1, <1>2 DEF IInv, TypeOK, RefTo

\* Intervals as they were.
LEMMA LegsKept ==
    ASSUME IInv, leg' = leg
    PROVE  /\ leg' \in [Legs -> RefTo(LegRows)]
           /\ \A g \in Legs : leg[g] # NoRow => leg'[g] # NoRow
           /\ \A g \in Legs : leg'[g] # NoRow => ctr[leg'[g].ctr] # NoRow
           /\ OneOpen(leg')
  BY DEF IInv, TypeOK, Links, OneOpen

\* An interval is closed, or begins at another time.
LEMMA LegWritten ==
    ASSUME IInv, NEW g \in Legs, leg[g] \in LegRows,
           NEW row \in LegRows, row.ctr = leg[g].ctr,
           row.till = NoRow => leg[g].till = NoRow,
           leg' = [leg EXCEPT ![g] = row]
    PROVE  /\ leg' \in [Legs -> RefTo(LegRows)]
           /\ \A h \in Legs : leg[h] # NoRow => leg'[h] # NoRow
           /\ \A h \in Legs : leg'[h] # NoRow => ctr[leg'[h].ctr] # NoRow
           /\ OneOpen(leg')
<1>1. row # NoRow /\ leg[g] # NoRow
  BY RowAssumption
<1>2. \A h \in Legs : leg'[h] = IF h = g THEN row ELSE leg[h]
  BY DEF IInv, TypeOK
<1>3. leg' \in [Legs -> RefTo(LegRows)]
  BY DEF IInv, TypeOK, RefTo
<1>4. \A h \in Legs : leg[h] # NoRow => ctr[leg[h].ctr] # NoRow
  BY DEF IInv, Links
<1>5. OneOpen(leg')
  <2> SUFFICES ASSUME NEW x \in Legs, NEW y \in Legs,
                      leg'[x] # NoRow, leg'[x].till = NoRow,
                      leg'[y] # NoRow, leg'[y].till = NoRow,
                      leg'[x].ctr = leg'[y].ctr
               PROVE  x = y
    BY DEF OneOpen
  <2>1. /\ leg[x] # NoRow /\ leg[x].till = NoRow
        /\ leg[y] # NoRow /\ leg[y].till = NoRow
        /\ leg[x].ctr = leg[y].ctr
    BY <1>1, <1>2
  <2> QED
    BY <2>1 DEF IInv, OneOpen
<1> QED
  BY <1>1, <1>2, <1>3, <1>4, <1>5

LEMMA LegClosed ==
    ASSUME IInv, NEW g \in Legs, leg[g] \in LegRows, NEW at \in Nat,
           leg' = [leg EXCEPT ![g].till = at]
    PROVE  /\ leg' \in [Legs -> RefTo(LegRows)]
           /\ \A h \in Legs : leg[h] # NoRow => leg'[h] # NoRow
           /\ \A h \in Legs : leg'[h] # NoRow => ctr[leg'[h].ctr] # NoRow
           /\ OneOpen(leg')
<1> DEFINE row == [leg[g] EXCEPT !.till = at]
<1>1. row \in LegRows /\ row.ctr = leg[g].ctr /\ row.till # NoRow
  BY NoRowAssumption DEF LegRows, RefTo
<1>2. leg' = [leg EXCEPT ![g] = row]
  OBVIOUS
<1> HIDE DEF row
<1> QED
  BY <1>1, <1>2, LegWritten

\* A car leaves a contract and another enters it: the index is checked.
LEMMA LegsSwapped ==
    ASSUME IInv, NEW g \in Legs, leg[g] \in LegRows, NEW at \in Nat,
           SpareLegs # {}, NEW c \in Contracts, ctr[c] # NoRow,
           NEW v \in Vehicles, NEW from \in Nat,
           leg' = [leg EXCEPT ![g].till = at, ![NewLeg] = OpenLeg(c, v, from)],
           OneOpen(leg')
    PROVE  /\ leg' \in [Legs -> RefTo(LegRows)]
           /\ \A h \in Legs : leg[h] # NoRow => leg'[h] # NoRow
           /\ \A h \in Legs : leg'[h] # NoRow => ctr[leg'[h].ctr] # NoRow
<1> DEFINE row == [leg[g] EXCEPT !.till = at]
           new == OpenLeg(c, v, from)
<1>1. row \in LegRows /\ row.ctr = leg[g].ctr
  BY DEF LegRows, RefTo
<1>2. new \in LegRows /\ new.ctr = c
  BY DEF OpenLeg, LegRows, RefTo
<1>3. NewLeg \in Legs /\ leg[NewLeg] = NoRow /\ leg[g] # NoRow
  BY RowAssumption DEF SpareLegs, NewLeg
<1>4. \A h \in Legs : leg'[h] = IF h = NewLeg THEN new ELSE IF h = g THEN row ELSE leg[h]
  BY <1>3 DEF IInv, TypeOK
<1>5. DOMAIN leg' = Legs /\ leg' = [h \in Legs |-> leg'[h]]
  BY DEF IInv, TypeOK
<1> HIDE DEF row, new
<1>6. row # NoRow /\ new # NoRow
  BY <1>1, <1>2, RowAssumption
<1>7. \A h \in Legs : leg'[h] \in RefTo(LegRows)
  BY <1>1, <1>2, <1>4 DEF IInv, TypeOK, RefTo
<1> QED
  BY <1>1, <1>2, <1>3, <1>4, <1>5, <1>6, <1>7 DEF IInv, Links

\* insert() on top of a sound agenda.
LEMMA InsertStep ==
    ASSUME IInv, NEW t, Sound(t), NEW c \in Contracts,
           NEW kind \in {"PERIOD", "LONG_TERM"}, NEW v \in Vehicles,
           NEW from \in Nat, NEW to \in Nat, NEW old \in RefTo(Contracts),
           InsertContract(t, c, kind, v, from, to, old),
           UNCHANGED <<now, unit, resv, insp, bill>>,
           seen' = seen \/ (\E w \in Workers : Done(w))
    PROVE  IInv'
<1> DEFINE row == Contract("DRAFT", kind, from, to, NoRow, old)
<1>1. row \in CtrRows /\ row.resv = NoRow
  BY DEF Contract, CtrRows, CtrStatuses, Proposal, RefTo
<1>2. /\ ctr[c] = NoRow /\ SpareLegs # {}
      /\ ctr' = [ctr EXCEPT ![c] = row]
      /\ leg' = [leg EXCEPT ![NewLeg] = OpenLeg(c, v, from)]
  BY DEF InsertContract
<1>3. NewLeg \in Legs
  BY <1>2 DEF SpareLegs, NewLeg
<1>4. Sound(block')
  BY <1>3, AllocateSound DEF InsertContract, RefTo
<1> HIDE DEF row
<1>5. resv' \in [Reservations -> RefTo(ResvRows)]
  BY DEF IInv, TypeOK
<1> QED
  BY <1>1, <1>2, <1>4, <1>5, ContractInserted

LEMMA ProposeStep ==
    ASSUME IInv, NEW c \in Contracts, NEW kind \in ContractKinds, NEW v \in Vehicles,
           NEW p \in Periods, Propose(c, kind, v, p)
    PROVE  IInv'
<1>1. kind \in {"PERIOD", "LONG_TERM"} /\ p.from \in Nat /\ p.to \in Nat
  BY KindAssumption, PeriodType
<1>2. NoRow \in RefTo(Contracts) /\ Sound(block)
  BY DEF RefTo, IInv
<1> QED
  BY <1>1, <1>2, InsertStep DEF Propose

\* renew() first takes the preparation of a block away: it frees time only.
LEMMA BareSound ==
    ASSUME Sound(block), NEW b \in Blocks, block[b] # NoRow
    PROVE  Sound([block EXCEPT ![b].until = block[b].to])
<1> DEFINE row == [block[b] EXCEPT !.until = block[b].to]
           t   == [block EXCEPT ![b].until = block[b].to]
<1>1. block[b] \in BlockRows
  BY DEF Sound, Table, RefTo
<1>2. /\ row \in BlockRows
      /\ row.vehicle = block[b].vehicle /\ row.from = block[b].from
      /\ row.to = block[b].to /\ row.until = block[b].to
  BY <1>1 DEF BlockRows
<1>3. t = [block EXCEPT ![b] = row]
  BY DEF Sound, Table
<1>4. Fits(block, b, row)
  <2>1. PeriodCheck(block[b])
    BY DEF Sound
  <2>2. PeriodCheck(row)
    BY <1>1, <1>2, <2>1 DEF PeriodCheck, BlockRows
  <2>3. ASSUME NEW o \in Blocks \ {b}, block[o] # NoRow
        PROVE  ~Overlap(row, block[o])
    <3>1. block[o] \in BlockRows
      BY <2>3 DEF Sound, Table, RefTo
    <3>2. ~Overlap(block[b], block[o])
      BY <2>3 DEF Sound, Disjoint
    <3> QED
      BY <1>1, <1>2, <2>1, <3>1, <3>2 DEF Overlap, PeriodCheck, BlockRows
  <2> QED
    BY <2>2, <2>3 DEF Fits
<1> HIDE DEF row
<1> QED
  BY <1>2, <1>3, <1>4, WriteSound DEF Write

LEMMA RenewStep ==
    ASSUME IInv, NEW w \in Workers, NEW c \in Contracts, NEW d \in Contracts,
           NEW to \in 0 .. MaxEnd, Renew(w, c, d, to)
    PROVE  IInv'
<1> DEFINE b    == seen[w].block
           bare == IF Live(block, b) THEN [block EXCEPT ![b].until = block[b].to] ELSE block
           v    == leg[seen[w].leg].car
           from == seen[w].row.to
<1>1. Holding(w, c) /\ seen[w].leg # NoRow
  BY DEF Renew
<1>2. seen[w].row \in CtrRows /\ leg[seen[w].leg] \in LegRows
  BY <1>1, HeldContract
<1>3. from \in Nat /\ v \in Vehicles /\ to \in Nat
  BY <1>2, TimeAssumption DEF CtrRows, LegRows
<1>4. Sound(bare)
  BY BareSound DEF Live, IInv
<1>5. InsertContract(bare, d, "LONG_TERM", v, from, to, c) /\ Done(w)
  BY DEF Renew
<1>6. UNCHANGED <<now, unit, resv, insp, bill>> /\ c \in RefTo(Contracts)
  BY DEF Renew, RefTo
<1> HIDE DEF b, bare, v, from
<1> QED
  BY <1>3, <1>4, <1>5, <1>6, InsertStep

LEMMA AdvanceStep ==
    ASSUME IInv, NEW w \in Workers, NEW c \in Contracts, NEW from,
           NEW to \in CtrStatuses, Advance(w, c, from, to)
    PROVE  IInv'
<1>1. ctr[c] \in CtrRows
  BY HeldContract DEF Advance
<1>2. ctr' = [ctr EXCEPT ![c].status = to] /\ Done(w) /\ leg' = leg
  BY DEF Advance
<1>3. /\ resv' \in [Reservations -> RefTo(ResvRows)]
      /\ \A r \in Reservations : resv[r] # NoRow => resv'[r] # NoRow
      /\ now' = now /\ insp' = insp /\ unit' = unit
      /\ bill' \in [Contracts -> [rental : Nat, closing : Nat]]
      /\ Sound(block')
  BY DEF Advance, IInv, TypeOK
<1> QED
  BY <1>1, <1>2, <1>3, StatusWritten, LegsKept, ContractsWritten

LEMMA CancelContractStep ==
    ASSUME IInv, NEW w \in Workers, NEW c \in Contracts, CancelContract(w, c)
    PROVE  IInv'
<1> DEFINE g  == seen[w].leg
           at == Later(seen[w].since, now)
           r  == seen[w].row.resv
<1>1. Holding(w, c) /\ Done(w) /\ now' = now /\ insp' = insp /\ bill' = bill
  BY DEF CancelContract
<1>2. /\ ctr[c] \in CtrRows
      /\ g # NoRow => g \in Legs /\ leg[g] \in LegRows /\ seen[w].since \in Nat
      /\ r # NoRow => r \in Reservations /\ resv[r] \in ResvRows
  BY <1>1, HeldContract
<1>3. /\ leg' \in [Legs -> RefTo(LegRows)]
      /\ \A h \in Legs : leg[h] # NoRow => leg'[h] # NoRow
      /\ \A h \in Legs : leg'[h] # NoRow => ctr[leg'[h].ctr] # NoRow
      /\ OneOpen(leg')
  <2>1. CASE g = NoRow
    BY <2>1, LegsKept DEF CancelContract
  <2>2. CASE g # NoRow
    <3>1. at \in Nat
      BY <1>2, <2>2 DEF Later, IInv, TypeOK
    <3>2. leg' = [leg EXCEPT ![g].till = at]
      BY <2>2 DEF CancelContract
    <3> HIDE DEF at, g
    <3> QED
      BY <1>2, <2>2, <3>1, <3>2, LegClosed
  <2> QED
    BY <2>1, <2>2
<1>4. Sound(block')
  BY ReleaseSound DEF CancelContract, IInv
<1>5. ctr' = [ctr EXCEPT ![c].status = "CANCELLED"] /\ "CANCELLED" \in CtrStatuses
  BY DEF CancelContract, CtrStatuses, Finished
<1>6. /\ resv' \in [Reservations -> RefTo(ResvRows)]
      /\ \A q \in Reservations : resv[q] # NoRow => resv'[q] # NoRow
  <2>1. CASE r = NoRow
    BY <2>1 DEF CancelContract, IInv, TypeOK
  <2>2. CASE r # NoRow
    <3> DEFINE row == [resv[r] EXCEPT !.status = "CANCELLED"]
    <3>1. row \in ResvRows
      BY <1>2, <2>2 DEF ResvRows, ResvStatuses
    <3>2. row # NoRow
      BY <3>1, RowAssumption
    <3>3. resv' = [resv EXCEPT ![r] = row]
      BY <2>2 DEF CancelContract
    <3> HIDE DEF row, r
    <3> QED
      BY <3>1, <3>2, <3>3 DEF IInv, TypeOK, RefTo
  <2> QED
    BY <2>1, <2>2
<1>7. \E S : Recompute(S)
  BY DEF CancelContract
<1>8. bill' \in [Contracts -> [rental : Nat, closing : Nat]]
  BY <1>1 DEF IInv, TypeOK
<1> QED
  BY <1>1, <1>2, <1>3, <1>4, <1>5, <1>6, <1>7, <1>8, StatusWritten, ContractsWritten

\* An active row of a sound agenda has the columns of the table.
LEMMA LiveRow ==
    ASSUME Sound(block), NEW b, Live(block, b)
    PROVE  b \in Blocks /\ block[b] \in BlockRows
  BY DEF Sound, Table, Live, RefTo

\* One more title.
LEMMA BillWritten ==
    ASSUME IInv, NEW c \in Contracts,
           \/ bill' = [bill EXCEPT ![c].rental = 1]
           \/ bill' = [bill EXCEPT ![c].closing = @ + 1]
    PROVE  bill' \in [Contracts -> [rental : Nat, closing : Nat]]
<1>1. bill \in [Contracts -> [rental : Nat, closing : Nat]]
  BY DEF IInv, TypeOK
<1>2. bill[c] \in [rental : Nat, closing : Nat]
  BY <1>1
<1>3. PICK row \in [rental : Nat, closing : Nat] : bill' = [bill EXCEPT ![c] = row]
  <2>1. CASE bill' = [bill EXCEPT ![c].rental = 1]
    <3>1. [bill[c] EXCEPT !.rental = 1] \in [rental : Nat, closing : Nat]
      BY <1>2
    <3> QED
      BY <2>1, <3>1
  <2>2. CASE bill' = [bill EXCEPT ![c].closing = @ + 1]
    <3>1. bill[c].closing + 1 \in Nat
      BY <1>2
    <3>2. [bill[c] EXCEPT !.closing = @ + 1] \in [rental : Nat, closing : Nat]
      BY <1>2, <3>1
    <3> QED
      BY <2>2, <3>2
  <2> QED
    BY <2>1, <2>2
<1> QED
  BY <1>1, <1>3

LEMMA ActivateStep ==
    ASSUME IInv, NEW w \in Workers, NEW c \in Contracts, Activate(w, c)
    PROVE  IInv'
<1> DEFINE g     == seen[w].leg
           b     == seen[w].block
           begun == [leg[g] EXCEPT !.from = now]
           moved == [block[b] EXCEPT !.from = now]
<1>1. /\ Holding(w, c) /\ Done(w) /\ g # NoRow
      /\ now' = now /\ insp' = insp /\ resv' = resv /\ now \in Nat
  BY DEF Activate, IInv, TypeOK
<1>2. ctr[c] \in CtrRows /\ g \in Legs /\ leg[g] \in LegRows
  BY <1>1, HeldContract
<1>3. /\ leg' \in [Legs -> RefTo(LegRows)]
      /\ \A h \in Legs : leg[h] # NoRow => leg'[h] # NoRow
      /\ \A h \in Legs : leg'[h] # NoRow => ctr[leg'[h].ctr] # NoRow
      /\ OneOpen(leg')
  <2>1. begun \in LegRows /\ begun.ctr = leg[g].ctr /\ begun.till = leg[g].till
    BY <1>1, <1>2 DEF LegRows
  <2>2. leg' = [leg EXCEPT ![g] = begun]
    BY DEF Activate
  <2> HIDE DEF begun, g
  <2> QED
    BY <1>2, <2>1, <2>2, LegWritten
<1>4. Sound(block')
  <2>1. CASE Live(block, b) /\ now < block[b].from
    <3>1. b \in Blocks /\ block[b] \in BlockRows
      BY <2>1, LiveRow DEF IInv
    <3>2. moved \in BlockRows
      BY <1>1, <3>1 DEF BlockRows
    <3>3. Fits(block, b, moved) /\ block' = Write(block, b, moved)
      BY <2>1 DEF Activate
    <3> HIDE DEF moved, b
    <3> QED
      BY <3>1, <3>2, <3>3, WriteSound DEF IInv
  <2>2. CASE ~(Live(block, b) /\ now < block[b].from)
    BY <2>2 DEF Activate, IInv
  <2> QED
    BY <2>1, <2>2
<1>5. ctr' = [ctr EXCEPT ![c].status = "ACTIVE"] /\ "ACTIVE" \in CtrStatuses
  BY DEF Activate, CtrStatuses
<1>6. bill' \in [Contracts -> [rental : Nat, closing : Nat]]
  <2>1. bill' = bill \/ bill' = [bill EXCEPT ![c].rental = 1]
    BY DEF Activate
  <2> QED
    BY <2>1, BillWritten DEF IInv, TypeOK
<1>7. \E S : Recompute(S)
  BY DEF Activate
<1>8. /\ resv' \in [Reservations -> RefTo(ResvRows)]
      /\ \A r \in Reservations : resv[r] # NoRow => resv'[r] # NoRow
  BY <1>1 DEF IInv, TypeOK
<1> QED
  BY <1>1, <1>2, <1>3, <1>4, <1>5, <1>6, <1>7, <1>8, StatusWritten, ContractsWritten

\* Contracts and reservations as they were: only cars are changed.
LEMMA SwapStep ==
    ASSUME IInv, NEW w \in Workers, NEW c \in Contracts, Holding(w, c), Done(w),
           seen[w].leg # NoRow, SpareLegs # {},
           NEW v \in Vehicles, NEW from \in Nat, NEW at \in Nat,
           leg' = [leg EXCEPT ![seen[w].leg].till = at, ![NewLeg] = OpenLeg(c, v, from)],
           OneOpen(leg'),
           UNCHANGED <<now, resv, ctr, insp, bill>>,
           \E S : Recompute(S),
           Sound(block')
    PROVE  IInv'
<1> DEFINE g == seen[w].leg
<1>1. ctr[c] # NoRow /\ g \in Legs /\ leg[g] \in LegRows
  BY HeldContract
<1>2. /\ leg' \in [Legs -> RefTo(LegRows)]
      /\ \A h \in Legs : leg[h] # NoRow => leg'[h] # NoRow
      /\ \A h \in Legs : leg'[h] # NoRow => ctr[leg'[h].ctr] # NoRow
  BY <1>1, LegsSwapped
<1>3. /\ ctr' \in [Contracts -> RefTo(CtrRows)]
      /\ resv' \in [Reservations -> RefTo(ResvRows)]
      /\ bill' \in [Contracts -> [rental : Nat, closing : Nat]]
  BY DEF IInv, TypeOK
<1> QED
  BY <1>2, <1>3, ContractsWritten

LEMMA SwapProposedStep ==
    ASSUME IInv, NEW w \in Workers, NEW c \in Contracts, NEW v \in Vehicles,
           SwapProposed(w, c, v)
    PROVE  IInv'
<1> DEFINE from == seen[w].row.from
           to   == seen[w].row.to
           at   == seen[w].since
<1>1. /\ Holding(w, c) /\ Done(w) /\ seen[w].leg # NoRow /\ SpareLegs # {}
      /\ leg' = [leg EXCEPT ![seen[w].leg].till = at, ![NewLeg] = OpenLeg(c, v, from)]
      /\ OneOpen(leg')
      /\ UNCHANGED <<now, resv, ctr, insp, bill>>
      /\ \E S : Recompute(S)
  BY DEF SwapProposed
<1>2. at \in Nat /\ from \in Nat /\ to \in Nat
  BY <1>1, HeldContract DEF CtrRows
<1>3. NewLeg \in Legs
  BY <1>1 DEF SpareLegs, NewLeg
<1>4. Allocate(Release(block, seen[w].block), v, "CONTRACT", from, to, NoRow, NewLeg)
  BY DEF SwapProposed
<1> HIDE DEF from, to, at
<1>5. Sound(block')
  BY <1>2, <1>3, <1>4, ReleaseSound, AllocateSound DEF IInv, RefTo
<1> QED
  BY <1>1, <1>2, <1>5, SwapStep

LEMMA SwapInForceStep ==
    ASSUME IInv, NEW w \in Workers, NEW c \in Contracts, NEW v \in Vehicles,
           SwapInForce(w, c, v)
    PROVE  IInv'
<1> DEFINE to  == seen[w].row.to
           b   == seen[w].block
           cut == Truncated(block[b], now)
<1>1. /\ Holding(w, c) /\ Done(w) /\ seen[w].leg # NoRow /\ SpareLegs # {}
      /\ leg' = [leg EXCEPT ![seen[w].leg].till = now, ![NewLeg] = OpenLeg(c, v, now)]
      /\ OneOpen(leg')
      /\ UNCHANGED <<now, resv, ctr, insp, bill>>
      /\ \E S : Recompute(S)
  BY DEF SwapInForce
<1>2. now \in Nat /\ to \in Nat
  BY <1>1, HeldContract DEF CtrRows, IInv, TypeOK
<1>3. NewLeg \in Legs
  BY <1>1 DEF SpareLegs, NewLeg
<1>4. Sound(block')
  <2>1. CASE Live(block, b)
    <3>1. /\ Fits(block, b, cut)
          /\ Allocate(Write(block, b, cut), v, "CONTRACT", now, to, NoRow, NewLeg)
      BY <2>1 DEF SwapInForce
    <3>2. b \in Blocks /\ block[b] \in BlockRows
      BY <2>1, LiveRow DEF IInv
    <3>3. cut \in BlockRows
      BY <1>2, <3>2, MovedRowType
    <3> HIDE DEF cut, b, to
    <3>4. Sound(Write(block, b, cut))
      BY <3>1, <3>2, <3>3, WriteSound DEF IInv
    <3> QED
      BY <1>2, <1>3, <3>1, <3>4, AllocateSound DEF RefTo
  <2>2. CASE ~Live(block, b)
    <3>1. Allocate(block, v, "CONTRACT", now, to, NoRow, NewLeg)
      BY <2>2 DEF SwapInForce
    <3> HIDE DEF to
    <3> QED
      BY <1>2, <1>3, <3>1, AllocateSound DEF IInv, RefTo
  <2> QED
    BY <2>1, <2>2
<1> QED
  BY <1>1, <1>2, <1>4, SwapStep

LEMMA ExtendStep ==
    ASSUME IInv, NEW w \in Workers, NEW c \in Contracts, NEW to \in 0 .. MaxEnd,
           Extend(w, c, to)
    PROVE  IInv'
<1> DEFINE b      == seen[w].block
           longer == Extended(block[b], to)
           row    == [ctr[c] EXCEPT !.to = to]
<1>1. /\ Holding(w, c) /\ Done(w) /\ to \in Nat
      /\ UNCHANGED <<now, unit, resv, leg, insp, bill>>
  BY TimeAssumption DEF Extend
<1>2. Sound(block')
  <2>1. CASE Live(block, b)
    <3>1. Fits(block, b, longer) /\ block' = Write(block, b, longer)
      BY <2>1 DEF Extend
    <3>2. b \in Blocks /\ block[b] \in BlockRows
      BY <2>1, LiveRow DEF IInv
    <3>3. longer \in BlockRows
      BY <1>1, <3>2, MovedRowType
    <3> HIDE DEF longer, b
    <3> QED
      BY <3>1, <3>2, <3>3, WriteSound DEF IInv
  <2>2. CASE ~Live(block, b)
    BY <2>2 DEF Extend, IInv
  <2> QED
    BY <2>1, <2>2
<1>3. ctr[c] \in CtrRows /\ ctr[c] # NoRow
  BY <1>1, HeldContract
<1>4. row \in CtrRows /\ row.resv = ctr[c].resv
  BY <1>1, <1>3 DEF CtrRows
<1>5. ctr' = [ctr EXCEPT ![c] = row]
  BY DEF Extend
<1> HIDE DEF row, b, longer
<1>6. row # NoRow
  BY <1>4, RowAssumption
<1>7. /\ ctr' \in [Contracts -> RefTo(CtrRows)]
      /\ \A d \in Contracts : ctr[d] # NoRow => ctr'[d] # NoRow
      /\ \A d \in Contracts : ctr'[d] # NoRow => ctr[d] # NoRow /\ ctr'[d].resv = ctr[d].resv
  BY <1>3, <1>4, <1>5, <1>6 DEF IInv, TypeOK, RefTo
<1>8. /\ resv' \in [Reservations -> RefTo(ResvRows)]
      /\ bill' \in [Contracts -> [rental : Nat, closing : Nat]]
  BY <1>1 DEF IInv, TypeOK
<1> QED
  BY <1>1, <1>2, <1>7, <1>8, LegsKept, ContractsWritten

LEMMA FinishStep ==
    ASSUME IInv, NEW w \in Workers, NEW c \in Contracts,
           NEW status \in {"CLOSED", "TERMINATED"}, NEW at \in 0 .. MaxTime,
           Finish(w, c, status, at)
    PROVE  IInv'
<1> DEFINE g    == seen[w].leg
           stop == Later(seen[w].since, at)
<1>1. /\ Holding(w, c) /\ Done(w) /\ g # NoRow
      /\ UNCHANGED <<now, resv, insp>>
      /\ \E S : Recompute(S)
      /\ at \in Nat
  BY TimeAssumption DEF Finish
<1>2. /\ ctr[c] \in CtrRows /\ g \in Legs /\ leg[g] \in LegRows
      /\ seen[w].since \in Nat
  BY <1>1, HeldContract
<1>3. /\ leg' \in [Legs -> RefTo(LegRows)]
      /\ \A h \in Legs : leg[h] # NoRow => leg'[h] # NoRow
      /\ \A h \in Legs : leg'[h] # NoRow => ctr[leg'[h].ctr] # NoRow
      /\ OneOpen(leg')
  <2>1. stop \in Nat
    BY <1>1, <1>2 DEF Later
  <2>2. leg' = [leg EXCEPT ![g].till = stop]
    BY DEF Finish
  <2> HIDE DEF stop, g
  <2> QED
    BY <1>2, <2>1, <2>2, LegClosed
<1>4. Sound(block')
  <2>1. PICK b \in First(LegBlocks(g)) :
            IF b = NoRow THEN UNCHANGED block
            ELSE IF at <= block[b].to
            THEN /\ Fits(block, b, Truncated(block[b], at))
                 /\ block' = Write(block, b, Truncated(block[b], at))
            ELSE block' = IF Fits(block, b, Extended(block[b], at))
                          THEN Write(block, b, Extended(block[b], at)) ELSE block
    BY DEF Finish
  <2>2. CASE b = NoRow
    BY <2>1, <2>2 DEF IInv
  <2>3. CASE b # NoRow
    <3>1. b \in Blocks /\ block[b] # NoRow
      BY <2>3 DEF First, LegBlocks
    <3>2. block[b] \in BlockRows
      BY <3>1, LiveRow DEF IInv, Live
    <3>3. Truncated(block[b], at) \in BlockRows /\ Extended(block[b], at) \in BlockRows
      BY <1>1, <3>2, MovedRowType
    <3>4. ASSUME NEW row \in BlockRows, Fits(block, b, row), block' = Write(block, b, row)
          PROVE  Sound(block')
      BY <3>1, <3>4, WriteSound DEF IInv
    <3>5. \/ block' = block
          \/ /\ Fits(block, b, Truncated(block[b], at))
             /\ block' = Write(block, b, Truncated(block[b], at))
          \/ /\ Fits(block, b, Extended(block[b], at))
             /\ block' = Write(block, b, Extended(block[b], at))
      BY <2>1, <2>3
    <3> QED
      BY <3>3, <3>4, <3>5 DEF IInv
  <2> QED
    BY <2>2, <2>3
<1>5. ctr' = [ctr EXCEPT ![c].status = status] /\ status \in CtrStatuses
  BY DEF Finish, CtrStatuses, Finished
<1>6. bill' \in [Contracts -> [rental : Nat, closing : Nat]]
  <2>1. bill' = [bill EXCEPT ![c].closing = @ + 1]
    BY DEF Finish
  <2> QED
    BY <2>1, BillWritten
<1>7. resv' \in [Reservations -> RefTo(ResvRows)]
  BY <1>1 DEF IInv, TypeOK
<1> QED
  BY <1>1, <1>2, <1>3, <1>4, <1>5, <1>6, <1>7, StatusWritten, ContractsWritten

-----------------------------------------------------------------------------
(* Inspections and the fleet *)

\* No reservation, contract, interval or copy changes.
LEMMA RowsUntouched ==
    ASSUME IInv, UNCHANGED <<now, resv, ctr, leg, bill, seen>>,
           unit' \in [Vehicles -> [commercial : {"AVAILABLE", "RESERVED", "RENTED"} \cup OffFleet,
                                   operational : OperationalStatuses]],
           insp' \in [Contracts -> [Vehicles -> [{"DELIVERY", "RETURN"} -> InspRows]]],
           Sound(block')
    PROVE  IInv'
<1>1. TypeOK'
  BY DEF IInv, TypeOK, Sound, Table
<1>2. Links'
  BY LinksKept DEF IInv, Links
<1> QED
  BY <1>1, <1>2 DEF IInv, OneOpen

\* The operational status of one car changes.
LEMMA UnitTyped ==
    ASSUME IInv, NEW v \in Vehicles, NEW to \in OperationalStatuses
    PROVE  [unit EXCEPT ![v].operational = to]
             \in [Vehicles -> [commercial : {"AVAILABLE", "RESERVED", "RENTED"} \cup OffFleet,
                               operational : OperationalStatuses]]
<1> DEFINE row == [unit[v] EXCEPT !.operational = to]
           Units == [commercial : {"AVAILABLE", "RESERVED", "RENTED"} \cup OffFleet,
                     operational : OperationalStatuses]
<1>1. unit \in [Vehicles -> Units]
  BY DEF IInv, TypeOK
<1>2. row \in Units
  BY <1>1
<1>3. [unit EXCEPT ![v].operational = to] = [unit EXCEPT ![v] = row]
  BY <1>1
<1> HIDE DEF row
<1> QED
  BY <1>1, <1>2, <1>3

\* An inspection row changes.
LEMMA InspTyped ==
    ASSUME IInv, NEW c \in Contracts, NEW v \in Vehicles,
           NEW type \in {"DELIVERY", "RETURN"}, NEW row \in InspRows
    PROVE  [insp EXCEPT ![c][v][type] = row]
             \in [Contracts -> [Vehicles -> [{"DELIVERY", "RETURN"} -> InspRows]]]
  BY DEF IInv, TypeOK

LEMMA OpenInspectionStep ==
    ASSUME IInv, NEW c \in Contracts, NEW v \in Vehicles, NEW type \in {"DELIVERY", "RETURN"},
           OpenInspection(c, v, type)
    PROVE  IInv'
<1> DEFINE row == [insp[c][v][type] EXCEPT !.draft = TRUE]
<1>1. row \in InspRows
  <2>1. insp[c][v][type] \in InspRows
    BY DEF IInv, TypeOK
  <2> QED
    BY <2>1 DEF InspRows
<1>2. insp' = [insp EXCEPT ![c][v][type] = row]
  BY DEF OpenInspection, IInv, TypeOK
<1>3. insp' \in [Contracts -> [Vehicles -> [{"DELIVERY", "RETURN"} -> InspRows]]]
  BY <1>1, <1>2, InspTyped
<1>4. unit' = unit \/ unit' = [unit EXCEPT ![v].operational = "IN_INSPECTION"]
  BY DEF OpenInspection
<1>5. "IN_INSPECTION" \in OperationalStatuses
  BY DEF OperationalStatuses
<1>6. [unit EXCEPT ![v].operational = "IN_INSPECTION"]
        \in [Vehicles -> [commercial : {"AVAILABLE", "RESERVED", "RENTED"} \cup OffFleet,
                          operational : OperationalStatuses]]
  BY <1>5, UnitTyped
<1>7. unit' \in [Vehicles -> [commercial : {"AVAILABLE", "RESERVED", "RENTED"} \cup OffFleet,
                              operational : OperationalStatuses]]
  BY <1>4, <1>6 DEF IInv, TypeOK
<1>8. Sound(block')
  BY DEF OpenInspection, IInv
<1> QED
  BY <1>3, <1>7, <1>8, RowsUntouched DEF OpenInspection

LEMMA CompleteInspectionStep ==
    ASSUME IInv, NEW c \in Contracts, NEW v \in Vehicles, NEW type \in {"DELIVERY", "RETURN"},
           CompleteInspection(c, v, type)
    PROVE  IInv'
<1> DEFINE row == [draft |-> FALSE, at |-> now]
<1>1. row \in InspRows
  BY DEF IInv, TypeOK, InspRows, RefTo
<1>2. insp' = [insp EXCEPT ![c][v][type] = row]
  BY DEF CompleteInspection
<1>3. insp' \in [Contracts -> [Vehicles -> [{"DELIVERY", "RETURN"} -> InspRows]]]
  BY <1>1, <1>2, InspTyped
<1>4. unit' = unit \/ unit' = [unit EXCEPT ![v].operational = "RELEASED"]
  BY DEF CompleteInspection
<1>5. "RELEASED" \in OperationalStatuses
  BY DEF OperationalStatuses
<1>6. [unit EXCEPT ![v].operational = "RELEASED"]
        \in [Vehicles -> [commercial : {"AVAILABLE", "RESERVED", "RENTED"} \cup OffFleet,
                          operational : OperationalStatuses]]
  BY <1>5, UnitTyped
<1>7. unit' \in [Vehicles -> [commercial : {"AVAILABLE", "RESERVED", "RENTED"} \cup OffFleet,
                              operational : OperationalStatuses]]
  BY <1>4, <1>6 DEF IInv, TypeOK
<1>8. Sound(block')
  BY DEF CompleteInspection, IInv
<1> QED
  BY <1>3, <1>7, <1>8, RowsUntouched DEF CompleteInspection

LEMMA ChangeOperationalStep ==
    ASSUME IInv, NEW v \in Vehicles, NEW to \in ManualStatuses, ChangeOperational(v, to)
    PROVE  IInv'
<1>1. unit' = [unit EXCEPT ![v].operational = to] /\ to \in OperationalStatuses
  BY KindAssumption DEF ChangeOperational, OperationalStatuses
<1>2. unit' \in [Vehicles -> [commercial : {"AVAILABLE", "RESERVED", "RENTED"} \cup OffFleet,
                              operational : OperationalStatuses]]
  BY <1>1, UnitTyped
<1>3. insp' \in [Contracts -> [Vehicles -> [{"DELIVERY", "RETURN"} -> InspRows]]]
  BY DEF ChangeOperational, IInv, TypeOK
<1>4. Sound(block')
  BY DEF ChangeOperational, IInv
<1> QED
  BY <1>2, <1>3, <1>4, RowsUntouched DEF ChangeOperational

LEMMA CreateBlockStep ==
    ASSUME IInv, NEW v \in Vehicles, NEW p \in BlockPeriods, CreateBlock(v, p)
    PROVE  IInv'
<1>1. Sound(block')
  BY PeriodType, AllocateSound DEF CreateBlock, IInv, RefTo
<1> QED
  BY <1>1, RowsUntouched DEF CreateBlock, IInv, TypeOK

LEMMA ReleaseBlockStep ==
    ASSUME IInv, NEW b \in Blocks, ReleaseBlock(b)
    PROVE  IInv'
<1>1. Sound(block')
  BY ReleaseSound DEF ReleaseBlock, IInv
<1> QED
  BY <1>1, RowsUntouched DEF ReleaseBlock, IInv, TypeOK

-----------------------------------------------------------------------------
(* The theorems *)

LEMMA InitInv == Init => IInv
<1> SUFFICES ASSUME Init PROVE IInv
  OBVIOUS
<1>1. TypeOK
  BY DEF Init, TypeOK, RefTo, OffFleet, OperationalStatuses, InspRows
<1>2. Sound(block)
  BY DEF Init, Sound, Table, Disjoint, RefTo
<1>3. OneOpen(leg)
  BY DEF Init, OneOpen
<1>4. Links
  BY DEF Init, Links
<1> QED
  BY <1>1, <1>2, <1>3, <1>4 DEF IInv

LEMMA ReservationInv ==
    ASSUME IInv, NEW w \in Workers, NEW r \in Reservations, ReservationStep(w, r)
    PROVE  IInv'
  BY LoadReservationStep, ConfirmStep, UpdateStep, CancelStep, CheckoutStep
     DEF ReservationStep

LEMMA ContractInv ==
    ASSUME IInv, NEW w \in Workers, NEW c \in Contracts, ContractStep(w, c)
    PROVE  IInv'
<1>1. CASE LoadContract(w, c)
  BY <1>1, LoadContractStep
<1>2. CASE Submit(w, c) \/ Approve(w, c)
  BY <1>2, AdvanceStep DEF Submit, Approve, CtrStatuses, Proposal
<1>3. CASE CancelContract(w, c) \/ Activate(w, c)
  BY <1>3, CancelContractStep, ActivateStep
<1>4. CASE \E v \in Vehicles : SwapProposed(w, c, v) \/ SwapInForce(w, c, v)
  BY <1>4, SwapProposedStep, SwapInForceStep
<1>5. CASE \E to \in 0 .. MaxEnd : Extend(w, c, to)
  BY <1>5, ExtendStep
<1>6. CASE \E d \in Contracts, to \in 0 .. MaxEnd : Renew(w, c, d, to)
  BY <1>6, RenewStep
<1>7. CASE \E s \in {"CLOSED", "TERMINATED"}, at \in 0 .. MaxTime : Finish(w, c, s, at)
  BY <1>7, FinishStep
<1> QED
  BY <1>1, <1>2, <1>3, <1>4, <1>5, <1>6, <1>7 DEF ContractStep

LEMMA DirectInv ==
    ASSUME IInv, Direct
    PROVE  IInv'
  BY RequestStep, RequestConfirmedStep, ProposeStep, OpenInspectionStep,
     CompleteInspectionStep, ChangeOperationalStep, CreateBlockStep, ReleaseBlockStep DEF Direct

LEMMA StepInv == IInv /\ [Next]_vars => IInv'
<1> SUFFICES ASSUME IInv, [Next]_vars PROVE IInv'
  OBVIOUS
<1>1. CASE \E w \in Workers : \/ \E r \in Reservations : ReservationStep(w, r)
                              \/ \E c \in Contracts : ContractStep(w, c)
                              \/ Look(w)
                              \/ Abandon(w)
  BY <1>1, ReservationInv, ContractInv, LookStep, AbandonStep
<1>2. CASE Direct
  BY <1>2, DirectInv
<1>3. CASE \E late \in SUBSET Reservations : Expire(late)
  BY <1>3, ExpireStep
<1>4. CASE Tick
  BY <1>4, TickStep
<1>5. CASE UNCHANGED vars
  BY <1>5 DEF vars, IInv, TypeOK, Sound, Table, Disjoint, OneOpen, Links, Known
<1> QED
  BY <1>1, <1>2, <1>3, <1>4, <1>5 DEF Next

\* The invariant holds of every behaviour, whatever handlers interleave.
THEOREM Inductive == Spec => []IInv
  BY InitInv, StepInv, PTL DEF Spec

\* Every row and every copy of a row has the columns of the schema.
THEOREM TypeCorrect == Spec => []TypeOK
<1>1. IInv => TypeOK
  BY DEF IInv
<1> QED
  BY <1>1, Inductive, PTL

\* Two active blocks of a car never overlap, preparation included, however
\* many transactions race on stale reads: vehicle_allocations_no_overlap.
THEOREM AgendaNeverOverlaps == Spec => []NoOverlap
<1>1. IInv => NoOverlap
  BY DEF IInv, Sound, NoOverlap
<1> QED
  BY <1>1, Inductive, PTL

\* A contract has one car at a time, through swaps, renewals and races.
THEOREM OneCarAtATime == Spec => []OneCarPerContract
<1>1. IInv => OneCarPerContract
  BY DEF IInv, OneOpen, OneCarPerContract, OpenLegs
<1> QED
  BY <1>1, Inductive, PTL

-----------------------------------------------------------------------------
(* One transaction at a time: what its copies say still holds *)

\* Handlers do not overlap.
OneAtATime == \A w, x \in Workers : w = x

\* Of a row in the hands of a handler only this may change: a request lapses.
SameRow(row, is) ==
    \/ row = is
    \/ row.status = "REQUESTED" /\ is = [row EXCEPT !.status = "EXPIRED"]

RowIsFresh(s) ==
    /\ s.id \in Reservations => SameRow(s.row, resv[s.id])
    /\ s.id \in Contracts => s.row = ctr[s.id] /\ s.renewed = RenewedAlready(s.id)

RowsFresh == \A w \in Workers : seen[w] # NoRow => RowIsFresh(seen[w])

\* The unique index on rental_contracts.reservationId.
OneContractEach ==
    \A c, d \in Contracts :
        /\ ctr[c] # NoRow /\ ctr[d] # NoRow
        /\ ctr[c].resv # NoRow /\ ctr[c].resv = ctr[d].resv
        => c = d

\* The statuses of reservations and contracts, and the titles, tell one story.
Told == OneContractEach /\ CheckedOutHasContract /\ BilledOnce /\ RenewedOnce

SerialInv == IInv /\ RowsFresh /\ Told

StandsFor(r) ==
    \E c \in Contracts : ctr[c] # NoRow /\ ctr[c].resv = r /\ ctr[c].status # "CANCELLED"

\* CheckedOutHasContract, reservation by reservation.
LEMMA CheckedOutEach ==
    CheckedOutHasContract <=>
        \A r \in Reservations : resv[r] # NoRow =>
            (resv[r].status = "CHECKED_OUT" <=> StandsFor(r))
  BY DEF CheckedOutHasContract, StandsFor

\* BilledOnce, contract by contract.
Billed(row, titles) ==
    /\ titles.rental = IF /\ row # NoRow /\ row.kind = "PERIOD"
                          /\ row.status \in {"ACTIVE", "CLOSED", "TERMINATED"}
                       THEN 1 ELSE 0
    /\ titles.closing = IF row # NoRow /\ row.status \in {"CLOSED", "TERMINATED"} THEN 1 ELSE 0

LEMMA BilledEach == BilledOnce <=> \A c \in Contracts : Billed(ctr[c], bill[c])
  BY DEF BilledOnce, Billed

\* With nobody else at work, a handler that ends leaves no copy behind.
LEMMA DoneLeavesNone ==
    ASSUME OneAtATime, TypeOK, NEW w \in Workers, Done(w)
    PROVE  RowsFresh'
  BY DEF OneAtATime, TypeOK, Done, RowsFresh

\* A handler of a contract acts upon the row as it is.
LEMMA ContractInHand ==
    ASSUME SerialInv, NEW w \in Workers, NEW c \in Contracts, Holding(w, c)
    PROVE  /\ seen[w].row = ctr[c] /\ seen[w].renewed = RenewedAlready(c)
           /\ ctr[c] \in CtrRows /\ ctr[c] # NoRow
  BY HeldContract DEF SerialInv, RowsFresh, RowIsFresh, Holding

\* A handler of a reservation acts upon the row as it is, or on a request that lapsed.
LEMMA ReservationInHand ==
    ASSUME SerialInv, NEW w \in Workers, NEW r \in Reservations, Holding(w, r)
    PROVE  /\ SameRow(seen[w].row, resv[r])
           /\ seen[w].row \in ResvRows /\ resv[r] \in ResvRows /\ resv[r] # NoRow
<1>1. IInv /\ TypeOK /\ RowsFresh
  BY DEF SerialInv, IInv
<1>2. seen[w].row \in ResvRows /\ resv[r] \in ResvRows
  BY <1>1, HeldReservation, HeldRow
<1>3. SameRow(seen[w].row, resv[r])
  BY <1>1 DEF RowsFresh, RowIsFresh, Holding
<1> QED
  BY <1>2, <1>3, RowAssumption

-----------------------------------------------------------------------------
(* What kinds of step keep the story *)

LEMMA ToldUntouched ==
    ASSUME Told, UNCHANGED <<resv, ctr, bill>>
    PROVE  Told'
  BY DEF Told, OneContractEach, CheckedOutHasContract, BilledOnce, RenewedOnce

\* Reservations change, and none is checked out nor stops being so.
LEMMA ToldByReservations ==
    ASSUME IInv, Told, UNCHANGED <<ctr, bill>>,
           \A r \in Reservations : resv'[r] # NoRow =>
               (resv'[r].status = "CHECKED_OUT" <=>
                    resv[r] # NoRow /\ resv[r].status = "CHECKED_OUT")
    PROVE  Told'
<1>1. ASSUME NEW r \in Reservations, resv'[r] # NoRow
      PROVE  resv'[r].status = "CHECKED_OUT" <=> StandsFor(r)
  <2>1. resv[r] = NoRow => ~StandsFor(r)
    BY NoRowAssumption DEF IInv, Links, StandsFor
  <2>2. resv[r] # NoRow => (resv[r].status = "CHECKED_OUT" <=> StandsFor(r))
    BY CheckedOutEach DEF Told
  <2> QED
    BY <1>1, <2>1, <2>2
<1>2. CheckedOutHasContract'
  BY <1>1 DEF CheckedOutHasContract, StandsFor
<1> QED
  BY <1>2 DEF Told, OneContractEach, BilledOnce, RenewedOnce

\* A contract is made: nothing refers to it yet, and no title is its.
LEMMA ToldByNew ==
    ASSUME IInv, Told, bill' = bill,
           NEW c \in Contracts, ctr[c] = NoRow,
           NEW row \in CtrRows, ctr' = [ctr EXCEPT ![c] = row],
           row.status \notin {"ACTIVE", "CLOSED", "TERMINATED", "CANCELLED"},
           row.renews # NoRow => ~RenewedAlready(row.renews),
           \/ row.resv = NoRow /\ resv' = resv
           \/ /\ row.resv \in Reservations
              /\ \A d \in Contracts : ctr[d] # NoRow => ctr[d].resv # row.resv
              /\ resv' = [resv EXCEPT ![row.resv].status = "CHECKED_OUT"]
              /\ resv[row.resv] \in ResvRows
    PROVE  Told'
<1>1. row # NoRow
  BY RowAssumption
<1>2. \A d \in Contracts : ctr'[d] = IF d = c THEN row ELSE ctr[d]
  BY DEF IInv, TypeOK
<1>3. OneContractEach'
  BY <1>1, <1>2 DEF Told, OneContractEach
<1>4. BilledOnce'
  <2>1. Billed(NoRow, bill[c]) => Billed(row, bill[c])
    BY DEF Billed
  <2>2. \A d \in Contracts : Billed(ctr'[d], bill'[d])
    BY <1>2, <2>1, BilledEach DEF Told
  <2> QED
    BY <2>2 DEF BilledOnce, Billed
<1>5. RenewedOnce'
  BY <1>1, <1>2, NoRowAssumption DEF Told, RenewedOnce, RenewedAlready
<1>6. CheckedOutHasContract'
  <2> SUFFICES ASSUME NEW r \in Reservations, resv'[r] # NoRow
               PROVE  (resv'[r].status = "CHECKED_OUT") <=> StandsFor(r)'
    BY DEF CheckedOutHasContract, StandsFor
  <2>1. CASE row.resv = r
    <3>1. resv[r] \in ResvRows /\ resv' = [resv EXCEPT ![r].status = "CHECKED_OUT"]
      BY <2>1, NoRowAssumption
    <3>2. resv'[r].status = "CHECKED_OUT"
      BY <3>1 DEF IInv, TypeOK, ResvRows
    <3>3. StandsFor(r)'
      BY <1>1, <1>2, <2>1 DEF StandsFor
    <3> QED
      BY <3>2, <3>3
  <2>2. CASE row.resv # r
    <3>1. resv'[r] = resv[r]
      BY <2>2 DEF IInv, TypeOK
    <3>2. StandsFor(r)' <=> StandsFor(r)
      BY <1>1, <1>2, <2>2 DEF StandsFor
    <3> QED
      BY <3>1, <3>2, CheckedOutEach DEF Told
  <2> QED
    BY <2>1, <2>2
<1> QED
  BY <1>3, <1>4, <1>5, <1>6 DEF Told

\* A contract goes on, and is not cancelled.
LEMMA ToldByContract ==
    ASSUME IInv, Told, resv' = resv,
           NEW c \in Contracts, ctr[c] # NoRow, ctr[c].status # "CANCELLED",
           NEW row \in CtrRows, ctr' = [ctr EXCEPT ![c] = row],
           row.status # "CANCELLED", row.resv = ctr[c].resv, row.renews = ctr[c].renews,
           \A d \in Contracts \ {c} : bill'[d] = bill[d],
           Billed(row, bill'[c])
    PROVE  Told'
<1>1. row # NoRow
  BY RowAssumption
<1>2. \A d \in Contracts : ctr'[d] = IF d = c THEN row ELSE ctr[d]
  BY DEF IInv, TypeOK
<1>3. OneContractEach'
  BY <1>1, <1>2 DEF Told, OneContractEach
<1>4. BilledOnce'
  <2>1. \A d \in Contracts : Billed(ctr'[d], bill'[d])
    BY <1>2, BilledEach DEF Told
  <2> QED
    BY <2>1 DEF BilledOnce, Billed
<1>5. RenewedOnce'
  BY <1>1, <1>2 DEF Told, RenewedOnce
<1>6. CheckedOutHasContract'
  <2>1. \A r \in Reservations : StandsFor(r)' <=> StandsFor(r)
    BY <1>1, <1>2 DEF StandsFor
  <2> QED
    BY <2>1, CheckedOutEach DEF Told, CheckedOutHasContract, StandsFor
<1> QED
  BY <1>3, <1>4, <1>5, <1>6 DEF Told

-----------------------------------------------------------------------------
(* What is read is what is there *)

\* Nobody's copy changes, nor does a row it was made from.
LEMMA CopiesStayFresh ==
    ASSUME IInv, RowsFresh, seen' = seen,
           \A r \in Reservations : resv[r] # NoRow => SameRow(resv[r], resv'[r]),
           \A r \in Reservations : resv[r] # NoRow /\ resv'[r] # resv[r] => resv[r].status = "REQUESTED",
           \A c \in Contracts : ctr[c] # NoRow => ctr'[c] = ctr[c],
           \A c \in Contracts : ctr[c] = NoRow /\ ctr'[c] # NoRow => ctr'[c].renews = NoRow
    PROVE  RowsFresh'
<1> SUFFICES ASSUME NEW w \in Workers, seen[w] # NoRow
             PROVE  RowIsFresh(seen[w])'
  BY DEF RowsFresh
<1>1. RowIsFresh(seen[w]) /\ Known(seen[w])
  BY DEF RowsFresh, IInv, Links
<1>2. seen[w].id \in Reservations => SameRow(seen[w].row, resv'[seen[w].id])
  <2> SUFFICES ASSUME seen[w].id \in Reservations
               PROVE  SameRow(seen[w].row, resv'[seen[w].id])
    OBVIOUS
  <2> DEFINE r == seen[w].id
  <2>1. resv[r] # NoRow /\ resv[r] \in ResvRows /\ SameRow(seen[w].row, resv[r])
    BY <1>1 DEF Known, RowIsFresh, IInv, TypeOK, RefTo
  <2>2. CASE resv'[r] = resv[r]
    BY <2>1, <2>2
  <2>3. CASE resv'[r] # resv[r]
    <3>1. resv[r].status = "REQUESTED" /\ SameRow(resv[r], resv'[r])
      BY <2>1, <2>3
    <3>2. seen[w].row = resv[r] \/ resv[r] = [seen[w].row EXCEPT !.status = "EXPIRED"]
      BY <2>1 DEF SameRow
    <3>3. seen[w].row \in ResvRows
      <4>1. Holding(w, r)
        BY DEF Holding
      <4> QED
        BY <4>1, HeldReservation DEF IInv
    <3>4. seen[w].row = resv[r]
      BY <3>1, <3>2, <3>3 DEF ResvRows
    <3> QED
      BY <3>1, <3>4
  <2> QED
    BY <2>2, <2>3
<1>3. seen[w].id \in Contracts =>
          seen[w].row = ctr'[seen[w].id] /\ seen[w].renewed = RenewedAlready(seen[w].id)'
  <2> SUFFICES ASSUME seen[w].id \in Contracts
               PROVE  seen[w].row = ctr'[seen[w].id] /\ seen[w].renewed = RenewedAlready(seen[w].id)'
    OBVIOUS
  <2>1. ctr[seen[w].id] # NoRow
    BY <1>1 DEF Known
  <2>2. seen[w].id # NoRow
    BY NoRowAssumption
  <2>3. RenewedAlready(seen[w].id)' <=> RenewedAlready(seen[w].id)
    BY <2>2 DEF RenewedAlready
  <2>4. RenewedAlready(seen[w].id)' = RenewedAlready(seen[w].id)
    BY <2>3 DEF RenewedAlready
  <2> QED
    BY <1>1, <2>1, <2>4 DEF RowIsFresh
<1> QED
  BY <1>2, <1>3 DEF RowIsFresh

\* Only worker w has a copy from now on, and it is a fresh one.
LEMMA OneCopyFresh ==
    ASSUME RowsFresh, NEW w \in Workers, NEW copy,
           seen \in [Workers -> RefTo(ResvCopies \cup CtrCopies)],
           seen' = [seen EXCEPT ![w] = copy], RowIsFresh(copy),
           UNCHANGED <<resv, ctr>>
    PROVE  RowsFresh'
<1>1. ASSUME NEW x \in Workers, seen'[x] # NoRow
      PROVE  RowIsFresh(seen[x])'
  <2>1. PICK s : s = seen'[x]
    OBVIOUS
  <2>2. RowIsFresh(s)
    <3>1. s = IF x = w THEN copy ELSE seen[x]
      BY <2>1
    <3> QED
      BY <1>1, <2>1, <3>1 DEF RowsFresh
  <2>3. RowIsFresh(seen[x])' <=> RowIsFresh(s)
    BY <2>1 DEF RowIsFresh, RenewedAlready
  <2> QED
    BY <2>2, <2>3
<1> QED
  BY <1>1 DEF RowsFresh

LEMMA FoundFreshRow ==
    ASSUME IInv, RowsFresh, NEW w \in Workers, NEW c \in Contracts, NEW row, NEW renewed,
           row = ctr[c], renewed = RenewedAlready(c),
           FoundIn(w, c, row, renewed), UNCHANGED <<resv, ctr>>
    PROVE  RowsFresh'
<1>1. PICK g \in First(OpenLegs(c)) : \E b \in First(LegBlocks(g)) :
          seen' = [seen EXCEPT ![w] =
                      [id |-> c, row |-> row, leg |-> g,
                       since |-> IF g = NoRow THEN NoRow ELSE leg[g].from, block |-> b,
                       renewed |-> renewed]]
  BY DEF FoundIn
<1>2. PICK b \in First(LegBlocks(g)) :
          seen' = [seen EXCEPT ![w] =
                      [id |-> c, row |-> row, leg |-> g,
                       since |-> IF g = NoRow THEN NoRow ELSE leg[g].from, block |-> b,
                       renewed |-> renewed]]
  BY <1>1
<1> DEFINE copy == [id |-> c, row |-> row, leg |-> g,
                    since |-> IF g = NoRow THEN NoRow ELSE leg[g].from, block |-> b,
                    renewed |-> renewed]
<1>3. RowIsFresh(copy)
  BY NoRowAssumption DEF RowIsFresh
<1>4. seen' = [seen EXCEPT ![w] = copy]
  BY <1>2
<1> HIDE DEF copy
<1> QED
  BY <1>3, <1>4, OneCopyFresh DEF IInv, TypeOK

\* A block is looked up again for the same copy.
LEMMA BlockFreshRow ==
    ASSUME IInv, RowsFresh, NEW w \in Workers, seen[w] # NoRow, NEW b,
           seen' = [seen EXCEPT ![w].block = b], UNCHANGED <<resv, ctr>>
    PROVE  RowsFresh'
<1> DEFINE copy == [seen[w] EXCEPT !.block = b]
<1>1. seen[w] \in ResvCopies \cup CtrCopies /\ RowIsFresh(seen[w])
  BY DEF IInv, TypeOK, RowsFresh, RefTo
<1>2. copy.id = seen[w].id /\ copy.row = seen[w].row /\ copy.renewed = seen[w].renewed
  <2>1. CASE seen[w] \in ResvCopies
    BY <2>1 DEF ResvCopies
  <2>2. CASE seen[w] \in CtrCopies
    BY <2>2 DEF CtrCopies
  <2> QED
    BY <1>1, <2>1, <2>2
<1>3. seen' = [seen EXCEPT ![w] = copy]
  BY DEF IInv, TypeOK
<1> HIDE DEF copy
<1>4. RowIsFresh(copy)
  BY <1>1, <1>2 DEF RowIsFresh
<1> QED
  BY <1>3, <1>4, OneCopyFresh DEF IInv, TypeOK

LEMMA ReadsFreshRows ==
    ASSUME SerialInv, NEW w \in Workers,
           \/ \E r \in Reservations : LoadReservation(w, r)
           \/ \E c \in Contracts : LoadContract(w, c)
           \/ Look(w)
    PROVE  RowsFresh' /\ Told'
<1>0. IInv /\ RowsFresh /\ Told
  BY DEF SerialInv
<1>1. Told' /\ UNCHANGED <<resv, ctr>>
  BY <1>0, ToldUntouched DEF LoadReservation, LoadContract, Look
<1>2. ASSUME NEW r \in Reservations, LoadReservation(w, r)
      PROVE  RowsFresh'
  <2>1. PICK b \in First(ResvBlocks(r)) :
            seen' = [seen EXCEPT ![w] = [id |-> r, row |-> resv[r], leg |-> NoRow,
                                         since |-> NoRow, block |-> b, renewed |-> FALSE]]
    BY <1>2 DEF LoadReservation
  <2> DEFINE copy == [id |-> r, row |-> resv[r], leg |-> NoRow,
                      since |-> NoRow, block |-> b, renewed |-> FALSE]
  <2>2. RowIsFresh(copy)
    BY NoRowAssumption DEF RowIsFresh, SameRow
  <2>3. seen' = [seen EXCEPT ![w] = copy]
    BY <2>1
  <2> HIDE DEF copy
  <2> QED
    BY <1>0, <1>1, <2>2, <2>3, OneCopyFresh DEF IInv, TypeOK
<1>3. ASSUME NEW c \in Contracts, LoadContract(w, c)
      PROVE  RowsFresh'
  BY <1>0, <1>1, <1>3, FoundFreshRow DEF LoadContract
<1>4. CASE Look(w)
  <2>1. seen[w] # NoRow /\ RowIsFresh(seen[w])
    BY <1>0, <1>4 DEF Look, Idle, RowsFresh
  <2>2. CASE \E b \in First(ResvBlocks(seen[w].id)) : seen' = [seen EXCEPT ![w].block = b]
    BY <1>0, <1>1, <2>1, <2>2, BlockFreshRow
  <2>3. CASE \E b \in First(LegBlocks(seen[w].leg)) : seen' = [seen EXCEPT ![w].block = b]
    BY <1>0, <1>1, <2>1, <2>3, BlockFreshRow
  <2>4. CASE /\ seen[w].id \in Contracts
             /\ \E renewed \in {seen[w].renewed, RenewedAlready(seen[w].id)} :
                   FoundIn(w, seen[w].id, seen[w].row, renewed)
    <3>1. PICK renewed \in {seen[w].renewed, RenewedAlready(seen[w].id)} :
              FoundIn(w, seen[w].id, seen[w].row, renewed)
      BY <2>4
    <3>2. seen[w].row = ctr[seen[w].id] /\ renewed = RenewedAlready(seen[w].id)
      BY <2>1, <2>4, <3>1 DEF RowIsFresh
    <3> QED
      BY <1>0, <1>1, <2>4, <3>1, <3>2, FoundFreshRow
  <2> QED
    BY <1>4, <2>2, <2>3, <2>4 DEF Look
<1> QED
  BY <1>1, <1>2, <1>3, <1>4

-----------------------------------------------------------------------------
(* Reservations tell the story *)

\* A reservation row is written, and no handler made it from a contract.
LEMMA ReservationTold ==
    ASSUME IInv, Told, NEW r \in Reservations, NEW row \in ResvRows,
           resv' = [resv EXCEPT ![r] = row], UNCHANGED <<ctr, bill>>,
           row.status # "CHECKED_OUT",
           resv[r] # NoRow => resv[r].status # "CHECKED_OUT"
    PROVE  Told'
<1>1. \A q \in Reservations : resv'[q] = IF q = r THEN row ELSE resv[q]
  BY DEF IInv, TypeOK
<1> QED
  BY <1>1, ToldByReservations

LEMMA RequestTold ==
    ASSUME SerialInv, NEW r \in Reservations, NEW p \in Periods,
           Request(r, p) \/ (\E v \in Vehicles : RequestConfirmed(r, p, v))
    PROVE  RowsFresh' /\ Told'
<1>0. IInv /\ RowsFresh /\ Told
  BY DEF SerialInv
<1>1. resv[r] = NoRow /\ UNCHANGED <<ctr, bill, seen>>
  BY DEF Request, RequestConfirmed
<1>2. PICK row \in ResvRows : row.status # "CHECKED_OUT" /\ resv' = [resv EXCEPT ![r] = row]
  <2>1. CASE Request(r, p)
    <3> DEFINE row == [status |-> "REQUESTED", vehicle |-> NoRow, from |-> p.from, to |-> p.to]
    <3>1. row \in ResvRows /\ row.status # "CHECKED_OUT"
      BY PeriodType DEF ResvRows, ResvStatuses, RefTo
    <3> QED
      BY <2>1, <3>1 DEF Request
  <2>2. CASE \E v \in Vehicles : RequestConfirmed(r, p, v)
    <3>1. PICK v \in Vehicles : RequestConfirmed(r, p, v)
      BY <2>2
    <3> DEFINE row == [status |-> "CONFIRMED", vehicle |-> v, from |-> p.from, to |-> p.to]
    <3>2. row \in ResvRows /\ row.status # "CHECKED_OUT"
      BY PeriodType DEF ResvRows, ResvStatuses, RefTo
    <3> QED
      BY <3>1, <3>2 DEF RequestConfirmed
  <2> QED
    BY <2>1, <2>2
<1>3. Told'
  BY <1>0, <1>1, <1>2, ReservationTold
<1>4. \A q \in Reservations : resv[q] # NoRow => resv'[q] = resv[q]
  BY <1>0, <1>1, <1>2 DEF IInv, TypeOK
<1>5. RowsFresh'
  BY <1>0, <1>1, <1>4, CopiesStayFresh DEF SameRow
<1> QED
  BY <1>3, <1>5

LEMMA ConfirmTold ==
    ASSUME OneAtATime, SerialInv, NEW w \in Workers, NEW r \in Reservations,
           NEW v \in Vehicles, Confirm(w, r, v)
    PROVE  RowsFresh' /\ Told'
<1> DEFINE row == [resv[r] EXCEPT !.status = "CONFIRMED", !.vehicle = v]
<1>0. IInv /\ TypeOK /\ Told /\ Done(w) /\ UNCHANGED <<ctr, bill>>
  BY DEF SerialInv, IInv, Confirm
<1>1. /\ SameRow(seen[w].row, resv[r]) /\ seen[w].row.status = "REQUESTED"
      /\ seen[w].row \in ResvRows /\ resv[r] \in ResvRows
  BY ReservationInHand DEF Confirm
<1>2. row \in ResvRows /\ row.status = "CONFIRMED"
  BY <1>1 DEF ResvRows, ResvStatuses, RefTo
<1>3. resv' = [resv EXCEPT ![r] = row]
  BY <1>0 DEF Confirm, TypeOK
<1>4. resv[r].status # "CHECKED_OUT"
  BY <1>1 DEF SameRow, ResvRows
<1> HIDE DEF row
<1> QED
  BY <1>0, <1>2, <1>3, <1>4, ReservationTold, DoneLeavesNone

LEMMA UpdateTold ==
    ASSUME OneAtATime, SerialInv, NEW w \in Workers, NEW r \in Reservations,
           NEW v \in Vehicles \cup {NoRow}, NEW p \in Periods, Update(w, r, v, p)
    PROVE  RowsFresh' /\ Told'
<1> DEFINE row == [resv[r] EXCEPT !.vehicle = v, !.from = p.from, !.to = p.to]
<1>0. IInv /\ TypeOK /\ Told /\ Done(w) /\ UNCHANGED <<ctr, bill>>
  BY DEF SerialInv, IInv, Update
<1>1. /\ SameRow(seen[w].row, resv[r]) /\ seen[w].row.status \in {"REQUESTED", "CONFIRMED"}
      /\ seen[w].row \in ResvRows /\ resv[r] \in ResvRows
  BY ReservationInHand DEF Update
<1>2. row \in ResvRows /\ row.status = resv[r].status
  BY <1>1, PeriodType DEF ResvRows, RefTo
<1>3. resv' = [resv EXCEPT ![r] = row]
  BY <1>0 DEF Update, TypeOK
<1>4. resv[r].status # "CHECKED_OUT"
  BY <1>1 DEF SameRow, ResvRows
<1> HIDE DEF row
<1> QED
  BY <1>0, <1>2, <1>3, <1>4, ReservationTold, DoneLeavesNone

LEMMA CancelTold ==
    ASSUME OneAtATime, SerialInv, NEW w \in Workers, NEW r \in Reservations,
           NEW status \in {"CANCELLED", "NO_SHOW"}, Cancel(w, r, status)
    PROVE  RowsFresh' /\ Told'
<1> DEFINE row == [resv[r] EXCEPT !.status = status]
<1>0. IInv /\ TypeOK /\ Told /\ Done(w) /\ UNCHANGED <<ctr, bill>>
  BY DEF SerialInv, IInv, Cancel
<1>1. /\ SameRow(seen[w].row, resv[r]) /\ seen[w].row.status \in {"REQUESTED", "CONFIRMED"}
      /\ seen[w].row \in ResvRows /\ resv[r] \in ResvRows
  BY ReservationInHand DEF Cancel
<1>2. row \in ResvRows /\ row.status = status
  BY <1>1 DEF ResvRows, ResvStatuses
<1>3. resv' = [resv EXCEPT ![r] = row]
  BY <1>0 DEF Cancel, TypeOK
<1>4. resv[r].status # "CHECKED_OUT"
  BY <1>1 DEF SameRow, ResvRows
<1> HIDE DEF row
<1> QED
  BY <1>0, <1>2, <1>3, <1>4, ReservationTold, DoneLeavesNone

LEMMA CheckoutTold ==
    ASSUME OneAtATime, SerialInv, NEW w \in Workers, NEW r \in Reservations,
           NEW c \in Contracts, Checkout(w, r, c)
    PROVE  RowsFresh' /\ Told'
<1> DEFINE held == seen[w].row
           row  == Contract("APPROVED", "PERIOD", held.from, held.to, r, NoRow)
<1>0. IInv /\ TypeOK /\ Told /\ Done(w) /\ bill' = bill
  BY DEF SerialInv, IInv, Checkout
<1>1. held \in ResvRows /\ resv[r] \in ResvRows
  BY ReservationInHand DEF Checkout
<1>2. /\ row \in CtrRows /\ row.resv = r /\ row.renews = NoRow /\ row.status = "APPROVED"
  BY <1>1 DEF Contract, CtrRows, CtrStatuses, ResvRows, RefTo
<1>3. /\ ctr[c] = NoRow /\ ctr' = [ctr EXCEPT ![c] = row]
      /\ resv' = [resv EXCEPT ![r].status = "CHECKED_OUT"]
      /\ \A d \in Contracts : ctr[d] # NoRow => ctr[d].resv # r
  BY DEF Checkout
<1> HIDE DEF row
<1>4. Told'
  BY <1>0, <1>1, <1>2, <1>3, ToldByNew
<1> QED
  BY <1>0, <1>4, DoneLeavesNone

LEMMA ExpireTold ==
    ASSUME SerialInv, NEW late \in SUBSET Reservations, Expire(late)
    PROVE  RowsFresh' /\ Told'
<1>0. IInv /\ RowsFresh /\ Told /\ UNCHANGED <<ctr, bill, seen>>
  BY DEF SerialInv, Expire
<1>1. \A r \in late : /\ resv[r] # NoRow /\ resv[r].status = "REQUESTED"
                      /\ resv[r] \in ResvRows
                      /\ resv'[r] = [resv[r] EXCEPT !.status = "EXPIRED"]
  BY <1>0 DEF Expire, Asked, IInv, TypeOK, RefTo
<1>2. \A r \in Reservations \ late : resv'[r] = resv[r]
  BY DEF Expire
<1>3. \A r \in late : resv'[r].status = "EXPIRED"
  BY <1>1 DEF ResvRows
<1>4. Told'
  BY <1>0, <1>1, <1>2, <1>3, ToldByReservations
<1>5. \A r \in Reservations : resv[r] # NoRow => SameRow(resv[r], resv'[r])
  BY <1>1, <1>2 DEF SameRow
<1>6. RowsFresh'
  BY <1>0, <1>1, <1>2, <1>5, CopiesStayFresh
<1> QED
  BY <1>4, <1>6

-----------------------------------------------------------------------------
(* Contracts tell the story *)

LEMMA InsertTold ==
    ASSUME IInv, Told, NEW t, NEW c \in Contracts, NEW kind \in {"PERIOD", "LONG_TERM"},
           NEW v, NEW from \in Nat, NEW to \in Nat, NEW old \in RefTo(Contracts),
           InsertContract(t, c, kind, v, from, to, old), UNCHANGED <<resv, bill>>,
           old # NoRow => ~RenewedAlready(old)
    PROVE  Told' /\ ctr[c] = NoRow
           /\ ctr'[c].renews = old /\ \A d \in Contracts \ {c} : ctr'[d] = ctr[d]
<1> DEFINE row == Contract("DRAFT", kind, from, to, NoRow, old)
<1>1. row \in CtrRows /\ row.resv = NoRow /\ row.renews = old /\ row.status = "DRAFT"
  BY DEF Contract, CtrRows, CtrStatuses, Proposal, RefTo
<1>2. ctr[c] = NoRow /\ ctr' = [ctr EXCEPT ![c] = row]
  BY DEF InsertContract
<1> HIDE DEF row
<1>3. Told'
  BY <1>1, <1>2, ToldByNew
<1>4. ctr'[c].renews = old /\ \A d \in Contracts \ {c} : ctr'[d] = ctr[d]
  BY <1>1, <1>2 DEF IInv, TypeOK
<1> QED
  BY <1>2, <1>3, <1>4

LEMMA ProposeTold ==
    ASSUME SerialInv, NEW c \in Contracts, NEW kind \in ContractKinds, NEW v \in Vehicles,
           NEW p \in Periods, Propose(c, kind, v, p)
    PROVE  RowsFresh' /\ Told'
<1>0. IInv /\ RowsFresh /\ Told /\ UNCHANGED <<resv, bill, seen>>
  BY DEF SerialInv, Propose
<1> DEFINE from == p.from
           to   == p.to
           old  == NoRow
<1>1. InsertContract(block, c, kind, v, from, to, old)
  BY DEF Propose
<1>2. kind \in {"PERIOD", "LONG_TERM"} /\ from \in Nat /\ to \in Nat /\ old \in RefTo(Contracts)
  BY KindAssumption, PeriodType DEF RefTo
<1>6. UNCHANGED <<resv, bill>> /\ (old # NoRow => ~RenewedAlready(old))
  BY <1>0
<1> HIDE DEF from, to, old
<1>3. /\ Told' /\ ctr[c] = NoRow /\ ctr'[c].renews = old
      /\ \A d \in Contracts \ {c} : ctr'[d] = ctr[d]
  BY <1>0, <1>1, <1>2, <1>6, InsertTold
<1>4. /\ \A d \in Contracts : ctr[d] # NoRow => ctr'[d] = ctr[d]
      /\ \A d \in Contracts : ctr[d] = NoRow /\ ctr'[d] # NoRow => ctr'[d].renews = NoRow
  BY <1>3 DEF old
<1>5. RowsFresh'
  BY <1>0, <1>4, CopiesStayFresh DEF SameRow
<1> QED
  BY <1>3, <1>5

LEMMA RenewTold ==
    ASSUME OneAtATime, SerialInv, NEW w \in Workers, NEW c \in Contracts, NEW d \in Contracts,
           NEW to \in 0 .. MaxEnd, Renew(w, c, d, to)
    PROVE  RowsFresh' /\ Told'
<1> DEFINE b    == seen[w].block
           bare == IF Live(block, b) THEN [block EXCEPT ![b].until = block[b].to] ELSE block
           v    == leg[seen[w].leg].car
           from == seen[w].row.to
<1>0. IInv /\ TypeOK /\ Told /\ Done(w) /\ UNCHANGED <<resv, bill>>
  BY DEF SerialInv, IInv, Renew
<1>1. seen[w].row = ctr[c] /\ ctr[c] \in CtrRows /\ ~RenewedAlready(c)
  BY ContractInHand DEF Renew
<1>2. from \in Nat /\ to \in Nat
  BY <1>1, TimeAssumption DEF CtrRows
<1>3. InsertContract(bare, d, "LONG_TERM", v, from, to, c) /\ c \in RefTo(Contracts)
  BY DEF Renew, RefTo
<1> HIDE DEF b, bare, v, from
<1>4. Told'
  BY <1>0, <1>1, <1>2, <1>3, InsertTold
<1> QED
  BY <1>0, <1>4, DoneLeavesNone

\* The row of a contract in hand is written, and the contract is not cancelled.
LEMMA ContractTold ==
    ASSUME OneAtATime, SerialInv, NEW w \in Workers, NEW c \in Contracts, Holding(w, c), Done(w),
           resv' = resv, NEW row \in CtrRows, ctr' = [ctr EXCEPT ![c] = row],
           ctr[c].status # "CANCELLED", row.status # "CANCELLED",
           row.resv = ctr[c].resv, row.renews = ctr[c].renews,
           \A d \in Contracts \ {c} : bill'[d] = bill[d],
           Billed(ctr[c], bill[c]) => Billed(row, bill'[c])
    PROVE  RowsFresh' /\ Told'
<1>0. IInv /\ TypeOK /\ Told /\ ctr[c] # NoRow
  BY ContractInHand DEF SerialInv, IInv
<1>1. Billed(ctr[c], bill[c])
  BY <1>0, BilledEach DEF Told
<1>2. Told'
  BY <1>0, <1>1, ToldByContract
<1> QED
  BY <1>0, <1>2, DoneLeavesNone

LEMMA AdvanceTold ==
    ASSUME OneAtATime, SerialInv, NEW w \in Workers, NEW c \in Contracts,
           Submit(w, c) \/ Approve(w, c)
    PROVE  RowsFresh' /\ Told'
<1>1. PICK to \in {"PENDING_APPROVAL", "APPROVED"} : Advance(w, c, Proposal, to)
  BY DEF Submit, Approve, Advance, Proposal
<1> DEFINE row == [ctr[c] EXCEPT !.status = to]
<1>2. Holding(w, c) /\ Done(w) /\ resv' = resv /\ bill' = bill
  BY <1>1 DEF Advance
<1>3. seen[w].row = ctr[c] /\ ctr[c] \in CtrRows
  BY <1>2, ContractInHand
<1>4. ctr[c].status \in Proposal
  BY <1>1, <1>3 DEF Advance
<1>5. /\ row \in CtrRows /\ row.status = to /\ row.kind = ctr[c].kind
      /\ row.resv = ctr[c].resv /\ row.renews = ctr[c].renews
  BY <1>3 DEF CtrRows, CtrStatuses, Proposal
<1>6. ctr' = [ctr EXCEPT ![c] = row]
  BY <1>1 DEF Advance
<1> HIDE DEF row
<1>7. Billed(ctr[c], bill[c]) => Billed(row, bill'[c])
  BY <1>2, <1>4, <1>5 DEF Billed, Proposal
<1> QED
  BY <1>2, <1>4, <1>5, <1>6, <1>7, ContractTold DEF Proposal

LEMMA ExtendTold ==
    ASSUME OneAtATime, SerialInv, NEW w \in Workers, NEW c \in Contracts,
           NEW to \in 0 .. MaxEnd, Extend(w, c, to)
    PROVE  RowsFresh' /\ Told'
<1> DEFINE row == [ctr[c] EXCEPT !.to = to]
<1>2. Holding(w, c) /\ Done(w) /\ resv' = resv /\ bill' = bill
  BY DEF Extend
<1>3. seen[w].row = ctr[c] /\ ctr[c] \in CtrRows /\ to \in Nat
  BY <1>2, ContractInHand, TimeAssumption
<1>4. ctr[c].status \in {"APPROVED", "ACTIVE"}
  BY <1>3 DEF Extend
<1>5. /\ row \in CtrRows /\ row.status = ctr[c].status /\ row.kind = ctr[c].kind
      /\ row.resv = ctr[c].resv /\ row.renews = ctr[c].renews
  BY <1>3 DEF CtrRows
<1>6. ctr' = [ctr EXCEPT ![c] = row]
  BY DEF Extend
<1> HIDE DEF row
<1>7. Billed(ctr[c], bill[c]) => Billed(row, bill'[c])
  BY <1>2, <1>3, <1>5, RowAssumption DEF Billed
<1> QED
  BY <1>2, <1>4, <1>5, <1>6, <1>7, ContractTold

LEMMA ActivateTold ==
    ASSUME OneAtATime, SerialInv, NEW w \in Workers, NEW c \in Contracts, Activate(w, c)
    PROVE  RowsFresh' /\ Told'
<1> DEFINE row == [ctr[c] EXCEPT !.status = "ACTIVE"]
<1>2. Holding(w, c) /\ Done(w) /\ resv' = resv
  BY DEF Activate
<1>3. seen[w].row = ctr[c] /\ ctr[c] \in CtrRows
  BY <1>2, ContractInHand
<1>4. ctr[c].status = "APPROVED"
  BY <1>3 DEF Activate
<1>5. /\ row \in CtrRows /\ row.status = "ACTIVE" /\ row.kind = ctr[c].kind
      /\ row.resv = ctr[c].resv /\ row.renews = ctr[c].renews
  BY <1>3 DEF CtrRows, CtrStatuses
<1>6. ctr' = [ctr EXCEPT ![c] = row]
  BY DEF Activate
<1>7. bill[c] \in [rental : Nat, closing : Nat] /\ bill \in [Contracts -> [rental : Nat, closing : Nat]]
  BY DEF SerialInv, IInv, TypeOK
<1>8. bill' = IF ctr[c].kind = "PERIOD" /\ bill[c].rental = 0
              THEN [bill EXCEPT ![c].rental = 1] ELSE bill
  BY DEF Activate
<1>9. Billed(ctr[c], bill[c]) => Billed(row, bill'[c])
  <2>1. SUFFICES ASSUME Billed(ctr[c], bill[c]) PROVE Billed(row, bill'[c])
    OBVIOUS
  <2>2. bill[c].rental = 0 /\ bill[c].closing = 0
    BY <1>4, <2>1 DEF Billed
  <2>3. CASE ctr[c].kind = "PERIOD"
    <3>1. bill'[c].rental = 1 /\ bill'[c].closing = 0
      BY <1>7, <1>8, <2>2, <2>3
    <3> QED
      BY <1>5, <2>3, <3>1, RowAssumption DEF Billed
  <2>4. CASE ctr[c].kind # "PERIOD"
    BY <1>5, <1>8, <2>2, <2>4 DEF Billed
  <2> QED
    BY <2>3, <2>4
<1>10. \A d \in Contracts \ {c} : bill'[d] = bill[d]
  BY <1>7, <1>8
<1> HIDE DEF row
<1> QED
  BY <1>2, <1>4, <1>5, <1>6, <1>9, <1>10, ContractTold

LEMMA FinishTold ==
    ASSUME OneAtATime, SerialInv, NEW w \in Workers, NEW c \in Contracts,
           NEW status \in {"CLOSED", "TERMINATED"}, NEW at \in 0 .. MaxTime,
           Finish(w, c, status, at)
    PROVE  RowsFresh' /\ Told'
<1> DEFINE row == [ctr[c] EXCEPT !.status = status]
<1>2. Holding(w, c) /\ Done(w) /\ resv' = resv
  BY DEF Finish
<1>3. seen[w].row = ctr[c] /\ ctr[c] \in CtrRows /\ ctr[c] # NoRow
  BY <1>2, ContractInHand
<1>4. ctr[c].status = "ACTIVE"
  BY <1>3 DEF Finish, InForce
<1>5. /\ row \in CtrRows /\ row.status = status /\ row.kind = ctr[c].kind
      /\ row.resv = ctr[c].resv /\ row.renews = ctr[c].renews
  BY <1>3 DEF CtrRows, CtrStatuses, Finished
<1>6. ctr' = [ctr EXCEPT ![c] = row]
  BY DEF Finish
<1>7. bill[c] \in [rental : Nat, closing : Nat] /\ bill \in [Contracts -> [rental : Nat, closing : Nat]]
  BY DEF SerialInv, IInv, TypeOK
<1>8. /\ bill'[c].rental = bill[c].rental /\ bill'[c].closing = bill[c].closing + 1
      /\ \A d \in Contracts \ {c} : bill'[d] = bill[d]
  BY <1>7 DEF Finish
<1>9. Billed(ctr[c], bill[c]) => Billed(row, bill'[c])
  BY <1>3, <1>4, <1>5, <1>8, RowAssumption DEF Billed
<1> HIDE DEF row
<1> QED
  BY <1>2, <1>4, <1>5, <1>6, <1>8, <1>9, ContractTold

\* A cancelled contract no longer stands for its reservation, which is
\* cancelled with it; and another may be signed in place of a renewal.
LEMMA CancelContractTold ==
    ASSUME OneAtATime, SerialInv, NEW w \in Workers, NEW c \in Contracts, CancelContract(w, c)
    PROVE  RowsFresh' /\ Told'
<1> DEFINE row == [ctr[c] EXCEPT !.status = "CANCELLED"]
           r   == ctr[c].resv
<1>0. IInv /\ TypeOK /\ Told /\ Holding(w, c) /\ Done(w) /\ bill' = bill
  BY DEF SerialInv, IInv, CancelContract
<1>1. seen[w].row = ctr[c] /\ ctr[c] \in CtrRows /\ ctr[c] # NoRow
  BY <1>0, ContractInHand
<1>2. ctr[c].status \in {"DRAFT", "PENDING_APPROVAL", "APPROVED"}
  BY <1>1 DEF CancelContract, Proposal
<1>3. /\ row \in CtrRows /\ row.status = "CANCELLED" /\ row # NoRow
      /\ row.resv = r /\ row.renews = ctr[c].renews /\ row.kind = ctr[c].kind
  BY <1>1, RowAssumption DEF CtrRows, CtrStatuses, Finished
<1>4. ctr' = [ctr EXCEPT ![c] = row]
  BY DEF CancelContract
<1>5. resv' = IF r = NoRow THEN resv ELSE [resv EXCEPT ![r].status = "CANCELLED"]
  BY <1>1 DEF CancelContract
<1>6. \A d \in Contracts : ctr'[d] = IF d = c THEN row ELSE ctr[d]
  BY <1>0, <1>4 DEF TypeOK
<1> HIDE DEF row
<1>7. OneContractEach'
  BY <1>0, <1>1, <1>3, <1>6 DEF Told, OneContractEach
<1>8. BilledOnce'
  <2>1. Billed(ctr[c], bill[c]) => Billed(row, bill[c])
    BY <1>2, <1>3 DEF Billed
  <2>2. \A d \in Contracts : Billed(ctr'[d], bill'[d])
    BY <1>0, <1>6, <2>1, BilledEach DEF Told
  <2> QED
    BY <2>2 DEF BilledOnce, Billed
<1>9. RenewedOnce'
  BY <1>0, <1>1, <1>3, <1>6 DEF Told, RenewedOnce
<1>10. CheckedOutHasContract'
  <2> SUFFICES ASSUME NEW q \in Reservations, resv'[q] # NoRow
               PROVE  (resv'[q].status = "CHECKED_OUT") <=> StandsFor(q)'
    BY DEF CheckedOutHasContract, StandsFor
  <2>1. CASE q = r
    <3>1. r # NoRow /\ resv[r] # NoRow
      BY <1>0, <1>1, <2>1, NoRowAssumption DEF IInv, Links
    <3>2. resv[r] \in ResvRows
      BY <1>0, <2>1, <3>1 DEF TypeOK, RefTo
    <3>3. resv'[r].status = "CANCELLED"
      BY <1>0, <1>5, <2>1, <3>1, <3>2 DEF TypeOK, ResvRows
    <3>4. ~StandsFor(q)'
      <4>1. \A d \in Contracts : ctr'[d] # NoRow /\ ctr'[d].resv = q => d = c
        BY <1>0, <1>1, <1>6, <2>1, <3>1 DEF Told, OneContractEach
      <4> QED
        BY <1>3, <1>6, <4>1 DEF StandsFor
    <3> QED
      BY <2>1, <3>3, <3>4
  <2>2. CASE q # r
    <3>1. resv'[q] = resv[q]
      BY <1>0, <1>5, <2>2 DEF TypeOK
    <3>2. StandsFor(q)' <=> StandsFor(q)
      BY <1>3, <1>1, <1>6, <2>2 DEF StandsFor
    <3> QED
      BY <1>0, <3>1, <3>2, CheckedOutEach DEF Told
  <2> QED
    BY <2>1, <2>2
<1>11. Told'
  BY <1>7, <1>8, <1>9, <1>10 DEF Told
<1> QED
  BY <1>0, <1>11, DoneLeavesNone

-----------------------------------------------------------------------------
(* The whole step *)

LEMMA SwapTold ==
    ASSUME OneAtATime, SerialInv, NEW w \in Workers, NEW c \in Contracts, NEW v \in Vehicles,
           SwapProposed(w, c, v) \/ SwapInForce(w, c, v)
    PROVE  RowsFresh' /\ Told'
<1>1. Done(w) /\ UNCHANGED <<resv, ctr, bill>>
  BY DEF SwapProposed, SwapInForce
<1> QED
  BY <1>1, ToldUntouched, DoneLeavesNone DEF SerialInv, IInv

\* Steps that write no reservation, no contract and no title.
LEMMA ElsewhereTold ==
    ASSUME OneAtATime, SerialInv, UNCHANGED <<resv, ctr, bill>>,
           seen' = seen \/ (\E w \in Workers : Done(w))
    PROVE  RowsFresh' /\ Told'
<1>1. Told' /\ TypeOK /\ IInv /\ RowsFresh
  BY ToldUntouched DEF SerialInv, IInv
<1>2. CASE seen' = seen
  BY <1>1, <1>2, CopiesStayFresh DEF SameRow
<1>3. CASE \E w \in Workers : Done(w)
  BY <1>1, <1>3, DoneLeavesNone
<1> QED
  BY <1>1, <1>2, <1>3

LEMMA ContractStepTold ==
    ASSUME OneAtATime, SerialInv, NEW w \in Workers, NEW c \in Contracts, ContractStep(w, c)
    PROVE  RowsFresh' /\ Told'
<1>1. CASE LoadContract(w, c)
  BY <1>1, ReadsFreshRows
<1>2. CASE Submit(w, c) \/ Approve(w, c)
  BY <1>2, AdvanceTold
<1>3. CASE CancelContract(w, c) \/ Activate(w, c)
  BY <1>3, CancelContractTold, ActivateTold
<1>4. CASE \E v \in Vehicles : SwapProposed(w, c, v) \/ SwapInForce(w, c, v)
  BY <1>4, SwapTold
<1>5. CASE \E to \in 0 .. MaxEnd : Extend(w, c, to)
  BY <1>5, ExtendTold
<1>6. CASE \E d \in Contracts, to \in 0 .. MaxEnd : Renew(w, c, d, to)
  BY <1>6, RenewTold
<1>7. CASE \E s \in {"CLOSED", "TERMINATED"}, at \in 0 .. MaxTime : Finish(w, c, s, at)
  BY <1>7, FinishTold
<1> QED
  BY <1>1, <1>2, <1>3, <1>4, <1>5, <1>6, <1>7 DEF ContractStep

LEMMA ReservationStepTold ==
    ASSUME OneAtATime, SerialInv, NEW w \in Workers, NEW r \in Reservations, ReservationStep(w, r)
    PROVE  RowsFresh' /\ Told'
  BY ReadsFreshRows, ConfirmTold, UpdateTold, CancelTold, CheckoutTold DEF ReservationStep

LEMMA DirectTold ==
    ASSUME OneAtATime, SerialInv, Direct
    PROVE  RowsFresh' /\ Told'
<1>1. CASE \E r \in Reservations, p \in Periods :
              Request(r, p) \/ \E v \in Vehicles : RequestConfirmed(r, p, v)
  BY <1>1, RequestTold
<1>2. CASE \E c \in Contracts, k \in ContractKinds, v \in Vehicles, p \in Periods :
              Propose(c, k, v, p)
  BY <1>2, ProposeTold
<1>3. CASE UNCHANGED <<resv, ctr, bill, seen>>
  BY <1>3, ElsewhereTold
<1> QED
  BY <1>1, <1>2, <1>3
     DEF Direct, OpenInspection, CompleteInspection, ChangeOperational, CreateBlock, ReleaseBlock

LEMMA StepTold ==
    ASSUME OneAtATime, SerialInv, [Next]_vars
    PROVE  SerialInv'
<1>1. CASE \E w \in Workers : \/ \E r \in Reservations : ReservationStep(w, r)
                              \/ \E c \in Contracts : ContractStep(w, c)
                              \/ Look(w)
  BY <1>1, ReservationStepTold, ContractStepTold, ReadsFreshRows, StepInv DEF SerialInv
<1>2. CASE \E w \in Workers : Abandon(w)
  BY <1>2, ElsewhereTold, StepInv DEF Abandon, SerialInv
<1>3. CASE Direct
  BY <1>3, DirectTold, StepInv DEF SerialInv
<1>4. CASE \E late \in SUBSET Reservations : Expire(late)
  BY <1>4, ExpireTold, StepInv DEF SerialInv
<1>5. CASE Tick \/ UNCHANGED vars
  BY <1>5, ElsewhereTold, StepInv DEF Tick, vars, SerialInv
<1> QED
  BY <1>1, <1>2, <1>3, <1>4, <1>5 DEF Next

LEMMA InitTold == Init => SerialInv
<1> SUFFICES ASSUME Init PROVE RowsFresh /\ Told
  BY InitInv DEF SerialInv
<1>1. RowsFresh
  BY DEF Init, RowsFresh
<1>2. \A c \in Contracts : Billed(ctr[c], bill[c])
  BY DEF Init, Billed
<1> QED
  BY <1>1, <1>2, BilledEach DEF Init, Told, OneContractEach, CheckedOutHasContract, RenewedOnce

\* With one handler at a time (the hourly job and the requests that read
\* nothing first may still run inside it) a copy is what the row still is, and
\* the statuses of reservations and contracts and the titles tell one story.
THEOREM SerialInductive ==
    ASSUME OneAtATime
    PROVE  Spec => []SerialInv
<1>1. SerialInv /\ [Next]_vars => SerialInv'
  BY StepTold
<1> QED
  BY <1>1, InitTold, PTL DEF Spec

\* A reservation is checked out exactly while a contract that was not
\* cancelled stands for it: checkout() and cancel() move the two together.
THEOREM CheckedOutStandsForContract ==
    ASSUME OneAtATime
    PROVE  Spec => []CheckedOutHasContract
<1>1. SerialInv => CheckedOutHasContract
  BY DEF SerialInv, Told
<1> QED
  BY <1>1, SerialInductive, PTL

\* activate() bills the rent of a contract by period once, and finish()
\* settles an account once, whatever else happens to the contract.
THEOREM TitlesOnce ==
    ASSUME OneAtATime
    PROVE  Spec => []BilledOnce
<1>1. SerialInv => BilledOnce
  BY DEF SerialInv, Told
<1> QED
  BY <1>1, SerialInductive, PTL

\* renew() refuses a contract that has a renewal, so that at most one of its
\* renewals is not cancelled.
THEOREM RenewalsOnce ==
    ASSUME OneAtATime
    PROVE  Spec => []RenewedOnce
<1>1. SerialInv => RenewedOnce
  BY DEF SerialInv, Told
<1> QED
  BY <1>1, SerialInductive, PTL

-----------------------------------------------------------------------------
(* One transaction at a time: what holds a car *)

\* The block, and for a contract the open interval, are the ones there are.
FindsFresh(s) ==
    /\ s.id \in Reservations => s.block \in First(ResvBlocks(s.id))
    /\ s.id \in Contracts =>
          /\ s.leg \in First(OpenLegs(s.id))
          /\ s.leg # NoRow => s.since = leg[s.leg].from
          /\ s.block \in First(LegBlocks(s.leg))

FoundFresh == \A w \in Workers : seen[w] # NoRow => FindsFresh(seen[w])

\* What the kind of block n says of its references, in tables rv, ct and lg.
Referred(n, rv, ct, lg) ==
    /\ n.kind = "RESERVATION" => n.resv # NoRow /\ n.leg = NoRow
    /\ n.kind = "CONTRACT" <=> n.leg # NoRow
    /\ n.kind \in {"BLOCK", "MAINTENANCE"} => n.resv = NoRow
    /\ n.resv # NoRow => rv[n.resv] # NoRow
    /\ n.leg # NoRow => lg[n.leg] # NoRow
    /\ n.leg # NoRow /\ n.resv # NoRow => ct[lg[n.leg].ctr].resv = n.resv

\* Block n is of reservation r; of interval g; interval i is open for contract c.
From(n, r) == n # NoRow /\ n.resv = r
On(n, g) == n # NoRow /\ n.leg = g
OpenFor(i, c) == i # NoRow /\ i.ctr = c /\ i.till = NoRow

HeldAs(n, row) ==
    n.kind = "RESERVATION" /\ n.vehicle = row.vehicle /\ n.from = row.from /\ n.to = row.to

CarriedAs(n, i, row) ==
    n.kind = "CONTRACT" /\ n.vehicle = i.car /\ n.from <= i.from /\ n.to = row.to

\* Reservation r, whose row is row, and the blocks bl: ConfirmedHoldsCar, and
\* what was checked out has left its block to a contract.
ResvKept(r, row, bl) ==
    /\ row # NoRow /\ row.status = "CONFIRMED" =>
          \E b \in Blocks : /\ From(bl[b], r) /\ HeldAs(bl[b], row)
                            /\ \A a \in Blocks : From(bl[a], r) => a = b
    /\ row # NoRow /\ row.status = "CHECKED_OUT" =>
          \A b \in Blocks : From(bl[b], r) => bl[b].leg # NoRow
    /\ row = NoRow \/ row.status \notin {"CONFIRMED", "CHECKED_OUT"} =>
          \A b \in Blocks : ~From(bl[b], r)

\* Contract c, whose row is row, its intervals lg and the blocks bl:
\* ContractHoldsCar, and before delivery only the open interval has a block.
CtrKept(c, row, lg, bl) ==
    row # NoRow =>
        /\ row.status \in Finished => \A g \in Legs : ~OpenFor(lg[g], c)
        /\ row.status \notin Finished =>
              \E g \in Legs, b \in Blocks :
                  /\ OpenFor(lg[g], c) /\ \A h \in Legs : OpenFor(lg[h], c) => h = g
                  /\ On(bl[b], g) /\ \A a \in Blocks : On(bl[a], g) => a = b
                  /\ CarriedAs(bl[b], lg[g], row)
        /\ row.status \in Proposal \cup {"APPROVED", "CANCELLED"} =>
              \A g \in Legs, b \in Blocks :
                  On(bl[b], g) /\ lg[g] # NoRow /\ lg[g].ctr = c => lg[g].till = NoRow

BlocksKept == \A b \in Blocks : block[b] # NoRow => Referred(block[b], resv, ctr, leg)
ReservationsKept == \A r \in Reservations : ResvKept(r, resv[r], block)
ContractsKept == \A c \in Contracts : CtrKept(c, ctr[c], leg, block)

Kept == BlocksKept /\ ReservationsKept /\ ContractsKept

\* Car v is in use; it is reserved for a time to come.
InUse(v) == \E c \in Contracts, g \in Legs :
                ctr[c] # NoRow /\ ctr[c].status = "ACTIVE" /\ OpenFor(leg[g], c) /\ leg[g].car = v
Ahead(v) == \E b \in Blocks : /\ block[b] # NoRow /\ block[b].vehicle = v
                              /\ block[b].kind = "RESERVATION" /\ block[b].to > now

HoldInv == SerialInv /\ FoundFresh /\ Kept /\ CommercialFollowsAgenda

LEMMA KeptHoldsReserved == ReservationsKept => ConfirmedHoldsCar
<1> SUFFICES ASSUME ReservationsKept, NEW r \in Reservations, resv[r] # NoRow
             PROVE  /\ resv[r].status = "CONFIRMED" =>
                          \E b \in Blocks : /\ ResvBlocks(r) = {b}
                                            /\ block[b].kind = "RESERVATION"
                                            /\ block[b].vehicle = resv[r].vehicle
                                            /\ block[b].from = resv[r].from
                                            /\ block[b].to = resv[r].to
                    /\ resv[r].status \notin {"CONFIRMED", "CHECKED_OUT"} => ResvBlocks(r) = {}
  BY DEF ConfirmedHoldsCar
<1>1. ResvKept(r, resv[r], block)
  BY DEF ReservationsKept
<1>2. ASSUME resv[r].status = "CONFIRMED"
      PROVE  \E b \in Blocks : /\ ResvBlocks(r) = {b}
                               /\ block[b].kind = "RESERVATION"
                               /\ block[b].vehicle = resv[r].vehicle
                               /\ block[b].from = resv[r].from
                               /\ block[b].to = resv[r].to
  <2>1. PICK b \in Blocks : /\ From(block[b], r) /\ HeldAs(block[b], resv[r])
                            /\ \A a \in Blocks : From(block[a], r) => a = b
    BY <1>1, <1>2 DEF ResvKept
  <2>2. ResvBlocks(r) = {b}
    BY <2>1 DEF ResvBlocks, From
  <2> QED
    BY <2>1, <2>2 DEF HeldAs
<1>3. resv[r].status \notin {"CONFIRMED", "CHECKED_OUT"} => ResvBlocks(r) = {}
  BY <1>1 DEF ResvKept, ResvBlocks, From
<1> QED
  BY <1>2, <1>3

LEMMA KeptHoldsContracted == IInv /\ Kept => ContractHoldsCar
<1> SUFFICES ASSUME IInv, Kept, NEW c \in Contracts, ctr[c] # NoRow
             PROVE  IF ctr[c].status \in Finished
                    THEN /\ OpenLegs(c) = {}
                         /\ ctr[c].status = "CANCELLED" =>
                               \A b \in Blocks : block[b] # NoRow /\ block[b].leg # NoRow =>
                                    leg[block[b].leg].ctr # c
                    ELSE \E g \in Legs, b \in Blocks :
                            /\ OpenLegs(c) = {g} /\ LegBlocks(g) = {b}
                            /\ block[b].kind = "CONTRACT"
                            /\ block[b].vehicle = leg[g].car
                            /\ block[b].from <= leg[g].from
                            /\ block[b].to = ctr[c].to
  BY DEF ContractHoldsCar
<1>1. CtrKept(c, ctr[c], leg, block)
  BY DEF Kept, ContractsKept
<1>2. CASE ctr[c].status \notin Finished
  <2>1. PICK g \in Legs, b \in Blocks :
                  /\ OpenFor(leg[g], c) /\ \A h \in Legs : OpenFor(leg[h], c) => h = g
                  /\ On(block[b], g) /\ \A a \in Blocks : On(block[a], g) => a = b
                  /\ CarriedAs(block[b], leg[g], ctr[c])
    BY <1>1, <1>2 DEF CtrKept
  <2>2. OpenLegs(c) = {g}
    BY <2>1 DEF OpenLegs, OpenFor
  <2>3. LegBlocks(g) = {b}
    BY <2>1, NoRowAssumption DEF LegBlocks, On
  <2> QED
    BY <1>2, <2>1, <2>2, <2>3 DEF CarriedAs
<1>3. CASE ctr[c].status \in Finished
  <2>1. OpenLegs(c) = {}
    BY <1>1, <1>3 DEF CtrKept, OpenLegs, OpenFor
  <2>2. ASSUME ctr[c].status = "CANCELLED", NEW b \in Blocks, block[b] # NoRow, block[b].leg # NoRow
        PROVE  leg[block[b].leg].ctr # c
    <3>1. block[b].leg \in Legs
      BY <2>2 DEF IInv, TypeOK, RefTo, BlockRows
    <3>2. On(block[b], block[b].leg) /\ leg[block[b].leg] # NoRow
      BY <2>2 DEF On, Kept, BlocksKept, Referred
    <3>3. leg[block[b].leg].ctr = c => OpenFor(leg[block[b].leg], c)
      BY <1>1, <2>2, <3>1, <3>2 DEF CtrKept, OpenFor
    <3> QED
      BY <1>1, <1>3, <3>1, <3>3 DEF CtrKept
  <2> QED
    BY <1>3, <2>1, <2>2
<1> QED
  BY <1>2, <1>3

-----------------------------------------------------------------------------
(* What a handler finds *)

LEMMA RowTypes ==
    ASSUME IInv
    PROVE  /\ \A b \in Blocks : block[b] # NoRow =>
                /\ block[b] \in BlockRows
                /\ block[b].resv \in RefTo(Reservations) /\ block[b].leg \in RefTo(Legs)
           /\ \A g \in Legs : leg[g] # NoRow => leg[g] \in LegRows /\ leg[g].ctr \in Contracts
           /\ \A c \in Contracts : ctr[c] # NoRow => ctr[c] \in CtrRows
           /\ \A r \in Reservations : resv[r] # NoRow => resv[r] \in ResvRows
  BY DEF IInv, TypeOK, RefTo, BlockRows, LegRows

LEMMA DoneFindsNone ==
    ASSUME OneAtATime, TypeOK, NEW w \in Workers, Done(w)
    PROVE  FoundFresh'
  BY DEF OneAtATime, TypeOK, Done, FoundFresh

\* The car that an unfinished contract holds, when its handler has it in hand.
InHand(c, g, b) ==
    /\ g \in Legs /\ leg[g] # NoRow /\ leg[g].ctr = c /\ leg[g].till = NoRow
    /\ b \in Blocks /\ block[b] # NoRow /\ block[b].leg = g
    /\ CarriedAs(block[b], leg[g], ctr[c])
    /\ \A h \in Legs : OpenFor(leg[h], c) => h = g
    /\ \A a \in Blocks : On(block[a], g) => a = b

LEMMA CarInHand ==
    ASSUME HoldInv, NEW w \in Workers, NEW c \in Contracts, Holding(w, c),
           ctr[c].status \notin Finished
    PROVE  InHand(c, seen[w].leg, seen[w].block) /\ seen[w].since = leg[seen[w].leg].from
<1>1. FindsFresh(seen[w]) /\ seen[w].id = c /\ ctr[c] # NoRow
  BY ContractInHand DEF HoldInv, FoundFresh, Holding
<1>2. CtrKept(c, ctr[c], leg, block)
  BY DEF HoldInv, Kept, ContractsKept
<1>3. PICK g \in Legs, b \in Blocks :
                /\ OpenFor(leg[g], c) /\ \A h \in Legs : OpenFor(leg[h], c) => h = g
                /\ On(block[b], g) /\ \A a \in Blocks : On(block[a], g) => a = b
                /\ CarriedAs(block[b], leg[g], ctr[c])
  BY <1>1, <1>2 DEF CtrKept
<1>4. OpenLegs(c) = {g}
  BY <1>3 DEF OpenLegs, OpenFor
<1>5. seen[w].leg = g /\ g # NoRow
  BY <1>1, <1>4, NoRowAssumption DEF FindsFresh, First
<1>6. LegBlocks(g) = {b}
  BY <1>3, <1>5 DEF LegBlocks, On
<1>7. seen[w].block = b
  BY <1>1, <1>5, <1>6 DEF FindsFresh, First
<1> QED
  BY <1>1, <1>3, <1>5, <1>7 DEF InHand, OpenFor, On, FindsFresh

LEMMA BlockInHand ==
    ASSUME HoldInv, NEW w \in Workers, NEW r \in Reservations, Holding(w, r)
    PROVE  /\ resv[r].status = "CONFIRMED" =>
                /\ seen[w].block \in Blocks /\ From(block[seen[w].block], r)
                /\ HeldAs(block[seen[w].block], resv[r])
                /\ \A a \in Blocks : From(block[a], r) => a = seen[w].block
           /\ resv[r].status \notin {"CONFIRMED", "CHECKED_OUT"} =>
                seen[w].block = NoRow /\ \A a \in Blocks : ~From(block[a], r)
<1>1. FindsFresh(seen[w]) /\ seen[w].id = r /\ resv[r] # NoRow
  BY ReservationInHand DEF HoldInv, FoundFresh, Holding
<1>2. ResvKept(r, resv[r], block)
  BY DEF HoldInv, Kept, ReservationsKept
<1>3. seen[w].block \in First(ResvBlocks(r))
  BY <1>1 DEF FindsFresh
<1>4. ASSUME resv[r].status = "CONFIRMED"
      PROVE  /\ seen[w].block \in Blocks /\ From(block[seen[w].block], r)
             /\ HeldAs(block[seen[w].block], resv[r])
             /\ \A a \in Blocks : From(block[a], r) => a = seen[w].block
  <2>1. PICK b \in Blocks : /\ From(block[b], r) /\ HeldAs(block[b], resv[r])
                            /\ \A a \in Blocks : From(block[a], r) => a = b
    BY <1>1, <1>2, <1>4 DEF ResvKept
  <2>2. ResvBlocks(r) = {b}
    BY <2>1 DEF ResvBlocks, From
  <2>3. seen[w].block = b
    BY <1>3, <2>2 DEF First
  <2> QED
    BY <2>1, <2>3
<1>5. ASSUME resv[r].status \notin {"CONFIRMED", "CHECKED_OUT"}
      PROVE  seen[w].block = NoRow /\ \A a \in Blocks : ~From(block[a], r)
  <2>1. \A a \in Blocks : ~From(block[a], r)
    BY <1>2, <1>5 DEF ResvKept
  <2>2. ResvBlocks(r) = {}
    BY <2>1 DEF ResvBlocks, From
  <2> QED
    BY <1>3, <2>1, <2>2 DEF First
<1> QED
  BY <1>4, <1>5

-----------------------------------------------------------------------------
(* Who is not concerned is not disturbed *)

LEMMA ResvUndisturbed ==
    ASSUME NEW r, NEW row, NEW bl, NEW bk, ResvKept(r, row, bl),
           \A b \in Blocks : From(bl[b], r) \/ From(bk[b], r) =>
               \/ bk[b] = bl[b]
               \/ /\ row # NoRow /\ row.status = "CHECKED_OUT"
                  /\ From(bk[b], r) => bk[b].leg # NoRow
    PROVE  ResvKept(r, row, bk)
<1>1. CASE row # NoRow /\ row.status = "CHECKED_OUT"
  BY <1>1 DEF ResvKept
<1>2. CASE ~(row # NoRow /\ row.status = "CHECKED_OUT")
  BY <1>2 DEF ResvKept
<1> QED
  BY <1>1, <1>2

LEMMA CtrUndisturbed ==
    ASSUME NEW c, NEW row, NEW lg, NEW lk, NEW bl, NEW bk, CtrKept(c, row, lg, bl),
           \A g \in Legs :
               \/ lg[g] # NoRow /\ lg[g].ctr = c
               \/ lk[g] # NoRow /\ lk[g].ctr = c
               => lk[g] = lg[g],
           \A g \in Legs, b \in Blocks :
               /\ lg[g] # NoRow /\ lg[g].ctr = c
               /\ On(bl[b], g) \/ On(bk[b], g)
               => bk[b] = bl[b]
    PROVE  CtrKept(c, row, lk, bk)
<1> SUFFICES ASSUME row # NoRow PROVE CtrKept(c, row, lk, bk)
  BY DEF CtrKept
<1>1. \A g \in Legs : OpenFor(lk[g], c) <=> OpenFor(lg[g], c)
  BY DEF OpenFor
<1>2. row.status \in Finished => \A g \in Legs : ~OpenFor(lk[g], c)
  BY <1>1 DEF CtrKept
<1>3. ASSUME row.status \notin Finished
      PROVE  \E g \in Legs, b \in Blocks :
                  /\ OpenFor(lk[g], c) /\ \A h \in Legs : OpenFor(lk[h], c) => h = g
                  /\ On(bk[b], g) /\ \A a \in Blocks : On(bk[a], g) => a = b
                  /\ CarriedAs(bk[b], lk[g], row)
  <2>1. PICK g \in Legs, b \in Blocks :
                  /\ OpenFor(lg[g], c) /\ \A h \in Legs : OpenFor(lg[h], c) => h = g
                  /\ On(bl[b], g) /\ \A a \in Blocks : On(bl[a], g) => a = b
                  /\ CarriedAs(bl[b], lg[g], row)
    BY <1>3 DEF CtrKept
  <2>2. lk[g] = lg[g] /\ bk[b] = bl[b] /\ \A a \in Blocks : On(bk[a], g) => a = b
    BY <2>1 DEF OpenFor
  <2> QED
    BY <1>1, <2>1, <2>2
<1>4. row.status \in Proposal \cup {"APPROVED", "CANCELLED"} =>
          \A g \in Legs, b \in Blocks :
              On(bk[b], g) /\ lk[g] # NoRow /\ lk[g].ctr = c => lk[g].till = NoRow
  BY DEF CtrKept
<1> QED
  BY <1>2, <1>3, <1>4 DEF CtrKept

\* References stand while no row goes and none changes what it is of.
Growing ==
    /\ \A r \in Reservations : resv[r] # NoRow => resv'[r] # NoRow
    /\ \A c \in Contracts : ctr[c] # NoRow => ctr'[c] # NoRow /\ ctr'[c].resv = ctr[c].resv
    /\ \A g \in Legs : leg[g] # NoRow => leg'[g] # NoRow /\ leg'[g].ctr = leg[g].ctr

LEMMA ReferencesStand ==
    ASSUME IInv, BlocksKept, Growing, NEW b \in Blocks, block[b] # NoRow
    PROVE  Referred(block[b], resv', ctr', leg')
<1>1. Referred(block[b], resv, ctr, leg)
  BY DEF BlocksKept
<1>2. block[b].resv \in RefTo(Reservations) /\ block[b].leg \in RefTo(Legs)
  BY RowTypes
<1>3. block[b].leg # NoRow =>
          leg[block[b].leg].ctr \in Contracts /\ ctr[leg[block[b].leg].ctr] # NoRow
  BY <1>1, <1>2, RowTypes DEF Referred, RefTo, IInv, Links
<1> QED
  BY <1>1, <1>2, <1>3 DEF Referred, Growing, RefTo

\* Contracts of C are written, and intervals and blocks of theirs.
LEMMA KeptByContracts ==
    ASSUME IInv, Told, Kept, Growing, NEW C \in SUBSET Contracts,
           \A d \in Contracts \ C : ctr'[d] = ctr[d],
           \A d \in C : ctr[d] # NoRow => ctr[d].status # "CANCELLED",
           \A g \in Legs : leg'[g] # leg[g] => leg'[g].ctr \in C,
           \A b \in Blocks : block'[b] # block[b] /\ block[b] # NoRow =>
               block[b].leg # NoRow /\ leg[block[b].leg].ctr \in C,
           \A b \in Blocks : block'[b] # block[b] /\ block'[b] # NoRow =>
               /\ block'[b].kind = "CONTRACT"
               /\ block'[b].leg \in Legs /\ block'[b].leg # NoRow
               /\ leg'[block'[b].leg] # NoRow /\ leg'[block'[b].leg].ctr \in C
               /\ block'[b].resv # NoRow =>
                     /\ block[b] # NoRow
                     /\ block'[b].resv = block[b].resv /\ block'[b].leg = block[b].leg,
           \A q \in Reservations : resv'[q] = resv[q] \/ ResvKept(q, resv'[q], block'),
           \A d \in C : CtrKept(d, ctr'[d], leg', block')
    PROVE  Kept'
<1>1. ASSUME NEW b \in Blocks, block'[b] # NoRow
      PROVE  Referred(block'[b], resv', ctr', leg')
  <2>1. CASE block'[b] = block[b]
    BY <1>1, <2>1, ReferencesStand DEF Kept
  <2>2. CASE block'[b] # block[b]
    <3>1. /\ block'[b].kind = "CONTRACT" /\ block'[b].leg # NoRow
          /\ leg'[block'[b].leg] # NoRow
          /\ block'[b].resv # NoRow =>
                /\ block[b] # NoRow
                /\ block'[b].resv = block[b].resv /\ block'[b].leg = block[b].leg
      BY <1>1, <2>2
    <3>2. block[b] # NoRow => Referred(block[b], resv', ctr', leg')
      BY ReferencesStand DEF Kept
    <3> QED
      BY <3>1, <3>2 DEF Referred
  <2> QED
    BY <2>1, <2>2
<1>2. ASSUME NEW q \in Reservations
      PROVE  ResvKept(q, resv'[q], block')
  <2>1. CASE resv'[q] # resv[q]
    BY <2>1
  <2>2. CASE resv'[q] = resv[q]
    <3>1. ResvKept(q, resv[q], block) /\ q # NoRow
      BY NoRowAssumption DEF Kept, ReservationsKept
    <3>2. ASSUME NEW b \in Blocks, From(block[b], q) \/ From(block'[b], q), block'[b] # block[b]
          PROVE  /\ resv[q] # NoRow /\ resv[q].status = "CHECKED_OUT"
                 /\ From(block'[b], q) => block'[b].leg # NoRow
      <4>1. From(block[b], q)
        BY <3>1, <3>2 DEF From
      <4>2. block[b].leg # NoRow /\ leg[block[b].leg].ctr \in C /\ Referred(block[b], resv, ctr, leg)
        BY <3>2, <4>1 DEF From, Kept, BlocksKept
      <4>3. PICK d \in C : d = leg[block[b].leg].ctr
        BY <4>2
      <4>4. resv[q] # NoRow /\ ctr[d].resv = q
        BY <3>1, <4>1, <4>2, <4>3 DEF Referred, From
      <4>5. ctr[d] # NoRow
        BY <4>1, <4>2, <4>3, RowTypes DEF IInv, Links, Referred, From, RefTo
      <4>6. StandsFor(q)
        BY <4>4, <4>5 DEF StandsFor
      <4>7. resv[q].status = "CHECKED_OUT"
        BY <4>4, <4>6, CheckedOutEach DEF Told
      <4> QED
        BY <3>2, <4>4, <4>7 DEF From
    <3>3. ResvKept(q, resv[q], block')
      BY <3>1, <3>2, ResvUndisturbed
    <3> QED
      BY <2>2, <3>3
  <2> QED
    BY <2>1, <2>2
<1>3. ASSUME NEW d \in Contracts
      PROVE  CtrKept(d, ctr'[d], leg', block')
  <2>1. CASE d \in C
    BY <2>1
  <2>2. CASE d \notin C
    <3>1. ctr'[d] = ctr[d] /\ CtrKept(d, ctr[d], leg, block)
      BY <2>2 DEF Kept, ContractsKept
    <3>2. ASSUME NEW g \in Legs, \/ leg[g] # NoRow /\ leg[g].ctr = d
                                 \/ leg'[g] # NoRow /\ leg'[g].ctr = d
          PROVE  leg'[g] = leg[g]
      BY <2>2, <3>2 DEF Growing
    <3>3. ASSUME NEW g \in Legs, NEW b \in Blocks, leg[g] # NoRow, leg[g].ctr = d,
                 On(block[b], g) \/ On(block'[b], g)
          PROVE  block'[b] = block[b]
      BY <2>2, <3>3 DEF On, Growing
    <3> HIDE DEF OpenFor
    <3> QED
      BY <3>1, <3>2, <3>3, CtrUndisturbed
  <2> QED
    BY <2>1, <2>2
<1> QED
  BY <1>1, <1>2, <1>3 DEF Kept, BlocksKept, ReservationsKept, ContractsKept

\* Reservations of R are written, and blocks that are in no contract's hands.
LEMMA KeptByReservations ==
    ASSUME IInv, Kept, Growing, UNCHANGED <<ctr, leg>>, NEW R \in SUBSET Reservations,
           \A q \in Reservations \ R : resv'[q] = resv[q],
           \A b \in Blocks : block'[b] # block[b] /\ block[b] # NoRow =>
               block[b].leg = NoRow /\ block[b].resv \in R \cup {NoRow},
           \A b \in Blocks : block'[b] # block[b] /\ block'[b] # NoRow =>
               /\ block'[b].leg = NoRow /\ block'[b].resv \in R \cup {NoRow}
               /\ Referred(block'[b], resv', ctr', leg'),
           \A q \in R : ResvKept(q, resv'[q], block')
    PROVE  Kept'
<1>1. ASSUME NEW b \in Blocks, block'[b] # NoRow
      PROVE  Referred(block'[b], resv', ctr', leg')
  <2>1. CASE block'[b] = block[b]
    BY <1>1, <2>1, ReferencesStand DEF Kept
  <2>2. CASE block'[b] # block[b]
    BY <1>1, <2>2
  <2> QED
    BY <2>1, <2>2
<1>2. ASSUME NEW q \in Reservations
      PROVE  ResvKept(q, resv'[q], block')
  <2>1. CASE q \in R
    BY <2>1
  <2>2. CASE q \notin R
    <3>1. ResvKept(q, resv[q], block) /\ q # NoRow /\ resv'[q] = resv[q]
      BY <2>2, NoRowAssumption DEF Kept, ReservationsKept
    <3>2. \A b \in Blocks : From(block[b], q) \/ From(block'[b], q) => block'[b] = block[b]
      BY <2>2, <3>1 DEF From
    <3>3. ResvKept(q, resv[q], block')
      BY <3>1, <3>2, ResvUndisturbed
    <3> QED
      BY <3>1, <3>3
  <2> QED
    BY <2>1, <2>2
<1>3. ASSUME NEW d \in Contracts
      PROVE  CtrKept(d, ctr'[d], leg', block')
  <2>1. CtrKept(d, ctr[d], leg, block)
    BY DEF Kept, ContractsKept
  <2>2. ASSUME NEW g \in Legs, NEW b \in Blocks, On(block[b], g) \/ On(block'[b], g)
        PROVE  block'[b] = block[b]
    BY <2>2, NoRowAssumption DEF On
  <2>3. CtrKept(d, ctr[d], leg, block')
    BY <2>1, <2>2, CtrUndisturbed
  <2> QED
    BY <2>3
<1> QED
  BY <1>1, <1>2, <1>3 DEF Kept, BlocksKept, ReservationsKept, ContractsKept

-----------------------------------------------------------------------------
(* The commercial status *)

LEMMA CommercialEach ==
    IInv => (CommercialFollowsAgenda <=>
        \A v \in Vehicles : unit[v].commercial \notin OffFleet =>
            /\ unit[v].commercial = "RENTED" <=> InUse(v)
            /\ unit[v].commercial = "AVAILABLE" => ~Ahead(v))
<1> SUFFICES ASSUME IInv
             PROVE  CommercialFollowsAgenda <=>
                        \A v \in Vehicles : unit[v].commercial \notin OffFleet =>
                            /\ unit[v].commercial = "RENTED" <=> InUse(v)
                            /\ unit[v].commercial = "AVAILABLE" => ~Ahead(v)
  OBVIOUS
<1>1. \A v \in Vehicles :
          InUse(v) <=> \E c \in Contracts : /\ ctr[c] # NoRow /\ ctr[c].status = "ACTIVE"
                                            /\ \E g \in OpenLegs(c) : leg[g].car = v
  BY DEF InUse, OpenLegs, OpenFor
<1>2. \A v \in Vehicles :
          ~Ahead(v) <=> \A b \in Blocks : /\ block[b] # NoRow /\ block[b].vehicle = v
                                          /\ block[b].kind = "RESERVATION"
                                          => ~(block[b].to > now)
  BY DEF Ahead
<1>3. \A b \in Blocks : block[b] # NoRow => (block[b].to <= now <=> ~(block[b].to > now))
  BY DEF IInv, TypeOK, RefTo, BlockRows
<1> QED
  BY <1>1, <1>2, <1>3 DEF CommercialFollowsAgenda

\* recomputeCommercial() of the cars of S is enough if nothing else is taken,
\* given back or reserved.
LEMMA CommercialBy ==
    ASSUME IInv, IInv', CommercialFollowsAgenda, NEW S, Recompute(S),
           \A v \in Vehicles \ S : (InUse(v)' <=> InUse(v)) /\ (Ahead(v)' => Ahead(v))
    PROVE  CommercialFollowsAgenda'
<1>1. ASSUME NEW v \in Vehicles, unit'[v].commercial \notin OffFleet
      PROVE  /\ unit'[v].commercial = "RENTED" <=> InUse(v)'
             /\ unit'[v].commercial = "AVAILABLE" => ~Ahead(v)'
  <2>1. CASE v \in S
    <3>0. unit[v] \in [commercial : {"AVAILABLE", "RESERVED", "RENTED"} \cup OffFleet,
                       operational : OperationalStatuses]
      BY DEF IInv, TypeOK
    <3>1. unit'[v].commercial = ByAgenda(v)'
      <4>1. CASE unit[v].commercial \in OffFleet
        BY <1>1, <2>1, <4>1 DEF Recompute
      <4>2. CASE unit[v].commercial \notin OffFleet
        <5>1. unit'[v] = [unit[v] EXCEPT !.commercial = ByAgenda(v)']
          BY <2>1, <4>2 DEF Recompute
        <5> QED
          BY <3>0, <5>1
      <4> QED
        BY <4>1, <4>2
    <3>2. (\E g \in Legs : /\ leg'[g] # NoRow /\ leg'[g].car = v /\ leg'[g].till = NoRow
                           /\ ctr'[leg'[g].ctr].status = "ACTIVE") <=> InUse(v)'
      <4>1. \A g \in Legs : leg'[g] # NoRow =>
                leg'[g].ctr \in Contracts /\ ctr'[leg'[g].ctr] # NoRow
        BY DEF IInv, TypeOK, Links, RefTo, LegRows
      <4> QED
        BY <4>1 DEF InUse, OpenFor
    <3>3. CASE InUse(v)'
      <4>1. ByAgenda(v)' = "RENTED"
        BY <3>2, <3>3 DEF ByAgenda
      <4> QED
        BY <3>1, <3>3, <4>1
    <3>4. CASE ~InUse(v)' /\ Ahead(v)'
      <4>1. ByAgenda(v)' = "RESERVED"
        BY <3>2, <3>4 DEF ByAgenda, Ahead
      <4> QED
        BY <3>1, <3>4, <4>1
    <3>5. CASE ~InUse(v)' /\ ~Ahead(v)'
      <4>1. ByAgenda(v)' = "AVAILABLE"
        BY <3>2, <3>5 DEF ByAgenda, Ahead
      <4> QED
        BY <3>1, <3>5, <4>1
    <3> QED
      BY <3>3, <3>4, <3>5
  <2>2. CASE v \notin S
    <3>1. unit'[v] = unit[v]
      BY <2>2 DEF Recompute
    <3> QED
      BY <1>1, <2>2, <3>1, CommercialEach
  <2> QED
    BY <2>1, <2>2
<1>2. \A v \in Vehicles :
          InUse(v)' <=> (\E c \in Contracts : /\ ctr[c] # NoRow /\ ctr[c].status = "ACTIVE"
                                             /\ \E g \in OpenLegs(c) : leg[g].car = v)'
  BY DEF InUse, OpenLegs, OpenFor
<1>3. \A b \in Blocks : block'[b] # NoRow => (block'[b].to <= now' <=> ~(block'[b].to > now'))
  BY DEF IInv, TypeOK, RefTo, BlockRows
<1>4. \A v \in Vehicles :
          ~Ahead(v)' <=> \A b \in Blocks : /\ block'[b] # NoRow /\ block'[b].vehicle = v
                                           /\ block'[b].kind = "RESERVATION"
                                           => ~(block'[b].to > now')
  BY DEF Ahead
<1> QED
  BY <1>1, <1>2, <1>3, <1>4 DEF CommercialFollowsAgenda

LEMMA UseUndisturbed ==
    ASSUME IInv, Growing, NEW C \in SUBSET Contracts, NEW v,
           \A d \in Contracts \ C : ctr'[d] = ctr[d],
           \A g \in Legs : leg'[g] # leg[g] => leg'[g].ctr \in C,
           \A d \in C, g \in Legs :
               ctr[d] # NoRow /\ ctr[d].status = "ACTIVE" /\ OpenFor(leg[g], d) => leg[g].car # v,
           \A d \in C, g \in Legs :
               ctr'[d] # NoRow /\ ctr'[d].status = "ACTIVE" /\ OpenFor(leg'[g], d) => leg'[g].car # v
    PROVE  InUse(v)' <=> InUse(v)
<1>1. ASSUME NEW c \in Contracts \ C, NEW g \in Legs
      PROVE  OpenFor(leg'[g], c) <=> OpenFor(leg[g], c)
  BY <1>1 DEF OpenFor, Growing
<1>2. ASSUME NEW c \in Contracts \ C, NEW g \in Legs, OpenFor(leg'[g], c) \/ OpenFor(leg[g], c)
      PROVE  leg'[g] = leg[g]
  BY <1>2 DEF OpenFor, Growing
<1>3. ASSUME NEW c \in Contracts, NEW g \in Legs,
             ctr[c] # NoRow, ctr[c].status = "ACTIVE", OpenFor(leg[g], c), leg[g].car = v
      PROVE  InUse(v)'
  <2>1. c \notin C
    BY <1>3
  <2>2. ctr'[c] = ctr[c] /\ OpenFor(leg'[g], c) /\ leg'[g] = leg[g]
    BY <1>1, <1>2, <1>3, <2>1
  <2> QED
    BY <1>3, <2>2 DEF InUse, OpenFor
<1>4. ASSUME NEW c \in Contracts, NEW g \in Legs,
             ctr'[c] # NoRow, ctr'[c].status = "ACTIVE", OpenFor(leg'[g], c), leg'[g].car = v
      PROVE  InUse(v)
  <2>1. c \notin C
    BY <1>4
  <2>2. ctr'[c] = ctr[c] /\ OpenFor(leg[g], c) /\ leg'[g] = leg[g]
    BY <1>1, <1>2, <1>4, <2>1
  <2> QED
    BY <1>4, <2>2 DEF InUse
<1>5. InUse(v)' <=> \E c \in Contracts, g \in Legs :
                        /\ ctr'[c] # NoRow /\ ctr'[c].status = "ACTIVE"
                        /\ OpenFor(leg'[g], c) /\ leg'[g].car = v
  BY DEF InUse, OpenFor
<1> QED
  BY <1>3, <1>4, <1>5 DEF InUse

LEMMA AheadUndisturbed ==
    ASSUME IInv, NEW v, now' \in Nat, now <= now',
           \A b \in Blocks : /\ block'[b] # NoRow /\ block'[b].vehicle = v
                             /\ block'[b].kind = "RESERVATION"
                             => block'[b] = block[b]
    PROVE  Ahead(v)' => Ahead(v)
<1> SUFFICES ASSUME NEW b \in Blocks, block'[b] # NoRow, block'[b].vehicle = v,
                    block'[b].kind = "RESERVATION", block'[b].to > now'
             PROVE  Ahead(v)
  BY DEF Ahead
<1>1. block'[b] = block[b]
  OBVIOUS
<1>2. block[b].to \in Nat /\ now \in Nat
  BY <1>1 DEF IInv, TypeOK, RefTo, BlockRows
<1> QED
  BY <1>1, <1>2 DEF Ahead

\* Steps that recompute no car, because none needs it.
LEMMA CommercialUndisturbed ==
    ASSUME IInv, IInv', CommercialFollowsAgenda,
           \A v \in Vehicles : /\ unit'[v].commercial = unit[v].commercial
                               /\ (InUse(v)' <=> InUse(v)) /\ (Ahead(v)' => Ahead(v))
    PROVE  CommercialFollowsAgenda'
<1>1. \A v \in Vehicles : unit'[v].commercial \notin OffFleet =>
          /\ unit'[v].commercial = "RENTED" <=> InUse(v)'
          /\ unit'[v].commercial = "AVAILABLE" => ~Ahead(v)'
  BY CommercialEach
<1>2. \A v \in Vehicles :
          InUse(v)' <=> (\E c \in Contracts : /\ ctr[c] # NoRow /\ ctr[c].status = "ACTIVE"
                                             /\ \E g \in OpenLegs(c) : leg[g].car = v)'
  BY DEF InUse, OpenLegs, OpenFor
<1>3. \A b \in Blocks : block'[b] # NoRow => (block'[b].to <= now' <=> ~(block'[b].to > now'))
  BY DEF IInv, TypeOK, RefTo, BlockRows
<1>4. \A v \in Vehicles :
          ~Ahead(v)' <=> \A b \in Blocks : /\ block'[b] # NoRow /\ block'[b].vehicle = v
                                           /\ block'[b].kind = "RESERVATION"
                                           => ~(block'[b].to > now')
  BY DEF Ahead
<1> QED
  BY <1>1, <1>2, <1>3, <1>4 DEF CommercialFollowsAgenda

-----------------------------------------------------------------------------
(* Copies *)

LEMMA FindsUndisturbed ==
    ASSUME IInv, FoundFresh, seen' = seen,
           \A r \in Reservations, b \in Blocks : resv[r] # NoRow =>
               (From(block'[b], r) <=> From(block[b], r)),
           \A g \in Legs : leg[g] # NoRow => leg'[g] = leg[g],
           \A g \in Legs, b \in Blocks : leg[g] # NoRow =>
               (On(block'[b], g) <=> On(block[b], g)),
           \A g \in Legs : leg[g] = NoRow /\ leg'[g] # NoRow =>
               leg'[g].ctr \in Contracts /\ ctr[leg'[g].ctr] = NoRow
    PROVE  FoundFresh'
<1> SUFFICES ASSUME NEW w \in Workers, seen[w] # NoRow
             PROVE  FindsFresh(seen[w])'
  BY DEF FoundFresh
<1>1. FindsFresh(seen[w]) /\ Known(seen[w])
  BY DEF FoundFresh, IInv, Links
<1> DEFINE x == seen[w].id
<1>2. x \in Reservations => seen[w].block \in First(ResvBlocks(x))'
  <2> SUFFICES ASSUME x \in Reservations PROVE seen[w].block \in First(ResvBlocks(x))'
    OBVIOUS
  <2>1. resv[x] # NoRow /\ seen[w].block \in First(ResvBlocks(x))
    BY <1>1 DEF Known, FindsFresh
  <2>2. ResvBlocks(x)' = ResvBlocks(x)
    BY <2>1 DEF ResvBlocks, From
  <2> QED
    BY <2>1, <2>2 DEF First
<1>3. x \in Contracts =>
          /\ seen[w].leg \in First(OpenLegs(x))'
          /\ seen[w].leg # NoRow => seen[w].since = leg'[seen[w].leg].from
          /\ seen[w].block \in First(LegBlocks(seen[w].leg))'
  <2> SUFFICES ASSUME x \in Contracts
               PROVE  /\ seen[w].leg \in First(OpenLegs(x))'
                      /\ seen[w].leg # NoRow => seen[w].since = leg'[seen[w].leg].from
                      /\ seen[w].block \in First(LegBlocks(seen[w].leg))'
    OBVIOUS
  <2>1. /\ ctr[x] # NoRow
        /\ seen[w].leg \in First(OpenLegs(x)) /\ seen[w].block \in First(LegBlocks(seen[w].leg))
        /\ seen[w].leg # NoRow => seen[w].since = leg[seen[w].leg].from
    BY <1>1 DEF Known, FindsFresh
  <2>2. OpenLegs(x)' = OpenLegs(x)
    BY <2>1 DEF OpenLegs
  <2>3. seen[w].leg # NoRow => seen[w].leg \in Legs /\ leg[seen[w].leg] # NoRow
    BY <2>1 DEF First, OpenLegs
  <2>4. LegBlocks(seen[w].leg)' = LegBlocks(seen[w].leg)
    BY <2>3 DEF LegBlocks, On
  <2> QED
    BY <2>1, <2>2, <2>3, <2>4 DEF First
<1> QED
  BY <1>2, <1>3 DEF FindsFresh

LEMMA OneCopyFound ==
    ASSUME FoundFresh, NEW w \in Workers, NEW copy,
           seen \in [Workers -> RefTo(ResvCopies \cup CtrCopies)],
           seen' = [seen EXCEPT ![w] = copy], FindsFresh(copy),
           UNCHANGED <<leg, block>>
    PROVE  FoundFresh'
<1>1. ASSUME NEW x \in Workers, seen'[x] # NoRow
      PROVE  FindsFresh(seen[x])'
  <2>1. PICK s : s = seen'[x]
    OBVIOUS
  <2>2. FindsFresh(s)
    <3>1. s = IF x = w THEN copy ELSE seen[x]
      BY <2>1
    <3> QED
      BY <1>1, <2>1, <3>1 DEF FoundFresh
  <2>3. FindsFresh(seen[x])' <=> FindsFresh(s)
    BY <2>1 DEF FindsFresh, First, ResvBlocks, OpenLegs, LegBlocks
  <2> QED
    BY <2>2, <2>3
<1> QED
  BY <1>1 DEF FoundFresh

LEMMA FoundInFresh ==
    ASSUME IInv, FoundFresh, NEW w \in Workers, NEW c \in Contracts, NEW row, NEW renewed,
           FoundIn(w, c, row, renewed), UNCHANGED <<leg, block>>
    PROVE  FoundFresh'
<1>1. PICK g \in First(OpenLegs(c)) : \E b \in First(LegBlocks(g)) :
          seen' = [seen EXCEPT ![w] =
                      [id |-> c, row |-> row, leg |-> g,
                       since |-> IF g = NoRow THEN NoRow ELSE leg[g].from, block |-> b,
                       renewed |-> renewed]]
  BY DEF FoundIn
<1>2. PICK b \in First(LegBlocks(g)) :
          seen' = [seen EXCEPT ![w] =
                      [id |-> c, row |-> row, leg |-> g,
                       since |-> IF g = NoRow THEN NoRow ELSE leg[g].from, block |-> b,
                       renewed |-> renewed]]
  BY <1>1
<1> DEFINE copy == [id |-> c, row |-> row, leg |-> g,
                    since |-> IF g = NoRow THEN NoRow ELSE leg[g].from, block |-> b,
                    renewed |-> renewed]
<1>3. FindsFresh(copy)
  BY NoRowAssumption DEF FindsFresh
<1>4. seen' = [seen EXCEPT ![w] = copy]
  BY <1>2
<1> HIDE DEF copy
<1> QED
  BY <1>3, <1>4, OneCopyFound DEF IInv, TypeOK

LEMMA BlockFoundFresh ==
    ASSUME IInv, FoundFresh, NEW w \in Workers, seen[w] # NoRow, NEW b,
           \/ seen[w].id \in Reservations /\ b \in First(ResvBlocks(seen[w].id))
           \/ seen[w].leg # NoRow /\ b \in First(LegBlocks(seen[w].leg)),
           seen' = [seen EXCEPT ![w].block = b], UNCHANGED <<leg, block>>
    PROVE  FoundFresh'
<1> DEFINE copy == [seen[w] EXCEPT !.block = b]
<1>1. seen[w] \in ResvCopies \cup CtrCopies /\ FindsFresh(seen[w])
  BY DEF IInv, TypeOK, FoundFresh, RefTo
<1>2. seen' = [seen EXCEPT ![w] = copy]
  BY DEF IInv, TypeOK
<1>3. FindsFresh(copy)
  <2>1. CASE seen[w] \in ResvCopies
    <3>1. /\ seen[w].id \in Reservations /\ seen[w].id \notin Contracts /\ seen[w].leg = NoRow
          /\ copy.id = seen[w].id /\ copy.block = b
      BY <2>1, NoRowAssumption DEF ResvCopies
    <3> QED
      BY <3>1 DEF FindsFresh
  <2>2. CASE seen[w] \in CtrCopies
    <3>1. /\ seen[w].id \in Contracts /\ seen[w].id \notin Reservations
          /\ copy.id = seen[w].id /\ copy.leg = seen[w].leg /\ copy.since = seen[w].since
          /\ copy.block = b
      BY <2>2, NoRowAssumption DEF CtrCopies
    <3> HIDE DEF copy
    <3> QED
      BY <1>1, <3>1 DEF FindsFresh
  <2> QED
    BY <1>1, <2>1, <2>2
<1> HIDE DEF copy
<1> QED
  BY <1>2, <1>3, OneCopyFound DEF IInv, TypeOK

LEMMA ReadsFind ==
    ASSUME IInv, FoundFresh, NEW w \in Workers,
           \/ \E r \in Reservations : LoadReservation(w, r)
           \/ \E c \in Contracts : LoadContract(w, c)
           \/ Look(w)
    PROVE  FoundFresh'
<1>1. UNCHANGED <<leg, block>>
  BY DEF LoadReservation, LoadContract, Look
<1>2. ASSUME NEW r \in Reservations, LoadReservation(w, r)
      PROVE  FoundFresh'
  <2>1. PICK b \in First(ResvBlocks(r)) :
            seen' = [seen EXCEPT ![w] = [id |-> r, row |-> resv[r], leg |-> NoRow,
                                         since |-> NoRow, block |-> b, renewed |-> FALSE]]
    BY <1>2 DEF LoadReservation
  <2> DEFINE copy == [id |-> r, row |-> resv[r], leg |-> NoRow,
                      since |-> NoRow, block |-> b, renewed |-> FALSE]
  <2>2. FindsFresh(copy)
    BY NoRowAssumption DEF FindsFresh
  <2>3. seen' = [seen EXCEPT ![w] = copy]
    BY <2>1
  <2> HIDE DEF copy
  <2> QED
    BY <1>1, <2>2, <2>3, OneCopyFound DEF IInv, TypeOK
<1>3. ASSUME NEW c \in Contracts, LoadContract(w, c)
      PROVE  FoundFresh'
  BY <1>1, <1>3, FoundInFresh DEF LoadContract
<1>4. CASE Look(w)
  <2>1. seen[w] # NoRow
    BY <1>4 DEF Look, Idle
  <2>2. CASE /\ seen[w].id \in Reservations
             /\ \E b \in First(ResvBlocks(seen[w].id)) : seen' = [seen EXCEPT ![w].block = b]
    BY <1>1, <2>1, <2>2, BlockFoundFresh
  <2>3. CASE /\ seen[w].leg # NoRow
             /\ \E b \in First(LegBlocks(seen[w].leg)) : seen' = [seen EXCEPT ![w].block = b]
    BY <1>1, <2>1, <2>3, BlockFoundFresh
  <2>4. CASE /\ seen[w].id \in Contracts
             /\ \E renewed \in {seen[w].renewed, RenewedAlready(seen[w].id)} :
                   FoundIn(w, seen[w].id, seen[w].row, renewed)
    BY <1>1, <2>4, FoundInFresh
  <2> QED
    BY <1>4, <2>2, <2>3, <2>4 DEF Look
<1> QED
  BY <1>2, <1>3, <1>4

-----------------------------------------------------------------------------
(* Reservations hold their cars *)

\* Nothing is written but the clock, copies and operational statuses.
LEMMA HoldUntouched ==
    ASSUME HoldInv, SerialInv', FoundFresh', UNCHANGED <<resv, ctr, leg, block>>, now <= now',
           \A v \in Vehicles : unit'[v].commercial = unit[v].commercial
    PROVE  HoldInv'
<1>0. IInv /\ IInv' /\ CommercialFollowsAgenda /\ Kept
  BY DEF HoldInv, SerialInv
<1>1. Kept'
  BY <1>0 DEF Kept, BlocksKept, ReservationsKept, ContractsKept
<1>2. ASSUME NEW v \in Vehicles
      PROVE  (InUse(v)' <=> InUse(v)) /\ (Ahead(v)' => Ahead(v))
  <2>1. now' \in Nat
    BY <1>0 DEF IInv, TypeOK
  <2>2. Ahead(v)' => Ahead(v)
    BY <1>0, <2>1, AheadUndisturbed
  <2> QED
    BY <2>2 DEF InUse, OpenFor
<1>3. CommercialFollowsAgenda'
  BY <1>0, <1>2, CommercialUndisturbed
<1> QED
  BY <1>1, <1>3 DEF HoldInv

LEMMA ReadsHold ==
    ASSUME HoldInv, SerialInv', NEW w \in Workers,
           \/ \E r \in Reservations : LoadReservation(w, r)
           \/ \E c \in Contracts : LoadContract(w, c)
           \/ Look(w)
    PROVE  HoldInv'
<1>1. FoundFresh'
  BY ReadsFind DEF HoldInv, SerialInv
<1>2. UNCHANGED <<resv, ctr, leg, block, now, unit>>
  BY DEF LoadReservation, LoadContract, Look
<1>3. now <= now'
  BY <1>2 DEF HoldInv, SerialInv, IInv, TypeOK
<1> QED
  BY <1>1, <1>2, <1>3, HoldUntouched

\* The clock, the vistoria and the office write nothing that a copy was made from.
LEMMA AsideHolds ==
    ASSUME OneAtATime, HoldInv, SerialInv', UNCHANGED <<resv, ctr, leg, block>>, now <= now',
           seen' = seen \/ (\E w \in Workers : Done(w)),
           \A v \in Vehicles : unit'[v].commercial = unit[v].commercial
    PROVE  HoldInv'
<1>1. CASE seen' = seen
  <2>1. FoundFresh'
    BY <1>1, FindsUndisturbed DEF HoldInv, SerialInv
  <2> QED
    BY <2>1, HoldUntouched
<1>2. CASE \E w \in Workers : Done(w)
  <2>1. FoundFresh'
    BY <1>2, DoneFindsNone DEF HoldInv, SerialInv, IInv
  <2> QED
    BY <2>1, HoldUntouched
<1> QED
  BY <1>1, <1>2

\* What allocate() leaves in the table.
LEMMA Allocated ==
    ASSUME NEW t, t \in Table, NEW v, NEW kind, NEW from, NEW to, NEW r, NEW g,
           Allocate(t, v, kind, from, to, r, g)
    PROVE  \E n \in Blocks :
              /\ block[n] = NoRow /\ Unused(n)
              /\ \A b \in Blocks :
                    block'[b] = IF b = n THEN NewRow(v, kind, from, to, r, g) ELSE t[b]
<1>1. NewBlock \in Blocks /\ Unused(NewBlock)
  BY NewBlockIsBlock DEF Allocate
<1>2. block' = [t EXCEPT ![NewBlock] = NewRow(v, kind, from, to, r, g)]
  BY DEF Allocate, Write
<1>3. t = [b \in Blocks |-> t[b]]
  BY DEF Table
<1> QED
  BY <1>1, <1>2, <1>3 DEF Unused

LEMMA NewRowReads ==
    ASSUME NEW v, NEW kind, NEW from, NEW to, NEW r, NEW g
    PROVE  LET n == NewRow(v, kind, from, to, r, g)
           IN  /\ n.vehicle = v /\ n.kind = kind /\ n.from = from /\ n.to = to
               /\ n.resv = r /\ n.leg = g /\ n.until = to + Buffer(kind)
  BY DEF NewRow, Row

\* A reservation gives back what it had, and may take one block in its place.
GivenBack(r, b) == IF From(block[b], r) THEN NoRow ELSE block[b]

LEMMA ReservationHolds ==
    ASSUME HoldInv, SerialInv', NEW r \in Reservations, NEW row \in ResvRows,
           resv' = [resv EXCEPT ![r] = row], UNCHANGED <<now, ctr, leg>>,
           \A b \in Blocks : From(block[b], r) => block[b].leg = NoRow,
           NEW S, Recompute(S) \/ (unit' = unit /\ S = {}),
           \/ /\ row.status \notin {"CONFIRMED", "CHECKED_OUT"}
              /\ \A b \in Blocks : block'[b] = GivenBack(r, b)
           \/ /\ row.status = "CONFIRMED" /\ row.vehicle \in S \cap Vehicles
              /\ \E n \in Blocks :
                    /\ block[n] = NoRow
                    /\ \A b \in Blocks : b # n => block'[b] = GivenBack(r, b)
                    /\ block'[n] = NewRow(row.vehicle, "RESERVATION", row.from, row.to, r, NoRow)
    PROVE  Kept' /\ CommercialFollowsAgenda'
<1>0. IInv /\ IInv' /\ Kept /\ CommercialFollowsAgenda /\ r # NoRow /\ row # NoRow
  BY NoRowAssumption, RowAssumption DEF HoldInv, SerialInv
<1>1. \A q \in Reservations : resv'[q] = IF q = r THEN row ELSE resv[q]
  BY <1>0 DEF IInv, TypeOK
<1>2. Growing
  BY <1>0, <1>1 DEF Growing
<1>3. \A b \in Blocks :
          \/ block'[b] = GivenBack(r, b)
          \/ /\ block[b] = NoRow /\ row.status = "CONFIRMED" /\ row.vehicle \in S
             /\ block'[b] = NewRow(row.vehicle, "RESERVATION", row.from, row.to, r, NoRow)
  OBVIOUS
<1>4. ASSUME NEW b \in Blocks, block'[b] # block[b]
      PROVE  /\ block[b] # NoRow => block[b].leg = NoRow /\ block[b].resv = r
             /\ block'[b] # NoRow => /\ block'[b].leg = NoRow /\ block'[b].resv = r
                                     /\ block'[b].kind = "RESERVATION"
                                     /\ block'[b].vehicle \in S
  BY <1>3, <1>4, NewRowReads DEF GivenBack, From
<1>5. ResvKept(r, row, block')
  <2>1. CASE /\ row.status \notin {"CONFIRMED", "CHECKED_OUT"}
             /\ \A b \in Blocks : block'[b] = GivenBack(r, b)
    BY <2>1 DEF ResvKept, GivenBack, From
  <2>2. CASE /\ row.status = "CONFIRMED" /\ row.vehicle \in Vehicles
             /\ \E n \in Blocks :
                    /\ block[n] = NoRow
                    /\ \A b \in Blocks : b # n => block'[b] = GivenBack(r, b)
                    /\ block'[n] = NewRow(row.vehicle, "RESERVATION", row.from, row.to, r, NoRow)
    <3>1. PICK n \in Blocks :
                    /\ block[n] = NoRow
                    /\ \A b \in Blocks : b # n => block'[b] = GivenBack(r, b)
                    /\ block'[n] = NewRow(row.vehicle, "RESERVATION", row.from, row.to, r, NoRow)
      BY <2>2
    <3>2. block'[n] # NoRow
      <4>1. NewRow(row.vehicle, "RESERVATION", row.from, row.to, r, NoRow) \in BlockRows
        BY <2>2, NewRowType DEF ResvRows, RefTo
      <4> QED
        BY <3>1, <4>1, RowAssumption
    <3>3. From(block'[n], r) /\ HeldAs(block'[n], row)
      BY <3>1, <3>2, NewRowReads DEF From, HeldAs
    <3>4. \A a \in Blocks : From(block'[a], r) => a = n
      BY <3>1 DEF GivenBack, From
    <3> QED
      BY <1>0, <2>2, <3>3, <3>4 DEF ResvKept
  <2> QED
    BY <2>1, <2>2
<1>6. Kept'
  <2>1. \A b \in Blocks : block'[b] # block[b] /\ block'[b] # NoRow =>
            Referred(block'[b], resv', ctr', leg')
    BY <1>0, <1>1, <1>4 DEF Referred
  <2>2. PICK R \in SUBSET Reservations : R = {r}
    OBVIOUS
  <2>3. /\ \A q \in R : ResvKept(q, resv'[q], block')
        /\ \A q \in Reservations \ R : resv'[q] = resv[q]
    BY <1>1, <1>5, <2>2
  <2>4. \A b \in Blocks : block'[b] # block[b] /\ block[b] # NoRow =>
            block[b].leg = NoRow /\ block[b].resv \in R \cup {NoRow}
    BY <1>4, <2>2
  <2>5. \A b \in Blocks : block'[b] # block[b] /\ block'[b] # NoRow =>
            /\ block'[b].leg = NoRow /\ block'[b].resv \in R \cup {NoRow}
            /\ Referred(block'[b], resv', ctr', leg')
    BY <1>4, <2>1, <2>2
  <2> QED
    BY <1>0, <1>2, <2>3, <2>4, <2>5, KeptByReservations
<1>7. ASSUME NEW v \in Vehicles \ S
      PROVE  (InUse(v)' <=> InUse(v)) /\ (Ahead(v)' => Ahead(v))
  <2>1. now' \in Nat /\ now <= now'
    BY <1>0 DEF IInv, TypeOK
  <2>2. \A b \in Blocks : /\ block'[b] # NoRow /\ block'[b].vehicle = v
                          /\ block'[b].kind = "RESERVATION"
                          => block'[b] = block[b]
    BY <1>4, <1>7
  <2>3. Ahead(v)' => Ahead(v)
    BY <1>0, <2>1, <2>2, AheadUndisturbed
  <2> QED
    BY <2>3 DEF InUse, OpenFor
<1>8. CommercialFollowsAgenda'
  <2>1. CASE Recompute(S)
    BY <1>0, <1>7, <2>1, CommercialBy
  <2>2. CASE unit' = unit /\ S = {}
    BY <1>0, <1>7, <2>2, CommercialUndisturbed
  <2> QED
    BY <2>1, <2>2
<1> QED
  BY <1>6, <1>8

LEMMA FreeReservation ==
    ASSUME HoldInv, NEW r \in Reservations,
           resv[r] = NoRow \/ resv[r].status \notin {"CONFIRMED", "CHECKED_OUT"}
    PROVE  \A b \in Blocks : ~From(block[b], r) /\ GivenBack(r, b) = block[b]
<1>1. ResvKept(r, resv[r], block)
  BY DEF HoldInv, Kept, ReservationsKept
<1> QED
  BY <1>1 DEF ResvKept, GivenBack

LEMMA RequestHolds ==
    ASSUME HoldInv, SerialInv', NEW r \in Reservations, NEW p \in Periods,
           Request(r, p) \/ (\E v \in Vehicles : RequestConfirmed(r, p, v))
    PROVE  HoldInv'
<1>0. IInv /\ FoundFresh
  BY DEF HoldInv, SerialInv
<1>1. resv[r] = NoRow /\ UNCHANGED <<now, ctr, leg, seen>>
  BY DEF Request, RequestConfirmed
<1>2. \A b \in Blocks : ~From(block[b], r) /\ GivenBack(r, b) = block[b]
  BY <1>1, FreeReservation
<1>3. CASE Request(r, p)
  <2> DEFINE row == [status |-> "REQUESTED", vehicle |-> NoRow, from |-> p.from, to |-> p.to]
  <2>1. row \in ResvRows /\ row.status \notin {"CONFIRMED", "CHECKED_OUT"}
    BY PeriodType DEF ResvRows, ResvStatuses, RefTo
  <2>2. resv' = [resv EXCEPT ![r] = row] /\ unit' = unit /\ block' = block
    BY <1>3 DEF Request
  <2> HIDE DEF row
  <2>3. Kept' /\ CommercialFollowsAgenda'
    BY <1>1, <1>2, <2>1, <2>2, ReservationHolds
  <2>4. FoundFresh'
    BY <1>0, <1>1, <2>2, FindsUndisturbed
  <2> QED
    BY <2>3, <2>4 DEF HoldInv
<1>4. ASSUME NEW v \in Vehicles, RequestConfirmed(r, p, v)
      PROVE  HoldInv'
  <2> DEFINE row == [status |-> "CONFIRMED", vehicle |-> v, from |-> p.from, to |-> p.to]
  <2>1. /\ row \in ResvRows /\ row.status = "CONFIRMED" /\ row.vehicle = v
        /\ row.from = p.from /\ row.to = p.to
    BY PeriodType DEF ResvRows, ResvStatuses, RefTo
  <2>2. resv' = [resv EXCEPT ![r] = row] /\ Recompute({v})
    BY <1>4 DEF RequestConfirmed
  <2> HIDE DEF row
  <2>3. Allocate(block, v, "RESERVATION", row.from, row.to, r, NoRow) /\ block \in Table
    BY <1>0, <1>4, <2>1 DEF RequestConfirmed, IInv, Sound
  <2>4. PICK n \in Blocks :
            /\ block[n] = NoRow
            /\ \A b \in Blocks : block'[b] = IF b = n
                    THEN NewRow(v, "RESERVATION", row.from, row.to, r, NoRow) ELSE block[b]
    BY <2>3, Allocated
  <2>5. Kept' /\ CommercialFollowsAgenda'
    BY <1>1, <1>2, <2>1, <2>2, <2>4, ReservationHolds
  <2>6. FoundFresh'
    <3>1. \A b \in Blocks : b # n => block'[b] = block[b]
      BY <2>4
    <3>2. block[n] = NoRow /\ (block'[n] # NoRow => block'[n].resv = r /\ block'[n].leg = NoRow)
      BY <2>4, NewRowReads
    <3>3. \A q \in Reservations, b \in Blocks : resv[q] # NoRow =>
              (From(block'[b], q) <=> From(block[b], q))
      BY <1>1, <3>1, <3>2 DEF From
    <3>4. \A g \in Legs, b \in Blocks : On(block'[b], g) <=> On(block[b], g)
      BY <3>1, <3>2, NoRowAssumption DEF On
    <3> QED
      BY <1>0, <1>1, <3>3, <3>4, FindsUndisturbed
  <2> QED
    BY <2>5, <2>6 DEF HoldInv
<1> QED
  BY <1>3, <1>4

\* A handler of a reservation that is not checked out: its block is what it found.
LEMMA ReservedInHand ==
    ASSUME HoldInv, NEW w \in Workers, NEW r \in Reservations, Holding(w, r),
           seen[w].row.status \in {"REQUESTED", "CONFIRMED"}
    PROVE  /\ resv[r].status # "CHECKED_OUT"
           /\ seen[w].row.status = "CONFIRMED" => seen[w].row = resv[r]
           /\ seen[w].row.status = "REQUESTED" => resv[r].status \in {"REQUESTED", "EXPIRED"}
           /\ seen[w].row.from = resv[r].from /\ seen[w].row.to = resv[r].to
           /\ \A b \in Blocks : From(block[b], r) => block[b].leg = NoRow
           /\ Release(block, seen[w].block) \in Table
           /\ \A b \in Blocks : Release(block, seen[w].block)[b] = GivenBack(r, b)
<1>0. block \in Table
  BY DEF HoldInv, SerialInv, IInv, Sound
<1>1. /\ SameRow(seen[w].row, resv[r]) /\ seen[w].row \in ResvRows /\ resv[r] \in ResvRows
  BY ReservationInHand DEF HoldInv
<1>2. /\ resv[r].status # "CHECKED_OUT"
      /\ seen[w].row.status = "CONFIRMED" => seen[w].row = resv[r]
      /\ seen[w].row.status = "REQUESTED" => resv[r].status \in {"REQUESTED", "EXPIRED"}
      /\ seen[w].row.from = resv[r].from /\ seen[w].row.to = resv[r].to
  BY <1>1 DEF SameRow, ResvRows
<1>3. CASE resv[r].status = "CONFIRMED"
  <2>1. /\ seen[w].block \in Blocks /\ From(block[seen[w].block], r)
        /\ HeldAs(block[seen[w].block], resv[r])
        /\ \A a \in Blocks : From(block[a], r) => a = seen[w].block
    BY <1>3, BlockInHand
  <2>2. block[seen[w].block].leg = NoRow
    BY <2>1 DEF HeldAs, From, HoldInv, Kept, BlocksKept, Referred
  <2>3. Release(block, seen[w].block) = [block EXCEPT ![seen[w].block] = NoRow]
    BY <2>1 DEF Release
  <2> QED
    BY <1>0, <1>2, <2>1, <2>2, <2>3 DEF Table, RefTo, GivenBack
<1>4. CASE resv[r].status # "CONFIRMED"
  <2>1. seen[w].block = NoRow /\ \A a \in Blocks : ~From(block[a], r)
    BY <1>2, <1>4, BlockInHand
  <2>2. Release(block, seen[w].block) = block
    BY <2>1, NoRowAssumption DEF Release
  <2> QED
    BY <1>0, <1>2, <2>1, <2>2 DEF GivenBack
<1> QED
  BY <1>3, <1>4

LEMMA ConfirmHolds ==
    ASSUME OneAtATime, HoldInv, SerialInv', NEW w \in Workers, NEW r \in Reservations,
           NEW v \in Vehicles, Confirm(w, r, v)
    PROVE  HoldInv'
<1> DEFINE row == [resv[r] EXCEPT !.status = "CONFIRMED", !.vehicle = v]
<1>0. IInv /\ TypeOK /\ Done(w) /\ Holding(w, r) /\ UNCHANGED <<now, ctr, leg>> /\ Recompute({v})
  BY DEF HoldInv, SerialInv, IInv, Confirm
<1>1. /\ seen[w].row.status = "REQUESTED" /\ resv[r].status \in {"REQUESTED", "EXPIRED"}
      /\ seen[w].row.from = resv[r].from /\ seen[w].row.to = resv[r].to
  BY ReservedInHand DEF Confirm
<1>2. resv[r] \in ResvRows
  BY <1>0, HeldRow
<1>3. /\ row \in ResvRows /\ row.status = "CONFIRMED" /\ row.vehicle = v
      /\ row.from = resv[r].from /\ row.to = resv[r].to
  BY <1>2 DEF ResvRows, ResvStatuses, RefTo
<1>4. resv' = [resv EXCEPT ![r] = row]
  BY <1>0 DEF Confirm, TypeOK
<1> HIDE DEF row
<1>5. Allocate(block, v, "RESERVATION", row.from, row.to, r, NoRow) /\ block \in Table
  BY <1>0, <1>1, <1>3 DEF Confirm, IInv, Sound
<1>6. \A b \in Blocks : ~From(block[b], r) /\ GivenBack(r, b) = block[b]
  BY <1>1, FreeReservation
<1>7. \E n \in Blocks :
          /\ block[n] = NoRow
          /\ \A b \in Blocks : block'[b] = IF b = n
                  THEN NewRow(v, "RESERVATION", row.from, row.to, r, NoRow) ELSE block[b]
  BY <1>5, Allocated
<1>8. /\ row.vehicle \in {v} \cap Vehicles
      /\ \E n \in Blocks :
            /\ block[n] = NoRow
            /\ \A b \in Blocks : b # n => block'[b] = GivenBack(r, b)
            /\ block'[n] = NewRow(row.vehicle, "RESERVATION", row.from, row.to, r, NoRow)
  BY <1>3, <1>6, <1>7
<1>9. Kept' /\ CommercialFollowsAgenda'
  BY <1>0, <1>3, <1>4, <1>6, <1>8, ReservationHolds
<1> QED
  BY <1>0, <1>9, DoneFindsNone DEF HoldInv

LEMMA UpdateHolds ==
    ASSUME OneAtATime, HoldInv, SerialInv', NEW w \in Workers, NEW r \in Reservations,
           NEW v \in Vehicles \cup {NoRow}, NEW p \in Periods, Update(w, r, v, p)
    PROVE  HoldInv'
<1> DEFINE row == [resv[r] EXCEPT !.vehicle = v, !.from = p.from, !.to = p.to]
           S   == {seen[w].row.vehicle, v}
<1>0. IInv /\ TypeOK /\ Done(w) /\ Holding(w, r) /\ UNCHANGED <<now, ctr, leg>> /\ Recompute(S)
  BY DEF HoldInv, SerialInv, IInv, Update
<1>1. resv[r] \in ResvRows
  BY <1>0, HeldRow
<1>2. /\ row \in ResvRows /\ row.status = resv[r].status /\ row.vehicle = v
      /\ row.from = p.from /\ row.to = p.to
  BY <1>1, PeriodType DEF ResvRows, RefTo
<1>3. resv' = [resv EXCEPT ![r] = row] /\ v \in S
  BY <1>0 DEF Update, TypeOK
<1> HIDE DEF row, S
<1>4. CASE seen[w].row.status = "REQUESTED"
  <2>1. resv[r].status \in {"REQUESTED", "EXPIRED"}
    BY <1>0, <1>4, ReservedInHand
  <2>2. block' = block
    BY <1>4 DEF Update
  <2>3. \A b \in Blocks : ~From(block[b], r) /\ GivenBack(r, b) = block[b]
    BY <2>1, FreeReservation
  <2>4. Kept' /\ CommercialFollowsAgenda'
    BY <1>0, <1>2, <1>3, <2>1, <2>2, <2>3, ReservationHolds
  <2> QED
    BY <1>0, <2>4, DoneFindsNone DEF HoldInv
<1>5. CASE seen[w].row.status = "CONFIRMED"
  <2> DEFINE t == Release(block, seen[w].block)
  <2>1. /\ resv[r].status = "CONFIRMED" /\ t \in Table
        /\ \A b \in Blocks : From(block[b], r) => block[b].leg = NoRow
        /\ \A b \in Blocks : t[b] = GivenBack(r, b)
    BY <1>0, <1>5, ReservedInHand
  <2>2. v \in Vehicles /\ Allocate(t, v, "RESERVATION", row.from, row.to, r, NoRow)
    BY <1>2, <1>5 DEF Update
  <2> HIDE DEF t
  <2>3. \E n \in Blocks :
            /\ block[n] = NoRow
            /\ \A b \in Blocks : block'[b] = IF b = n
                    THEN NewRow(v, "RESERVATION", row.from, row.to, r, NoRow) ELSE t[b]
    BY <2>1, <2>2, Allocated
  <2>4. row.status = "CONFIRMED" /\ row.vehicle \in S \cap Vehicles
    BY <1>2, <1>3, <2>1, <2>2
  <2>5. \E n \in Blocks :
            /\ block[n] = NoRow
            /\ \A b \in Blocks : b # n => block'[b] = GivenBack(r, b)
            /\ block'[n] = NewRow(row.vehicle, "RESERVATION", row.from, row.to, r, NoRow)
    BY <1>2, <2>1, <2>3
  <2>6. Kept' /\ CommercialFollowsAgenda'
    BY <1>0, <1>2, <1>3, <2>1, <2>4, <2>5, ReservationHolds
  <2> QED
    BY <1>0, <2>6, DoneFindsNone DEF HoldInv
<1> QED
  BY <1>4, <1>5 DEF Update

LEMMA CancelHolds ==
    ASSUME OneAtATime, HoldInv, SerialInv', NEW w \in Workers, NEW r \in Reservations,
           NEW status \in {"CANCELLED", "NO_SHOW"}, Cancel(w, r, status)
    PROVE  HoldInv'
<1> DEFINE row == [resv[r] EXCEPT !.status = status]
           S   == {seen[w].row.vehicle}
<1>0. IInv /\ TypeOK /\ Done(w) /\ Holding(w, r) /\ UNCHANGED <<now, ctr, leg>> /\ Recompute(S)
  BY DEF HoldInv, SerialInv, IInv, Cancel
<1>1. resv[r] \in ResvRows
  BY <1>0, HeldRow
<1>2. row \in ResvRows /\ row.status = status
  BY <1>1 DEF ResvRows, ResvStatuses
<1>3. resv' = [resv EXCEPT ![r] = row]
  BY <1>0 DEF Cancel, TypeOK
<1> HIDE DEF row, S
<1>4. seen[w].row.status \in {"REQUESTED", "CONFIRMED"} /\ block' = Release(block, seen[w].block)
  BY DEF Cancel
<1>5. /\ \A b \in Blocks : From(block[b], r) => block[b].leg = NoRow
      /\ \A b \in Blocks : block'[b] = GivenBack(r, b)
  BY <1>0, <1>4, ReservedInHand
<1>6. Kept' /\ CommercialFollowsAgenda'
  BY <1>0, <1>2, <1>3, <1>5, ReservationHolds
<1> QED
  BY <1>0, <1>6, DoneFindsNone DEF HoldInv

LEMMA ExpireHolds ==
    ASSUME HoldInv, SerialInv', NEW late \in SUBSET Reservations, Expire(late)
    PROVE  HoldInv'
<1>0. /\ IInv /\ IInv' /\ Kept /\ FoundFresh /\ CommercialFollowsAgenda
      /\ UNCHANGED <<now, unit, ctr, leg, block, seen>>
  BY DEF HoldInv, SerialInv, Expire
<1>1. \A r \in late : /\ resv[r] # NoRow /\ resv[r].status = "REQUESTED" /\ resv[r] \in ResvRows
                      /\ resv'[r] = [resv[r] EXCEPT !.status = "EXPIRED"]
  BY <1>0 DEF Expire, Asked, IInv, TypeOK, RefTo
<1>2. \A r \in Reservations \ late : resv'[r] = resv[r]
  BY DEF Expire
<1>3. \A r \in late : resv'[r].status = "EXPIRED" /\ resv'[r] \in ResvRows
  BY <1>1 DEF ResvRows, ResvStatuses
<1>4. Growing
  BY <1>0, <1>2, <1>3, RowAssumption DEF Growing
<1>5. \A r \in late : ResvKept(r, resv'[r], block')
  <2> SUFFICES ASSUME NEW r \in late PROVE ResvKept(r, resv'[r], block')
    OBVIOUS
  <2>1. \A b \in Blocks : ~From(block[b], r)
    BY <1>1, FreeReservation
  <2> QED
    BY <1>0, <1>3, <2>1 DEF ResvKept
<1>6. Kept'
  BY <1>0, <1>2, <1>4, <1>5, KeptByReservations
<1>7. FoundFresh'
  BY <1>0, FindsUndisturbed
<1>8. CommercialFollowsAgenda'
  BY <1>0 DEF CommercialFollowsAgenda, OpenLegs
<1> QED
  BY <1>6, <1>7, <1>8 DEF HoldInv

-----------------------------------------------------------------------------
(* Blocks by hand *)

LEMMA ByHandHolds ==
    ASSUME HoldInv, SerialInv', UNCHANGED <<now, unit, resv, ctr, leg, seen>>,
           \A b \in Blocks : block'[b] # block[b] =>
               /\ block[b] # NoRow => block[b].kind = "BLOCK"
               /\ block'[b] # NoRow => block'[b].kind = "BLOCK" /\ block'[b].resv = NoRow
                                       /\ block'[b].leg = NoRow
    PROVE  HoldInv'
<1>0. IInv /\ IInv' /\ Kept /\ FoundFresh /\ CommercialFollowsAgenda
  BY DEF HoldInv, SerialInv
<1>1. Growing
  BY DEF Growing
<1>2. ASSUME NEW b \in Blocks, block'[b] # block[b], block[b] # NoRow
      PROVE  block[b].leg = NoRow /\ block[b].resv = NoRow
  BY <1>0, <1>2 DEF Kept, BlocksKept, Referred
<1>3. PICK R \in SUBSET Reservations : R = {}
  OBVIOUS
<1>4. /\ \A q \in Reservations \ R : resv'[q] = resv[q]
      /\ \A q \in R : ResvKept(q, resv'[q], block')
  BY <1>3
<1>5. \A b \in Blocks : block'[b] # block[b] /\ block[b] # NoRow =>
          block[b].leg = NoRow /\ block[b].resv \in R \cup {NoRow}
  BY <1>2
<1>6. \A b \in Blocks : block'[b] # block[b] /\ block'[b] # NoRow =>
          /\ block'[b].leg = NoRow /\ block'[b].resv \in R \cup {NoRow}
          /\ Referred(block'[b], resv', ctr', leg')
  BY DEF Referred
<1>7. Kept'
  BY <1>0, <1>1, <1>4, <1>5, <1>6, KeptByReservations
<1>8. FoundFresh'
  <2>1. \A r \in Reservations, b \in Blocks : resv[r] # NoRow =>
            (From(block'[b], r) <=> From(block[b], r))
    BY <1>2, NoRowAssumption DEF From
  <2>2. \A g \in Legs, b \in Blocks : On(block'[b], g) <=> On(block[b], g)
    BY <1>2, NoRowAssumption DEF On
  <2> QED
    BY <1>0, <2>1, <2>2, FindsUndisturbed
<1>9. ASSUME NEW v \in Vehicles
      PROVE  (InUse(v)' <=> InUse(v)) /\ (Ahead(v)' => Ahead(v))
  <2>1. now' \in Nat /\ now <= now'
    BY <1>0 DEF IInv, TypeOK
  <2>2. \A b \in Blocks : /\ block'[b] # NoRow /\ block'[b].vehicle = v
                          /\ block'[b].kind = "RESERVATION"
                          => block'[b] = block[b]
    OBVIOUS
  <2>3. Ahead(v)' => Ahead(v)
    BY <1>0, <2>1, <2>2, AheadUndisturbed
  <2> QED
    BY <2>3 DEF InUse, OpenFor
<1>10. CommercialFollowsAgenda'
  BY <1>0, <1>9, CommercialUndisturbed
<1> QED
  BY <1>7, <1>8, <1>10 DEF HoldInv

LEMMA BlockHolds ==
    ASSUME HoldInv, SerialInv',
           \/ \E v \in Vehicles, p \in BlockPeriods : CreateBlock(v, p)
           \/ \E b \in Blocks : ReleaseBlock(b)
    PROVE  HoldInv'
<1>0. block \in Table
  BY DEF HoldInv, SerialInv, IInv, Sound
<1>1. ASSUME NEW v \in Vehicles, NEW p \in BlockPeriods, CreateBlock(v, p)
      PROVE  HoldInv'
  <2>1. Allocate(block, v, "BLOCK", p.from, p.to, NoRow, NoRow)
    BY <1>1 DEF CreateBlock
  <2>2. PICK n \in Blocks :
            /\ block[n] = NoRow
            /\ \A b \in Blocks : block'[b] = IF b = n
                    THEN NewRow(v, "BLOCK", p.from, p.to, NoRow, NoRow) ELSE block[b]
    BY <1>0, <2>1, Allocated
  <2>3. \A b \in Blocks : block'[b] # block[b] =>
            /\ block[b] # NoRow => block[b].kind = "BLOCK"
            /\ block'[b] # NoRow => block'[b].kind = "BLOCK" /\ block'[b].resv = NoRow
                                    /\ block'[b].leg = NoRow
    BY <2>2, NewRowReads
  <2>4. UNCHANGED <<now, unit, resv, ctr, leg, seen>>
    BY <1>1 DEF CreateBlock
  <2> QED
    BY <2>3, <2>4, ByHandHolds
<1>2. ASSUME NEW n \in Blocks, ReleaseBlock(n)
      PROVE  HoldInv'
  <2>1. \A b \in Blocks : block'[b] = IF b = n THEN NoRow ELSE block[b]
    BY <1>0, <1>2 DEF ReleaseBlock, Release, Table
  <2>2. UNCHANGED <<now, unit, resv, ctr, leg, seen>> /\ block[n].kind = "BLOCK"
    BY <1>2 DEF ReleaseBlock
  <2> QED
    BY <2>1, <2>2, ByHandHolds
<1> QED
  BY <1>1, <1>2

-----------------------------------------------------------------------------
(* Contracts hold their cars *)

\* Contract c, its open interval g and the block b of that are written, and
\* it holds its car still, or has ended.
Rewritten(c, g, b, row, i) ==
    /\ now' = now /\ \E w \in Workers : Done(w)
    /\ InHand(c, g, b) /\ ctr[c].status \notin Finished
    /\ row \in CtrRows /\ row.resv = ctr[c].resv /\ ctr' = [ctr EXCEPT ![c] = row]
    /\ i \in LegRows /\ i.ctr = c /\ i.car = leg[g].car /\ leg' = [leg EXCEPT ![g] = i]
    /\ \A a \in Blocks \ {b} : block'[a] = block[a]
    /\ block'[b] # NoRow =>
          block'[b].kind = "CONTRACT" /\ block'[b].leg = g /\ block'[b].resv = block[b].resv
    /\ \A q \in Reservations :
          /\ resv[q] # NoRow => resv'[q] # NoRow
          /\ resv'[q] = resv[q] \/ ResvKept(q, resv'[q], block')
    /\ \/ /\ row.status \notin Finished /\ i.till = NoRow
          /\ block'[b] # NoRow /\ CarriedAs(block'[b], i, row)
          /\ row.status \in Proposal \cup {"APPROVED"} =>
                 ctr[c].status \in Proposal \cup {"APPROVED"}
       \/ /\ row.status \in Finished /\ i.till # NoRow
          /\ row.status = "CANCELLED" =>
                 ctr[c].status \in Proposal \cup {"APPROVED"} /\ block'[b] = NoRow

LEMMA ContractKept ==
    ASSUME OneAtATime, HoldInv, SerialInv', NEW c \in Contracts, NEW g, NEW b, NEW row, NEW i,
           Rewritten(c, g, b, row, i)
    PROVE  Kept' /\ FoundFresh' /\ (\A v \in Vehicles : Ahead(v)' => Ahead(v))
<1>a. /\ (\E w \in Workers : Done(w)) /\ now' = now
      /\ InHand(c, g, b) /\ ctr[c].status \notin Finished
      /\ row \in CtrRows /\ row.resv = ctr[c].resv /\ ctr' = [ctr EXCEPT ![c] = row]
      /\ i \in LegRows /\ i.ctr = c /\ i.car = leg[g].car /\ leg' = [leg EXCEPT ![g] = i]
  BY DEF Rewritten
<1>b. /\ \A a \in Blocks \ {b} : block'[a] = block[a]
      /\ block'[b] # NoRow => /\ block'[b].kind = "CONTRACT" /\ block'[b].leg = g
                              /\ block'[b].resv = block[b].resv
      /\ \A q \in Reservations : resv[q] # NoRow => resv'[q] # NoRow
      /\ \A q \in Reservations : resv'[q] = resv[q] \/ ResvKept(q, resv'[q], block')
  BY DEF Rewritten
<1>c. \/ /\ row.status \notin Finished /\ i.till = NoRow
         /\ block'[b] # NoRow /\ CarriedAs(block'[b], i, row)
         /\ row.status \in Proposal \cup {"APPROVED"} =>
                ctr[c].status \in Proposal \cup {"APPROVED"}
      \/ /\ row.status \in Finished /\ i.till # NoRow
         /\ row.status = "CANCELLED" =>
                ctr[c].status \in Proposal \cup {"APPROVED"} /\ block'[b] = NoRow
  BY DEF Rewritten
<1> USE <1>a, <1>b, <1>c
<1>0. IInv /\ IInv' /\ Told /\ Kept /\ CommercialFollowsAgenda /\ TypeOK
  BY DEF HoldInv, SerialInv, IInv
<1>1. /\ g \in Legs /\ leg[g] # NoRow /\ leg[g].ctr = c /\ leg[g].till = NoRow
      /\ b \in Blocks /\ block[b] # NoRow /\ block[b].leg = g
      /\ \A h \in Legs : OpenFor(leg[h], c) => h = g
      /\ \A a \in Blocks : On(block[a], g) => a = b
      /\ ctr[c] # NoRow /\ row # NoRow /\ i # NoRow /\ g # NoRow
  <2>1. ctr[c] # NoRow
    BY <1>0 DEF InHand, IInv, Links
  <2> QED
    BY <2>1, RowAssumption, NoRowAssumption DEF InHand
<1>2. /\ \A d \in Contracts : ctr'[d] = IF d = c THEN row ELSE ctr[d]
      /\ \A h \in Legs : leg'[h] = IF h = g THEN i ELSE leg[h]
  BY <1>0, <1>1 DEF TypeOK
<1>3. Growing
  BY <1>1, <1>2 DEF Growing
<1>4. CtrKept(c, row, leg', block')
  <2>1. \A h \in Legs : OpenFor(leg'[h], c) => h = g /\ i.till = NoRow
    BY <1>1, <1>2 DEF OpenFor
  <2>2. \A a \in Blocks : On(block'[a], g) => a = b
    BY <1>1 DEF On
  <2>3. ASSUME row.status \notin Finished
        PROVE  \E h \in Legs, a \in Blocks :
                  /\ OpenFor(leg'[h], c) /\ \A k \in Legs : OpenFor(leg'[k], c) => k = h
                  /\ On(block'[a], h) /\ \A k \in Blocks : On(block'[k], h) => k = a
                  /\ CarriedAs(block'[a], leg'[h], row)
    <3>1. i.till = NoRow /\ block'[b] # NoRow /\ CarriedAs(block'[b], i, row)
      BY <2>3
    <3>2. OpenFor(leg'[g], c) /\ On(block'[b], g) /\ leg'[g] = i
      BY <1>1, <1>2, <3>1 DEF OpenFor, On
    <3> QED
      BY <1>1, <2>1, <2>2, <3>1, <3>2
  <2>4. ASSUME row.status \in Proposal \cup {"APPROVED", "CANCELLED"},
               NEW h \in Legs, NEW a \in Blocks, On(block'[a], h), leg'[h] # NoRow, leg'[h].ctr = c
        PROVE  leg'[h].till = NoRow
    <3>1. ctr[c].status \in Proposal \cup {"APPROVED"}
      BY <2>4 DEF Finished, Proposal
    <3>2. CASE h = g
      <4>1. a = b
        BY <2>2, <2>4, <3>2
      <4>2. block'[b] # NoRow
        BY <2>4, <4>1 DEF On
      <4>3. i.till = NoRow
        BY <2>4, <4>2 DEF Finished, Proposal
      <4> QED
        BY <1>2, <3>2, <4>3
    <3>3. CASE h # g
      <4>1. leg'[h] = leg[h]
        BY <1>2, <3>3
      <4>2. On(block[a], h)
        BY <1>1, <2>4, <3>3 DEF On
      <4>3. CtrKept(c, ctr[c], leg, block)
        BY <1>0 DEF Kept, ContractsKept
      <4> QED
        BY <1>1, <2>4, <3>1, <4>1, <4>2, <4>3 DEF CtrKept
    <3> QED
      BY <3>2, <3>3
  <2> QED
    BY <2>1, <2>3, <2>4 DEF CtrKept
<1>5. Kept'
  <2>1. PICK C \in SUBSET Contracts : C = {c}
    OBVIOUS
  <2>2. /\ \A d \in Contracts \ C : ctr'[d] = ctr[d]
        /\ \A d \in C : ctr[d] # NoRow => ctr[d].status # "CANCELLED"
        /\ \A h \in Legs : leg'[h] # leg[h] => leg'[h].ctr \in C
        /\ \A d \in C : CtrKept(d, ctr'[d], leg', block')
    BY <1>2, <1>4, <2>1 DEF Finished
  <2>3. \A a \in Blocks : block'[a] # block[a] /\ block[a] # NoRow =>
            block[a].leg # NoRow /\ leg[block[a].leg].ctr \in C
    BY <1>1, <2>1
  <2>4. \A a \in Blocks : block'[a] # block[a] /\ block'[a] # NoRow =>
            /\ block'[a].kind = "CONTRACT"
            /\ block'[a].leg \in Legs /\ block'[a].leg # NoRow
            /\ leg'[block'[a].leg] # NoRow /\ leg'[block'[a].leg].ctr \in C
            /\ block'[a].resv # NoRow =>
                  /\ block[a] # NoRow
                  /\ block'[a].resv = block[a].resv /\ block'[a].leg = block[a].leg
    BY <1>1, <1>2, <2>1
  <2> QED
    BY <1>0, <1>3, <2>2, <2>3, <2>4, KeptByContracts
<1>6. FoundFresh'
  BY <1>0, DoneFindsNone
<1>7. \A v \in Vehicles : Ahead(v)' => Ahead(v)
  <2>1. now' \in Nat /\ now <= now'
    BY <1>0 DEF TypeOK
  <2>2. \A v \in Vehicles, a \in Blocks : /\ block'[a] # NoRow /\ block'[a].vehicle = v
                                          /\ block'[a].kind = "RESERVATION"
                                          => block'[a] = block[a]
    OBVIOUS
  <2> QED
    BY <1>0, <2>1, <2>2, AheadUndisturbed
<1> QED
  BY <1>5, <1>6, <1>7

LEMMA ContractHolds ==
    ASSUME OneAtATime, HoldInv, SerialInv', NEW c \in Contracts, NEW g, NEW b, NEW row, NEW i,
           Rewritten(c, g, b, row, i), Recompute({leg[g].car})
    PROVE  HoldInv'
<1>a. /\ (\E w \in Workers : Done(w)) /\ now' = now
      /\ InHand(c, g, b) /\ ctr[c].status \notin Finished
      /\ row \in CtrRows /\ row.resv = ctr[c].resv /\ ctr' = [ctr EXCEPT ![c] = row]
      /\ i \in LegRows /\ i.ctr = c /\ i.car = leg[g].car /\ leg' = [leg EXCEPT ![g] = i]
  BY DEF Rewritten
<1> USE <1>a
<1>0. IInv /\ IInv' /\ Told /\ Kept /\ CommercialFollowsAgenda /\ TypeOK
  BY DEF HoldInv, SerialInv, IInv
<1>1. /\ g \in Legs /\ leg[g] # NoRow /\ leg[g].ctr = c /\ leg[g].till = NoRow
      /\ b \in Blocks /\ block[b] # NoRow /\ block[b].leg = g
      /\ \A h \in Legs : OpenFor(leg[h], c) => h = g
      /\ \A a \in Blocks : On(block[a], g) => a = b
      /\ ctr[c] # NoRow /\ row # NoRow /\ i # NoRow /\ g # NoRow
  <2>1. ctr[c] # NoRow
    BY <1>0 DEF InHand, IInv, Links
  <2> QED
    BY <2>1, RowAssumption, NoRowAssumption DEF InHand
<1>2. /\ \A d \in Contracts : ctr'[d] = IF d = c THEN row ELSE ctr[d]
      /\ \A h \in Legs : leg'[h] = IF h = g THEN i ELSE leg[h]
  BY <1>0, <1>1 DEF TypeOK
<1>3. Growing
  BY <1>1, <1>2 DEF Growing, Rewritten
<1>4. Kept' /\ FoundFresh' /\ (\A v \in Vehicles : Ahead(v)' => Ahead(v))
  BY ContractKept
<1>5. ASSUME NEW v \in Vehicles \ {leg[g].car}
      PROVE  InUse(v)' <=> InUse(v)
  <2>1. PICK C \in SUBSET Contracts : C = {c}
    OBVIOUS
  <2>2. /\ \A d \in Contracts \ C : ctr'[d] = ctr[d]
        /\ \A h \in Legs : leg'[h] # leg[h] => leg'[h].ctr \in C
    BY <1>2, <2>1
  <2>3. \A d \in C, h \in Legs :
            ctr[d] # NoRow /\ ctr[d].status = "ACTIVE" /\ OpenFor(leg[h], d) => leg[h].car # v
    BY <1>1, <1>5, <2>1
  <2>4. \A d \in C, h \in Legs :
            ctr'[d] # NoRow /\ ctr'[d].status = "ACTIVE" /\ OpenFor(leg'[h], d) => leg'[h].car # v
    BY <1>1, <1>2, <1>5, <2>1 DEF OpenFor
  <2> QED
    BY <1>0, <1>3, <2>2, <2>3, <2>4, UseUndisturbed
<1>6. CommercialFollowsAgenda'
  BY <1>0, <1>4, <1>5, CommercialBy
<1> QED
  BY <1>4, <1>6 DEF HoldInv

\* A contract changes, and the car it has in use does not.
LEMMA AgreedHolds ==
    ASSUME HoldInv, SerialInv', NEW c \in Contracts, ctr[c] # NoRow,
           NEW row \in CtrRows, ctr' = [ctr EXCEPT ![c] = row],
           row.status = "ACTIVE" <=> ctr[c].status = "ACTIVE",
           UNCHANGED <<unit, leg>>,
           Kept', FoundFresh', \A v \in Vehicles : Ahead(v)' => Ahead(v)
    PROVE  HoldInv'
<1>0. IInv /\ IInv' /\ CommercialFollowsAgenda /\ TypeOK /\ row # NoRow
  BY RowAssumption DEF HoldInv, SerialInv, IInv
<1>1. \A d \in Contracts : /\ ctr'[d] # NoRow <=> ctr[d] # NoRow
                           /\ ctr'[d].status = "ACTIVE" <=> ctr[d].status = "ACTIVE"
  BY <1>0 DEF TypeOK
<1>2. \A v \in Vehicles : InUse(v)' <=> InUse(v)
  BY <1>1 DEF InUse, OpenFor
<1>3. CommercialFollowsAgenda'
  BY <1>0, <1>2, CommercialUndisturbed
<1> QED
  BY <1>3 DEF HoldInv

LEMMA AdvanceHolds ==
    ASSUME OneAtATime, HoldInv, SerialInv', NEW w \in Workers, NEW c \in Contracts,
           Submit(w, c) \/ Approve(w, c)
    PROVE  HoldInv'
<1>1. PICK to \in {"PENDING_APPROVAL", "APPROVED"} : Advance(w, c, Proposal, to)
  BY DEF Submit, Approve, Advance, Proposal
<1> DEFINE row == [ctr[c] EXCEPT !.status = to]
<1>2. Holding(w, c) /\ Done(w) /\ UNCHANGED <<now, unit, resv, leg, block>>
  BY <1>1 DEF Advance
<1>3. seen[w].row = ctr[c] /\ ctr[c] \in CtrRows
  BY <1>2, ContractInHand DEF HoldInv
<1>4. ctr[c].status \in Proposal
  BY <1>1, <1>3 DEF Advance
<1>5. /\ row \in CtrRows /\ row.status = to /\ row.to = ctr[c].to /\ row.resv = ctr[c].resv
      /\ ctr' = [ctr EXCEPT ![c] = row]
  BY <1>1, <1>3 DEF CtrRows, CtrStatuses, Proposal, Advance
<1> HIDE DEF row
<1>6. PICK g, b : InHand(c, g, b)
  BY <1>2, <1>4, CarInHand DEF Proposal, Finished
<1>7. /\ g \in Legs /\ leg[g] # NoRow /\ leg[g].ctr = c /\ leg[g].till = NoRow
      /\ block[b] # NoRow /\ block[b].leg = g /\ CarriedAs(block[b], leg[g], ctr[c])
  BY <1>6 DEF InHand
<1>8. /\ leg[g] \in LegRows /\ leg' = [leg EXCEPT ![g] = leg[g]]
      /\ CarriedAs(block'[b], leg[g], row) /\ block'[b].kind = "CONTRACT"
  BY <1>2, <1>5, <1>7 DEF HoldInv, SerialInv, IInv, TypeOK, RefTo, CarriedAs
<1>9. \A a \in Blocks \ {b} : block'[a] = block[a]
  BY <1>2
<1>10. /\ ctr[c].status \notin Finished /\ row.status \notin Finished
       /\ row.status # "ACTIVE" /\ ctr[c].status # "ACTIVE"
  BY <1>4, <1>5 DEF Proposal, Finished
<1>11. Rewritten(c, g, b, row, leg[g])
  BY <1>2, <1>4, <1>5, <1>6, <1>7, <1>8, <1>9, <1>10 DEF Rewritten
<1>12. Kept' /\ FoundFresh' /\ (\A v \in Vehicles : Ahead(v)' => Ahead(v))
  BY <1>11, ContractKept
<1> QED
  BY <1>2, <1>3, <1>5, <1>10, <1>12, RowAssumption, AgreedHolds

LEMMA ExtendHolds ==
    ASSUME OneAtATime, HoldInv, SerialInv', NEW w \in Workers, NEW c \in Contracts,
           NEW to \in 0 .. MaxEnd, Extend(w, c, to)
    PROVE  HoldInv'
<1> DEFINE row == [ctr[c] EXCEPT !.to = to]
           g   == seen[w].leg
           b   == seen[w].block
<1>2. Holding(w, c) /\ Done(w) /\ UNCHANGED <<now, unit, resv, leg>>
  BY DEF Extend
<1>3. seen[w].row = ctr[c] /\ ctr[c] \in CtrRows /\ to \in Nat
  BY <1>2, ContractInHand, TimeAssumption DEF HoldInv
<1>4. ctr[c].status \in {"APPROVED", "ACTIVE"} /\ ctr[c].status \notin Finished
  BY <1>3 DEF Extend, Finished
<1>5. /\ row \in CtrRows /\ row.status = ctr[c].status /\ row.to = to /\ row.resv = ctr[c].resv
      /\ ctr' = [ctr EXCEPT ![c] = row]
  BY <1>3 DEF CtrRows, Extend
<1>6. InHand(c, g, b)
  BY <1>2, <1>4, CarInHand
<1>7. /\ g \in Legs /\ leg[g] # NoRow /\ leg[g].ctr = c /\ leg[g].till = NoRow
      /\ b \in Blocks /\ block[b] # NoRow /\ block[b].leg = g
      /\ CarriedAs(block[b], leg[g], ctr[c])
  BY <1>6 DEF InHand
<1>8. block' = [block EXCEPT ![b] = Extended(block[b], to)]
  BY <1>7 DEF Extend, Live, Write
<1>9. leg[g] \in LegRows /\ block[b] \in BlockRows /\ block \in Table
      /\ leg' = [leg EXCEPT ![g] = leg[g]]
  BY <1>2, <1>7, RowTypes DEF HoldInv, SerialInv, IInv, TypeOK, Sound
<1>10. /\ block'[b] = Extended(block[b], to)
       /\ \A a \in Blocks \ {b} : block'[a] = block[a]
  BY <1>7, <1>8, <1>9 DEF Table
<1>11. Extended(block[b], to) \in BlockRows
  BY <1>3, <1>9, MovedRowType
<1>12. /\ block'[b] # NoRow /\ block'[b].kind = "CONTRACT" /\ block'[b].leg = g
       /\ block'[b].resv = block[b].resv /\ CarriedAs(block'[b], leg[g], row)
  BY <1>5, <1>7, <1>9, <1>10, <1>11, RowAssumption DEF Extended, CarriedAs, BlockRows
<1> HIDE DEF row, g, b
<1>13. Rewritten(c, g, b, row, leg[g])
  BY <1>2, <1>4, <1>5, <1>6, <1>7, <1>9, <1>10, <1>12 DEF Rewritten
<1>14. Kept' /\ FoundFresh' /\ (\A v \in Vehicles : Ahead(v)' => Ahead(v))
  BY <1>13, ContractKept
<1> QED
  BY <1>2, <1>3, <1>5, <1>14, RowAssumption, AgreedHolds

LEMMA ActivateHolds ==
    ASSUME OneAtATime, HoldInv, SerialInv', NEW w \in Workers, NEW c \in Contracts, Activate(w, c)
    PROVE  HoldInv'
<1> DEFINE row == [ctr[c] EXCEPT !.status = "ACTIVE"]
           g   == seen[w].leg
           b   == seen[w].block
           i   == [leg[g] EXCEPT !.from = now]
<1>2. /\ Holding(w, c) /\ Done(w) /\ UNCHANGED <<now, resv>> /\ Recompute({leg[g].car})
      /\ now \in Nat
  BY DEF Activate, HoldInv, SerialInv, IInv, TypeOK
<1>3. seen[w].row = ctr[c] /\ ctr[c] \in CtrRows
  BY <1>2, ContractInHand DEF HoldInv
<1>4. ctr[c].status = "APPROVED" /\ ctr[c].status \notin Finished
  BY <1>3 DEF Activate, Finished
<1>5. /\ row \in CtrRows /\ row.status = "ACTIVE" /\ row.to = ctr[c].to /\ row.resv = ctr[c].resv
      /\ ctr' = [ctr EXCEPT ![c] = row]
  BY <1>3 DEF CtrRows, CtrStatuses, Activate
<1>6. InHand(c, g, b)
  BY <1>2, <1>4, CarInHand
<1>7. /\ g \in Legs /\ leg[g] # NoRow /\ leg[g].ctr = c /\ leg[g].till = NoRow
      /\ b \in Blocks /\ block[b] # NoRow /\ block[b].leg = g
      /\ CarriedAs(block[b], leg[g], ctr[c])
  BY <1>6 DEF InHand
<1>8. leg[g] \in LegRows /\ block[b] \in BlockRows /\ block \in Table
  BY <1>7, RowTypes DEF HoldInv, SerialInv, IInv, Sound
<1>9. /\ i \in LegRows /\ i.ctr = c /\ i.car = leg[g].car /\ i.till = NoRow /\ i.from = now
      /\ leg' = [leg EXCEPT ![g] = i]
  BY <1>2, <1>7, <1>8 DEF LegRows, Activate
<1>10. /\ \A a \in Blocks \ {b} : block'[a] = block[a]
       /\ block'[b] # NoRow /\ block'[b].kind = "CONTRACT" /\ block'[b].leg = g
       /\ block'[b].resv = block[b].resv /\ CarriedAs(block'[b], i, row)
  <2>1. CASE now < block[b].from
    <3> DEFINE moved == [block[b] EXCEPT !.from = now]
    <3>1. block' = [block EXCEPT ![b] = moved]
      BY <1>7, <2>1 DEF Activate, Live, Write
    <3>2. /\ moved \in BlockRows /\ moved.kind = block[b].kind /\ moved.leg = block[b].leg
          /\ moved.resv = block[b].resv /\ moved.vehicle = block[b].vehicle
          /\ moved.to = block[b].to /\ moved.from = now
      BY <1>2, <1>8 DEF BlockRows
    <3> HIDE DEF moved, b, g, i, row
    <3>3. block'[b] = moved /\ \A a \in Blocks \ {b} : block'[a] = block[a]
      BY <1>7, <1>8, <3>1 DEF Table
    <3> QED
      BY <1>2, <1>5, <1>7, <1>9, <3>2, <3>3, RowAssumption DEF CarriedAs
  <2>2. CASE ~(now < block[b].from)
    <3>1. block' = block
      BY <2>2 DEF Activate
    <3>2. block[b].from <= now
      BY <1>2, <1>8, <2>2 DEF BlockRows
    <3> HIDE DEF b, g, i, row
    <3> QED
      BY <1>5, <1>7, <1>9, <3>1, <3>2 DEF CarriedAs
  <2> QED
    BY <2>1, <2>2
<1> HIDE DEF row, g, b, i
<1>11. row.status \notin Finished /\ row.status \notin Proposal \cup {"APPROVED"}
  BY <1>5 DEF Finished, Proposal
<1>12. Rewritten(c, g, b, row, i)
  BY <1>2, <1>4, <1>5, <1>6, <1>9, <1>10, <1>11 DEF Rewritten
<1> QED
  BY <1>2, <1>12, ContractHolds

LEMMA FinishHolds ==
    ASSUME OneAtATime, HoldInv, SerialInv', NEW w \in Workers, NEW c \in Contracts,
           NEW status \in {"CLOSED", "TERMINATED"}, NEW at \in 0 .. MaxTime,
           Finish(w, c, status, at)
    PROVE  HoldInv'
<1> DEFINE row  == [ctr[c] EXCEPT !.status = status]
           g    == seen[w].leg
           b    == seen[w].block
           stop == Later(seen[w].since, at)
           i    == [leg[g] EXCEPT !.till = stop]
<1>2. /\ Holding(w, c) /\ Done(w) /\ UNCHANGED <<now, resv>> /\ Recompute({leg[g].car})
      /\ at \in Nat
  BY TimeAssumption DEF Finish
<1>3. seen[w].row = ctr[c] /\ ctr[c] \in CtrRows
  BY <1>2, ContractInHand DEF HoldInv
<1>4. ctr[c].status = "ACTIVE" /\ ctr[c].status \notin Finished
  BY <1>3 DEF Finish, InForce, Finished
<1>5. /\ row \in CtrRows /\ row.status = status /\ row.resv = ctr[c].resv
      /\ ctr' = [ctr EXCEPT ![c] = row]
  BY <1>3 DEF CtrRows, CtrStatuses, Finished, Finish
<1>6. InHand(c, g, b) /\ seen[w].since = leg[g].from
  BY <1>2, <1>4, CarInHand
<1>7. /\ g \in Legs /\ leg[g] # NoRow /\ leg[g].ctr = c
      /\ b \in Blocks /\ block[b] # NoRow /\ block[b].leg = g
      /\ CarriedAs(block[b], leg[g], ctr[c])
      /\ \A a \in Blocks : On(block[a], g) => a = b
  BY <1>6 DEF InHand
<1>8. leg[g] \in LegRows /\ block[b] \in BlockRows /\ block \in Table
  BY <1>7, RowTypes DEF HoldInv, SerialInv, IInv, Sound
<1>9. stop \in Nat
  BY <1>2, <1>6, <1>8 DEF Later, LegRows
<1>10. /\ i \in LegRows /\ i.ctr = c /\ i.car = leg[g].car /\ i.till # NoRow
       /\ leg' = [leg EXCEPT ![g] = i]
  <2>1. leg' = [leg EXCEPT ![g].till = stop]
    BY DEF Finish
  <2> HIDE DEF stop, g
  <2> QED
    BY <1>7, <1>8, <1>9, <2>1, NoRowAssumption DEF LegRows, RefTo
<1>11. LegBlocks(g) = {b}
  BY <1>7, NoRowAssumption DEF LegBlocks, On
<1>12. /\ \A a \in Blocks \ {b} : block'[a] = block[a]
       /\ block'[b].kind = "CONTRACT" /\ block'[b].leg = g /\ block'[b].resv = block[b].resv
  <2>1. \/ block' = block
        \/ block' = [block EXCEPT ![b] = Truncated(block[b], at)]
        \/ block' = [block EXCEPT ![b] = Extended(block[b], at)]
    BY <1>11 DEF Finish, First, Write
  <2> HIDE DEF b, g
  <2>2. \/ block'[b] = block[b]
        \/ block'[b] = Truncated(block[b], at)
        \/ block'[b] = Extended(block[b], at)
    BY <1>7, <1>8, <2>1 DEF Table
  <2> QED
    BY <1>7, <1>8, <2>1, <2>2 DEF Table, Truncated, Extended, CarriedAs, BlockRows
<1> HIDE DEF row, g, b, i, stop
<1>13. row.status \in Finished /\ row.status # "CANCELLED"
  BY <1>5 DEF Finished
<1>14. Rewritten(c, g, b, row, i)
  BY <1>2, <1>4, <1>5, <1>6, <1>10, <1>12, <1>13 DEF Rewritten
<1> QED
  BY <1>2, <1>14, ContractHolds

\* A contract that is cancelled takes with it the block of its reservation.
LEMMA CancelContractHolds ==
    ASSUME OneAtATime, HoldInv, SerialInv', NEW w \in Workers, NEW c \in Contracts,
           CancelContract(w, c)
    PROVE  HoldInv'
<1> DEFINE row  == [ctr[c] EXCEPT !.status = "CANCELLED"]
           g    == seen[w].leg
           b    == seen[w].block
           r    == ctr[c].resv
           stop == Later(seen[w].since, now)
           i    == [leg[g] EXCEPT !.till = stop]
<1>0. IInv /\ TypeOK /\ Told /\ Kept
  BY DEF HoldInv, SerialInv, IInv
<1>1. Holding(w, c) /\ Done(w) /\ now' = now /\ now \in Nat
  BY <1>0 DEF CancelContract, TypeOK
<1>3. seen[w].row = ctr[c] /\ ctr[c] \in CtrRows /\ ctr[c] # NoRow
  BY <1>1, ContractInHand DEF HoldInv
<1>4. ctr[c].status \in Proposal \cup {"APPROVED"} /\ ctr[c].status \notin Finished
  BY <1>3 DEF CancelContract, Proposal, Finished
<1>5. /\ row \in CtrRows /\ row.status = "CANCELLED" /\ row.resv = r
      /\ ctr' = [ctr EXCEPT ![c] = row]
  BY <1>3 DEF CtrRows, CtrStatuses, Finished, CancelContract
<1>6. InHand(c, g, b) /\ seen[w].since = leg[g].from
  BY <1>1, <1>4, CarInHand
<1>7. /\ g \in Legs /\ leg[g] # NoRow /\ leg[g].ctr = c /\ g # NoRow
      /\ b \in Blocks /\ block[b] # NoRow /\ block[b].leg = g
      /\ \A h \in Legs : OpenFor(leg[h], c) => h = g
      /\ \A a \in Blocks : On(block[a], g) => a = b
  BY <1>6, NoRowAssumption DEF InHand
<1>8. leg[g] \in LegRows /\ block \in Table
  BY <1>0, <1>7, RowTypes DEF IInv, Sound
<1>9. stop \in Nat
  BY <1>1, <1>6, <1>8 DEF Later, LegRows
<1>10. /\ i \in LegRows /\ i.ctr = c /\ i.car = leg[g].car /\ i.till # NoRow
       /\ leg' = [leg EXCEPT ![g] = i]
  <2>1. leg' = [leg EXCEPT ![g].till = stop]
    BY <1>7 DEF CancelContract
  <2> HIDE DEF stop, g
  <2> QED
    BY <1>7, <1>8, <1>9, <2>1, NoRowAssumption DEF LegRows, RefTo
<1>11. \A a \in Blocks : block'[a] = IF a = b THEN NoRow ELSE block[a]
  BY <1>7, <1>8 DEF CancelContract, Release, Table
<1>12. Recompute({leg[g].car})
  BY <1>7 DEF CancelContract
<1>13. resv' = IF r = NoRow THEN resv ELSE [resv EXCEPT ![r].status = "CANCELLED"]
  BY <1>3 DEF CancelContract
<1> HIDE DEF row, g, b, i, stop, r
<1>14. r # NoRow => r \in Reservations /\ resv[r] # NoRow /\ resv[r] \in ResvRows
  BY <1>0, <1>3 DEF IInv, Links, TypeOK, RefTo, CtrRows, r
<1>15. \A q \in Reservations : q # r => resv'[q] = resv[q]
  BY <1>0, <1>13 DEF TypeOK
<1>16. r # NoRow => resv'[r] \in ResvRows /\ resv'[r] # NoRow /\ resv'[r].status = "CANCELLED"
  <2> SUFFICES ASSUME r # NoRow
               PROVE  resv'[r] \in ResvRows /\ resv'[r] # NoRow /\ resv'[r].status = "CANCELLED"
    OBVIOUS
  <2>1. resv'[r] = [resv[r] EXCEPT !.status = "CANCELLED"]
    BY <1>0, <1>13, <1>14 DEF TypeOK
  <2> QED
    BY <1>14, <2>1, RowAssumption DEF ResvRows, ResvStatuses
<1>17. ASSUME r # NoRow, NEW a \in Blocks, From(block'[a], r)
       PROVE  FALSE
  <2>1. From(block[a], r) /\ a # b
    BY <1>11, <1>17 DEF From
  <2>2. Referred(block[a], resv, ctr, leg) /\ ResvKept(r, resv[r], block)
    BY <1>0, <1>14, <1>17, <2>1 DEF Kept, BlocksKept, ReservationsKept, From
  <2>3. StandsFor(r)
    BY <1>3, <1>4, <1>17 DEF StandsFor, Finished, r
  <2>4. resv[r].status = "CHECKED_OUT"
    BY <1>0, <1>14, <1>17, <2>3, CheckedOutEach DEF Told
  <2>5. block[a].leg # NoRow
    BY <1>14, <1>17, <2>1, <2>2, <2>4 DEF ResvKept
  <2>6. PICK h \in Legs : h = block[a].leg
    BY <1>0, <2>1, <2>5, RowTypes DEF From, RefTo
  <2>7. leg[h] # NoRow /\ leg[h].ctr \in Contracts /\ ctr[leg[h].ctr].resv = r
    BY <1>0, <1>17, <2>1, <2>2, <2>5, <2>6, RowTypes DEF Referred, From
  <2>8. ctr[leg[h].ctr] # NoRow
    BY <1>0, <2>6, <2>7 DEF IInv, Links
  <2>9. leg[h].ctr = c
    BY <1>0, <1>3, <1>17, <2>7, <2>8 DEF Told, OneContractEach, r
  <2>10. leg[h].till = NoRow
    <3>1. CtrKept(c, ctr[c], leg, block) /\ On(block[a], h)
      BY <1>0, <2>1, <2>6 DEF Kept, ContractsKept, From, On
    <3> QED
      BY <1>3, <1>4, <2>7, <2>9, <3>1 DEF CtrKept
  <2>11. h = g
    BY <1>7, <2>7, <2>9, <2>10 DEF OpenFor
  <2> QED
    BY <1>7, <2>1, <2>6, <2>11 DEF On, From
<1>18. \A q \in Reservations :
           /\ resv[q] # NoRow => resv'[q] # NoRow
           /\ resv'[q] = resv[q] \/ ResvKept(q, resv'[q], block')
  <2> SUFFICES ASSUME NEW q \in Reservations
               PROVE  /\ resv[q] # NoRow => resv'[q] # NoRow
                      /\ resv'[q] = resv[q] \/ ResvKept(q, resv'[q], block')
    OBVIOUS
  <2>1. CASE q # r
    BY <1>15, <2>1
  <2>2. CASE q = r
    <3>1. r # NoRow
      BY <2>2, NoRowAssumption
    <3>2. ResvKept(r, resv'[r], block')
      BY <1>16, <1>17, <3>1 DEF ResvKept
    <3> QED
      BY <1>16, <2>2, <3>1, <3>2
  <2> QED
    BY <2>1, <2>2
<1>19. block'[b] = NoRow /\ \A a \in Blocks \ {b} : block'[a] = block[a]
  BY <1>7, <1>11
<1>20. row.status \in Finished /\ row.resv = ctr[c].resv
  BY <1>5 DEF Finished, r
<1>21. Rewritten(c, g, b, row, i)
  BY <1>1, <1>4, <1>5, <1>6, <1>10, <1>18, <1>19, <1>20 DEF Rewritten
<1> QED
  BY <1>12, <1>21, ContractHolds

-----------------------------------------------------------------------------
(* A car takes the place of another *)

\* Contract c passes from interval g to a new one, of car v, with a new block n.
Swapped(c, g, b, n, v, at, from) ==
    /\ UNCHANGED <<now, resv, ctr>> /\ \E w \in Workers : Done(w)
    /\ InHand(c, g, b) /\ ctr[c].status \notin Finished
    /\ SpareLegs # {} /\ v \in Vehicles /\ at \in Nat /\ from \in Nat
    /\ leg' = [leg EXCEPT ![g].till = at, ![NewLeg] = OpenLeg(c, v, from)]
    /\ n \in Blocks /\ block[n] = NoRow
    /\ block'[n] = NewRow(v, "CONTRACT", from, ctr[c].to, NoRow, NewLeg)
    /\ \A a \in Blocks \ {b, n} : block'[a] = block[a]
    /\ block'[b] # NoRow =>
          /\ ctr[c].status = "ACTIVE"
          /\ block'[b].kind = "CONTRACT" /\ block'[b].leg = g /\ block'[b].resv = block[b].resv
    /\ Recompute({leg[g].car, v})

LEMMA SwappedHolds ==
    ASSUME OneAtATime, HoldInv, SerialInv', NEW c \in Contracts, NEW g, NEW b, NEW n, NEW v,
           NEW at, NEW from, Swapped(c, g, b, n, v, at, from)
    PROVE  HoldInv'
<1> DEFINE closed == [leg[g] EXCEPT !.till = at]
           opened == OpenLeg(c, v, from)
           k      == NewLeg
<1>0. IInv /\ IInv' /\ Told /\ Kept /\ CommercialFollowsAgenda /\ TypeOK
  BY DEF HoldInv, SerialInv, IInv
<1>1. /\ UNCHANGED <<now, resv, ctr>> /\ InHand(c, g, b) /\ ctr[c].status \notin Finished
      /\ v \in Vehicles /\ at \in Nat /\ from \in Nat
      /\ n \in Blocks /\ block[n] = NoRow
      /\ block'[n] = NewRow(v, "CONTRACT", from, ctr[c].to, NoRow, k)
      /\ \A a \in Blocks \ {b, n} : block'[a] = block[a]
  BY DEF Swapped
<1>2. block'[b] # NoRow =>
          /\ ctr[c].status = "ACTIVE"
          /\ block'[b].kind = "CONTRACT" /\ block'[b].leg = g /\ block'[b].resv = block[b].resv
  BY DEF Swapped
<1>3. /\ g \in Legs /\ leg[g] # NoRow /\ leg[g].ctr = c /\ leg[g].till = NoRow
      /\ b \in Blocks /\ block[b] # NoRow /\ block[b].leg = g /\ b # n
      /\ \A h \in Legs : OpenFor(leg[h], c) => h = g
      /\ \A a \in Blocks : On(block[a], g) => a = b
      /\ leg[g] \in LegRows /\ ctr[c] # NoRow
  <2>1. ctr[c] # NoRow /\ leg[g] \in LegRows
    BY <1>0, <1>1, RowTypes DEF InHand, IInv, Links
  <2> QED
    BY <1>1, <2>1 DEF InHand
<1>4. k \in Legs /\ leg[k] = NoRow /\ k # g /\ k # NoRow
  BY <1>3, NoRowAssumption DEF Swapped, SpareLegs, NewLeg
<1>5. /\ closed.ctr = c /\ closed.till # NoRow /\ closed \in LegRows
      /\ opened.ctr = c /\ opened.till = NoRow /\ opened.car = v /\ opened.from = from
      /\ opened \in LegRows /\ opened # NoRow
  BY <1>1, <1>3, NoRowAssumption, RowAssumption DEF LegRows, RefTo, OpenLeg
<1>6. \A h \in Legs : leg'[h] = IF h = k THEN opened ELSE IF h = g THEN closed ELSE leg[h]
  BY <1>0, <1>3, <1>4 DEF TypeOK, Swapped
<1>7. \A a \in Blocks : ~On(block[a], k)
  <2> SUFFICES ASSUME NEW a \in Blocks, On(block[a], k) PROVE FALSE
    OBVIOUS
  <2>1. Referred(block[a], resv, ctr, leg)
    BY <1>0 DEF Kept, BlocksKept, On
  <2> QED
    BY <1>4, <2>1 DEF Referred, On
<1>8. /\ block'[n] # NoRow /\ block'[n].kind = "CONTRACT" /\ block'[n].vehicle = v
      /\ block'[n].from = from /\ block'[n].to = ctr[c].to
      /\ block'[n].resv = NoRow /\ block'[n].leg = k
  <2>1. ctr[c].to \in Nat
    BY <1>0, <1>3, RowTypes DEF CtrRows
  <2>2. NewRow(v, "CONTRACT", from, ctr[c].to, NoRow, k) \in BlockRows
    BY <1>1, <1>4, <2>1, NewRowType DEF RefTo
  <2> QED
    BY <1>1, <2>2, RowAssumption, NewRowReads
<1> HIDE DEF closed, opened, k
<1>9. closed # NoRow
  BY <1>5, RowAssumption
<1>10. Growing
  BY <1>1, <1>3, <1>4, <1>5, <1>6, <1>9 DEF Growing
<1>11. CtrKept(c, ctr[c], leg', block')
  <2>1. OpenFor(leg'[k], c) /\ \A h \in Legs : OpenFor(leg'[h], c) => h = k
    BY <1>3, <1>4, <1>5, <1>6 DEF OpenFor
  <2>2. On(block'[n], k) /\ \A a \in Blocks : On(block'[a], k) => a = n
    BY <1>1, <1>2, <1>3, <1>4, <1>7, <1>8 DEF On
  <2>3. CarriedAs(block'[n], leg'[k], ctr[c])
    BY <1>1, <1>4, <1>5, <1>6, <1>8 DEF CarriedAs
  <2>4. ASSUME ctr[c].status \in Proposal \cup {"APPROVED", "CANCELLED"},
               NEW h \in Legs, NEW a \in Blocks, On(block'[a], h), leg'[h] # NoRow, leg'[h].ctr = c
        PROVE  leg'[h].till = NoRow
    <3>1. CASE h = k
      BY <1>5, <1>6, <3>1
    <3>2. CASE h = g
      <4>1. block'[b] = NoRow
        BY <1>2, <2>4 DEF Proposal
      <4>2. \A x \in Blocks : ~On(block'[x], g)
        BY <1>1, <1>3, <1>4, <1>8, <4>1 DEF On
      <4> QED
        BY <2>4, <3>2, <4>2
    <3>3. CASE h # k /\ h # g
      <4>1. leg'[h] = leg[h]
        BY <1>6, <3>3
      <4>2. On(block[a], h)
        BY <1>1, <1>2, <1>3, <1>8, <2>4, <3>3 DEF On
      <4>3. CtrKept(c, ctr[c], leg, block)
        BY <1>0 DEF Kept, ContractsKept
      <4> QED
        BY <1>3, <2>4, <4>1, <4>2, <4>3 DEF CtrKept
    <3> QED
      BY <3>1, <3>2, <3>3
  <2> QED
    BY <1>1, <1>4, <2>1, <2>2, <2>3, <2>4 DEF CtrKept
<1>12. PICK C \in SUBSET Contracts : C = {c}
  OBVIOUS
<1>13. \A h \in Legs : leg'[h] # leg[h] => leg'[h].ctr \in C
  BY <1>5, <1>6, <1>12
<1>14. Kept'
  <2>1. /\ \A d \in Contracts \ C : ctr'[d] = ctr[d]
        /\ \A d \in C : ctr[d] # NoRow => ctr[d].status # "CANCELLED"
        /\ \A d \in C : CtrKept(d, ctr'[d], leg', block')
        /\ \A q \in Reservations : resv'[q] = resv[q]
    BY <1>1, <1>11, <1>12 DEF Finished
  <2>2. \A a \in Blocks : block'[a] # block[a] /\ block[a] # NoRow =>
            block[a].leg # NoRow /\ leg[block[a].leg].ctr \in C
    BY <1>1, <1>3, <1>12, NoRowAssumption
  <2>3. \A a \in Blocks : block'[a] # block[a] /\ block'[a] # NoRow =>
            /\ block'[a].kind = "CONTRACT"
            /\ block'[a].leg \in Legs /\ block'[a].leg # NoRow
            /\ leg'[block'[a].leg] # NoRow /\ leg'[block'[a].leg].ctr \in C
            /\ block'[a].resv # NoRow =>
                  /\ block[a] # NoRow
                  /\ block'[a].resv = block[a].resv /\ block'[a].leg = block[a].leg
    BY <1>1, <1>2, <1>3, <1>4, <1>5, <1>6, <1>8, <1>9, <1>12, NoRowAssumption
  <2> QED
    BY <1>0, <1>10, <1>13, <2>1, <2>2, <2>3, KeptByContracts
<1>15. FoundFresh'
  BY <1>0, DoneFindsNone DEF Swapped
<1>16. ASSUME NEW x \in Vehicles \ {leg[g].car, v}
       PROVE  (InUse(x)' <=> InUse(x)) /\ (Ahead(x)' => Ahead(x))
  <2>1. now' \in Nat /\ now <= now'
    BY <1>0, <1>1 DEF TypeOK
  <2>2. \A a \in Blocks : /\ block'[a] # NoRow /\ block'[a].vehicle = x
                          /\ block'[a].kind = "RESERVATION"
                          => block'[a] = block[a]
    BY <1>1, <1>2, <1>8
  <2>3. Ahead(x)' => Ahead(x)
    BY <1>0, <2>1, <2>2, AheadUndisturbed
  <2>4. /\ \A d \in Contracts \ C : ctr'[d] = ctr[d]
        /\ \A d \in C, h \in Legs :
              ctr[d] # NoRow /\ ctr[d].status = "ACTIVE" /\ OpenFor(leg[h], d) => leg[h].car # x
    BY <1>1, <1>3, <1>12, <1>16
  <2>5. \A d \in C, h \in Legs :
            ctr'[d] # NoRow /\ ctr'[d].status = "ACTIVE" /\ OpenFor(leg'[h], d) => leg'[h].car # x
    BY <1>3, <1>5, <1>6, <1>12, <1>16 DEF OpenFor
  <2>6. InUse(x)' <=> InUse(x)
    BY <1>0, <1>10, <1>13, <2>4, <2>5, UseUndisturbed
  <2> QED
    BY <2>3, <2>6
<1>17. PICK S : S = {leg[g].car, v}
  OBVIOUS
<1>18. Recompute(S)
  BY <1>17 DEF Swapped
<1>19. CommercialFollowsAgenda'
  BY <1>0, <1>16, <1>17, <1>18, CommercialBy
<1> QED
  BY <1>14, <1>15, <1>19 DEF HoldInv

\* Another car, and in force it is taken after the one it replaces.
Elsewhere(c, g, v, from) ==
    leg[g].car # v /\ (ctr[c].status = "ACTIVE" => leg[g].from <= from)

LEMMA SwapProposedSwaps ==
    ASSUME HoldInv, NEW w \in Workers, NEW c \in Contracts, NEW v \in Vehicles,
           SwapProposed(w, c, v)
    PROVE  \E g, b, n, at, from : Swapped(c, g, b, n, v, at, from) /\ Elsewhere(c, g, v, from)
<1> DEFINE g    == seen[w].leg
           b    == seen[w].block
           at   == seen[w].since
           from == ctr[c].from
           t    == Release(block, b)
<1>1. Holding(w, c) /\ Done(w) /\ UNCHANGED <<now, resv, ctr>>
  BY DEF SwapProposed
<1>2. seen[w].row = ctr[c] /\ ctr[c] \in CtrRows /\ ctr[c].to \in Nat /\ from \in Nat
  BY <1>1, ContractInHand DEF HoldInv, CtrRows
<1>3. ctr[c].status \notin Finished
  BY <1>2 DEF SwapProposed
<1>4. InHand(c, g, b) /\ at = leg[g].from
  BY <1>1, <1>3, CarInHand
<1>5. g \in Legs /\ leg[g] \in LegRows /\ b \in Blocks /\ block[b] # NoRow /\ block \in Table
  BY <1>4, RowTypes DEF InHand, HoldInv, SerialInv, IInv, Sound
<1>6. at \in Nat
  BY <1>4, <1>5 DEF LegRows
<1>7. SpareLegs # {} /\ leg' = [leg EXCEPT ![g].till = at, ![NewLeg] = OpenLeg(c, v, from)]
  BY <1>2 DEF SwapProposed
<1>8. Allocate(t, v, "CONTRACT", from, ctr[c].to, NoRow, NewLeg) /\ Recompute({leg[g].car, v})
  BY <1>2 DEF SwapProposed
<1>9. t \in Table
  BY <1>5 DEF Release, Table, RefTo
<1>10. \A a \in Blocks : t[a] = IF a = b THEN NoRow ELSE block[a]
  BY <1>5 DEF Table, Release
<1> HIDE DEF g, b, at, from, t
<1>11. PICK n \in Blocks :
           /\ block[n] = NoRow
           /\ \A a \in Blocks : block'[a] = IF a = n
                  THEN NewRow(v, "CONTRACT", from, ctr[c].to, NoRow, NewLeg) ELSE t[a]
  BY <1>8, <1>9, Allocated
<1>12. n # b /\ block'[b] = NoRow /\ \A a \in Blocks \ {b, n} : block'[a] = block[a]
  BY <1>5, <1>10, <1>11
<1>13. block'[n] = NewRow(v, "CONTRACT", from, ctr[c].to, NoRow, NewLeg)
  BY <1>11
<1>14. Swapped(c, g, b, n, v, at, from)
  BY <1>1, <1>2, <1>3, <1>4, <1>6, <1>7, <1>8, <1>11, <1>12, <1>13 DEF Swapped
<1>15. Elsewhere(c, g, v, from)
  BY <1>2 DEF SwapProposed, Elsewhere, g
<1> QED
  BY <1>14, <1>15

LEMMA SwapProposedHolds ==
    ASSUME OneAtATime, HoldInv, SerialInv', NEW w \in Workers, NEW c \in Contracts,
           NEW v \in Vehicles, SwapProposed(w, c, v)
    PROVE  HoldInv'
<1> QED
  BY SwapProposedSwaps, SwappedHolds

LEMMA SwapInForceSwaps ==
    ASSUME HoldInv, NEW w \in Workers, NEW c \in Contracts, NEW v \in Vehicles,
           SwapInForce(w, c, v)
    PROVE  \E g, b, n, at, from : Swapped(c, g, b, n, v, at, from) /\ Elsewhere(c, g, v, from)
<1> DEFINE g   == seen[w].leg
           b   == seen[w].block
           cut == Truncated(block[b], now)
           t   == Write(block, b, cut)
<1>1. Holding(w, c) /\ Done(w) /\ UNCHANGED <<now, resv, ctr>> /\ now \in Nat
  BY DEF SwapInForce, HoldInv, SerialInv, IInv, TypeOK
<1>2. seen[w].row = ctr[c] /\ ctr[c] \in CtrRows /\ ctr[c].to \in Nat
  BY <1>1, ContractInHand DEF HoldInv, CtrRows
<1>3. ctr[c].status = "ACTIVE" /\ ctr[c].status \notin Finished
  BY <1>2 DEF SwapInForce, InForce, Finished
<1>4. InHand(c, g, b)
  BY <1>1, <1>3, CarInHand
<1>5. /\ b \in Blocks /\ block[b] # NoRow /\ block \in Table /\ block[b] \in BlockRows
      /\ block[b].kind = "CONTRACT" /\ block[b].leg = g
  BY <1>4, RowTypes DEF InHand, CarriedAs, HoldInv, SerialInv, IInv, Sound
<1>6. SpareLegs # {} /\ leg' = [leg EXCEPT ![g].till = now, ![NewLeg] = OpenLeg(c, v, now)]
  BY DEF SwapInForce
<1>7. Allocate(t, v, "CONTRACT", now, ctr[c].to, NoRow, NewLeg) /\ Recompute({leg[g].car, v})
  BY <1>2, <1>5 DEF SwapInForce, Live
<1>8. /\ cut \in BlockRows /\ cut.kind = block[b].kind /\ cut.leg = block[b].leg
      /\ cut.resv = block[b].resv
  BY <1>1, <1>5, MovedRowType DEF Truncated, BlockRows
<1> HIDE DEF cut
<1>9. t \in Table
  BY <1>5, <1>8 DEF Write, Table, RefTo
<1>10. \A a \in Blocks : t[a] = IF a = b THEN cut ELSE block[a]
  BY <1>5 DEF Table, Write
<1> HIDE DEF g, b, t
<1>11. PICK n \in Blocks :
           /\ block[n] = NoRow
           /\ \A a \in Blocks : block'[a] = IF a = n
                  THEN NewRow(v, "CONTRACT", now, ctr[c].to, NoRow, NewLeg) ELSE t[a]
  BY <1>7, <1>9, Allocated
<1>12. n # b /\ block'[b] = cut /\ \A a \in Blocks \ {b, n} : block'[a] = block[a]
  BY <1>5, <1>10, <1>11
<1>13. block'[n] = NewRow(v, "CONTRACT", now, ctr[c].to, NoRow, NewLeg)
  BY <1>11
<1>14. Swapped(c, g, b, n, v, now, now)
  BY <1>1, <1>2, <1>3, <1>4, <1>5, <1>6, <1>7, <1>8, <1>11, <1>12, <1>13 DEF Swapped
<1>15. Elsewhere(c, g, v, now)
  BY DEF SwapInForce, Elsewhere, g
<1> QED
  BY <1>14, <1>15

LEMMA SwapInForceHolds ==
    ASSUME OneAtATime, HoldInv, SerialInv', NEW w \in Workers, NEW c \in Contracts,
           NEW v \in Vehicles, SwapInForce(w, c, v)
    PROVE  HoldInv'
<1> QED
  BY SwapInForceSwaps, SwappedHolds

-----------------------------------------------------------------------------
(* A contract begins *)

\* Contract d is new, with an interval of car v and block n.  Of the others only
\* those of C may have a block of theirs written.
Begun(d, row, v, from, n, C) ==
    /\ UNCHANGED <<now, unit, resv>>
    /\ d \in Contracts /\ ctr[d] = NoRow /\ row \in CtrRows
    /\ row.status = "DRAFT" /\ row.resv = NoRow
    /\ ctr' = [ctr EXCEPT ![d] = row]
    /\ SpareLegs # {} /\ v \in Vehicles /\ from \in Nat
    /\ leg' = [leg EXCEPT ![NewLeg] = OpenLeg(d, v, from)]
    /\ n \in Blocks /\ block[n] = NoRow
    /\ block'[n] = NewRow(v, "CONTRACT", from, row.to, NoRow, NewLeg)
    /\ C \subseteq Contracts /\ d \in C
    /\ \A e \in C \ {d} : ctr[e].status # "CANCELLED"
    /\ \A a \in Blocks \ {n} : block'[a] # block[a] =>
          /\ block[a] # NoRow /\ block[a].leg \in Legs /\ leg[block[a].leg].ctr \in C
          /\ block'[a] # NoRow /\ block'[a].kind = "CONTRACT"
          /\ block'[a].resv = block[a].resv /\ block'[a].leg = block[a].leg

LEMMA NewLegFree ==
    ASSUME IInv, BlocksKept, SpareLegs # {}
    PROVE  /\ NewLeg \in Legs /\ leg[NewLeg] = NoRow /\ NewLeg # NoRow
           /\ \A a \in Blocks : ~On(block[a], NewLeg)
<1>1. NewLeg \in Legs /\ leg[NewLeg] = NoRow /\ NewLeg # NoRow
  BY NoRowAssumption DEF SpareLegs, NewLeg
<1> SUFFICES ASSUME NEW a \in Blocks, On(block[a], NewLeg) PROVE FALSE
  BY <1>1
<1>2. Referred(block[a], resv, ctr, leg)
  BY DEF BlocksKept, On
<1> QED
  BY <1>1, <1>2 DEF Referred, On

LEMMA BegunHolds ==
    ASSUME HoldInv, SerialInv', NEW d, NEW row, NEW v, NEW from, NEW n, NEW C,
           Begun(d, row, v, from, n, C),
           \A e \in C \ {d} : CtrKept(e, ctr[e], leg', block')
    PROVE  Kept' /\ CommercialFollowsAgenda'
<1> DEFINE opened == OpenLeg(d, v, from)
           k      == NewLeg
<1>0. IInv /\ IInv' /\ Told /\ Kept /\ CommercialFollowsAgenda /\ TypeOK
  BY DEF HoldInv, SerialInv, IInv
<1>1. /\ UNCHANGED <<now, unit, resv>> /\ d \in Contracts /\ ctr[d] = NoRow
      /\ row \in CtrRows /\ row # NoRow /\ row.status = "DRAFT" /\ row.resv = NoRow
      /\ v \in Vehicles /\ from \in Nat /\ n \in Blocks /\ block[n] = NoRow
      /\ block'[n] = NewRow(v, "CONTRACT", from, row.to, NoRow, k)
      /\ C \in SUBSET Contracts /\ d \in C
  BY RowAssumption DEF Begun
<1>2. \A a \in Blocks \ {n} : block'[a] # block[a] =>
          /\ block[a] # NoRow /\ block[a].leg \in Legs /\ leg[block[a].leg].ctr \in C
          /\ block'[a] # NoRow /\ block'[a].kind = "CONTRACT"
          /\ block'[a].resv = block[a].resv /\ block'[a].leg = block[a].leg
  BY DEF Begun
<1>3. /\ k \in Legs /\ leg[k] = NoRow /\ k # NoRow /\ \A a \in Blocks : ~On(block[a], k)
  BY <1>0, NewLegFree DEF Begun, Kept
<1>4. /\ opened.ctr = d /\ opened.till = NoRow /\ opened.car = v /\ opened.from = from
      /\ opened # NoRow
  <2>1. opened \in LegRows
    BY <1>1 DEF LegRows, RefTo, OpenLeg
  <2> QED
    BY <2>1, RowAssumption DEF OpenLeg
<1>5. /\ \A e \in Contracts : ctr'[e] = IF e = d THEN row ELSE ctr[e]
      /\ \A h \in Legs : leg'[h] = IF h = k THEN opened ELSE leg[h]
  BY <1>0, <1>1, <1>3 DEF TypeOK, Begun
<1>6. /\ block'[n] # NoRow /\ block'[n].kind = "CONTRACT" /\ block'[n].vehicle = v
      /\ block'[n].from = from /\ block'[n].to = row.to
      /\ block'[n].resv = NoRow /\ block'[n].leg = k
  <2>1. row.to \in Nat
    BY <1>1 DEF CtrRows
  <2>2. NewRow(v, "CONTRACT", from, row.to, NoRow, k) \in BlockRows
    BY <1>1, <1>3, <2>1, NewRowType DEF RefTo
  <2> QED
    BY <1>1, <2>2, RowAssumption, NewRowReads
<1> HIDE DEF opened, k
<1>7. Growing
  BY <1>1, <1>3, <1>5 DEF Growing
<1>8. \A g \in Legs : leg[g] # NoRow => leg[g].ctr # d
  BY <1>0, <1>1 DEF IInv, Links
<1>9. CtrKept(d, row, leg', block')
  <2>1. OpenFor(leg'[k], d) /\ \A h \in Legs : OpenFor(leg'[h], d) => h = k
    BY <1>3, <1>4, <1>5, <1>8 DEF OpenFor
  <2>2. On(block'[n], k) /\ \A a \in Blocks : On(block'[a], k) => a = n
    BY <1>1, <1>2, <1>3, <1>6 DEF On
  <2>3. CarriedAs(block'[n], leg'[k], row)
    BY <1>1, <1>3, <1>4, <1>5, <1>6 DEF CarriedAs
  <2>4. \A h \in Legs : leg'[h] # NoRow /\ leg'[h].ctr = d => leg'[h].till = NoRow
    BY <1>4, <1>5, <1>8
  <2>5. row.status \notin Finished
    BY <1>1 DEF Finished
  <2> QED
    BY <1>1, <1>3, <2>1, <2>2, <2>3, <2>4, <2>5 DEF CtrKept
<1>10. Kept'
  <2>1. /\ \A e \in Contracts \ C : ctr'[e] = ctr[e]
        /\ \A e \in C : ctr[e] # NoRow => ctr[e].status # "CANCELLED"
        /\ \A e \in C : CtrKept(e, ctr'[e], leg', block')
        /\ \A h \in Legs : leg'[h] # leg[h] => leg'[h].ctr \in C
        /\ \A q \in Reservations : resv'[q] = resv[q]
    <3>1. \A e \in C : CtrKept(e, ctr'[e], leg', block')
      <4> SUFFICES ASSUME NEW e \in C PROVE CtrKept(e, ctr'[e], leg', block')
        OBVIOUS
      <4>1. CASE e = d
        <5>1. ctr'[e] = row
          BY <1>1, <1>5, <4>1
        <5>2. CtrKept(e, row, leg', block')
          BY <1>9, <4>1
        <5> QED
          BY <5>1, <5>2
      <4>2. CASE e # d
        <5>1. ctr'[e] = ctr[e] /\ CtrKept(e, ctr[e], leg', block')
          BY <1>1, <1>5, <4>2
        <5> QED
          BY <5>1
      <4> QED
        BY <4>1, <4>2
    <3>2. \A e \in C : ctr[e] # NoRow => ctr[e].status # "CANCELLED"
      BY <1>1 DEF Begun
    <3> QED
      BY <1>1, <1>4, <1>5, <3>1, <3>2
  <2>2. \A a \in Blocks : block'[a] # block[a] /\ block[a] # NoRow =>
            block[a].leg # NoRow /\ leg[block[a].leg].ctr \in C
    BY <1>1, <1>2, NoRowAssumption
  <2>3. \A a \in Blocks : block'[a] # block[a] /\ block'[a] # NoRow =>
            /\ block'[a].kind = "CONTRACT"
            /\ block'[a].leg \in Legs /\ block'[a].leg # NoRow
            /\ leg'[block'[a].leg] # NoRow /\ leg'[block'[a].leg].ctr \in C
            /\ block'[a].resv # NoRow =>
                  /\ block[a] # NoRow
                  /\ block'[a].resv = block[a].resv /\ block'[a].leg = block[a].leg
    <3> SUFFICES ASSUME NEW a \in Blocks, block'[a] # block[a], block'[a] # NoRow
                 PROVE  /\ block'[a].kind = "CONTRACT"
                        /\ block'[a].leg \in Legs /\ block'[a].leg # NoRow
                        /\ leg'[block'[a].leg] # NoRow /\ leg'[block'[a].leg].ctr \in C
                        /\ block'[a].resv # NoRow =>
                              /\ block[a] # NoRow
                              /\ block'[a].resv = block[a].resv
                              /\ block'[a].leg = block[a].leg
      OBVIOUS
    <3>1. CASE a = n
      BY <1>1, <1>3, <1>4, <1>5, <1>6, <3>1
    <3>2. CASE a # n
      <4>1. Referred(block[a], resv, ctr, leg)
        BY <1>0, <1>2, <3>2 DEF Kept, BlocksKept
      <4> QED
        BY <1>2, <1>3, <1>5, <3>2, <4>1, NoRowAssumption DEF Referred
    <3> QED
      BY <3>1, <3>2
  <2> QED
    BY <1>0, <1>1, <1>7, <2>1, <2>2, <2>3, KeptByContracts
<1>11. ASSUME NEW x \in Vehicles
       PROVE  (InUse(x)' <=> InUse(x)) /\ (Ahead(x)' => Ahead(x))
  <2>1. now' \in Nat /\ now <= now'
    BY <1>0, <1>1 DEF TypeOK
  <2>2. \A a \in Blocks : /\ block'[a] # NoRow /\ block'[a].vehicle = x
                          /\ block'[a].kind = "RESERVATION"
                          => block'[a] = block[a]
    BY <1>2, <1>6
  <2>3. Ahead(x)' => Ahead(x)
    BY <1>0, <2>1, <2>2, AheadUndisturbed
  <2>4. /\ ctr'[d].status = "DRAFT" /\ \A e \in Contracts \ {d} : ctr'[e] = ctr[e]
        /\ \A h \in Legs \ {k} : leg'[h] = leg[h]
    BY <1>1, <1>5
  <2>5. \A e \in Contracts, h \in Legs : e # d =>
            /\ OpenFor(leg'[h], e) <=> OpenFor(leg[h], e)
            /\ OpenFor(leg[h], e) => leg'[h] = leg[h]
    BY <1>3, <1>4, <1>5 DEF OpenFor
  <2>6. InUse(x)' <=> \E e \in Contracts, h \in Legs :
                          /\ ctr'[e] # NoRow /\ ctr'[e].status = "ACTIVE"
                          /\ OpenFor(leg'[h], e) /\ leg'[h].car = x
    BY DEF InUse, OpenFor
  <2>7. InUse(x)' <=> InUse(x)
    BY <1>1, <2>4, <2>5, <2>6 DEF InUse
  <2> QED
    BY <2>3, <2>7
<1>12. CommercialFollowsAgenda'
  BY <1>0, <1>1, <1>11, CommercialUndisturbed
<1> QED
  BY <1>10, <1>12

\* What insert() does on top of table t.
LEMMA Inserted ==
    ASSUME IInv, NEW t, t \in Table, NEW d \in Contracts, NEW kind \in {"PERIOD", "LONG_TERM"},
           NEW v \in Vehicles, NEW from \in Nat, NEW to \in Nat, NEW old \in RefTo(Contracts),
           InsertContract(t, d, kind, v, from, to, old)
    PROVE  \E row \in CtrRows, n \in Blocks :
              /\ ctr[d] = NoRow /\ row.status = "DRAFT" /\ row.resv = NoRow
              /\ ctr' = [ctr EXCEPT ![d] = row]
              /\ SpareLegs # {} /\ leg' = [leg EXCEPT ![NewLeg] = OpenLeg(d, v, from)]
              /\ block[n] = NoRow
              /\ block'[n] = NewRow(v, "CONTRACT", from, row.to, NoRow, NewLeg)
              /\ \A a \in Blocks \ {n} : block'[a] = t[a]
<1> DEFINE row == Contract("DRAFT", kind, from, to, NoRow, old)
<1>1. row \in CtrRows /\ row.resv = NoRow /\ row.status = "DRAFT" /\ row.to = to
  BY DEF Contract, CtrRows, CtrStatuses, Proposal, RefTo
<1>2. /\ ctr[d] = NoRow /\ SpareLegs # {} /\ ctr' = [ctr EXCEPT ![d] = row]
      /\ leg' = [leg EXCEPT ![NewLeg] = OpenLeg(d, v, from)]
  BY DEF InsertContract
<1>3. Allocate(t, v, "CONTRACT", from, to, NoRow, NewLeg)
  BY DEF InsertContract
<1> HIDE DEF row
<1>4. PICK n \in Blocks :
          /\ block[n] = NoRow
          /\ \A b \in Blocks : block'[b] = IF b = n
                  THEN NewRow(v, "CONTRACT", from, to, NoRow, NewLeg) ELSE t[b]
  BY <1>3, Allocated
<1>5. /\ block'[n] = NewRow(v, "CONTRACT", from, row.to, NoRow, NewLeg)
      /\ \A a \in Blocks \ {n} : block'[a] = t[a]
  BY <1>1, <1>4
<1> QED
  BY <1>1, <1>2, <1>4, <1>5

LEMMA ProposeHolds ==
    ASSUME HoldInv, SerialInv', NEW c \in Contracts, NEW kind \in ContractKinds,
           NEW v \in Vehicles, NEW p \in Periods, Propose(c, kind, v, p)
    PROVE  HoldInv'
<1>0. IInv /\ Kept /\ FoundFresh /\ block \in Table
  BY DEF HoldInv, SerialInv, IInv, Sound
<1>1. /\ kind \in {"PERIOD", "LONG_TERM"} /\ p.from \in Nat /\ p.to \in Nat
      /\ NoRow \in RefTo(Contracts) /\ UNCHANGED <<now, unit, resv, seen>>
      /\ InsertContract(block, c, kind, v, p.from, p.to, NoRow)
  BY KindAssumption, PeriodType DEF RefTo, Propose
<1>2. PICK row \in CtrRows, n \in Blocks :
              /\ ctr[c] = NoRow /\ row.status = "DRAFT" /\ row.resv = NoRow
              /\ ctr' = [ctr EXCEPT ![c] = row]
              /\ SpareLegs # {} /\ leg' = [leg EXCEPT ![NewLeg] = OpenLeg(c, v, p.from)]
              /\ block[n] = NoRow
              /\ block'[n] = NewRow(v, "CONTRACT", p.from, row.to, NoRow, NewLeg)
              /\ \A a \in Blocks \ {n} : block'[a] = block[a]
  BY <1>0, <1>1, Inserted
<1>3. PICK C : C = {c}
  OBVIOUS
<1>4. Begun(c, row, v, p.from, n, C) /\ \A e \in C \ {c} : CtrKept(e, ctr[e], leg', block')
  BY <1>1, <1>2, <1>3 DEF Begun
<1>5. Kept' /\ CommercialFollowsAgenda'
  BY <1>4, BegunHolds
<1>6. FoundFresh'
  <2>1. NewLeg \in Legs /\ leg[NewLeg] = NoRow /\ \A a \in Blocks : ~On(block[a], NewLeg)
    BY <1>0, <1>2, NewLegFree DEF Kept
  <2>2. \A g \in Legs : leg'[g] = IF g = NewLeg THEN OpenLeg(c, v, p.from) ELSE leg[g]
    BY <1>0, <1>2, <2>1 DEF IInv, TypeOK
  <2>3. block'[n].leg = NewLeg /\ block'[n].resv = NoRow
    BY <1>2, NewRowReads
  <2>4. \A r \in Reservations, b \in Blocks : From(block'[b], r) <=> From(block[b], r)
    BY <1>2, <2>3, NoRowAssumption DEF From
  <2>5. \A g \in Legs, b \in Blocks : leg[g] # NoRow =>
            (On(block'[b], g) <=> On(block[b], g))
    BY <1>2, <2>1, <2>3 DEF On
  <2>6. /\ \A g \in Legs : leg[g] # NoRow => leg'[g] = leg[g]
        /\ \A g \in Legs : leg[g] = NoRow /\ leg'[g] # NoRow =>
               leg'[g].ctr \in Contracts /\ ctr[leg'[g].ctr] = NoRow
    BY <1>2, <2>1, <2>2 DEF OpenLeg
  <2> QED
    BY <1>0, <1>1, <2>4, <2>5, <2>6, FindsUndisturbed
<1> QED
  BY <1>5, <1>6 DEF HoldInv

\* The block of the renewed contract keeps its period: only preparation goes.
LEMMA RenewHolds ==
    ASSUME OneAtATime, HoldInv, SerialInv', NEW w \in Workers, NEW c \in Contracts,
           NEW d \in Contracts, NEW to \in 0 .. MaxEnd, Renew(w, c, d, to)
    PROVE  HoldInv'
<1> DEFINE g    == seen[w].leg
           b    == seen[w].block
           cut  == [block[b] EXCEPT !.until = block[b].to]
           bare == [block EXCEPT ![b].until = block[b].to]
           v    == leg[g].car
           from == ctr[c].to
<1>0. IInv /\ TypeOK /\ Kept
  BY DEF HoldInv, SerialInv, IInv
<1>1. Holding(w, c) /\ Done(w) /\ UNCHANGED <<now, unit, resv>>
  BY DEF Renew
<1>2. seen[w].row = ctr[c] /\ ctr[c] \in CtrRows /\ from \in Nat /\ to \in Nat
  BY <1>1, ContractInHand, TimeAssumption DEF HoldInv, CtrRows
<1>3. ctr[c].status = "ACTIVE" /\ ctr[c].status \notin Finished
  BY <1>2 DEF Renew, InForce, Finished
<1>4. InHand(c, g, b) /\ ctr[c] # NoRow
  BY <1>1, <1>3, CarInHand, ContractInHand DEF HoldInv
<1>5. /\ g \in Legs /\ leg[g] # NoRow /\ leg[g].ctr = c /\ leg[g].till = NoRow
      /\ b \in Blocks /\ block[b] # NoRow /\ block[b].leg = g
      /\ CarriedAs(block[b], leg[g], ctr[c])
      /\ \A h \in Legs : OpenFor(leg[h], c) => h = g
      /\ \A a \in Blocks : On(block[a], g) => a = b
  BY <1>4 DEF InHand
<1>6. leg[g] \in LegRows /\ block[b] \in BlockRows /\ block \in Table /\ v \in Vehicles
  BY <1>0, <1>5, RowTypes DEF IInv, Sound, LegRows
<1>7. /\ cut \in BlockRows /\ cut # NoRow /\ cut.kind = block[b].kind /\ cut.leg = block[b].leg
      /\ cut.resv = block[b].resv /\ cut.vehicle = block[b].vehicle
      /\ cut.from = block[b].from /\ cut.to = block[b].to
  <2>1. cut \in BlockRows
    BY <1>6 DEF BlockRows
  <2> QED
    BY <1>6, <2>1, RowAssumption DEF BlockRows
<1>8. InsertContract(bare, d, "LONG_TERM", v, from, to, c) /\ c \in RefTo(Contracts)
  BY <1>2, <1>5 DEF Renew, RefTo, Live
<1>9. \A a \in Blocks : bare[a] = IF a = b THEN cut ELSE block[a]
  BY <1>5, <1>6 DEF Table
<1>10. bare \in Table
  BY <1>0, BareSound, <1>5 DEF IInv, Sound
<1> HIDE DEF g, b, cut, bare, v, from
<1>11. PICK row \in CtrRows, n \in Blocks :
              /\ ctr[d] = NoRow /\ row.status = "DRAFT" /\ row.resv = NoRow
              /\ ctr' = [ctr EXCEPT ![d] = row]
              /\ SpareLegs # {} /\ leg' = [leg EXCEPT ![NewLeg] = OpenLeg(d, v, from)]
              /\ block[n] = NoRow
              /\ block'[n] = NewRow(v, "CONTRACT", from, row.to, NoRow, NewLeg)
              /\ \A a \in Blocks \ {n} : block'[a] = bare[a]
  BY <1>0, <1>2, <1>6, <1>8, <1>10, Inserted
<1>12. PICK C : C = {c, d}
  OBVIOUS
<1>13. n # b /\ d # c /\ block'[b] = cut /\ \A a \in Blocks \ {b, n} : block'[a] = block[a]
  BY <1>4, <1>5, <1>9, <1>11
<1>14. Begun(d, row, v, from, n, C)
  <2>1. \A e \in C \ {d} : ctr[e].status # "CANCELLED"
    BY <1>3, <1>12 DEF Finished
  <2>2. \A a \in Blocks \ {n} : block'[a] # block[a] =>
            /\ block[a] # NoRow /\ block[a].leg \in Legs /\ leg[block[a].leg].ctr \in C
            /\ block'[a] # NoRow /\ block'[a].kind = "CONTRACT"
            /\ block'[a].resv = block[a].resv /\ block'[a].leg = block[a].leg
    BY <1>5, <1>7, <1>12, <1>13 DEF CarriedAs
  <2>3. UNCHANGED <<now, unit, resv>> /\ v \in Vehicles /\ from \in Nat
    BY <1>1, <1>2, <1>6
  <2> QED
    BY <1>11, <1>12, <2>1, <2>2, <2>3 DEF Begun
<1>15. CtrKept(c, ctr[c], leg', block')
  <2>1. NewLeg \in Legs /\ leg[NewLeg] = NoRow
    BY <1>0, <1>11, NewLegFree DEF Kept
  <2>2. \A h \in Legs : leg'[h] = IF h = NewLeg THEN OpenLeg(d, v, from) ELSE leg[h]
    BY <1>0, <1>11, <2>1 DEF TypeOK
  <2>3. leg'[g] = leg[g] /\ OpenFor(leg'[g], c) /\ \A h \in Legs : OpenFor(leg'[h], c) => h = g
    BY <1>5, <1>13, <2>1, <2>2 DEF OpenFor, OpenLeg
  <2>4. block'[n].leg = NewLeg
    BY <1>11, NewRowReads
  <2>5. On(block'[b], g) /\ \A a \in Blocks : On(block'[a], g) => a = b
    BY <1>5, <1>7, <1>13, <2>1, <2>4 DEF On
  <2>6. CarriedAs(block'[b], leg'[g], ctr[c])
    BY <1>5, <1>7, <1>13, <2>3 DEF CarriedAs
  <2> QED
    BY <1>3, <1>5, <2>3, <2>5, <2>6 DEF CtrKept, Proposal
<1>16. Kept' /\ CommercialFollowsAgenda'
  BY <1>12, <1>14, <1>15, BegunHolds
<1> QED
  BY <1>0, <1>1, <1>16, DoneFindsNone DEF HoldInv

\* The block passes from the reservation to the contract that stands for it.
LEMMA CheckoutHolds ==
    ASSUME OneAtATime, HoldInv, SerialInv', NEW w \in Workers, NEW r \in Reservations,
           NEW c \in Contracts, Checkout(w, r, c)
    PROVE  HoldInv'
<1> DEFINE was == resv[r]
           is  == [resv[r] EXCEPT !.status = "CHECKED_OUT"]
           row == Contract("APPROVED", "PERIOD", was.from, was.to, r, NoRow)
           opened == OpenLeg(c, was.vehicle, was.from)
           b   == seen[w].block
           n   == [block[b] EXCEPT !.kind = "CONTRACT", !.leg = NewLeg]
           k   == NewLeg
<1>0. IInv /\ IInv' /\ TypeOK /\ Told /\ Kept /\ CommercialFollowsAgenda
  BY DEF HoldInv, SerialInv, IInv
<1>1. Holding(w, r) /\ Done(w) /\ UNCHANGED <<now, unit>> /\ ctr[c] = NoRow
  BY DEF Checkout
<1>2. seen[w].row = was /\ was.status = "CONFIRMED" /\ was \in ResvRows /\ was.vehicle # NoRow
  BY <1>1, ReservedInHand, ReservationInHand DEF HoldInv, Checkout
<1>3. /\ b \in Blocks /\ From(block[b], r) /\ HeldAs(block[b], was)
      /\ \A a \in Blocks : From(block[a], r) => a = b
  BY <1>1, <1>2, BlockInHand
<1>4. block[b] # NoRow /\ block[b] \in BlockRows /\ block[b].leg = NoRow /\ block \in Table
  BY <1>0, <1>3, RowTypes DEF From, HeldAs, Kept, BlocksKept, Referred, IInv, Sound
<1>5. /\ k \in Legs /\ leg[k] = NoRow /\ k # NoRow /\ \A a \in Blocks : ~On(block[a], k)
  BY <1>0, NewLegFree DEF Checkout, Kept
<1>6. /\ row \in CtrRows /\ row.status = "APPROVED" /\ row.to = was.to /\ row.resv = r
      /\ was.vehicle \in Vehicles /\ was.from \in Nat /\ row # NoRow
  <2>1. row \in CtrRows
    BY <1>2 DEF ResvRows, RefTo, Contract, CtrRows, CtrStatuses
  <2> QED
    BY <1>2, <2>1, RowAssumption DEF ResvRows, RefTo, Contract
<1>7. /\ opened.ctr = c /\ opened.till = NoRow /\ opened.car = was.vehicle
      /\ opened.from = was.from /\ opened # NoRow
  <2>1. opened \in LegRows
    BY <1>6 DEF LegRows, RefTo, OpenLeg
  <2> QED
    BY <2>1, RowAssumption DEF OpenLeg
<1>8. /\ n # NoRow /\ n.kind = "CONTRACT" /\ n.leg = k /\ n.resv = r
      /\ n.vehicle = was.vehicle /\ n.from = was.from /\ n.to = was.to
  <2>1. n \in BlockRows
    BY <1>4, <1>5 DEF BlockRows, RefTo
  <2> QED
    BY <1>3, <1>4, <2>1, RowAssumption DEF BlockRows, From, HeldAs
<1>9. is \in ResvRows /\ is.status = "CHECKED_OUT" /\ is # NoRow
  <2>1. is \in ResvRows
    BY <1>2 DEF ResvRows, ResvStatuses
  <2> QED
    BY <1>2, <2>1, RowAssumption DEF ResvRows
<1>10. /\ \A d \in Contracts : ctr'[d] = IF d = c THEN row ELSE ctr[d]
       /\ \A h \in Legs : leg'[h] = IF h = k THEN opened ELSE leg[h]
  BY <1>0, <1>2, <1>5 DEF TypeOK, Checkout
<1>11. \A a \in Blocks : block'[a] = IF a = b THEN n ELSE block[a]
  BY <1>3, <1>4 DEF Checkout, Live, Table
<1>12. \A q \in Reservations : resv'[q] = IF q = r THEN is ELSE resv[q]
  BY <1>0 DEF Checkout, TypeOK
<1> HIDE DEF was, is, row, opened, b, n, k
<1>13. Growing
  BY <1>1, <1>5, <1>9, <1>10, <1>12 DEF Growing
<1>14. \A g \in Legs : leg[g] # NoRow => leg[g].ctr # c
  BY <1>0, <1>1 DEF IInv, Links
<1>15. ASSUME NEW a \in Blocks, block'[a] # NoRow
       PROVE  Referred(block'[a], resv', ctr', leg')
  <2>1. CASE a = b
    BY <1>5, <1>6, <1>7, <1>8, <1>9, <1>10, <1>11, <1>12, <2>1 DEF Referred
  <2>2. CASE a # b
    BY <1>0, <1>11, <1>13, <1>15, <2>2, ReferencesStand DEF Kept
  <2> QED
    BY <2>1, <2>2
<1>16. ASSUME NEW q \in Reservations
       PROVE  ResvKept(q, resv'[q], block')
  <2>1. CASE q = r
    <3>1. \A a \in Blocks : From(block'[a], r) => block'[a].leg # NoRow
      BY <1>3, <1>5, <1>8, <1>11 DEF From
    <3>2. resv'[q] = is
      BY <1>12, <2>1
    <3>3. ResvKept(r, is, block')
      BY <1>9, <3>1 DEF ResvKept
    <3> QED
      BY <2>1, <3>2, <3>3
  <2>2. CASE q # r
    <3>1. ResvKept(q, resv[q], block) /\ resv'[q] = resv[q]
      BY <1>0, <1>12, <2>2 DEF Kept, ReservationsKept
    <3>2. \A a \in Blocks : From(block[a], q) \/ From(block'[a], q) => block'[a] = block[a]
      BY <1>3, <1>8, <1>11, <2>2 DEF From
    <3>3. ResvKept(q, resv[q], block')
      BY <3>1, <3>2, ResvUndisturbed
    <3> QED
      BY <3>1, <3>3
  <2> QED
    BY <2>1, <2>2
<1>17. ASSUME NEW d \in Contracts
       PROVE  CtrKept(d, ctr'[d], leg', block')
  <2>1. CASE d = c
    <3>1. OpenFor(leg'[k], c) /\ \A h \in Legs : OpenFor(leg'[h], c) => h = k
      BY <1>5, <1>7, <1>10, <1>14 DEF OpenFor
    <3>2. On(block'[b], k) /\ \A a \in Blocks : On(block'[a], k) => a = b
      BY <1>3, <1>5, <1>8, <1>11 DEF On
    <3>3. CarriedAs(block'[b], leg'[k], row)
      BY <1>3, <1>5, <1>6, <1>7, <1>8, <1>10, <1>11 DEF CarriedAs
    <3>4. \A h \in Legs : leg'[h] # NoRow /\ leg'[h].ctr = c => leg'[h].till = NoRow
      BY <1>7, <1>10, <1>14
    <3>5. row.status \notin Finished
      BY <1>6 DEF Finished
    <3>6. CtrKept(c, row, leg', block')
      BY <1>3, <1>5, <3>1, <3>2, <3>3, <3>4, <3>5 DEF CtrKept
    <3>7. ctr'[d] = row
      BY <1>10, <2>1
    <3> QED
      BY <2>1, <3>6, <3>7
  <2>2. CASE d # c
    <3>1. CtrKept(d, ctr[d], leg, block) /\ ctr'[d] = ctr[d]
      BY <1>0, <1>10, <2>2 DEF Kept, ContractsKept
    <3>2. \A g \in Legs : \/ leg[g] # NoRow /\ leg[g].ctr = d
                          \/ leg'[g] # NoRow /\ leg'[g].ctr = d
                          => leg'[g] = leg[g]
      BY <1>5, <1>7, <1>10, <2>2
    <3>3. \A g \in Legs, a \in Blocks : leg[g] # NoRow /\ (On(block[a], g) \/ On(block'[a], g))
              => block'[a] = block[a]
      <4>1. \A g \in Legs : leg[g] # NoRow => ~On(block[b], g) /\ ~On(block'[b], g)
        BY <1>3, <1>4, <1>5, <1>8, <1>11, NoRowAssumption DEF On
      <4> QED
        BY <1>11, <4>1
    <3> HIDE DEF OpenFor, On
    <3>4. CtrKept(d, ctr[d], leg', block')
      BY <3>1, <3>2, <3>3, CtrUndisturbed
    <3> QED
      BY <3>1, <3>4
  <2> QED
    BY <2>1, <2>2
<1>18. Kept'
  BY <1>15, <1>16, <1>17 DEF Kept, BlocksKept, ReservationsKept, ContractsKept
<1>19. ASSUME NEW x \in Vehicles
       PROVE  (InUse(x)' <=> InUse(x)) /\ (Ahead(x)' => Ahead(x))
  <2>1. now' \in Nat /\ now <= now'
    BY <1>0, <1>1 DEF TypeOK
  <2>2. \A a \in Blocks : /\ block'[a] # NoRow /\ block'[a].vehicle = x
                          /\ block'[a].kind = "RESERVATION"
                          => block'[a] = block[a]
    BY <1>8, <1>11
  <2>3. Ahead(x)' => Ahead(x)
    BY <1>0, <2>1, <2>2, AheadUndisturbed
  <2>4. /\ ctr'[c].status = "APPROVED" /\ \A e \in Contracts \ {c} : ctr'[e] = ctr[e]
        /\ \A h \in Legs \ {k} : leg'[h] = leg[h]
    BY <1>6, <1>10
  <2>5. \A e \in Contracts, h \in Legs : e # c =>
            /\ OpenFor(leg'[h], e) <=> OpenFor(leg[h], e)
            /\ OpenFor(leg[h], e) => leg'[h] = leg[h]
    BY <1>5, <1>7, <1>10 DEF OpenFor
  <2>6. InUse(x)' <=> \E e \in Contracts, h \in Legs :
                          /\ ctr'[e] # NoRow /\ ctr'[e].status = "ACTIVE"
                          /\ OpenFor(leg'[h], e) /\ leg'[h].car = x
    BY DEF InUse, OpenFor
  <2>7. InUse(x)' <=> InUse(x)
    BY <1>1, <2>4, <2>5, <2>6 DEF InUse
  <2> QED
    BY <2>3, <2>7
<1>20. CommercialFollowsAgenda'
  BY <1>0, <1>1, <1>19, CommercialUndisturbed
<1> QED
  BY <1>0, <1>1, <1>18, <1>20, DoneFindsNone DEF HoldInv

-----------------------------------------------------------------------------
(* The whole step *)

LEMMA ContractStepHolds ==
    ASSUME OneAtATime, HoldInv, SerialInv', NEW w \in Workers, NEW c \in Contracts,
           ContractStep(w, c)
    PROVE  HoldInv'
<1>1. CASE LoadContract(w, c)
  BY <1>1, ReadsHold
<1>2. CASE Submit(w, c) \/ Approve(w, c)
  BY <1>2, AdvanceHolds
<1>3. CASE CancelContract(w, c) \/ Activate(w, c)
  BY <1>3, CancelContractHolds, ActivateHolds
<1>4. CASE \E v \in Vehicles : SwapProposed(w, c, v) \/ SwapInForce(w, c, v)
  BY <1>4, SwapProposedHolds, SwapInForceHolds
<1>5. CASE \E to \in 0 .. MaxEnd : Extend(w, c, to)
  BY <1>5, ExtendHolds
<1>6. CASE \E d \in Contracts, to \in 0 .. MaxEnd : Renew(w, c, d, to)
  BY <1>6, RenewHolds
<1>7. CASE \E s \in {"CLOSED", "TERMINATED"}, at \in 0 .. MaxTime : Finish(w, c, s, at)
  BY <1>7, FinishHolds
<1> QED
  BY <1>1, <1>2, <1>3, <1>4, <1>5, <1>6, <1>7 DEF ContractStep

LEMMA ReservationStepHolds ==
    ASSUME OneAtATime, HoldInv, SerialInv', NEW w \in Workers, NEW r \in Reservations,
           ReservationStep(w, r)
    PROVE  HoldInv'
<1>1. CASE LoadReservation(w, r)
  BY <1>1, ReadsHold
<1>2. CASE \E v \in Vehicles : Confirm(w, r, v)
  BY <1>2, ConfirmHolds
<1>3. CASE \E v \in Vehicles \cup {NoRow}, p \in Periods : Update(w, r, v, p)
  BY <1>3, UpdateHolds
<1>4. CASE \E status \in {"CANCELLED", "NO_SHOW"} : Cancel(w, r, status)
  BY <1>4, CancelHolds
<1>5. CASE \E c \in Contracts : Checkout(w, r, c)
  BY <1>5, CheckoutHolds
<1> QED
  BY <1>1, <1>2, <1>3, <1>4, <1>5 DEF ReservationStep

LEMMA OperationalOnly ==
    ASSUME TypeOK,
           \/ \E c \in Contracts, v \in Vehicles, t \in {"DELIVERY", "RETURN"} :
                 OpenInspection(c, v, t) \/ CompleteInspection(c, v, t)
           \/ \E v \in Vehicles, to \in ManualStatuses : ChangeOperational(v, to)
    PROVE  /\ UNCHANGED <<now, resv, ctr, leg, block, seen>>
           /\ \A v \in Vehicles : unit'[v].commercial = unit[v].commercial
<1>1. PICK v \in Vehicles :
          unit' = unit \/ \E to : unit' = [unit EXCEPT ![v].operational = to]
  BY SMTT(30) DEF OpenInspection, CompleteInspection, ChangeOperational
<1>2. \A x \in Vehicles : unit'[x].commercial = unit[x].commercial
  <2>1. unit \in [Vehicles -> [commercial : {"AVAILABLE", "RESERVED", "RENTED"} \cup OffFleet,
                               operational : OperationalStatuses]]
    BY DEF TypeOK
  <2> QED
    BY <1>1, <2>1
<1>3. UNCHANGED <<now, resv, ctr, leg, block, seen>>
  BY SMTT(30) DEF OpenInspection, CompleteInspection, ChangeOperational
<1> QED
  BY <1>2, <1>3

LEMMA DirectHolds ==
    ASSUME OneAtATime, HoldInv, SerialInv', Direct
    PROVE  HoldInv'
<1>0. TypeOK
  BY DEF HoldInv, SerialInv, IInv
<1>1. CASE \E r \in Reservations, p \in Periods :
              Request(r, p) \/ \E v \in Vehicles : RequestConfirmed(r, p, v)
  BY <1>1, RequestHolds
<1>2. CASE \E c \in Contracts, k \in ContractKinds, v \in Vehicles, p \in Periods :
              Propose(c, k, v, p)
  BY <1>2, ProposeHolds
<1>3. CASE \/ \E v \in Vehicles, p \in BlockPeriods : CreateBlock(v, p)
           \/ \E b \in Blocks : ReleaseBlock(b)
  BY <1>3, BlockHolds
<1>4. CASE \/ \E c \in Contracts, v \in Vehicles, t \in {"DELIVERY", "RETURN"} :
                 OpenInspection(c, v, t) \/ CompleteInspection(c, v, t)
           \/ \E v \in Vehicles, to \in ManualStatuses : ChangeOperational(v, to)
  <2>1. /\ UNCHANGED <<now, resv, ctr, leg, block, seen>>
        /\ \A v \in Vehicles : unit'[v].commercial = unit[v].commercial
    BY <1>0, <1>4, OperationalOnly
  <2>2. now <= now'
    BY <1>0, <2>1 DEF TypeOK
  <2> QED
    BY <2>1, <2>2, AsideHolds
<1> QED
  BY <1>1, <1>2, <1>3, <1>4 DEF Direct

LEMMA StepHolds ==
    ASSUME OneAtATime, HoldInv, [Next]_vars
    PROVE  HoldInv'
<1>0. SerialInv' /\ now \in Nat
  BY StepTold DEF HoldInv, SerialInv, IInv, TypeOK
<1>1. CASE \E w \in Workers : \/ \E r \in Reservations : ReservationStep(w, r)
                              \/ \E c \in Contracts : ContractStep(w, c)
                              \/ Look(w)
  BY <1>0, <1>1, ReservationStepHolds, ContractStepHolds, ReadsHold
<1>2. CASE \/ \E w \in Workers : Abandon(w)
           \/ Tick
           \/ UNCHANGED vars
  <2>1. /\ UNCHANGED <<unit, resv, ctr, leg, block>> /\ now <= now'
        /\ seen' = seen \/ (\E w \in Workers : Done(w))
    BY <1>0, <1>2 DEF Abandon, Tick, vars
  <2> QED
    BY <1>0, <2>1, AsideHolds
<1>3. CASE Direct
  BY <1>0, <1>3, DirectHolds
<1>4. CASE \E late \in SUBSET Reservations : Expire(late)
  BY <1>0, <1>4, ExpireHolds
<1> QED
  BY <1>1, <1>2, <1>3, <1>4 DEF Next

LEMMA InitHolds == Init => HoldInv
<1> SUFFICES ASSUME Init PROVE FoundFresh /\ Kept /\ CommercialFollowsAgenda
  BY InitTold DEF HoldInv
<1>1. FoundFresh
  BY DEF Init, FoundFresh
<1>2. /\ \A r \in Reservations : resv[r] = NoRow
      /\ \A c \in Contracts : ctr[c] = NoRow
      /\ \A b \in Blocks : block[b] = NoRow
      /\ \A v \in Vehicles : unit[v].commercial = "AVAILABLE"
  BY DEF Init
<1>3. Kept
  BY <1>2 DEF Kept, BlocksKept, ReservationsKept, ContractsKept, ResvKept, CtrKept, From
<1>4. CommercialFollowsAgenda
  BY <1>2 DEF CommercialFollowsAgenda
<1> QED
  BY <1>1, <1>3, <1>4

\* With handlers that do not overlap, rows refer to each other both ways, what
\* a handler found is still what there is, and statuses follow the agenda.
THEOREM HoldInductive ==
    ASSUME OneAtATime
    PROVE  Spec => []HoldInv
<1>1. HoldInv /\ [Next]_vars => HoldInv'
  BY StepHolds
<1> QED
  BY <1>1, InitHolds, PTL DEF Spec

\* A confirmed reservation is one block of its car and of its period, through
\* updates, and one that was cancelled or lapsed holds none.
THEOREM ReservationHoldsItsCar ==
    ASSUME OneAtATime
    PROVE  Spec => []ConfirmedHoldsCar
<1>1. HoldInv => ConfirmedHoldsCar
  BY KeptHoldsReserved DEF HoldInv, Kept
<1> QED
  BY <1>1, HoldInductive, PTL

\* From the proposal to the end a contract has one open interval and one block
\* of the same car up to its end, through swaps, extensions and renewals.
THEOREM ContractHoldsItsCar ==
    ASSUME OneAtATime
    PROVE  Spec => []ContractHoldsCar
<1>1. HoldInv => ContractHoldsCar
  BY KeptHoldsContracted DEF HoldInv, SerialInv
<1> QED
  BY <1>1, HoldInductive, PTL

\* recomputeCommercial() is called wherever it is needed: the status of a car
\* is what its contracts in force and its reservations to come say.
THEOREM StatusFollowsAgenda ==
    ASSUME OneAtATime
    PROVE  Spec => []CommercialFollowsAgenda
<1>1. HoldInv => CommercialFollowsAgenda
  BY DEF HoldInv
<1> QED
  BY <1>1, HoldInductive, PTL

-----------------------------------------------------------------------------
(* Preparation, when no contract is renewed *)

\* A row has the preparation of its car after it; a BLOCK refers to nothing.
Prepared(n) ==
    n # NoRow => /\ n.until = n.to + Buffer(n.kind)
                 /\ n.kind = "BLOCK" => n.resv = NoRow /\ n.leg = NoRow

PeriodOnly ==
    /\ \A c \in Contracts : ctr[c] # NoRow => ctr[c].kind = "PERIOD"
    /\ \A w \in Workers : seen[w] # NoRow /\ seen[w].id \in Contracts => seen[w].row.kind = "PERIOD"

\* What a transaction found stays what it was, or is released: the identifier
\* is not given to a block made by hand.
FoundIsNoBlock ==
    \A w \in Workers : seen[w] # NoRow /\ Live(block, seen[w].block) =>
        block[seen[w].block].kind # "BLOCK"

PrepInv == IInv /\ PeriodOnly /\ FoundIsNoBlock /\ \A b \in Blocks : Prepared(block[b])

\* What may become of identifier b in a step.
KeepsPrepared(b) ==
    \/ block'[b] = block[b]
    \/ block'[b] = NoRow
    \/ Prepared(block'[b]) /\ (block'[b].kind # "BLOCK" \/ Unused(b))

LEMMA MovedPrepared ==
    ASSUME NEW n \in BlockRows, Prepared(n), n.kind # "BLOCK", NEW end \in Nat
    PROVE  /\ Prepared(Extended(n, end)) /\ Extended(n, end).kind # "BLOCK"
           /\ Prepared(Truncated(n, end)) /\ Truncated(n, end).kind # "BLOCK"
<1>1. ASSUME NEW to \in Nat, NEW until \in Nat
      PROVE  /\ [n EXCEPT !.to = to, !.until = until].kind = n.kind
             /\ [n EXCEPT !.to = to, !.until = until].to = to
             /\ [n EXCEPT !.to = to, !.until = until].until = until
  BY DEF BlockRows
<1>2. Prepared(Extended(n, end)) /\ Extended(n, end).kind # "BLOCK"
  <2>1. end + Prep \in Nat
    BY PrepAssumption
  <2> QED
    BY <1>1, <2>1 DEF Extended, Prepared, Buffer
<1>3. Prepared(Truncated(n, end)) /\ Truncated(n, end).kind # "BLOCK"
  <2> DEFINE stop == IF end <= n.from THEN n.from + 1 ELSE end
  <2>1. stop \in Nat /\ stop + Buffer(n.kind) \in Nat
    BY PrepAssumption DEF Buffer, BlockRows
  <2> HIDE DEF stop
  <2>2. Prepared([n EXCEPT !.to = stop, !.until = stop + Buffer(n.kind)])
    BY <1>1, <2>1 DEF Prepared
  <2>3. [n EXCEPT !.to = stop, !.until = stop + Buffer(n.kind)].kind # "BLOCK"
    BY <1>1, <2>1
  <2> QED
    BY <2>2, <2>3 DEF Truncated, stop
<1> QED
  BY <1>2, <1>3

\* allocate() prepares the row it inserts, on top of a table that is prepared.
LEMMA AllocatePrepared ==
    ASSUME NEW t, t \in Table, NEW v, NEW kind, NEW from, NEW to, NEW r, NEW g,
           kind = "BLOCK" => r = NoRow /\ g = NoRow,
           Allocate(t, v, kind, from, to, r, g),
           \A b \in Blocks :
               \/ t[b] = block[b]
               \/ t[b] = NoRow
               \/ Prepared(t[b]) /\ t[b].kind # "BLOCK"
    PROVE  \A b \in Blocks : KeepsPrepared(b)
<1>1. PICK n \in Blocks :
          /\ Unused(n)
          /\ \A b \in Blocks : block'[b] = IF b = n THEN NewRow(v, kind, from, to, r, g) ELSE t[b]
  BY Allocated
<1>2. Prepared(NewRow(v, kind, from, to, r, g))
  BY NewRowReads DEF Prepared
<1>3. ASSUME NEW b \in Blocks
      PROVE  KeepsPrepared(b)
  <2>1. CASE b = n
    <3>1. block'[b] = NewRow(v, kind, from, to, r, g)
      BY <1>1, <2>1
    <3>2. Prepared(block'[b])
      BY <1>2, <3>1
    <3> QED
      BY <1>1, <2>1, <3>2 DEF KeepsPrepared
  <2>2. CASE b # n
    <3>1. block'[b] = t[b]
      BY <1>1, <2>2
    <3>2. Prepared(t[b]) => Prepared(block'[b])
      BY <3>1
    <3> QED
      BY <3>1, <3>2 DEF KeepsPrepared
  <2> QED
    BY <2>1, <2>2
<1> QED
  BY <1>3

LEMMA PrepKept ==
    ASSUME PrepInv, IInv', seen' = seen \/ (\E w \in Workers : Done(w)),
           \A c \in Contracts : ctr'[c] # NoRow => ctr'[c].kind = "PERIOD",
           \A b \in Blocks : KeepsPrepared(b)
    PROVE  PrepInv'
<1>1. \A w \in Workers : seen'[w] # NoRow => seen'[w] = seen[w]
  BY DEF Done, PrepInv, IInv, TypeOK
<1>2. PeriodOnly'
  BY <1>1 DEF PrepInv, PeriodOnly
<1>3. ASSUME NEW b \in Blocks
      PROVE  Prepared(block[b])'
  <2>1. Prepared(block'[b])
    BY DEF KeepsPrepared, PrepInv, Prepared
  <2> QED
    BY <2>1 DEF Prepared
<1>4. ASSUME NEW w \in Workers, seen'[w] # NoRow, Live(block', seen'[w].block)
      PROVE  block'[seen'[w].block].kind # "BLOCK"
  <2>1. seen'[w] = seen[w] /\ seen[w] # NoRow
    BY <1>1, <1>4
  <2>2. PICK b \in Blocks : b = seen[w].block /\ block'[b] # NoRow
    BY <1>4, <2>1 DEF Live
  <2>3. ~Unused(b)
    BY <2>1, <2>2 DEF Unused
  <2>4. block[b] # NoRow => block[b].kind # "BLOCK"
    BY <2>1, <2>2 DEF PrepInv, FoundIsNoBlock, Live
  <2>5. block'[b].kind # "BLOCK"
    BY <2>2, <2>3, <2>4 DEF KeepsPrepared
  <2> QED
    BY <2>1, <2>2, <2>5
<1>5. FoundIsNoBlock'
  BY <1>4 DEF FoundIsNoBlock, Live
<1> QED
  BY <1>2, <1>3, <1>5 DEF PrepInv

\* Blocks that were released, and nothing else.
LEMMA ReleasePrepared ==
    ASSUME IInv, NEW a
    PROVE  /\ Release(block, a) \in Table
           /\ \A b \in Blocks : Release(block, a)[b] = block[b] \/ Release(block, a)[b] = NoRow
<1>1. block \in Table
  BY DEF IInv, Sound
<1> QED
  BY <1>1 DEF Release, Table, RefTo

\* A block that a transaction found may be written with its preparation.
LEMMA WritePrepared ==
    ASSUME PrepInv, NEW a \in Blocks, NEW n \in BlockRows, Prepared(n), n.kind # "BLOCK"
    PROVE  /\ Write(block, a, n) \in Table
           /\ \A b \in Blocks :
                 \/ Write(block, a, n)[b] = block[b]
                 \/ Prepared(Write(block, a, n)[b]) /\ Write(block, a, n)[b].kind # "BLOCK"
<1>1. block \in Table
  BY DEF PrepInv, IInv, Sound
<1>2. Write(block, a, n) \in Table
  BY <1>1 DEF Write, Table, RefTo
<1>3. \A b \in Blocks : Write(block, a, n)[b] = IF b = a THEN n ELSE block[b]
  BY <1>1 DEF Write, Table
<1> QED
  BY <1>2, <1>3

\* The block that worker w found, if it is there still.
LEMMA FoundRow ==
    ASSUME PrepInv, NEW w \in Workers, seen[w] # NoRow, Live(block, seen[w].block)
    PROVE  /\ seen[w].block \in Blocks /\ block[seen[w].block] \in BlockRows
           /\ block[seen[w].block] # NoRow
           /\ Prepared(block[seen[w].block]) /\ block[seen[w].block].kind # "BLOCK"
<1>1. seen[w].block \in Blocks /\ block[seen[w].block] \in BlockRows
  BY LiveRow DEF PrepInv, IInv
<1> QED
  BY <1>1 DEF PrepInv, FoundIsNoBlock, Live

-----------------------------------------------------------------------------
(* One lemma per handler *)

LEMMA ReservationPrepared ==
    ASSUME PrepInv, NEW w \in Workers, NEW r \in Reservations, NEW v,
           NEW x, NEW p, NEW s,
           Confirm(w, r, v) \/ Update(w, r, x, p) \/ Cancel(w, r, s)
    PROVE  /\ ctr' = ctr /\ Done(w)
           /\ \A b \in Blocks : KeepsPrepared(b)
<1>0. IInv /\ block \in Table
  BY DEF PrepInv, IInv, Sound
<1>1. CASE Confirm(w, r, v)
  <2>1. \E from, to : Allocate(block, v, "RESERVATION", from, to, r, NoRow)
    BY <1>1 DEF Confirm
  <2>2. PICK from, to : Allocate(block, v, "RESERVATION", from, to, r, NoRow)
    BY <2>1
  <2>3. \A b \in Blocks : KeepsPrepared(b)
    BY <1>0, <2>2, AllocatePrepared
  <2> QED
    BY <1>1, <2>3 DEF Confirm
<1>2. CASE Update(w, r, x, p)
  <2>1. CASE UNCHANGED block
    BY <1>2, <2>1 DEF Update, KeepsPrepared
  <2>2. CASE Allocate(Release(block, seen[w].block), x, "RESERVATION", p.from, p.to, r, NoRow)
    <3>1. \A b \in Blocks : KeepsPrepared(b)
      BY <1>0, <2>2, ReleasePrepared, AllocatePrepared
    <3> QED
      BY <1>2, <3>1 DEF Update
  <2> QED
    BY <1>2, <2>1, <2>2 DEF Update
<1>3. CASE Cancel(w, r, s)
  <2>1. block' = Release(block, seen[w].block)
    BY <1>3 DEF Cancel
  <2>2. \A b \in Blocks : KeepsPrepared(b)
    BY <1>0, <2>1, ReleasePrepared DEF KeepsPrepared
  <2> QED
    BY <1>3, <2>2 DEF Cancel
<1> QED
  BY <1>1, <1>2, <1>3

LEMMA CheckoutPrepared ==
    ASSUME PrepInv, NEW w \in Workers, NEW r \in Reservations, NEW c \in Contracts,
           Checkout(w, r, c)
    PROVE  /\ \A d \in Contracts : ctr'[d] # NoRow => ctr'[d].kind = "PERIOD"
           /\ Done(w)
           /\ \A b \in Blocks : KeepsPrepared(b)
<1>0. block \in Table /\ seen[w] # NoRow
  BY DEF PrepInv, IInv, Sound, Checkout, Holding
<1>1. \E row \in {Contract("APPROVED", "PERIOD", seen[w].row.from, seen[w].row.to, r, NoRow)} :
          ctr' = [ctr EXCEPT ![c] = row]
  BY DEF Checkout
<1>2. PICK row \in {Contract("APPROVED", "PERIOD", seen[w].row.from, seen[w].row.to, r, NoRow)} :
          ctr' = [ctr EXCEPT ![c] = row]
  BY <1>1
<1>3. row.kind = "PERIOD"
  BY DEF Contract
<1>4. \A d \in Contracts : ctr'[d] # NoRow => ctr'[d].kind = "PERIOD"
  BY <1>2, <1>3 DEF PrepInv, PeriodOnly, IInv, TypeOK
<1>5. CASE ~Live(block, seen[w].block)
  <2>1. block' = block
    BY <1>5 DEF Checkout
  <2> QED
    BY <1>4, <2>1 DEF Checkout, KeepsPrepared
<1>6. CASE Live(block, seen[w].block)
  <2>1. PICK a \in Blocks : a = seen[w].block
    BY <1>6 DEF Live
  <2>2. block[a] \in BlockRows /\ Prepared(block[a]) /\ block[a].kind # "BLOCK" /\ block[a] # NoRow
    BY <1>0, <1>6, <2>1, FoundRow
  <2>3. block' = [block EXCEPT ![a].kind = "CONTRACT", ![a].leg = NewLeg]
    BY <1>6, <2>1 DEF Checkout
  <2>4. /\ \A b \in Blocks \ {a} : block'[b] = block[b]
        /\ block'[a].kind = "CONTRACT" /\ block'[a].to = block[a].to
        /\ block'[a].until = block[a].until
    BY <1>0, <2>2, <2>3 DEF Table, BlockRows
  <2>5. Prepared(block'[a])
    BY <2>2, <2>4 DEF Prepared, Buffer
  <2>6. \A b \in Blocks : KeepsPrepared(b)
    BY <2>4, <2>5 DEF KeepsPrepared
  <2> QED
    BY <1>4, <2>6 DEF Checkout
<1> QED
  BY <1>5, <1>6

\* Without contracts of long term nothing is renewed.
LEMMA NothingToRenew ==
    ASSUME PrepInv, NEW w \in Workers, NEW c \in Contracts, NEW d, NEW to, Renew(w, c, d, to)
    PROVE  FALSE
  BY DEF PrepInv, PeriodOnly, Renew, Holding

\* The contract in hand keeps its kind, whatever else is written in it.
LEMMA KindStands ==
    ASSUME PrepInv, NEW w \in Workers, NEW c \in Contracts, Holding(w, c),
           \/ ctr' = ctr
           \/ \E s : ctr' = [ctr EXCEPT ![c].status = s]
           \/ \E to : ctr' = [ctr EXCEPT ![c].to = to]
    PROVE  \A d \in Contracts : ctr'[d] # NoRow => ctr'[d].kind = "PERIOD"
<1>1. ctr[c] \in CtrRows /\ ctr[c] # NoRow /\ ctr[c].kind = "PERIOD"
  BY HeldContract DEF PrepInv, PeriodOnly
<1>2. \A d \in Contracts : ctr'[d] # NoRow => ctr[d] # NoRow /\ ctr'[d].kind = ctr[d].kind
  BY <1>1 DEF PrepInv, IInv, TypeOK, CtrRows
<1> QED
  BY <1>2 DEF PrepInv, PeriodOnly

LEMMA AgreedPrepared ==
    ASSUME PrepInv, NEW w \in Workers, NEW c \in Contracts,
           Submit(w, c) \/ Approve(w, c) \/ CancelContract(w, c)
    PROVE  /\ \A d \in Contracts : ctr'[d] # NoRow => ctr'[d].kind = "PERIOD"
           /\ Done(w)
           /\ \A b \in Blocks : KeepsPrepared(b)
<1>1. Holding(w, c) /\ Done(w) /\ \E s : ctr' = [ctr EXCEPT ![c].status = s]
  BY DEF Submit, Approve, Advance, CancelContract
<1>2. block' = block \/ block' = Release(block, seen[w].block)
  BY DEF Submit, Approve, Advance, CancelContract
<1>3. \A b \in Blocks : KeepsPrepared(b)
  BY <1>2, ReleasePrepared DEF KeepsPrepared, PrepInv
<1> QED
  BY <1>1, <1>3, KindStands

\* A block found and written again keeps its preparation.
LEMMA RewritePrepared ==
    ASSUME PrepInv, NEW a \in Blocks, NEW n \in BlockRows, Prepared(n), n.kind # "BLOCK",
           block' = Write(block, a, n)
    PROVE  \A b \in Blocks : KeepsPrepared(b)
  BY WritePrepared DEF KeepsPrepared

LEMMA ActivatePrepared ==
    ASSUME PrepInv, NEW w \in Workers, NEW c \in Contracts, Activate(w, c)
    PROVE  /\ \A d \in Contracts : ctr'[d] # NoRow => ctr'[d].kind = "PERIOD"
           /\ Done(w)
           /\ \A b \in Blocks : KeepsPrepared(b)
<1>1. Holding(w, c) /\ Done(w) /\ \E s : ctr' = [ctr EXCEPT ![c].status = s]
  BY DEF Activate
<1>2. CASE UNCHANGED block
  BY <1>1, <1>2, KindStands DEF KeepsPrepared
<1>3. CASE Live(block, seen[w].block) /\ ~UNCHANGED block
  <2>1. PICK a \in Blocks : a = seen[w].block
    BY <1>3 DEF Live
  <2>2. block[a] \in BlockRows /\ Prepared(block[a]) /\ block[a].kind # "BLOCK" /\ block[a] # NoRow
    BY <1>1, <1>3, <2>1, FoundRow DEF Holding
  <2> DEFINE moved == [block[a] EXCEPT !.from = now]
  <2>3. block' = Write(block, a, moved)
    BY <1>3, <2>1 DEF Activate
  <2>4. /\ moved \in BlockRows /\ moved.kind = block[a].kind /\ moved.to = block[a].to
        /\ moved.until = block[a].until
    BY <2>2 DEF BlockRows, PrepInv, IInv, TypeOK
  <2> HIDE DEF moved
  <2>5. Prepared(moved)
    BY <2>2, <2>4 DEF Prepared
  <2>6. \A b \in Blocks : KeepsPrepared(b)
    BY <2>2, <2>3, <2>4, <2>5, RewritePrepared
  <2> QED
    BY <1>1, <2>6, KindStands
<1> QED
  BY <1>2, <1>3 DEF Activate

LEMMA ExtendPrepared ==
    ASSUME PrepInv, NEW w \in Workers, NEW c \in Contracts, NEW to \in Nat, Extend(w, c, to)
    PROVE  /\ \A d \in Contracts : ctr'[d] # NoRow => ctr'[d].kind = "PERIOD"
           /\ Done(w)
           /\ \A b \in Blocks : KeepsPrepared(b)
<1>1. Holding(w, c) /\ Done(w) /\ ctr' = [ctr EXCEPT ![c].to = to]
  BY DEF Extend
<1>2. CASE ~Live(block, seen[w].block)
  <2>1. \A b \in Blocks : KeepsPrepared(b)
    BY <1>2 DEF Extend, KeepsPrepared
  <2> QED
    BY <1>1, <2>1, KindStands
<1>3. CASE Live(block, seen[w].block)
  <2>1. PICK a \in Blocks : a = seen[w].block
    BY <1>3 DEF Live
  <2>2. block[a] \in BlockRows /\ Prepared(block[a]) /\ block[a].kind # "BLOCK"
    BY <1>1, <1>3, <2>1, FoundRow DEF Holding
  <2>3. block' = Write(block, a, Extended(block[a], to))
    BY <1>3, <2>1 DEF Extend
  <2>4. Extended(block[a], to) \in BlockRows
    BY <2>2, MovedRowType
  <2>5. Prepared(Extended(block[a], to)) /\ Extended(block[a], to).kind # "BLOCK"
    BY <2>2, MovedPrepared
  <2>6. \A b \in Blocks : KeepsPrepared(b)
    BY <2>3, <2>4, <2>5, RewritePrepared
  <2> QED
    BY <1>1, <2>6, KindStands
<1> QED
  BY <1>2, <1>3

LEMMA FinishPrepared ==
    ASSUME PrepInv, NEW w \in Workers, NEW c \in Contracts, NEW s, NEW at \in Nat,
           Finish(w, c, s, at)
    PROVE  /\ \A d \in Contracts : ctr'[d] # NoRow => ctr'[d].kind = "PERIOD"
           /\ Done(w)
           /\ \A b \in Blocks : KeepsPrepared(b)
<1>1. Holding(w, c) /\ Done(w) /\ ctr' = [ctr EXCEPT ![c].status = s]
  BY DEF Finish
<1>2. PICK g \in {seen[w].leg} : g # NoRow
  BY DEF Finish
<1>3. PICK a \in First(LegBlocks(g)) :
          IF a = NoRow THEN UNCHANGED block
          ELSE \/ block' = block
               \/ block' = Write(block, a, Truncated(block[a], at))
               \/ block' = Write(block, a, Extended(block[a], at))
  BY <1>2 DEF Finish
<1>4. CASE block' = block
  BY <1>1, <1>4, KindStands DEF KeepsPrepared
<1>5. CASE a # NoRow /\ block' # block
  <2>1. a \in Blocks /\ block[a] # NoRow /\ block[a].leg = g
    BY <1>5 DEF First, LegBlocks
  <2>2. block[a] \in BlockRows /\ Prepared(block[a])
    BY <2>1, RowTypes DEF PrepInv
  <2>3. block[a].kind # "BLOCK"
    BY <1>2, <2>1, <2>2 DEF Prepared
  <2>4. PICK n \in {Truncated(block[a], at), Extended(block[a], at)} : block' = Write(block, a, n)
    BY <1>3, <1>5
  <2>5. n \in BlockRows /\ Prepared(n) /\ n.kind # "BLOCK"
    BY <2>2, <2>3, MovedRowType, MovedPrepared
  <2>6. \A b \in Blocks : KeepsPrepared(b)
    BY <2>1, <2>4, <2>5, RewritePrepared
  <2> QED
    BY <1>1, <2>6, KindStands
<1> QED
  BY <1>3, <1>4, <1>5

LEMMA SwapPrepared ==
    ASSUME PrepInv, NEW w \in Workers, NEW c \in Contracts, NEW v,
           SwapProposed(w, c, v) \/ SwapInForce(w, c, v)
    PROVE  /\ \A d \in Contracts : ctr'[d] # NoRow => ctr'[d].kind = "PERIOD"
           /\ Done(w)
           /\ \A b \in Blocks : KeepsPrepared(b)
<1>1. Holding(w, c) /\ Done(w) /\ ctr' = ctr
  BY DEF SwapProposed, SwapInForce
<1>2. block \in Table /\ now \in Nat
  BY DEF PrepInv, IInv, Sound, TypeOK
<1>3. CASE SwapProposed(w, c, v)
  <2>1. \E from, to : Allocate(Release(block, seen[w].block), v, "CONTRACT", from, to, NoRow, NewLeg)
    BY <1>3 DEF SwapProposed
  <2>2. PICK from, to : Allocate(Release(block, seen[w].block), v, "CONTRACT", from, to, NoRow, NewLeg)
    BY <2>1
  <2>3. \A b \in Blocks : KeepsPrepared(b)
    BY <2>2, ReleasePrepared, AllocatePrepared DEF PrepInv
  <2> QED
    BY <1>1, <2>3, KindStands
<1>4. CASE SwapInForce(w, c, v) /\ ~Live(block, seen[w].block)
  <2>1. \E from, to : Allocate(block, v, "CONTRACT", from, to, NoRow, NewLeg)
    BY <1>4 DEF SwapInForce
  <2>2. PICK from, to : Allocate(block, v, "CONTRACT", from, to, NoRow, NewLeg)
    BY <2>1
  <2>3. \A b \in Blocks : KeepsPrepared(b)
    BY <1>2, <2>2, AllocatePrepared
  <2> QED
    BY <1>1, <2>3, KindStands
<1>5. CASE SwapInForce(w, c, v) /\ Live(block, seen[w].block)
  <2>1. PICK a \in Blocks : a = seen[w].block
    BY <1>5 DEF Live
  <2>2. block[a] \in BlockRows /\ Prepared(block[a]) /\ block[a].kind # "BLOCK"
    BY <1>1, <1>5, <2>1, FoundRow DEF Holding
  <2>3. \E from, to : Allocate(Write(block, a, Truncated(block[a], now)), v, "CONTRACT",
                               from, to, NoRow, NewLeg)
    BY <1>5, <2>1 DEF SwapInForce
  <2>4. PICK from, to : Allocate(Write(block, a, Truncated(block[a], now)), v, "CONTRACT",
                                 from, to, NoRow, NewLeg)
    BY <2>3
  <2>5. PICK n \in {Truncated(block[a], now)} :
            Allocate(Write(block, a, n), v, "CONTRACT", from, to, NoRow, NewLeg)
    BY <2>4
  <2>6. n \in BlockRows /\ Prepared(n) /\ n.kind # "BLOCK"
    BY <1>2, <2>2, MovedRowType, MovedPrepared
  <2>7. \A b \in Blocks : KeepsPrepared(b)
    BY <2>5, <2>6, WritePrepared, AllocatePrepared
  <2> QED
    BY <1>1, <2>7, KindStands
<1> QED
  BY <1>3, <1>4, <1>5

\* Clients may ask for contracts by period only.
NoLongTerm == ContractKinds \subseteq {"PERIOD"}

LEMMA ProposePrepared ==
    ASSUME NoLongTerm, PrepInv, NEW c \in Contracts, NEW kind \in ContractKinds,
           NEW v, NEW p, Propose(c, kind, v, p)
    PROVE  /\ \A d \in Contracts : ctr'[d] # NoRow => ctr'[d].kind = "PERIOD"
           /\ seen' = seen
           /\ \A b \in Blocks : KeepsPrepared(b)
<1>1. PICK row \in {Contract("DRAFT", kind, p.from, p.to, NoRow, NoRow)} :
          ctr' = [ctr EXCEPT ![c] = row]
  BY DEF Propose, InsertContract
<1>2. row.kind = "PERIOD"
  BY DEF Contract, NoLongTerm
<1>3. \A d \in Contracts : ctr'[d] # NoRow => ctr'[d].kind = "PERIOD"
  BY <1>1, <1>2 DEF PrepInv, PeriodOnly, IInv, TypeOK
<1>4. Allocate(block, v, "CONTRACT", p.from, p.to, NoRow, NewLeg)
  BY DEF Propose, InsertContract
<1>5. block \in Table
  BY DEF PrepInv, IInv, Sound
<1>6. \A b \in Blocks : KeepsPrepared(b)
  BY <1>4, <1>5, AllocatePrepared
<1> QED
  BY <1>3, <1>6 DEF Propose

\* The requests and the office: what none of them is told of a contract.
LEMMA OfficePrepared ==
    ASSUME PrepInv,
           \/ \E r \in Reservations, p \in Periods :
                 Request(r, p) \/ \E v \in Vehicles : RequestConfirmed(r, p, v)
           \/ \E v \in Vehicles, p \in BlockPeriods : CreateBlock(v, p)
           \/ \E b \in Blocks : ReleaseBlock(b)
    PROVE  /\ ctr' = ctr /\ seen' = seen
           /\ \A b \in Blocks : KeepsPrepared(b)
<1>0. block \in Table
  BY DEF PrepInv, IInv, Sound
<1>1. ASSUME NEW r \in Reservations, NEW p \in Periods, Request(r, p)
      PROVE  ctr' = ctr /\ seen' = seen /\ \A b \in Blocks : KeepsPrepared(b)
  BY <1>1 DEF Request, KeepsPrepared
<1>2. ASSUME NEW r \in Reservations, NEW p \in Periods, NEW v \in Vehicles,
             RequestConfirmed(r, p, v)
      PROVE  ctr' = ctr /\ seen' = seen /\ \A b \in Blocks : KeepsPrepared(b)
  <2>1. Allocate(block, v, "RESERVATION", p.from, p.to, r, NoRow)
    BY <1>2 DEF RequestConfirmed
  <2>2. \A b \in Blocks : KeepsPrepared(b)
    BY <1>0, <2>1, AllocatePrepared
  <2> QED
    BY <1>2, <2>2 DEF RequestConfirmed
<1>3. ASSUME NEW v \in Vehicles, NEW p \in BlockPeriods, CreateBlock(v, p)
      PROVE  ctr' = ctr /\ seen' = seen /\ \A b \in Blocks : KeepsPrepared(b)
  <2>1. Allocate(block, v, "BLOCK", p.from, p.to, NoRow, NoRow)
    BY <1>3 DEF CreateBlock
  <2>2. PICK n \in Blocks :
            /\ Unused(n)
            /\ \A b \in Blocks : block'[b] = IF b = n
                    THEN NewRow(v, "BLOCK", p.from, p.to, NoRow, NoRow) ELSE block[b]
    BY <1>0, <2>1, Allocated
  <2>3. Prepared(NewRow(v, "BLOCK", p.from, p.to, NoRow, NoRow))
    BY NewRowReads DEF Prepared
  <2>4. \A b \in Blocks : KeepsPrepared(b)
    BY <2>2, <2>3 DEF KeepsPrepared
  <2> QED
    BY <1>3, <2>4 DEF CreateBlock
<1>4. ASSUME NEW n \in Blocks, ReleaseBlock(n)
      PROVE  ctr' = ctr /\ seen' = seen /\ \A b \in Blocks : KeepsPrepared(b)
  BY <1>0, <1>4 DEF ReleaseBlock, Release, Table, KeepsPrepared
<1> QED
  BY <1>1, <1>2, <1>3, <1>4

\* A copy taken or taken again.
LEMMA CopyPrepared ==
    ASSUME PrepInv, NEW w \in Workers, NEW s, seen' = [seen EXCEPT ![w] = s],
           UNCHANGED <<ctr, block>>, IInv',
           s.id \in Contracts => s.row.kind = "PERIOD",
           Live(block, s.block) => block[s.block].kind # "BLOCK"
    PROVE  PrepInv'
<1>1. \A x \in Workers : seen'[x] = IF x = w THEN s ELSE seen[x]
  BY DEF PrepInv, IInv, TypeOK
<1>2. PeriodOnly'
  BY <1>1 DEF PrepInv, PeriodOnly
<1>3. FoundIsNoBlock'
  BY <1>1 DEF PrepInv, FoundIsNoBlock, Live
<1> QED
  BY <1>2, <1>3 DEF PrepInv, Prepared

LEMMA FoundInPrepared ==
    ASSUME PrepInv, NEW w \in Workers, NEW c \in Contracts, NEW row, row.kind = "PERIOD",
           NEW renewed, FoundIn(w, c, row, renewed), UNCHANGED <<ctr, block>>, IInv'
    PROVE  PrepInv'
<1>1. PICK g \in First(OpenLegs(c)) : \E b \in First(LegBlocks(g)) :
          seen' = [seen EXCEPT ![w] =
                      [id |-> c, row |-> row, leg |-> g,
                       since |-> IF g = NoRow THEN NoRow ELSE leg[g].from, block |-> b,
                       renewed |-> renewed]]
  BY DEF FoundIn
<1>2. PICK b \in First(LegBlocks(g)) :
          seen' = [seen EXCEPT ![w] =
                      [id |-> c, row |-> row, leg |-> g,
                       since |-> IF g = NoRow THEN NoRow ELSE leg[g].from, block |-> b,
                       renewed |-> renewed]]
  BY <1>1
<1>3. Live(block, b) => block[b].kind # "BLOCK"
  <2>1. Live(block, b) => block[b].leg # NoRow
    BY NoRowAssumption DEF First, LegBlocks, Live
  <2> QED
    BY <2>1 DEF PrepInv, Prepared, Live
<1> DEFINE s == [id |-> c, row |-> row, leg |-> g,
                 since |-> IF g = NoRow THEN NoRow ELSE leg[g].from, block |-> b,
                 renewed |-> renewed]
<1>4. seen' = [seen EXCEPT ![w] = s] /\ s.row = row /\ s.block = b
  BY <1>2
<1> HIDE DEF s
<1>5. (s.id \in Contracts => s.row.kind = "PERIOD") /\ (Live(block, s.block) => block[s.block].kind # "BLOCK")
  BY <1>3, <1>4
<1> QED
  BY <1>4, <1>5, CopyPrepared

LEMMA ReadsPrepared ==
    ASSUME PrepInv, IInv', NEW w \in Workers,
           \/ \E r \in Reservations : LoadReservation(w, r)
           \/ \E c \in Contracts : LoadContract(w, c)
           \/ Look(w)
    PROVE  PrepInv'
<1>0. UNCHANGED <<ctr, block>>
  BY DEF LoadReservation, LoadContract, Look
<1>1. ASSUME NEW b, NEW x, x # NoRow, b \in First(ResvBlocks(x)) \/ b \in First(LegBlocks(x))
      PROVE  Live(block, b) => block[b].kind # "BLOCK"
  <2>1. Live(block, b) => block[b].resv # NoRow \/ block[b].leg # NoRow
    BY <1>1, NoRowAssumption DEF First, ResvBlocks, LegBlocks, Live
  <2> QED
    BY <2>1 DEF PrepInv, Prepared, Live
<1>2. ASSUME NEW r \in Reservations, LoadReservation(w, r)
      PROVE  PrepInv'
  <2>1. PICK b \in First(ResvBlocks(r)) :
            seen' = [seen EXCEPT ![w] = [id |-> r, row |-> resv[r], leg |-> NoRow,
                                         since |-> NoRow, block |-> b, renewed |-> FALSE]]
    BY <1>2 DEF LoadReservation
  <2> DEFINE s == [id |-> r, row |-> resv[r], leg |-> NoRow,
                   since |-> NoRow, block |-> b, renewed |-> FALSE]
  <2>2. s.id \notin Contracts /\ s.block = b /\ r # NoRow
    BY NoRowAssumption
  <2>3. seen' = [seen EXCEPT ![w] = s]
    BY <2>1
  <2> HIDE DEF s
  <2>4. Live(block, s.block) => block[s.block].kind # "BLOCK"
    BY <1>1, <2>1, <2>2
  <2> QED
    BY <1>0, <2>2, <2>3, <2>4, CopyPrepared
<1>3. ASSUME NEW c \in Contracts, LoadContract(w, c)
      PROVE  PrepInv'
  <2>1. ctr[c].kind = "PERIOD"
    BY <1>3 DEF LoadContract, PrepInv, PeriodOnly
  <2>2. FoundIn(w, c, ctr[c], RenewedAlready(c))
    BY <1>3 DEF LoadContract
  <2> QED
    BY <1>0, <2>1, <2>2, FoundInPrepared
<1>4. CASE Look(w)
  <2>0. seen[w] # NoRow /\ seen[w] \in ResvCopies \cup CtrCopies
    BY <1>4 DEF Look, Idle, PrepInv, IInv, TypeOK, RefTo
  <2>1. ASSUME NEW x, x # NoRow, NEW b \in First(ResvBlocks(x)) \cup First(LegBlocks(x)),
               seen' = [seen EXCEPT ![w].block = b]
        PROVE  PrepInv'
    <3> DEFINE s == [seen[w] EXCEPT !.block = b]
    <3>1. s.id = seen[w].id /\ s.row = seen[w].row /\ s.block = b
      <4>1. CASE seen[w] \in ResvCopies
        BY <4>1 DEF ResvCopies
      <4>2. CASE seen[w] \in CtrCopies
        BY <4>2 DEF CtrCopies
      <4> QED
        BY <2>0, <4>1, <4>2
    <3>2. seen' = [seen EXCEPT ![w] = s]
      BY <2>1 DEF PrepInv, IInv, TypeOK
    <3> HIDE DEF s
    <3>3. s.id \in Contracts => s.row.kind = "PERIOD"
      BY <2>0, <3>1 DEF PrepInv, PeriodOnly
    <3>4. Live(block, s.block) => block[s.block].kind # "BLOCK"
      BY <1>1, <2>1, <3>1
    <3> QED
      BY <1>0, <3>2, <3>3, <3>4, CopyPrepared
  <2>2. CASE /\ seen[w].id \in Reservations
             /\ \E b \in First(ResvBlocks(seen[w].id)) : seen' = [seen EXCEPT ![w].block = b]
    <3>1. seen[w].id # NoRow
      BY <2>2, NoRowAssumption
    <3> QED
      BY <2>1, <2>2, <3>1
  <2>3. CASE /\ seen[w].leg # NoRow
             /\ \E b \in First(LegBlocks(seen[w].leg)) : seen' = [seen EXCEPT ![w].block = b]
    BY <2>1, <2>3
  <2>4. CASE /\ seen[w].id \in Contracts
             /\ \E renewed \in {seen[w].renewed, RenewedAlready(seen[w].id)} :
                   FoundIn(w, seen[w].id, seen[w].row, renewed)
    <3>1. seen[w].row.kind = "PERIOD"
      BY <2>0, <2>4 DEF PrepInv, PeriodOnly
    <3> QED
      BY <1>0, <2>4, <3>1, FoundInPrepared
  <2> QED
    BY <1>4, <2>2, <2>3, <2>4 DEF Look
<1> QED
  BY <1>2, <1>3, <1>4

-----------------------------------------------------------------------------
(* The whole step *)

LEMMA StepPrepared ==
    ASSUME NoLongTerm, PrepInv, [Next]_vars
    PROVE  PrepInv'
<1>0. IInv'
  BY StepInv DEF PrepInv
<1>1. ASSUME NEW w \in Workers, NEW r \in Reservations, ReservationStep(w, r)
      PROVE  PrepInv'
  <2>1. CASE LoadReservation(w, r)
    BY <1>0, <2>1, ReadsPrepared
  <2>2. CASE \/ \E v \in Vehicles : Confirm(w, r, v)
             \/ \E v \in Vehicles \cup {NoRow}, p \in Periods : Update(w, r, v, p)
             \/ \E s \in {"CANCELLED", "NO_SHOW"} : Cancel(w, r, s)
    <3>1. ctr' = ctr /\ Done(w) /\ \A b \in Blocks : KeepsPrepared(b)
      <4>1. ASSUME NEW v \in Vehicles, Confirm(w, r, v)
            PROVE  ctr' = ctr /\ Done(w) /\ \A b \in Blocks : KeepsPrepared(b)
        BY <4>1, ReservationPrepared
      <4>2. ASSUME NEW v \in Vehicles \cup {NoRow}, NEW p \in Periods, Update(w, r, v, p)
            PROVE  ctr' = ctr /\ Done(w) /\ \A b \in Blocks : KeepsPrepared(b)
        BY <4>2, ReservationPrepared
      <4>3. ASSUME NEW s \in {"CANCELLED", "NO_SHOW"}, Cancel(w, r, s)
            PROVE  ctr' = ctr /\ Done(w) /\ \A b \in Blocks : KeepsPrepared(b)
        BY <4>3, ReservationPrepared
      <4> QED
        BY <2>2, <4>1, <4>2, <4>3
    <3>2. \A c \in Contracts : ctr'[c] # NoRow => ctr'[c].kind = "PERIOD"
      BY <3>1 DEF PrepInv, PeriodOnly
    <3> QED
      BY <1>0, <3>1, <3>2, PrepKept
  <2>3. ASSUME NEW c \in Contracts, Checkout(w, r, c)
        PROVE  PrepInv'
    BY <1>0, <2>3, CheckoutPrepared, PrepKept
  <2> QED
    BY <1>1, <2>1, <2>2, <2>3 DEF ReservationStep
<1>2. ASSUME NEW w \in Workers, NEW c \in Contracts, ContractStep(w, c)
      PROVE  PrepInv'
  <2>1. CASE LoadContract(w, c)
    BY <1>0, <2>1, ReadsPrepared
  <2>2. CASE Submit(w, c) \/ Approve(w, c) \/ CancelContract(w, c)
    BY <1>0, <2>2, AgreedPrepared, PrepKept
  <2>3. CASE Activate(w, c)
    BY <1>0, <2>3, ActivatePrepared, PrepKept
  <2>4. ASSUME NEW v \in Vehicles, SwapProposed(w, c, v) \/ SwapInForce(w, c, v)
        PROVE  PrepInv'
    BY <1>0, <2>4, SwapPrepared, PrepKept
  <2>5. ASSUME NEW to \in 0 .. MaxEnd, Extend(w, c, to)
        PROVE  PrepInv'
    <3>1. to \in Nat
      BY TimeAssumption
    <3> QED
      BY <1>0, <2>5, <3>1, ExtendPrepared, PrepKept
  <2>6. ASSUME NEW d \in Contracts, NEW to \in 0 .. MaxEnd, Renew(w, c, d, to)
        PROVE  PrepInv'
    BY <2>6, NothingToRenew
  <2>7. ASSUME NEW s \in {"CLOSED", "TERMINATED"}, NEW at \in 0 .. MaxTime, Finish(w, c, s, at)
        PROVE  PrepInv'
    <3>1. at \in Nat
      BY TimeAssumption
    <3> QED
      BY <1>0, <2>7, <3>1, FinishPrepared, PrepKept
  <2> QED
    BY <1>2, <2>1, <2>2, <2>3, <2>4, <2>5, <2>6, <2>7 DEF ContractStep
<1>3. ASSUME NEW w \in Workers, Look(w)
      PROVE  PrepInv'
  BY <1>0, <1>3, ReadsPrepared
<1>4. CASE \/ \E w \in Workers : Abandon(w)
           \/ \E late \in SUBSET Reservations : Expire(late)
           \/ Tick
           \/ UNCHANGED vars
           \/ \E c \in Contracts, v \in Vehicles, t \in {"DELIVERY", "RETURN"} :
                 OpenInspection(c, v, t) \/ CompleteInspection(c, v, t)
           \/ \E v \in Vehicles, to \in ManualStatuses : ChangeOperational(v, to)
  <2>1. ctr' = ctr /\ block' = block /\ (seen' = seen \/ \E w \in Workers : Done(w))
    BY <1>4 DEF Abandon, Expire, Tick, vars, OpenInspection, CompleteInspection,
                ChangeOperational
  <2>2. /\ \A c \in Contracts : ctr'[c] # NoRow => ctr'[c].kind = "PERIOD"
        /\ \A b \in Blocks : KeepsPrepared(b)
    BY <2>1 DEF PrepInv, PeriodOnly, KeepsPrepared
  <2> QED
    BY <1>0, <2>1, <2>2, PrepKept, SMTT(30)
<1>5. CASE \/ \E r \in Reservations, p \in Periods :
                 Request(r, p) \/ \E v \in Vehicles : RequestConfirmed(r, p, v)
           \/ \E v \in Vehicles, p \in BlockPeriods : CreateBlock(v, p)
           \/ \E b \in Blocks : ReleaseBlock(b)
  <2>1. ctr' = ctr /\ seen' = seen /\ \A b \in Blocks : KeepsPrepared(b)
    BY <1>5, OfficePrepared
  <2>2. \A c \in Contracts : ctr'[c] # NoRow => ctr'[c].kind = "PERIOD"
    BY <2>1 DEF PrepInv, PeriodOnly
  <2> QED
    BY <1>0, <2>1, <2>2, PrepKept
<1>6. ASSUME NEW c \in Contracts, NEW k \in ContractKinds, NEW v \in Vehicles, NEW p \in Periods,
             Propose(c, k, v, p)
      PROVE  PrepInv'
  BY <1>0, <1>6, ProposePrepared, PrepKept
<1>7. CASE Direct
  BY <1>4, <1>5, <1>6, <1>7 DEF Direct
<1> QED
  BY <1>1, <1>2, <1>3, <1>4, <1>7 DEF Next

LEMMA InitPrepared == Init => PrepInv
<1> SUFFICES ASSUME Init PROVE PrepInv
  OBVIOUS
<1>1. /\ \A c \in Contracts : ctr[c] = NoRow
      /\ \A b \in Blocks : block[b] = NoRow
      /\ \A w \in Workers : seen[w] = NoRow
  BY DEF Init
<1> QED
  BY <1>1, InitInv DEF PrepInv, PeriodOnly, FoundIsNoBlock, Prepared

LEMMA PreparedTellsReturn == PrepInv => EarlyReturnFits
<1> SUFFICES ASSUME PrepInv,
                    NEW g \in Legs, NEW b \in Blocks,
                    leg[g] # NoRow, b \in LegBlocks(g), now <= block[b].to
             PROVE  Fits(block, b, Truncated(block[b], now))
  BY DEF EarlyReturnFits
<1> DEFINE n == block[b]
           stop == IF now <= n.from THEN n.from + 1 ELSE now
<1>1. n \in BlockRows /\ n # NoRow /\ n.leg = g /\ g # NoRow /\ now \in Nat
  BY NoRowAssumption, RowTypes DEF PrepInv, IInv, TypeOK, LegBlocks
<1>2. n.from \in Nat /\ n.to \in Nat /\ n.until \in Nat
  BY <1>1 DEF BlockRows
<1>3. n.from < n.to /\ n.to <= n.until
  BY <1>1 DEF PrepInv, IInv, Sound, PeriodCheck
<1>4. n.until = n.to + Prep
  BY <1>1 DEF PrepInv, Prepared, Buffer
<1>5. Buffer(n.kind) = Prep
  BY <1>1 DEF PrepInv, Prepared, Buffer
<1>6. stop \in Nat /\ n.from < stop /\ stop <= n.to
  BY <1>1, <1>2, <1>3
<1> HIDE DEF n, stop
<1> DEFINE cut == [n EXCEPT !.to = stop, !.until = stop + Prep]
<1>7. /\ cut.vehicle = n.vehicle /\ cut.from = n.from
      /\ cut.to = stop /\ cut.until = stop + Prep
  BY <1>1 DEF BlockRows
<1>8. Truncated(block[b], now) = cut
  BY <1>5 DEF Truncated, n, stop
<1> HIDE DEF cut
<1>9. PeriodCheck(cut)
  BY <1>6, <1>7, PrepAssumption DEF PeriodCheck
<1>10. ASSUME NEW o \in Blocks \ {b}, block[o] # NoRow, Overlap(cut, block[o])
       PROVE  FALSE
  <2>1. ~Overlap(n, block[o])
    BY <1>1, <1>10 DEF PrepInv, IInv, Sound, Disjoint, n
  <2>2. block[o].from \in Nat
    BY <1>10, RowTypes DEF PrepInv, BlockRows
  <2>3. stop + Prep <= n.until
    BY <1>2, <1>4, <1>6, PrepAssumption
  <2>4. block[o].from < stop + Prep => block[o].from < n.until
    BY <1>2, <1>6, <2>2, <2>3, PrepAssumption
  <2> QED
    BY <1>7, <1>10, <2>1, <2>4 DEF Overlap
<1> QED
  BY <1>8, <1>9, <1>10 DEF Fits

\* The preparation of every block, while no contract of long term is asked
\* for: PrepInv is what the two theorems below rest on.
THEOREM PreparationInductive ==
    ASSUME NoLongTerm
    PROVE  Spec => []PrepInv
<1>1. PrepInv /\ [Next]_vars => PrepInv'
  BY StepPrepared
<1> QED
  BY <1>1, InitPrepared, PTL DEF Spec

\* Until a contract of long term is renewed a car may come back early: the
\* truncate() of finish() is refused by no later block, whatever handlers race.
THEOREM EarlyReturnAlwaysFits ==
    ASSUME NoLongTerm
    PROVE  Spec => []EarlyReturnFits
  BY PreparationInductive, PreparedTellsReturn, PTL

\* Renewal alone takes the preparation of a block away: without it every block
\* keeps its own, through extensions, truncations, swaps and stale reads.
THEOREM PreparationStays ==
    ASSUME NoLongTerm
    PROVE  Spec => []PreparationKept
<1>1. PrepInv => PreparationKept
  BY DEF PrepInv, Prepared, PreparationKept
<1> QED
  BY <1>1, PreparationInductive, PTL

-----------------------------------------------------------------------------
(* What the rows of a rental tell *)

\* The rental that contract c is told under, and the one that block b is of.
RentalOf(c) == IF ctr[c].resv = NoRow THEN c ELSE ctr[c].resv
OwnerOf(n) == IF n.leg = NoRow THEN n.resv ELSE RentalOf(leg[n.leg].ctr)

PromiseOf(n) == [car |-> n.vehicle, from |-> n.from, to |-> n.to]

Stand(c) == ctr[c] # NoRow /\ (ctr[c].resv = NoRow \/ ctr[c].status # "CANCELLED")

ContractsTell ==
    \A c \in Contracts : Stand(c) =>
        /\ ctr[c].status \in Finished => Rented[RentalOf(c)] = Promise!At("over", NoRow)
        /\ \A g \in Legs, b \in Blocks :
              OpenFor(leg[g], c) /\ On(block[b], g) =>
                  Rented[RentalOf(c)] =
                      Promise!At(IF ctr[c].status = "ACTIVE" THEN "out" ELSE "held",
                                 PromiseOf(block[b]))

ReservationsTell ==
    \A r \in Reservations :
        /\ resv[r] = NoRow => Rented[r] = Promise!At("none", NoRow)
        /\ resv[r] # NoRow =>
              /\ resv[r].status = "REQUESTED" => Rented[r] = Promise!At("asked", NoRow)
              /\ resv[r].status = "EXPIRED" => Rented[r] = Promise!At("lapsed", NoRow)
              /\ resv[r].status \in {"CANCELLED", "NO_SHOW"} =>
                    Rented[r] = Promise!At("over", NoRow)
              /\ resv[r].status = "CONFIRMED" =>
                    \A b \in Blocks : From(block[b], r) =>
                        Rented[r] = Promise!At("held", PromiseOf(block[b]))

OthersTell ==
    \A c \in Contracts : ctr[c] = NoRow \/ ctr[c].resv # NoRow =>
        Rented[c] = Promise!At("none", NoRow)

\* The stories of a contract and of a reservation, told by their rows.
Tell == ContractsTell /\ ReservationsTell /\ OthersTell

LEMMA ContractFound ==
    ASSUME HoldInv, NEW c \in Contracts, ctr[c] # NoRow, ctr[c].resv # NoRow,
           ctr[c].status # "CANCELLED"
    PROVE  /\ ContractsFrom(ctr[c].resv) = {c}
           /\ ctr[c].resv \in Reservations /\ resv[ctr[c].resv] # NoRow
           /\ resv[ctr[c].resv].status = "CHECKED_OUT"
<1>0. IInv /\ Told
  BY DEF HoldInv, SerialInv
<1>1. ctr[c].resv \in Reservations /\ resv[ctr[c].resv] # NoRow
  BY <1>0, RowTypes DEF CtrRows, RefTo, IInv, Links
<1>2. ContractsFrom(ctr[c].resv) = {c}
  BY <1>0 DEF ContractsFrom, Told, OneContractEach
<1>3. resv[ctr[c].resv].status = "CHECKED_OUT"
  BY <1>0, <1>1 DEF Told, CheckedOutHasContract
<1> QED
  BY <1>1, <1>2, <1>3

\* The blocks of a contract that stands.
LEMMA ContractBlocks ==
    ASSUME HoldInv, NEW c \in Contracts, Stand(c)
    PROVE  /\ ctr[c].status \in Finished => OpenLegs(c) = {}
           /\ \A g \in Legs, b \in Blocks :
                 OpenFor(leg[g], c) /\ On(block[b], g) =>
                     /\ ctr[c].status \notin Finished
                     /\ OpenLegs(c) = {g} /\ LegBlocks(g) = {b}
           /\ ctr[c].status \notin Finished =>
                 \E g \in Legs, b \in Blocks : OpenFor(leg[g], c) /\ On(block[b], g)
<1>1. CtrKept(c, ctr[c], leg, block) /\ ctr[c] # NoRow
  BY DEF HoldInv, Kept, ContractsKept, Stand
<1>2. ctr[c].status \in Finished => OpenLegs(c) = {}
  BY <1>1 DEF CtrKept, OpenLegs, OpenFor
<1>3. ASSUME NEW g \in Legs, NEW b \in Blocks, OpenFor(leg[g], c), On(block[b], g)
      PROVE  ctr[c].status \notin Finished /\ OpenLegs(c) = {g} /\ LegBlocks(g) = {b}
  <2>1. ctr[c].status \notin Finished
    BY <1>1, <1>3 DEF CtrKept
  <2>2. PICK h \in Legs, a \in Blocks :
            /\ OpenFor(leg[h], c) /\ \A k \in Legs : OpenFor(leg[k], c) => k = h
            /\ On(block[a], h) /\ \A d \in Blocks : On(block[d], h) => d = a
    BY <1>1, <2>1 DEF CtrKept
  <2>3. h = g /\ a = b
    BY <1>3, <2>2
  <2>4. OpenLegs(c) = {g}
    BY <2>2, <2>3 DEF OpenLegs, OpenFor
  <2>5. LegBlocks(g) = {b}
    BY <2>2, <2>3, NoRowAssumption DEF LegBlocks, On
  <2> QED
    BY <2>1, <2>4, <2>5
<1>4. ctr[c].status \notin Finished =>
          \E g \in Legs, b \in Blocks : OpenFor(leg[g], c) /\ On(block[b], g)
  BY <1>1 DEF CtrKept
<1> QED
  BY <1>2, <1>3, <1>4

LEMMA BlocksPromised ==
    ASSUME NEW x \in Reservations \cup Contracts
    PROVE  /\ RentBlocks(x) = {} => Rented[x].promise = NoRow
           /\ \A b : RentBlocks(x) = {b} => Rented[x].promise = PromiseOf(block[b])
           /\ Rented[x] = Promise!At(RentStage(x), Rented[x].promise)
  BY DEF Rented, RentPromise, PromiseOf, Promise!At

LEMMA ContractTold1 ==
    ASSUME HoldInv, NEW c \in Contracts, Stand(c)
    PROVE  /\ RentalOf(c) \in Reservations \cup Contracts
           /\ RentStage(RentalOf(c)) = ContractStage(c)
           /\ RentBlocks(RentalOf(c)) = UNION {LegBlocks(g) : g \in OpenLegs(c)}
<1>1. CASE ctr[c].resv = NoRow
  <2>1. c \notin Reservations
    BY NoRowAssumption
  <2> QED
    BY <1>1, <2>1 DEF RentalOf, RentStage, RentBlocks, Stand
<1>2. CASE ctr[c].resv # NoRow
  <2> DEFINE r == ctr[c].resv
  <2>1. ContractsFrom(r) = {c} /\ r \in Reservations /\ resv[r] # NoRow
        /\ resv[r].status = "CHECKED_OUT"
    BY <1>2, ContractFound DEF Stand
  <2>2. RentalOf(c) = r
    BY <1>2 DEF RentalOf
  <2> HIDE DEF r
  <2>3. RentStage(r) = ContractStage(c)
    <3>1. ContractStage(CHOOSE d \in ContractsFrom(r) : TRUE) = ContractStage(c)
      BY <2>1
    <3> QED
      BY <2>1, <3>1 DEF RentStage, ReservationStage
  <2>4. RentBlocks(r) = UNION {LegBlocks(g) : g \in UNION {OpenLegs(d) : d \in ContractsFrom(r)}}
    BY <2>1 DEF RentBlocks
  <2>5. UNION {OpenLegs(d) : d \in ContractsFrom(r)} = OpenLegs(c)
    BY <2>1
  <2> QED
    BY <2>1, <2>2, <2>3, <2>4, <2>5
<1> QED
  BY <1>1, <1>2

LEMMA ContractsTold == HoldInv => ContractsTell
<1> SUFFICES ASSUME HoldInv, NEW c \in Contracts, Stand(c)
             PROVE  /\ ctr[c].status \in Finished => Rented[RentalOf(c)] = Promise!At("over", NoRow)
                    /\ \A g \in Legs, b \in Blocks :
                          OpenFor(leg[g], c) /\ On(block[b], g) =>
                              Rented[RentalOf(c)] =
                                  Promise!At(IF ctr[c].status = "ACTIVE" THEN "out" ELSE "held",
                                             PromiseOf(block[b]))
  BY DEF ContractsTell
<1> DEFINE x == RentalOf(c)
<1>1. /\ x \in Reservations \cup Contracts /\ RentStage(x) = ContractStage(c)
      /\ RentBlocks(x) = UNION {LegBlocks(g) : g \in OpenLegs(c)}
  BY ContractTold1
<1> HIDE DEF x
<1>2. ctr[c] \in CtrRows
  BY RowTypes DEF HoldInv, SerialInv, Stand
<1>3. ASSUME ctr[c].status \in Finished
      PROVE  Rented[x] = Promise!At("over", NoRow)
  <2>1. RentBlocks(x) = {}
    BY <1>1, <1>3, ContractBlocks
  <2>2. ContractStage(c) = "over"
    BY <1>3 DEF ContractStage, Finished, Proposal
  <2> QED
    BY <1>1, <2>1, <2>2, BlocksPromised
<1>4. ASSUME NEW g \in Legs, NEW b \in Blocks, OpenFor(leg[g], c), On(block[b], g)
      PROVE  Rented[x] = Promise!At(IF ctr[c].status = "ACTIVE" THEN "out" ELSE "held",
                                    PromiseOf(block[b]))
  <2>1. ctr[c].status \notin Finished /\ OpenLegs(c) = {g} /\ LegBlocks(g) = {b}
    BY <1>4, ContractBlocks
  <2>2. RentBlocks(x) = {b}
    BY <1>1, <2>1
  <2>3. ContractStage(c) = IF ctr[c].status = "ACTIVE" THEN "out" ELSE "held"
    BY <1>2, <2>1 DEF ContractStage, CtrRows, CtrStatuses, Finished, Proposal
  <2> QED
    BY <1>1, <2>2, <2>3, BlocksPromised
<1> QED
  BY <1>3, <1>4 DEF x

LEMMA ReservationsTold == HoldInv => ReservationsTell
<1> SUFFICES ASSUME HoldInv, NEW r \in Reservations
             PROVE  /\ resv[r] = NoRow => Rented[r] = Promise!At("none", NoRow)
                    /\ resv[r] # NoRow =>
                          /\ resv[r].status = "REQUESTED" => Rented[r] = Promise!At("asked", NoRow)
                          /\ resv[r].status = "EXPIRED" => Rented[r] = Promise!At("lapsed", NoRow)
                          /\ resv[r].status \in {"CANCELLED", "NO_SHOW"} =>
                                Rented[r] = Promise!At("over", NoRow)
                          /\ resv[r].status = "CONFIRMED" =>
                                \A b \in Blocks : From(block[b], r) =>
                                    Rented[r] = Promise!At("held", PromiseOf(block[b]))
  BY DEF ReservationsTell
<1>1. ResvKept(r, resv[r], block) /\ Told /\ IInv
  BY DEF HoldInv, SerialInv, Kept, ReservationsKept
<1>2. ASSUME resv[r] = NoRow \/ resv[r].status # "CHECKED_OUT"
      PROVE  ContractsFrom(r) = {}
  <2>1. \A c \in Contracts : ctr[c] # NoRow /\ ctr[c].resv = r => resv[r] # NoRow
    BY <1>1, NoRowAssumption DEF IInv, Links
  <2> QED
    BY <1>1, <1>2, <2>1 DEF ContractsFrom, Told, CheckedOutHasContract
<1>3. ASSUME resv[r] = NoRow \/ resv[r].status \notin {"CONFIRMED", "CHECKED_OUT"}
      PROVE  Rented[r].promise = NoRow
  <2>1. ResvBlocks(r) = {}
    BY <1>1, <1>3 DEF ResvKept, ResvBlocks, From
  <2>2. RentBlocks(r) = {}
    BY <1>2, <1>3, <2>1 DEF RentBlocks
  <2> QED
    BY <2>2, BlocksPromised
<1>4. ASSUME resv[r] # NoRow, resv[r].status = "CONFIRMED", NEW b \in Blocks, From(block[b], r)
      PROVE  Rented[r].promise = PromiseOf(block[b])
  <2>1. \A a \in Blocks : From(block[a], r) => a = b
    BY <1>1, <1>4 DEF ResvKept
  <2>2. ResvBlocks(r) = {b}
    BY <1>4, <2>1 DEF ResvBlocks, From
  <2>3. RentBlocks(r) = {b}
    BY <1>2, <1>4, <2>2 DEF RentBlocks
  <2> QED
    BY <2>3, BlocksPromised
<1>5. /\ resv[r] = NoRow => RentStage(r) = "none"
      /\ resv[r] # NoRow =>
            /\ resv[r].status = "REQUESTED" => RentStage(r) = "asked"
            /\ resv[r].status = "EXPIRED" => RentStage(r) = "lapsed"
            /\ resv[r].status \in {"CANCELLED", "NO_SHOW"} => RentStage(r) = "over"
            /\ resv[r].status = "CONFIRMED" => RentStage(r) = "held"
  BY DEF RentStage, ReservationStage
<1>6. Rented[r] = Promise!At(RentStage(r), Rented[r].promise)
  BY BlocksPromised
<1> QED
  BY <1>3, <1>4, <1>5, <1>6

LEMMA OthersTold == OthersTell
<1> SUFFICES ASSUME NEW c \in Contracts, ctr[c] = NoRow \/ ctr[c].resv # NoRow
             PROVE  Rented[c] = Promise!At("none", NoRow)
  BY DEF OthersTell
<1>1. c \notin Reservations
  BY NoRowAssumption
<1>2. RentBlocks(c) = {} /\ RentStage(c) = "none"
  BY <1>1 DEF RentBlocks, RentStage
<1> QED
  BY <1>2, BlocksPromised

LEMMA AllTold == HoldInv => Tell
  BY ContractsTold, ReservationsTold, OthersTold DEF Tell

\* Whoever is promised a car has a block of it.
Backed ==
    \A x \in Reservations \cup Contracts : Rented[x].promise # NoRow =>
        \E b \in Blocks : /\ block[b] # NoRow /\ OwnerOf(block[b]) = x
                          /\ Rented[x].promise = PromiseOf(block[b])

LEMMA AllBacked == HoldInv => Backed
<1> SUFFICES ASSUME HoldInv, NEW x \in Reservations \cup Contracts, Rented[x].promise # NoRow
             PROVE  \E b \in Blocks : /\ block[b] # NoRow /\ OwnerOf(block[b]) = x
                                      /\ Rented[x].promise = PromiseOf(block[b])
  BY DEF Backed
<1>0. Tell /\ Told /\ IInv /\ \A s, p : Promise!At(s, p).promise = p
  BY AllTold DEF HoldInv, SerialInv, Promise!At
<1>1. ASSUME NEW c \in Contracts, Stand(c), x = RentalOf(c)
      PROVE  \E b \in Blocks : /\ block[b] # NoRow /\ OwnerOf(block[b]) = x
                               /\ Rented[x].promise = PromiseOf(block[b])
  <2>1. ctr[c].status \notin Finished
    BY <1>0, <1>1 DEF Tell, ContractsTell
  <2>2. PICK g \in Legs, b \in Blocks : OpenFor(leg[g], c) /\ On(block[b], g)
    BY <1>1, <2>1, ContractBlocks
  <2>3. Rented[x].promise = PromiseOf(block[b])
    BY <1>0, <1>1, <2>2 DEF Tell, ContractsTell
  <2>4. block[b] # NoRow /\ OwnerOf(block[b]) = x
    BY <1>1, <2>2, NoRowAssumption DEF OwnerOf, On, OpenFor
  <2> QED
    BY <2>3, <2>4
<1>2. CASE x \in Reservations /\ resv[x] # NoRow /\ resv[x].status = "CHECKED_OUT"
  <2>1. PICK c \in Contracts : ctr[c] # NoRow /\ ctr[c].resv = x /\ ctr[c].status # "CANCELLED"
    BY <1>0, <1>2 DEF Told, CheckedOutHasContract
  <2> QED
    BY <1>1, <1>2, <2>1, NoRowAssumption DEF Stand, RentalOf
<1>3. CASE x \in Reservations /\ (resv[x] = NoRow \/ resv[x].status # "CHECKED_OUT")
  <2>1. resv[x] # NoRow => resv[x].status \in ResvStatuses
    BY <1>0, <1>3, RowTypes DEF ResvRows
  <2>2. resv[x] # NoRow /\ resv[x].status = "CONFIRMED"
    BY <1>0, <1>3, <2>1 DEF Tell, ReservationsTell, ResvStatuses
  <2>3. PICK b \in Blocks : From(block[b], x) /\ HeldAs(block[b], resv[x])
    BY <1>3, <2>2 DEF HoldInv, Kept, ReservationsKept, ResvKept
  <2>4. Rented[x].promise = PromiseOf(block[b])
    BY <1>0, <1>3, <2>2, <2>3 DEF Tell, ReservationsTell
  <2>5. block[b].leg = NoRow
    BY <2>3 DEF HeldAs, From, HoldInv, Kept, BlocksKept, Referred
  <2> QED
    BY <2>3, <2>4, <2>5 DEF OwnerOf, From
<1>4. CASE x \in Contracts
  <2>1. ctr[x] # NoRow /\ ctr[x].resv = NoRow
    BY <1>0, <1>4 DEF Tell, OthersTell
  <2> QED
    BY <1>1, <1>4, <2>1 DEF Stand, RentalOf
<1> QED
  BY <1>2, <1>3, <1>4

\* Two rentals are never promised one car at a time.
NeverTwice ==
    \A x, y \in Reservations \cup Contracts :
        LET p == Rented[x].promise
            q == Rented[y].promise
        IN  x # y /\ p # NoRow /\ q # NoRow /\ q.car = p.car => q.to <= p.from \/ p.to <= q.from

\* A promise is of a car, for some time.
Meant ==
    \A x \in Reservations \cup Contracts :
        LET p == Rented[x].promise
        IN  p # NoRow => p \in Promise!Promises /\ p.from < p.to

LEMMA SoundBlock ==
    ASSUME HoldInv, NEW b \in Blocks, block[b] # NoRow
    PROVE  /\ block[b] \in BlockRows /\ block[b].from < block[b].to
           /\ block[b].from \in Nat /\ block[b].to \in Nat /\ block[b].until \in Nat
           /\ block[b].to <= block[b].until /\ block[b].vehicle \in Vehicles
<1>1. block[b] \in BlockRows /\ PeriodCheck(block[b])
  BY RowTypes DEF HoldInv, SerialInv, IInv, Sound
<1> QED
  BY <1>1 DEF BlockRows, PeriodCheck

LEMMA AllMeant == HoldInv => NeverTwice /\ Meant
<1> SUFFICES ASSUME HoldInv PROVE NeverTwice /\ Meant
  OBVIOUS
<1>0. Backed /\ Disjoint(block)
  BY AllBacked DEF HoldInv, SerialInv, IInv, Sound
<1>1. ASSUME NEW b \in Blocks, block[b] # NoRow
      PROVE  /\ PromiseOf(block[b]) \in Promise!Promises
             /\ PromiseOf(block[b]).from < PromiseOf(block[b]).to
  BY <1>1, SoundBlock DEF PromiseOf, Promise!Promises
<1>2. ASSUME NEW a \in Blocks, NEW b \in Blocks, block[a] # NoRow, block[b] # NoRow,
             a # b, block[a].vehicle = block[b].vehicle
      PROVE  block[b].to <= block[a].from \/ block[a].to <= block[b].from
  BY <1>0, <1>2, SoundBlock DEF Disjoint, Overlap
<1>3. Meant
  BY <1>0, <1>1 DEF Backed, Meant
<1>4. ASSUME NEW x \in Reservations \cup Contracts, NEW y \in Reservations \cup Contracts,
             x # y, Rented[x].promise # NoRow, Rented[y].promise # NoRow,
             Rented[y].promise.car = Rented[x].promise.car
      PROVE  \/ Rented[y].promise.to <= Rented[x].promise.from
             \/ Rented[x].promise.to <= Rented[y].promise.from
  <2>1. PICK a \in Blocks : /\ block[a] # NoRow /\ OwnerOf(block[a]) = x
                            /\ Rented[x].promise = PromiseOf(block[a])
    BY <1>0, <1>4 DEF Backed
  <2>2. PICK b \in Blocks : /\ block[b] # NoRow /\ OwnerOf(block[b]) = y
                            /\ Rented[y].promise = PromiseOf(block[b])
    BY <1>0, <1>4 DEF Backed
  <2>3. a # b
    BY <1>4, <2>1, <2>2
  <2> QED
    BY <1>2, <1>4, <2>1, <2>2, <2>3 DEF PromiseOf
<1> QED
  BY <1>3, <1>4 DEF NeverTwice

-----------------------------------------------------------------------------
(* Who is not concerned is promised the same *)

\* Block n still promises what block m did.
Stays(n, m) == n # NoRow /\ n.leg = m.leg /\ n.resv = m.resv /\ PromiseOf(n) = PromiseOf(m)

\* No row of rental y is written but for the preparation of its block.
Spared(y) ==
    /\ y \in Reservations => resv'[y] = resv[y]
    /\ y \in Contracts /\ ctr[y] = NoRow /\ ctr'[y] # NoRow => ctr'[y].resv # NoRow
    /\ \A c \in Contracts : ctr[c] # NoRow /\ RentalOf(c) = y => ctr'[c] = ctr[c]
    /\ \A g \in Legs : leg[g] # NoRow /\ RentalOf(leg[g].ctr) = y => leg'[g] = leg[g]
    /\ \A b \in Blocks : block[b] # NoRow /\ OwnerOf(block[b]) = y => Stays(block'[b], block[b])

LEMMA SparedStands ==
    ASSUME HoldInv, HoldInv', Growing, NEW y \in Reservations \cup Contracts, Spared(y)
    PROVE  Rented'[y] = Rented[y]
<1>0. Tell /\ Told /\ IInv
  BY AllTold DEF HoldInv, SerialInv
<1>1. Tell'
  <2>1. (HoldInv => Tell)'
    BY AllTold, PTL
  <2> QED
    BY <2>1
<1>2. ASSUME NEW c \in Contracts, Stand(c), y = RentalOf(c)
      PROVE  Rented'[y] = Rented[y]
  <2>1. ctr'[c] = ctr[c] /\ Stand(c)' /\ RentalOf(c)' = y
    BY <1>2 DEF Spared, Stand, RentalOf
  <2>2. CASE ctr[c].status \in Finished
    BY <1>0, <1>1, <1>2, <2>1, <2>2 DEF Tell, ContractsTell, Promise!At
  <2>3. CASE ctr[c].status \notin Finished
    <3>1. PICK g \in Legs, b \in Blocks : OpenFor(leg[g], c) /\ On(block[b], g)
      BY <1>2, <2>3, ContractBlocks
    <3>2. leg'[g] = leg[g]
      BY <1>2, <3>1 DEF OpenFor, Spared
    <3>3. block[b] # NoRow /\ OwnerOf(block[b]) = y
      BY <1>2, <3>1, NoRowAssumption DEF OwnerOf, On, OpenFor
    <3>4. Stays(block'[b], block[b])
      BY <3>3 DEF Spared
    <3>5. OpenFor(leg'[g], c) /\ On(block'[b], g)
      BY <3>1, <3>2, <3>4 DEF Stays, On
    <3>6. Rented[y] = Promise!At(IF ctr[c].status = "ACTIVE" THEN "out" ELSE "held",
                                 PromiseOf(block[b]))
      BY <1>0, <1>2, <3>1 DEF Tell, ContractsTell
    <3>7. Rented'[y] = Promise!At(IF ctr'[c].status = "ACTIVE" THEN "out" ELSE "held",
                                  PromiseOf(block'[b]))
      BY <1>1, <2>1, <3>5 DEF Tell, ContractsTell, PromiseOf, OpenFor, On, Promise!At
    <3> QED
      BY <2>1, <3>4, <3>6, <3>7 DEF Stays
  <2> QED
    BY <2>2, <2>3
<1>3. CASE y \in Reservations /\ resv[y] # NoRow /\ resv[y].status = "CHECKED_OUT"
  <2>1. PICK c \in Contracts : ctr[c] # NoRow /\ ctr[c].resv = y /\ ctr[c].status # "CANCELLED"
    BY <1>0, <1>3 DEF Told, CheckedOutHasContract
  <2> QED
    BY <1>2, <1>3, <2>1, NoRowAssumption DEF Stand, RentalOf
<1>4. CASE y \in Reservations /\ (resv[y] = NoRow \/ resv[y].status # "CHECKED_OUT")
  <2>1. resv'[y] = resv[y]
    BY <1>4 DEF Spared
  <2>2. resv[y] # NoRow => resv[y].status \in ResvStatuses
    BY <1>0, <1>4, RowTypes DEF ResvRows
  <2>3. CASE resv[y] # NoRow /\ resv[y].status = "CONFIRMED"
    <3>1. PICK b \in Blocks : From(block[b], y) /\ HeldAs(block[b], resv[y])
      BY <1>4, <2>3 DEF HoldInv, Kept, ReservationsKept, ResvKept
    <3>2. block[b] # NoRow /\ OwnerOf(block[b]) = y
      BY <3>1 DEF OwnerOf, HeldAs, From, HoldInv, Kept, BlocksKept, Referred
    <3>3. Stays(block'[b], block[b]) /\ From(block'[b], y)
      BY <3>1, <3>2 DEF Spared, Stays, From
    <3>4. Rented[y] = Promise!At("held", PromiseOf(block[b]))
      BY <1>0, <1>4, <2>3, <3>1 DEF Tell, ReservationsTell
    <3>5. Rented'[y] = Promise!At("held", PromiseOf(block'[b]))
      BY <1>1, <1>4, <2>1, <2>3, <3>3 DEF Tell, ReservationsTell, From, PromiseOf, Promise!At
    <3> QED
      BY <3>3, <3>4, <3>5 DEF Stays
  <2>4. CASE ~(resv[y] # NoRow /\ resv[y].status = "CONFIRMED")
    BY <1>0, <1>1, <1>4, <2>1, <2>2, <2>4
       DEF Tell, ReservationsTell, ResvStatuses, Promise!At
  <2> QED
    BY <2>3, <2>4
<1>5. CASE y \in Contracts /\ (ctr[y] = NoRow \/ ctr[y].resv # NoRow)
  <2>1. ctr'[y] = NoRow \/ ctr'[y].resv # NoRow
    BY <1>5 DEF Spared, Growing
  <2> QED
    BY <1>0, <1>1, <1>5, <2>1 DEF Tell, OthersTell, Promise!At
<1>6. CASE y \in Contracts /\ ctr[y] # NoRow /\ ctr[y].resv = NoRow
  BY <1>2, <1>6 DEF Stand, RentalOf
<1> QED
  BY <1>3, <1>4, <1>5, <1>6

\* One rental goes a step further, and whoever it is given a car is given it alone.
LEMMA StepKeeps ==
    ASSUME HoldInv, HoldInv', NEW x \in Reservations \cup Contracts,
           \A y \in (Reservations \cup Contracts) \ {x} : Rented'[y] = Rented[y],
           \/ Promise!Ask(Rented[x], Rented'[x])
           \/ Promise!End(Rented[x], Rented'[x])
           \/ /\ Rented'[x].promise # NoRow
              /\ \/ Promise!Hold(Rented[x], Rented'[x])
                 \/ Promise!Deliver(Rented[x], Rented'[x])
                 \/ Promise!Alter(Rented[x], Rented'[x])
    PROVE  Promise!Move
<1> DEFINE R == Reservations \cup Contracts
<1>1. (NeverTwice /\ Meant)'
  <2>1. (HoldInv => NeverTwice /\ Meant)'
    BY AllMeant, PTL
  <2> QED
    BY <2>1
<1>2. Promise!Only({x})
  <2>1. Rented' = [y \in R |-> Rented'[y]]
    BY DEF Rented
  <2>2. \A y \in R : Rented'[y] = IF y \in {x} THEN Rented'[y] ELSE Rented[y]
    OBVIOUS
  <2>3. Rented' = [y \in R |-> IF y \in {x} THEN Rented'[y] ELSE Rented[y]]
    BY <2>1, <2>2
  <2> QED
    BY <2>3 DEF Promise!Only
<1>3. ASSUME Rented'[x].promise # NoRow
      PROVE  /\ Rented'[x].promise \in Promise!Promises
             /\ Rented'[x].promise.from < Rented'[x].promise.to
             /\ Promise!Free(x, Rented'[x].promise)
  <2>1. /\ Rented'[x].promise \in Promise!Promises
        /\ Rented'[x].promise.from < Rented'[x].promise.to
    BY <1>1, <1>3 DEF Meant, Promise!Promises
  <2>2. \A y \in R : y # x /\ Rented'[y].promise # NoRow
                           /\ Rented'[y].promise.car = Rented'[x].promise.car =>
            \/ Rented'[y].promise.to <= Rented'[x].promise.from
            \/ Rented'[x].promise.to <= Rented'[y].promise.from
    BY <1>1, <1>3 DEF NeverTwice
  <2>3. Promise!Free(x, Rented'[x].promise)
    BY <2>2 DEF Promise!Free
  <2> QED
    BY <2>1, <2>3
<1>4. Promise!Step(x)
  BY <1>3 DEF Promise!Step
<1> QED
  BY <1>2, <1>4 DEF Promise!Move

\* Nobody is promised anything else.
LEMMA NothingSaid ==
    ASSUME \A y \in Reservations \cup Contracts : Rented'[y] = Rented[y]
    PROVE  Rented' = Rented
<1>1. PICK f : f = Rented
  OBVIOUS
<1>2. PICK h : h = Rented'
  OBVIOUS
<1>3. DOMAIN f = Reservations \cup Contracts /\ f = [x \in DOMAIN f |-> f[x]]
  BY <1>1 DEF Rented
<1>4. DOMAIN h = Reservations \cup Contracts /\ h = [x \in DOMAIN h |-> h[x]]
  BY <1>2 DEF Rented
<1>5. f = h
  BY <1>1, <1>2, <1>3, <1>4
<1> QED
  BY <1>1, <1>2, <1>5

LEMMA TellsStill == HoldInv' => Tell'
<1>1. (HoldInv => Tell)'
  BY AllTold, PTL
<1> QED
  BY <1>1

\* What a block promises is a promise.
Real == \A b \in Blocks : block[b] # NoRow => PromiseOf(block[b]) # NoRow

LEMMA AllReal == HoldInv => Real
<1> SUFFICES ASSUME HoldInv, NEW b \in Blocks, block[b] # NoRow
             PROVE  PromiseOf(block[b]) # NoRow
  BY DEF Real
<1>1. PromiseOf(block[b]) \in Promise!Promises
  BY SoundBlock DEF PromiseOf, Promise!Promises
<1> QED
  BY <1>1, PromiseAssumption

LEMMA StillReal == HoldInv' => Real'
<1>1. (HoldInv => Real)'
  BY AllReal, PTL
<1> QED
  BY <1>1

-----------------------------------------------------------------------------
(* A contract keeps what it promised *)

\* Only rows of contract c are written, its open interval g and its block b
\* among them, and new ones.
OnlyOf(c, g, b) ==
    /\ InHand(c, g, b) /\ ctr[c].status \notin Finished /\ Growing
    /\ \A d \in Contracts \ {c} : ctr'[d] = ctr[d]
    /\ \A h \in Legs \ {g} : leg[h] # NoRow => leg'[h] = leg[h]
    /\ \A a \in Blocks \ {b} : block[a] # NoRow => block'[a] = block[a]
    /\ \A r \in Reservations : r # ctr[c].resv => resv'[r] = resv[r]

LEMMA OthersStand ==
    ASSUME HoldInv, HoldInv', NEW c \in Contracts, NEW g, NEW b, OnlyOf(c, g, b)
    PROVE  /\ ctr[c] # NoRow /\ RentalOf(c) \in Reservations \cup Contracts
           /\ \A y \in (Reservations \cup Contracts) \ {RentalOf(c)} : Rented'[y] = Rented[y]
<1> DEFINE x == RentalOf(c)
<1>1. /\ g \in Legs /\ leg[g] # NoRow /\ leg[g].ctr = c /\ g # NoRow
      /\ b \in Blocks /\ block[b] # NoRow /\ block[b].leg = g
  BY NoRowAssumption DEF OnlyOf, InHand
<1>2. ctr[c] # NoRow
  BY <1>1 DEF HoldInv, SerialInv, IInv, Links
<1>3. Stand(c) /\ x \in Reservations \cup Contracts
  BY <1>2, ContractTold1 DEF OnlyOf, Stand, Finished
<1>4. OwnerOf(block[b]) = x
  BY <1>1 DEF OwnerOf
<1>5. ASSUME NEW y \in (Reservations \cup Contracts) \ {x}
      PROVE  Spared(y)
  <2>1. y \in Reservations => resv'[y] = resv[y]
    BY <1>5, NoRowAssumption DEF OnlyOf, RentalOf
  <2>2. y \in Contracts /\ ctr[y] = NoRow => ctr'[y] = NoRow
    BY <1>2 DEF OnlyOf
  <2>3. \A d \in Contracts : ctr[d] # NoRow /\ RentalOf(d) = y => ctr'[d] = ctr[d]
    BY <1>5 DEF OnlyOf
  <2>4. \A h \in Legs : leg[h] # NoRow /\ RentalOf(leg[h].ctr) = y => leg'[h] = leg[h]
    BY <1>1, <1>5 DEF OnlyOf
  <2>5. \A a \in Blocks : block[a] # NoRow /\ OwnerOf(block[a]) = y => Stays(block'[a], block[a])
    BY <1>4, <1>5 DEF OnlyOf, Stays
  <2> QED
    BY <2>1, <2>2, <2>3, <2>4, <2>5 DEF Spared
<1>6. \A y \in (Reservations \cup Contracts) \ {x} : Rented'[y] = Rented[y]
  BY <1>5, SparedStands DEF OnlyOf
<1> QED
  BY <1>2, <1>3, <1>6

\* A contract that goes on, and what may become of what it promised.
LEMMA ContractGoesOn ==
    ASSUME HoldInv, HoldInv', NEW c \in Contracts, NEW g, NEW b, OnlyOf(c, g, b),
           NEW h \in Legs, NEW a \in Blocks, OpenFor(leg'[h], c), On(block'[a], h),
           LET n == block[b]
               m == block'[a]
           IN  \/ ctr[c].status # "ACTIVE" /\ ctr'[c].status \in Proposal \cup {"APPROVED"}
               \/ /\ ctr[c].status # "ACTIVE" /\ ctr'[c].status = "ACTIVE"
                  /\ m.vehicle = n.vehicle /\ m.to = n.to /\ m.from <= n.from
               \/ /\ ctr[c].status = "ACTIVE" /\ ctr'[c].status = "ACTIVE"
                  /\ \/ m.vehicle = n.vehicle /\ m.from = n.from /\ m.to > n.to
                     \/ m.vehicle # n.vehicle /\ m.from >= n.from /\ m.to = n.to
    PROVE  Promise!Move
<1> DEFINE x == RentalOf(c)
           p == PromiseOf(block[b])
           q == PromiseOf(block'[a])
<1>0. Tell /\ Tell'
  BY AllTold, TellsStill
<1>1. /\ ctr[c] # NoRow /\ x \in Reservations \cup Contracts
      /\ \A y \in (Reservations \cup Contracts) \ {x} : Rented'[y] = Rented[y]
  BY OthersStand
<1>2. ctr'[c] # NoRow /\ ctr'[c].resv = ctr[c].resv
  BY <1>1 DEF OnlyOf, Growing
<1>3. Stand(c) /\ Stand(c)' /\ RentalOf(c)' = x
  BY <1>1, <1>2 DEF OnlyOf, Stand, RentalOf, Finished, Proposal
<1>4. Rented[x] = Promise!At(IF ctr[c].status = "ACTIVE" THEN "out" ELSE "held", p)
  <2>1. g \in Legs /\ b \in Blocks /\ OpenFor(leg[g], c) /\ On(block[b], g)
    BY DEF OnlyOf, InHand, OpenFor, On
  <2> QED
    BY <1>0, <1>3, <2>1 DEF Tell, ContractsTell
<1>5. Rented'[x] = Promise!At(IF ctr'[c].status = "ACTIVE" THEN "out" ELSE "held", q)
  BY <1>0, <1>3 DEF Tell, ContractsTell, OpenFor, On, PromiseOf, Promise!At
<1>6. q # NoRow
  BY StillReal DEF Real, On, PromiseOf
<1> QED
  BY <1>1, <1>4, <1>5, <1>6, StepKeeps
     DEF PromiseOf, Promise!At, Promise!Hold, Promise!Deliver, Promise!Alter, Proposal

\* A contract that ends, and the reservation it came from if it is cancelled.
LEMMA ContractEnds ==
    ASSUME HoldInv, HoldInv', NEW c \in Contracts, NEW g, NEW b, OnlyOf(c, g, b),
           ctr'[c].status \in Finished,
           ctr'[c].status = "CANCELLED" /\ ctr[c].resv # NoRow =>
               resv'[ctr[c].resv] # NoRow /\ resv'[ctr[c].resv].status = "CANCELLED"
    PROVE  Promise!Move
<1> DEFINE x == RentalOf(c)
           p == PromiseOf(block[b])
<1>0. Tell /\ Tell'
  BY AllTold, TellsStill
<1>1. /\ ctr[c] # NoRow /\ x \in Reservations \cup Contracts
      /\ \A y \in (Reservations \cup Contracts) \ {x} : Rented'[y] = Rented[y]
  BY OthersStand
<1>2. ctr'[c] # NoRow /\ ctr'[c].resv = ctr[c].resv
  BY <1>1 DEF OnlyOf, Growing
<1>3. Rented[x] = Promise!At(IF ctr[c].status = "ACTIVE" THEN "out" ELSE "held", p)
  <2>1. Stand(c)
    BY <1>1 DEF OnlyOf, Stand, Finished
  <2>2. g \in Legs /\ b \in Blocks /\ OpenFor(leg[g], c) /\ On(block[b], g)
    BY DEF OnlyOf, InHand, OpenFor, On
  <2> QED
    BY <1>0, <2>1, <2>2 DEF Tell, ContractsTell
<1>4. Rented'[x] = Promise!At("over", NoRow)
  <2>1. CASE ctr'[c].status = "CANCELLED" /\ ctr[c].resv # NoRow
    <3>1. x = ctr[c].resv /\ x \in Reservations
      <4>1. ctr[c].resv \in RefTo(Reservations)
        BY <1>1, RowTypes DEF CtrRows, HoldInv, SerialInv
      <4> QED
        BY <2>1, <4>1 DEF RentalOf, RefTo
    <3> QED
      BY <1>0, <2>1, <3>1 DEF Tell, ReservationsTell, Promise!At
  <2>2. CASE ~(ctr'[c].status = "CANCELLED" /\ ctr[c].resv # NoRow)
    <3>1. Stand(c)' /\ RentalOf(c)' = x
      BY <1>2, <2>2 DEF Stand, RentalOf
    <3> QED
      BY <1>0, <3>1 DEF Tell, ContractsTell, Promise!At
  <2> QED
    BY <2>1, <2>2
<1> QED
  BY <1>1, <1>3, <1>4, StepKeeps DEF Promise!At, Promise!End

LEMMA AdvancePromise ==
    ASSUME OneAtATime, HoldInv, HoldInv', NEW w \in Workers, NEW c \in Contracts,
           Submit(w, c) \/ Approve(w, c)
    PROVE  Promise!Move
<1>1. PICK to \in {"PENDING_APPROVAL", "APPROVED"} : Advance(w, c, Proposal, to)
  BY DEF Submit, Approve, Advance, Proposal
<1>2. Holding(w, c) /\ UNCHANGED <<resv, leg, block>> /\ ctr' = [ctr EXCEPT ![c].status = to]
  BY <1>1 DEF Advance
<1>3. seen[w].row = ctr[c] /\ ctr[c] \in CtrRows /\ ctr[c] # NoRow
  BY <1>2, ContractInHand DEF HoldInv
<1>4. ctr[c].status \in Proposal
  BY <1>1, <1>3 DEF Advance
<1>5. PICK g, b : InHand(c, g, b)
  BY <1>2, <1>4, CarInHand DEF Proposal, Finished
<1>6. /\ ctr'[c].status = to /\ ctr'[c].resv = ctr[c].resv
      /\ \A d \in Contracts \ {c} : ctr'[d] = ctr[d]
  BY <1>2, <1>3 DEF HoldInv, SerialInv, IInv, TypeOK, CtrRows
<1>7. ctr'[c] # NoRow
  <2>1. [ctr[c] EXCEPT !.status = to] \in CtrRows
    BY <1>3 DEF CtrRows, CtrStatuses, Proposal
  <2> QED
    BY <1>2, <2>1, RowAssumption DEF HoldInv, SerialInv, IInv, TypeOK
<1>8. Growing
  BY <1>2, <1>6, <1>7 DEF Growing
<1>9. OnlyOf(c, g, b)
  BY <1>2, <1>4, <1>5, <1>6, <1>8 DEF OnlyOf, Proposal, Finished
<1>10. g \in Legs /\ b \in Blocks /\ OpenFor(leg'[g], c) /\ On(block'[b], g)
  BY <1>2, <1>5 DEF InHand, OpenFor, On
<1> QED
  BY <1>4, <1>6, <1>9, <1>10, ContractGoesOn DEF Proposal

LEMMA ExtendPromise ==
    ASSUME OneAtATime, HoldInv, HoldInv', NEW w \in Workers, NEW c \in Contracts,
           NEW to \in 0 .. MaxEnd, Extend(w, c, to)
    PROVE  Promise!Move
<1> DEFINE row == [ctr[c] EXCEPT !.to = to]
           g   == seen[w].leg
           b   == seen[w].block
<1>1. Holding(w, c) /\ UNCHANGED <<resv, leg>>
  BY DEF Extend
<1>2. seen[w].row = ctr[c] /\ ctr[c] \in CtrRows /\ to \in Nat
  BY <1>1, ContractInHand, TimeAssumption DEF HoldInv
<1>3. /\ ctr[c].status \in {"APPROVED", "ACTIVE"} /\ ctr[c].status \notin Finished
      /\ ctr[c].to < to
  BY <1>2 DEF Extend, Finished
<1>4. /\ row # NoRow /\ row.status = ctr[c].status /\ row.resv = ctr[c].resv
      /\ ctr' = [ctr EXCEPT ![c] = row]
  <2>1. row \in CtrRows
    BY <1>2 DEF CtrRows
  <2> QED
    BY <1>2, <2>1, RowAssumption DEF CtrRows, Extend
<1>5. InHand(c, g, b)
  BY <1>1, <1>3, CarInHand
<1>6. /\ g \in Legs /\ leg[g] # NoRow /\ leg[g].ctr = c /\ leg[g].till = NoRow
      /\ b \in Blocks /\ block[b] # NoRow /\ block[b].leg = g /\ block[b].to = ctr[c].to
  BY <1>5 DEF InHand, CarriedAs
<1>7. block' = [block EXCEPT ![b] = Extended(block[b], to)]
  BY <1>6 DEF Extend, Live, Write
<1>8. block[b] \in BlockRows /\ block \in Table
  BY <1>6, RowTypes DEF HoldInv, SerialInv, IInv, Sound
<1>9. block'[b] = Extended(block[b], to) /\ \A a \in Blocks \ {b} : block'[a] = block[a]
  BY <1>6, <1>7, <1>8 DEF Table
<1>10. Extended(block[b], to) \in BlockRows
  BY <1>2, <1>8, MovedRowType
<1>11. /\ block'[b] # NoRow /\ block'[b].leg = g /\ block'[b].to = to
       /\ block'[b].vehicle = block[b].vehicle /\ block'[b].from = block[b].from
  BY <1>6, <1>8, <1>9, <1>10, RowAssumption DEF Extended, BlockRows
<1>12. \A d \in Contracts : ctr'[d] = IF d = c THEN row ELSE ctr[d]
  BY <1>4 DEF HoldInv, SerialInv, IInv, TypeOK
<1> HIDE DEF row, g, b
<1>13. Growing
  BY <1>1, <1>4, <1>12 DEF Growing
<1>14. OnlyOf(c, g, b)
  BY <1>1, <1>3, <1>5, <1>9, <1>12, <1>13 DEF OnlyOf
<1>15. OpenFor(leg'[g], c) /\ On(block'[b], g)
  BY <1>1, <1>6, <1>11 DEF OpenFor, On
<1>16. \/ ctr[c].status # "ACTIVE" /\ ctr'[c].status \in Proposal \cup {"APPROVED"}
       \/ /\ ctr[c].status = "ACTIVE" /\ ctr'[c].status = "ACTIVE"
          /\ block'[b].vehicle = block[b].vehicle /\ block'[b].from = block[b].from
          /\ block'[b].to > block[b].to
  <2>1. ctr[c].to \in Nat
    BY <1>2 DEF CtrRows
  <2> QED
    BY <1>2, <1>3, <1>4, <1>6, <1>11, <1>12, <2>1
<1> QED
  BY <1>6, <1>14, <1>15, <1>16, ContractGoesOn

LEMMA ActivatePromise ==
    ASSUME OneAtATime, HoldInv, HoldInv', NEW w \in Workers, NEW c \in Contracts, Activate(w, c)
    PROVE  Promise!Move
<1> DEFINE row == [ctr[c] EXCEPT !.status = "ACTIVE"]
           g   == seen[w].leg
           b   == seen[w].block
           i   == [leg[g] EXCEPT !.from = now]
<1>1. Holding(w, c) /\ resv' = resv /\ now \in Nat
  BY DEF Activate, HoldInv, SerialInv, IInv, TypeOK
<1>2. seen[w].row = ctr[c] /\ ctr[c] \in CtrRows
  BY <1>1, ContractInHand DEF HoldInv
<1>3. ctr[c].status = "APPROVED" /\ ctr[c].status \notin Finished
  BY <1>2 DEF Activate, Finished
<1>4. /\ row # NoRow /\ row.status = "ACTIVE" /\ row.resv = ctr[c].resv
      /\ ctr' = [ctr EXCEPT ![c] = row]
  <2>1. row \in CtrRows
    BY <1>2 DEF CtrRows, CtrStatuses
  <2> QED
    BY <1>2, <2>1, RowAssumption DEF CtrRows, Activate
<1>5. InHand(c, g, b)
  BY <1>1, <1>3, CarInHand
<1>6. /\ g \in Legs /\ leg[g] # NoRow /\ leg[g].ctr = c /\ leg[g].till = NoRow
      /\ b \in Blocks /\ block[b] # NoRow /\ block[b].leg = g
  BY <1>5 DEF InHand
<1>7. leg[g] \in LegRows /\ block[b] \in BlockRows /\ block \in Table
  BY <1>6, RowTypes DEF HoldInv, SerialInv, IInv, Sound
<1>8. i # NoRow /\ i.ctr = c /\ i.till = NoRow /\ leg' = [leg EXCEPT ![g] = i]
  <2>1. i \in LegRows
    BY <1>1, <1>7 DEF LegRows
  <2> QED
    BY <1>6, <1>7, <2>1, RowAssumption DEF LegRows, Activate
<1>9. /\ \A a \in Blocks \ {b} : block'[a] = block[a]
      /\ block'[b] # NoRow /\ block'[b].leg = g /\ block'[b].vehicle = block[b].vehicle
      /\ block'[b].to = block[b].to /\ block'[b].from <= block[b].from
  <2>1. CASE now < block[b].from
    <3> DEFINE moved == [block[b] EXCEPT !.from = now]
    <3>1. block' = [block EXCEPT ![b] = moved]
      BY <1>6, <2>1 DEF Activate, Live, Write
    <3>2. /\ moved \in BlockRows /\ moved.leg = block[b].leg /\ moved.vehicle = block[b].vehicle
          /\ moved.to = block[b].to /\ moved.from = now
      BY <1>1, <1>7 DEF BlockRows
    <3>3. block[b].from \in Nat
      BY <1>7 DEF BlockRows
    <3> HIDE DEF moved, b, g, i, row
    <3>4. block'[b] = moved /\ \A a \in Blocks \ {b} : block'[a] = block[a]
      BY <1>6, <1>7, <3>1 DEF Table
    <3> QED
      BY <1>1, <1>6, <2>1, <3>2, <3>3, <3>4, RowAssumption
  <2>2. CASE ~(now < block[b].from)
    <3>1. block' = block
      BY <2>2 DEF Activate
    <3>2. block[b].from \in Nat
      BY <1>7 DEF BlockRows
    <3> HIDE DEF b, g, i, row
    <3> QED
      BY <1>6, <3>1, <3>2
  <2> QED
    BY <2>1, <2>2
<1>10. \A d \in Contracts : ctr'[d] = IF d = c THEN row ELSE ctr[d]
  BY <1>4 DEF HoldInv, SerialInv, IInv, TypeOK
<1>11. \A h \in Legs : leg'[h] = IF h = g THEN i ELSE leg[h]
  BY <1>8 DEF HoldInv, SerialInv, IInv, TypeOK
<1> HIDE DEF row, g, b, i
<1>12. Growing
  BY <1>1, <1>4, <1>6, <1>8, <1>10, <1>11 DEF Growing
<1>13. OnlyOf(c, g, b)
  BY <1>1, <1>3, <1>5, <1>9, <1>10, <1>11, <1>12 DEF OnlyOf
<1>14. OpenFor(leg'[g], c) /\ On(block'[b], g)
  BY <1>6, <1>8, <1>9, <1>11 DEF OpenFor, On
<1>15. ctr[c].status # "ACTIVE" /\ ctr'[c].status = "ACTIVE"
  BY <1>3, <1>4, <1>10
<1> QED
  BY <1>6, <1>9, <1>13, <1>14, <1>15, ContractGoesOn

LEMMA FinishPromise ==
    ASSUME OneAtATime, HoldInv, HoldInv', NEW w \in Workers, NEW c \in Contracts,
           NEW status \in {"CLOSED", "TERMINATED"}, NEW at \in 0 .. MaxTime,
           Finish(w, c, status, at)
    PROVE  Promise!Move
<1> DEFINE row  == [ctr[c] EXCEPT !.status = status]
           g    == seen[w].leg
           b    == seen[w].block
           stop == Later(seen[w].since, at)
           i    == [leg[g] EXCEPT !.till = stop]
<1>1. Holding(w, c) /\ resv' = resv /\ at \in Nat
  BY TimeAssumption DEF Finish
<1>2. seen[w].row = ctr[c] /\ ctr[c] \in CtrRows
  BY <1>1, ContractInHand DEF HoldInv
<1>3. ctr[c].status = "ACTIVE" /\ ctr[c].status \notin Finished
  BY <1>2 DEF Finish, InForce, Finished
<1>4. /\ row # NoRow /\ row.status = status /\ row.resv = ctr[c].resv
      /\ ctr' = [ctr EXCEPT ![c] = row]
  <2>1. row \in CtrRows
    BY <1>2 DEF CtrRows, CtrStatuses, Finished
  <2> QED
    BY <1>2, <2>1, RowAssumption DEF CtrRows, Finish
<1>5. InHand(c, g, b) /\ seen[w].since = leg[g].from
  BY <1>1, <1>3, CarInHand
<1>6. /\ g \in Legs /\ leg[g] # NoRow /\ leg[g].ctr = c
      /\ b \in Blocks /\ block[b] # NoRow /\ block[b].leg = g
      /\ \A a \in Blocks : On(block[a], g) => a = b
  BY <1>5 DEF InHand
<1>7. leg[g] \in LegRows /\ block[b] \in BlockRows /\ block \in Table
  BY <1>6, RowTypes DEF HoldInv, SerialInv, IInv, Sound
<1>8. stop \in Nat
  BY <1>1, <1>5, <1>7 DEF Later, LegRows
<1>9. i # NoRow /\ i.ctr = c /\ leg' = [leg EXCEPT ![g] = i]
  <2>1. leg' = [leg EXCEPT ![g].till = stop]
    BY DEF Finish
  <2>2. i \in LegRows /\ i.ctr = leg[g].ctr
    BY <1>7, <1>8 DEF LegRows, RefTo
  <2> HIDE DEF stop, g
  <2> QED
    BY <1>6, <2>1, <2>2, RowAssumption
<1>10. LegBlocks(g) = {b}
  BY <1>6, NoRowAssumption DEF LegBlocks, On
<1>11. \A a \in Blocks \ {b} : block'[a] = block[a]
  <2>1. \/ block' = block
        \/ block' = [block EXCEPT ![b] = Truncated(block[b], at)]
        \/ block' = [block EXCEPT ![b] = Extended(block[b], at)]
    BY <1>10 DEF Finish, First, Write
  <2> HIDE DEF b, g
  <2> QED
    BY <1>6, <1>7, <2>1 DEF Table
<1>12. \A d \in Contracts : ctr'[d] = IF d = c THEN row ELSE ctr[d]
  BY <1>4 DEF HoldInv, SerialInv, IInv, TypeOK
<1>13. \A h \in Legs : leg'[h] = IF h = g THEN i ELSE leg[h]
  BY <1>9 DEF HoldInv, SerialInv, IInv, TypeOK
<1> HIDE DEF row, g, b, i, stop
<1>14. Growing
  BY <1>1, <1>4, <1>6, <1>9, <1>12, <1>13 DEF Growing
<1>15. OnlyOf(c, g, b)
  BY <1>1, <1>3, <1>5, <1>11, <1>12, <1>13, <1>14 DEF OnlyOf
<1>16. ctr'[c].status \in Finished /\ ctr'[c].status # "CANCELLED"
  BY <1>4, <1>12 DEF Finished
<1> QED
  BY <1>15, <1>16, ContractEnds

LEMMA CancelContractPromise ==
    ASSUME OneAtATime, HoldInv, HoldInv', NEW w \in Workers, NEW c \in Contracts,
           CancelContract(w, c)
    PROVE  Promise!Move
<1> DEFINE row  == [ctr[c] EXCEPT !.status = "CANCELLED"]
           g    == seen[w].leg
           b    == seen[w].block
           r    == ctr[c].resv
           stop == Later(seen[w].since, now)
           i    == [leg[g] EXCEPT !.till = stop]
<1>0. IInv /\ TypeOK
  BY DEF HoldInv, SerialInv, IInv
<1>1. Holding(w, c) /\ now \in Nat
  BY <1>0 DEF CancelContract, TypeOK
<1>2. seen[w].row = ctr[c] /\ ctr[c] \in CtrRows /\ ctr[c] # NoRow
  BY <1>1, ContractInHand DEF HoldInv
<1>3. ctr[c].status \notin Finished
  BY <1>2 DEF CancelContract, Proposal, Finished
<1>4. /\ row # NoRow /\ row.status = "CANCELLED" /\ row.resv = r
      /\ ctr' = [ctr EXCEPT ![c] = row]
  <2>1. row \in CtrRows
    BY <1>2 DEF CtrRows, CtrStatuses, Finished
  <2> QED
    BY <1>2, <2>1, RowAssumption DEF CtrRows, CancelContract
<1>5. InHand(c, g, b) /\ seen[w].since = leg[g].from
  BY <1>1, <1>3, CarInHand
<1>6. /\ g \in Legs /\ leg[g] # NoRow /\ leg[g].ctr = c /\ g # NoRow
      /\ b \in Blocks /\ block[b] # NoRow
  BY <1>5, NoRowAssumption DEF InHand
<1>7. leg[g] \in LegRows /\ block \in Table
  BY <1>0, <1>6, RowTypes DEF IInv, Sound
<1>8. stop \in Nat
  BY <1>1, <1>5, <1>7 DEF Later, LegRows
<1>9. i # NoRow /\ i.ctr = c /\ leg' = [leg EXCEPT ![g] = i]
  <2>1. leg' = [leg EXCEPT ![g].till = stop]
    BY <1>6 DEF CancelContract
  <2>2. i \in LegRows /\ i.ctr = leg[g].ctr
    BY <1>7, <1>8 DEF LegRows, RefTo
  <2> HIDE DEF stop, g
  <2> QED
    BY <1>6, <2>1, <2>2, RowAssumption
<1>10. \A a \in Blocks \ {b} : block'[a] = block[a]
  BY <1>6, <1>7 DEF CancelContract, Release, Table
<1>11. resv' = IF r = NoRow THEN resv ELSE [resv EXCEPT ![r].status = "CANCELLED"]
  BY <1>2 DEF CancelContract
<1>12. \A d \in Contracts : ctr'[d] = IF d = c THEN row ELSE ctr[d]
  BY <1>0, <1>4 DEF TypeOK
<1>13. \A h \in Legs : leg'[h] = IF h = g THEN i ELSE leg[h]
  BY <1>0, <1>9 DEF TypeOK
<1> HIDE DEF row, g, b, i, stop, r
<1>14. \A q \in Reservations : q # r => resv'[q] = resv[q]
  BY <1>0, <1>11 DEF TypeOK
<1>15. r # NoRow => r \in Reservations /\ resv'[r] # NoRow /\ resv'[r].status = "CANCELLED"
  <2> SUFFICES ASSUME r # NoRow
               PROVE  r \in Reservations /\ resv'[r] # NoRow /\ resv'[r].status = "CANCELLED"
    OBVIOUS
  <2>1. r \in Reservations /\ resv[r] \in ResvRows
    BY <1>0, <1>2 DEF IInv, Links, TypeOK, RefTo, CtrRows, r
  <2>2. resv'[r] = [resv[r] EXCEPT !.status = "CANCELLED"]
    BY <1>0, <1>11, <2>1 DEF TypeOK
  <2>3. resv'[r] \in ResvRows /\ resv'[r].status = "CANCELLED"
    BY <2>1, <2>2 DEF ResvRows, ResvStatuses
  <2> QED
    BY <2>1, <2>3, RowAssumption
<1>16. Growing
  <2>1. \A q \in Reservations : resv[q] # NoRow => resv'[q] # NoRow
    BY <1>14, <1>15, NoRowAssumption
  <2> QED
    BY <1>4, <1>6, <1>9, <1>12, <1>13, <2>1 DEF Growing, r
<1>17. OnlyOf(c, g, b)
  BY <1>3, <1>5, <1>10, <1>12, <1>13, <1>14, <1>16 DEF OnlyOf, r
<1>18. ctr'[c].status \in Finished
  BY <1>4, <1>12 DEF Finished
<1> QED
  BY <1>15, <1>17, <1>18, ContractEnds DEF r

\* Another car before delivery changes the promise; in force it is the rest of it.
LEMMA SwappedPromise ==
    ASSUME OneAtATime, HoldInv, HoldInv', NEW c \in Contracts, NEW g, NEW b, NEW n, NEW v,
           NEW at, NEW from, Swapped(c, g, b, n, v, at, from), Elsewhere(c, g, v, from)
    PROVE  Promise!Move
<1> DEFINE closed == [leg[g] EXCEPT !.till = at]
           opened == OpenLeg(c, v, from)
           k      == NewLeg
<1>0. IInv /\ TypeOK /\ Kept
  BY DEF HoldInv, SerialInv, IInv
<1>1. /\ UNCHANGED <<resv, ctr>> /\ InHand(c, g, b) /\ ctr[c].status \notin Finished
      /\ v \in Vehicles /\ at \in Nat /\ from \in Nat
      /\ n \in Blocks /\ block[n] = NoRow
      /\ block'[n] = NewRow(v, "CONTRACT", from, ctr[c].to, NoRow, k)
      /\ \A a \in Blocks \ {b, n} : block'[a] = block[a]
      /\ leg' = [leg EXCEPT ![g] = closed, ![k] = opened]
  BY DEF Swapped
<1>2. /\ g \in Legs /\ leg[g] # NoRow /\ leg[g].ctr = c
      /\ b \in Blocks /\ block[b] # NoRow /\ CarriedAs(block[b], leg[g], ctr[c])
      /\ leg[g] \in LegRows /\ ctr[c] \in CtrRows
  <2>1. /\ g \in Legs /\ leg[g] # NoRow /\ leg[g].ctr = c
        /\ b \in Blocks /\ block[b] # NoRow /\ CarriedAs(block[b], leg[g], ctr[c])
    BY <1>1 DEF InHand
  <2>2. ctr[c] # NoRow
    BY <1>0, <2>1 DEF IInv, Links
  <2> QED
    BY <1>0, <2>1, <2>2, RowTypes
<1>3. k \in Legs /\ leg[k] = NoRow /\ k # NoRow
  BY <1>0, NewLegFree DEF Swapped, Kept
<1>4. closed # NoRow /\ closed.ctr = c
  <2>1. closed \in LegRows
    BY <1>1, <1>2 DEF LegRows, RefTo
  <2> QED
    BY <1>2, <2>1, RowAssumption DEF LegRows
<1>5. opened # NoRow /\ opened.ctr = c /\ opened.till = NoRow
  <2>1. opened \in LegRows
    BY <1>1 DEF LegRows, RefTo, OpenLeg
  <2> QED
    BY <2>1, RowAssumption DEF OpenLeg
<1>6. \A h \in Legs : leg'[h] = IF h = k THEN opened ELSE IF h = g THEN closed ELSE leg[h]
  BY <1>0, <1>1, <1>2, <1>3 DEF TypeOK
<1> HIDE DEF closed, opened, k
<1>7. Growing
  BY <1>1, <1>2, <1>3, <1>4, <1>6 DEF Growing
<1>8. OnlyOf(c, g, b)
  BY <1>1, <1>3, <1>6, <1>7 DEF OnlyOf
<1>9. block'[n].vehicle = v /\ block'[n].from = from /\ block'[n].to = ctr[c].to /\ block'[n].leg = k
  BY <1>1, NewRowReads
<1>10. block'[n] # NoRow
  <2>1. ctr[c].to \in Nat
    BY <1>2 DEF CtrRows
  <2>2. NewRow(v, "CONTRACT", from, ctr[c].to, NoRow, k) \in BlockRows
    BY <1>1, <1>3, <2>1, NewRowType DEF RefTo
  <2> QED
    BY <1>1, <2>2, RowAssumption
<1>11. OpenFor(leg'[k], c) /\ On(block'[n], k)
  BY <1>3, <1>5, <1>6, <1>9, <1>10 DEF OpenFor, On
<1>12. CASE ctr[c].status # "ACTIVE"
  <2>1. ctr'[c].status \in Proposal \cup {"APPROVED"}
    BY <1>1, <1>2, <1>12 DEF CtrRows, CtrStatuses
  <2> QED
    BY <1>1, <1>3, <1>8, <1>11, <1>12, <2>1, ContractGoesOn
<1>13. CASE ctr[c].status = "ACTIVE"
  <2>1. block[b].vehicle = leg[g].car /\ block[b].from <= leg[g].from /\ block[b].to = ctr[c].to
    BY <1>2 DEF CarriedAs
  <2>2. block[b].from \in Nat /\ leg[g].from \in Nat
    BY <1>0, <1>2, RowTypes DEF BlockRows, LegRows
  <2>3. leg[g].car # v /\ leg[g].from <= from
    BY <1>13 DEF Elsewhere
  <2>4. /\ block'[n].vehicle # block[b].vehicle /\ block'[n].from >= block[b].from
        /\ block'[n].to = block[b].to
    BY <1>1, <1>9, <2>1, <2>2, <2>3
  <2> QED
    BY <1>1, <1>3, <1>8, <1>11, <1>13, <2>4, ContractGoesOn
<1> QED
  BY <1>12, <1>13

-----------------------------------------------------------------------------
(* A rental begins *)

\* Contract d is new and its car is taken; what others are promised stays.
Started(d, row, v, from, n) ==
    /\ resv' = resv
    /\ d \in Contracts /\ ctr[d] = NoRow /\ row \in CtrRows
    /\ row.status = "DRAFT" /\ row.resv = NoRow
    /\ ctr' = [ctr EXCEPT ![d] = row]
    /\ SpareLegs # {} /\ v \in Vehicles /\ from \in Nat
    /\ leg' = [leg EXCEPT ![NewLeg] = OpenLeg(d, v, from)]
    /\ n \in Blocks /\ block[n] = NoRow
    /\ block'[n] = NewRow(v, "CONTRACT", from, row.to, NoRow, NewLeg)
    /\ \A a \in Blocks \ {n} : block[a] # NoRow => Stays(block'[a], block[a])

LEMMA StartedPromise ==
    ASSUME HoldInv, HoldInv', NEW d, NEW row, NEW v, NEW from, NEW n,
           Started(d, row, v, from, n)
    PROVE  Promise!Move
<1> DEFINE opened == OpenLeg(d, v, from)
           k      == NewLeg
<1>0. IInv /\ TypeOK /\ Kept /\ Tell /\ Tell'
  BY AllTold, TellsStill DEF HoldInv, SerialInv, IInv
<1>1. /\ resv' = resv /\ d \in Contracts /\ ctr[d] = NoRow
      /\ row \in CtrRows /\ row # NoRow /\ row.status = "DRAFT" /\ row.resv = NoRow
      /\ v \in Vehicles /\ from \in Nat /\ n \in Blocks /\ block[n] = NoRow
      /\ block'[n] = NewRow(v, "CONTRACT", from, row.to, NoRow, k)
      /\ \A a \in Blocks \ {n} : block[a] # NoRow => Stays(block'[a], block[a])
  BY RowAssumption DEF Started
<1>2. k \in Legs /\ leg[k] = NoRow /\ k # NoRow
  BY <1>0, NewLegFree DEF Started, Kept
<1>3. opened # NoRow /\ opened.ctr = d /\ opened.till = NoRow
  <2>1. opened \in LegRows
    BY <1>1 DEF LegRows, RefTo, OpenLeg
  <2> QED
    BY <2>1, RowAssumption DEF OpenLeg
<1>4. /\ \A e \in Contracts : ctr'[e] = IF e = d THEN row ELSE ctr[e]
      /\ \A h \in Legs : leg'[h] = IF h = k THEN opened ELSE leg[h]
  BY <1>0, <1>1, <1>2 DEF TypeOK, Started
<1>5. block'[n].leg = k /\ block'[n] # NoRow
  <2>1. row.to \in Nat
    BY <1>1 DEF CtrRows
  <2>2. NewRow(v, "CONTRACT", from, row.to, NoRow, k) \in BlockRows
    BY <1>1, <1>2, <2>1, NewRowType DEF RefTo
  <2> QED
    BY <1>1, <2>2, RowAssumption, NewRowReads
<1> HIDE DEF opened, k
<1>6. Growing
  BY <1>1, <1>2, <1>4 DEF Growing
<1>7. ASSUME NEW y \in (Reservations \cup Contracts) \ {d}
      PROVE  Rented'[y] = Rented[y]
  <2>1. y \in Contracts /\ ctr[y] = NoRow => ctr'[y] = NoRow
    BY <1>4, <1>7
  <2>2. \A c \in Contracts : ctr[c] # NoRow /\ RentalOf(c) = y => ctr'[c] = ctr[c]
    BY <1>1, <1>4
  <2>3. \A h \in Legs : leg[h] # NoRow /\ RentalOf(leg[h].ctr) = y => leg'[h] = leg[h]
    BY <1>2, <1>4
  <2>4. \A a \in Blocks : block[a] # NoRow /\ OwnerOf(block[a]) = y => Stays(block'[a], block[a])
    BY <1>1
  <2>5. Spared(y)
    BY <1>1, <2>1, <2>2, <2>3, <2>4 DEF Spared
  <2> QED
    BY <1>6, <1>7, <2>5, SparedStands
<1>8. Rented[d] = Promise!At("none", NoRow)
  BY <1>0, <1>1 DEF Tell, OthersTell
<1>9. Stand(d)' /\ RentalOf(d)' = d /\ OpenFor(leg'[k], d) /\ On(block'[n], k)
  BY <1>1, <1>2, <1>3, <1>4, <1>5 DEF Stand, RentalOf, OpenFor, On
<1>10. Rented'[d] = Promise!At("held", PromiseOf(block'[n]))
  <2>1. ctr'[d].status = "DRAFT"
    BY <1>1, <1>4
  <2> QED
    BY <1>0, <1>1, <1>2, <1>9, <2>1 DEF Tell, ContractsTell, OpenFor, On, PromiseOf, Promise!At
<1>11. PromiseOf(block'[n]) # NoRow
  BY <1>1, <1>5, StillReal DEF Real, PromiseOf
<1> QED
  BY <1>1, <1>7, <1>8, <1>10, <1>11, StepKeeps DEF Promise!At, Promise!Hold

LEMMA ProposePromise ==
    ASSUME HoldInv, HoldInv', NEW c \in Contracts, NEW kind \in ContractKinds,
           NEW v \in Vehicles, NEW p \in Periods, Propose(c, kind, v, p)
    PROVE  Promise!Move
<1>1. /\ kind \in {"PERIOD", "LONG_TERM"} /\ p.from \in Nat /\ p.to \in Nat
      /\ NoRow \in RefTo(Contracts) /\ resv' = resv
      /\ InsertContract(block, c, kind, v, p.from, p.to, NoRow)
      /\ IInv /\ block \in Table
  BY KindAssumption, PeriodType DEF RefTo, Propose, HoldInv, SerialInv, IInv, Sound
<1>2. PICK row \in CtrRows, n \in Blocks :
              /\ ctr[c] = NoRow /\ row.status = "DRAFT" /\ row.resv = NoRow
              /\ ctr' = [ctr EXCEPT ![c] = row]
              /\ SpareLegs # {} /\ leg' = [leg EXCEPT ![NewLeg] = OpenLeg(c, v, p.from)]
              /\ block[n] = NoRow
              /\ block'[n] = NewRow(v, "CONTRACT", p.from, row.to, NoRow, NewLeg)
              /\ \A a \in Blocks \ {n} : block'[a] = block[a]
  BY <1>1, Inserted
<1>3. \A a \in Blocks \ {n} : block[a] # NoRow => Stays(block'[a], block[a])
  BY <1>2 DEF Stays
<1>4. Started(c, row, v, p.from, n)
  BY <1>1, <1>2, <1>3 DEF Started
<1> QED
  BY <1>4, StartedPromise

\* The contract that is renewed goes on as promised: only preparation goes.
LEMMA RenewPromise ==
    ASSUME OneAtATime, HoldInv, HoldInv', NEW w \in Workers, NEW c \in Contracts,
           NEW d \in Contracts, NEW to \in 0 .. MaxEnd, Renew(w, c, d, to)
    PROVE  Promise!Move
<1> DEFINE g    == seen[w].leg
           b    == seen[w].block
           cut  == [block[b] EXCEPT !.until = block[b].to]
           bare == [block EXCEPT ![b].until = block[b].to]
           v    == leg[g].car
           from == ctr[c].to
<1>0. IInv /\ TypeOK
  BY DEF HoldInv, SerialInv, IInv
<1>1. Holding(w, c) /\ resv' = resv
  BY DEF Renew
<1>2. seen[w].row = ctr[c] /\ ctr[c] \in CtrRows /\ from \in Nat /\ to \in Nat
  BY <1>1, ContractInHand, TimeAssumption DEF HoldInv, CtrRows
<1>3. ctr[c].status \notin Finished
  BY <1>2 DEF Renew, InForce, Finished
<1>4. /\ g \in Legs /\ leg[g] # NoRow /\ b \in Blocks /\ block[b] # NoRow
  BY <1>1, <1>3, CarInHand DEF InHand
<1>5. leg[g] \in LegRows /\ block[b] \in BlockRows /\ block \in Table /\ v \in Vehicles
  BY <1>0, <1>4, RowTypes DEF IInv, Sound, LegRows
<1>6. Stays(cut, block[b])
  <2>1. cut \in BlockRows
    BY <1>5 DEF BlockRows
  <2> QED
    BY <1>5, <2>1, RowAssumption DEF BlockRows, Stays, PromiseOf
<1>7. InsertContract(bare, d, "LONG_TERM", v, from, to, c) /\ c \in RefTo(Contracts)
  BY <1>2, <1>4 DEF Renew, RefTo, Live
<1>8. \A a \in Blocks : bare[a] = IF a = b THEN cut ELSE block[a]
  BY <1>4, <1>5 DEF Table
<1>9. bare \in Table
  BY <1>0, BareSound, <1>4 DEF IInv, Sound
<1> HIDE DEF g, b, cut, bare, v, from
<1>10. PICK row \in CtrRows, n \in Blocks :
              /\ ctr[d] = NoRow /\ row.status = "DRAFT" /\ row.resv = NoRow
              /\ ctr' = [ctr EXCEPT ![d] = row]
              /\ SpareLegs # {} /\ leg' = [leg EXCEPT ![NewLeg] = OpenLeg(d, v, from)]
              /\ block[n] = NoRow
              /\ block'[n] = NewRow(v, "CONTRACT", from, row.to, NoRow, NewLeg)
              /\ \A a \in Blocks \ {n} : block'[a] = bare[a]
  BY <1>0, <1>2, <1>5, <1>7, <1>9, Inserted
<1>11. \A a \in Blocks \ {n} : block[a] # NoRow => Stays(block'[a], block[a])
  BY <1>6, <1>8, <1>10 DEF Stays
<1>12. Started(d, row, v, from, n)
  BY <1>1, <1>2, <1>5, <1>10, <1>11 DEF Started
<1> QED
  BY <1>12, StartedPromise

-----------------------------------------------------------------------------
(* A reservation keeps what it promised *)

\* Of the reservations only r is written, and of the blocks only its own.
OnlyReserved(r) ==
    /\ UNCHANGED <<ctr, leg>> /\ resv'[r] # NoRow
    /\ \A q \in Reservations \ {r} : resv'[q] = resv[q]
    /\ \A b \in Blocks : block[b] # NoRow /\ ~From(block[b], r) => block'[b] = block[b]

\* The blocks of reservation r are its own, also those a contract has from it.
LEMMA OwnBlocks ==
    ASSUME HoldInv, NEW r \in Reservations, NEW b \in Blocks, From(block[b], r)
    PROVE  OwnerOf(block[b]) = r
<1>1. Referred(block[b], resv, ctr, leg)
  BY DEF HoldInv, Kept, BlocksKept, From
<1> QED
  BY <1>1, NoRowAssumption DEF OwnerOf, RentalOf, Referred, From

LEMMA OtherRentalsStand ==
    ASSUME HoldInv, HoldInv', NEW r \in Reservations, OnlyReserved(r)
    PROVE  \A y \in (Reservations \cup Contracts) \ {r} : Rented'[y] = Rented[y]
<1>1. Growing
  BY DEF OnlyReserved, Growing
<1>2. ASSUME NEW y \in (Reservations \cup Contracts) \ {r}
      PROVE  Spared(y)
  <2>1. \A b \in Blocks : block[b] # NoRow /\ OwnerOf(block[b]) = y => block'[b] = block[b]
    BY <1>2, OwnBlocks DEF OnlyReserved
  <2> QED
    BY <1>2, <2>1 DEF OnlyReserved, Spared, Stays
<1> QED
  BY <1>1, <1>2, SparedStands

\* What a reservation that is not checked out is promised.
LEMMA ReservationTold1 ==
    ASSUME HoldInv, NEW r \in Reservations,
           resv[r] = NoRow \/ resv[r].status \in {"REQUESTED", "EXPIRED", "CONFIRMED"}
    PROVE  /\ Rented[r].stage = IF resv[r] = NoRow THEN "none"
                                ELSE IF resv[r].status = "REQUESTED" THEN "asked"
                                ELSE IF resv[r].status = "EXPIRED" THEN "lapsed" ELSE "held"
           /\ Rented[r].stage = "held" => Rented[r].promise # NoRow
<1>0. Tell /\ Real /\ \A s, p : /\ Promise!At(s, p).stage = s /\ Promise!At(s, p).promise = p
  BY AllTold, AllReal DEF Promise!At
<1>1. CASE resv[r] # NoRow /\ resv[r].status = "CONFIRMED"
  <2>1. PICK b \in Blocks : From(block[b], r)
    BY <1>1 DEF HoldInv, Kept, ReservationsKept, ResvKept
  <2>2. Rented[r] = Promise!At("held", PromiseOf(block[b])) /\ PromiseOf(block[b]) # NoRow
    BY <1>0, <1>1, <2>1 DEF Tell, ReservationsTell, Real, From
  <2> QED
    BY <1>0, <1>1, <2>2
<1>2. CASE ~(resv[r] # NoRow /\ resv[r].status = "CONFIRMED")
  BY <1>0, <1>2 DEF Tell, ReservationsTell
<1> QED
  BY <1>1, <1>2

LEMMA ReservationIsHeld ==
    ASSUME HoldInv, HoldInv', NEW r \in Reservations, OnlyReserved(r),
           resv[r] = NoRow \/ resv[r].status \in {"REQUESTED", "EXPIRED", "CONFIRMED"},
           resv'[r].status = "CONFIRMED"
    PROVE  Promise!Move
<1>1. Rented[r].stage \in {"none", "asked", "lapsed", "held"}
  BY ReservationTold1
<1>2. Rented'[r].stage = "held" /\ Rented'[r].promise # NoRow
  <2>0. Tell' /\ Real' /\ \A s, p : /\ Promise!At(s, p).stage = s /\ Promise!At(s, p).promise = p
    BY TellsStill, StillReal DEF Promise!At
  <2>1. PICK b \in Blocks : From(block'[b], r)
    BY DEF OnlyReserved, HoldInv, Kept, ReservationsKept, ResvKept
  <2>2. Rented'[r] = Promise!At("held", PromiseOf(block'[b])) /\ PromiseOf(block'[b]) # NoRow
    BY <2>0, <2>1 DEF OnlyReserved, Tell, ReservationsTell, Real, From, PromiseOf, Promise!At
  <2> QED
    BY <2>0, <2>2
<1> QED
  BY <1>1, <1>2, OtherRentalsStand, StepKeeps DEF Promise!Hold

LEMMA ReservationEnds ==
    ASSUME HoldInv, HoldInv', NEW r \in Reservations, OnlyReserved(r),
           resv[r] # NoRow, resv[r].status \in {"REQUESTED", "EXPIRED", "CONFIRMED"},
           resv'[r].status \in {"CANCELLED", "NO_SHOW"}
    PROVE  Promise!Move
<1>1. Rented[r].stage \in {"asked", "lapsed", "held"}
  BY ReservationTold1
<1>2. Rented'[r] = Promise!At("over", NoRow)
  BY TellsStill DEF OnlyReserved, Tell, ReservationsTell, Promise!At
<1> QED
  BY <1>1, <1>2, OtherRentalsStand, StepKeeps DEF Promise!End

LEMMA OnlyWritten ==
    ASSUME TypeOK, NEW r \in Reservations, NEW row \in ResvRows,
           resv' = [resv EXCEPT ![r] = row], UNCHANGED <<ctr, leg>>,
           \A b \in Blocks : block[b] # NoRow /\ ~From(block[b], r) => block'[b] = block[b]
    PROVE  OnlyReserved(r) /\ resv'[r] = row
<1>1. \A q \in Reservations : resv'[q] = IF q = r THEN row ELSE resv[q]
  BY DEF TypeOK
<1> QED
  BY <1>1, RowAssumption DEF OnlyReserved

LEMMA RequestPromise ==
    ASSUME HoldInv, HoldInv', NEW r \in Reservations, NEW p \in Periods,
           Request(r, p) \/ (\E v \in Vehicles : RequestConfirmed(r, p, v))
    PROVE  Promise!Move
<1>0. TypeOK /\ block \in Table
  BY DEF HoldInv, SerialInv, IInv, Sound
<1>1. CASE Request(r, p)
  <2> DEFINE row == [status |-> "REQUESTED", vehicle |-> NoRow, from |-> p.from, to |-> p.to]
  <2>1. row \in ResvRows /\ row.status = "REQUESTED"
    BY PeriodType DEF ResvRows, ResvStatuses, RefTo
  <2>2. resv' = [resv EXCEPT ![r] = row] /\ UNCHANGED <<ctr, leg, block>> /\ resv[r] = NoRow
    BY <1>1 DEF Request
  <2> HIDE DEF row
  <2>3. OnlyReserved(r) /\ resv'[r] = row
    BY <1>0, <2>1, <2>2, OnlyWritten
  <2>4. Rented[r] = Promise!At("none", NoRow)
    BY <2>2, AllTold DEF Tell, ReservationsTell
  <2>5. Rented'[r] = Promise!At("asked", NoRow)
    BY <2>1, <2>3, TellsStill DEF OnlyReserved, Tell, ReservationsTell, Promise!At
  <2> QED
    BY <2>3, <2>4, <2>5, OtherRentalsStand, StepKeeps DEF Promise!Ask, Promise!At
<1>2. ASSUME NEW v \in Vehicles, RequestConfirmed(r, p, v)
      PROVE  Promise!Move
  <2> DEFINE row == [status |-> "CONFIRMED", vehicle |-> v, from |-> p.from, to |-> p.to]
  <2>1. row \in ResvRows /\ row.status = "CONFIRMED"
    BY PeriodType DEF ResvRows, ResvStatuses, RefTo
  <2>2. /\ resv' = [resv EXCEPT ![r] = row] /\ UNCHANGED <<ctr, leg>> /\ resv[r] = NoRow
        /\ Allocate(block, v, "RESERVATION", p.from, p.to, r, NoRow)
    BY <1>2 DEF RequestConfirmed
  <2> HIDE DEF row
  <2>3. \A b \in Blocks : block[b] # NoRow => block'[b] = block[b]
    BY <1>0, <2>2, Allocated
  <2>4. OnlyReserved(r) /\ resv'[r] = row
    BY <1>0, <2>1, <2>2, <2>3, OnlyWritten
  <2> QED
    BY <2>1, <2>2, <2>4, ReservationIsHeld
<1> QED
  BY <1>1, <1>2

LEMMA ConfirmPromise ==
    ASSUME OneAtATime, HoldInv, HoldInv', NEW w \in Workers, NEW r \in Reservations,
           NEW v \in Vehicles, Confirm(w, r, v)
    PROVE  Promise!Move
<1> DEFINE row == [resv[r] EXCEPT !.status = "CONFIRMED", !.vehicle = v]
<1>0. TypeOK /\ block \in Table /\ Holding(w, r) /\ UNCHANGED <<ctr, leg>>
  BY DEF HoldInv, SerialInv, IInv, Confirm, Sound
<1>1. /\ seen[w].row.status = "REQUESTED" /\ resv[r].status \in {"REQUESTED", "EXPIRED"}
  BY <1>0, ReservedInHand DEF Confirm
<1>2. resv[r] \in ResvRows
  BY <1>0, HeldRow DEF HoldInv, SerialInv
<1>3. row \in ResvRows /\ row.status = "CONFIRMED"
  BY <1>2 DEF ResvRows, ResvStatuses, RefTo
<1>4. resv' = [resv EXCEPT ![r] = row]
  BY <1>0 DEF Confirm, TypeOK
<1> HIDE DEF row
<1>5. \A b \in Blocks : block[b] # NoRow => block'[b] = block[b]
  BY <1>0, Allocated DEF Confirm
<1>6. OnlyReserved(r) /\ resv'[r] = row
  BY <1>0, <1>3, <1>4, <1>5, OnlyWritten
<1> QED
  BY <1>1, <1>3, <1>6, ReservationIsHeld

\* A request that is changed, also one that lapsed meanwhile, is promised nothing yet.
LEMMA UpdatePromise ==
    ASSUME OneAtATime, HoldInv, HoldInv', NEW w \in Workers, NEW r \in Reservations,
           NEW v \in Vehicles \cup {NoRow}, NEW p \in Periods, Update(w, r, v, p)
    PROVE  Promise!Move \/ Rented' = Rented
<1> DEFINE row == [resv[r] EXCEPT !.vehicle = v, !.from = p.from, !.to = p.to]
<1>0. TypeOK /\ block \in Table /\ Holding(w, r) /\ UNCHANGED <<ctr, leg>>
  BY DEF HoldInv, SerialInv, IInv, Update, Sound
<1>1. resv[r] \in ResvRows
  BY <1>0, HeldRow DEF HoldInv, SerialInv
<1>2. row \in ResvRows /\ row.status = resv[r].status
  BY <1>1, PeriodType DEF ResvRows, RefTo
<1>3. resv' = [resv EXCEPT ![r] = row]
  BY <1>0 DEF Update, TypeOK
<1> HIDE DEF row
<1>4. CASE seen[w].row.status = "REQUESTED"
  <2>1. resv[r].status \in {"REQUESTED", "EXPIRED"}
    BY <1>0, <1>4, ReservedInHand
  <2>2. block' = block
    BY <1>4 DEF Update
  <2>3. OnlyReserved(r) /\ resv'[r] = row
    BY <1>0, <1>2, <1>3, <2>2, OnlyWritten
  <2>4. Tell /\ Tell' /\ resv[r] # NoRow
    BY <1>1, AllTold, TellsStill, RowAssumption
  <2>5. Rented'[r] = Rented[r]
    BY <1>2, <2>1, <2>3, <2>4 DEF OnlyReserved, Tell, ReservationsTell, Promise!At
  <2> QED
    BY <2>3, <2>5, OtherRentalsStand, NothingSaid
<1>5. CASE seen[w].row.status = "CONFIRMED"
  <2> DEFINE t == Release(block, seen[w].block)
  <2>1. /\ resv[r].status = "CONFIRMED" /\ t \in Table
        /\ \A b \in Blocks : t[b] = GivenBack(r, b)
    BY <1>0, <1>5, ReservedInHand
  <2>2. v \in Vehicles /\ Allocate(t, v, "RESERVATION", p.from, p.to, r, NoRow)
    BY <1>5 DEF Update
  <2> HIDE DEF t
  <2>3. PICK n \in Blocks :
            /\ block[n] = NoRow
            /\ \A b \in Blocks : block'[b] = IF b = n
                    THEN NewRow(v, "RESERVATION", p.from, p.to, r, NoRow) ELSE t[b]
    BY <2>1, <2>2, Allocated
  <2>4. \A b \in Blocks : block[b] # NoRow /\ ~From(block[b], r) => block'[b] = block[b]
    BY <2>1, <2>3 DEF GivenBack
  <2>5. OnlyReserved(r) /\ resv'[r] = row
    BY <1>0, <1>2, <1>3, <2>4, OnlyWritten
  <2> QED
    BY <1>2, <2>1, <2>5, ReservationIsHeld
<1> QED
  BY <1>4, <1>5 DEF Update

LEMMA CancelPromise ==
    ASSUME OneAtATime, HoldInv, HoldInv', NEW w \in Workers, NEW r \in Reservations,
           NEW status \in {"CANCELLED", "NO_SHOW"}, Cancel(w, r, status)
    PROVE  Promise!Move
<1> DEFINE row == [resv[r] EXCEPT !.status = status]
<1>0. TypeOK /\ Holding(w, r) /\ UNCHANGED <<ctr, leg>>
  BY DEF HoldInv, SerialInv, IInv, Cancel
<1>1. resv[r] \in ResvRows /\ resv[r] # NoRow
  BY <1>0, HeldRow, RowAssumption DEF HoldInv, SerialInv
<1>2. row \in ResvRows /\ row.status = status
  BY <1>1 DEF ResvRows, ResvStatuses
<1>3. resv' = [resv EXCEPT ![r] = row]
  BY <1>0 DEF Cancel, TypeOK
<1> HIDE DEF row
<1>4. seen[w].row.status \in {"REQUESTED", "CONFIRMED"} /\ block' = Release(block, seen[w].block)
  BY DEF Cancel
<1>5. /\ \A b \in Blocks : block'[b] = GivenBack(r, b)
      /\ resv[r].status \in {"REQUESTED", "EXPIRED", "CONFIRMED"}
  BY <1>0, <1>4, ReservedInHand
<1>6. OnlyReserved(r) /\ resv'[r] = row
  BY <1>0, <1>2, <1>3, <1>5, OnlyWritten DEF GivenBack
<1> QED
  BY <1>1, <1>2, <1>5, <1>6, ReservationEnds

\* What was held for the reservation is held for the contract that stands for it.
LEMMA CheckoutPromise ==
    ASSUME OneAtATime, HoldInv, HoldInv', NEW w \in Workers, NEW r \in Reservations,
           NEW c \in Contracts, Checkout(w, r, c)
    PROVE  Promise!Move
<1> DEFINE row == Contract("APPROVED", "PERIOD", resv[r].from, resv[r].to, r, NoRow)
           opened == OpenLeg(c, resv[r].vehicle, resv[r].from)
           b   == seen[w].block
           k   == NewLeg
<1>0. IInv /\ TypeOK /\ Kept
  BY DEF HoldInv, SerialInv, IInv
<1>1. Holding(w, r) /\ ctr[c] = NoRow
  BY DEF Checkout
<1>2. seen[w].row = resv[r] /\ resv[r].status = "CONFIRMED" /\ resv[r] \in ResvRows
  BY <1>1, ReservedInHand, ReservationInHand DEF HoldInv, Checkout
<1>3. b \in Blocks /\ From(block[b], r) /\ block \in Table
  BY <1>0, <1>1, <1>2, BlockInHand DEF IInv, Sound
<1>4. k \in Legs /\ leg[k] = NoRow /\ k # NoRow
  BY <1>0, NewLegFree DEF Checkout, Kept
<1>5. row # NoRow /\ row.status = "APPROVED" /\ row.resv = r /\ resv[r].vehicle \in Vehicles
  <2>1. resv[r].vehicle \in Vehicles
    BY <1>2 DEF ResvRows, RefTo, Checkout
  <2>2. row \in CtrRows
    BY <1>2 DEF ResvRows, RefTo, Contract, CtrRows, CtrStatuses
  <2> QED
    BY <2>1, <2>2, RowAssumption DEF Contract
<1>6. opened # NoRow /\ opened.ctr = c /\ opened.till = NoRow
  <2>1. opened \in LegRows
    BY <1>2, <1>5 DEF LegRows, RefTo, OpenLeg, ResvRows
  <2> QED
    BY <2>1, RowAssumption DEF OpenLeg
<1>7. /\ \A d \in Contracts : ctr'[d] = IF d = c THEN row ELSE ctr[d]
      /\ \A h \in Legs : leg'[h] = IF h = k THEN opened ELSE leg[h]
  BY <1>0, <1>2, <1>4 DEF TypeOK, Checkout
<1>8. \A a \in Blocks \ {b} : block'[a] = block[a]
  BY <1>3 DEF Checkout, Live, Table
<1>9. (\A q \in Reservations \ {r} : resv'[q] = resv[q]) /\ resv'[r] # NoRow
  <2>1. [resv[r] EXCEPT !.status = "CHECKED_OUT"] \in ResvRows
    BY <1>2 DEF ResvRows, ResvStatuses
  <2> QED
    BY <1>0, <2>1, RowAssumption DEF TypeOK, Checkout
<1> HIDE DEF row, opened, b, k
<1>10. Growing
  BY <1>1, <1>4, <1>7, <1>9 DEF Growing
<1>11. ASSUME NEW y \in (Reservations \cup Contracts) \ {r}
       PROVE  Spared(y)
  <2>1. y \in Reservations => resv'[y] = resv[y]
    BY <1>9, <1>11
  <2>2. y \in Contracts /\ ctr[y] = NoRow /\ ctr'[y] # NoRow => ctr'[y].resv # NoRow
    BY <1>5, <1>7, NoRowAssumption
  <2>3. \A d \in Contracts : ctr[d] # NoRow /\ RentalOf(d) = y => ctr'[d] = ctr[d]
    BY <1>1, <1>7
  <2>4. \A h \in Legs : leg[h] # NoRow /\ RentalOf(leg[h].ctr) = y => leg'[h] = leg[h]
    BY <1>4, <1>7
  <2>5. \A a \in Blocks : block[a] # NoRow /\ OwnerOf(block[a]) = y => Stays(block'[a], block[a])
    BY <1>3, <1>8, <1>11, OwnBlocks DEF Stays
  <2> QED
    BY <2>1, <2>2, <2>3, <2>4, <2>5 DEF Spared
<1>12. Rented[r].stage = "held"
  BY <1>2, ReservationTold1, RowAssumption
<1>13. Rented'[r].stage = "held" /\ Rented'[r].promise # NoRow
  <2>0. /\ Tell' /\ Real' /\ Kept'
        /\ \A s, p : Promise!At(s, p).stage = s /\ Promise!At(s, p).promise = p
    BY TellsStill, StillReal DEF Promise!At, HoldInv
  <2>1. /\ Stand(c)' /\ RentalOf(c)' = r /\ OpenFor(leg'[k], c)
        /\ ctr'[c].status \notin Finished /\ ctr'[c].status # "ACTIVE"
    BY <1>5, <1>4, <1>6, <1>7, NoRowAssumption DEF Stand, RentalOf, OpenFor, Finished
  <2>2. PICK h \in Legs, a \in Blocks : OpenFor(leg'[h], c) /\ On(block'[a], h)
    BY <2>0, <2>1 DEF Kept, ContractsKept, CtrKept, Stand
  <2>3. Rented'[r] = Promise!At("held", PromiseOf(block'[a])) /\ PromiseOf(block'[a]) # NoRow
    BY <2>0, <2>1, <2>2 DEF Tell, ContractsTell, Real, OpenFor, On, PromiseOf, Promise!At
  <2> QED
    BY <2>0, <2>3
<1>14. \A y \in (Reservations \cup Contracts) \ {r} : Rented'[y] = Rented[y]
  BY <1>10, <1>11, SparedStands
<1> QED
  BY <1>12, <1>13, <1>14, StepKeeps DEF Promise!Hold

-----------------------------------------------------------------------------
(* Rentals implements RentalPromise *)

\* Rows that tell no rental change, or none does.
LEMMA QuietPromise ==
    ASSUME HoldInv, HoldInv', UNCHANGED <<resv, ctr, leg>>,
           \A b \in Blocks : block[b] # NoRow /\ block[b].kind # "BLOCK" => block'[b] = block[b]
    PROVE  Rented' = Rented
<1>1. ASSUME NEW b \in Blocks, block[b] # NoRow, block[b].kind = "BLOCK"
      PROVE  OwnerOf(block[b]) = NoRow
  <2>1. Referred(block[b], resv, ctr, leg)
    BY <1>1 DEF HoldInv, Kept, BlocksKept
  <2> QED
    BY <1>1, <2>1 DEF Referred, OwnerOf
<1>2. ASSUME NEW y \in Reservations \cup Contracts
      PROVE  Spared(y)
  <2>1. y # NoRow
    BY NoRowAssumption
  <2>2. \A b \in Blocks : block[b] # NoRow /\ OwnerOf(block[b]) = y => block'[b] = block[b]
    BY <1>1, <2>1
  <2> QED
    BY <2>2 DEF Spared, Stays
<1>3. Growing
  BY DEF Growing
<1> QED
  BY <1>2, <1>3, SparedStands, NothingSaid

LEMMA BlockPromise ==
    ASSUME HoldInv, HoldInv',
           \/ \E v \in Vehicles, p \in BlockPeriods : CreateBlock(v, p)
           \/ \E b \in Blocks : ReleaseBlock(b)
    PROVE  Rented' = Rented
<1>0. block \in Table
  BY DEF HoldInv, SerialInv, IInv, Sound
<1>1. ASSUME NEW v \in Vehicles, NEW p \in BlockPeriods, CreateBlock(v, p)
      PROVE  Rented' = Rented
  <2>1. Allocate(block, v, "BLOCK", p.from, p.to, NoRow, NoRow) /\ UNCHANGED <<resv, ctr, leg>>
    BY <1>1 DEF CreateBlock
  <2>2. \A b \in Blocks : block[b] # NoRow => block'[b] = block[b]
    BY <1>0, <2>1, Allocated
  <2> QED
    BY <2>1, <2>2, QuietPromise
<1>2. ASSUME NEW n \in Blocks, ReleaseBlock(n)
      PROVE  Rented' = Rented
  <2>1. \A b \in Blocks : block'[b] = IF b = n THEN NoRow ELSE block[b]
    BY <1>0, <1>2 DEF ReleaseBlock, Release, Table
  <2>2. UNCHANGED <<resv, ctr, leg>> /\ block[n].kind = "BLOCK"
    BY <1>2 DEF ReleaseBlock
  <2> QED
    BY <2>1, <2>2, QuietPromise
<1> QED
  BY <1>1, <1>2

LEMMA ExpirePromise ==
    ASSUME HoldInv, HoldInv', NEW late \in SUBSET Reservations, Expire(late)
    PROVE  Promise!Move
<1> DEFINE R == Reservations \cup Contracts
<1>0. Tell /\ Tell' /\ UNCHANGED <<ctr, leg, block>>
  BY AllTold, TellsStill DEF Expire
<1>1. \A r \in late : /\ resv[r] # NoRow /\ resv[r].status = "REQUESTED" /\ resv[r] \in ResvRows
                      /\ resv'[r] = [resv[r] EXCEPT !.status = "EXPIRED"]
  BY DEF Expire, Asked, HoldInv, SerialInv, IInv, TypeOK, RefTo
<1>2. \A r \in Reservations \ late : resv'[r] = resv[r]
  BY DEF Expire
<1>3. \A r \in late : resv'[r].status = "EXPIRED" /\ resv'[r] # NoRow
  <2>1. \A r \in late : resv'[r].status = "EXPIRED" /\ resv'[r] \in ResvRows
    BY <1>1 DEF ResvRows, ResvStatuses
  <2> QED
    BY <2>1, RowAssumption
<1>4. \A r \in late : Rented[r] = Promise!At("asked", NoRow)
  BY <1>0, <1>1 DEF Tell, ReservationsTell
<1>5. \A r \in late : Rented'[r] = Promise!At("lapsed", NoRow)
  BY <1>0, <1>3 DEF Tell, ReservationsTell, Promise!At
<1>6. ASSUME NEW y \in R \ late
      PROVE  Rented'[y] = Rented[y]
  <2>1. Growing
    BY <1>0, <1>2, <1>3 DEF Growing
  <2>2. Spared(y)
    BY <1>0, <1>2, <1>6 DEF Spared, Stays
  <2> QED
    BY <1>6, <2>1, <2>2, SparedStands
<1>7. Promise!Lapse(late)
  BY <1>4, <1>5 DEF Promise!Lapse, Promise!At
<1>8. Promise!Only(late)
  <2>1. Rented' = [y \in R |-> Rented'[y]]
    BY DEF Rented
  <2>2. \A y \in R : Rented'[y] = IF y \in late THEN Rented'[y] ELSE Rented[y]
    BY <1>6
  <2>3. Rented' = [y \in R |-> IF y \in late THEN Rented'[y] ELSE Rented[y]]
    BY <2>1, <2>2
  <2> QED
    BY <2>3 DEF Promise!Only
<1>9. late \in SUBSET R
  OBVIOUS
<1> QED
  BY <1>7, <1>8, <1>9 DEF Promise!Move

LEMMA ReservationStepPromise ==
    ASSUME OneAtATime, HoldInv, HoldInv', NEW w \in Workers, NEW r \in Reservations,
           ReservationStep(w, r)
    PROVE  Promise!Move \/ Rented' = Rented
<1>1. CASE LoadReservation(w, r)
  <2>1. UNCHANGED <<resv, ctr, leg, block>>
    BY <1>1 DEF LoadReservation
  <2> QED
    BY <2>1, QuietPromise
<1>2. CASE \E v \in Vehicles : Confirm(w, r, v)
  BY <1>2, ConfirmPromise
<1>3. CASE \E v \in Vehicles \cup {NoRow}, p \in Periods : Update(w, r, v, p)
  BY <1>3, UpdatePromise
<1>4. CASE \E s \in {"CANCELLED", "NO_SHOW"} : Cancel(w, r, s)
  BY <1>4, CancelPromise
<1>5. CASE \E c \in Contracts : Checkout(w, r, c)
  BY <1>5, CheckoutPromise
<1> QED
  BY <1>1, <1>2, <1>3, <1>4, <1>5 DEF ReservationStep

LEMMA ContractStepPromise ==
    ASSUME OneAtATime, HoldInv, HoldInv', NEW w \in Workers, NEW c \in Contracts,
           ContractStep(w, c)
    PROVE  Promise!Move \/ Rented' = Rented
<1>1. CASE LoadContract(w, c)
  <2>1. UNCHANGED <<resv, ctr, leg, block>>
    BY <1>1 DEF LoadContract
  <2> QED
    BY <2>1, QuietPromise
<1>2. CASE Submit(w, c) \/ Approve(w, c)
  BY <1>2, AdvancePromise
<1>3. CASE CancelContract(w, c) \/ Activate(w, c)
  BY <1>3, CancelContractPromise, ActivatePromise
<1>4. ASSUME NEW v \in Vehicles, SwapProposed(w, c, v) \/ SwapInForce(w, c, v)
      PROVE  Promise!Move
  <2>1. \E g, b, n, at, from : Swapped(c, g, b, n, v, at, from) /\ Elsewhere(c, g, v, from)
    BY <1>4, SwapProposedSwaps, SwapInForceSwaps
  <2> QED
    BY <2>1, SwappedPromise
<1>5. CASE \E to \in 0 .. MaxEnd : Extend(w, c, to)
  BY <1>5, ExtendPromise
<1>6. CASE \E d \in Contracts, to \in 0 .. MaxEnd : Renew(w, c, d, to)
  BY <1>6, RenewPromise
<1>7. CASE \E s \in {"CLOSED", "TERMINATED"}, at \in 0 .. MaxTime : Finish(w, c, s, at)
  BY <1>7, FinishPromise
<1> QED
  BY <1>1, <1>2, <1>3, <1>4, <1>5, <1>6, <1>7 DEF ContractStep

LEMMA DirectPromise ==
    ASSUME HoldInv, HoldInv', Direct
    PROVE  Promise!Move \/ Rented' = Rented
<1>1. CASE \E r \in Reservations, p \in Periods :
              Request(r, p) \/ \E v \in Vehicles : RequestConfirmed(r, p, v)
  BY <1>1, RequestPromise
<1>2. CASE \E c \in Contracts, k \in ContractKinds, v \in Vehicles, p \in Periods :
              Propose(c, k, v, p)
  BY <1>2, ProposePromise
<1>3. CASE \/ \E v \in Vehicles, p \in BlockPeriods : CreateBlock(v, p)
           \/ \E b \in Blocks : ReleaseBlock(b)
  BY <1>3, BlockPromise
<1>4. CASE \/ \E c \in Contracts, v \in Vehicles, t \in {"DELIVERY", "RETURN"} :
                 OpenInspection(c, v, t) \/ CompleteInspection(c, v, t)
           \/ \E v \in Vehicles, to \in ManualStatuses : ChangeOperational(v, to)
  <2>1. UNCHANGED <<resv, ctr, leg, block>>
    BY <1>4 DEF OpenInspection, CompleteInspection, ChangeOperational
  <2> QED
    BY <2>1, QuietPromise, SMTT(30)
<1> QED
  BY <1>1, <1>2, <1>3, <1>4 DEF Direct

LEMMA StepPromise ==
    ASSUME OneAtATime, HoldInv, HoldInv', [Next]_vars
    PROVE  Promise!Move \/ Rented' = Rented
<1>1. CASE \E w \in Workers, r \in Reservations : ReservationStep(w, r)
  BY <1>1, ReservationStepPromise
<1>2. CASE \E w \in Workers, c \in Contracts : ContractStep(w, c)
  BY <1>2, ContractStepPromise
<1>3. CASE \/ \E w \in Workers : Look(w) \/ Abandon(w)
           \/ Tick
           \/ UNCHANGED vars
  <2>1. UNCHANGED <<resv, ctr, leg, block>>
    BY <1>3 DEF Look, Abandon, Tick, vars
  <2> QED
    BY <2>1, QuietPromise
<1>4. CASE Direct
  BY <1>4, DirectPromise
<1>5. CASE \E late \in SUBSET Reservations : Expire(late)
  BY <1>5, ExpirePromise
<1> QED
  BY <1>1, <1>2, <1>3, <1>4, <1>5 DEF Next

LEMMA InitPromise == Init => Promise!Init
<1> SUFFICES ASSUME Init PROVE Promise!Init
  OBVIOUS
<1>1. /\ \A r \in Reservations : resv[r] = NoRow
      /\ \A c \in Contracts : ctr[c] = NoRow
  BY DEF Init
<1>2. Tell
  BY InitHolds, AllTold
<1>3. \A x \in Reservations \cup Contracts : Rented[x] = Promise!At("none", NoRow)
  BY <1>1, <1>2 DEF Tell, ReservationsTell, OthersTell
<1>4. Rented = [x \in Reservations \cup Contracts |-> Rented[x]]
  BY DEF Rented
<1>5. Rented = [x \in Reservations \cup Contracts |-> Promise!At("none", NoRow)]
  BY <1>3, <1>4
<1> QED
  BY <1>5 DEF Promise!Init

\* With handlers that do not overlap, the desk keeps its promise: every step of
\* a handler, a job or the office is a step of one rental that RentalPromise
\* allows - to a car that nobody else is promised then - or changes no promise.
THEOREM DeskKeepsThePromise ==
    ASSUME OneAtATime
    PROVE  Spec => KeepsThePromise
<1>1. HoldInv /\ HoldInv' /\ [Next]_vars => [Promise!Next]_Rented
  BY StepPromise DEF Promise!Next
<1> QED
  BY <1>1, InitPromise, HoldInductive, PTL DEF Spec, KeepsThePromise, Promise!Spec
=============================================================================
