------------------------------- MODULE Agenda -------------------------------
(***************************************************************************)
(* The availability engine of Norty Car: the rows of vehicle_allocations,  *)
(* the two constraints the database puts on them and the writes that       *)
(* AvailabilityService makes.  A table maps each row identifier to an      *)
(* active row or to NoRow.  A released row (active = FALSE) takes part in  *)
(* no query and in no constraint, so it is NoRow here; an UPDATE through   *)
(* an identifier whose row has been released changes nothing that is read. *)
(*                                                                         *)
(* Everything in this module is a function of a table, so that the modules *)
(* that own a table can use it and theorems can be stated about it.        *)
(***************************************************************************)
EXTENDS Integers

CONSTANTS Vehicles,  \* vehicle_units of one organisation
          Blocks,    \* identifiers of vehicle_allocations rows
          Prep,      \* turnaroundHours of the branch or of the organisation
          NoRow      \* SQL NULL, and the absence of a row

ASSUME PrepAssumption == Prep \in Nat

\* An allocation row.  leg is contractVehicleId, resv is reservationId.
Row(v, kind, from, to, until, r, g) ==
    [vehicle |-> v, kind |-> kind, from |-> from, to |-> to, until |-> until,
     resv |-> r, leg |-> g]

\* Tempo de preparo: a manual BLOCK has none.
Buffer(kind) == IF kind = "BLOCK" THEN 0 ELSE Prep

\* Mutant of NewRow: the two references swapped.
NewRowSwapped(v, kind, from, to, r, g) ==
    Row(v, kind, from, to, to + Buffer(kind), g, r)

\* The row allocate() inserts.
NewRow(v, kind, from, to, r, g) ==
    Row(v, kind, from, to, to + Buffer(kind), r, g)

\* vehicle_allocations_period_chk
PeriodCheck(row) == row.from < row.to /\ row.to <= row.until

\* tstzrange(startsAt, blockedUntil, '[)') &&, for the same vehicle
Overlap(a, b) ==
    /\ a.vehicle = b.vehicle
    /\ a.from < b.until
    /\ b.from < a.until

\* Mutant of Fits: the table without its exclusion constraint.
FitsAlone(t, b, row) == PeriodCheck(row)

\* What the database checks when row is written under identifier b:
\* the period and the exclusion constraint vehicle_allocations_no_overlap.
Fits(t, b, row) ==
    /\ PeriodCheck(row)
    /\ \A o \in Blocks \ {b} : t[o] # NoRow => ~Overlap(row, t[o])

Live(t, b) == b \in Blocks /\ t[b] # NoRow

\* UPDATE ... WHERE id = b
Write(t, b, row) == [t EXCEPT ![b] = row]

\* Mutant of Release: the row keeps active = TRUE.
ReleaseForgotten(t, b) == t

\* release(): the row stays, inactive.
Release(t, b) == IF b \in Blocks THEN [t EXCEPT ![b] = NoRow] ELSE t

\* Mutant of Truncated: the hour in which the car comes back counts whole.
TruncatedWhole(row, newEnd) ==
    LET end == IF newEnd <= row.from THEN row.from + 1 ELSE newEnd + 1
    IN  [row EXCEPT !.to = end, !.until = end + Buffer(row.kind)]

\* truncate(): never empty (one minute, the least positive length, is 1
\* here), and the preparation counts from the new end.
Truncated(row, newEnd) ==
    LET end == IF newEnd <= row.from THEN row.from + 1 ELSE newEnd
    IN  [row EXCEPT !.to = end, !.until = end + Buffer(row.kind)]

\* Mutant of Extended: endsAt is not written.
ExtendedUntil(row, newEnd) == [row EXCEPT !.until = newEnd + Prep]

\* extend(): the preparation is added whatever the kind.
Extended(row, newEnd) == [row EXCEPT !.to = newEnd, !.until = newEnd + Prep]

\* What the exclusion constraint promises about a whole table.
Disjoint(t) ==
    \A a, b \in Blocks :
        a # b /\ t[a] # NoRow /\ t[b] # NoRow => ~Overlap(t[a], t[b])
=============================================================================
