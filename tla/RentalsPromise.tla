---------------------------- MODULE RentalsPromise ---------------------------
(***************************************************************************)
(* The refinement mapping from Rentals to RentalPromise.  The stage of a   *)
(* rental is read from the statuses of its rows; what it is promised, from *)
(* the agenda, so that the two have to agree at every step.                *)
(***************************************************************************)
EXTENDS Rentals

\* The contract that stands for reservation r.
ContractsFrom(r) ==
    {c \in Contracts : ctr[c] # NoRow /\ ctr[c].resv = r /\ ctr[c].status # "CANCELLED"}

ContractStage(c) ==
    CASE ctr[c].status \in Proposal \cup {"APPROVED"} -> "held"
      [] ctr[c].status = "ACTIVE" -> "out"
      [] OTHER -> "over"

ReservationStage(r) ==
    CASE resv[r].status = "REQUESTED" -> "asked"
      [] resv[r].status = "CONFIRMED" -> "held"
      [] resv[r].status = "CHECKED_OUT" -> ContractStage(CHOOSE c \in ContractsFrom(r) : TRUE)
      [] resv[r].status = "EXPIRED" -> "lapsed"
      [] OTHER -> "over"

\* A contract made from a reservation is the same rental, told under it.
RentStage(x) ==
    IF x \in Reservations
    THEN IF resv[x] = NoRow THEN "none" ELSE ReservationStage(x)
    ELSE IF ctr[x] = NoRow \/ ctr[x].resv # NoRow THEN "none" ELSE ContractStage(x)

\* The blocks of the open interval of a contract, or of a reservation in hand.
RentBlocks(x) ==
    IF x \in Reservations
    THEN IF ContractsFrom(x) = {} THEN ResvBlocks(x)
         ELSE UNION {LegBlocks(g) : g \in UNION {OpenLegs(c) : c \in ContractsFrom(x)}}
    ELSE IF ctr[x] = NoRow \/ ctr[x].resv # NoRow THEN {}
         ELSE UNION {LegBlocks(g) : g \in OpenLegs(x)}

RentPromise(x) ==
    IF RentBlocks(x) = {} THEN NoRow
    ELSE LET b == CHOOSE b \in RentBlocks(x) : TRUE
         IN  [car |-> block[b].vehicle, from |-> block[b].from, to |-> block[b].to]

\* All that is promised.
Rented == [x \in Reservations \cup Contracts |->
              [stage |-> RentStage(x), promise |-> RentPromise(x)]]

Promise == INSTANCE RentalPromise WITH
    Rents   <- Reservations \cup Contracts,
    Cars    <- Vehicles,
    Nothing <- NoRow,
    rent    <- Rented

\* A promise is not a null.
ASSUME PromiseAssumption == NoRow \notin Promise!Promises

\* With serial handlers every step of the desk keeps the promise or stutters.
KeepsThePromise == Promise!Spec
=============================================================================
