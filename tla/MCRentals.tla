------------------------------ MODULE MCRentals -----------------------------
(* Instances of Rentals for TLC: the periods that clients may ask for. *)
EXTENDS RentalsPromise, TLC

Span(from, to) == [from |-> from, to |-> to]

\* The second begins where the preparation of the first ends, and the third where
\* that of the first, extended by one, does.
ThreePeriods == {Span(0, 1), Span(2, 3), Span(3, 4)}
OnePeriod == {Span(1, 2)}
FirstPeriod == {Span(0, 2)}

\* Cars are interchangeable, and so are workers and rows that do not exist yet.
Interchangeable ==
    Permutations(Vehicles) \cup Permutations(Contracts)
    \cup Permutations(Reservations) \cup Permutations(Workers)
=============================================================================
