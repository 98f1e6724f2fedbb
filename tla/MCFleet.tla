------------------------------- MODULE MCFleet ------------------------------
(* Instances of Sales, the whole fleet, for TLC. *)
EXTENDS Sales, TLC

Span(from, to) == [from |-> from, to |-> to]

FirstHour == {Span(0, 1)}
=============================================================================
