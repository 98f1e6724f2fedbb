------------------------------- MODULE MCStock -------------------------------
(* Instances of Stock for TLC. *)
EXTENDS Stock, TLC

Alike == Permutations(Workers) \cup Permutations(Locations)
=============================================================================
