------------------------------ MODULE MCLedger -------------------------------
(* Instances of Ledger for TLC: rows that do not exist yet, keys and workers *)
(* are interchangeable.                                                      *)
EXTENDS Ledger, TLC

Alike == Permutations(Titles) \cup Permutations(Keys) \cup Permutations(Workers)
=============================================================================
