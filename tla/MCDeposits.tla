----------------------------- MODULE MCDeposits ------------------------------
(* Instances of Deposits for TLC: rows that do not exist yet, keys and       *)
(* workers are interchangeable.                                              *)
EXTENDS Deposits, TLC

Alike ==
    Permutations(Titles) \cup Permutations(Keys \ Entries) \cup Permutations(Entries)
    \cup Permutations(Workers)
=============================================================================
