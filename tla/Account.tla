------------------------------- MODULE Account -------------------------------
(***************************************************************************)
(* What the ledger promises about money, without statuses, locks or        *)
(* transactions.  A title is worth a price; each key brings an amount to   *)
(* one title once and for all; what is kept of it never passes the price,  *)
(* and leaves only as it came.  Ledger implements this specification.      *)
(***************************************************************************)
EXTENDS Integers

CONSTANTS Bills,    \* titles
          Receipts, \* keys under which money may arrive
          Unwritten \* a title that does not exist yet

VARIABLES price,    \* what each title is worth
          kept,     \* what is kept of what was paid for it
          came      \* for each key: the title it paid, how much, and if it is still kept

Given(t, a, here) == [title |-> t, amount |-> a, here |-> here]

\* Any price, and any amount within what is owed.
Open(t) ==
    /\ price[t] = Unwritten /\ price'[t] \in Nat \ {0}
    /\ price' = [price EXCEPT ![t] = price'[t]]
    /\ UNCHANGED <<kept, came>>

Receive(t, k) ==
    LET a == kept'[t] - kept[t] IN
    /\ price[t] # Unwritten
    /\ came[k] = Unwritten
    /\ a > 0 /\ kept[t] + a <= price[t]
    /\ kept' = [kept EXCEPT ![t] = @ + a]
    /\ came' = [came EXCEPT ![k] = Given(t, a, TRUE)]
    /\ UNCHANGED price

Return(k) ==
    /\ came[k] # Unwritten /\ came[k].here
    /\ kept' = [kept EXCEPT ![came[k].title] = @ - came[k].amount]
    /\ came' = [came EXCEPT ![k].here = FALSE]
    /\ UNCHANGED price

Init ==
    /\ price = [t \in Bills |-> Unwritten]
    /\ kept = [t \in Bills |-> 0]
    /\ came = [k \in Receipts |-> Unwritten]

Next ==
    \/ \E t \in Bills : Open(t)
    \/ \E t \in Bills, k \in Receipts : Receive(t, k)
    \/ \E k \in Receipts : Return(k)

Spec == Init /\ [][Next]_<<price, kept, came>>
=============================================================================
