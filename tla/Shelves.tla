------------------------------ MODULE Shelves -------------------------------
(***************************************************************************)
(* What the stock promises, without orders, counts or transactions: goods  *)
(* reach a shelf or leave it on a slip, a slip is filled in once and for   *)
(* all, and no shelf owes anything.  Goods that change shelves leave one   *)
(* and reach the other together.  Stock implements this specification.     *)
(***************************************************************************)
EXTENDS Integers

CONSTANTS Places, \* shelves: a product at a location
          Slips,  \* one for each movement that may ever be made
          Blank   \* a slip that nobody filled in

VARIABLES shelf, \* what is on each shelf
          slip   \* for each slip: the shelf and what it moved

Moving(s, n) == [place |-> s, moved |-> n]

\* A slip s brings n goods to a place, or takes them away if n < 0.
Move(s, a, n) ==
    /\ slip[s] = Blank
    /\ shelf[a] + n >= 0
    /\ shelf' = [shelf EXCEPT ![a] = @ + n]
    /\ slip' = [slip EXCEPT ![s] = Moving(a, n)]

Carry(s, z, a, b, n) ==
    /\ a # b /\ s # z
    /\ slip[s] = Blank /\ slip[z] = Blank
    /\ shelf[a] >= n
    /\ shelf' = [shelf EXCEPT ![a] = @ - n, ![b] = @ + n]
    /\ slip' = [slip EXCEPT ![s] = Moving(a, -n), ![z] = Moving(b, n)]

Init ==
    /\ shelf = [a \in Places |-> 0]
    /\ slip = [s \in Slips |-> Blank]

\* The slips of this step; what they say may be anything.
Filled == {s \in Slips : slip[s] = Blank /\ slip'[s] # Blank}

Next ==
    \/ \E s \in Filled : Move(s, slip'[s].place, slip'[s].moved)
    \/ \E s, z \in Filled : Carry(s, z, slip'[s].place, slip'[z].place, slip'[z].moved)

Spec == Init /\ [][Next]_<<shelf, slip>>
=============================================================================
