---------------------------- MODULE RentalPromise ----------------------------
(***************************************************************************)
(* What the rental desk promises, without agenda rows, intervals, statuses *)
(* or transactions.  A rental is asked for, held, out and over, in that    *)
(* order; from the moment it is held until it is over it is promised one   *)
(* car for one period, and no car is promised twice at a time.             *)
(* Rentals implements this specification when handlers are serial.         *)
(***************************************************************************)
EXTENDS Integers

CONSTANTS Rents,   \* reservations, and contracts made without one
          Cars,
          Nothing  \* no promise

VARIABLE rent      \* the stage of each rental and what it is promised

Promises == [car : Cars, from : Nat, to : Nat]

At(stage, p) == [stage |-> stage, promise |-> p]

Free(x, p) ==
    \A y \in Rents \ {x} :
        LET q == rent[y].promise
        IN  q # Nothing /\ q.car = p.car => q.to <= p.from \/ p.to <= q.from

-----------------------------------------------------------------------------
(* How a rental goes from was to is.  p is what it is promised from then on. *)

Ask(was, is) == was.stage = "none" /\ is = At("asked", Nothing)

\* A proposal and a confirmation take a car; a change of plan may take another
\* one or another period.  A request that lapses while someone is confirming
\* it is confirmed all the same.
Hold(was, is) ==
    /\ was.stage \in {"none", "asked", "lapsed", "held"}
    /\ is.stage = "held"

\* The car that is delivered is the one promised, perhaps sooner.
Deliver(was, is) ==
    /\ was.stage = "held" /\ is.stage = "out"
    /\ is.promise.car = was.promise.car
    /\ is.promise.to = was.promise.to
    /\ is.promise.from <= was.promise.from

\* In use: a longer period, or another car for the rest of it.
Alter(was, is) ==
    LET p == was.promise
        q == is.promise
    IN  /\ was.stage = "out" /\ is.stage = "out"
        /\ \/ q.car = p.car /\ q.from = p.from /\ q.to > p.to
           \/ q.car # p.car /\ q.from >= p.from /\ q.to = p.to

End(was, is) ==
    /\ was.stage \in {"asked", "lapsed", "held", "out"}
    /\ is = At("over", Nothing)

\* Whoever is given a car is given one that nobody else has then.
Step(x) ==
    LET was == rent[x]
        is  == rent'[x]
    IN  \/ Ask(was, is)
        \/ End(was, is)
        \/ /\ is.promise \in Promises /\ is.promise.from < is.promise.to
           /\ Hold(was, is) \/ Deliver(was, is) \/ Alter(was, is)
           /\ Free(x, is.promise)

\* The hourly job drops many requests at once.
Lapse(S) ==
    \A x \in S : rent[x].stage = "asked" /\ rent'[x] = At("lapsed", Nothing)

Only(S) == rent' = [y \in Rents |-> IF y \in S THEN rent'[y] ELSE rent[y]]

-----------------------------------------------------------------------------
Init == rent = [x \in Rents |-> At("none", Nothing)]

Move ==
    \/ \E x \in Rents : Step(x) /\ Only({x})
    \/ \E S \in SUBSET Rents : Lapse(S) /\ Only(S)

\* What changes no promise is a stutter.
Next == rent' # rent /\ Move

Spec == Init /\ [][Next]_rent
=============================================================================
