-------------------------------- MODULE Sums ---------------------------------
(***************************************************************************)
(* What a sum over a finite set is, whatever order its elements are taken  *)
(* in.  The balances of the ledger, of the deposits and of the stock are   *)
(* sums over rows (MapThenSumSet); the lemmas here say how such a sum      *)
(* changes when a row is added, removed or left alone.                     *)
(***************************************************************************)
EXTENDS Integers, FiniteSets, FiniteSetTheorems, TLAPS

\* g gives every part of S the sum of f over it.
Additive(g, f, S) ==
    /\ g \in [SUBSET S -> Int]
    /\ g[{}] = 0
    /\ \A T \in SUBSET S : \A x \in T : g[T] = f[x] + g[T \ {x}]

SumOf(f, S) == (CHOOSE g : Additive(g, f, S))[S]

Numbers(f, S) == \A x \in S : f[x] \in Int

\* The function that a recursion over the parts of S defines, taking any element first.
Recursive(h, f, S) ==
    h = [s \in SUBSET S |->
            IF s = {} THEN 0
            ELSE f[CHOOSE x \in s : TRUE] + h[s \ {CHOOSE x \in s : TRUE}]]

-----------------------------------------------------------------------------
\* A collection of parts of a finite set has one that contains no other.
LEMMA LeastSet ==
    ASSUME NEW S, IsFiniteSet(S), NEW B \in SUBSET (SUBSET S), B # {}
    PROVE  \E T \in B : \A U \in B : U \subseteq T => U = T
<1>1. B \subseteq FiniteSubsetsOf(S)
  BY FS_Subset DEF FiniteSubsetsOf
<1>2. PICK T \in B : \A U \in B : <<U, T>> \notin StrictSubsetOrdering(S)
  BY <1>1, WFMin, FS_StrictSubsetOrderingWellFounded
<1>3. ASSUME NEW U \in B, U \subseteq T, U # T PROVE FALSE
  BY <1>2, <1>3 DEF StrictSubsetOrdering
<1>. QED BY <1>2, <1>3

\* A collection that has the empty set, and grows by any element, has every part.
LEMMA SetInduction ==
    ASSUME NEW S, IsFiniteSet(S), NEW Q, {} \in Q,
           \A T \in SUBSET S : \A x \in S \ T : T \in Q => T \cup {x} \in Q
    PROVE  S \in Q
<1> DEFINE B == {T \in SUBSET S : T \notin Q}
<1>1. SUFFICES ASSUME B # {} PROVE FALSE
  OBVIOUS
<1>2. PICK T \in B : \A U \in B : U \subseteq T => U = T
  <2>1. B \in SUBSET (SUBSET S)
    OBVIOUS
  <2> HIDE DEF B
  <2>. QED BY <1>1, <2>1, LeastSet
<1>3. PICK x \in T : TRUE
  BY <1>2
<1>4. T \ {x} \in SUBSET S /\ T \ {x} \notin B
  BY <1>2, <1>3
<1>5. (T \ {x}) \cup {x} = T
  BY <1>3
<1>. QED BY <1>2, <1>3, <1>4, <1>5

\* Every finite set has its sum.
LEMMA AdditiveExists ==
    ASSUME NEW S, IsFiniteSet(S), NEW f, Numbers(f, S)
    PROVE  \E g : Additive(g, f, S)
<1> DEFINE Q == {T \in SUBSET S : \E g : Additive(g, f, T)}
<1>1. {} \in Q
  <2>1. Additive([T \in SUBSET {} |-> 0], f, {})
    BY DEF Additive
  <2>. QED BY <2>1
<1>2. ASSUME NEW T \in SUBSET S, NEW e \in S \ T, T \in Q
      PROVE  T \cup {e} \in Q
  <2>1. PICK h : Additive(h, f, T)
    BY <1>2
  <2> DEFINE g == [U \in SUBSET (T \cup {e}) |->
                      IF e \in U THEN f[e] + h[U \ {e}] ELSE h[U]]
  <2>2. f[e] \in Int
    BY DEF Numbers
  <2>3. \A U \in SUBSET (T \cup {e}) : U \ {e} \in SUBSET T
    OBVIOUS
  <2>4. g \in [SUBSET (T \cup {e}) -> Int]
    <3>1. ASSUME NEW U \in SUBSET (T \cup {e})
          PROVE  (IF e \in U THEN f[e] + h[U \ {e}] ELSE h[U]) \in Int
      <4>1. CASE e \in U
        BY <2>1, <2>2, <2>3, <4>1 DEF Additive
      <4>2. CASE e \notin U
        <5>1. U \in SUBSET T
          BY <4>2
        <5>. QED BY <2>1, <4>2, <5>1 DEF Additive
      <4>. QED BY <4>1, <4>2
    <3>. QED BY <3>1
  <2>5. g[{}] = 0
    BY <2>1 DEF Additive
  <2>6. ASSUME NEW U \in SUBSET (T \cup {e}), NEW x \in U
        PROVE  g[U] = f[x] + g[U \ {x}]
    <3>1. U \ {x} \in SUBSET (T \cup {e}) /\ f[x] \in Int
      BY DEF Numbers
    <3>2. CASE x = e
      <4>1. g[U] = f[e] + h[U \ {e}] /\ g[U \ {x}] = h[U \ {e}]
        BY <3>1, <3>2
      <4> HIDE DEF g
      <4>. QED BY <3>2, <4>1
    <3>3. CASE x # e /\ e \in U
      <4>1. U \ {e} \in SUBSET T /\ x \in U \ {e}
        BY <3>3
      <4>2. h[U \ {e}] = f[x] + h[(U \ {e}) \ {x}]
        BY <2>1, <4>1 DEF Additive
      <4>3. (U \ {e}) \ {x} = (U \ {x}) \ {e} /\ (U \ {x}) \ {e} \in SUBSET T
        BY <4>1
      <4>4. h[(U \ {x}) \ {e}] \in Int
        BY <2>1, <4>3 DEF Additive
      <4>5. g[U] = f[e] + h[U \ {e}] /\ g[U \ {x}] = f[e] + h[(U \ {x}) \ {e}]
        BY <3>1, <3>3
      <4>6. h[U \ {e}] = f[x] + h[(U \ {x}) \ {e}]
        BY <4>2, <4>3
      <4> DEFINE n == h[(U \ {x}) \ {e}]
      <4> HIDE DEF g, n
      <4>7. n \in Int /\ g[U] = f[e] + (f[x] + n) /\ g[U \ {x}] = f[e] + n
        BY <4>4, <4>5, <4>6 DEF n
      <4>. QED BY <2>2, <3>1, <4>7
    <3>4. CASE e \notin U
      <4>1. U \in SUBSET T
        BY <3>4
      <4>2. h[U] = f[x] + h[U \ {x}]
        BY <2>1, <4>1 DEF Additive
      <4>3. g[U] = h[U] /\ g[U \ {x}] = h[U \ {x}]
        BY <3>1, <3>4
      <4>. QED BY <4>2, <4>3
    <3>. QED BY <3>2, <3>3, <3>4
  <2> HIDE DEF g
  <2>7. Additive(g, f, T \cup {e})
    BY <2>4, <2>5, <2>6 DEF Additive
  <2>. QED BY <2>7
<1> HIDE DEF Q
<1>3. S \in Q
  BY <1>1, <1>2, SetInduction
<1>. QED BY <1>3 DEF Q

\* A sum of a set is what the recursion over its parts computes, in any order.
LEMMA RecursionAdds ==
    ASSUME NEW S, IsFiniteSet(S), NEW f, NEW g, Additive(g, f, S), NEW h, Recursive(h, f, S)
    PROVE  h = g
<1> DEFINE B == {T \in SUBSET S : h[T] # g[T]}
<1>1. SUFFICES ASSUME B # {} PROVE FALSE
  <2>1. h = [s \in SUBSET S |-> h[s]] /\ g = [s \in SUBSET S |-> g[s]]
    BY DEF Recursive, Additive
  <2>2. CASE B = {}
    BY <2>1, <2>2
  <2>. QED BY <2>2
<1>2. PICK T \in B : \A U \in B : U \subseteq T => U = T
  <2>1. B \in SUBSET (SUBSET S)
    OBVIOUS
  <2> HIDE DEF B
  <2>. QED BY <1>1, <2>1, LeastSet
<1>3. CASE T = {}
  BY <1>2, <1>3 DEF Recursive, Additive
<1>4. CASE T # {}
  <2> DEFINE x == CHOOSE x \in T : TRUE
  <2>1. x \in T /\ T \in SUBSET S
    BY <1>2, <1>4
  <2>2. h[T] = f[x] + h[T \ {x}]
    BY <1>4, <2>1 DEF Recursive
  <2> HIDE DEF x
  <2>3. g[T] = f[x] + g[T \ {x}]
    BY <2>1 DEF Additive
  <2>4. T \ {x} \notin B
    BY <1>2, <2>1
  <2>5. h[T \ {x}] = g[T \ {x}]
    BY <2>1, <2>4
  <2>. QED BY <1>2, <2>2, <2>3, <2>5
<1>. QED BY <1>3, <1>4

\* And conversely the sum answers the recursion.
LEMMA SumRecurs ==
    ASSUME NEW S, NEW f, NEW g, Additive(g, f, S)
    PROVE  Recursive(g, f, S)
<1>1. ASSUME NEW s \in SUBSET S, s # {}
      PROVE  g[s] = f[CHOOSE x \in s : TRUE] + g[s \ {CHOOSE x \in s : TRUE}]
  <2>1. (CHOOSE x \in s : TRUE) \in s
    BY <1>1
  <2>. QED BY <2>1 DEF Additive
<1>2. g = [s \in SUBSET S |-> g[s]] /\ g[{}] = 0
  BY DEF Additive
<1>3. g = [s \in SUBSET S |->
              IF s = {} THEN 0
              ELSE f[CHOOSE x \in s : TRUE] + g[s \ {CHOOSE x \in s : TRUE}]]
  BY <1>1, <1>2
<1>. QED BY <1>3 DEF Recursive

\* The total of S is the value of its sum, whichever function gives it.
LEMMA SumOfIs ==
    ASSUME NEW S, IsFiniteSet(S), NEW f, Numbers(f, S)
    PROVE  /\ \E g : Additive(g, f, S)
           /\ \A g : Additive(g, f, S) => g[S] = SumOf(f, S)
           /\ \A h : Recursive(h, f, S) => h[S] = SumOf(f, S)
           /\ \E h : Recursive(h, f, S)
           /\ SumOf(f, S) \in Int
<1>1. \E g : Additive(g, f, S)
  BY AdditiveExists
<1> DEFINE a == CHOOSE g : Additive(g, f, S)
<1>2. Additive(a, f, S) /\ SumOf(f, S) = a[S]
  BY <1>1 DEF SumOf
<1> HIDE DEF a
<1>3. \A h : Recursive(h, f, S) => h = a
  BY <1>2, RecursionAdds
<1>4. \A g : Additive(g, f, S) => g = a
  BY <1>3, SumRecurs
<1>5. a[S] \in Int /\ Recursive(a, f, S)
  BY <1>2, SumRecurs DEF Additive
<1>. QED BY <1>1, <1>2, <1>3, <1>4, <1>5

-----------------------------------------------------------------------------
(* How totals change *)

\* Nothing adds up to nothing.
LEMMA SumOfNone == ASSUME NEW f PROVE SumOf(f, {}) = 0
<1>1. Numbers(f, {}) /\ IsFiniteSet({})
  BY FS_EmptySet DEF Numbers
<1>2. PICK g : Additive(g, f, {})
  BY <1>1, SumOfIs
<1>3. g[{}] = SumOf(f, {})
  BY <1>1, <1>2, SumOfIs
<1>. QED BY <1>2, <1>3 DEF Additive

\* The sum of a part is the total of the part.
LEMMA SumOfPart ==
    ASSUME NEW S, IsFiniteSet(S), NEW f, Numbers(f, S), NEW g, Additive(g, f, S),
           NEW T \in SUBSET S
    PROVE  g[T] = SumOf(f, T)
<1> DEFINE k == [U \in SUBSET T |-> g[U]]
<1>1. IsFiniteSet(T) /\ Numbers(f, T)
  BY FS_Subset DEF Numbers
<1>2. k \in [SUBSET T -> Int] /\ k[{}] = 0
  BY DEF Additive
<1>3. ASSUME NEW U \in SUBSET T, NEW x \in U PROVE k[U] = f[x] + k[U \ {x}]
  <2>1. k[U] = g[U] /\ k[U \ {x}] = g[U \ {x}] /\ U \in SUBSET S
    OBVIOUS
  <2>. QED BY <2>1 DEF Additive
<1>4. Additive(k, f, T) /\ k[T] = g[T]
  BY <1>2, <1>3 DEF Additive
<1> HIDE DEF k
<1>. QED BY <1>1, <1>4, SumOfIs

\* One more element adds its number.
LEMMA SumOfMore ==
    ASSUME NEW S, IsFiniteSet(S), NEW f, NEW x, x \notin S, NEW T, T = S \cup {x}, Numbers(f, T)
    PROVE  IsFiniteSet(T) /\ SumOf(f, T) = SumOf(f, S) + f[x]
<1>1. IsFiniteSet(T) /\ f[x] \in Int /\ Numbers(f, S)
  BY FS_AddElement DEF Numbers
<1>2. PICK g : Additive(g, f, T)
  BY <1>1, SumOfIs
<1>3. g[T] = f[x] + g[T \ {x}] /\ T \ {x} = S
  BY <1>2 DEF Additive
<1>4. g[T] = SumOf(f, T) /\ g[S] = SumOf(f, S)
  BY <1>1, <1>2, SumOfPart
<1>5. SumOf(f, S) \in Int
  BY <1>1, SumOfIs
<1>6. g[T] = f[x] + g[S]
  BY <1>3
<1>. QED BY <1>1, <1>4, <1>5, <1>6

\* Only the numbers of the elements matter.
LEMMA SumOfSame ==
    ASSUME NEW S, IsFiniteSet(S), NEW f, NEW k, Numbers(f, S), \A x \in S : f[x] = k[x]
    PROVE  SumOf(f, S) = SumOf(k, S)
<1>1. PICK g : Additive(g, f, S)
  BY SumOfIs
<1>2. Additive(g, k, S)
  BY <1>1 DEF Additive
<1>3. Numbers(k, S)
  BY DEF Numbers
<1>. QED BY <1>1, <1>2, <1>3, SumOfIs

\* Numbers that are not negative have a total that is not, and no part of a
\* set adds up to more than the set.
LEMMA SumOfGrows ==
    ASSUME NEW S, IsFiniteSet(S), NEW f, \A x \in S : f[x] \in Nat, NEW T \in SUBSET S
    PROVE  SumOf(f, T) \in Nat /\ SumOf(f, S) \in Nat /\ SumOf(f, T) <= SumOf(f, S)
<1>1. Numbers(f, S)
  BY DEF Numbers
<1>2. PICK g : Additive(g, f, S)
  BY <1>1, SumOfIs
<1> DEFINE Q == {U \in SUBSET S : g[U] >= 0 /\ g[U \cap T] >= 0 /\ g[U \cap T] <= g[U]}
<1>3. {} \in Q
  <2>1. {} \cap T = {} /\ g[{}] = 0
    BY <1>2 DEF Additive
  <2>. QED BY <2>1
<1>4. ASSUME NEW U \in SUBSET S, NEW x \in S \ U, U \in Q
      PROVE  U \cup {x} \in Q
  <2>1. g[U \cup {x}] = f[x] + g[U]
    <3>1. (U \cup {x}) \ {x} = U
      OBVIOUS
    <3>. QED BY <1>2, <3>1 DEF Additive
  <2>2. g[U] \in Int /\ g[U \cap T] \in Int /\ f[x] \in Nat
    BY <1>2 DEF Additive
  <2>3. CASE x \in T
    <3>1. (U \cup {x}) \cap T = (U \cap T) \cup {x} /\ ((U \cap T) \cup {x}) \ {x} = U \cap T
      BY <2>3
    <3>2. g[(U \cap T) \cup {x}] = f[x] + g[U \cap T]
      BY <1>2, <3>1 DEF Additive
    <3>. QED BY <1>4, <2>1, <2>2, <3>1, <3>2
  <2>4. CASE x \notin T
    <3>1. (U \cup {x}) \cap T = U \cap T
      BY <2>4
    <3>2. g[(U \cup {x}) \cap T] = g[U \cap T]
      BY <3>1
    <3>3. U \cup {x} \in SUBSET S /\ g[U] >= 0 /\ g[U \cap T] >= 0 /\ g[U \cap T] <= g[U]
      BY <1>4
    <3>. QED BY <2>1, <2>2, <3>2, <3>3
  <2>. QED BY <2>3, <2>4
<1> HIDE DEF Q
<1>5. S \in Q
  BY <1>3, <1>4, SetInduction
<1>6. S \cap T = T
  OBVIOUS
<1>7. g[S] = SumOf(f, S) /\ g[T] = SumOf(f, T)
  BY <1>1, <1>2, SumOfPart
<1>8. SumOf(f, S) \in Int /\ SumOf(f, T) \in Int
  BY <1>2, <1>7 DEF Additive
<1>. QED BY <1>5, <1>6, <1>7, <1>8 DEF Q

\* A sum over one element more, of numbers that are otherwise what they were
LEMMA SumOfAdded ==
    ASSUME NEW S, IsFiniteSet(S), NEW f, Numbers(f, S), NEW x, x \notin S,
           NEW T, T = S \cup {x}, NEW k, Numbers(k, T), \A y \in S : f[y] = k[y]
    PROVE  SumOf(k, T) = SumOf(f, S) + k[x]
<1>1. SumOf(k, T) = SumOf(k, S) + k[x]
  BY SumOfMore
<1>2. SumOf(f, S) = SumOf(k, S)
  BY SumOfSame
<1>. QED BY <1>1, <1>2

\* One number changes, and the sum by as much.
LEMMA SumOfChanged ==
    ASSUME NEW S, IsFiniteSet(S), NEW f, Numbers(f, S), NEW k, Numbers(k, S),
           NEW x \in S, \A y \in S : y # x => f[y] = k[y]
    PROVE  SumOf(k, S) = SumOf(f, S) + (k[x] - f[x])
<1>1. PICK R : R = S \ {x}
  OBVIOUS
<1>2. /\ IsFiniteSet(R) /\ x \notin R /\ S = R \cup {x}
      /\ Numbers(f, R) /\ Numbers(k, R) /\ \A y \in R : f[y] = k[y]
  <2>1. R \in SUBSET S
    BY <1>1
  <2>2. IsFiniteSet(R)
    BY <2>1, FS_Subset
  <2>. QED BY <1>1, <2>1, <2>2 DEF Numbers
<1>3. SumOf(k, S) = SumOf(f, R) + k[x]
  BY <1>2, SumOfAdded
<1>4. SumOf(f, S) = SumOf(f, R) + f[x]
  BY <1>2, SumOfMore
<1>5. SumOf(f, R) \in Int /\ f[x] \in Int /\ k[x] \in Int
  BY <1>2, SumOfIs DEF Numbers
<1>. QED BY <1>3, <1>4, <1>5

\* Nothing adds up to nothing.
LEMMA SumOfZeros ==
    ASSUME NEW S, IsFiniteSet(S), NEW f, \A x \in S : f[x] = 0
    PROVE  SumOf(f, S) = 0
<1>1. PICK g : g = [T \in SUBSET S |-> 0]
  OBVIOUS
<1>2. Additive(g, f, S) /\ Numbers(f, S)
  BY <1>1 DEF Additive, Numbers
<1>. QED BY <1>1, <1>2, SumOfIs
=============================================================================
