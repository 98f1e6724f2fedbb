--------------------------- MODULE DepositsProofs ----------------------------
(***************************************************************************)
(* Theorems about Deposits for any number of deposits, entries, titles and *)
(* transactions.  The ledger keeps its promises as in LedgerProofs; what   *)
(* is added is the balance of a deposit, a sum over its entries, and the   *)
(* link between a deduction and the payment that it makes.                 *)
(***************************************************************************)
EXTENDS Deposits, LedgerProofs

-----------------------------------------------------------------------------
(* The balance, as a sum *)

Written(t) == {e \in Entries : t[e] # NoRow}

\* A table of entries as the database holds one
EntryTable(t) == t \in [Entries -> RefTo(EntryRows)] /\ IsFiniteSet(Written(t))

Amounts(t) == [e \in Entries |-> t[e].amount]

Chosen(t, d, type, status) ==
    {e \in Entries : t[e] # NoRow /\ t[e].deposit = d /\ t[e].type = type /\ t[e].status = status}

\* balanceOf() adds up a column of amounts.
LEMMA BalanceIsSum ==
    ASSUME NEW t, EntryTable(t), NEW d, NEW type, NEW status
    PROVE  /\ IsFiniteSet(Chosen(t, d, type, status))
           /\ \A e \in Chosen(t, d, type, status) :
                 Amounts(t)[e] = t[e].amount /\ t[e].amount \in Nat
           /\ Sum(t, d, type, status) = SumOf(Amounts(t), Chosen(t, d, type, status))
           /\ Sum(t, d, type, status) \in Nat
<1> DEFINE C == Chosen(t, d, type, status)
           f == Amounts(t)
           Adds(h) == h = [s \in SUBSET C |->
                             IF s = {} THEN 0
                             ELSE t[CHOOSE e \in s : TRUE].amount
                                  + h[s \ {CHOOSE e \in s : TRUE}]]
           iter == CHOOSE h : Adds(h)
<1>1. Sum(t, d, type, status) = iter[C]
  BY DEF Sum, MapThenSumSet, MapThenFoldSet, Chosen
<1>2. IsFiniteSet(C)
  <2>1. C \in SUBSET Written(t)
    BY DEF Chosen, Written
  <2>. QED BY <2>1, FS_Subset DEF EntryTable
<1>3. \A e \in C : f[e] = t[e].amount /\ t[e].amount \in Nat
  BY AmountAssumption DEF Chosen, Amounts, EntryTable, RefTo, EntryRows
<1>4. Numbers(f, C)
  BY <1>3 DEF Numbers
<1>5. \A h : Adds(h) <=> Recursive(h, f, C)
  <2>1. ASSUME NEW s \in SUBSET C, s # {}
        PROVE  f[CHOOSE e \in s : TRUE] = t[CHOOSE e \in s : TRUE].amount
    BY <1>3, <2>1
  <2>. QED BY <2>1 DEF Recursive
<1> HIDE DEF C, f, Adds
<1>6. Adds(iter)
  BY <1>2, <1>4, <1>5, SumOfIs
<1>7. iter[C] = SumOf(f, C)
  BY <1>2, <1>4, <1>5, <1>6, SumOfIs
<1>8. \A e \in C : f[e] \in Nat
  BY <1>3
<1>9. SumOf(f, C) \in Nat
  BY <1>2, <1>8, SumOfGrows
<1>. QED BY <1>1, <1>2, <1>3, <1>7, <1>9 DEF C, f

\* What a row adds to one of the sums of a deposit
Adds(row, d, type, status) ==
    IF row.deposit = d /\ row.type = type /\ row.status = status THEN row.amount ELSE 0

\* One entry more
LEMMA SumWith ==
    ASSUME NEW t, EntryTable(t), NEW e \in Entries, t[e] = NoRow, NEW row \in EntryRows,
           NEW u \in [Entries -> RefTo(EntryRows)],
           u[e] = row, \A x \in Entries : x # e => u[x] = t[x],
           NEW d, NEW type, NEW status
    PROVE  /\ EntryTable(u)
           /\ Sum(u, d, type, status) = Sum(t, d, type, status) + Adds(row, d, type, status)
<1>1. row # NoRow /\ row.amount \in Nat
  BY DepositRowAssumption, AmountAssumption DEF EntryRows
<1>2. Written(u) = Written(t) \cup {e}
  BY <1>1 DEF Written
<1>3. EntryTable(u)
  <2>1. IsFiniteSet(Written(t) \cup {e})
    BY FS_AddElement DEF EntryTable
  <2>. QED BY <1>2, <2>1 DEF EntryTable
<1> DEFINE C == Chosen(t, d, type, status)
           D == Chosen(u, d, type, status)
<1>4. /\ IsFiniteSet(C) /\ Numbers(Amounts(t), C) /\ Numbers(Amounts(u), D)
      /\ Sum(t, d, type, status) = SumOf(Amounts(t), C) /\ SumOf(Amounts(t), C) \in Nat
      /\ Sum(u, d, type, status) = SumOf(Amounts(u), D)
  BY <1>3, BalanceIsSum DEF Numbers
<1>5. \A x \in C : Amounts(t)[x] = Amounts(u)[x]
  BY <1>1 DEF Chosen, Amounts
<1>6. SumOf(Amounts(t), C) = SumOf(Amounts(u), C)
  <2> HIDE DEF C
  <2>. QED BY <1>4, <1>5, SumOfSame
<1>7. CASE row.deposit = d /\ row.type = type /\ row.status = status
  <2>1. e \notin C /\ D = C \cup {e} /\ Amounts(u)[e] = row.amount
    BY <1>1, <1>7 DEF Chosen, Amounts
  <2> HIDE DEF C, D
  <2>2. SumOf(Amounts(u), D) = SumOf(Amounts(u), C) + Amounts(u)[e]
    BY <1>4, <2>1, SumOfMore
  <2>. QED BY <1>3, <1>4, <1>6, <1>7, <2>1, <2>2 DEF Adds
<1>8. CASE ~(row.deposit = d /\ row.type = type /\ row.status = status)
  <2>1. D = C
    BY <1>1, <1>8 DEF Chosen
  <2> HIDE DEF C, D
  <2>. QED BY <1>3, <1>4, <1>6, <1>8, <2>1 DEF Adds
<1>. QED BY <1>7, <1>8

LEMMA SumsWith ==
    ASSUME NEW t, EntryTable(t), NEW e \in Entries, t[e] = NoRow, NEW row \in EntryRows,
           NEW u \in [Entries -> RefTo(EntryRows)],
           u[e] = row, \A x \in Entries : x # e => u[x] = t[x]
    PROVE  /\ EntryTable(u)
           /\ \A c, type, status :
                 Sum(u, c, type, status) = Sum(t, c, type, status) + Adds(row, c, type, status)
<1>1. ASSUME NEW c, NEW type, NEW status
      PROVE  /\ EntryTable(u)
             /\ Sum(u, c, type, status) = Sum(t, c, type, status) + Adds(row, c, type, status)
  BY SumWith
<1>. QED BY <1>1

\* The balance of a deposit, as numbers
LEMMA BalanceTyped ==
    ASSUME NEW t, EntryTable(t), NEW d
    PROVE  /\ Received(t, d) \in Nat /\ Spent(t, d) \in Nat /\ Refunded(t, d) \in Nat
           /\ Pending(t, d) \in Nat /\ Available(t, d) \in Int
           /\ Sum(t, d, "DEDUCTION", "PENDING_APPROVAL") \in Nat
           /\ Sum(t, d, "REFUND", "PENDING_APPROVAL") \in Nat
  BY BalanceIsSum DEF Received, Spent, Refunded, Pending, Available

\* An entry replaced by another one
LEMMA SumReplaced ==
    ASSUME NEW t, EntryTable(t), NEW e \in Entries, t[e] # NoRow, NEW row \in EntryRows,
           NEW u \in [Entries -> RefTo(EntryRows)],
           u[e] = row, \A x \in Entries : x # e => u[x] = t[x],
           NEW d, NEW type, NEW status
    PROVE  /\ EntryTable(u)
           /\ Sum(u, d, type, status) =
                 Sum(t, d, type, status) - Adds(t[e], d, type, status) + Adds(row, d, type, status)
           /\ Adds(t[e], d, type, status) <= Sum(t, d, type, status)
<1>1. PICK b : b = [t EXCEPT ![e] = NoRow]
  OBVIOUS
<1>2. PICK old \in EntryRows : old = t[e]
  BY DEF EntryTable, RefTo
<1>3. /\ b \in [Entries -> RefTo(EntryRows)] /\ b[e] = NoRow
      /\ \A x \in Entries : x # e => t[x] = b[x] /\ u[x] = b[x]
      /\ t \in [Entries -> RefTo(EntryRows)]
  BY <1>1, <1>2 DEF EntryTable, RefTo
<1>4. Written(b) \in SUBSET Written(t)
  BY <1>1 DEF Written, EntryTable
<1>5. EntryTable(b)
  BY <1>3, <1>4, FS_Subset DEF EntryTable
<1>6. Sum(t, d, type, status) = Sum(b, d, type, status) + Adds(old, d, type, status)
  BY <1>2, <1>3, <1>5, SumWith
<1>7. /\ EntryTable(u)
      /\ Sum(u, d, type, status) = Sum(b, d, type, status) + Adds(row, d, type, status)
  BY <1>3, <1>5, SumWith
<1>8. Sum(b, d, type, status) \in Nat
  BY <1>5, BalanceIsSum
<1>9. Adds(old, d, type, status) \in Nat /\ Adds(row, d, type, status) \in Nat
  BY AmountAssumption DEF Adds, EntryRows
<1>. QED BY <1>2, <1>6, <1>7, <1>8, <1>9

-----------------------------------------------------------------------------
(* The inductive invariant *)

\* An entry is of a deposit that exists, and only a receipt needs no decision.
EntriesHeld ==
    /\ IsFiniteSet(Written(entry))
    /\ \A e \in Entries : entry[e] # NoRow =>
          /\ deposit[entry[e].deposit] # NoRow
          /\ entry[e].type = "RECEIPT" => entry[e].status = "APPROVED"

\* What a decision read of its entry is still so, but for the status.
CopiesTrue ==
    \A w \in Workers : decision[w] # NoRow =>
        LET e == decision[w].entry
            row == decision[w].row
        IN  /\ entry[e] # NoRow
            /\ entry[e].deposit = row.deposit /\ entry[e].type = row.type
            /\ entry[e].amount = row.amount /\ entry[e].title = row.title

\* What a decision pays is what its entry says, under the key of the entry.
PaysEntry(w) ==
    /\ decision[w] # NoRow
    /\ PaysTitle(decision[w].row)
    /\ seen[w].id = decision[w].row.title
    /\ seen[w].order = [amount |-> decision[w].row.amount, key |-> decision[w].entry,
                        method |-> "DEPOSIT_OFFSET"]

\* Only a decision pays under the key of an entry.
Offsets ==
    /\ \A w \in Workers :
          Paying(w) /\ (decision[w] # NoRow \/ seen[w].order.key \in Entries) => PaysEntry(w)
    /\ \A x \in Payments :
          payment[x] # NoRow /\ payment[x].key \in Entries => payment[x].method = "DEPOSIT_OFFSET"

\* The end of a contract that has nothing to write found the deposit empty, and
\* so it stays.
EndingTrue ==
    \A d \in SecurityDeposits : ending[d] # NoRow =>
        /\ deposit[d] # NoRow /\ ~deposit[d].over
        /\ ending[d].status \in {"REFUND_PENDING", "REFUNDED", "CLOSED"}
        /\ ending[d].status = ending[d].was =>
              deposit[d].status = ending[d].was /\ ending[d].was \in {"REFUNDED", "CLOSED"}

MoneyInv == EntriesHeld /\ RequestsAreCovered /\ StatusFollowsBalance /\ EndingTrue

OffsetInv == CopiesTrue /\ Offsets /\ DeductionsReachTitles

DepositInv == BooksInv /\ DepositTypeOK /\ MoneyInv /\ OffsetInv

-----------------------------------------------------------------------------
(* The status of a deposit *)

LEMMA StatusTyped ==
    ASSUME NEW t, EntryTable(t), NEW d
    PROVE  /\ StatusFor(t, d, TRUE) \in {"REFUND_PENDING", "REFUNDED", "CLOSED"}
           /\ StatusFor(t, d, TRUE) \in DepositStatuses /\ StatusFor(t, d, FALSE) \in DepositStatuses
           /\ StatusFor(t, d, TRUE) = StatusFor(t, d, FALSE) =>
                 StatusFor(t, d, FALSE) \in {"REFUNDED", "CLOSED"}
           /\ StatusFor(t, d, FALSE) \in {"REFUNDED", "CLOSED"} <=>
                 Received(t, d) # 0 /\ Available(t, d) <= 0
           /\ Received(t, d) = 0 => StatusFor(t, d, FALSE) = "PENDING"
<1>1. PICK r \in Nat, a \in Int : r = Received(t, d) /\ a = Available(t, d)
  BY BalanceTyped
<1>2. CASE r = 0
  <2>1. StatusFor(t, d, TRUE) = "CLOSED" /\ StatusFor(t, d, FALSE) = "PENDING"
    BY <1>1, <1>2 DEF StatusFor
  <2>. QED BY <1>1, <1>2, <2>1 DEF DepositStatuses
<1>3. CASE r # 0 /\ a > 0
  <2>1. /\ StatusFor(t, d, TRUE) = "REFUND_PENDING"
        /\ StatusFor(t, d, FALSE) \in {"PARTIALLY_USED", "HELD"}
    BY <1>1, <1>3 DEF StatusFor
  <2>2. ~(a <= 0)
    BY <1>3
  <2>. QED BY <1>1, <1>3, <2>1, <2>2 DEF DepositStatuses
<1>4. CASE r # 0 /\ ~(a > 0)
  <2>1. /\ StatusFor(t, d, TRUE) \in {"REFUNDED", "CLOSED"}
        /\ StatusFor(t, d, FALSE) \in {"REFUNDED", "CLOSED"}
    BY <1>1, <1>4 DEF StatusFor
  <2>2. a <= 0
    BY <1>4
  <2>. QED BY <1>1, <1>4, <2>1, <2>2 DEF DepositStatuses
<1>. QED BY <1>2, <1>3, <1>4

\* The sums decide the status.
LEMMA StatusSame ==
    ASSUME NEW t, NEW u, NEW d,
           Received(u, d) = Received(t, d), Spent(u, d) = Spent(t, d),
           Refunded(u, d) = Refunded(t, d)
    PROVE  StatusFor(u, d, FALSE) = StatusFor(t, d, FALSE) /\ Available(u, d) = Available(t, d)
<1>1. Available(u, d) = Available(t, d)
  BY DEF Available
<1>. QED BY <1>1 DEF StatusFor

\* recompute() writes the status that follows from the entries.
LEMMA RecomputedRow ==
    ASSUME DepositTypeOK, EntryTable(entry'), NEW d \in SecurityDeposits, deposit[d] # NoRow,
           deposit' = Recomputed(d, entry')
    PROVE  /\ deposit' \in [SecurityDeposits -> RefTo(DepositRows)]
           /\ deposit'[d] # NoRow /\ deposit'[d].over = deposit[d].over
           /\ deposit[d].over \in BOOLEAN
           /\ deposit'[d].status = StatusFor(entry', d, deposit[d].over)
           /\ \A c \in SecurityDeposits : c # d => deposit'[c] = deposit[c]
<1>1. PICK status : status = StatusFor(entry', d, deposit[d].over)
  OBVIOUS
<1>2. deposit[d] \in DepositRows
  BY DEF DepositTypeOK, RefTo
<1>3. status \in DepositStatuses /\ deposit[d].over \in BOOLEAN
  BY <1>1, <1>2, StatusTyped DEF DepositRows
<1>4. PICK row : row = [deposit[d] EXCEPT !.status = status]
  OBVIOUS
<1>5. row \in DepositRows /\ row # NoRow /\ row.status = status /\ row.over = deposit[d].over
  BY <1>2, <1>3, <1>4, DepositRowAssumption DEF DepositRows
<1>6. deposit' = [deposit EXCEPT ![d] = row]
  BY <1>1, <1>4 DEF Recomputed
<1>7. /\ deposit' \in [SecurityDeposits -> RefTo(DepositRows)] /\ deposit'[d] = row
      /\ \A c \in SecurityDeposits : c # d => deposit'[c] = deposit[c]
  BY <1>5, <1>6 DEF DepositTypeOK, RefTo
<1>. QED BY <1>1, <1>3, <1>5, <1>7

\* The money of a deposit changes, and the deposit is recomputed.
LEMMA MoneyKept ==
    ASSUME MoneyInv, DepositTypeOK, EntryTable(entry'), NEW d \in SecurityDeposits,
           deposit[d] # NoRow, deposit' = Recomputed(d, entry'), ending' = ending,
           EntriesHeld',
           \A c \in SecurityDeposits : c # d =>
               /\ Received(entry', c) = Received(entry, c) /\ Spent(entry', c) = Spent(entry, c)
               /\ Refunded(entry', c) = Refunded(entry, c) /\ Pending(entry', c) = Pending(entry, c),
           0 <= Pending(entry', d) /\ Pending(entry', d) <= Available(entry', d),
           ~(deposit[d].status \in {"REFUNDED", "CLOSED"} /\ ~deposit[d].over)
    PROVE  MoneyInv' /\ deposit' \in [SecurityDeposits -> RefTo(DepositRows)]
<1>1. /\ deposit' \in [SecurityDeposits -> RefTo(DepositRows)]
      /\ deposit'[d] # NoRow /\ deposit'[d].over = deposit[d].over
      /\ deposit[d].over \in BOOLEAN
      /\ deposit'[d].status = StatusFor(entry', d, deposit[d].over)
      /\ \A c \in SecurityDeposits : c # d => deposit'[c] = deposit[c]
  BY RecomputedRow
<1>2. RequestsAreCovered'
  BY StatusSame DEF MoneyInv, RequestsAreCovered
<1>3. StatusFollowsBalance'
  <2> SUFFICES ASSUME NEW c \in SecurityDeposits, deposit'[c] # NoRow, ~deposit'[c].over
               PROVE  deposit'[c].status = StatusFor(entry', c, FALSE)
    BY DEF StatusFollowsBalance
  <2>1. CASE c = d
    BY <1>1, <2>1
  <2>2. CASE c # d
    <3>1. StatusFor(entry', c, FALSE) = StatusFor(entry, c, FALSE)
      <4>1. PICK u : u = entry'
        OBVIOUS
      <4>2. /\ Received(u, c) = Received(entry, c) /\ Spent(u, c) = Spent(entry, c)
            /\ Refunded(u, c) = Refunded(entry, c)
        BY <2>2, <4>1
      <4>3. StatusFor(u, c, FALSE) = StatusFor(entry, c, FALSE)
        BY <4>2, StatusSame
      <4>. QED BY <4>1, <4>3
    <3>. QED BY <1>1, <2>2, <3>1 DEF MoneyInv, StatusFollowsBalance
  <2>. QED BY <2>1, <2>2
<1>4. EndingTrue'
  BY <1>1 DEF MoneyInv, EndingTrue
<1>. QED BY <1>1, <1>2, <1>3, <1>4 DEF MoneyInv

\* A request sets money aside: no sum but that of the requests changes.
LEMMA RequestKept ==
    ASSUME MoneyInv, EntryTable(entry'), deposit' = deposit, ending' = ending, EntriesHeld',
           \A c \in SecurityDeposits :
               /\ Received(entry', c) = Received(entry, c) /\ Spent(entry', c) = Spent(entry, c)
               /\ Refunded(entry', c) = Refunded(entry, c)
               /\ 0 <= Pending(entry', c) /\ Pending(entry', c) <= Available(entry, c)
    PROVE  MoneyInv'
<1>1. PICK u : u = entry'
  OBVIOUS
<1>2. ASSUME NEW c \in SecurityDeposits
      PROVE  StatusFor(u, c, FALSE) = StatusFor(entry, c, FALSE) /\ Available(u, c) = Available(entry, c)
  <2>1. /\ Received(u, c) = Received(entry, c) /\ Spent(u, c) = Spent(entry, c)
        /\ Refunded(u, c) = Refunded(entry, c)
    BY <1>1
  <2>. QED BY <2>1, StatusSame
<1>3. RequestsAreCovered'
  BY <1>1, <1>2 DEF RequestsAreCovered
<1>4. StatusFollowsBalance'
  BY <1>1, <1>2 DEF MoneyInv, StatusFollowsBalance
<1>5. EndingTrue'
  BY DEF MoneyInv, EndingTrue
<1>. QED BY <1>3, <1>4, <1>5 DEF MoneyInv

-----------------------------------------------------------------------------
(* The steps of a deposit *)

\* Table u is t with one entry more.
OneMore(t, e, row, u) ==
    /\ EntryTable(t) /\ EntryTable(u)
    /\ t[e] = NoRow /\ u[e] = row /\ row # NoRow
    /\ \A x \in Entries : x # e => u[x] = t[x]
    /\ \A c, type, status :
          Sum(u, c, type, status) = Sum(t, c, type, status) + Adds(row, c, type, status)

LEMMA EntryAdded ==
    ASSUME DepositInv, NEW e \in Entries, entry[e] = NoRow, NEW row \in EntryRows,
           entry' = [entry EXCEPT ![e] = row]
    PROVE  OneMore(entry, e, row, entry')
<1>1. EntryTable(entry)
  BY DEF DepositInv, DepositTypeOK, MoneyInv, EntriesHeld, EntryTable
<1>2. PICK u : u = entry'
  OBVIOUS
<1>3. /\ u \in [Entries -> RefTo(EntryRows)] /\ u[e] = row /\ row # NoRow
      /\ \A x \in Entries : x # e => u[x] = entry[x]
  BY <1>1, <1>2, DepositRowAssumption DEF EntryTable, RefTo
<1>4. /\ EntryTable(u)
      /\ \A c, type, status :
            Sum(u, c, type, status) = Sum(entry, c, type, status) + Adds(row, c, type, status)
  BY <1>1, <1>3, SumsWith
<1>5. OneMore(entry, e, row, u)
  BY <1>1, <1>3, <1>4 DEF OneMore
<1>. QED BY <1>2, <1>5

LEMMA HeldAfter ==
    ASSUME DepositInv, NEW d \in SecurityDeposits, deposit[d] # NoRow, NEW e \in Entries,
           NEW row \in EntryRows, row.deposit = d,
           row.type = "RECEIPT" => row.status = "APPROVED",
           EntryTable(entry'), entry' = [entry EXCEPT ![e] = row],
           \A c \in SecurityDeposits : deposit[c] # NoRow => deposit'[c] # NoRow
    PROVE  EntriesHeld'
<1>1. IsFiniteSet(Written(entry'))
  BY DEF EntryTable
<1>2. \A x \in Entries : entry[x] # NoRow => entry[x].deposit \in SecurityDeposits
  BY DEF DepositInv, DepositTypeOK, RefTo, EntryRows
<1>3. /\ entry'[e] = row /\ \A x \in Entries : x # e => entry'[x] = entry[x]
  BY DEF DepositInv, DepositTypeOK
<1>. QED BY <1>1, <1>2, <1>3 DEF EntriesHeld, DepositInv, MoneyInv

\* A new entry has paid no title yet, and nobody has read it.
LEMMA OffsetAdded ==
    ASSUME DepositInv, NEW e \in Entries, NEW row \in EntryRows,
           OneMore(entry, e, row, entry'), ~(row.status = "APPROVED" /\ PaysTitle(row)),
           UNCHANGED <<payment, seen, decision>>
    PROVE  OffsetInv'
<1>1. /\ entry[e] = NoRow /\ entry'[e] = row
      /\ \A x \in Entries : x # e => entry'[x] = entry[x]
  BY DEF OneMore
<1>2. CopiesTrue'
  <2>1. \A w \in Workers : decision[w] # NoRow => decision[w].entry \in Entries
    BY DEF DepositInv, DepositTypeOK, RefTo, DecisionCopies
  <2>. QED BY <1>1, <2>1 DEF DepositInv, OffsetInv, CopiesTrue
<1>3. Offsets'
  BY DEF DepositInv, OffsetInv, Offsets, Paying, PaysEntry
<1>4. DeductionsReachTitles'
  BY <1>1 DEF DepositInv, OffsetInv, DeductionsReachTitles, PaidUnder
<1>. QED BY <1>2, <1>3, <1>4 DEF OffsetInv

\* A step about deposits alone leaves the ledger as it was.
LEMMA SameLedger ==
    ASSUME BooksInv, UNCHANGED <<title, payment, seen>>
    PROVE  BooksInv' /\ UNCHANGED ledgerVars /\ LedgerTypeOK'
<1>1. UNCHANGED ledgerVars
  BY DEF ledgerVars
<1>2. BooksInv'
  BY <1>1, StepBooks
<1>. QED BY <1>1, <1>2 DEF BooksInv

\* receipt() adds to the balance of a deposit that is neither closed nor refunded.
LEMMA ReceiptKeeps ==
    ASSUME DepositInv, NEW d \in SecurityDeposits, NEW e \in Entries, NEW amount \in PaidAmounts,
           Receive(d, e, amount)
    PROVE  DepositInv' /\ UNCHANGED ledgerVars
<1>1. PICK row : row = [deposit |-> d, type |-> "RECEIPT", amount |-> amount, title |-> NoRow,
                        status |-> "APPROVED"]
  OBVIOUS
<1>2. /\ row \in EntryRows /\ row.deposit = d /\ row.type = "RECEIPT" /\ row.status = "APPROVED"
      /\ row.amount = amount /\ amount \in Nat
  BY <1>1, AmountAssumption DEF EntryRows, RefTo, Approvals
<1>3. /\ UNCHANGED <<title, payment, seen, decision, ending>>
      /\ entry[e] = NoRow /\ deposit[d] # NoRow /\ deposit[d].status \notin {"REFUNDED", "CLOSED"}
      /\ entry' = [entry EXCEPT ![e] = row] /\ deposit' = Recomputed(d, entry')
  BY <1>1 DEF Receive, Opens, NewEntry
<1>4. OneMore(entry, e, row, entry')
  BY <1>2, <1>3, EntryAdded
<1>5. EntryTable(entry) /\ EntryTable(entry')
  BY <1>4 DEF OneMore
<1>6. ASSUME NEW c
      PROVE  /\ Received(entry', c) = Received(entry, c) + Adds(row, c, "RECEIPT", "APPROVED")
             /\ Spent(entry', c) = Spent(entry, c) /\ Refunded(entry', c) = Refunded(entry, c)
             /\ Pending(entry', c) = Pending(entry, c)
             /\ Available(entry', c) = Available(entry, c) + Adds(row, c, "RECEIPT", "APPROVED")
  <2>1. /\ Adds(row, c, "DEDUCTION", "APPROVED") = 0 /\ Adds(row, c, "REFUND", "APPROVED") = 0
        /\ Adds(row, c, "DEDUCTION", "PENDING_APPROVAL") = 0
        /\ Adds(row, c, "REFUND", "PENDING_APPROVAL") = 0
        /\ Adds(row, c, "RECEIPT", "APPROVED") \in Nat
    BY <1>2 DEF Adds
  <2>2. /\ Received(entry', c) = Received(entry, c) + Adds(row, c, "RECEIPT", "APPROVED")
        /\ Spent(entry', c) = Spent(entry, c) + 0 /\ Refunded(entry', c) = Refunded(entry, c) + 0
        /\ Sum(entry', c, "DEDUCTION", "PENDING_APPROVAL") =
              Sum(entry, c, "DEDUCTION", "PENDING_APPROVAL") + 0
        /\ Sum(entry', c, "REFUND", "PENDING_APPROVAL") =
              Sum(entry, c, "REFUND", "PENDING_APPROVAL") + 0
    BY <1>4, <2>1 DEF OneMore, Received, Spent, Refunded
  <2>. QED BY <1>5, <2>1, <2>2, BalanceTyped DEF Available, Pending
<1>7. /\ \A c : c # d => Adds(row, c, "RECEIPT", "APPROVED") = 0
      /\ Adds(row, d, "RECEIPT", "APPROVED") = amount
  BY <1>2 DEF Adds
<1>8. /\ \A c \in SecurityDeposits : c # d =>
            /\ Received(entry', c) = Received(entry, c) /\ Spent(entry', c) = Spent(entry, c)
            /\ Refunded(entry', c) = Refunded(entry, c) /\ Pending(entry', c) = Pending(entry, c)
      /\ 0 <= Pending(entry', d) /\ Pending(entry', d) <= Available(entry', d)
  <2>1. ASSUME NEW c \in SecurityDeposits, c # d PROVE Received(entry', c) = Received(entry, c)
    BY <1>5, <1>6, <1>7, <2>1, BalanceTyped
  <2>2. /\ Pending(entry', d) = Pending(entry, d) /\ Available(entry', d) = Available(entry, d) + amount
        /\ 0 <= Pending(entry, d) /\ Pending(entry, d) <= Available(entry, d)
        /\ Pending(entry, d) \in Nat /\ Available(entry, d) \in Int
    BY <1>5, <1>6, <1>7, BalanceTyped DEF DepositInv, MoneyInv, RequestsAreCovered
  <2>. QED BY <1>2, <1>6, <2>1, <2>2
<1>9. \A c \in SecurityDeposits : deposit[c] # NoRow => deposit'[c] # NoRow
  BY <1>3, <1>5, RecomputedRow DEF DepositInv
<1>10. EntriesHeld'
  BY <1>2, <1>3, <1>5, <1>9, HeldAfter
<1>11. MoneyInv' /\ deposit' \in [SecurityDeposits -> RefTo(DepositRows)]
  BY <1>3, <1>5, <1>8, <1>10, MoneyKept DEF DepositInv
<1>12. BooksInv' /\ LedgerTypeOK' /\ UNCHANGED ledgerVars
  BY <1>3, SameLedger DEF DepositInv
<1>13. OffsetInv'
  BY <1>2, <1>3, <1>4, OffsetAdded DEF PaysTitle
<1>14. DepositTypeOK'
  BY <1>3, <1>5, <1>11, <1>12 DEF DepositInv, DepositTypeOK, EntryTable
<1>. QED BY <1>11, <1>12, <1>13, <1>14 DEF DepositInv

\* A request sets aside no more than is free.
LEMMA RequestKeeps ==
    ASSUME DepositInv, NEW d \in SecurityDeposits, NEW e \in Entries, NEW amount \in PaidAmounts,
           \/ \E t \in RefTo(Titles) : RequestDeduction(d, e, amount, t)
           \/ RequestRefund(d, e, amount)
    PROVE  DepositInv' /\ UNCHANGED ledgerVars
<1>1. /\ UNCHANGED <<title, payment, seen, deposit, decision, ending>>
      /\ entry[e] = NoRow /\ deposit[d] # NoRow /\ amount <= Free(d)
      /\ \E t \in RefTo(Titles), type \in {"DEDUCTION", "REFUND"} :
            entry' = NewEntry(e, d, type, amount, t, "PENDING_APPROVAL")
  BY DEF RequestDeduction, RequestRefund, Opens, RefTo
<1>2. PICK row \in EntryRows :
         /\ row.deposit = d /\ row.type \in {"DEDUCTION", "REFUND"} /\ row.amount = amount
         /\ row.status = "PENDING_APPROVAL"
         /\ entry' = [entry EXCEPT ![e] = row]
  <2>1. PICK t \in RefTo(Titles), type \in {"DEDUCTION", "REFUND"} :
           entry' = NewEntry(e, d, type, amount, t, "PENDING_APPROVAL")
    BY <1>1
  <2>2. PICK row : row = [deposit |-> d, type |-> type, amount |-> amount, title |-> t,
                          status |-> "PENDING_APPROVAL"]
    OBVIOUS
  <2>3. row \in EntryRows
    BY <2>2 DEF EntryRows, RefTo, Approvals
  <2>. QED BY <2>1, <2>2, <2>3 DEF NewEntry
<1>3. OneMore(entry, e, row, entry') /\ amount \in Nat
  BY <1>1, <1>2, EntryAdded, AmountAssumption
<1>4. EntryTable(entry) /\ EntryTable(entry')
  BY <1>3 DEF OneMore
<1>5. ASSUME NEW c \in SecurityDeposits
      PROVE  /\ Received(entry', c) = Received(entry, c) /\ Spent(entry', c) = Spent(entry, c)
             /\ Refunded(entry', c) = Refunded(entry, c)
             /\ 0 <= Pending(entry', c) /\ Pending(entry', c) <= Available(entry, c)
  <2> DEFINE a == Adds(row, c, "DEDUCTION", "PENDING_APPROVAL")
             b == Adds(row, c, "REFUND", "PENDING_APPROVAL")
  <2>1. /\ Adds(row, c, "DEDUCTION", "APPROVED") = 0 /\ Adds(row, c, "REFUND", "APPROVED") = 0
        /\ Adds(row, c, "RECEIPT", "APPROVED") = 0
        /\ a + b = (IF c = d THEN amount ELSE 0) /\ a \in Nat /\ b \in Nat
    BY <1>2, <1>3 DEF Adds
  <2> HIDE DEF a, b
  <2>2. /\ Received(entry', c) = Received(entry, c) + 0
        /\ Spent(entry', c) = Spent(entry, c) + 0 /\ Refunded(entry', c) = Refunded(entry, c) + 0
        /\ Sum(entry', c, "DEDUCTION", "PENDING_APPROVAL") =
              Sum(entry, c, "DEDUCTION", "PENDING_APPROVAL") + a
        /\ Sum(entry', c, "REFUND", "PENDING_APPROVAL") =
              Sum(entry, c, "REFUND", "PENDING_APPROVAL") + b
    BY <1>3, <2>1 DEF OneMore, Received, Spent, Refunded, a, b
  <2>3. Pending(entry', c) = Pending(entry, c) + (IF c = d THEN amount ELSE 0)
    BY <1>4, <2>1, <2>2, BalanceTyped DEF Pending
  <2>4. /\ Pending(entry, c) \in Nat /\ Available(entry, c) \in Int
        /\ Pending(entry, c) <= Available(entry, c)
        /\ c = d => amount <= Available(entry, c) - Pending(entry, c)
    BY <1>1, <1>4, BalanceTyped DEF DepositInv, MoneyInv, RequestsAreCovered, Free
  <2>. QED BY <1>3, <1>4, <2>2, <2>3, <2>4, BalanceTyped
<1>6. EntriesHeld'
  BY <1>1, <1>2, <1>4, HeldAfter
<1>7. MoneyInv'
  BY <1>1, <1>4, <1>5, <1>6, RequestKept DEF DepositInv
<1>8. BooksInv' /\ LedgerTypeOK' /\ UNCHANGED ledgerVars
  BY <1>1, SameLedger DEF DepositInv
<1>9. OffsetInv'
  BY <1>1, <1>2, <1>3, OffsetAdded
<1>10. DepositTypeOK'
  BY <1>1, <1>4, <1>8 DEF DepositInv, DepositTypeOK, EntryTable
<1>. QED BY <1>7, <1>8, <1>9, <1>10 DEF DepositInv

\* A new deposit has no entries; the end of a contract reads the status that it
\* may write, and a deposit that was empty then is empty still.
LEMMA CounterKeeps ==
    ASSUME DepositInv, NEW d \in SecurityDeposits,
           EnsureDeposit(d) \/ DeriveEnd(d) \/ EndContract(d)
    PROVE  DepositInv' /\ UNCHANGED ledgerVars
<1>1. UNCHANGED <<title, payment, seen, entry, decision>>
  BY DEF EnsureDeposit, DeriveEnd, EndContract
<1>2. /\ EntryTable(entry)
      /\ deposit \in [SecurityDeposits -> RefTo(DepositRows)]
      /\ ending \in [SecurityDeposits -> RefTo(Derivations)]
  BY DEF DepositInv, DepositTypeOK, MoneyInv, EntriesHeld, EntryTable
<1>3. BooksInv' /\ LedgerTypeOK' /\ UNCHANGED ledgerVars
  BY <1>1, SameLedger DEF DepositInv
<1>4. OffsetInv' /\ RequestsAreCovered'
  BY <1>1 DEF DepositInv, OffsetInv, CopiesTrue, Offsets, Paying, PaysEntry, DeductionsReachTitles,
              PaidUnder, MoneyInv, RequestsAreCovered
<1>5. CASE EnsureDeposit(d)
  <2>1. PICK row \in DepositRows : row = [status |-> "PENDING", over |-> FALSE]
    <3>1. [status |-> "PENDING", over |-> FALSE] \in DepositRows
      BY DEF DepositRows, DepositStatuses
    <3>. QED BY <3>1
  <2>2. row # NoRow /\ row.status = "PENDING" /\ row.over = FALSE
    BY <2>1, DepositRowAssumption
  <2>3. /\ deposit[d] = NoRow /\ deposit' = [deposit EXCEPT ![d] = row] /\ ending' = ending
    BY <1>5, <2>1 DEF EnsureDeposit
  <2>4. /\ deposit' \in [SecurityDeposits -> RefTo(DepositRows)] /\ deposit'[d] = row
        /\ \A c \in SecurityDeposits : c # d => deposit'[c] = deposit[c]
    BY <1>2, <2>2, <2>3 DEF RefTo
  <2>5. EntriesHeld'
    <3>1. \A e \in Entries : entry[e] # NoRow => entry[e].deposit \in SecurityDeposits
      BY <1>2 DEF EntryTable, RefTo, EntryRows
    <3>. QED BY <1>1, <2>2, <2>4, <3>1 DEF DepositInv, MoneyInv, EntriesHeld
  <2>6. StatusFor(entry, d, FALSE) = "PENDING"
    <3>1. Chosen(entry, d, "RECEIPT", "APPROVED") = {}
      BY <2>3 DEF Chosen, DepositInv, MoneyInv, EntriesHeld
    <3>2. Received(entry, d) = 0
      BY <1>2, <3>1, BalanceIsSum, SumOfNone DEF Received
    <3>. QED BY <1>2, <3>2, StatusTyped
  <2>7. StatusFollowsBalance'
    BY <1>1, <2>2, <2>3, <2>4, <2>6 DEF DepositInv, MoneyInv, StatusFollowsBalance
  <2>8. EndingTrue'
    BY <2>3, <2>4 DEF DepositInv, MoneyInv, EndingTrue
  <2>9. DepositTypeOK'
    BY <1>1, <1>3, <2>3, <2>4 DEF DepositInv, DepositTypeOK
  <2>. QED BY <1>3, <1>4, <2>5, <2>7, <2>8, <2>9 DEF DepositInv, MoneyInv
<1>6. CASE DeriveEnd(d)
  <2>1. PICK row : row = [was |-> deposit[d].status, status |-> StatusFor(entry, d, TRUE)]
    OBVIOUS
  <2>2. /\ deposit[d] # NoRow /\ ~deposit[d].over /\ deposit' = deposit
        /\ ending' = [ending EXCEPT ![d] = row]
    BY <1>6, <2>1 DEF DeriveEnd
  <2>3. deposit[d] \in DepositRows /\ deposit[d].status = StatusFor(entry, d, FALSE)
    BY <1>2, <2>2 DEF RefTo, DepositInv, MoneyInv, StatusFollowsBalance
  <2>4. /\ row.status = StatusFor(entry, d, TRUE) /\ row.was = deposit[d].status
        /\ row.status \in {"REFUND_PENDING", "REFUNDED", "CLOSED"}
        /\ row.status = row.was => row.was \in {"REFUNDED", "CLOSED"}
    BY <1>2, <2>1, <2>3, StatusTyped
  <2>5. row \in Derivations
    BY <2>1, <2>3, <2>4 DEF Derivations, DepositRows, DepositStatuses
  <2>6. /\ ending' \in [SecurityDeposits -> RefTo(Derivations)] /\ ending'[d] = row
        /\ \A c \in SecurityDeposits : c # d => ending'[c] = ending[c]
    BY <1>2, <2>2, <2>5 DEF RefTo
  <2>7. EntriesHeld' /\ StatusFollowsBalance'
    BY <1>1, <2>2 DEF DepositInv, MoneyInv, EntriesHeld, StatusFollowsBalance
  <2>8. EndingTrue'
    BY <2>2, <2>4, <2>6 DEF DepositInv, MoneyInv, EndingTrue
  <2>9. DepositTypeOK'
    BY <1>1, <1>3, <2>2, <2>6 DEF DepositInv, DepositTypeOK
  <2>. QED BY <1>3, <1>4, <2>7, <2>8, <2>9 DEF DepositInv, MoneyInv
<1>7. CASE EndContract(d)
  <2>1. StatusAtEnd(d) \in {"REFUND_PENDING", "REFUNDED", "CLOSED"} /\ deposit[d] # NoRow
    BY <1>7 DEF EndContract, StatusAtEnd, DepositInv, MoneyInv, EndingTrue
  <2>2. PICK row \in DepositRows : row = [status |-> StatusAtEnd(d), over |-> TRUE]
    <3>1. PICK status \in DepositStatuses : status = StatusAtEnd(d)
      BY <2>1 DEF DepositStatuses
    <3>2. [status |-> status, over |-> TRUE] \in DepositRows
      BY DEF DepositRows
    <3>. QED BY <3>1, <3>2
  <2>3. /\ ending[d] # NoRow /\ deposit' = [deposit EXCEPT ![d] = row]
        /\ ending' = [ending EXCEPT ![d] = NoRow]
    BY <1>7, <2>2 DEF EndContract
  <2>4. row # NoRow /\ row.status = StatusAtEnd(d) /\ row.over = TRUE
    BY <2>2, DepositRowAssumption
  <2>5. /\ deposit' \in [SecurityDeposits -> RefTo(DepositRows)] /\ deposit'[d] = row
        /\ \A c \in SecurityDeposits : c # d => deposit'[c] = deposit[c] /\ ending'[c] = ending[c]
        /\ ending'[d] = NoRow /\ ending' \in [SecurityDeposits -> RefTo(Derivations)]
    BY <1>2, <2>3, <2>4 DEF RefTo
  <2>6. EntriesHeld'
    <3>1. \A e \in Entries : entry[e] # NoRow => entry[e].deposit \in SecurityDeposits
      BY <1>2 DEF EntryTable, RefTo, EntryRows
    <3>. QED BY <1>1, <2>4, <2>5, <3>1 DEF DepositInv, MoneyInv, EntriesHeld
  <2>7. StatusFollowsBalance'
    BY <1>1, <2>1, <2>4, <2>5 DEF DepositInv, MoneyInv, StatusFollowsBalance
  <2>8. EndingTrue'
    BY <2>5 DEF DepositInv, MoneyInv, EndingTrue
  <2>9. DepositTypeOK'
    BY <1>1, <1>3, <2>5 DEF DepositInv, DepositTypeOK
  <2>. QED BY <1>3, <1>4, <2>6, <2>7, <2>8, <2>9 DEF DepositInv, MoneyInv
<1>. QED BY <1>5, <1>6, <1>7

-----------------------------------------------------------------------------
(* The decision of an entry *)

\* Table u is t with entry e rewritten.
Replaced(t, e, row, u) ==
    /\ EntryTable(t) /\ EntryTable(u)
    /\ t[e] # NoRow /\ u[e] = row
    /\ \A x \in Entries : x # e => u[x] = t[x]
    /\ \A c, type, status :
          /\ Sum(u, c, type, status) =
                Sum(t, c, type, status) - Adds(t[e], c, type, status) + Adds(row, c, type, status)
          /\ Adds(t[e], c, type, status) <= Sum(t, c, type, status)

LEMMA EntryRewritten ==
    ASSUME NEW t, EntryTable(t), NEW e \in Entries, t[e] # NoRow, NEW row \in EntryRows,
           NEW u \in [Entries -> RefTo(EntryRows)],
           u[e] = row, \A x \in Entries : x # e => u[x] = t[x]
    PROVE  Replaced(t, e, row, u)
<1>1. ASSUME NEW c, NEW type, NEW status
      PROVE  /\ EntryTable(u)
             /\ Sum(u, c, type, status) =
                   Sum(t, c, type, status) - Adds(t[e], c, type, status) + Adds(row, c, type, status)
             /\ Adds(t[e], c, type, status) <= Sum(t, c, type, status)
  BY SumReplaced
<1>2. EntryTable(u)
  BY <1>1
<1>. QED BY <1>1, <1>2 DEF Replaced

\* A decision takes an amount out of what is set aside, and at most as much out
\* of the balance.
LEMMA DecisionSums ==
    ASSUME NEW t, NEW e, NEW row \in EntryRows, NEW u, Replaced(t, e, row, u),
           NEW old \in EntryRows, old = t[e],
           row.deposit = old.deposit, row.type = old.type, row.amount = old.amount,
           old.type # "RECEIPT", old.status = "PENDING_APPROVAL",
           row.status \in {"APPROVED", "REJECTED"}, NEW c
    PROVE  /\ Received(u, c) = Received(t, c)
           /\ c # old.deposit =>
                 /\ Spent(u, c) = Spent(t, c) /\ Refunded(u, c) = Refunded(t, c)
                 /\ Pending(u, c) = Pending(t, c)
           /\ c = old.deposit =>
                 /\ old.amount <= Pending(t, c) /\ Pending(u, c) = Pending(t, c) - old.amount
                 /\ Available(u, c) >= Available(t, c) - old.amount
<1>1. EntryTable(t) /\ EntryTable(u) /\ old.amount \in Nat
  BY AmountAssumption DEF Replaced, EntryRows
<1> DEFINE S(v, type, status) == Sum(v, c, type, status)
           O(type, status) == Adds(old, c, type, status)
           R(type, status) == Adds(row, c, type, status)
<1>2. ASSUME NEW type, NEW status
      PROVE  /\ S(u, type, status) = S(t, type, status) - O(type, status) + R(type, status)
             /\ O(type, status) <= S(t, type, status)
             /\ S(t, type, status) \in Nat /\ S(u, type, status) \in Nat
             /\ O(type, status) \in Nat /\ R(type, status) \in Nat
  <2>1. /\ S(u, type, status) = S(t, type, status) - O(type, status) + R(type, status)
        /\ O(type, status) <= S(t, type, status)
    BY DEF Replaced
  <2>2. S(t, type, status) \in Nat /\ S(u, type, status) \in Nat
    BY <1>1, BalanceIsSum
  <2>3. O(type, status) \in Nat /\ R(type, status) \in Nat
    BY AmountAssumption DEF Adds, EntryRows
  <2>. QED BY <2>1, <2>2, <2>3
<1>3. /\ O("RECEIPT", "APPROVED") = 0 /\ R("RECEIPT", "APPROVED") = 0
      /\ O("DEDUCTION", "APPROVED") = 0 /\ O("REFUND", "APPROVED") = 0
      /\ R("DEDUCTION", "PENDING_APPROVAL") = 0 /\ R("REFUND", "PENDING_APPROVAL") = 0
  BY DEF Adds
<1>4. c # old.deposit => /\ R("DEDUCTION", "APPROVED") = 0 /\ R("REFUND", "APPROVED") = 0
                         /\ O("DEDUCTION", "PENDING_APPROVAL") = 0
                         /\ O("REFUND", "PENDING_APPROVAL") = 0
  BY DEF Adds
<1>5. c = old.deposit =>
         /\ O("DEDUCTION", "PENDING_APPROVAL") + O("REFUND", "PENDING_APPROVAL") = old.amount
         /\ R("DEDUCTION", "APPROVED") + R("REFUND", "APPROVED") <= old.amount
  <2>1. old.type \in {"DEDUCTION", "REFUND"}
    BY DEF EntryRows
  <2>. QED BY <1>1, <2>1 DEF Adds
<1> HIDE DEF O, R
<1>6. S(u, "RECEIPT", "APPROVED") = S(t, "RECEIPT", "APPROVED")
  <2> HIDE DEF S
  <2>. QED BY <1>2, <1>3
<1>7. /\ S(u, "DEDUCTION", "APPROVED") = S(t, "DEDUCTION", "APPROVED") + R("DEDUCTION", "APPROVED")
      /\ S(u, "REFUND", "APPROVED") = S(t, "REFUND", "APPROVED") + R("REFUND", "APPROVED")
      /\ S(u, "DEDUCTION", "PENDING_APPROVAL") =
            S(t, "DEDUCTION", "PENDING_APPROVAL") - O("DEDUCTION", "PENDING_APPROVAL")
      /\ S(u, "REFUND", "PENDING_APPROVAL") =
            S(t, "REFUND", "PENDING_APPROVAL") - O("REFUND", "PENDING_APPROVAL")
      /\ O("DEDUCTION", "PENDING_APPROVAL") <= S(t, "DEDUCTION", "PENDING_APPROVAL")
      /\ O("REFUND", "PENDING_APPROVAL") <= S(t, "REFUND", "PENDING_APPROVAL")
      /\ S(t, "RECEIPT", "APPROVED") \in Nat
      /\ S(t, "DEDUCTION", "APPROVED") \in Nat /\ S(t, "REFUND", "APPROVED") \in Nat
      /\ S(t, "DEDUCTION", "PENDING_APPROVAL") \in Nat
      /\ S(t, "REFUND", "PENDING_APPROVAL") \in Nat
      /\ O("DEDUCTION", "PENDING_APPROVAL") \in Nat /\ O("REFUND", "PENDING_APPROVAL") \in Nat
      /\ R("DEDUCTION", "APPROVED") \in Nat /\ R("REFUND", "APPROVED") \in Nat
  <2> HIDE DEF S
  <2>. QED BY <1>2, <1>3
<1>8. ASSUME NEW v
      PROVE  /\ Received(v, c) = S(v, "RECEIPT", "APPROVED")
             /\ Spent(v, c) = S(v, "DEDUCTION", "APPROVED")
             /\ Refunded(v, c) = S(v, "REFUND", "APPROVED")
             /\ Available(v, c) = S(v, "RECEIPT", "APPROVED") - S(v, "DEDUCTION", "APPROVED")
                                  - S(v, "REFUND", "APPROVED")
             /\ Pending(v, c) = S(v, "DEDUCTION", "PENDING_APPROVAL")
                                + S(v, "REFUND", "PENDING_APPROVAL")
  BY DEF Received, Spent, Refunded, Available, Pending
<1> HIDE DEF S
<1>. QED BY <1>1, <1>4, <1>5, <1>6, <1>7, <1>8

\* What a decision writes: the entry that it read, but for the status.
Decides(w, e, row) ==
    /\ e = decision[w].entry /\ entry[e] # NoRow /\ entry[e].status = "PENDING_APPROVAL"
    /\ entry' \in [Entries -> RefTo(EntryRows)] /\ entry'[e] = row /\ row # NoRow
    /\ \A x \in Entries : x # e => entry'[x] = entry[x]
    /\ row.deposit = entry[e].deposit /\ row.type = entry[e].type
    /\ row.amount = entry[e].amount /\ row.title = entry[e].title
    /\ row.deposit = decision[w].row.deposit /\ row.type = decision[w].row.type
    /\ row.amount = decision[w].row.amount /\ row.title = decision[w].row.title
    /\ decision' \in [Workers -> RefTo(DecisionCopies)] /\ decision'[w] = NoRow
    /\ \A v \in Workers : v # w => decision'[v] = decision[v]

LEMMA WriteDecides ==
    ASSUME DepositInv, NEW w \in Workers, decision[w] # NoRow,
           NEW outcome \in {"APPROVED", "REJECTED"}, Write(w, outcome)
    PROVE  \E e \in Entries, row \in EntryRows :
              Decides(w, e, row) /\ row.status = outcome /\ deposit' = Recomputed(row.deposit, entry')
<1>1. PICK e \in Entries : e = decision[w].entry
  BY DEF DepositInv, DepositTypeOK, RefTo, DecisionCopies
<1>2. /\ entry[e] # NoRow
      /\ entry[e].deposit = decision[w].row.deposit /\ entry[e].type = decision[w].row.type
      /\ entry[e].amount = decision[w].row.amount /\ entry[e].title = decision[w].row.title
  BY <1>1 DEF DepositInv, OffsetInv, CopiesTrue
<1>3. entry[e] \in EntryRows
  BY <1>2 DEF DepositInv, DepositTypeOK, RefTo
<1>4. PICK row : row = [entry[e] EXCEPT !.status = outcome]
  OBVIOUS
<1>5. /\ row \in EntryRows /\ row.status = outcome /\ row # NoRow
      /\ row.deposit = entry[e].deposit /\ row.type = entry[e].type
      /\ row.amount = entry[e].amount /\ row.title = entry[e].title
  BY <1>3, <1>4, DepositRowAssumption DEF EntryRows, Approvals
<1>6. /\ entry[e].status = "PENDING_APPROVAL"
      /\ entry' = [entry EXCEPT ![e] = row]
      /\ deposit' = Recomputed(decision[w].row.deposit, entry')
      /\ decision' = [decision EXCEPT ![w] = NoRow]
  BY <1>1, <1>4 DEF Write, Undecided
<1>7. /\ entry' \in [Entries -> RefTo(EntryRows)] /\ entry'[e] = row
      /\ \A x \in Entries : x # e => entry'[x] = entry[x]
  BY <1>5, <1>6 DEF DepositInv, DepositTypeOK, RefTo
<1>8. /\ decision' \in [Workers -> RefTo(DecisionCopies)] /\ decision'[w] = NoRow
      /\ \A v \in Workers : v # w => decision'[v] = decision[v]
  BY <1>6 DEF DepositInv, DepositTypeOK, RefTo
<1>9. Decides(w, e, row)
  BY <1>1, <1>2, <1>5, <1>6, <1>7, <1>8 DEF Decides
<1>. QED BY <1>2, <1>5, <1>6, <1>9

\* A decision of what was covered leaves the rest covered.
LEMMA WriteKeeps ==
    ASSUME DepositInv, NEW w \in Workers, NEW e \in Entries, NEW row \in EntryRows,
           row.status \in {"APPROVED", "REJECTED"},
           Decides(w, e, row), deposit' = Recomputed(row.deposit, entry'), ending' = ending
    PROVE  /\ MoneyInv' /\ CopiesTrue' /\ deposit' \in [SecurityDeposits -> RefTo(DepositRows)]
<1>1. PICK d \in SecurityDeposits : d = row.deposit
  BY DEF EntryRows
<1>2. PICK old \in EntryRows : old = entry[e]
  BY DEF Decides, DepositInv, DepositTypeOK, RefTo
<1>3. /\ old # NoRow /\ old.deposit = d /\ row.deposit = d /\ row.type = old.type
      /\ row.amount = old.amount /\ row.title = old.title /\ old.status = "PENDING_APPROVAL"
  BY <1>1, <1>2 DEF Decides
<1>4. old.type # "RECEIPT" /\ deposit[d] # NoRow
  BY <1>2, <1>3 DEF DepositInv, MoneyInv, EntriesHeld
<1>5. EntryTable(entry)
  BY DEF DepositInv, DepositTypeOK, MoneyInv, EntriesHeld, EntryTable
<1>6. PICK u : u = entry'
  OBVIOUS
<1>7. Replaced(entry, e, row, u)
  <2>1. /\ u \in [Entries -> RefTo(EntryRows)] /\ u[e] = row /\ entry[e] # NoRow
        /\ \A x \in Entries : x # e => u[x] = entry[x]
    BY <1>6 DEF Decides
  <2>. QED BY <1>5, <2>1, EntryRewritten
<1>8. EntryTable(u)
  BY <1>7 DEF Replaced
<1>9. ASSUME NEW c
      PROVE  /\ Received(u, c) = Received(entry, c)
             /\ c # d => /\ Spent(u, c) = Spent(entry, c) /\ Refunded(u, c) = Refunded(entry, c)
                         /\ Pending(u, c) = Pending(entry, c)
             /\ c = d => /\ old.amount <= Pending(entry, c)
                         /\ Pending(u, c) = Pending(entry, c) - old.amount
                         /\ Available(u, c) >= Available(entry, c) - old.amount
  BY <1>2, <1>3, <1>4, <1>7, DecisionSums
<1>10. /\ Pending(entry, d) \in Nat /\ Available(entry, d) \in Int
       /\ Pending(u, d) \in Nat /\ Available(u, d) \in Int
       /\ Pending(entry, d) <= Available(entry, d)
       /\ old.amount \in Nat \ {0}
  BY <1>5, <1>8, BalanceTyped, AmountAssumption
  DEF DepositInv, MoneyInv, RequestsAreCovered, EntryRows
<1>11. ~(deposit[d].status \in {"REFUNDED", "CLOSED"} /\ ~deposit[d].over)
  <2>1. SUFFICES ASSUME deposit[d].status \in {"REFUNDED", "CLOSED"}, ~deposit[d].over
                 PROVE  FALSE
    OBVIOUS
  <2>2. deposit[d].status = StatusFor(entry, d, FALSE)
    BY <1>4, <2>1 DEF DepositInv, MoneyInv, StatusFollowsBalance
  <2>3. Available(entry, d) <= 0
    BY <1>5, <2>1, <2>2, StatusTyped
  <2>. QED BY <1>9, <1>10, <2>3
<1>12. EntriesHeld'
  <2>1. deposit'[d] # NoRow /\ \A c \in SecurityDeposits : deposit[c] # NoRow => deposit'[c] # NoRow
    BY <1>1, <1>4, <1>6, <1>8, RecomputedRow DEF DepositInv
  <2>2. \A x \in Entries : entry[x] # NoRow => entry[x].deposit \in SecurityDeposits
    BY DEF DepositInv, DepositTypeOK, RefTo, EntryRows
  <2>3. entry'[e] = row /\ \A x \in Entries : x # e => entry'[x] = entry[x]
    BY DEF Decides
  <2>4. IsFiniteSet(Written(entry'))
    BY <1>6, <1>8 DEF EntryTable
  <2>. QED BY <1>1, <1>3, <1>4, <2>1, <2>2, <2>3, <2>4 DEF EntriesHeld, DepositInv, MoneyInv
<1>13. MoneyInv' /\ deposit' \in [SecurityDeposits -> RefTo(DepositRows)]
  <2>1. EntryTable(entry') /\ deposit' = Recomputed(d, entry')
    BY <1>1, <1>6, <1>8
  <2>2. \A c \in SecurityDeposits : c # d =>
           /\ Received(entry', c) = Received(entry, c) /\ Spent(entry', c) = Spent(entry, c)
           /\ Refunded(entry', c) = Refunded(entry, c) /\ Pending(entry', c) = Pending(entry, c)
    BY <1>6, <1>9
  <2>3. 0 <= Pending(entry', d) /\ Pending(entry', d) <= Available(entry', d)
    <3>1. 0 <= Pending(u, d) /\ Pending(u, d) <= Available(u, d)
      BY <1>9, <1>10
    <3>. QED BY <1>6, <3>1
  <2>. QED BY <1>4, <1>11, <1>12, <2>1, <2>2, <2>3, MoneyKept DEF DepositInv
<1>14. CopiesTrue'
  <2>1. \A v \in Workers : decision[v] # NoRow => decision[v].entry \in Entries
    BY DEF DepositInv, DepositTypeOK, RefTo, DecisionCopies
  <2>2. \A v \in Workers : decision'[v] # NoRow => decision'[v] = decision[v]
    BY DEF Decides
  <2>3. /\ row # NoRow /\ entry'[e] = row /\ \A x \in Entries : x # e => entry'[x] = entry[x]
        /\ row.deposit = entry[e].deposit /\ row.type = entry[e].type
        /\ row.amount = entry[e].amount /\ row.title = entry[e].title
    BY DEF Decides
  <2> SUFFICES ASSUME NEW v \in Workers, decision'[v] # NoRow,
                      NEW x \in Entries, x = decision[v].entry
               PROVE  /\ entry'[x] # NoRow
                      /\ entry'[x].deposit = decision[v].row.deposit
                      /\ entry'[x].type = decision[v].row.type
                      /\ entry'[x].amount = decision[v].row.amount
                      /\ entry'[x].title = decision[v].row.title
    BY <2>1, <2>2 DEF CopiesTrue
  <2>4. /\ entry[x] # NoRow
        /\ entry[x].deposit = decision[v].row.deposit /\ entry[x].type = decision[v].row.type
        /\ entry[x].amount = decision[v].row.amount /\ entry[x].title = decision[v].row.title
    BY <2>2 DEF DepositInv, OffsetInv, CopiesTrue
  <2>. QED BY <2>3, <2>4
<1>. QED BY <1>13, <1>14

\* The payments that entries made are as they were.
OffsetsSame ==
    \A x \in Payments :
        \/ payment[x] # NoRow /\ payment[x].key \in Entries
        \/ payment'[x] # NoRow /\ payment'[x].key \in Entries
        => payment'[x] = payment[x]

LEMMA SamePaid ==
    ASSUME OffsetsSame, NEW e \in Entries
    PROVE  PaidUnder(e)' = PaidUnder(e) /\ \A x \in PaidUnder(e) : payment'[x] = payment[x]
  BY DEF OffsetsSame, PaidUnder

\* Money moves in the ledger, and none of it is of a deposit.
LEMMA AsideKeeps ==
    ASSUME DepositInv, [LedgerStep]_ledgerVars, UNCHANGED depositVars, OffsetsSame,
           \A w \in Workers :
              Paying(w)' /\ (decision[w] # NoRow \/ seen'[w].order.key \in Entries) =>
                 seen'[w] = seen[w]
    PROVE  DepositInv'
<1>1. BooksInv' /\ LedgerTypeOK'
  BY StepBooks DEF DepositInv, BooksInv
<1>2. UNCHANGED <<deposit, entry, decision, ending>>
  BY DEF depositVars
<1>3. DepositTypeOK'
  BY <1>1, <1>2 DEF DepositInv, DepositTypeOK
<1>4. MoneyInv'
  BY <1>2 DEF DepositInv, MoneyInv, EntriesHeld, RequestsAreCovered, StatusFollowsBalance, EndingTrue
<1>5. CopiesTrue'
  BY <1>2 DEF DepositInv, OffsetInv, CopiesTrue
<1>6. Offsets'
  BY <1>2 DEF DepositInv, OffsetInv, Offsets, OffsetsSame, Paying, PaysEntry
<1>7. DeductionsReachTitles'
  <2>1. ASSUME NEW e \in Entries
        PROVE  PaidUnder(e)' = PaidUnder(e) /\ \A x \in PaidUnder(e) : payment'[x] = payment[x]
    BY SamePaid
  <2>. QED BY <1>2, <2>1 DEF DepositInv, OffsetInv, DeductionsReachTitles
<1>. QED BY <1>1, <1>3, <1>4, <1>5, <1>6, <1>7 DEF DepositInv, OffsetInv

\* A clerk pays under other keys, and reverses no offset.
LEMMA ClerkAside ==
    ASSUME DepositInv, NEW w \in Workers, Clerk(w)
    PROVE  DepositInv' /\ [LedgerStep]_ledgerVars
<1>1. decision[w] = NoRow /\ UNCHANGED depositVars /\ (WorkerStep(w) \/ Begin(w, Keys \ Entries))
  BY DEF Clerk
<1>2. LedgerStep
  BY <1>1 DEF LedgerStep, Begin
<1>3. CASE CommitPayment(w)
  <2>1. PICK x \in Payments :
          /\ payment[x] = NoRow /\ payment'[x].key = seen[w].order.key
          /\ \A y \in Payments : y # x => payment'[y] = payment[y]
    BY <1>3, RowWritten DEF DepositInv
  <2>2. seen[w].order.key \notin Entries
    BY <1>1, <1>3 DEF CommitPayment, DepositInv, OffsetInv, Offsets, PaysEntry
  <2>3. OffsetsSame
    BY <2>1, <2>2 DEF OffsetsSame
  <2>4. \A v \in Workers : Paying(v)' => seen'[v] = seen[v]
    BY <1>3 DEF CommitPayment, Done, Paying, DepositInv, BooksInv, LedgerTypeOK
  <2>. QED BY <1>1, <1>2, <2>3, <2>4, AsideKeeps
<1>4. ASSUME NEW x \in Payments, ReversePayment(w, x) PROVE DepositInv'
  <2>1. RowsKept /\ \A y \in Payments : y # x => payment'[y] = payment[y]
    <3>1. RowsKept
      <4>1. ~CommitPayment(w) /\ WorkerStep(w)
        BY <1>4 DEF ReversePayment, Reads, CommitPayment, WorkerStep
      <4>. QED BY <4>1, RowsStay DEF DepositInv
    <3>. QED BY <1>4, <3>1 DEF ReversePayment, DepositInv, BooksInv, LedgerTypeOK
  <2>2. payment[x] # NoRow /\ payment[x].method # "DEPOSIT_OFFSET"
    BY <1>4 DEF ReversePayment, Reads, Idle, DepositInv, BooksInv, IInv, Known, Receipts
  <2>3. payment[x].key \notin Entries
    BY <2>2 DEF DepositInv, OffsetInv, Offsets
  <2>4. OffsetsSame
    BY <2>1, <2>2, <2>3 DEF OffsetsSame, RowsKept
  <2>5. \A v \in Workers : Paying(v)' => seen'[v] = seen[v]
    BY <1>4 DEF ReversePayment, Done, Paying, DepositInv, BooksInv, LedgerTypeOK
  <2>. QED BY <1>1, <1>2, <2>4, <2>5, AsideKeeps
<1>5. ASSUME payment' = payment,
             \A v \in Workers : Paying(v)' => \/ seen'[v] = seen[v]
                                              \/ v = w /\ seen'[v].order.key \notin Entries
      PROVE  DepositInv'
  BY <1>1, <1>2, <1>5, AsideKeeps DEF OffsetsSame
<1>6. CASE \/ \E t \in Titles : \/ ReadTitle(w, t) \/ CancelTitle(w, t)
                                \/ \E a \in {"APPROVED", "REJECTED"} : DecidePayable(w, t, a)
           \/ \E x \in Payments : ReadPayment(w, x)
           \/ Abandon(w)
  <2>1. ASSUME NEW c, seen' = [seen EXCEPT ![w] = c], c = NoRow \/ c.order = NoRow
        PROVE  \A v \in Workers : Paying(v)' => seen'[v] = seen[v]
    BY <2>1 DEF Paying, DepositInv, BooksInv, LedgerTypeOK
  <2>2. payment' = payment
    BY <1>6 DEF ReadTitle, CancelTitle, DecidePayable, ReadPayment, Abandon
  <2>3. \A v \in Workers : Paying(v)' => seen'[v] = seen[v]
    <3>1. ASSUME NEW t \in Titles, ReadTitle(w, t)
          PROVE  \A v \in Workers : Paying(v)' => seen'[v] = seen[v]
      <4>1. PICK c : c = [id |-> t, row |-> title[t], order |-> NoRow]
        OBVIOUS
      <4>. QED BY <2>1, <3>1, <4>1 DEF ReadTitle
    <3>2. ASSUME NEW x \in Payments, ReadPayment(w, x)
          PROVE  \A v \in Workers : Paying(v)' => seen'[v] = seen[v]
      <4>1. PICK c : c = [id |-> x, row |-> payment[x], order |-> NoRow]
        OBVIOUS
      <4>. QED BY <2>1, <3>2, <4>1 DEF ReadPayment
    <3>3. ASSUME seen' = [seen EXCEPT ![w] = NoRow]
          PROVE  \A v \in Workers : Paying(v)' => seen'[v] = seen[v]
      BY <2>1, <3>3
    <3>. QED BY <1>6, <3>1, <3>2, <3>3 DEF CancelTitle, DecidePayable, Abandon, Done
  <2>. QED BY <1>2, <1>5, <2>2, <2>3
<1>7. CASE Begin(w, Keys \ Entries)
  <2>1. PICK t \in Titles, order \in Orders : order.key \notin Entries /\ BeginPayment(w, t, order)
    BY <1>7 DEF Begin
  <2>2. PICK c : c = [id |-> t, row |-> title[t], order |-> order]
    OBVIOUS
  <2>3. /\ payment' = payment /\ seen' = [seen EXCEPT ![w] = c] /\ c.order.key \notin Entries
    BY <2>1, <2>2 DEF BeginPayment
  <2>4. \A v \in Workers : v # w => seen'[v] = seen[v]
    BY <2>3 DEF DepositInv, BooksInv, LedgerTypeOK
  <2>5. seen'[w] = c
    BY <2>3 DEF DepositInv, BooksInv, LedgerTypeOK
  <2>. QED BY <1>2, <1>5, <2>3, <2>4, <2>5
<1>. QED BY <1>1, <1>2, <1>3, <1>4, <1>6, <1>7 DEF WorkerStep

\* A title is created, or instalments end, with no payment.
LEMMA OfficeKeeps ==
    ASSUME DepositInv, Office, UNCHANGED depositVars
    PROVE  DepositInv' /\ [LedgerStep]_ledgerVars
<1>1. payment' = payment /\ seen' = seen /\ LedgerStep
  BY DEF Office, CreateTitle, CancelInstallments, LedgerStep
<1>2. OffsetsSame
  BY <1>1 DEF OffsetsSame
<1>. QED BY <1>1, <1>2, AsideKeeps

\* decide() reads an entry before it has the lock.
LEMMA ReadEntryKeeps ==
    ASSUME DepositInv, NEW w \in Workers, NEW e \in Entries, ReadEntry(w, e)
    PROVE  DepositInv' /\ UNCHANGED ledgerVars
<1>1. /\ UNCHANGED <<title, payment, seen>> /\ UNCHANGED <<deposit, entry, ending>>
      /\ seen[w] = NoRow /\ entry[e] # NoRow
  BY DEF ReadEntry, Idle
<1>2. BooksInv' /\ LedgerTypeOK' /\ UNCHANGED ledgerVars
  BY <1>1, SameLedger DEF DepositInv
<1>3. PICK copy : copy = [entry |-> e, row |-> entry[e]]
  OBVIOUS
<1>4. copy \in DecisionCopies /\ copy # NoRow /\ copy.entry = e /\ copy.row = entry[e]
  BY <1>1, <1>3, DepositRowAssumption DEF DepositInv, DepositTypeOK, DecisionCopies, RefTo
<1>5. /\ decision' \in [Workers -> RefTo(DecisionCopies)] /\ decision'[w] = copy
      /\ \A v \in Workers : v # w => decision'[v] = decision[v]
  BY <1>3, <1>4 DEF ReadEntry, DepositInv, DepositTypeOK, RefTo
<1>6. DepositTypeOK'
  BY <1>1, <1>2, <1>5 DEF DepositInv, DepositTypeOK
<1>7. MoneyInv'
  BY <1>1 DEF DepositInv, MoneyInv, EntriesHeld, RequestsAreCovered, StatusFollowsBalance, EndingTrue
<1>8. CopiesTrue'
  BY <1>1, <1>4, <1>5 DEF DepositInv, OffsetInv, CopiesTrue
<1>9. Offsets'
  BY <1>1, <1>5 DEF DepositInv, OffsetInv, Offsets, Paying, PaysEntry
<1>10. DeductionsReachTitles'
  BY <1>1 DEF DepositInv, OffsetInv, DeductionsReachTitles, PaidUnder
<1>. QED BY <1>2, <1>6, <1>7, <1>8, <1>9, <1>10 DEF DepositInv, OffsetInv

\* A decision that pays nothing leaves its entry without a payment.
LEMMA DecideKeeps ==
    ASSUME DepositInv, NEW w \in Workers, NEW outcome \in {"APPROVED", "REJECTED"},
           Decide(w, outcome)
    PROVE  DepositInv' /\ UNCHANGED ledgerVars
<1>1. /\ UNCHANGED <<title, payment, seen>> /\ ending' = ending
      /\ seen[w] = NoRow /\ decision[w] # NoRow
      /\ outcome = "APPROVED" => ~PaysTitle(decision[w].row)
  BY DEF Decide, Write, Idle
<1>2. PICK e \in Entries, row \in EntryRows :
         Decides(w, e, row) /\ row.status = outcome /\ deposit' = Recomputed(row.deposit, entry')
  BY <1>1, WriteDecides DEF Decide
<1>3. MoneyInv' /\ CopiesTrue' /\ deposit' \in [SecurityDeposits -> RefTo(DepositRows)]
  BY <1>1, <1>2, WriteKeeps
<1>4. BooksInv' /\ LedgerTypeOK' /\ UNCHANGED ledgerVars
  BY <1>1, SameLedger DEF DepositInv
<1>5. DepositTypeOK'
  BY <1>1, <1>2, <1>3, <1>4 DEF DepositInv, DepositTypeOK, Decides
<1>6. Offsets'
  <2>1. decision'[w] = NoRow /\ \A v \in Workers : v # w => decision'[v] = decision[v]
    BY <1>2 DEF Decides
  <2>. QED BY <1>1, <2>1 DEF DepositInv, OffsetInv, Offsets, Paying, PaysEntry
<1>7. DeductionsReachTitles'
  <2>1. PaidUnder(e) = {}
    BY <1>2 DEF Decides, DepositInv, OffsetInv, DeductionsReachTitles
  <2>2. ~(row.status = "APPROVED" /\ PaysTitle(row))
    BY <1>1, <1>2 DEF PaysTitle, Decides
  <2>3. entry'[e] = row /\ \A x \in Entries : x # e => entry'[x] = entry[x]
    BY <1>2 DEF Decides
  <2>. QED BY <1>1, <2>1, <2>2, <2>3 DEF DepositInv, OffsetInv, DeductionsReachTitles, PaidUnder
<1>. QED BY <1>3, <1>4, <1>5, <1>6, <1>7 DEF DepositInv, OffsetInv

\* An approval that pays a title takes both locks, under the key of its entry.
LEMMA BeginOffsetKeeps ==
    ASSUME DepositInv, NEW w \in Workers, BeginOffset(w)
    PROVE  DepositInv' /\ [LedgerStep]_ledgerVars
<1>1. PICK order : order = [amount |-> decision[w].row.amount, key |-> decision[w].entry,
                            method |-> "DEPOSIT_OFFSET"]
  OBVIOUS
<1>2. PICK t : t = decision[w].row.title
  OBVIOUS
<1>3. /\ decision[w] # NoRow /\ PaysTitle(decision[w].row) /\ UNCHANGED depositVars
      /\ BeginPayment(w, t, order)
  BY <1>1, <1>2 DEF BeginOffset
<1>4. t \in Titles /\ order \in Orders
  BY <1>1, <1>2, <1>3, EntryAssumption
  DEF DepositInv, DepositTypeOK, RefTo, DecisionCopies, EntryRows, PaysTitle, Orders
<1>5. LedgerStep
  BY <1>3, <1>4 DEF LedgerStep
<1>6. PICK copy : copy = [id |-> t, row |-> title[t], order |-> order]
  OBVIOUS
<1>7. payment' = payment /\ seen' = [seen EXCEPT ![w] = copy]
  BY <1>3, <1>6 DEF BeginPayment
<1>8. /\ seen'[w] = copy /\ \A v \in Workers : v # w => seen'[v] = seen[v]
      /\ copy.id = t /\ copy.order = order
  BY <1>6, <1>7 DEF DepositInv, BooksInv, LedgerTypeOK
<1>9. BooksInv' /\ LedgerTypeOK'
  BY <1>5, StepBooks DEF DepositInv, BooksInv
<1>10. UNCHANGED <<deposit, entry, decision, ending>>
  BY <1>3 DEF depositVars
<1>11. DepositTypeOK'
  BY <1>9, <1>10 DEF DepositInv, DepositTypeOK
<1>12. MoneyInv' /\ CopiesTrue'
  BY <1>10 DEF DepositInv, MoneyInv, EntriesHeld, RequestsAreCovered, StatusFollowsBalance, EndingTrue,
               OffsetInv, CopiesTrue
<1>13. Offsets'
  <2>1. PaysEntry(w)'
    BY <1>1, <1>2, <1>3, <1>8, <1>10 DEF PaysEntry
  <2>2. \A v \in Workers : v # w => /\ Paying(v)' <=> Paying(v)
                                    /\ PaysEntry(v)' <=> PaysEntry(v)
    BY <1>8, <1>10 DEF Paying, PaysEntry
  <2>. QED BY <1>7, <1>8, <1>10, <2>1, <2>2 DEF DepositInv, OffsetInv, Offsets
<1>14. DeductionsReachTitles'
  BY <1>7, <1>10 DEF DepositInv, OffsetInv, DeductionsReachTitles, PaidUnder
<1>. QED BY <1>5, <1>9, <1>11, <1>12, <1>13, <1>14 DEF DepositInv, OffsetInv

\* The approval commits with its payment: one payment, of the deduction's title,
\* under the key of the entry, which had none.
LEMMA CommitOffsetKeeps ==
    ASSUME DepositInv, NEW w \in Workers, CommitOffset(w)
    PROVE  DepositInv' /\ [LedgerStep]_ledgerVars
<1>1. /\ decision[w] # NoRow /\ CommitPayment(w) /\ Write(w, "APPROVED") /\ Paying(w)
      /\ ending' = ending /\ seen' = [seen EXCEPT ![w] = NoRow] /\ ~Used(seen[w].order.key)
  BY DEF CommitOffset, CommitPayment, Write, Done
<1>2. LedgerStep
  BY <1>1 DEF LedgerStep, WorkerStep
<1>3. BooksInv' /\ LedgerTypeOK'
  BY <1>2, StepBooks DEF DepositInv, BooksInv
<1>4. PICK outcome \in {"APPROVED", "REJECTED"} : outcome = "APPROVED"
  OBVIOUS
<1>5. PICK e \in Entries, row \in EntryRows :
         Decides(w, e, row) /\ row.status = outcome /\ deposit' = Recomputed(row.deposit, entry')
  BY <1>1, <1>4, WriteDecides
<1>6. MoneyInv' /\ CopiesTrue' /\ deposit' \in [SecurityDeposits -> RefTo(DepositRows)]
  BY <1>1, <1>5, WriteKeeps
<1>7. /\ e = decision[w].entry /\ PaysTitle(row)
      /\ row.title = seen[w].id /\ row.amount = seen[w].order.amount
      /\ seen[w].order.key = e /\ seen[w].order.method = "DEPOSIT_OFFSET"
  <2>1. PaysEntry(w)
    BY <1>1 DEF DepositInv, OffsetInv, Offsets
  <2>. QED BY <1>5, <2>1 DEF PaysEntry, Decides, PaysTitle
<1>8. PICK x \in Payments :
          /\ payment[x] = NoRow /\ payment'[x] # NoRow
          /\ payment'[x].title = row.title /\ payment'[x].amount = row.amount
          /\ payment'[x].key = e /\ payment'[x].method = "DEPOSIT_OFFSET"
          /\ payment'[x].status = "CONFIRMED"
          /\ \A y \in Payments : y # x => payment'[y] = payment[y]
  BY <1>1, <1>7, RowWritten DEF DepositInv
<1>9. /\ entry'[e] = row /\ \A k \in Entries : k # e => entry'[k] = entry[k]
      /\ decision'[w] = NoRow /\ \A v \in Workers : v # w => decision'[v] = decision[v]
      /\ row # NoRow
  BY <1>5 DEF Decides
<1>10. /\ seen'[w] = NoRow /\ \A v \in Workers : v # w => seen'[v] = seen[v]
  BY <1>1 DEF DepositInv, BooksInv, LedgerTypeOK
<1>11. DepositTypeOK'
  BY <1>1, <1>3, <1>5, <1>6 DEF DepositInv, DepositTypeOK, Decides
<1>12. Offsets'
  <2>1. ~Paying(w)'
    BY <1>10 DEF Paying
  <2>2. \A v \in Workers : v # w => /\ Paying(v)' <=> Paying(v)
                                    /\ PaysEntry(v)' <=> PaysEntry(v)
    BY <1>9, <1>10 DEF Paying, PaysEntry
  <2>. QED BY <1>8, <1>9, <1>10, <2>1, <2>2 DEF DepositInv, OffsetInv, Offsets
<1>13. DeductionsReachTitles'
  <2>1. PaidUnder(e)' = {x}
    BY <1>1, <1>7, <1>8 DEF PaidUnder, Used
  <2>2. ASSUME NEW k \in Entries, k # e
        PROVE  PaidUnder(k)' = PaidUnder(k) /\ \A y \in PaidUnder(k) : payment'[y] = payment[y]
    BY <1>8, <2>2 DEF PaidUnder
  <2> SUFFICES ASSUME NEW k \in Entries
               PROVE  IF entry'[k] # NoRow /\ entry'[k].status = "APPROVED" /\ PaysTitle(entry'[k])
                      THEN \E y \in Payments : /\ PaidUnder(k)' = {y}
                                               /\ payment'[y].title = entry'[k].title
                                               /\ payment'[y].amount = entry'[k].amount
                                               /\ payment'[y].status = "CONFIRMED"
                      ELSE PaidUnder(k)' = {}
    BY DEF DeductionsReachTitles, PaysTitle
  <2>3. CASE k = e
    BY <1>4, <1>5, <1>7, <1>8, <1>9, <2>1, <2>3
  <2>4. CASE k # e
    BY <1>9, <2>2, <2>4 DEF DepositInv, OffsetInv, DeductionsReachTitles
  <2>. QED BY <2>3, <2>4
<1>. QED BY <1>2, <1>3, <1>6, <1>11, <1>12, <1>13 DEF DepositInv, OffsetInv

\* A decision that is refused, or fails, leaves nothing behind.
LEMMA AbandonKeeps ==
    ASSUME DepositInv, NEW w \in Workers, AbandonDecision(w)
    PROVE  DepositInv' /\ [LedgerStep]_ledgerVars
<1>1. /\ UNCHANGED <<title, payment, deposit, entry, ending>>
      /\ decision' = [decision EXCEPT ![w] = NoRow] /\ seen' = [seen EXCEPT ![w] = NoRow]
  BY DEF AbandonDecision, Done
<1>2. [LedgerStep]_ledgerVars
  <2>1. CASE Idle(w)
    BY <1>1, <2>1 DEF Idle, DepositInv, BooksInv, LedgerTypeOK, ledgerVars
  <2>2. CASE ~Idle(w)
    BY <1>1, <2>2 DEF Abandon, Done, WorkerStep, LedgerStep
  <2>. QED BY <2>1, <2>2
<1>3. BooksInv' /\ LedgerTypeOK'
  BY <1>2, StepBooks DEF DepositInv, BooksInv
<1>4. /\ decision' \in [Workers -> RefTo(DecisionCopies)]
      /\ decision'[w] = NoRow /\ \A v \in Workers : v # w => decision'[v] = decision[v]
      /\ seen'[w] = NoRow /\ \A v \in Workers : v # w => seen'[v] = seen[v]
  BY <1>1 DEF DepositInv, DepositTypeOK, BooksInv, LedgerTypeOK, RefTo
<1>5. DepositTypeOK'
  BY <1>1, <1>3, <1>4 DEF DepositInv, DepositTypeOK
<1>6. MoneyInv'
  BY <1>1 DEF DepositInv, MoneyInv, EntriesHeld, RequestsAreCovered, StatusFollowsBalance, EndingTrue
<1>7. CopiesTrue'
  BY <1>1, <1>4 DEF DepositInv, OffsetInv, CopiesTrue
<1>8. Offsets'
  <2>1. ~Paying(w)'
    BY <1>4 DEF Paying
  <2>2. \A v \in Workers : v # w => /\ Paying(v)' <=> Paying(v)
                                    /\ PaysEntry(v)' <=> PaysEntry(v)
    BY <1>4 DEF Paying, PaysEntry
  <2>. QED BY <1>1, <1>4, <2>1, <2>2 DEF DepositInv, OffsetInv, Offsets
<1>9. DeductionsReachTitles'
  BY <1>1 DEF DepositInv, OffsetInv, DeductionsReachTitles, PaidUnder
<1>. QED BY <1>2, <1>3, <1>5, <1>6, <1>7, <1>8, <1>9 DEF DepositInv, OffsetInv

-----------------------------------------------------------------------------
(* Theorems *)

LEMMA InitDeposits == DepositInit => DepositInv
<1> SUFFICES ASSUME DepositInit PROVE DepositInv
  OBVIOUS
<1>1. BooksInv
  BY InitBooks DEF DepositInit
<1>2. /\ \A d \in SecurityDeposits : deposit[d] = NoRow /\ ending[d] = NoRow
      /\ \A e \in Entries : entry[e] = NoRow
      /\ \A w \in Workers : decision[w] = NoRow /\ seen[w] = NoRow
      /\ \A x \in Payments : payment[x] = NoRow
  BY DEF DepositInit, Init
<1>3. DepositTypeOK
  BY <1>1 DEF BooksInv, DepositInit, DepositTypeOK, RefTo
<1>4. EntriesHeld
  <2>1. Written(entry) = {}
    BY <1>2 DEF Written
  <2>. QED BY <1>2, <2>1, FS_EmptySet DEF EntriesHeld
<1>5. RequestsAreCovered
  <2>1. EntryTable(entry)
    BY <1>3, <1>4 DEF DepositTypeOK, EntriesHeld, EntryTable
  <2>2. ASSUME NEW d \in SecurityDeposits, NEW type, NEW status
        PROVE  Sum(entry, d, type, status) = 0
    <3>1. Chosen(entry, d, type, status) = {}
      BY <1>2 DEF Chosen
    <3>. QED BY <2>1, <3>1, BalanceIsSum, SumOfNone
  <2>. QED BY <2>2 DEF RequestsAreCovered, Pending, Available, Received, Spent, Refunded
<1>6. StatusFollowsBalance /\ EndingTrue /\ CopiesTrue /\ Offsets
  BY <1>2 DEF StatusFollowsBalance, EndingTrue, CopiesTrue, Offsets, Paying
<1>7. DeductionsReachTitles
  BY <1>2 DEF DeductionsReachTitles, PaidUnder
<1>. QED BY <1>1, <1>3, <1>4, <1>5, <1>6, <1>7 DEF DepositInv, MoneyInv, OffsetInv

\* Every step keeps the invariant, and is a step of the ledger or none of it.
LEMMA StepDeposits ==
    ASSUME DepositInv, [DepositNext]_vars
    PROVE  DepositInv' /\ [LedgerStep]_ledgerVars
<1>1. ASSUME NEW d \in SecurityDeposits, Counter(d)
      PROVE  DepositInv' /\ [LedgerStep]_ledgerVars
  <2>1. CASE EnsureDeposit(d) \/ DeriveEnd(d) \/ EndContract(d)
    BY <2>1, CounterKeeps
  <2>2. ASSUME NEW e \in Entries, NEW amount \in PaidAmounts,
               \/ Receive(d, e, amount)
               \/ \E t \in RefTo(Titles) : RequestDeduction(d, e, amount, t)
               \/ RequestRefund(d, e, amount)
        PROVE  DepositInv' /\ UNCHANGED ledgerVars
    BY <2>2, ReceiptKeeps, RequestKeeps
  <2>. QED BY <1>1, <2>1, <2>2 DEF Counter
<1>2. ASSUME NEW w \in Workers, Approver(w)
      PROVE  DepositInv' /\ [LedgerStep]_ledgerVars
  BY <1>2, ReadEntryKeeps, DecideKeeps, BeginOffsetKeeps, CommitOffsetKeeps, AbandonKeeps
  DEF Approver
<1>3. CASE UNCHANGED vars
  <2>1. UNCHANGED ledgerVars /\ UNCHANGED depositVars /\ OffsetsSame /\ seen' = seen
    BY <1>3 DEF vars, ledgerVars, depositVars, OffsetsSame
  <2>. QED BY <2>1, AsideKeeps
<1>. QED BY <1>1, <1>2, <1>3, ClerkAside, OfficeKeeps DEF DepositNext

\* Deposits, their entries, what a decision has read and what an end of contract
\* is about to write keep their columns, and so do the titles below them.
THEOREM DepositsAreTyped == DepositSpec => []DepositTypeOK
<1>1. DepositInv => DepositTypeOK
  BY DEF DepositInv
<1>. QED BY InitDeposits, StepDeposits, <1>1, PTL DEF DepositSpec

\* Every request can be approved (deposits.ts:222-226): however receipts,
\* requests and decisions of any number of people interleave, what is asked for
\* is covered by what the deposit has, and a deposit never pays out more than it
\* received.
THEOREM RequestsStayCovered == DepositSpec => []RequestsAreCovered
<1>1. DepositInv => RequestsAreCovered
  BY DEF DepositInv, MoneyInv
<1>. QED BY InitDeposits, StepDeposits, <1>1, PTL DEF DepositSpec

\* A deduction leaves the deposit and reaches its title together, once and for
\* its amount (deposits.ts:62-65), though two people decide the same entry and
\* clerks pay and reverse at the same time.
THEOREM DeductionsReach == DepositSpec => []DeductionsReachTitles
<1>1. DepositInv => DeductionsReachTitles
  BY DEF DepositInv, OffsetInv
<1>. QED BY InitDeposits, StepDeposits, <1>1, PTL DEF DepositSpec

\* While its contract lasts, the status of a deposit is the one that its entries
\* give (deposits.ts:101-110), however receipts, requests and decisions of the
\* same entry interleave.  What the end of the contract writes is not covered.
THEOREM StatusFollows == DepositSpec => []StatusFollowsBalance
<1>1. DepositInv => StatusFollowsBalance
  BY DEF DepositInv, MoneyInv
<1>. QED BY InitDeposits, StepDeposits, <1>1, PTL DEF DepositSpec

\* With deposits that pay titles beside the clerks, a transaction that pays
\* still has the only, fresh copy of its title, and a title says what its
\* payments add up to (ledger.service.ts:27-32).
THEOREM OffsetsTellTitles == DepositSpec => [](LockedCopyIsFresh /\ TitleTellsPayments)
<1>1. DepositInv => LockedCopyIsFresh /\ TitleTellsPayments
  BY DEF DepositInv, BooksInv, IInv
<1>. QED BY InitDeposits, StepDeposits, <1>1, PTL DEF DepositSpec

\* An offset, too, is only written to a title that can take it then
\* (ledger.service.ts:32).
THEOREM OffsetsFit == DepositSpec => PaidWithinBalance
<1>1. DepositInv /\ [DepositNext]_vars =>
          DepositInv' /\ [\A x \in Payments :
             payment[x] = NoRow /\ payment'[x] # NoRow =>
                 Accepts(title[payment'[x].title], payment'[x].amount)]_ledgerVars
  BY StepDeposits, StepFits DEF DepositInv, BooksInv
<1>. QED BY InitDeposits, <1>1, PTL DEF DepositSpec, PaidWithinBalance

\* Deposits, clerks and the office together implement Account: a deduction
\* brings its amount to one title, once.
THEOREM DepositsKeepTheBooks == DepositSpec => KeepsTheBooks
<1>1. DepositInit => DepositInv /\ Books!Init
  BY InitDeposits, InitBooks DEF DepositInit
<1>2. DepositInv /\ [DepositNext]_vars => DepositInv' /\ [Books!Next]_AccountVars
  <2> SUFFICES ASSUME DepositInv, [DepositNext]_vars
               PROVE  DepositInv' /\ [Books!Next]_AccountVars
    OBVIOUS
  <2>1. DepositInv' /\ [LedgerStep]_ledgerVars /\ BooksInv
    BY StepDeposits DEF DepositInv
  <2>. QED BY <2>1, StepAccount
<1>. QED BY <1>1, <1>2, PTL DEF DepositSpec, KeepsTheBooks, Books!Spec, AccountVars
=============================================================================
