----------------------------- MODULE LedgerProofs ----------------------------
(***************************************************************************)
(* Theorems about Ledger for any number of titles, payments, keys and      *)
(* transactions: the lock and the key first, then the sum of payments that *)
(* refreshTitle() writes, and the books that the titles keep with it.      *)
(***************************************************************************)
EXTENDS Ledger, Sums

\* The tables keep their keys, and a payment keeps its columns.
Tables ==
    /\ title = [t \in Titles |-> title[t]]
    /\ seen = [w \in Workers |-> seen[w]]
    /\ payment \in [Payments -> RefTo(PaymentRows)]

\* What is in flight was read from a row that still exists.
Known ==
    \A w \in Workers : seen[w] # NoRow =>
        /\ seen[w].id \in Payments => payment[seen[w].id] # NoRow
        /\ seen[w].order # NoRow =>
              /\ seen[w].id \in Titles /\ seen[w].order \in Orders
              /\ title[seen[w].id] # NoRow

\* A key belongs to one payment, whatever became of it.
OnePaymentPerKey ==
    \A x, y \in Payments :
        payment[x] # NoRow /\ payment[y] # NoRow /\ payment[x].key = payment[y].key => x = y

IInv == Tables /\ Known /\ OnePaymentPerKey /\ LockedCopyIsFresh

\* Nobody has read anything in the empty database.
LEMMA InitLedger == Init => IInv
  BY LedgerRowAssumption
  DEF Init, IInv, Tables, Known, OnePaymentPerKey, LockedCopyIsFresh, Paying, RefTo

\* Reading changes no table, and what is read is there; the reads that take no
\* lock are not about to pay.
LEMMA ReadKeeps ==
    ASSUME IInv, NEW w \in Workers,
           \/ \E t \in Titles : ReadTitle(w, t)
           \/ \E x \in Payments : ReadPayment(w, x)
           \/ Abandon(w)
    PROVE  IInv'
<1>1. CASE \E t \in Titles : ReadTitle(w, t)
  BY <1>1, LedgerRowAssumption
  DEF IInv, Tables, Known, OnePaymentPerKey, LockedCopyIsFresh, Paying, ReadTitle
<1>2. CASE \E x \in Payments : ReadPayment(w, x)
  BY <1>2, LedgerRowAssumption
  DEF IInv, Tables, Known, OnePaymentPerKey, LockedCopyIsFresh, Paying, ReadPayment
<1>3. CASE Abandon(w)
  BY <1>3
  DEF IInv, Tables, Known, OnePaymentPerKey, LockedCopyIsFresh, Paying, Abandon, Done
<1>. QED BY <1>1, <1>2, <1>3

\* The lock is free before it is taken, and the copy is read after.
LEMMA BeginKeeps ==
    ASSUME IInv, NEW w \in Workers, NEW t \in Titles, NEW order \in Orders,
           BeginPayment(w, t, order)
    PROVE  IInv'
  BY LedgerRowAssumption
  DEF IInv, Tables, Known, OnePaymentPerKey, LockedCopyIsFresh, Paying, Locked, BeginPayment

\* A title that changes outside a payment is one that nobody has locked.
LEMMA TitleKeeps ==
    ASSUME IInv, payment' = payment, seen' = [w \in Workers |-> seen'[w]],
           \A w \in Workers : seen'[w] \in {seen[w], NoRow},
           title' = [t \in Titles |-> title'[t]],
           \A t \in Titles : title'[t] # title[t] => title[t] = NoRow \/ ~Locked(t)
    PROVE  IInv'
  BY DEF IInv, Tables, Known, OnePaymentPerKey, LockedCopyIsFresh, Paying, Locked

\* A commit writes a payment under a key that nobody has used, and changes the
\* title that it holds, of which nobody else has a copy.
LEMMA CommitKeeps ==
    ASSUME IInv, NEW w \in Workers, CommitPayment(w)
    PROVE  IInv'
<1> DEFINE t == seen[w].id
           order == seen[w].order
           row == [title |-> t, amount |-> order.amount, key |-> order.key,
                   method |-> order.method, status |-> "CONFIRMED"]
<1>1. /\ Paying(w) /\ t \in Titles /\ order \in Orders
      /\ ~Used(order.key)
      /\ payment' = [payment EXCEPT ![NewPayment] = row]
      /\ title' = [title EXCEPT ![t] = Refreshed(title[t], payment', t)]
      /\ seen' = [seen EXCEPT ![w] = NoRow]
  BY DEF IInv, Known, CommitPayment, Paying, Done
<1>2. NewPayment \in Payments /\ payment[NewPayment] = NoRow
  BY DEF CommitPayment, SparePayments, NewPayment
<1>3. row \in PaymentRows /\ row # NoRow
  BY <1>1, LedgerRowAssumption DEF PaymentRows, Orders
<1>4. \A v \in Workers : Paying(v)' => v # w /\ Paying(v) /\ seen'[v] = seen[v] /\ seen[v].id # t
  BY <1>1 DEF IInv, Tables, LockedCopyIsFresh, Paying
<1>5. Tables'
  <2>1. payment' \in [Payments -> RefTo(PaymentRows)]
    BY <1>1, <1>3 DEF IInv, Tables, RefTo
  <2>. QED BY <2>1, <1>1 DEF IInv, Tables
<1>6. Known'
  BY <1>1, <1>2, <1>3, <1>4 DEF IInv, Tables, Known, Paying
<1>7. OnePaymentPerKey'
  BY <1>1, <1>2, <1>3 DEF IInv, Tables, OnePaymentPerKey, Used
<1>8. LockedCopyIsFresh'
  BY <1>1, <1>4 DEF IInv, Tables, LockedCopyIsFresh, Paying, Known
<1>. QED BY <1>5, <1>6, <1>7, <1>8 DEF IInv

\* A reversal keeps the columns of the payment and changes a title that nobody
\* has locked.
LEMMA ReverseKeeps ==
    ASSUME IInv, NEW w \in Workers, NEW x \in Payments, ReversePayment(w, x)
    PROVE  IInv'
<1> DEFINE t == seen[w].row.title
           row == [payment[x] EXCEPT !.status = "REVERSED"]
<1>1. /\ payment[x] # NoRow
      /\ ~Locked(t)
      /\ payment' = [payment EXCEPT ![x] = row]
      /\ title' = [title EXCEPT ![t] = Refreshed(title[t], payment', t)]
      /\ seen' = [seen EXCEPT ![w] = NoRow]
  BY DEF IInv, Known, ReversePayment, Reads, Idle, Done
<1>2. payment[x] \in PaymentRows
  BY <1>1 DEF IInv, Tables, RefTo
<1>3. row \in PaymentRows /\ row # NoRow /\ row.key = payment[x].key
  BY <1>2, LedgerRowAssumption DEF PaymentRows
<1>4. \A v \in Workers : Paying(v)' => Paying(v) /\ seen'[v] = seen[v] /\ seen[v].id # t
  BY <1>1 DEF IInv, Tables, Paying, Locked
<1>5. Tables'
  <2>1. payment' \in [Payments -> RefTo(PaymentRows)]
    BY <1>1, <1>3 DEF IInv, Tables, RefTo
  <2>. QED BY <2>1, <1>1 DEF IInv, Tables
<1>6. Known'
  BY <1>1, <1>3, <1>4 DEF IInv, Tables, Known, Paying
<1>7. OnePaymentPerKey'
  BY <1>1, <1>3 DEF IInv, Tables, OnePaymentPerKey
<1>8. LockedCopyIsFresh'
  BY <1>1, <1>4 DEF IInv, Tables, LockedCopyIsFresh, Paying, Known
<1>. QED BY <1>5, <1>6, <1>7, <1>8 DEF IInv

\* What the handlers of this module do, and what the modules that pay through
\* them do to the ledger
LedgerStep ==
    \/ \E w \in Workers :
          \/ WorkerStep(w)
          \/ \E t \in Titles, order \in Orders : BeginPayment(w, t, order)
    \/ Office

\* Every step of the ledger keeps the invariant.
LEMMA StepLedger == IInv /\ [LedgerStep]_ledgerVars => IInv'
<1> SUFFICES ASSUME IInv, [LedgerStep]_ledgerVars PROVE IInv'
  OBVIOUS
<1>1. ASSUME NEW w \in Workers, WorkerStep(w) PROVE IInv'
  <2>1. ASSUME NEW t \in Titles, CancelTitle(w, t) PROVE IInv'
    BY <2>1, TitleKeeps DEF CancelTitle, Done, IInv, Tables
  <2>2. ASSUME NEW t \in Titles, NEW d \in {"APPROVED", "REJECTED"}, DecidePayable(w, t, d)
        PROVE  IInv'
    BY <2>2, TitleKeeps DEF DecidePayable, Done, IInv, Tables
  <2>. QED BY <1>1, <2>1, <2>2, ReadKeeps, CommitKeeps, ReverseKeeps DEF WorkerStep
<1>2. ASSUME NEW w \in Workers, NEW t \in Titles, NEW order \in Orders,
             BeginPayment(w, t, order)
      PROVE  IInv'
  BY <1>2, BeginKeeps
<1>3. CASE Office
  <2>1. ASSUME NEW t \in Titles, NEW side, NEW amount, NEW approval,
               CreateTitle(t, side, amount, approval)
        PROVE  IInv'
    BY <2>1, TitleKeeps DEF CreateTitle, IInv, Tables
  <2>2. ASSUME NEW S \in SUBSET Titles, CancelInstallments(S) PROVE IInv'
    BY <2>2, TitleKeeps DEF CancelInstallments, IInv, Tables
  <2>. QED BY <1>3, <2>1, <2>2 DEF Office
<1>4. CASE UNCHANGED ledgerVars
  BY <1>4 DEF ledgerVars, IInv, Tables, Known, OnePaymentPerKey, LockedCopyIsFresh, Paying
<1>. QED BY <1>1, <1>2, <1>3, <1>4 DEF LedgerStep

\* A payment is written to a title that can take it then.
LEMMA StepFits ==
    IInv /\ [LedgerStep]_ledgerVars =>
        [\A x \in Payments :
            payment[x] = NoRow /\ payment'[x] # NoRow =>
                Accepts(title[payment'[x].title], payment'[x].amount)]_ledgerVars
<1> DEFINE Fits(x) == payment[x] = NoRow /\ payment'[x] # NoRow =>
                          Accepts(title[payment'[x].title], payment'[x].amount)
<1>1. ASSUME IInv, NEW w \in Workers, CommitPayment(w), NEW x \in Payments
      PROVE  Fits(x)
  <2>1. /\ seen[w].row = title[seen[w].id]
        /\ Accepts(seen[w].row, seen[w].order.amount)
    BY <1>1 DEF CommitPayment, IInv, LockedCopyIsFresh
  <2>2. payment' = [payment EXCEPT ![NewPayment] =
                      [title |-> seen[w].id, amount |-> seen[w].order.amount,
                       key |-> seen[w].order.key, method |-> seen[w].order.method,
                       status |-> "CONFIRMED"]]
    BY <1>1 DEF CommitPayment
  <2>. QED BY <2>1, <2>2 DEF IInv, Tables
<1>2. ASSUME IInv, NEW w \in Workers, NEW y \in Payments, ReversePayment(w, y),
             NEW x \in Payments
      PROVE  Fits(x)
  <2>1. payment[y] # NoRow
    BY <1>2 DEF IInv, Known, ReversePayment, Reads, Idle
  <2>. QED BY <1>2, <2>1 DEF ReversePayment, IInv, Tables
<1>3. ASSUME IInv, LedgerStep, payment' # payment
      PROVE  \E w \in Workers : CommitPayment(w) \/ \E y \in Payments : ReversePayment(w, y)
  BY <1>3 DEF LedgerStep, WorkerStep, Office, ReadTitle, ReadPayment, CancelTitle,
              DecidePayable, Abandon, BeginPayment, CreateTitle, CancelInstallments
<1>. QED BY <1>1, <1>2, <1>3 DEF ledgerVars

-----------------------------------------------------------------------------
(* What a title was paid, as a sum *)

Rows(p) == {x \in Payments : p[x] # NoRow}

\* A table of payments as the database holds one: finitely many rows
Table(p) == p \in [Payments -> RefTo(PaymentRows)] /\ IsFiniteSet(Rows(p))

Column(p) == [x \in Payments |-> p[x].amount]

\* refreshTitle() adds up the column of amounts of the confirmed payments.
LEMMA PaidIsSum ==
    ASSUME NEW p, Table(p), NEW t
    PROVE  /\ IsFiniteSet(Confirmed(p, t))
           /\ \A x \in Confirmed(p, t) : Column(p)[x] = p[x].amount /\ p[x].amount \in Nat
           /\ Paid(p, t) = SumOf(Column(p), Confirmed(p, t))
<1> DEFINE C == Confirmed(p, t)
           f == Column(p)
           Sum(h) == h = [s \in SUBSET C |->
                            IF s = {} THEN 0
                            ELSE p[CHOOSE x \in s : TRUE].amount
                                 + h[s \ {CHOOSE x \in s : TRUE}]]
           iter == CHOOSE h : Sum(h)
<1>1. Paid(p, t) = iter[C]
  BY DEF Paid, MapThenSumSet, MapThenFoldSet
<1>2. IsFiniteSet(C)
  <2>1. C \in SUBSET Rows(p)
    BY DEF Confirmed, Rows
  <2>. QED BY <2>1, FS_Subset DEF Table
<1>3. \A x \in C : f[x] = p[x].amount /\ p[x].amount \in Nat
  BY AmountAssumption DEF Confirmed, Column, Table, RefTo, PaymentRows
<1>4. Numbers(f, C)
  BY <1>3 DEF Numbers
<1>5. \A h : Sum(h) <=> Recursive(h, f, C)
  <2>1. ASSUME NEW s \in SUBSET C, s # {}
        PROVE  f[CHOOSE x \in s : TRUE] = p[CHOOSE x \in s : TRUE].amount
    BY <1>3, <2>1
  <2>. QED BY <2>1 DEF Recursive
<1> HIDE DEF C, f, Sum
<1>6. Sum(iter)
  BY <1>2, <1>4, <1>5, SumOfIs
<1>. QED BY <1>1, <1>2, <1>3, <1>4, <1>5, <1>6, SumOfIs DEF C, f

\* The sum is what it was if the confirmed payments are.
LEMMA PaidSame ==
    ASSUME NEW p, Table(p), NEW q, Table(q), NEW t, Confirmed(q, t) = Confirmed(p, t),
           \A x \in Confirmed(p, t) : q[x].amount = p[x].amount
    PROVE  Paid(q, t) = Paid(p, t)
<1>1. Numbers(Column(p), Confirmed(p, t))
  BY PaidIsSum DEF Numbers
<1>2. \A x \in Confirmed(p, t) : Column(p)[x] = Column(q)[x]
  BY PaidIsSum
<1>. QED BY <1>1, <1>2, PaidIsSum, SumOfSame

\* One payment more adds its amount.
LEMMA PaidMore ==
    ASSUME NEW p, Table(p), NEW q, Table(q), NEW t, NEW x, x \notin Confirmed(p, t),
           Confirmed(q, t) = Confirmed(p, t) \cup {x},
           \A y \in Confirmed(p, t) : q[y].amount = p[y].amount
    PROVE  Paid(q, t) = Paid(p, t) + q[x].amount
<1> DEFINE C == Confirmed(p, t)
           D == Confirmed(q, t)
<1>1. Numbers(Column(q), D) /\ Numbers(Column(p), C) /\ IsFiniteSet(C)
  BY PaidIsSum DEF Numbers
<1>2. \A y \in C : Column(p)[y] = Column(q)[y]
  BY PaidIsSum
<1>3. x \notin C /\ D = C \cup {x}
  OBVIOUS
<1> HIDE DEF C, D
<1>4. SumOf(Column(q), D) = SumOf(Column(q), C) + Column(q)[x]
  BY <1>1, <1>3, SumOfMore
<1>5. SumOf(Column(p), C) = SumOf(Column(q), C)
  BY <1>1, <1>2, SumOfSame
<1>6. Column(q)[x] = q[x].amount
  BY <1>3, PaidIsSum DEF D
<1>. QED BY <1>4, <1>5, <1>6, PaidIsSum DEF C, D

LEMMA PaidTyped ==
    ASSUME NEW p, Table(p), NEW t
    PROVE  Paid(p, t) \in Nat
<1>1. /\ IsFiniteSet(Confirmed(p, t))
      /\ \A x \in Confirmed(p, t) : Column(p)[x] \in Nat
  BY PaidIsSum
<1>2. SumOf(Column(p), Confirmed(p, t)) \in Nat
  BY <1>1, SumOfGrows
<1>. QED BY <1>2, PaidIsSum

-----------------------------------------------------------------------------
(* The rows and the books *)

\* A payment is of a title that exists, a title that was read is there, and what
\* was read of a payment that can no longer change is what it says.
Receipts ==
    /\ IsFiniteSet(Rows(payment))
    /\ \A x \in Payments : payment[x] # NoRow => title[payment[x].title] # NoRow
    /\ \A w \in Workers : seen[w] # NoRow =>
          /\ seen[w].id \in Payments =>
                /\ seen[w].row.title = payment[seen[w].id].title
                /\ seen[w].row.method = payment[seen[w].id].method
          /\ seen[w].id \in Titles => title[seen[w].id] # NoRow

BooksInv == IInv /\ LedgerTypeOK /\ Receipts /\ TitleTellsPayments

\* The refinement mapping, read from the rows.
Price(r) == IF r = NoRow THEN NoRow ELSE r.amount
Kept(r) == IF r = NoRow THEN 0 ELSE r.paid
Under(p, k) == {x \in Payments : p[x] # NoRow /\ p[x].key = k}
Brought(p, k) ==
    IF Under(p, k) = {} THEN NoRow
    ELSE LET x == CHOOSE x \in Under(p, k) : TRUE
         IN  [title |-> p[x].title, amount |-> p[x].amount,
              here |-> p[x].status = "CONFIRMED"]

BookPrice == [t \in Titles |-> Price(title[t])]
BookKept == [t \in Titles |-> Kept(title[t])]
BookCame == [k \in Keys |-> Brought(payment, k)]

\* A step that the books do not see
Unseen == UNCHANGED <<BookPrice, BookKept, BookCame>>

\* A row that says what is confirmed of it
Tells(row, p, t) ==
    /\ row.paid = Paid(p, t)
    /\ row.paid <= row.amount
    /\ row.status \in {"CANCELLED", TitleStatus(row.amount, row.paid, FALSE)}

LEMMA TableHolds == ASSUME LedgerTypeOK, Receipts PROVE Table(payment)
  BY DEF LedgerTypeOK, Receipts, Table

\* refreshTitle() writes what it has added up.
LEMMA RefreshedTells ==
    ASSUME NEW row \in TitleRows, NEW p, Table(p), NEW t, Paid(p, t) <= row.amount
    PROVE  /\ Refreshed(row, p, t) \in TitleRows
           /\ Tells(Refreshed(row, p, t), p, t)
           /\ Refreshed(row, p, t).amount = row.amount
           /\ Refreshed(row, p, t).side = row.side
           /\ Refreshed(row, p, t).paid = Paid(p, t)
<1> DEFINE paid == Paid(p, t)
           status == TitleStatus(row.amount, paid, row.status = "CANCELLED")
<1>1. paid \in Nat /\ row.amount \in Nat
  BY PaidTyped, AmountAssumption DEF TitleRows
<1>2. /\ status \in {"OPEN", "PARTIAL", "PAID", "CANCELLED"}
      /\ status \in {"CANCELLED", TitleStatus(row.amount, paid, FALSE)}
  BY DEF TitleStatus
<1>3. Refreshed(row, p, t) = [row EXCEPT !.paid = paid, !.status = status]
  BY DEF Refreshed
<1> HIDE DEF paid, status
<1>4. /\ Refreshed(row, p, t) = [side |-> row.side, amount |-> row.amount, paid |-> paid,
                                 status |-> status, approval |-> row.approval]
      /\ row.side \in {"receivable", "payable"} /\ row.amount \in TitleAmounts
      /\ row.approval \in RefTo(Approvals)
  BY <1>3 DEF TitleRows
<1>5. Refreshed(row, p, t) \in TitleRows
  BY <1>1, <1>2, <1>4 DEF TitleRows
<1>6. paid <= row.amount /\ Paid(p, t) = paid
  BY DEF paid
<1> DEFINE new == Refreshed(row, p, t)
<1>7. new.paid = paid /\ new.amount = row.amount /\ new.status = status
  BY <1>4
<1> HIDE DEF new
<1>8. Tells(new, p, t)
  BY <1>2, <1>6, <1>7 DEF Tells
<1>. QED BY <1>4, <1>5, <1>6, <1>8 DEF new

\* A key brings what its only payment says.
LEMMA BroughtIs ==
    ASSUME NEW p, NEW x \in Payments, p[x] # NoRow,
           \A y \in Payments : p[y] # NoRow /\ p[y].key = p[x].key => y = x
    PROVE  Brought(p, p[x].key) = [title |-> p[x].title, amount |-> p[x].amount,
                                   here |-> p[x].status = "CONFIRMED"]
<1>1. Under(p, p[x].key) = {x}
  BY DEF Under
<1>2. (CHOOSE y \in {x} : TRUE) = x
  OBVIOUS
<1>. QED BY <1>1, <1>2 DEF Brought

LEMMA BroughtSame ==
    ASSUME NEW p, NEW q, NEW k, Under(p, k) = Under(q, k), \A x \in Under(p, k) : p[x] = q[x]
    PROVE  Brought(p, k) = Brought(q, k)
<1>1. CASE Under(p, k) = {}
  BY <1>1 DEF Brought
<1>2. CASE Under(p, k) # {}
  <2>1. (CHOOSE x \in Under(p, k) : TRUE) \in Under(p, k)
    BY <1>2
  <2>. QED BY <1>2, <2>1 DEF Brought
<1>. QED BY <1>1, <1>2

-----------------------------------------------------------------------------
(* The steps, row by row *)

\* A title that changes without a payment: one that is new, or one whose amounts
\* stay as they were.
LEMMA TitlesKept ==
    ASSUME BooksInv, IInv', payment' = payment,
           title' \in [Titles -> RefTo(TitleRows)],
           seen' \in [Workers -> RefTo(TitleCopies \cup PaymentCopies)],
           \A w \in Workers : seen'[w] = seen[w] \/ seen'[w] = NoRow
                              \/ /\ seen'[w].id \in Payments => seen'[w].row = payment[seen'[w].id]
                                 /\ seen'[w].id \in Titles => title[seen'[w].id] # NoRow,
           \A t \in Titles : title[t] # NoRow =>
               /\ title'[t] # NoRow
               /\ title'[t].paid = title[t].paid /\ title'[t].amount = title[t].amount
               /\ title'[t].status \in {title[t].status, "CANCELLED"},
           \A t \in Titles : title[t] = NoRow /\ title'[t] # NoRow =>
               title'[t].paid = 0 /\ title'[t].status = "OPEN"
    PROVE  BooksInv'
<1>1. LedgerTypeOK'
  BY DEF BooksInv, LedgerTypeOK
<1>2. Receipts'
  <2>1. \A x \in Payments : payment[x] # NoRow => payment[x].title \in Titles
    BY DEF BooksInv, LedgerTypeOK, RefTo, PaymentRows
  <2>. QED BY <2>1 DEF BooksInv, Receipts
<1>3. TitleTellsPayments'
  <2> SUFFICES ASSUME NEW t \in Titles, title'[t] # NoRow
               PROVE  Tells(title'[t], payment', t)
    BY DEF TitleTellsPayments, Tells
  <2>1. CASE title[t] # NoRow
    <3>1. Tells(title[t], payment, t)
      BY <2>1 DEF BooksInv, TitleTellsPayments, Tells
    <3>. QED BY <2>1, <3>1 DEF Tells
  <2>2. CASE title[t] = NoRow
    <3>1. Confirmed(payment, t) = {}
      BY <2>2 DEF BooksInv, Receipts, Confirmed
    <3>2. Paid(payment, t) = SumOf(Column(payment), Confirmed(payment, t))
      BY PaidIsSum, TableHolds DEF BooksInv
    <3>3. Paid(payment', t) = 0
      BY <3>1, <3>2, SumOfNone
    <3> DEFINE row == title'[t]
    <3>4. row.amount \in Nat /\ row.paid = 0 /\ row.status = "OPEN"
      BY <2>2, AmountAssumption DEF RefTo, TitleRows
    <3> HIDE DEF row
    <3>5. TitleStatus(row.amount, row.paid, FALSE) = "OPEN" /\ row.paid <= row.amount
      BY <3>4 DEF TitleStatus
    <3>7. row.paid = Paid(payment', t) /\ row.status = TitleStatus(row.amount, row.paid, FALSE)
      BY <3>3, <3>4, <3>5
    <3>6. Tells(row, payment', t)
      BY <3>5, <3>7, Zenon DEF Tells
    <3>. QED BY <3>6 DEF row
  <2>. QED BY <2>1, <2>2
<1>. QED BY <1>1, <1>2, <1>3 DEF BooksInv

\* And if no title is new the books see nothing.
LEMMA NothingSeen ==
    ASSUME payment' = payment, title = [t \in Titles |-> title[t]],
           \A t \in Titles : /\ title[t] = NoRow <=> title'[t] = NoRow
                             /\ title'[t].paid = title[t].paid
                             /\ title'[t].amount = title[t].amount
    PROVE  Unseen
<1>1. \A t \in Titles : Price(title'[t]) = Price(title[t]) /\ Kept(title'[t]) = Kept(title[t])
  BY DEF Price, Kept
<1>. QED BY <1>1 DEF Unseen, BookPrice, BookKept, BookCame

-----------------------------------------------------------------------------
(* The steps of the books *)

LEMMA BooksOpen ==
    ASSUME NEW t \in Titles, BookPrice[t] = NoRow, BookPrice'[t] \in Nat \ {0},
           BookPrice' = [BookPrice EXCEPT ![t] = BookPrice'[t]],
           BookKept' = BookKept, BookCame' = BookCame
    PROVE  Books!Open(t)
  BY DEF Books!Open, BookPrice, BookKept, BookCame, Price, Kept, Brought, Under, PaidUnder

LEMMA BooksReceive ==
    ASSUME NEW t \in Titles, NEW k \in Keys, NEW a, a = BookKept'[t] - BookKept[t],
           BookPrice[t] # NoRow, BookCame[k] = NoRow,
           a > 0, BookKept[t] + a <= BookPrice[t],
           BookKept' = [BookKept EXCEPT ![t] = BookKept[t] + a],
           BookCame' = [BookCame EXCEPT ![k] = [title |-> t, amount |-> a, here |-> TRUE]],
           BookPrice' = BookPrice
    PROVE  Books!Receive(t, k)
  BY DEF Books!Receive, Books!Given, BookPrice, BookKept, BookCame, Price, Kept, Brought,
         Under, PaidUnder

LEMMA BooksReturn ==
    ASSUME NEW k \in Keys, BookCame[k] # NoRow, BookCame[k].here,
           BookKept' = [BookKept EXCEPT ![BookCame[k].title] =
                           BookKept[BookCame[k].title] - BookCame[k].amount],
           BookCame' = [BookCame EXCEPT ![k] = [BookCame[k] EXCEPT !.here = FALSE]],
           BookPrice' = BookPrice
    PROVE  Books!Return(k)
  BY DEF Books!Return, BookPrice, BookKept, BookCame, Price, Kept, Brought, Under, PaidUnder

\* A payment that is committed is one receipt, under a key that was free.
LEMMA CommitBooks ==
    ASSUME BooksInv, NEW w \in Workers, CommitPayment(w),
           NEW t \in Titles, t = seen[w].id, NEW order \in Orders, order = seen[w].order,
           NEW k \in Keys, k = order.key
    PROVE  BooksInv' /\ Books!Receive(t, k)
<1> DEFINE x == NewPayment
           row == [title |-> t, amount |-> order.amount, key |-> order.key,
                   method |-> order.method, status |-> "CONFIRMED"]
           p == payment'
<1>1. /\ IInv /\ IInv' /\ LedgerTypeOK /\ Receipts /\ TitleTellsPayments
      /\ Table(payment)
  BY CommitKeeps, TableHolds DEF BooksInv
<1>2. /\ t \in Titles /\ order \in Orders /\ title[t] # NoRow /\ title[t] = seen[w].row
      /\ ~Used(order.key) /\ Accepts(title[t], order.amount)
      /\ p = [payment EXCEPT ![x] = row]
      /\ title' = [title EXCEPT ![t] = Refreshed(title[t], p, t)]
      /\ seen' = [seen EXCEPT ![w] = NoRow]
  BY <1>1 DEF IInv, Known, LockedCopyIsFresh, CommitPayment, Paying, Done
<1>3. x \in Payments /\ payment[x] = NoRow
  BY DEF CommitPayment, SparePayments, NewPayment
<1>4. /\ row \in PaymentRows /\ row # NoRow
      /\ row.title = t /\ row.amount = order.amount /\ row.key = order.key
      /\ row.status = "CONFIRMED"
      /\ order.key \in Keys /\ order.amount \in Nat \ {0} /\ order.amount \in PaidAmounts
  BY <1>2, LedgerRowAssumption, AmountAssumption DEF PaymentRows, Orders
<1> HIDE DEF x, row
<1>5. /\ p \in [Payments -> RefTo(PaymentRows)] /\ p[x] = row
      /\ \A y \in Payments : y # x => p[y] = payment[y]
  BY <1>1, <1>2, <1>3, <1>4 DEF LedgerTypeOK, RefTo
<1> HIDE DEF p
<1>6. Rows(p) = Rows(payment) \cup {x}
  BY <1>3, <1>4, <1>5 DEF Rows
<1>7. IsFiniteSet(Rows(p)) /\ Table(p)
  BY <1>1, <1>5, <1>6, FS_AddElement DEF Receipts, Table
<1>8. /\ Confirmed(p, t) = Confirmed(payment, t) \cup {x} /\ x \notin Confirmed(payment, t)
      /\ \A u : u # t => Confirmed(p, u) = Confirmed(payment, u)
      /\ \A u : \A y \in Confirmed(payment, u) : p[y] = payment[y]
  BY <1>3, <1>4, <1>5 DEF Confirmed
<1>9. Paid(p, t) = Paid(payment, t) + order.amount
  BY <1>1, <1>4, <1>5, <1>7, <1>8, PaidMore
<1>10. \A u : u # t => Paid(p, u) = Paid(payment, u)
  BY <1>1, <1>7, <1>8, PaidSame
<1>11. title[t] \in TitleRows
  BY <1>1, <1>2 DEF LedgerTypeOK, RefTo
<1>12. /\ title[t].paid = Paid(payment, t) /\ title[t].paid \in Nat
       /\ title[t].amount \in Nat /\ title[t].amount \in TitleAmounts
       /\ order.amount <= title[t].amount - title[t].paid
  BY <1>1, <1>2, <1>11, AmountAssumption DEF TitleTellsPayments, Accepts, TitleRows
<1>13. Paid(p, t) <= title[t].amount
  BY <1>4, <1>9, <1>12
<1> DEFINE new == Refreshed(title[t], p, t)
<1>14. /\ new \in TitleRows /\ Tells(new, p, t) /\ new.amount = title[t].amount
       /\ new.paid = title[t].paid + order.amount /\ new # NoRow
  BY <1>7, <1>9, <1>11, <1>12, <1>13, RefreshedTells, LedgerRowAssumption
<1>15. title' = [title EXCEPT ![t] = new]
  BY <1>2
<1> HIDE DEF new
<1>16. LedgerTypeOK'
  BY <1>1, <1>2, <1>5, <1>14, <1>15 DEF LedgerTypeOK, RefTo, p
<1>17. Receipts'
  <2>1. \A u \in Titles : title[u] # NoRow => title'[u] # NoRow
    BY <1>1, <1>14, <1>15 DEF LedgerTypeOK
  <2>2. \A y \in Payments : p[y] # NoRow => title'[p[y].title] # NoRow
    <3>1. \A y \in Payments : payment[y] # NoRow =>
              payment[y].title \in Titles /\ title[payment[y].title] # NoRow
      BY <1>1 DEF LedgerTypeOK, Receipts, RefTo, PaymentRows
    <3>. QED BY <1>2, <1>4, <1>5, <2>1, <3>1
  <2>3. \A v \in Workers : seen'[v] # NoRow => seen'[v] = seen[v]
    BY <1>1, <1>2 DEF LedgerTypeOK
  <2>4. \A v \in Workers : seen[v] # NoRow /\ seen[v].id \in Payments =>
            payment[seen[v].id] # NoRow /\ p[seen[v].id] = payment[seen[v].id]
    BY <1>1, <1>3, <1>5 DEF IInv, Known
  <2>5. \A v \in Workers : seen'[v] # NoRow =>
            /\ seen'[v].id \in Payments =>
                  /\ seen'[v].row.title = p[seen'[v].id].title
                  /\ seen'[v].row.method = p[seen'[v].id].method
            /\ seen'[v].id \in Titles => title'[seen'[v].id] # NoRow
    BY <1>1, <2>1, <2>3, <2>4 DEF Receipts
  <2>. QED BY <1>7, <2>2, <2>5 DEF Receipts, p
<1>18. TitleTellsPayments'
  <2> SUFFICES ASSUME NEW u \in Titles, title'[u] # NoRow PROVE Tells(title'[u], p, u)
    BY DEF TitleTellsPayments, Tells, p
  <2>1. CASE u = t
    BY <2>1, <1>1, <1>14, <1>15 DEF LedgerTypeOK
  <2>2. CASE u # t
    <3>1. title'[u] = title[u]
      BY <2>2, <1>1, <1>15 DEF LedgerTypeOK
    <3>2. Tells(title[u], payment, u)
      BY <1>1, <3>1 DEF TitleTellsPayments, Tells
    <3>. QED BY <2>2, <3>1, <3>2, <1>10 DEF Tells
  <2>. QED BY <2>1, <2>2
<1>19. BooksInv'
  BY <1>1, <1>16, <1>17, <1>18 DEF BooksInv
<1>20. Books!Receive(t, k)
  <2> DEFINE a == order.amount
  <2>1. /\ BookPrice[t] = title[t].amount /\ BookPrice[t] # NoRow
        /\ BookKept[t] = title[t].paid /\ BookKept[t] \in Nat
    BY <1>2, <1>12, LedgerRowAssumption DEF BookPrice, BookKept, Price, Kept
  <2>2. \A u \in Titles : /\ Price(title'[u]) = Price(title[u])
                          /\ u # t => Kept(title'[u]) = Kept(title[u])
    BY <1>1, <1>2, <1>14, <1>15 DEF Price, Kept, LedgerTypeOK
  <2>3. Kept(title'[t]) = BookKept[t] + a
    BY <1>1, <1>2, <1>14, <1>15, <2>1 DEF Kept, LedgerTypeOK
  <2>4. BookPrice' = BookPrice
    BY <2>2 DEF BookPrice
  <2>5. BookKept' = [BookKept EXCEPT ![t] = BookKept[t] + a] /\ BookKept'[t] = BookKept[t] + a
    BY <1>2, <2>2, <2>3 DEF BookKept
  <2>6. Under(payment, k) = {} /\ BookCame[k] = NoRow
    BY <1>2, <1>4 DEF Used, Under, BookCame, Brought
  <2>7. Brought(p, k) = [title |-> t, amount |-> a, here |-> TRUE]
    <3>1. \A y \in Payments : p[y] # NoRow /\ p[y].key = p[x].key => y = x
      BY <1>2, <1>3, <1>4, <1>5 DEF Used
    <3>2. Brought(p, p[x].key) = [title |-> p[x].title, amount |-> p[x].amount,
                                  here |-> p[x].status = "CONFIRMED"]
      BY <1>3, <1>4, <1>5, <3>1, BroughtIs
    <3>. QED BY <1>4, <1>5, <3>2
  <2>8. ASSUME NEW l \in Keys, l # k PROVE Brought(p, l) = Brought(payment, l)
    <3>1. Under(p, l) = Under(payment, l) /\ \A y \in Under(payment, l) : p[y] = payment[y]
      BY <1>3, <1>4, <1>5, <2>8 DEF Under
    <3>. QED BY <3>1, BroughtSame
  <2>9. BookCame' = [BookCame EXCEPT ![k] = [title |-> t, amount |-> a, here |-> TRUE]]
    BY <1>4, <2>7, <2>8 DEF BookCame, p
  <2>10. a = BookKept'[t] - BookKept[t] /\ a > 0 /\ BookKept[t] + a <= BookPrice[t]
    BY <1>4, <1>12, <2>1, <2>5
  <2>. QED BY <2>1, <2>4, <2>5, <2>6, <2>9, <2>10, BooksReceive
<1>. QED BY <1>19, <1>20

\* A receipt that is returned
LEMMA Gone ==
    ASSUME NEW t, NEW a, NEW b, b = [title |-> t, amount |-> a, here |-> TRUE]
    PROVE  [b EXCEPT !.here = FALSE] = [title |-> t, amount |-> a, here |-> FALSE]
<1> DEFINE c == [b EXCEPT !.here = FALSE]
<1>1. /\ DOMAIN c = {"title", "amount", "here"}
      /\ c.title = t /\ c.amount = a /\ c.here = FALSE
  OBVIOUS
<1>2. c = [i \in {"title", "amount", "here"} |-> c[i]]
  BY <1>1
<1> HIDE DEF c
<1>3. c = [title |-> t, amount |-> a, here |-> FALSE]
  BY <1>1, <1>2
<1>. QED BY <1>3 DEF c

\* A reversal returns what its payment brought; one that comes after another
\* reversal of the same payment changes nothing that the books see.
LEMMA ReverseBooks ==
    ASSUME BooksInv, NEW w \in Workers, NEW x \in Payments, ReversePayment(w, x)
    PROVE  BooksInv' /\ (Unseen \/ \E k \in Keys : Books!Return(k))
<1>1. PICK t : t = payment[x].title
  OBVIOUS
<1>2. PICK row : row = [payment[x] EXCEPT !.status = "REVERSED"]
  OBVIOUS
<1>3. PICK p : p = payment'
  OBVIOUS
<1>4. /\ IInv /\ IInv' /\ LedgerTypeOK /\ Receipts /\ TitleTellsPayments
      /\ Table(payment)
  BY ReverseKeeps, TableHolds DEF BooksInv
<1>5. /\ seen[w] # NoRow /\ seen[w].id = x /\ payment[x] # NoRow
      /\ seen[w].row.title = payment[x].title
  BY <1>4 DEF IInv, Known, Receipts, ReversePayment, Reads, Idle
<1>6. /\ p = [payment EXCEPT ![x] = row]
      /\ title' = [title EXCEPT ![t] = Refreshed(title[t], p, t)]
      /\ seen' = [seen EXCEPT ![w] = NoRow]
  BY <1>1, <1>2, <1>3, <1>5 DEF ReversePayment, Done
<1>7. payment[x] \in PaymentRows
  BY <1>4, <1>5 DEF LedgerTypeOK, RefTo
<1>8. /\ row \in PaymentRows /\ row # NoRow /\ t \in Titles
      /\ row.title = t /\ row.amount = payment[x].amount /\ row.key = payment[x].key
      /\ row.status = "REVERSED" /\ row.method = payment[x].method
      /\ payment[x].key \in Keys /\ payment[x].amount \in Nat \ {0}
      /\ payment[x].status \in {"CONFIRMED", "REVERSED"}
  BY <1>1, <1>2, <1>7, LedgerRowAssumption, AmountAssumption DEF PaymentRows
<1>9. title[t] # NoRow /\ title[t] \in TitleRows
  BY <1>1, <1>4, <1>5, <1>8 DEF Receipts, LedgerTypeOK, RefTo
<1>10. /\ p \in [Payments -> RefTo(PaymentRows)] /\ p[x] = row
       /\ \A y \in Payments : y # x => p[y] = payment[y]
  BY <1>4, <1>6, <1>8 DEF LedgerTypeOK, RefTo
<1>11. Rows(p) = Rows(payment)
  BY <1>5, <1>8, <1>10 DEF Rows
<1>12. Table(p)
  BY <1>4, <1>10, <1>11 DEF Table
<1>13. /\ \A u : u # t => Confirmed(p, u) = Confirmed(payment, u)
       /\ Confirmed(p, t) = Confirmed(payment, t) \ {x}
       /\ \A u : \A y \in Confirmed(p, u) : p[y].amount = payment[y].amount
       /\ \A u : \A y \in Confirmed(payment, u) : p[y].amount = payment[y].amount
       /\ x \in Confirmed(payment, t) <=> payment[x].status = "CONFIRMED"
  BY <1>1, <1>5, <1>8, <1>10 DEF Confirmed
<1>14. \A u : u # t => Paid(p, u) = Paid(payment, u)
  BY <1>4, <1>12, <1>13, PaidSame
<1>15. Paid(p, t) = IF payment[x].status = "CONFIRMED"
                    THEN Paid(payment, t) - payment[x].amount ELSE Paid(payment, t)
  <2>1. CASE payment[x].status = "CONFIRMED"
    <3>1. x \notin Confirmed(p, t) /\ Confirmed(payment, t) = Confirmed(p, t) \cup {x}
      BY <1>13, <2>1
    <3>3. PICK q : q = payment
      OBVIOUS
    <3>2. Paid(q, t) = Paid(p, t) + q[x].amount
      <4>1. \A y \in Confirmed(p, t) : q[y].amount = p[y].amount
        BY <1>13, <3>3
      <4>2. Confirmed(q, t) = Confirmed(p, t) \cup {x} /\ Table(q)
        BY <1>4, <3>1, <3>3
      <4>. QED BY <1>12, <3>1, <4>1, <4>2, PaidMore
    <3>. QED BY <1>4, <1>8, <1>12, <2>1, <3>2, <3>3, PaidTyped
  <2>2. CASE payment[x].status # "CONFIRMED"
    <3>1. Confirmed(p, t) = Confirmed(payment, t)
      BY <1>13, <2>2
    <3>. QED BY <1>4, <1>12, <1>13, <2>2, <3>1, PaidSame
  <2>. QED BY <2>1, <2>2
<1>16. /\ title[t].paid = Paid(payment, t) /\ title[t].paid <= title[t].amount
       /\ title[t].paid \in Nat /\ title[t].amount \in Nat
  BY <1>4, <1>8, <1>9, AmountAssumption DEF TitleTellsPayments, TitleRows
<1>17. Paid(p, t) <= title[t].amount
  BY <1>8, <1>15, <1>16
<1>18. PICK new : new = Refreshed(title[t], p, t)
  OBVIOUS
<1>19. /\ new \in TitleRows /\ Tells(new, p, t) /\ new.amount = title[t].amount
       /\ new.paid = Paid(p, t) /\ new # NoRow
  BY <1>9, <1>12, <1>17, <1>18, RefreshedTells, LedgerRowAssumption
<1>20. title' = [title EXCEPT ![t] = new]
  BY <1>6, <1>18
<1>21. LedgerTypeOK'
  BY <1>3, <1>4, <1>6, <1>10, <1>19, <1>20 DEF LedgerTypeOK, RefTo
<1>22. Receipts'
  <2>1. \A u \in Titles : title[u] # NoRow => title'[u] # NoRow
    BY <1>4, <1>19, <1>20 DEF LedgerTypeOK
  <2>2. \A y \in Payments : payment[y] # NoRow =>
            payment[y].title \in Titles /\ title[payment[y].title] # NoRow
    BY <1>4 DEF LedgerTypeOK, Receipts, RefTo, PaymentRows
  <2>3. \A y \in Payments : p[y] # NoRow => title'[p[y].title] # NoRow
    BY <1>8, <1>9, <1>10, <2>1, <2>2
  <2>4. \A v \in Workers : seen'[v] # NoRow => seen'[v] = seen[v]
    BY <1>4, <1>6 DEF LedgerTypeOK
  <2>5. \A y \in Payments : p[y].title = payment[y].title /\ p[y].method = payment[y].method
    BY <1>1, <1>8, <1>10
  <2>6. \A v \in Workers : seen'[v] # NoRow =>
            /\ seen'[v].id \in Payments =>
                  /\ seen'[v].row.title = p[seen'[v].id].title
                  /\ seen'[v].row.method = p[seen'[v].id].method
            /\ seen'[v].id \in Titles => title'[seen'[v].id] # NoRow
    BY <1>4, <2>1, <2>4, <2>5 DEF Receipts
  <2>. QED BY <1>3, <1>4, <1>11, <2>3, <2>6 DEF Receipts
<1>23. TitleTellsPayments'
  <2> SUFFICES ASSUME NEW u \in Titles, title'[u] # NoRow PROVE Tells(title'[u], p, u)
    BY <1>3 DEF TitleTellsPayments, Tells
  <2>1. CASE u = t
    BY <2>1, <1>4, <1>19, <1>20 DEF LedgerTypeOK
  <2>2. CASE u # t
    <3>1. title'[u] = title[u]
      BY <2>2, <1>4, <1>20 DEF LedgerTypeOK
    <3>2. Tells(title[u], payment, u)
      BY <1>4, <3>1 DEF TitleTellsPayments, Tells
    <3>. QED BY <2>2, <3>1, <3>2, <1>14 DEF Tells
  <2>. QED BY <2>1, <2>2
<1>24. BooksInv'
  BY <1>4, <1>21, <1>22, <1>23 DEF BooksInv
<1>25. \A u \in Titles : /\ Price(title'[u]) = Price(title[u])
                         /\ u # t => Kept(title'[u]) = Kept(title[u])
  BY <1>4, <1>9, <1>19, <1>20 DEF Price, Kept, LedgerTypeOK
<1>26. BookPrice' = BookPrice
  BY <1>25 DEF BookPrice
<1>27. Kept(title'[t]) = Paid(p, t) /\ Kept(title[t]) = Paid(payment, t)
  BY <1>4, <1>8, <1>9, <1>16, <1>19, <1>20 DEF Kept, LedgerTypeOK
<1>28. CASE payment[x].status # "CONFIRMED"
  <2>1. payment' = payment
    <3>1. row = payment[x]
      BY <1>2, <1>7, <1>8, <1>28 DEF PaymentRows
    <3>. QED BY <1>3, <1>4, <1>6, <3>1 DEF LedgerTypeOK
  <2>2. BookKept' = BookKept
    BY <1>15, <1>25, <1>27, <1>28 DEF BookKept
  <2>3. BookCame' = BookCame
    BY <2>1 DEF BookCame
  <2>. QED BY <1>24, <1>26, <2>2, <2>3 DEF Unseen
<1>29. CASE payment[x].status = "CONFIRMED"
  <2>1. PICK k \in Keys : k = payment[x].key
    BY <1>8
  <2>2. \A y \in Payments : payment[y] # NoRow /\ payment[y].key = payment[x].key => y = x
    BY <1>4, <1>5 DEF IInv, OnePaymentPerKey
  <2>3. BookCame[k] = [title |-> t, amount |-> payment[x].amount, here |-> TRUE]
    <3>1. Brought(payment, payment[x].key) =
            [title |-> payment[x].title, amount |-> payment[x].amount,
             here |-> payment[x].status = "CONFIRMED"]
      BY <1>5, <2>2, BroughtIs
    <3>. QED BY <1>1, <1>29, <2>1, <3>1 DEF BookCame
  <2>4. Brought(p, k) = [title |-> t, amount |-> payment[x].amount, here |-> FALSE]
    <3>1. \A y \in Payments : p[y] # NoRow /\ p[y].key = p[x].key => y = x
      BY <1>8, <1>10, <2>2
    <3>2. Brought(p, p[x].key) = [title |-> p[x].title, amount |-> p[x].amount,
                                  here |-> p[x].status = "CONFIRMED"]
      BY <1>8, <1>10, <3>1, BroughtIs
    <3>. QED BY <1>8, <1>10, <2>1, <3>2
  <2>5. ASSUME NEW l \in Keys, l # k PROVE Brought(p, l) = Brought(payment, l)
    <3>1. Under(p, l) = Under(payment, l) /\ \A y \in Under(p, l) : p[y] = payment[y]
      BY <1>5, <1>8, <1>10, <2>1, <2>5 DEF Under
    <3>. QED BY <3>1, BroughtSame
  <2>6. BookCame' = [BookCame EXCEPT ![k] = [BookCame[k] EXCEPT !.here = FALSE]]
    <3>1. [BookCame[k] EXCEPT !.here = FALSE] =
             [title |-> t, amount |-> payment[x].amount, here |-> FALSE]
      BY <2>3, Gone
    <3>. QED BY <1>3, <2>4, <2>5, <3>1 DEF BookCame
  <2>7. BookCame[k] # NoRow
    <3>1. [title |-> t, amount |-> payment[x].amount, here |-> TRUE]
            \in [title : Titles, amount : PaidAmounts, here : BOOLEAN]
      BY <1>7, <1>8 DEF PaymentRows
    <3>. QED BY <2>3, <3>1, LedgerRowAssumption
  <2>8. BookKept' = [BookKept EXCEPT ![t] = BookKept[t] - payment[x].amount]
    BY <1>8, <1>15, <1>25, <1>27, <1>29 DEF BookKept
  <2>9. BookCame[k].title = t /\ BookCame[k].amount = payment[x].amount /\ BookCame[k].here
    BY <2>3
  <2>10. BookKept' = [BookKept EXCEPT ![BookCame[k].title] =
                         BookKept[BookCame[k].title] - BookCame[k].amount]
    BY <2>8, <2>9
  <2>. QED BY <1>24, <1>26, <2>6, <2>7, <2>9, <2>10, BooksReturn
<1>. QED BY <1>28, <1>29

\* What a transaction reads, or gives up, is not in the books.
LEMMA ReadBooks ==
    ASSUME BooksInv, NEW w \in Workers,
           \/ \E t \in Titles : ReadTitle(w, t)
           \/ \E t \in Titles, order \in Orders : BeginPayment(w, t, order)
           \/ \E x \in Payments : ReadPayment(w, x)
           \/ Abandon(w)
    PROVE  BooksInv' /\ Unseen
<1>1. UNCHANGED <<title, payment>>
  BY DEF ReadTitle, BeginPayment, ReadPayment, Abandon
<1>2. IInv'
  BY ReadKeeps, BeginKeeps DEF BooksInv
<1>3. \E copy \in RefTo(TitleCopies \cup PaymentCopies) :
          /\ seen' = [seen EXCEPT ![w] = copy]
          /\ \/ copy = NoRow
             \/ /\ copy.id \in Payments => copy.row = payment[copy.id]
                /\ copy.id \in Titles => title[copy.id] # NoRow
  <2>1. CASE \E t \in Titles : ReadTitle(w, t)
    <3>1. PICK t \in Titles : ReadTitle(w, t)
      BY <2>1
    <3>2. [id |-> t, row |-> title[t], order |-> NoRow] \in TitleCopies
      BY <3>1 DEF BooksInv, LedgerTypeOK, ReadTitle, TitleCopies, RefTo
    <3>3. PICK copy \in TitleCopies : copy = [id |-> t, row |-> title[t], order |-> NoRow]
      BY <3>2
    <3>4. copy.id = t /\ title[t] # NoRow /\ t \notin Payments /\ seen' = [seen EXCEPT ![w] = copy]
      BY <3>1, <3>3, LedgerRowAssumption DEF ReadTitle
    <3>. QED BY <3>4 DEF RefTo
  <2>2. CASE \E t \in Titles, order \in Orders : BeginPayment(w, t, order)
    <3>1. PICK t \in Titles, order \in Orders : BeginPayment(w, t, order)
      BY <2>2
    <3>2. [id |-> t, row |-> title[t], order |-> order] \in TitleCopies
      BY <3>1 DEF BooksInv, LedgerTypeOK, BeginPayment, TitleCopies, RefTo
    <3>3. PICK copy \in TitleCopies : copy = [id |-> t, row |-> title[t], order |-> order]
      BY <3>2
    <3>4. copy.id = t /\ title[t] # NoRow /\ t \notin Payments /\ seen' = [seen EXCEPT ![w] = copy]
      BY <3>1, <3>3, LedgerRowAssumption DEF BeginPayment
    <3>. QED BY <3>4 DEF RefTo
  <2>3. CASE \E x \in Payments : ReadPayment(w, x)
    <3>1. PICK x \in Payments : ReadPayment(w, x)
      BY <2>3
    <3>2. [id |-> x, row |-> payment[x], order |-> NoRow] \in PaymentCopies
      BY <3>1 DEF BooksInv, LedgerTypeOK, ReadPayment, PaymentCopies, RefTo
    <3>3. PICK copy \in PaymentCopies : copy = [id |-> x, row |-> payment[x], order |-> NoRow]
      BY <3>2
    <3>4. /\ copy.id = x /\ copy.row = payment[x] /\ x \notin Titles
          /\ seen' = [seen EXCEPT ![w] = copy]
      BY <3>1, <3>3, LedgerRowAssumption DEF ReadPayment
    <3>. QED BY <3>4 DEF RefTo
  <2>4. CASE Abandon(w)
    BY <2>4 DEF Abandon, Done, RefTo
  <2>. QED BY <2>1, <2>2, <2>3, <2>4
<1>4. /\ seen' \in [Workers -> RefTo(TitleCopies \cup PaymentCopies)]
      /\ \A v \in Workers : seen'[v] = seen[v] \/ seen'[v] = NoRow
                            \/ /\ seen'[v].id \in Payments => seen'[v].row = payment[seen'[v].id]
                               /\ seen'[v].id \in Titles => title[seen'[v].id] # NoRow
  BY <1>3 DEF BooksInv, LedgerTypeOK
<1>5. BooksInv'
  BY <1>1, <1>2, <1>4, TitlesKept DEF BooksInv, LedgerTypeOK
<1>. QED BY <1>1, <1>5, NothingSeen DEF BooksInv, LedgerTypeOK

\* A cancellation or a decision changes no amount.
LEMMA StatusBooks ==
    ASSUME BooksInv, IInv', payment' = payment,
           seen' \in [Workers -> RefTo(TitleCopies \cup PaymentCopies)],
           \A w \in Workers : seen'[w] \in {seen[w], NoRow},
           title' \in [Titles -> RefTo(TitleRows)],
           \A t \in Titles : \/ title'[t] = title[t]
                             \/ /\ title[t] # NoRow /\ title'[t] # NoRow
                                /\ title'[t].paid = title[t].paid
                                /\ title'[t].amount = title[t].amount
                                /\ title'[t].status \in {title[t].status, "CANCELLED"}
    PROVE  BooksInv' /\ Unseen
<1>1. BooksInv'
  BY TitlesKept
<1>. QED BY <1>1, NothingSeen DEF BooksInv, LedgerTypeOK

LEMMA DecisionBooks ==
    ASSUME BooksInv, NEW w \in Workers, NEW t \in Titles,
           \/ CancelTitle(w, t)
           \/ \E d \in {"APPROVED", "REJECTED"} : DecidePayable(w, t, d)
    PROVE  BooksInv' /\ Unseen
<1>1. title[t] # NoRow /\ title[t] \in TitleRows
  BY DEF CancelTitle, DecidePayable, Reads, Idle, BooksInv, Receipts, LedgerTypeOK, RefTo
<1>2. PICK new \in TitleRows :
          /\ title' = [title EXCEPT ![t] = new]
          /\ new.paid = title[t].paid /\ new.amount = title[t].amount
          /\ new.status \in {title[t].status, "CANCELLED"}
  <2>1. CASE CancelTitle(w, t)
    <3>1. [title[t] EXCEPT !.status = "CANCELLED"] \in TitleRows
      BY <1>1 DEF TitleRows
    <3>2. title' = [title EXCEPT ![t] = [title[t] EXCEPT !.status = "CANCELLED"]]
      BY <2>1 DEF CancelTitle
    <3>. QED BY <1>1, <3>1, <3>2 DEF TitleRows
  <2>2. ASSUME NEW d \in {"APPROVED", "REJECTED"}, DecidePayable(w, t, d)
        PROVE  /\ title' = [title EXCEPT ![t] = [title[t] EXCEPT !.approval = d]]
               /\ [title[t] EXCEPT !.approval = d] \in TitleRows
    BY <1>1, <2>2 DEF DecidePayable, TitleRows, RefTo, Approvals
  <2>3. CASE \E d \in {"APPROVED", "REJECTED"} : DecidePayable(w, t, d)
    BY <1>1, <2>2, <2>3 DEF TitleRows
  <2>. QED BY <2>1, <2>3
<1>3. payment' = payment /\ seen' = [seen EXCEPT ![w] = NoRow] /\ ~Locked(t)
  BY DEF CancelTitle, DecidePayable, Done
<1>4. IInv'
  BY <1>2, <1>3, TitleKeeps DEF BooksInv, IInv, Tables
<1>5. /\ title' \in [Titles -> RefTo(TitleRows)]
      /\ seen' \in [Workers -> RefTo(TitleCopies \cup PaymentCopies)]
      /\ \A v \in Workers : seen'[v] \in {seen[v], NoRow}
  BY <1>2, <1>3 DEF BooksInv, LedgerTypeOK, RefTo
<1>6. \A u \in Titles : \/ title'[u] = title[u]
                        \/ /\ title[u] # NoRow /\ title'[u] # NoRow
                           /\ title'[u].paid = title[u].paid
                           /\ title'[u].amount = title[u].amount
                           /\ title'[u].status \in {title[u].status, "CANCELLED"}
  BY <1>1, <1>2, LedgerRowAssumption DEF BooksInv, LedgerTypeOK
<1>. QED BY <1>3, <1>4, <1>5, <1>6, StatusBooks

LEMMA InstallmentBooks ==
    ASSUME BooksInv, NEW S \in SUBSET Titles, CancelInstallments(S)
    PROVE  BooksInv' /\ Unseen
<1>1. \A t \in S : /\ title[t] \in TitleRows /\ title[t] # NoRow
                   /\ [title[t] EXCEPT !.status = "CANCELLED"] \in TitleRows
  <2>1. \A t \in S : title[t] \in TitleRows /\ title[t] # NoRow
    BY DEF CancelInstallments, BooksInv, LedgerTypeOK, RefTo
  <2>. QED BY <2>1 DEF TitleRows
<1>2. IInv'
  BY TitleKeeps DEF CancelInstallments, BooksInv, IInv, Tables
<1>3. title' = [t \in Titles |->
                   IF t \in S THEN [title[t] EXCEPT !.status = "CANCELLED"] ELSE title[t]]
  BY DEF CancelInstallments
<1>4. title' \in [Titles -> RefTo(TitleRows)]
  BY <1>1, <1>3 DEF BooksInv, LedgerTypeOK, RefTo
<1>5. \A t \in Titles : \/ title'[t] = title[t]
                        \/ /\ title[t] # NoRow /\ title'[t] # NoRow
                           /\ title'[t].paid = title[t].paid
                           /\ title'[t].amount = title[t].amount
                           /\ title'[t].status = "CANCELLED"
  <2> SUFFICES ASSUME NEW t \in S
               PROVE  /\ title[t] # NoRow /\ title'[t] # NoRow
                      /\ title'[t].paid = title[t].paid
                      /\ title'[t].amount = title[t].amount
                      /\ title'[t].status = "CANCELLED"
    BY <1>3
  <2>1. title'[t] = [title[t] EXCEPT !.status = "CANCELLED"]
    BY <1>3
  <2>. QED BY <1>1, <2>1, LedgerRowAssumption DEF TitleRows
<1>. QED BY <1>2, <1>4, <1>5, StatusBooks DEF CancelInstallments, BooksInv, LedgerTypeOK

\* A new title opens in the books, unpaid.
LEMMA CreateBooks ==
    ASSUME BooksInv, NEW t \in Titles, NEW side \in {"receivable", "payable"},
           NEW amount \in TitleAmounts, NEW approval \in RefTo(Approvals),
           CreateTitle(t, side, amount, approval)
    PROVE  BooksInv' /\ Books!Open(t)
<1>1. PICK new : new = OpenTitle(side, amount, approval)
  OBVIOUS
<1>2. /\ title[t] = NoRow /\ title' = [title EXCEPT ![t] = new]
      /\ payment' = payment /\ seen' = seen
  BY <1>1 DEF CreateTitle
<1>3. /\ new \in TitleRows /\ new.paid = 0 /\ new.amount = amount /\ new.status = "OPEN"
      /\ amount \in Nat \ {0} /\ new # NoRow
  BY <1>1, AmountAssumption, LedgerRowAssumption DEF OpenTitle, TitleRows
<1>4. IInv'
  BY <1>2, TitleKeeps DEF BooksInv, IInv, Tables
<1>5. title' \in [Titles -> RefTo(TitleRows)] /\ title'[t] = new
      /\ \A u \in Titles : u # t => title'[u] = title[u]
  BY <1>2, <1>3 DEF BooksInv, LedgerTypeOK, RefTo
<1>6. BooksInv'
  BY <1>2, <1>3, <1>4, <1>5, TitlesKept DEF BooksInv, LedgerTypeOK
<1>7. BookPrice[t] = NoRow /\ BookPrice'[t] = amount
  BY <1>2, <1>3, <1>5 DEF BookPrice, Price
<1>8. /\ \A u \in Titles : u # t => Price(title'[u]) = Price(title[u])
      /\ \A u \in Titles : Kept(title'[u]) = Kept(title[u])
  BY <1>2, <1>3, <1>5 DEF Price, Kept
<1>9. BookPrice' = [BookPrice EXCEPT ![t] = BookPrice'[t]]
  BY <1>8 DEF BookPrice
<1>10. BookKept' = BookKept /\ BookCame' = BookCame
  BY <1>2, <1>8 DEF BookKept, BookCame
<1>. QED BY <1>3, <1>6, <1>7, <1>9, <1>10, BooksOpen

\* Every step of the ledger is a step of the books, or one that they do not see.
LEMMA StepBooks ==
    ASSUME BooksInv, [LedgerStep]_ledgerVars
    PROVE  BooksInv' /\ [Books!Next]_<<BookPrice, BookKept, BookCame>>
<1>1. ASSUME NEW w \in Workers, WorkerStep(w)
      PROVE  BooksInv' /\ (Unseen \/ Books!Next)
  <2>1. CASE CommitPayment(w)
    <3>1. seen[w].id \in Titles /\ seen[w].order \in Orders
      BY <2>1 DEF CommitPayment, Paying, BooksInv, IInv, Known
    <3>2. PICK t \in Titles, order \in Orders : t = seen[w].id /\ order = seen[w].order
      BY <3>1
    <3>3. PICK k \in Keys : k = order.key
      BY DEF Orders
    <3>4. BooksInv' /\ Books!Receive(t, k)
      BY <2>1, <3>2, <3>3, CommitBooks
    <3>. QED BY <3>4 DEF Books!Next
  <2>2. ASSUME NEW x \in Payments, ReversePayment(w, x)
        PROVE  BooksInv' /\ (Unseen \/ Books!Next)
    BY <2>2, ReverseBooks DEF Books!Next
  <2>. QED BY <1>1, <2>1, <2>2, ReadBooks, DecisionBooks DEF WorkerStep
<1>2. ASSUME NEW w \in Workers, NEW t \in Titles, NEW order \in Orders,
             BeginPayment(w, t, order)
      PROVE  BooksInv' /\ Unseen
  BY <1>2, ReadBooks
<1>3. CASE Office
  <2>1. ASSUME NEW t \in Titles, NEW side \in {"receivable", "payable"},
               NEW amount \in TitleAmounts, NEW approval \in RefTo(Approvals),
               CreateTitle(t, side, amount, approval)
        PROVE  BooksInv' /\ Books!Next
    BY <2>1, CreateBooks DEF Books!Next
  <2>. QED BY <1>3, <2>1, InstallmentBooks DEF Office, Unseen
<1>4. CASE UNCHANGED ledgerVars
  <2>1. IInv' /\ LedgerTypeOK' /\ Receipts' /\ TitleTellsPayments'
    BY <1>4, StepLedger
    DEF ledgerVars, BooksInv, LedgerTypeOK, Receipts, TitleTellsPayments
  <2>. QED BY <1>4, <2>1 DEF ledgerVars, BooksInv, BookPrice, BookKept, BookCame
<1>. QED BY <1>1, <1>2, <1>3, <1>4 DEF LedgerStep, Unseen

\* A commit writes one row, which says what the transaction meant to pay.
LEMMA RowWritten ==
    ASSUME BooksInv, NEW w \in Workers, CommitPayment(w)
    PROVE  \E x \in Payments :
              /\ payment[x] = NoRow /\ payment'[x] # NoRow
              /\ payment'[x].title = seen[w].id /\ payment'[x].amount = seen[w].order.amount
              /\ payment'[x].key = seen[w].order.key
              /\ payment'[x].method = seen[w].order.method
              /\ payment'[x].status = "CONFIRMED"
              /\ \A y \in Payments : y # x => payment'[y] = payment[y]
<1>1. NewPayment \in Payments /\ payment[NewPayment] = NoRow
  BY DEF CommitPayment, SparePayments, NewPayment
<1>2. PICK row : row = [title |-> seen[w].id, amount |-> seen[w].order.amount,
                        key |-> seen[w].order.key, method |-> seen[w].order.method,
                        status |-> "CONFIRMED"]
  OBVIOUS
<1>3. row \in PaymentRows /\ row # NoRow
  BY <1>2, LedgerRowAssumption DEF CommitPayment, Paying, BooksInv, IInv, Known, PaymentRows, Orders
<1>4. payment' = [payment EXCEPT ![NewPayment] = row]
  BY <1>2 DEF CommitPayment
<1>. QED BY <1>1, <1>2, <1>3, <1>4 DEF BooksInv, LedgerTypeOK

\* The rows of the payments are the same, whatever became of their statuses.
RowsKept ==
    \A x \in Payments :
        /\ payment'[x] = NoRow <=> payment[x] = NoRow
        /\ payment[x] # NoRow => /\ payment'[x].title = payment[x].title
                                 /\ payment'[x].amount = payment[x].amount
                                 /\ payment'[x].key = payment[x].key
                                 /\ payment'[x].method = payment[x].method

\* Only a commit writes a row.
LEMMA RowsStay ==
    ASSUME BooksInv,
           \/ \E w \in Workers : \/ WorkerStep(w) /\ ~CommitPayment(w)
                                 \/ \E t \in Titles, order \in Orders : BeginPayment(w, t, order)
           \/ Office
           \/ UNCHANGED ledgerVars
    PROVE  RowsKept
<1>1. CASE payment' = payment
  BY <1>1 DEF RowsKept
<1>2. ASSUME NEW w \in Workers, NEW x \in Payments, ReversePayment(w, x) PROVE RowsKept
  <2>1. payment' = [payment EXCEPT ![x].status = "REVERSED"]
    BY <1>2 DEF ReversePayment
  <2>2. payment[x] # NoRow /\ payment[x] \in PaymentRows
    BY <1>2 DEF ReversePayment, Reads, Idle, BooksInv, IInv, Known, LedgerTypeOK, RefTo
  <2>3. PICK row : row = [payment[x] EXCEPT !.status = "REVERSED"]
    OBVIOUS
  <2>4. /\ row \in PaymentRows /\ row # NoRow
        /\ row.title = payment[x].title /\ row.amount = payment[x].amount
        /\ row.key = payment[x].key /\ row.method = payment[x].method
    BY <2>2, <2>3, LedgerRowAssumption DEF PaymentRows
  <2>5. payment' = [payment EXCEPT ![x] = row]
    BY <2>1, <2>3
  <2>. QED BY <2>2, <2>4, <2>5 DEF RowsKept, BooksInv, LedgerTypeOK
<1>3. \/ payment' = payment
      \/ \E w \in Workers, x \in Payments : ReversePayment(w, x)
  BY DEF WorkerStep, Office, ReadTitle, ReadPayment, CancelTitle, DecidePayable, Abandon,
         BeginPayment, CreateTitle, CancelInstallments, ledgerVars
<1>. QED BY <1>1, <1>2, <1>3

\* The empty database is an empty book.
LEMMA InitBooks == Init => BooksInv /\ Books!Init
<1> SUFFICES ASSUME Init PROVE BooksInv /\ Books!Init
  OBVIOUS
<1>1. IInv
  BY InitLedger
<1>2. LedgerTypeOK /\ TitleTellsPayments
  BY DEF Init, LedgerTypeOK, TitleTellsPayments, RefTo
<1>3. Rows(payment) = {}
  BY DEF Init, Rows
<1>4. Receipts
  BY <1>3, FS_EmptySet DEF Init, Receipts
<1>5. Books!Init
  BY DEF Init, Books!Init, PaidUnder
<1>. QED BY <1>1, <1>2, <1>4, <1>5 DEF BooksInv

\* The variables of Account, as KeepsTheBooks reads them from the rows
AccountVars ==
    <<[t \in Titles |-> IF title[t] = NoRow THEN NoRow ELSE title[t].amount],
      [t \in Titles |-> IF title[t] = NoRow THEN 0 ELSE title[t].paid],
      [k \in Keys |->
          IF PaidUnder(k) = {} THEN NoRow
          ELSE LET x == CHOOSE x \in PaidUnder(k) : TRUE
               IN  [title |-> payment[x].title, amount |-> payment[x].amount,
                    here |-> payment[x].status = "CONFIRMED"]]>>

LEMMA StepAccount ==
    ASSUME BooksInv, [LedgerStep]_ledgerVars
    PROVE  BooksInv' /\ [Books!Next]_AccountVars
<1>1. AccountVars = <<BookPrice, BookKept, BookCame>>
  BY DEF AccountVars, BookPrice, BookKept, BookCame, Price, Kept, Brought, Under, PaidUnder
<1>2. AccountVars' = <<BookPrice, BookKept, BookCame>>'
  BY DEF AccountVars, BookPrice, BookKept, BookCame, Price, Kept, Brought, Under, PaidUnder
<1>. QED BY <1>1, <1>2, StepBooks

LEMMA NextIsLedgerStep == Next => LedgerStep
  BY DEF Next, LedgerStep, Begin

-----------------------------------------------------------------------------
(* Theorems *)

\* The row lock and the check of the key after it (ledger.service.ts:27-31):
\* a transaction that pays has the only, fresh copy of its title, and a key
\* pays once, though its payment be reversed and the request repeated.
THEOREM LockAndKey == Spec => [](LockedCopyIsFresh /\ OnePaymentPerKey)
<1>1. IInv => LockedCopyIsFresh /\ OnePaymentPerKey
  BY DEF IInv
<1>. QED BY InitLedger, StepLedger, NextIsLedgerStep, <1>1, PTL DEF Spec

\* A value never passes the balance (ledger.service.ts:32): whichever payments,
\* cancellations and decisions race, a payment is written to a title that can
\* take it at that moment.
THEOREM PaysWithinBalance == Spec => PaidWithinBalance
  BY InitLedger, StepLedger, StepFits, NextIsLedgerStep, PTL DEF Spec, PaidWithinBalance

\* Every row keeps the columns of the schema, and a title says of its payments
\* what they add up to, never more than it is worth (ledger.service.ts:27-32):
\* refreshTitle() under the lock never loses a payment or a reversal.
THEOREM TitlesTellPayments == Spec => [](LedgerTypeOK /\ TitleTellsPayments)
<1>1. BooksInv => LedgerTypeOK /\ TitleTellsPayments
  BY DEF BooksInv
<1>. QED BY InitBooks, StepBooks, NextIsLedgerStep, <1>1, PTL DEF Spec

\* Ledger implements Account: a key brings its amount once, to one title, which
\* keeps no more than it is worth, and what was reversed twice left once.
THEOREM LedgerKeepsTheBooks == Spec => KeepsTheBooks
  BY InitBooks, StepAccount, NextIsLedgerStep, PTL
  DEF Spec, KeepsTheBooks, Books!Spec, AccountVars
=============================================================================
