-------------------------------- MODULE Ledger -------------------------------
(***************************************************************************)
(* The finance ledger: titles (receivables and payables) and payments, as  *)
(* LedgerService and FinanceService change them.                           *)
(*                                                                         *)
(* A payment takes the row lock of its title, reads the title under the    *)
(* lock and writes; the other handlers read without a lock and write by    *)
(* primary key, and only that UPDATE waits for the lock.  The model gives  *)
(* each handler two points, a read and a write that commits.  A            *)
(* transaction holds the lock of a title while it is between the two       *)
(* points of a payment.                                                    *)
(***************************************************************************)
EXTENDS Integers, FiniteSets, FiniteSetsExt

CONSTANTS Titles,       \* receivables and payables rows
          Payments,     \* payments rows
          Keys,         \* idempotency keys of one organisation
          Workers,      \* transactions that may be in flight at once
          TitleAmounts, \* what a title may be worth, in cents
          PaidAmounts,  \* what a client may pay at once, in cents
          NoRow         \* SQL NULL, and the absence of a row

ASSUME AmountAssumption == TitleAmounts \cup PaidAmounts \subseteq Nat \ {0}

VARIABLES title,    \* receivables and payables
          payment,  \* payments: never deleted
          seen      \* what each transaction in flight has read and means to pay

ledgerVars == <<title, payment, seen>>

Approvals == {"PENDING_APPROVAL", "APPROVED", "REJECTED"}

RefTo(S) == S \cup {NoRow}

\* A receivable needs no approval.
TitleRows == [side : {"receivable", "payable"}, amount : TitleAmounts, paid : Nat,
              status : {"OPEN", "PARTIAL", "PAID", "CANCELLED"}, approval : RefTo(Approvals)]
PaymentRows == [title : Titles, amount : PaidAmounts, key : Keys,
                method : {"PIX", "DEPOSIT_OFFSET"}, status : {"CONFIRMED", "REVERSED"}]
Orders == [amount : PaidAmounts, key : Keys, method : {"PIX", "DEPOSIT_OFFSET"}]
TitleCopies == [id : Titles, row : TitleRows, order : RefTo(Orders)]
PaymentCopies == [id : Payments, row : PaymentRows, order : {NoRow}]

ASSUME LedgerRowAssumption ==
    /\ NoRow \notin Titles \cup Payments \cup Keys \cup Approvals
    /\ NoRow \notin TitleRows \cup PaymentRows \cup Orders \cup TitleCopies \cup PaymentCopies
    /\ Titles \cap Payments = {}
    /\ NoRow \notin Nat \cup [title : Titles, amount : PaidAmounts, here : BOOLEAN]

-----------------------------------------------------------------------------
(* Rows *)

\* Mutant of OpenTitle: paidAmount without its default.
OpenTitleUnset(side, amount, approval) ==
    [side |-> side, amount |-> amount, paid |-> NoRow, status |-> "OPEN", approval |-> approval]

OpenTitle(side, amount, approval) ==
    [side |-> side, amount |-> amount, paid |-> 0, status |-> "OPEN", approval |-> approval]

Confirmed(p, t) ==
    {x \in Payments : p[x] # NoRow /\ p[x].title = t /\ p[x].status = "CONFIRMED"}

\* What refreshTitle() adds up.
Paid(p, t) == MapThenSumSet(LAMBDA x : p[x].amount, Confirmed(p, t))

TitleStatus(amount, paid, cancelled) ==
    CASE cancelled -> "CANCELLED"
      [] ~cancelled /\ paid <= 0 -> "OPEN"
      [] ~cancelled /\ paid > 0 /\ paid >= amount -> "PAID"
      [] OTHER -> "PARTIAL"

\* Mutant of Refreshed: the status follows the amount paid before.
RefreshedLate(row, p, t) ==
    [row EXCEPT !.paid = Paid(p, t),
                !.status = TitleStatus(row.amount, row.paid, row.status = "CANCELLED")]

\* refreshTitle(): the paid amount and the status follow from payments p.
Refreshed(row, p, t) ==
    [row EXCEPT !.paid = Paid(p, t),
                !.status = TitleStatus(row.amount, Paid(p, t), row.status = "CANCELLED")]

\* Mutant of Used: a reversed payment gives its key back.
UsedNow(k) == \E x \in Payments : payment[x] # NoRow /\ payment[x].key = k
                                  /\ payment[x].status = "CONFIRMED"

\* The key belongs to a payment: found before paying, and a unique index after.
Used(k) == \E x \in Payments : payment[x] # NoRow /\ payment[x].key = k

SparePayments == {x \in Payments : payment[x] = NoRow}
NewPayment == CHOOSE x \in Payments : payment[x] = NoRow

-----------------------------------------------------------------------------
(* Transactions *)

Idle(w) == seen[w] = NoRow
Done(w) == seen' = [seen EXCEPT ![w] = NoRow]
Paying(w) == seen[w] # NoRow /\ seen[w].order # NoRow

\* Mutant of Locked: the SELECT without FOR UPDATE.
LockedNever(t) == FALSE

\* SELECT ... FOR UPDATE: another transaction has the row until it ends.
Locked(t) == \E w \in Workers : Paying(w) /\ seen[w].id = t

\* The unlocked reads of cancelReceivable, cancelPayable and decidePayable.
ReadTitle(w, t) ==
    /\ Idle(w) /\ title[t] # NoRow
    /\ seen' = [seen EXCEPT ![w] = [id |-> t, row |-> title[t], order |-> NoRow]]
    /\ UNCHANGED <<title, payment>>

\* The unlocked reads of reversePayment and reverse.
ReadPayment(w, x) ==
    /\ Idle(w) /\ payment[x] # NoRow
    /\ seen' = [seen EXCEPT ![w] = [id |-> x, row |-> payment[x], order |-> NoRow]]
    /\ UNCHANGED <<title, payment>>

Reads(w, x) == ~Idle(w) /\ ~Paying(w) /\ seen[w].id = x

\* A refusal, a timeout or a lost connection: rollback.
Abandon(w) ==
    /\ ~Idle(w)
    /\ Done(w)
    /\ UNCHANGED <<title, payment>>

-----------------------------------------------------------------------------
(* Titles *)

\* createReceivable(), createPayable() and the modules that charge: a work
\* order and a purchase create payables that are already approved.
CreateTitle(t, side, amount, approval) ==
    /\ title[t] = NoRow
    /\ side = "receivable" <=> approval = NoRow
    /\ approval # "REJECTED"
    /\ title' = [title EXCEPT ![t] = OpenTitle(side, amount, approval)]
    /\ UNCHANGED <<payment, seen>>

\* What a cancellation checks of the title it read.
Untouched(row) == row.status # "CANCELLED" /\ row.paid = 0

\* cancelReceivable() and cancelPayable()
CancelTitle(w, t) ==
    /\ Reads(w, t)
    /\ Untouched(seen[w].row)
    /\ ~Locked(t)
    /\ title' = [title EXCEPT ![t].status = "CANCELLED"]
    /\ Done(w)
    /\ UNCHANGED payment

\* decidePayable()
DecidePayable(w, t, decision) ==
    /\ Reads(w, t)
    /\ decision \in {"APPROVED", "REJECTED"}
    /\ seen[w].row.approval = "PENDING_APPROVAL"
    /\ seen[w].row.status # "CANCELLED"
    /\ ~Locked(t)
    /\ title' = [title EXCEPT ![t].approval = decision]
    /\ Done(w)
    /\ UNCHANGED payment

\* The end of a long-term contract cancels the instalments of S to come, in
\* one UPDATE whose condition is read again once each lock is granted.
CancelInstallments(S) ==
    /\ S # {}
    /\ \A t \in S : /\ title[t] # NoRow /\ title[t].side = "receivable"
                    /\ title[t].status = "OPEN" /\ title[t].paid = 0
                    /\ ~Locked(t)
    /\ title' = [t \in Titles |->
                   IF t \in S THEN [title[t] EXCEPT !.status = "CANCELLED"] ELSE title[t]]
    /\ UNCHANGED <<payment, seen>>

-----------------------------------------------------------------------------
(* Payments *)

\* applyPayment(), the lock and the reads after it.  A key already used by the
\* same payment answers with it and writes nothing; used by another, it fails.
BeginPayment(w, t, order) ==
    /\ Idle(w)
    /\ title[t] # NoRow
    /\ ~Locked(t)
    /\ ~Used(order.key)
    /\ seen' = [seen EXCEPT ![w] = [id |-> t, row |-> title[t], order |-> order]]
    /\ UNCHANGED <<title, payment>>

\* A title is paid up to its balance, and a payable once approved.
Accepts(row, amount) ==
    /\ row.status # "CANCELLED"
    /\ row.side = "payable" => row.approval = "APPROVED"
    /\ amount <= row.amount - row.paid

\* applyPayment(), the writes: the payment, then the title from its payments.
CommitPayment(w) ==
    /\ Paying(w)
    /\ LET t == seen[w].id
           order == seen[w].order
       IN  /\ Accepts(seen[w].row, order.amount)
           /\ ~Used(order.key) /\ SparePayments # {}
           /\ payment' = [payment EXCEPT ![NewPayment] =
                            [title |-> t, amount |-> order.amount, key |-> order.key,
                             method |-> order.method, status |-> "CONFIRMED"]]
           /\ title' = [title EXCEPT ![t] = Refreshed(title[t], payment', t)]
    /\ Done(w)

\* reversePayment() and reverse(): the status that was read is not read again
\* under the lock.  An offset from a deposit is not reversed here.
ReversePayment(w, x) ==
    /\ Reads(w, x)
    /\ LET t == seen[w].row.title IN
          /\ seen[w].row.status = "CONFIRMED"
          /\ seen[w].row.method # "DEPOSIT_OFFSET"
          /\ ~Locked(t)
          /\ payment' = [payment EXCEPT ![x].status = "REVERSED"]
          /\ title' = [title EXCEPT ![t] = Refreshed(title[t], payment', t)]
    /\ Done(w)

-----------------------------------------------------------------------------
Init ==
    /\ title = [t \in Titles |-> NoRow]
    /\ payment = [x \in Payments |-> NoRow]
    /\ seen = [w \in Workers |-> NoRow]

WorkerStep(w) ==
    \/ \E t \in Titles :
          \/ ReadTitle(w, t)
          \/ CancelTitle(w, t)
          \/ \E d \in {"APPROVED", "REJECTED"} : DecidePayable(w, t, d)
    \/ \E x \in Payments : ReadPayment(w, x) \/ ReversePayment(w, x)
    \/ CommitPayment(w)
    \/ Abandon(w)

\* A payment is begun by a clerk, by the approval of a deduction from a
\* deposit, of a receivable, or by a provider: the key and the method differ.
Begin(w, K) ==
    \E t \in Titles, order \in Orders :
        /\ order.key \in K
        /\ BeginPayment(w, t, order)
        /\ order.method = "DEPOSIT_OFFSET" => title[t].side = "receivable"

Office ==
    \/ \E t \in Titles, side \in {"receivable", "payable"}, amount \in TitleAmounts,
          approval \in RefTo(Approvals) : CreateTitle(t, side, amount, approval)
    \/ \E S \in SUBSET Titles : CancelInstallments(S)

Next ==
    \/ \E w \in Workers : WorkerStep(w) \/ Begin(w, Keys)
    \/ Office

Spec == Init /\ [][Next]_ledgerVars

-----------------------------------------------------------------------------
(* What the ledger promises: Account, read from the rows *)

PaidUnder(k) == {x \in Payments : payment[x] # NoRow /\ payment[x].key = k}

Books == INSTANCE Account WITH
    Bills     <- Titles,
    Receipts  <- Keys,
    Unwritten <- NoRow,
    price     <- [t \in Titles |-> IF title[t] = NoRow THEN NoRow ELSE title[t].amount],
    kept      <- [t \in Titles |-> IF title[t] = NoRow THEN 0 ELSE title[t].paid],
    came      <- [k \in Keys |->
                    IF PaidUnder(k) = {} THEN NoRow
                    ELSE LET x == CHOOSE x \in PaidUnder(k) : TRUE
                         IN  [title |-> payment[x].title, amount |-> payment[x].amount,
                              here |-> payment[x].status = "CONFIRMED"]]

-----------------------------------------------------------------------------
(* Properties *)

\* Every row has the columns and the enums of the schema.
LedgerTypeOK ==
    /\ title \in [Titles -> RefTo(TitleRows)]
    /\ payment \in [Payments -> RefTo(PaymentRows)]
    /\ seen \in [Workers -> RefTo(TitleCopies \cup PaymentCopies)]

\* What a title says it was paid is the sum of its confirmed payments, never
\* more than it is worth, and its status says the same (ledger.service.ts:27-32):
\* concurrent payments and reversals of one title are never lost.
TitleTellsPayments ==
    \A t \in Titles : title[t] # NoRow =>
        LET row == title[t] IN
        /\ row.paid = Paid(payment, t)
        /\ row.paid <= row.amount
        /\ row.status \in {"CANCELLED", TitleStatus(row.amount, row.paid, FALSE)}

\* A title is cancelled only without a confirmed payment
\* (finance.service.ts:108): what was received stays on a live title.
CancelledIsUnpaid ==
    \A t \in Titles :
        title[t] # NoRow /\ title[t].status = "CANCELLED" => Confirmed(payment, t) = {}

\* Clerks, deposits and providers that pay, retry and reverse at the same time
\* keep the books of Account: a key brings its amount once, to one title, and
\* no more is ever kept than the title is worth (ledger.service.ts:24-33).
KeepsTheBooks == Books!Spec

\* A payment is only ever written to a title that can take it then, though
\* what it checked was read before (ledger.service.ts:27-28,32).
PaidWithinBalance ==
    [][\A x \in Payments :
          payment[x] = NoRow /\ payment'[x] # NoRow =>
              Accepts(title[payment'[x].title], payment'[x].amount)]_ledgerVars

\* Why that holds: a transaction that means to pay a title has a fresh copy of
\* it, and no other one means to pay the same title.
LockedCopyIsFresh ==
    \A w \in Workers : Paying(w) =>
        /\ seen[w].row = title[seen[w].id]
        /\ \A v \in Workers : Paying(v) /\ seen[v].id = seen[w].id => v = w
=============================================================================
