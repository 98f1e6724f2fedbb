------------------------------ MODULE Deposits -------------------------------
(***************************************************************************)
(* Security deposits on top of the ledger, as DepositsService changes      *)
(* them.  The money of a deposit is kept in entries of its own; a          *)
(* deduction becomes revenue only when its approval pays a title, by a     *)
(* payment DEPOSIT_OFFSET of the ledger in the same transaction.           *)
(*                                                                         *)
(* Receipts, requests and decisions take the row lock of the deposit.  A   *)
(* decision reads its entry before the lock, and may wait for the lock of  *)
(* a title while it has that of the deposit.  The end of the contract      *)
(* derives the status of the deposit without any lock; only its UPDATE     *)
(* waits.                                                                  *)
(***************************************************************************)
EXTENDS Ledger

CONSTANTS SecurityDeposits,  \* security_deposits rows, one for each contract
          Entries            \* deposit_entries rows, named by their idempotency keys

\* deposit-offset:<entry> is the key of the payment that an entry makes.
ASSUME EntryAssumption == Entries \subseteq Keys

VARIABLES deposit,   \* security_deposits: the status, and if the contract has ended
          entry,     \* deposit_entries
          decision,  \* what each decision in flight has read
          ending     \* what the end of each contract in flight has derived

depositVars == <<deposit, entry, decision, ending>>
vars == <<title, payment, seen, deposit, entry, decision, ending>>

DepositStatuses == {"PENDING", "HELD", "PARTIALLY_USED", "REFUND_PENDING", "REFUNDED", "CLOSED"}

EntryRows == [deposit : SecurityDeposits, type : {"RECEIPT", "DEDUCTION", "REFUND"},
              amount : PaidAmounts, title : RefTo(Titles), status : Approvals]
DepositRows == [status : DepositStatuses, over : BOOLEAN]
DecisionCopies == [entry : Entries, row : EntryRows]
Derivations == [was : DepositStatuses, status : DepositStatuses]

ASSUME DepositRowAssumption ==
    NoRow \notin EntryRows \cup DepositRows \cup DecisionCopies \cup Derivations

-----------------------------------------------------------------------------
(* The balance of a deposit *)

Sum(t, d, type, status) ==
    MapThenSumSet(LAMBDA e : t[e].amount,
                  {e \in Entries : /\ t[e] # NoRow /\ t[e].deposit = d
                                   /\ t[e].type = type /\ t[e].status = status})

\* balanceOf()
Received(t, d) == Sum(t, d, "RECEIPT", "APPROVED")
Spent(t, d) == Sum(t, d, "DEDUCTION", "APPROVED")
Refunded(t, d) == Sum(t, d, "REFUND", "APPROVED")
Available(t, d) == Received(t, d) - Spent(t, d) - Refunded(t, d)
Pending(t, d) ==
    Sum(t, d, "DEDUCTION", "PENDING_APPROVAL") + Sum(t, d, "REFUND", "PENDING_APPROVAL")

\* recompute(): the status follows from entries t and the end of the contract.
StatusFor(t, d, over) ==
    CASE Received(t, d) = 0 -> IF over THEN "CLOSED" ELSE "PENDING"
      [] Received(t, d) # 0 /\ Available(t, d) > 0 ->
            IF over THEN "REFUND_PENDING"
            ELSE IF Spent(t, d) > 0 THEN "PARTIALLY_USED" ELSE "HELD"
      [] OTHER -> IF Refunded(t, d) > 0 THEN "REFUNDED" ELSE "CLOSED"

\* Mutant of Recomputed: the entries are read before they are written.
RecomputedBefore(d, t) == [deposit EXCEPT ![d].status = StatusFor(entry, d, deposit[d].over)]

\* The deposits once entries t are written to deposit d
Recomputed(d, t) == [deposit EXCEPT ![d].status = StatusFor(t, d, deposit[d].over)]

-----------------------------------------------------------------------------
(* Transactions *)

\* SELECT ... FOR UPDATE: a decision that is paying a title has the deposit.
DepositLocked(d) ==
    \E w \in Workers : Paying(w) /\ decision[w] # NoRow /\ decision[w].row.deposit = d

NewEntry(e, d, type, amount, t, status) ==
    [entry EXCEPT ![e] = [deposit |-> d, type |-> type, amount |-> amount,
                          title |-> t, status |-> status]]

\* ensureDeposit(): the contract asks for one.  Its later calls, when the
\* amount is amended, derive for a contract in force the status it has.
EnsureDeposit(d) ==
    /\ deposit[d] = NoRow
    /\ deposit' = [deposit EXCEPT ![d] = [status |-> "PENDING", over |-> FALSE]]
    /\ UNCHANGED <<title, payment, seen, entry, decision, ending>>

\* lockDeposit(): the lock is free, and no entry has the key.
Opens(d, e) == deposit[d] # NoRow /\ ~DepositLocked(d) /\ entry[e] = NoRow

\* receipt()
Receive(d, e, amount) ==
    /\ Opens(d, e)
    /\ deposit[d].status \notin {"REFUNDED", "CLOSED"}
    /\ entry' = NewEntry(e, d, "RECEIPT", amount, NoRow, "APPROVED")
    /\ deposit' = Recomputed(d, entry')
    /\ UNCHANGED <<title, payment, seen, decision, ending>>

\* Mutant of Free: what others have asked for is not set aside.
FreeForAll(d) == Available(entry, d)

\* What may still be asked for
Free(d) == Available(entry, d) - Pending(entry, d)

\* requestDeduction(); the balance of the title is read without its lock.
RequestDeduction(d, e, amount, t) ==
    /\ Opens(d, e)
    /\ amount <= Free(d)
    /\ t # NoRow => /\ title[t] # NoRow /\ title[t].side = "receivable"
                    /\ amount <= title[t].amount - title[t].paid
    /\ entry' = NewEntry(e, d, "DEDUCTION", amount, t, "PENDING_APPROVAL")
    /\ UNCHANGED <<title, payment, seen, deposit, decision, ending>>

\* requestRefund()
RequestRefund(d, e, amount) ==
    /\ Opens(d, e)
    /\ amount <= Free(d)
    /\ entry' = NewEntry(e, d, "REFUND", amount, NoRow, "PENDING_APPROVAL")
    /\ UNCHANGED <<title, payment, seen, deposit, decision, ending>>

-----------------------------------------------------------------------------
(* Decisions *)

\* decide(): the entry is read before the lock, and its status is compared
\* after it, on the copy; any other than this one is refused.
ReadEntry(w, e) ==
    /\ Idle(w) /\ decision[w] = NoRow
    /\ entry[e] # NoRow /\ entry[e].status = "PENDING_APPROVAL"
    /\ decision' = [decision EXCEPT ![w] = [entry |-> e, row |-> entry[e]]]
    /\ UNCHANGED <<title, payment, seen, deposit, entry, ending>>

\* The entries but e, which is what an approval is measured against
Others(e) == [entry EXCEPT ![e] = NoRow]

Covered(copy) == copy.row.amount <= Available(Others(copy.entry), copy.row.deposit)

\* Mutant of Undecided: the table without its trigger.
UndecidedOrNot(e) == TRUE

\* nc_deposit_entry_guard
Undecided(e) == entry[e].status = "PENDING_APPROVAL"

\* The decision is written, and the deposit after it.
Write(w, outcome) ==
    LET copy == decision[w] IN
    /\ Undecided(copy.entry)
    /\ entry' = [entry EXCEPT ![copy.entry].status = outcome]
    /\ deposit' = Recomputed(copy.row.deposit, entry')
    /\ decision' = [decision EXCEPT ![w] = NoRow]
    /\ UNCHANGED ending

PaysTitle(row) == row.type = "DEDUCTION" /\ row.title # NoRow

\* decide() that pays no title
Decide(w, outcome) ==
    /\ decision[w] # NoRow /\ Idle(w)
    /\ LET copy == decision[w] IN
          /\ ~DepositLocked(copy.row.deposit)
          /\ outcome = "APPROVED" => Covered(copy) /\ ~PaysTitle(copy.row)
    /\ Write(w, outcome)
    /\ UNCHANGED <<title, payment, seen>>

\* decide() that pays a title: both locks, and then all the writes
BeginOffset(w) ==
    /\ decision[w] # NoRow
    /\ LET copy == decision[w] IN
          /\ ~DepositLocked(copy.row.deposit)
          /\ PaysTitle(copy.row) /\ Covered(copy)
          /\ BeginPayment(w, copy.row.title,
                          [amount |-> copy.row.amount, key |-> copy.entry,
                           method |-> "DEPOSIT_OFFSET"])
    /\ UNCHANGED depositVars

CommitOffset(w) ==
    /\ decision[w] # NoRow
    /\ CommitPayment(w)
    /\ Write(w, "APPROVED")

\* A refusal, the trigger, a title that cannot take the payment: rollback.
AbandonDecision(w) ==
    /\ decision[w] # NoRow
    /\ decision' = [decision EXCEPT ![w] = NoRow]
    /\ Done(w)
    /\ UNCHANGED <<title, payment, deposit, entry, ending>>

-----------------------------------------------------------------------------
(* The end of the contract *)

\* cancel() and finish() of the contract, recompute(): what it reads
DeriveEnd(d) ==
    /\ deposit[d] # NoRow /\ ~deposit[d].over /\ ending[d] = NoRow
    /\ ending' = [ending EXCEPT ![d] = [was |-> deposit[d].status,
                                        status |-> StatusFor(entry, d, TRUE)]]
    /\ UNCHANGED <<title, payment, seen, deposit, entry, decision>>

\* A status that is already there is not written.
StatusAtEnd(d) ==
    IF ending[d].status = ending[d].was THEN deposit[d].status ELSE ending[d].status

EndContract(d) ==
    /\ ending[d] # NoRow
    /\ ending[d].status # ending[d].was => ~DepositLocked(d)
    /\ deposit' = [deposit EXCEPT ![d] = [status |-> StatusAtEnd(d), over |-> TRUE]]
    /\ ending' = [ending EXCEPT ![d] = NoRow]
    /\ UNCHANGED <<title, payment, seen, entry, decision>>

-----------------------------------------------------------------------------
DepositInit ==
    /\ Init
    /\ deposit = [d \in SecurityDeposits |-> NoRow]
    /\ entry = [e \in Entries |-> NoRow]
    /\ decision = [w \in Workers |-> NoRow]
    /\ ending = [d \in SecurityDeposits |-> NoRow]

Counter(d) ==
    \/ EnsureDeposit(d)
    \/ DeriveEnd(d)
    \/ EndContract(d)
    \/ \E e \in Entries, amount \in PaidAmounts :
          \/ Receive(d, e, amount)
          \/ \E t \in RefTo(Titles) : RequestDeduction(d, e, amount, t)
          \/ RequestRefund(d, e, amount)

Approver(w) ==
    \/ \E e \in Entries : ReadEntry(w, e)
    \/ \E outcome \in {"APPROVED", "REJECTED"} : Decide(w, outcome)
    \/ BeginOffset(w)
    \/ CommitOffset(w)
    \/ AbandonDecision(w)

Clerk(w) ==
    /\ decision[w] = NoRow
    /\ WorkerStep(w) \/ Begin(w, Keys \ Entries)
    /\ UNCHANGED depositVars

DepositNext ==
    \/ \E d \in SecurityDeposits : Counter(d)
    \/ \E w \in Workers : Approver(w) \/ Clerk(w)
    \/ Office /\ UNCHANGED depositVars

DepositSpec == DepositInit /\ [][DepositNext]_vars

-----------------------------------------------------------------------------
(* Properties *)

DepositTypeOK ==
    /\ LedgerTypeOK
    /\ deposit \in [SecurityDeposits -> RefTo(DepositRows)]
    /\ entry \in [Entries -> RefTo(EntryRows)]
    /\ decision \in [Workers -> RefTo(DecisionCopies)]
    /\ ending \in [SecurityDeposits -> RefTo(Derivations)]

\* What was asked for and not yet decided is covered by what the deposit still
\* has, so every request can be approved and the deposit never pays out more
\* than it received (deposits.ts:222-226), however decisions interleave.
RequestsAreCovered == \A d \in SecurityDeposits : 0 <= Pending(entry, d) /\ Pending(entry, d) <= Available(entry, d)

\* A deduction with a title is approved exactly when the title was paid with
\* it, once and for its amount (deposits.ts:62-65): money leaves the deposit
\* and reaches the title together, though two people decide the same entry.
DeductionsReachTitles ==
    \A e \in Entries :
        LET paid == PaidUnder(e) IN
        IF entry[e] # NoRow /\ entry[e].status = "APPROVED" /\ PaysTitle(entry[e])
        THEN \E x \in Payments : /\ paid = {x}
                                 /\ payment[x].title = entry[e].title
                                 /\ payment[x].amount = entry[e].amount
                                 /\ payment[x].status = "CONFIRMED"
        ELSE paid = {}

\* While its contract lasts, the status of a deposit is the one that its entries
\* give (deposits.ts:101-110): recompute() runs under the lock after every entry
\* that is written, though decisions act on what they read before it.
StatusFollowsBalance ==
    \A d \in SecurityDeposits :
        deposit[d] # NoRow /\ ~deposit[d].over => deposit[d].status = StatusFor(entry, d, FALSE)

\* The status of a deposit is always derived from its balance and the state of
\* its contract (deposits.ts:101), also once the contract has ended.
StatusIsDerived ==
    \A d \in SecurityDeposits :
        deposit[d] # NoRow => deposit[d].status = StatusFor(entry, d, deposit[d].over)
=============================================================================
