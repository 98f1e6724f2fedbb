--------------------------- MODULE WebhooksProofs ----------------------------
(***************************************************************************)
(* Theorems about Webhooks for any number of events, deliveries, titles    *)
(* and payments.  What the ledger promises is taken from LedgerProofs: a   *)
(* delivery does to the ledger only what the ledger allows anybody.        *)
(***************************************************************************)
EXTENDS Webhooks, LedgerProofs

\* What a delivery pays is what its event says, under the key of the event.
CarriesEvent(w) ==
    LET e == call[w].event
        order == seen[w].order
    IN  /\ Stage(w, "stored")
        /\ order.key = e /\ order.amount = event[e].amount
        /\ seen[w].id = event[e].title
        /\ event[e].type = "payment.confirmed"

\* Nobody but a delivery pays under the key of an event, and one that has been
\* applied has paid.
Deliveries ==
    \A w \in Workers :
        /\ call[w] # NoRow => event[call[w].event] # NoRow
        /\ Paying(w) /\ (call[w] # NoRow \/ seen[w].order.key \in Events) => CarriesEvent(w)
        /\ Stage(w, "applied") /\ event[call[w].event].type = "payment.confirmed" =>
              PaidUnder(call[w].event) # {}

\* A payment under the key of an event is of an event that was delivered.
EventKnown == \A e \in Events : PaidUnder(e) # {} => event[e] # NoRow

HookInv == BooksInv /\ WebhookTypeOK /\ Deliveries /\ EventKnown /\ EventPaysOnce

\* The payments of events are the same, whatever became of their statuses.
EventRowsStay ==
    \A x \in Payments :
        /\ payment[x] # NoRow => /\ payment'[x] # NoRow
                                 /\ payment'[x].title = payment[x].title
                                 /\ payment'[x].amount = payment[x].amount
                                 /\ payment'[x].key = payment[x].key
        /\ payment'[x] # NoRow /\ payment'[x].key \in Events => payment[x] # NoRow

-----------------------------------------------------------------------------
\* A step about no event leaves the events as they are.
LEMMA Aside ==
    ASSUME HookInv, BooksInv', EventRowsStay, event' = event, call' = call,
           \A v \in Workers : Paying(v)' /\ (call[v] # NoRow \/ seen'[v].order.key \in Events) =>
                                  seen'[v] = seen[v]
    PROVE  HookInv'
<1>1. WebhookTypeOK'
  BY DEF HookInv, WebhookTypeOK, BooksInv
<1>2. \A e \in Events : PaidUnder(e)' = PaidUnder(e)
  BY DEF PaidUnder, EventRowsStay
<1>3. Deliveries'
  BY <1>2 DEF HookInv, Deliveries, Stage, Paying, CarriesEvent, WebhookTypeOK, RefTo, Calls
<1>4. EventKnown'
  BY <1>2 DEF HookInv, EventKnown
<1>5. EventPaysOnce'
  BY <1>2 DEF HookInv, EventPaysOnce, EventRowsStay, PaidUnder
<1>. QED BY <1>1, <1>3, <1>4, <1>5 DEF HookInv

\* A clerk does not pay for an event, nor disturbs a delivery.
LEMMA ClerkKeeps ==
    ASSUME HookInv, NEW w \in Workers, Clerk(w)
    PROVE  HookInv' /\ LedgerStep
<1>1. LedgerStep /\ event' = event /\ call' = call /\ call[w] = NoRow
  BY DEF Clerk, Begin, LedgerStep
<1>2. BooksInv /\ BooksInv'
  BY <1>1, StepBooks DEF HookInv
<1>3. EventRowsStay
  <2>1. CASE CommitPayment(w)
    <3>1. seen[w].order.key \notin Events
      BY <1>1, <2>1 DEF CommitPayment, HookInv, Deliveries, CarriesEvent, Stage
    <3>. QED BY <1>2, <2>1, <3>1, RowWritten DEF EventRowsStay
  <2>2. CASE ~CommitPayment(w)
    BY <1>2, <2>2, RowsStay DEF Clerk, Begin, RowsKept, EventRowsStay
  <2>. QED BY <2>1, <2>2
<1>4. \A v \in Workers : v # w => seen'[v] = seen[v]
  <2>1. seen = [v \in Workers |-> seen[v]]
    BY <1>2 DEF BooksInv, LedgerTypeOK
  <2>. QED
    BY <2>1 DEF Clerk, WorkerStep, Begin, ReadTitle, ReadPayment, CancelTitle, DecidePayable, Abandon,
                CommitPayment, ReversePayment, BeginPayment, Done
<1>5. ASSUME Paying(w)' PROVE seen'[w].order.key \notin Events
  <2>1. ~WorkerStep(w)
    BY <1>2, <1>5
    DEF BooksInv, LedgerTypeOK, WorkerStep, ReadTitle, ReadPayment, CancelTitle, DecidePayable,
        Abandon, CommitPayment, ReversePayment, Done, Paying
  <2>. QED BY <1>2, <2>1 DEF Clerk, Begin, BeginPayment, BooksInv, LedgerTypeOK
<1>6. HookInv'
  BY <1>1, <1>2, <1>3, <1>4, <1>5, Aside
<1>. QED BY <1>1, <1>6

\* Nor does the office.
LEMMA OfficeAside ==
    ASSUME HookInv, \/ Office /\ UNCHANGED <<event, call>>
                    \/ UNCHANGED vars
    PROVE  HookInv' /\ [LedgerStep]_ledgerVars
<1>1. /\ [LedgerStep]_ledgerVars /\ event' = event /\ call' = call
      /\ Office \/ UNCHANGED ledgerVars
  BY DEF LedgerStep, vars, ledgerVars
<1>2. BooksInv /\ BooksInv'
  BY <1>1, StepBooks DEF HookInv
<1>3. EventRowsStay /\ seen' = seen
  BY <1>1, <1>2, RowsStay
  DEF Office, CreateTitle, CancelInstallments, ledgerVars, RowsKept, EventRowsStay
<1>. QED BY <1>1, <1>2, <1>3, Aside

-----------------------------------------------------------------------------
(* The transactions of a delivery *)

\* What only writes events and deliveries leaves the ledger as it was.
LEMMA SameBooks ==
    ASSUME BooksInv, UNCHANGED <<title, payment, seen>>
    PROVE  /\ BooksInv' /\ [LedgerStep]_ledgerVars /\ LedgerTypeOK'
           /\ \A e \in Events : PaidUnder(e)' = PaidUnder(e)
<1>1. UNCHANGED ledgerVars
  BY DEF ledgerVars
<1>2. BooksInv'
  BY <1>1, StepBooks
<1>. QED BY <1>1, <1>2 DEF BooksInv, PaidUnder

\* An event that is delivered for the first time has not paid.
LEMMA DeliverKeeps ==
    ASSUME HookInv, NEW w \in Workers, NEW e \in Events, Deliver(w, e)
    PROVE  HookInv' /\ [LedgerStep]_ledgerVars
<1>1. /\ UNCHANGED <<title, payment, seen>> /\ Idle(w) /\ call[w] = NoRow
      /\ call' = [call EXCEPT ![w] = [event |-> e, stage |-> "stored"]]
  BY DEF Deliver
<1>2. BooksInv /\ BooksInv' /\ [LedgerStep]_ledgerVars /\ LedgerTypeOK'
      /\ \A d \in Events : PaidUnder(d)' = PaidUnder(d)
  BY <1>1, SameBooks DEF HookInv
<1>3. PICK row : /\ row \in EventRows /\ row # NoRow
                 /\ event' = [event EXCEPT ![e] = row]
                 /\ event[e] = NoRow => ~row.processed
                 /\ event[e] # NoRow => row = event[e]
  <2>1. CASE event[e] = NoRow
    <3>1. PICK type \in Types, t \in Titles, amount \in PaidAmounts :
             event' = [event EXCEPT ![e] = [type |-> type, title |-> t, amount |-> amount,
                                            processed |-> FALSE]]
      BY <2>1 DEF Deliver, Reopened
    <3>2. PICK row \in EventRows : row = [type |-> type, title |-> t, amount |-> amount,
                                          processed |-> FALSE]
      BY DEF EventRows
    <3>3. ~row.processed /\ row # NoRow /\ event' = [event EXCEPT ![e] = row]
      BY <3>1, <3>2, EventRowAssumption
    <3>. QED BY <2>1, <3>3
  <2>2. CASE event[e] # NoRow
    <3>1. event' = event /\ event[e] \in EventRows /\ event = [event EXCEPT ![e] = event[e]]
      BY <2>2 DEF Deliver, HookInv, WebhookTypeOK, RefTo
    <3>. QED BY <2>2, <3>1
  <2>. QED BY <2>1, <2>2
<1>4. [event |-> e, stage |-> "stored"] \in Calls
  BY DEF Calls
<1>5. WebhookTypeOK'
  BY <1>1, <1>2, <1>3, <1>4 DEF HookInv, WebhookTypeOK, RefTo
<1>6. \A d \in Events : event[d] # NoRow => event'[d] = event[d]
  BY <1>3 DEF HookInv, WebhookTypeOK
<1>7. event'[e] # NoRow /\ \A d \in Events : d # e => event'[d] = event[d]
  BY <1>3 DEF HookInv, WebhookTypeOK
<1>8. ASSUME NEW v \in Workers, v # w
      PROVE  call'[v] = call[v] /\ (call[v] # NoRow => call[v].event \in Events)
  BY <1>1, <1>8 DEF HookInv, WebhookTypeOK, RefTo, Calls
<1>9. call'[w].event = e /\ call'[w].stage = "stored" /\ ~Paying(w)'
  BY <1>1 DEF HookInv, WebhookTypeOK, Idle, Paying
<1>10. Deliveries'
  BY <1>1, <1>2, <1>6, <1>7, <1>8, <1>9 DEF HookInv, Deliveries, CarriesEvent, Stage, Paying
<1>11. EventKnown' /\ EventPaysOnce'
  <2>1. event[e] = NoRow => PaidUnder(e) = {}
    BY DEF HookInv, EventKnown
  <2>2. event'[e] = row
    BY <1>3 DEF HookInv, WebhookTypeOK
  <2>3. \A d \in Events : event[d] = NoRow /\ event'[d] # NoRow =>
                              PaidUnder(d) = {} /\ ~event'[d].processed
    BY <1>3, <1>7, <2>1, <2>2
  <2>4. EventKnown'
    BY <1>2, <1>6 DEF HookInv, EventKnown
  <2>5. EventPaysOnce'
    BY <1>1, <1>2, <1>6, <2>3 DEF HookInv, EventPaysOnce
  <2>. QED BY <2>4, <2>5
<1>. QED BY <1>2, <1>5, <1>10, <1>11 DEF HookInv

\* The payment that a delivery begins is the one that its event asks for.
LEMMA BeginKeepsEvent ==
    ASSUME HookInv, NEW w \in Workers, BeginEvent(w)
    PROVE  HookInv' /\ LedgerStep
<1>1. PICK e \in Events : e = call[w].event /\ event[e] # NoRow /\ event[e] \in EventRows
  BY DEF BeginEvent, Stage, HookInv, WebhookTypeOK, Deliveries, RefTo, Calls
<1>2. PICK t \in Titles : t = event[e].title /\ BeginPayment(w, t, OrderOf(e))
  BY <1>1 DEF BeginEvent, Owed
<1>3. PICK order \in Orders : order = OrderOf(e)
  BY <1>1, EventAssumption DEF OrderOf, Orders, EventRows
<1>4. LedgerStep
  BY <1>2, <1>3 DEF LedgerStep
<1>5. BooksInv /\ BooksInv'
  BY <1>4, StepBooks DEF HookInv
<1>6. /\ event' = event /\ call' = call /\ payment' = payment
      /\ seen' = [seen EXCEPT ![w] = [id |-> t, row |-> title[t], order |-> order]]
      /\ Stage(w, "stored") /\ event[e].type = "payment.confirmed"
      /\ order.key = e /\ order.amount = event[e].amount
  BY <1>1, <1>2, <1>3 DEF BeginEvent, BeginPayment, OrderOf
<1>7. /\ \A v \in Workers : v # w => seen'[v] = seen[v]
      /\ seen'[w].id = t /\ seen'[w].order = order
  BY <1>5, <1>6 DEF BooksInv, LedgerTypeOK
<1>8. Deliveries'
  <2>1. CarriesEvent(w)'
    BY <1>1, <1>2, <1>6, <1>7 DEF CarriesEvent, Stage
  <2>. QED BY <1>6, <1>7, <2>1 DEF HookInv, Deliveries, CarriesEvent, Stage, Paying, PaidUnder
<1>9. WebhookTypeOK'
  BY <1>5, <1>6 DEF HookInv, WebhookTypeOK, BooksInv
<1>10. EventKnown' /\ EventPaysOnce'
  BY <1>6 DEF HookInv, EventKnown, EventPaysOnce, PaidUnder
<1>. QED BY <1>4, <1>5, <1>8, <1>9, <1>10 DEF HookInv

\* The first payment under the key of an event is its only one.
LEMMA CommitKeepsEvent ==
    ASSUME HookInv, NEW w \in Workers, CommitEvent(w)
    PROVE  HookInv' /\ LedgerStep
<1>1. PICK e \in Events : e = call[w].event /\ event[e] # NoRow
  BY DEF CommitEvent, Stage, HookInv, WebhookTypeOK, Deliveries, RefTo, Calls
<1>2. CommitPayment(w) /\ CarriesEvent(w) /\ ~Used(e)
  BY <1>1 DEF CommitEvent, CommitPayment, HookInv, Deliveries, CarriesEvent, Stage
<1>3. LedgerStep
  BY <1>2 DEF LedgerStep, WorkerStep
<1>4. BooksInv /\ BooksInv'
  BY <1>3, StepBooks DEF HookInv
<1>5. PICK x \in Payments :
         /\ payment[x] = NoRow /\ payment'[x] # NoRow
         /\ payment'[x].title = event[e].title /\ payment'[x].amount = event[e].amount
         /\ payment'[x].key = e
         /\ \A y \in Payments : y # x => payment'[y] = payment[y]
  BY <1>1, <1>2, <1>4, RowWritten DEF CarriesEvent
<1>6. /\ PaidUnder(e)' = {x}
      /\ \A d \in Events : d # e => PaidUnder(d)' = PaidUnder(d)
      /\ \A d \in Events : d # e => \A y \in PaidUnder(d) : payment'[y] = payment[y]
  BY <1>2, <1>5 DEF PaidUnder, Used
<1>7. /\ event' = event /\ call' = [call EXCEPT ![w].stage = "applied"]
      /\ seen' = [seen EXCEPT ![w] = NoRow]
  BY DEF CommitEvent, CommitPayment, Reaches, Done
<1>8. PICK row \in Calls : /\ row.event = e /\ row.stage = "applied" /\ row # NoRow
                           /\ call' = [call EXCEPT ![w] = row]
  <2>1. call[w] \in Calls
    BY DEF CommitEvent, Stage, HookInv, WebhookTypeOK, RefTo
  <2>2. [call[w] EXCEPT !.stage = "applied"] \in Calls
    BY <2>1 DEF Calls
  <2>. QED BY <1>1, <1>7, <2>1, <2>2, EventRowAssumption DEF Calls
<1>9. /\ call'[w] = row /\ ~Paying(w)'
      /\ \A v \in Workers : v # w => call'[v] = call[v] /\ seen'[v] = seen[v]
  BY <1>4, <1>7, <1>8 DEF HookInv, WebhookTypeOK, BooksInv, LedgerTypeOK, Paying
<1>10. WebhookTypeOK'
  BY <1>4, <1>7, <1>8 DEF HookInv, WebhookTypeOK, BooksInv, RefTo
<1>11. Deliveries'
  <2>1. \A v \in Workers : call[v] # NoRow => call[v].event \in Events
    BY DEF HookInv, WebhookTypeOK, RefTo, Calls
  <2>2. \A d \in Events : PaidUnder(d) # {} \/ d = e =>
            \E y \in Payments : payment'[y] # NoRow /\ payment'[y].key = d
    BY <1>5 DEF PaidUnder
  <2>3. ASSUME NEW v \in Workers, v # w
        PROVE  /\ call'[v] # NoRow => event'[call'[v].event] # NoRow
               /\ Paying(v)' /\ (call'[v] # NoRow \/ seen'[v].order.key \in Events) =>
                      CarriesEvent(v)'
    BY <1>7, <1>9, <2>3 DEF HookInv, Deliveries, CarriesEvent, Stage, Paying
  <2>4. ASSUME NEW v \in Workers, Stage(v, "applied")',
               event'[call'[v].event].type = "payment.confirmed"
        PROVE  \E y \in Payments : payment'[y] # NoRow /\ payment'[y].key = call'[v].event
    <3>1. CASE v = w
      BY <1>8, <1>9, <2>2, <3>1
    <3>2. CASE v # w
      <4>1. Stage(v, "applied") /\ call'[v] = call[v] /\ call[v].event \in Events
        BY <1>9, <2>1, <2>4, <3>2 DEF Stage
      <4>2. PaidUnder(call[v].event) # {}
        BY <1>7, <2>4, <4>1 DEF HookInv, Deliveries
      <4>. QED BY <2>2, <4>1, <4>2
    <3>. QED BY <3>1, <3>2
  <2>5. event'[call'[w].event] # NoRow
    BY <1>1, <1>7, <1>8, <1>9
  <2>. QED BY <1>9, <2>3, <2>4, <2>5 DEF Deliveries, PaidUnder
<1>12. EventKnown'
  BY <1>1, <1>6, <1>7 DEF HookInv, EventKnown
<1>13. EventPaysOnce'
  BY <1>1, <1>2, <1>5, <1>6, <1>7 DEF HookInv, EventPaysOnce, CarriesEvent
<1>. QED BY <1>3, <1>4, <1>10, <1>11, <1>12, <1>13 DEF HookInv

\* A delivery moves on only once the key has paid, if its event says to pay.
LEMMA PassKeeps ==
    ASSUME HookInv, NEW w \in Workers, PassEvent(w)
    PROVE  HookInv' /\ [LedgerStep]_ledgerVars
<1>1. PICK e \in Events : e = call[w].event /\ event[e] # NoRow
  BY DEF PassEvent, Stage, HookInv, WebhookTypeOK, Deliveries, RefTo, Calls
<1>2. /\ UNCHANGED <<title, payment, seen, event>> /\ Idle(w)
      /\ event[e].type = "payment.confirmed" => PaidUnder(e) # {}
      /\ call' = [call EXCEPT ![w].stage = "applied"]
  BY <1>1 DEF PassEvent, Reaches
<1>3. BooksInv' /\ [LedgerStep]_ledgerVars /\ LedgerTypeOK'
      /\ \A d \in Events : PaidUnder(d)' = PaidUnder(d)
  BY <1>2, SameBooks DEF HookInv
<1>4. PICK row \in Calls : /\ row.event = e /\ row.stage = "applied" /\ row # NoRow
                           /\ call' = [call EXCEPT ![w] = row]
  <2>1. call[w] \in Calls
    BY DEF PassEvent, Stage, HookInv, WebhookTypeOK, RefTo
  <2>2. [call[w] EXCEPT !.stage = "applied"] \in Calls
    BY <2>1 DEF Calls
  <2>. QED BY <1>1, <1>2, <2>1, <2>2, EventRowAssumption DEF Calls
<1>5. call'[w] = row /\ \A v \in Workers : v # w => call'[v] = call[v]
  BY <1>4 DEF HookInv, WebhookTypeOK
<1>6. WebhookTypeOK'
  BY <1>2, <1>3, <1>4 DEF HookInv, WebhookTypeOK, RefTo
<1>7. Deliveries'
  BY <1>1, <1>2, <1>4, <1>5
  DEF HookInv, Deliveries, CarriesEvent, Stage, Paying, PaidUnder, Idle
<1>8. EventKnown' /\ EventPaysOnce'
  BY <1>2, <1>3 DEF HookInv, EventKnown, EventPaysOnce
<1>. QED BY <1>3, <1>6, <1>7, <1>8 DEF HookInv

\* processedAt is written after the payment.
LEMMA MarkKeeps ==
    ASSUME HookInv, NEW w \in Workers, MarkEvent(w)
    PROVE  HookInv' /\ [LedgerStep]_ledgerVars
<1>1. PICK e \in Events : e = call[w].event /\ event[e] # NoRow /\ event[e] \in EventRows
  BY DEF MarkEvent, Applied, Stage, HookInv, WebhookTypeOK, Deliveries, RefTo, Calls
<1>2. /\ UNCHANGED <<title, payment, seen>>
      /\ event[e].type = "payment.confirmed" => PaidUnder(e) # {}
      /\ call' = [call EXCEPT ![w] = NoRow]
      /\ event' = [event EXCEPT ![e].processed = TRUE]
  BY <1>1 DEF MarkEvent, Applied, Ends, HookInv, Deliveries
<1>3. BooksInv' /\ [LedgerStep]_ledgerVars /\ LedgerTypeOK'
      /\ \A d \in Events : PaidUnder(d)' = PaidUnder(d)
  BY <1>2, SameBooks DEF HookInv
<1>4. PICK row \in EventRows :
          /\ row.type = event[e].type /\ row.title = event[e].title
          /\ row.amount = event[e].amount /\ row # NoRow
          /\ event' = [event EXCEPT ![e] = row]
  <2>1. [event[e] EXCEPT !.processed = TRUE] \in EventRows
    BY <1>1 DEF EventRows
  <2>. QED BY <1>1, <1>2, <2>1, EventRowAssumption DEF EventRows
<1>5. /\ call'[w] = NoRow /\ \A v \in Workers : v # w => call'[v] = call[v]
      /\ event'[e] = row /\ \A d \in Events : d # e => event'[d] = event[d]
  BY <1>2, <1>4 DEF HookInv, WebhookTypeOK
<1>6. WebhookTypeOK'
  BY <1>2, <1>3, <1>4 DEF HookInv, WebhookTypeOK, RefTo
<1>7. \A d \in Events : event[d] # NoRow =>
          /\ event'[d] # NoRow /\ event'[d].type = event[d].type
          /\ event'[d].title = event[d].title /\ event'[d].amount = event[d].amount
  BY <1>4, <1>5
<1>8. Deliveries'
  <2>1. \A v \in Workers : call[v] # NoRow => call[v].event \in Events
    BY DEF HookInv, WebhookTypeOK, RefTo, Calls
  <2>2. ~(Paying(w) /\ seen[w].order.key \in Events)
    BY DEF MarkEvent, Applied, Stage, HookInv, Deliveries, CarriesEvent
  <2>. QED BY <1>2, <1>5, <1>7, <2>1, <2>2
           DEF HookInv, Deliveries, CarriesEvent, Stage, Paying, PaidUnder
<1>9. EventKnown'
  BY <1>3, <1>7 DEF HookInv, EventKnown
<1>10. EventPaysOnce'
  BY <1>1, <1>2, <1>3, <1>5, <1>7 DEF HookInv, EventPaysOnce
<1>. QED BY <1>3, <1>6, <1>8, <1>9, <1>10 DEF HookInv

\* A delivery that fails rolls back what it had begun.
LEMMA DropKeeps ==
    ASSUME HookInv, NEW w \in Workers, DropEvent(w)
    PROVE  HookInv' /\ [LedgerStep]_ledgerVars
<1>1. /\ UNCHANGED <<title, payment, event>>
      /\ call' = [call EXCEPT ![w] = NoRow] /\ seen' = [seen EXCEPT ![w] = NoRow]
  BY DEF DropEvent, Ends, Done
<1>2. [LedgerStep]_ledgerVars
  <2>1. CASE Idle(w)
    BY <1>1, <2>1 DEF Idle, HookInv, BooksInv, LedgerTypeOK, ledgerVars
  <2>2. CASE ~Idle(w)
    BY <1>1, <2>2 DEF Abandon, Done, WorkerStep, LedgerStep
  <2>. QED BY <2>1, <2>2
<1>3. BooksInv /\ BooksInv'
  BY <1>2, StepBooks DEF HookInv
<1>4. /\ call'[w] = NoRow /\ ~Paying(w)'
      /\ \A v \in Workers : v # w => call'[v] = call[v] /\ seen'[v] = seen[v]
  BY <1>1, <1>3 DEF HookInv, WebhookTypeOK, BooksInv, LedgerTypeOK, Paying
<1>5. WebhookTypeOK'
  BY <1>1, <1>3 DEF HookInv, WebhookTypeOK, BooksInv, RefTo
<1>6. Deliveries'
  BY <1>1, <1>4 DEF HookInv, Deliveries, CarriesEvent, Stage, Paying, PaidUnder
<1>7. EventKnown' /\ EventPaysOnce'
  BY <1>1 DEF HookInv, EventKnown, EventPaysOnce, PaidUnder
<1>. QED BY <1>2, <1>3, <1>5, <1>6, <1>7 DEF HookInv

-----------------------------------------------------------------------------
(* Theorems *)

LEMMA InitHooks == WebhookInit => HookInv /\ Books!Init
<1> SUFFICES ASSUME WebhookInit PROVE HookInv /\ Books!Init
  OBVIOUS
<1>1. BooksInv /\ Books!Init
  BY InitBooks DEF WebhookInit
<1>2. /\ \A w \in Workers : call[w] = NoRow /\ seen[w] = NoRow
      /\ \A e \in Events : event[e] = NoRow /\ PaidUnder(e) = {}
  BY DEF WebhookInit, Init, PaidUnder
<1>3. WebhookTypeOK
  BY <1>1 DEF WebhookInit, WebhookTypeOK, BooksInv, RefTo
<1>. QED BY <1>1, <1>2, <1>3 DEF HookInv, Deliveries, EventKnown, EventPaysOnce, Stage, Paying

\* Every step keeps the invariant, and is a step of the ledger or none of it.
LEMMA StepHooks ==
    ASSUME HookInv, [WebhookNext]_vars
    PROVE  HookInv' /\ [LedgerStep]_ledgerVars
  BY ClerkKeeps, DeliverKeeps, BeginKeepsEvent, CommitKeepsEvent, PassKeeps, MarkKeeps,
     DropKeeps, OfficeAside
  DEF WebhookNext, Processing

\* Stored events, and what each process of the webhook keeps between its
\* transactions, have their columns at every crash point.
THEOREM WebhooksAreTyped == WebhookSpec => []WebhookTypeOK
<1>1. HookInv => WebhookTypeOK
  BY DEF HookInv
<1>. QED BY InitHooks, StepHooks, <1>1, PTL DEF WebhookSpec

\* An event pays once, however often it is delivered, at the same time or after
\* a crash between its transactions (schema.prisma:410); and what was accepted
\* has paid.
THEOREM EventsPayOnce == WebhookSpec => []EventPaysOnce
<1>1. HookInv => EventPaysOnce
  BY DEF HookInv
<1>. QED BY InitHooks, StepHooks, <1>1, PTL DEF WebhookSpec

\* Webhooks and clerks together implement Account: what providers repeat and
\* what clerks reverse keep the books.
THEOREM WebhooksKeepTheBooks == WebhookSpec => KeepsTheBooks
<1>1. HookInv /\ [WebhookNext]_vars => HookInv' /\ [Books!Next]_AccountVars
  <2> SUFFICES ASSUME HookInv, [WebhookNext]_vars
               PROVE  HookInv' /\ [Books!Next]_AccountVars
    OBVIOUS
  <2>1. HookInv' /\ [LedgerStep]_ledgerVars /\ BooksInv
    BY StepHooks DEF HookInv
  <2>. QED BY <2>1, StepAccount
<1>. QED BY InitHooks, <1>1, PTL DEF WebhookSpec, KeepsTheBooks, Books!Spec, AccountVars
=============================================================================
