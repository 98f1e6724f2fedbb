------------------------------- MODULE Webhooks ------------------------------
(***************************************************************************)
(* Payment webhooks on top of the ledger.  A provider delivers an event as *)
(* many times as it likes, also at the same time.  A delivery is three     *)
(* transactions: the event is stored, then it is processed through the     *)
(* ledger, then it is marked; the process may die between any two.  Clerks *)
(* go on using the ledger meanwhile.                                       *)
(***************************************************************************)
EXTENDS Ledger

CONSTANTS Events  \* events of one provider; each is the key of its payment

ASSUME EventAssumption == Events \subseteq Keys

VARIABLES event,  \* inbound_webhook_events: the body and processedAt
          call    \* what each delivery in flight has done

vars == <<title, payment, seen, event, call>>

Types == {"payment.confirmed", "payment.failed", "payment.refunded"}

EventRows == [type : Types, title : Titles, amount : PaidAmounts, processed : BOOLEAN]
Calls == [event : Events, stage : {"stored", "applied"}]

ASSUME EventRowAssumption == NoRow \notin EventRows \cup Calls

Stage(w, s) == call[w] # NoRow /\ call[w].stage = s
Reaches(w, s) == call' = [call EXCEPT ![w].stage = s]
Ends(w) == call' = [call EXCEPT ![w] = NoRow]

\* The title of event e, if it is a receivable that exists
Owed(e) == {t \in Titles : t = event[e].title /\ title[t] # NoRow /\ title[t].side = "receivable"}

OrderOf(e) == [amount |-> event[e].amount, key |-> e, method |-> "PIX"]

-----------------------------------------------------------------------------
\* Mutant of Reopened: an event that is known is a duplicate.
ReopenedNever(e) == FALSE

\* An event that is known but was not processed is processed again.
Reopened(e) == event[e] # NoRow /\ ~event[e].processed

\* handle(), first transaction: find the event or create it.  One that was
\* processed is answered as a duplicate.
Deliver(w, e) ==
    /\ Idle(w) /\ call[w] = NoRow
    /\ \/ /\ event[e] = NoRow
          /\ \E type \in Types, t \in Titles, amount \in PaidAmounts :
                event' = [event EXCEPT ![e] = [type |-> type, title |-> t, amount |-> amount,
                                              processed |-> FALSE]]
       \/ Reopened(e) /\ UNCHANGED event
    /\ call' = [call EXCEPT ![w] = [event |-> e, stage |-> "stored"]]
    /\ UNCHANGED <<title, payment, seen>>

\* Second transaction, a confirmed payment: applyPayment() under the event's key
BeginEvent(w) ==
    /\ Stage(w, "stored")
    /\ LET e == call[w].event IN
          /\ event[e].type = "payment.confirmed"
          /\ \E t \in Owed(e) : BeginPayment(w, t, OrderOf(e))
    /\ UNCHANGED <<event, call>>

CommitEvent(w) ==
    /\ Stage(w, "stored")
    /\ CommitPayment(w)
    /\ Reaches(w, "applied")
    /\ UNCHANGED event

\* Second transaction, nothing to write in the ledger: the key has paid before,
\* or the event is a refusal or a refund, which only warns the finance team.
PassEvent(w) ==
    /\ Stage(w, "stored") /\ Idle(w)
    /\ LET e == call[w].event IN
          \/ event[e].type # "payment.confirmed" /\ Owed(e) # {}
          \/ /\ event[e].type = "payment.confirmed"
             /\ \E x \in PaidUnder(e) : /\ payment[x].title = event[e].title
                                        /\ payment[x].amount = event[e].amount
    /\ Reaches(w, "applied")
    /\ UNCHANGED <<title, payment, seen, event>>

\* Mutant of Applied: the event is marked before it is processed.
AppliedOrStored(w) == Stage(w, "applied") \/ (Stage(w, "stored") /\ Idle(w))
Applied(w) == Stage(w, "applied")

\* Third transaction: processedAt
MarkEvent(w) ==
    /\ Applied(w)
    /\ event' = [event EXCEPT ![call[w].event].processed = TRUE]
    /\ Ends(w)
    /\ UNCHANGED <<title, payment, seen>>

\* An error answer or a crash.  Only attempts and lastError are written, and
\* the event, without processedAt, is left for another delivery.
DropEvent(w) ==
    /\ call[w] # NoRow
    /\ Ends(w)
    /\ Done(w)
    /\ UNCHANGED <<title, payment, event>>

\* The title of event e can take it, or has.
Takes(e) ==
    /\ event[e] # NoRow /\ Owed(e) # {}
    /\ event[e].type = "payment.confirmed" =>
          PaidUnder(e) # {} \/ Accepts(title[event[e].title], event[e].amount)

Refused(w) == Stage(w, "stored") /\ ~Takes(call[w].event)

-----------------------------------------------------------------------------
WebhookInit ==
    /\ Init
    /\ event = [e \in Events |-> NoRow]
    /\ call = [w \in Workers |-> NoRow]

Processing(w) == BeginEvent(w) \/ CommitEvent(w) \/ PassEvent(w) \/ MarkEvent(w)

Clerk(w) ==
    /\ call[w] = NoRow
    /\ WorkerStep(w) \/ Begin(w, Keys \ Events)
    /\ UNCHANGED <<event, call>>

WebhookNext ==
    \/ \E w \in Workers :
          \/ Clerk(w)
          \/ \E e \in Events : Deliver(w, e)
          \/ Processing(w)
          \/ DropEvent(w)
    \/ Office /\ UNCHANGED <<event, call>>

WebhookSpec == WebhookInit /\ [][WebhookNext]_vars

\* Transactions end; the provider delivers again what was not accepted (that is
\* what its retries are for, payments-webhooks.ts:156), and a delivery that
\* waits for a lock gets it.
FairWebhookSpec ==
    /\ WebhookSpec
    /\ \A w \in Workers :
          /\ WF_vars(call[w] = NoRow /\ Abandon(w) /\ UNCHANGED <<event, call>>)
          /\ WF_vars(Refused(w) /\ DropEvent(w))
          /\ SF_vars(BeginEvent(w)) /\ WF_vars(CommitEvent(w))
          /\ WF_vars(PassEvent(w)) /\ WF_vars(MarkEvent(w))
    /\ \A e \in Events : SF_vars(event[e] # NoRow /\ \E w \in Workers : Deliver(w, e))

-----------------------------------------------------------------------------
(* Properties *)

WebhookTypeOK ==
    /\ LedgerTypeOK
    /\ event \in [Events -> RefTo(EventRows)]
    /\ call \in [Workers -> RefTo(Calls)]

\* An event pays once, what it says and where it says, however often it is
\* delivered, interrupted or reversed by hand in between (schema.prisma:410);
\* and a confirmed payment that was accepted is in the ledger.
EventPaysOnce ==
    \A e \in Events : event[e] # NoRow =>
        /\ \A x, y \in PaidUnder(e) : x = y
        /\ \A x \in PaidUnder(e) :
              /\ event[e].type = "payment.confirmed"
              /\ payment[x].title = event[e].title /\ payment[x].amount = event[e].amount
        /\ event[e].processed /\ event[e].type = "payment.confirmed" => PaidUnder(e) # {}

Waiting(e) == event[e] # NoRow /\ ~event[e].processed

\* An event that its title can take is processed in the end, if from some time
\* on no delivery is interrupted (payments-webhooks.ts:156).
EventsLand ==
    <>[][\A w \in Workers : DropEvent(w) => Refused(w)]_vars =>
        \A e \in Events : Waiting(e) ~> (~Waiting(e) \/ ~Takes(e))
=============================================================================
