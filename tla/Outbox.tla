-------------------------------- MODULE Outbox -------------------------------
(***************************************************************************)
(* Alerts and their delivery.  Every replica of the API ticks: the one     *)
(* that gets the advisory lock runs the jobs, which raise alerts; then     *)
(* each of them, with or without the lock, sends what is due in the queue  *)
(* of deliveries.  A batch is read, sent and recorded outside any common   *)
(* transaction, so replicas work on copies that others may have outdated,  *)
(* and a replica may stop at any point.                                    *)
(***************************************************************************)
EXTENDS Naturals

CONSTANTS Replicas,
          Alerts,       \* dedupe keys: a condition that a job looks for
          Channels,     \* the channels that the organisation has enabled
          Endpoints,    \* webhook endpoints subscribed to the alerts
          MaxAttempts,
          NoRow

ASSUME AttemptsAssumption == MaxAttempts \in Nat \ {0}

VARIABLES arisen,    \* alerts whose condition holds
          alert,     \* notifications
          delivery,  \* notification_deliveries, one for an alert and a channel
          lock,      \* the replica whose transaction holds the advisory lock
          phase,     \* where the tick of each replica is
          todo,      \* jobs it has not run in this round
          batch,     \* copies of deliveries it has not sent in this round
          answer,    \* what it was answered and has not recorded
          accepted,  \* who has accepted the message of a delivery (history)
          refused    \* calls that were not answered with success (history)

round == <<phase, todo, batch, answer>>
vars == <<arisen, alert, delivery, lock, phase, todo, batch, answer, accepted, refused>>

Deliveries == Alerts \X Channels
Statuses == {"PENDING", "SENT", "FAILED", "SKIPPED_NOT_CONFIGURED"}

\* due: nextAttemptAt has come
DeliveryRows == [status : Statuses, attempts : 0..MaxAttempts, due : BOOLEAN]
Copies == [of : Deliveries, attempts : 0..(MaxAttempts - 1)]
Answers == [of : Deliveries, attempts : 0..(MaxAttempts - 1),
            outcome : {"SENT", "RETRY", "SKIPPED_NOT_CONFIGURED"}]

ASSUME OutboxRowAssumption == NoRow \notin DeliveryRows \cup Answers \cup Replicas

\* A message has been taken when all of these have accepted it.
Audience(c) == IF c = "WEBHOOK" THEN Endpoints ELSE {"mailbox"}

NewDelivery == [status |-> "PENDING", attempts |-> 0, due |-> TRUE]

Idle(r) == phase[r] = "idle"
Enters(r, p) == phase' = [phase EXCEPT ![r] = p]

\* Mutant of Fresh: the result of createMany is not looked at.
FreshOrNot(a) == TRUE

\* createManyAndReturn with skipDuplicates: the alert is not there yet
Fresh(a) == a \notin alert

-----------------------------------------------------------------------------
(* tick(): runOnce() *)

\* pg_try_advisory_xact_lock
TakeLock(r) ==
    /\ Idle(r) /\ lock = NoRow
    /\ lock' = r
    /\ Enters(r, "jobs")
    /\ todo' = [todo EXCEPT ![r] = Alerts]
    /\ UNCHANGED <<arisen, alert, delivery, batch, answer, accepted, refused>>

\* The lock is taken: no jobs in this round, but the queue all the same.
SkipJobs(r) ==
    /\ Idle(r) /\ lock # NoRow
    /\ Enters(r, "queue")
    /\ UNCHANGED <<arisen, alert, delivery, lock, todo, batch, answer, accepted, refused>>

\* A job whose transaction commits: notify() creates the alert and, if it is
\* new, a delivery for each channel.
RunJob(r, a) ==
    /\ phase[r] = "jobs" /\ a \in todo[r]
    /\ todo' = [todo EXCEPT ![r] = @ \ {a}]
    /\ IF a \in arisen /\ Fresh(a)
          THEN /\ alert' = alert \cup {a}
               /\ delivery' = [d \in Deliveries |-> IF d[1] = a THEN NewDelivery ELSE delivery[d]]
          ELSE UNCHANGED <<alert, delivery>>
    /\ UNCHANGED <<arisen, lock, phase, batch, answer, accepted, refused>>

\* A job that fails is undone and logged; the others go on.
FailJob(r, a) ==
    /\ phase[r] = "jobs" /\ a \in todo[r]
    /\ a \in arisen /\ Fresh(a)
    /\ todo' = [todo EXCEPT ![r] = @ \ {a}]
    /\ UNCHANGED <<arisen, alert, delivery, lock, phase, batch, answer, accepted, refused>>

\* The transaction of the lock has a limit of 30 minutes; the jobs, which run
\* in transactions of their own, go on without it.
LoseLock(r) ==
    /\ lock = r
    /\ lock' = NoRow
    /\ UNCHANGED <<arisen, alert, delivery, round, accepted, refused>>

\* The transaction of the lock commits, or has expired: then runOnce() throws
\* and the round ends there.
EndJobs(r) ==
    /\ phase[r] = "jobs" /\ todo[r] = {}
    /\ \/ lock = r /\ lock' = NoRow /\ Enters(r, "queue")
       \/ lock # r /\ UNCHANGED lock /\ Enters(r, "idle")
    /\ UNCHANGED <<arisen, alert, delivery, todo, batch, answer, accepted, refused>>

-----------------------------------------------------------------------------
(* tick(): processDue() *)

Due(d) == delivery[d] # NoRow /\ delivery[d].status = "PENDING" /\ delivery[d].due

CopyOf(d) == [of |-> d, attempts |-> delivery[d].attempts]

Fetch(r) ==
    /\ phase[r] = "queue"
    /\ Enters(r, "sending")
    /\ batch' = [batch EXCEPT ![r] = {CopyOf(d) : d \in {e \in Deliveries : Due(e)}}]
    /\ UNCHANGED <<arisen, alert, delivery, lock, todo, answer, accepted, refused>>

\* Mutant of Success: one endpoint that accepts is enough.
SuccessOfOne(c, took) == took # {}

\* All have taken it, and each answer came back in time.
Success(c, took) == took = Audience(c)

Answered(r, copy, o) ==
    answer' = [answer EXCEPT ![r] = [of |-> copy.of, attempts |-> copy.attempts, outcome |-> o]]

\* email() or webhook(): the call is out of any transaction.  A call that is
\* not answered may have been taken all the same.
Send(r) ==
    /\ phase[r] = "sending" /\ answer[r] = NoRow
    /\ \E copy \in batch[r] :
          /\ batch' = [batch EXCEPT ![r] = @ \ {copy}]
          /\ \/ /\ Answered(r, copy, "SKIPPED_NOT_CONFIGURED")
                /\ UNCHANGED <<accepted, refused>>
             \/ \E took \in SUBSET Audience(copy.of[2]) :
                   /\ accepted' = [accepted EXCEPT ![copy.of] = @ \cup took]
                   /\ \/ /\ Success(copy.of[2], took)
                         /\ Answered(r, copy, "SENT")
                         /\ UNCHANGED refused
                      \/ /\ Answered(r, copy, "RETRY")
                         /\ refused' = [refused EXCEPT ![copy.of] =
                                           IF @ < MaxAttempts THEN @ + 1 ELSE @]
    /\ UNCHANGED <<arisen, alert, delivery, lock, phase, todo>>

\* Mutants of Exhausted: an attempt too many, an attempt too few.
ExhaustedLate(n) == n > MaxAttempts
ExhaustedSoon(n) == n + 1 >= MaxAttempts

Exhausted(n) == n >= MaxAttempts

\* The row as an answer leaves it, whatever it has become since it was copied
Recorded(x) ==
    LET n == x.attempts + 1
        status == IF x.outcome # "RETRY" THEN x.outcome
                  ELSE IF Exhausted(n) THEN "FAILED" ELSE "PENDING"
    IN  [status |-> status, attempts |-> n, due |-> status # "PENDING"]

Record(r) ==
    /\ answer[r] # NoRow
    /\ delivery' = [delivery EXCEPT ![answer[r].of] = Recorded(answer[r])]
    /\ answer' = [answer EXCEPT ![r] = NoRow]
    /\ UNCHANGED <<arisen, alert, lock, phase, todo, batch, accepted, refused>>

EndRound(r) ==
    /\ phase[r] = "sending" /\ batch[r] = {} /\ answer[r] = NoRow
    /\ Enters(r, "idle")
    /\ UNCHANGED <<arisen, alert, delivery, lock, todo, batch, answer, accepted, refused>>

\* Mutant of Unlocked: the lock is of the session, and outlives the round.
UnlockedNever(r) == lock

\* The lock falls with its transaction.
Unlocked(r) == IF lock = r THEN NoRow ELSE lock

\* The process dies, or an error ends the round: the copies and what was not
\* recorded are lost.
Stop(r) ==
    /\ \/ phase[r] = "queue" \/ (phase[r] = "jobs" /\ lock = r)
       \/ todo[r] # {} \/ batch[r] # {} \/ answer[r] # NoRow
    /\ Enters(r, "idle")
    /\ todo' = [todo EXCEPT ![r] = {}]
    /\ batch' = [batch EXCEPT ![r] = {}]
    /\ answer' = [answer EXCEPT ![r] = NoRow]
    /\ lock' = Unlocked(r)
    /\ UNCHANGED <<arisen, alert, delivery, accepted, refused>>

-----------------------------------------------------------------------------
\* The condition of an alert begins to hold.
Arise(a) ==
    /\ a \notin arisen
    /\ arisen' = arisen \cup {a}
    /\ UNCHANGED <<alert, delivery, lock, round, accepted, refused>>

\* The wait of 2^attempts minutes is over.
Wake(d) ==
    /\ delivery[d] # NoRow /\ ~delivery[d].due
    /\ delivery' = [delivery EXCEPT ![d].due = TRUE]
    /\ UNCHANGED <<arisen, alert, lock, round, accepted, refused>>

Init ==
    /\ arisen = {} /\ alert = {}
    /\ delivery = [d \in Deliveries |-> NoRow]
    /\ lock = NoRow
    /\ phase = [r \in Replicas |-> "idle"]
    /\ todo = [r \in Replicas |-> {}]
    /\ batch = [r \in Replicas |-> {}]
    /\ answer = [r \in Replicas |-> NoRow]
    /\ accepted = [d \in Deliveries |-> {}]
    /\ refused = [d \in Deliveries |-> 0]

Tick(r) ==
    \/ TakeLock(r) \/ SkipJobs(r) \/ \E a \in Alerts : RunJob(r, a)
    \/ EndJobs(r) \/ Fetch(r) \/ Send(r) \/ Record(r) \/ EndRound(r)

Fault(r) == Stop(r) \/ LoseLock(r) \/ \E a \in Alerts : FailJob(r, a)

Next ==
    \/ \E r \in Replicas : Tick(r) \/ Fault(r)
    \/ \E a \in Alerts : Arise(a)
    \/ \E d \in Deliveries : Wake(d)

Spec == Init /\ [][Next]_vars

\* Each replica sets its timer again whatever its round has given, and time
\* passes.
FairSpec ==
    /\ Spec
    /\ \A r \in Replicas : WF_vars(Tick(r))
    /\ \A d \in Deliveries : WF_vars(Wake(d))

-----------------------------------------------------------------------------
(* Properties *)

\* The rows, copies and rounds have the columns and enums of the schema, and
\* no copy has used up its attempts.
OutboxTypeOK ==
    /\ arisen \subseteq Alerts /\ alert \subseteq arisen
    /\ delivery \in [Deliveries -> DeliveryRows \cup {NoRow}]
    /\ lock \in Replicas \cup {NoRow}
    /\ phase \in [Replicas -> {"idle", "jobs", "queue", "sending"}]
    /\ todo \in [Replicas -> SUBSET Alerts]
    /\ batch \in [Replicas -> SUBSET Copies]
    /\ answer \in [Replicas -> Answers \cup {NoRow}]
    /\ accepted \in [Deliveries -> SUBSET (Endpoints \cup {"mailbox"})]
    /\ refused \in [Deliveries -> 0..MaxAttempts]

Is(d, s) == delivery[d] # NoRow /\ delivery[d].status = s

\* What is marked as sent was accepted by all it is for, also when the answer
\* is recorded over what another replica recorded (outbox.service.ts:102).
SentWasAccepted ==
    \A d \in Deliveries : Is(d, "SENT") => Audience(d[2]) \subseteq accepted[d]

\* A delivery is given up only after its five calls were made and failed,
\* though replicas count over one another (outbox.service.ts:21).
FailedWasTried ==
    \A d \in Deliveries : Is(d, "FAILED") => refused[d] = MaxAttempts

Final(d) == delivery[d] # NoRow /\ delivery[d].status # "PENDING"

Held(d) ==
    \E r \in Replicas : \/ \E copy \in batch[r] : copy.of = d
                        \/ answer[r] # NoRow /\ answer[r].of = d

Settled(d) == Final(d) /\ ~Held(d)

\* A delivery that has ended is not sent again, except from the copy of a
\* replica that read it before (notify.service.ts:33: the same key is the same
\* alert, however often a job finds it).
SettledStays == [][\A d \in Deliveries : Settled(d) => Settled(d)']_vars

\* If from some time on no replica stops, loses the lock or fails a job, each
\* alert is raised and each of its deliveries ends for good.
AlertsArrive ==
    <>[][\A r \in Replicas : ~Fault(r)]_vars =>
        \A d \in Deliveries : d[1] \in arisen ~> []Settled(d)
=============================================================================
