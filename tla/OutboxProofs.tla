----------------------------- MODULE OutboxProofs ----------------------------
(***************************************************************************)
(* Theorems about Outbox for any number of replicas, alerts, channels,     *)
(* endpoints and attempts.  The argument is about copies: what a replica   *)
(* holds has never counted more attempts than calls have failed, and its   *)
(* answer says what the receivers did, so that it may be recorded over     *)
(* anything.                                                               *)
(***************************************************************************)
EXTENDS Outbox, TLAPS

\* A row that waits has attempts left, and each of them was a failed call.
RowOf(d, x) ==
    /\ x.status = "PENDING" => x.attempts < MaxAttempts /\ x.attempts <= refused[d]
    /\ x.status = "SENT" => Audience(d[2]) \subseteq accepted[d]
    /\ x.status = "FAILED" => refused[d] = MaxAttempts

RowsTell == \A d \in Deliveries : delivery[d] # NoRow => RowOf(d, delivery[d])

CopiesTell == \A r \in Replicas : \A copy \in batch[r] : copy.attempts <= refused[copy.of]

AnswersTell ==
    \A r \in Replicas : answer[r] # NoRow =>
        /\ answer[r].outcome = "RETRY" => answer[r].attempts + 1 <= refused[answer[r].of]
        /\ answer[r].outcome = "SENT" => Audience(answer[r].of[2]) \subseteq accepted[answer[r].of]

\* Deliveries come with their alert, and copies are of deliveries.
Noticed ==
    /\ \A d \in Deliveries : delivery[d] # NoRow => d[1] \in alert
    /\ \A r \in Replicas : \A copy \in batch[r] : copy.of[1] \in alert
    /\ \A r \in Replicas : answer[r] # NoRow => answer[r].of[1] \in alert

OutboxInv == OutboxTypeOK /\ RowsTell /\ CopiesTell /\ AnswersTell /\ Noticed

\* Nothing was raised, and nobody holds a copy.
LEMMA InitOutbox == Init => OutboxInv
<1> SUFFICES ASSUME Init PROVE OutboxInv
  OBVIOUS
<1>1. OutboxTypeOK
  BY AttemptsAssumption DEF Init, OutboxTypeOK
<1>2. RowsTell /\ CopiesTell /\ AnswersTell /\ Noticed
  BY DEF Init, RowsTell, CopiesTell, AnswersTell, Noticed
<1>. QED BY <1>1, <1>2 DEF OutboxInv

-----------------------------------------------------------------------------
(* What each step leaves *)

\* The steps of the scheduler that write neither rows nor copies.
LEMMA RoundStep ==
    ASSUME OutboxInv, NEW r \in Replicas,
           \/ TakeLock(r) \/ SkipJobs(r) \/ EndJobs(r) \/ LoseLock(r) \/ EndRound(r)
           \/ \E a \in Alerts : FailJob(r, a)
    PROVE  OutboxInv'
<1>1. UNCHANGED <<arisen, alert, delivery, batch, answer, accepted, refused>>
  BY DEF TakeLock, SkipJobs, EndJobs, LoseLock, EndRound, FailJob, round
<1>2. /\ lock' \in Replicas \cup {NoRow}
      /\ phase' \in [Replicas -> {"idle", "jobs", "queue", "sending"}]
      /\ todo' \in [Replicas -> SUBSET Alerts]
  BY DEF OutboxInv, OutboxTypeOK, TakeLock, SkipJobs, EndJobs, LoseLock, EndRound, FailJob, Enters, round
<1>. QED
  BY <1>1, <1>2 DEF OutboxInv, OutboxTypeOK, RowsTell, RowOf, CopiesTell, AnswersTell, Noticed

\* A new alert brings deliveries that were not there.
LEMMA JobStep ==
    ASSUME OutboxInv, NEW r \in Replicas, NEW a \in Alerts, RunJob(r, a)
    PROVE  OutboxInv'
<1>1. /\ UNCHANGED <<arisen, lock, phase, batch, answer, accepted, refused>>
      /\ todo' \in [Replicas -> SUBSET Alerts]
  BY DEF RunJob, OutboxInv, OutboxTypeOK
<1>2. CASE a \in arisen /\ Fresh(a)
  <2>1. /\ alert' = alert \cup {a}
        /\ delivery' = [d \in Deliveries |-> IF d[1] = a THEN NewDelivery ELSE delivery[d]]
    BY <1>2 DEF RunJob
  <2>2. NewDelivery \in DeliveryRows
    BY AttemptsAssumption DEF NewDelivery, DeliveryRows, Statuses
  <2>3. \A d \in Deliveries : RowOf(d, NewDelivery)
    BY AttemptsAssumption DEF NewDelivery, RowOf, OutboxInv, OutboxTypeOK
  <2>4. delivery' \in [Deliveries -> DeliveryRows \cup {NoRow}]
    BY <2>1, <2>2 DEF OutboxInv, OutboxTypeOK
  <2>5. OutboxTypeOK'
    BY <1>1, <1>2, <2>1, <2>4 DEF OutboxInv, OutboxTypeOK
  <2>6. RowsTell'
    BY <1>1, <2>1, <2>3 DEF OutboxInv, RowsTell, RowOf
  <2>7. Noticed'
    BY <1>1, <2>1 DEF OutboxInv, Noticed
  <2>. QED
    BY <1>1, <2>5, <2>6, <2>7 DEF OutboxInv, CopiesTell, AnswersTell
<1>3. CASE ~(a \in arisen /\ Fresh(a))
  <2>1. UNCHANGED <<alert, delivery>>
    BY <1>3 DEF RunJob
  <2>. QED
    BY <1>1, <2>1 DEF OutboxInv, OutboxTypeOK, RowsTell, RowOf, CopiesTell, AnswersTell, Noticed
<1>. QED BY <1>2, <1>3

\* A copy is made of a row that waits, so it has attempts left.
LEMMA FetchStep ==
    ASSUME OutboxInv, NEW r \in Replicas, Fetch(r)
    PROVE  OutboxInv'
<1> DEFINE copies == {CopyOf(d) : d \in {e \in Deliveries : Due(e)}}
<1>1. /\ UNCHANGED <<arisen, alert, delivery, lock, todo, answer, accepted, refused>>
      /\ batch' = [batch EXCEPT ![r] = copies]
      /\ phase' \in [Replicas -> {"idle", "jobs", "queue", "sending"}]
  BY DEF Fetch, Enters, OutboxInv, OutboxTypeOK
<1>2. \A copy \in copies : /\ copy \in Copies /\ copy.of[1] \in alert
                          /\ copy.attempts <= refused[copy.of]
  <2> SUFFICES ASSUME NEW d \in Deliveries, Due(d)
               PROVE  /\ CopyOf(d) \in Copies /\ CopyOf(d).of[1] \in alert
                      /\ CopyOf(d).attempts <= refused[CopyOf(d).of]
    OBVIOUS
  <2>1. delivery[d] \in DeliveryRows /\ RowOf(d, delivery[d]) /\ delivery[d].status = "PENDING"
    BY DEF Due, OutboxInv, OutboxTypeOK, RowsTell
  <2>2. delivery[d].attempts \in 0..(MaxAttempts - 1) /\ delivery[d].attempts <= refused[d]
    BY <2>1, AttemptsAssumption DEF RowOf, DeliveryRows
  <2>3. d[1] \in alert
    BY DEF Due, OutboxInv, Noticed
  <2>. QED BY <2>2, <2>3 DEF CopyOf, Copies
<1> HIDE DEF copies
<1>3. batch' \in [Replicas -> SUBSET Copies]
  BY <1>1, <1>2 DEF OutboxInv, OutboxTypeOK
<1>4. CopiesTell' /\ Noticed'
  BY <1>1, <1>2 DEF OutboxInv, OutboxTypeOK, CopiesTell, Noticed
<1>. QED
  BY <1>1, <1>3, <1>4 DEF OutboxInv, OutboxTypeOK, RowsTell, RowOf, AnswersTell

\* The answer to a call says what the receivers did, and the history of calls
\* only grows.
LEMMA SendStep ==
    ASSUME OutboxInv, NEW r \in Replicas, Send(r)
    PROVE  OutboxInv'
<1>1. PICK copy \in batch[r] :
        /\ batch' = [batch EXCEPT ![r] = @ \ {copy}]
        /\ \/ /\ Answered(r, copy, "SKIPPED_NOT_CONFIGURED")
              /\ UNCHANGED <<accepted, refused>>
           \/ \E took \in SUBSET Audience(copy.of[2]) :
                 /\ accepted' = [accepted EXCEPT ![copy.of] = @ \cup took]
                 /\ \/ /\ Success(copy.of[2], took)
                       /\ Answered(r, copy, "SENT")
                       /\ UNCHANGED refused
                    \/ /\ Answered(r, copy, "RETRY")
                       /\ refused' = [refused EXCEPT ![copy.of] =
                                         IF @ < MaxAttempts THEN @ + 1 ELSE @]
  BY DEF Send
<1> DEFINE d == copy.of
<1>2. UNCHANGED <<arisen, alert, delivery, lock, phase, todo>>
  BY DEF Send
<1>3. /\ copy \in Copies /\ d \in Deliveries
      /\ copy.attempts \in 0..(MaxAttempts - 1) /\ copy.attempts <= refused[d]
  BY DEF OutboxInv, OutboxTypeOK, CopiesTell, Copies
<1>4. PICK o \in {"SENT", "RETRY", "SKIPPED_NOT_CONFIGURED"} :
        /\ Answered(r, copy, o)
        /\ o = "RETRY" => refused' = [refused EXCEPT ![d] =
                                         IF @ < MaxAttempts THEN @ + 1 ELSE @]
        /\ o # "RETRY" => UNCHANGED refused
        /\ o = "SENT" => accepted' = [accepted EXCEPT ![d] = @ \cup Audience(d[2])]
        /\ \/ UNCHANGED accepted
           \/ \E took \in SUBSET Audience(d[2]) :
                 accepted' = [accepted EXCEPT ![d] = @ \cup took]
  BY <1>1 DEF Success
<1> HIDE DEF d
<1>5. Audience(d[2]) \subseteq Endpoints \cup {"mailbox"}
  BY DEF Audience
<1>6. /\ accepted' \in [Deliveries -> SUBSET (Endpoints \cup {"mailbox"})]
      /\ \A e \in Deliveries : accepted[e] \subseteq accepted'[e]
      /\ o = "SENT" => Audience(d[2]) \subseteq accepted'[d]
  BY <1>3, <1>4, <1>5 DEF OutboxInv, OutboxTypeOK
<1>7. /\ refused' \in [Deliveries -> 0..MaxAttempts]
      /\ \A e \in Deliveries : refused[e] <= refused'[e]
      /\ o = "RETRY" => copy.attempts + 1 <= refused'[d]
  BY <1>3, <1>4, AttemptsAssumption DEF OutboxInv, OutboxTypeOK
<1> DEFINE x == [of |-> d, attempts |-> copy.attempts, outcome |-> o]
<1>8. /\ answer' = [answer EXCEPT ![r] = x]
      /\ x \in Answers
  BY <1>3, <1>4 DEF Answered, Answers, d
<1>9. /\ x.of = d /\ x.attempts = copy.attempts /\ x.outcome = o
  OBVIOUS
<1> HIDE DEF x
<1>10. answer' \in [Replicas -> Answers \cup {NoRow}] /\ batch' \in [Replicas -> SUBSET Copies]
  BY <1>1, <1>8 DEF OutboxInv, OutboxTypeOK
<1>11. OutboxTypeOK'
  BY <1>2, <1>6, <1>7, <1>10 DEF OutboxInv, OutboxTypeOK
<1>12. RowsTell'
  <2> SUFFICES ASSUME NEW e \in Deliveries, delivery[e] # NoRow
               PROVE  RowOf(e, delivery[e])'
    BY <1>2 DEF RowsTell
  <2>1. RowOf(e, delivery[e]) /\ delivery[e] \in DeliveryRows
    BY DEF OutboxInv, OutboxTypeOK, RowsTell
  <2>2. delivery[e].attempts \in Nat /\ refused[e] \in 0..MaxAttempts /\ refused'[e] \in 0..MaxAttempts
    BY <2>1, <1>7 DEF DeliveryRows, OutboxInv, OutboxTypeOK
  <2>3. refused[e] <= refused'[e] /\ accepted[e] \subseteq accepted'[e]
    BY <1>6, <1>7
  <2>. QED BY <1>2, <2>1, <2>2, <2>3, AttemptsAssumption DEF RowOf
<1>13. CopiesTell'
  <2> SUFFICES ASSUME NEW s \in Replicas, NEW c \in batch'[s]
               PROVE  c.attempts <= refused'[c.of]
    BY DEF CopiesTell
  <2>1. c \in batch[s]
    BY <1>1 DEF OutboxInv, OutboxTypeOK
  <2>2. c \in Copies /\ c.attempts <= refused[c.of]
    BY <2>1 DEF OutboxInv, OutboxTypeOK, CopiesTell
  <2>3. c.of \in Deliveries /\ c.attempts \in Nat
    BY <2>2 DEF Copies
  <2>. QED BY <2>2, <2>3, <1>7 DEF OutboxInv, OutboxTypeOK
<1>14. AnswersTell'
  <2> SUFFICES ASSUME NEW s \in Replicas, answer'[s] # NoRow
               PROVE  /\ answer'[s].outcome = "RETRY" =>
                             answer'[s].attempts + 1 <= refused'[answer'[s].of]
                      /\ answer'[s].outcome = "SENT" =>
                             Audience(answer'[s].of[2]) \subseteq accepted'[answer'[s].of]
    BY DEF AnswersTell, Audience
  <2>1. CASE s = r
    BY <2>1, <1>6, <1>7, <1>8, <1>9 DEF OutboxInv, OutboxTypeOK
  <2>2. CASE s # r
    <3>1. answer'[s] = answer[s] /\ answer[s] \in Answers
      BY <2>2, <1>8 DEF OutboxInv, OutboxTypeOK
    <3>2. answer[s].of \in Deliveries /\ answer[s].attempts \in Nat
      BY <3>1 DEF Answers
    <3>3. /\ answer[s].outcome = "RETRY" => answer[s].attempts + 1 <= refused[answer[s].of]
          /\ answer[s].outcome = "SENT" =>
                 Audience(answer[s].of[2]) \subseteq accepted[answer[s].of]
      BY <3>1 DEF OutboxInv, AnswersTell
    <3>4. /\ refused[answer[s].of] \in Nat /\ refused'[answer[s].of] \in Nat
          /\ refused[answer[s].of] <= refused'[answer[s].of]
          /\ accepted[answer[s].of] \subseteq accepted'[answer[s].of]
      BY <3>2, <1>6, <1>7 DEF OutboxInv, OutboxTypeOK
    <3>. QED BY <3>1, <3>2, <3>3, <3>4
  <2>. QED BY <2>1, <2>2
<1>15. Noticed'
  <2>1. d[1] \in alert /\ \A s \in Replicas : batch'[s] \subseteq batch[s]
    BY <1>1 DEF OutboxInv, OutboxTypeOK, Noticed, d
  <2>2. \A s \in Replicas : s # r => answer'[s] = answer[s]
    BY <1>8 DEF OutboxInv, OutboxTypeOK
  <2>3. answer'[r].of[1] \in alert
    BY <2>1, <1>8, <1>9 DEF OutboxInv, OutboxTypeOK
  <2>. QED BY <1>2, <2>1, <2>2, <2>3 DEF OutboxInv, Noticed
<1>. QED
  BY <1>11, <1>12, <1>13, <1>14, <1>15 DEF OutboxInv

\* What an answer leaves is a row that tells the truth.
LEMMA RecordStep ==
    ASSUME OutboxInv, NEW r \in Replicas, Record(r)
    PROVE  OutboxInv'
<1> DEFINE x == answer[r]
           row == Recorded(x)
<1>1. /\ UNCHANGED <<arisen, alert, lock, phase, todo, batch, accepted, refused>>
      /\ x # NoRow
      /\ delivery' = [delivery EXCEPT ![x.of] = row]
      /\ answer' = [answer EXCEPT ![r] = NoRow]
  BY DEF Record
<1>2. /\ x.of \in Deliveries /\ x.attempts \in 0..(MaxAttempts - 1)
      /\ x.outcome \in {"SENT", "RETRY", "SKIPPED_NOT_CONFIGURED"}
  BY <1>1 DEF OutboxInv, OutboxTypeOK, Answers
<1>3. /\ x.outcome = "RETRY" => x.attempts + 1 <= refused[x.of]
      /\ x.outcome = "SENT" => Audience(x.of[2]) \subseteq accepted[x.of]
      /\ refused[x.of] \in 0..MaxAttempts
  BY <1>1, <1>2 DEF OutboxInv, OutboxTypeOK, AnswersTell
<1>4. row \in DeliveryRows /\ RowOf(x.of, row)
  <2> DEFINE n == x.attempts + 1
             status == IF x.outcome # "RETRY" THEN x.outcome
                       ELSE IF Exhausted(n) THEN "FAILED" ELSE "PENDING"
  <2>1. row = [status |-> status, attempts |-> n, due |-> status # "PENDING"]
    BY DEF Recorded
  <2>2. n \in 0..MaxAttempts
    BY <1>2, AttemptsAssumption
  <2>3. /\ status \in Statuses
        /\ status = "SENT" => x.outcome = "SENT"
        /\ status = "PENDING" => x.outcome = "RETRY" /\ n < MaxAttempts
        /\ status = "FAILED" => x.outcome = "RETRY" /\ n >= MaxAttempts
    <3> HIDE DEF x, n
    <3>1. CASE x.outcome # "RETRY"
      <4>1. status = x.outcome
        BY <3>1
      <4>2. x.outcome \in {"SENT", "SKIPPED_NOT_CONFIGURED"}
        BY <3>1, <1>2
      <4> HIDE DEF status
      <4>. QED BY <4>1, <4>2 DEF Statuses
    <3>2. CASE x.outcome = "RETRY" /\ Exhausted(n)
      BY <3>2 DEF Statuses, Exhausted
    <3>3. CASE x.outcome = "RETRY" /\ ~Exhausted(n)
      <4>1. status = "PENDING"
        BY <3>3
      <4>2. n < MaxAttempts
        BY <3>3, <2>2, AttemptsAssumption DEF Exhausted
      <4>. QED BY <3>3, <4>1, <4>2 DEF Statuses
    <3>. QED BY <3>1, <3>2, <3>3
  <2> HIDE DEF status
  <2>4. row \in DeliveryRows
    BY <2>1, <2>2, <2>3 DEF DeliveryRows
  <2>5. row.status = status /\ row.attempts = n
    BY <2>1
  <2>. HIDE DEF row
  <2>6. RowOf(x.of, row)
    BY <1>2, <1>3, <2>2, <2>3, <2>5, AttemptsAssumption DEF RowOf
  <2>. QED BY <2>4, <2>6
<1> HIDE DEF row
<1>5. OutboxTypeOK'
  BY <1>1, <1>2, <1>4 DEF OutboxInv, OutboxTypeOK
<1>6. RowsTell'
  BY <1>1, <1>2, <1>4 DEF OutboxInv, OutboxTypeOK, RowsTell, RowOf
<1>7. AnswersTell' /\ CopiesTell'
  BY <1>1 DEF OutboxInv, OutboxTypeOK, AnswersTell, CopiesTell
<1>8. Noticed'
  BY <1>1, <1>2 DEF OutboxInv, OutboxTypeOK, Noticed
<1>. QED BY <1>5, <1>6, <1>7, <1>8 DEF OutboxInv

\* What a replica loses when it stops says nothing any more.
LEMMA StopStep ==
    ASSUME OutboxInv, NEW r \in Replicas, Stop(r)
    PROVE  OutboxInv'
<1>1. /\ UNCHANGED <<arisen, alert, delivery, accepted, refused>>
      /\ batch' = [batch EXCEPT ![r] = {}]
      /\ answer' = [answer EXCEPT ![r] = NoRow]
  BY DEF Stop
<1>2. OutboxTypeOK'
  BY DEF Stop, Enters, Unlocked, OutboxInv, OutboxTypeOK
<1>3. RowsTell'
  BY <1>1 DEF OutboxInv, RowsTell, RowOf
<1>4. CopiesTell' /\ AnswersTell' /\ Noticed'
  BY <1>1 DEF OutboxInv, OutboxTypeOK, CopiesTell, AnswersTell, Noticed
<1>. QED BY <1>2, <1>3, <1>4 DEF OutboxInv

\* Time and the business write no more than what is due.
LEMMA WorldStep ==
    ASSUME OutboxInv,
           (\E a \in Alerts : Arise(a)) \/ (\E d \in Deliveries : Wake(d))
    PROVE  OutboxInv'
<1>1. CASE \E a \in Alerts : Arise(a)
  BY <1>1 DEF Arise, round, OutboxInv, OutboxTypeOK, RowsTell, RowOf, CopiesTell, AnswersTell, Noticed
<1>2. ASSUME NEW d \in Deliveries, Wake(d)
      PROVE  OutboxInv'
  <2>1. /\ UNCHANGED <<arisen, alert, lock, phase, todo, batch, answer, accepted, refused>>
        /\ delivery' = [delivery EXCEPT ![d].due = TRUE]
        /\ delivery[d] # NoRow
    BY <1>2 DEF Wake, round
  <2>2. /\ delivery[d] \in DeliveryRows
        /\ delivery'[d] = [delivery[d] EXCEPT !.due = TRUE]
        /\ \A e \in Deliveries : e # d => delivery'[e] = delivery[e]
    BY <2>1 DEF OutboxInv, OutboxTypeOK
  <2>3. /\ delivery'[d] \in DeliveryRows
        /\ delivery'[d].status = delivery[d].status
        /\ delivery'[d].attempts = delivery[d].attempts
    BY <2>2 DEF DeliveryRows
  <2>4. delivery' \in [Deliveries -> DeliveryRows \cup {NoRow}]
    BY <2>1, <2>3 DEF OutboxInv, OutboxTypeOK
  <2>5. RowsTell' /\ Noticed'
    BY <2>1, <2>2, <2>3 DEF OutboxInv, RowsTell, RowOf, Noticed
  <2>. QED
    BY <2>1, <2>4, <2>5 DEF OutboxInv, OutboxTypeOK, CopiesTell, AnswersTell
<1>. QED BY <1>1, <1>2

\* Every step keeps the invariant.
LEMMA OutboxStep == OutboxInv /\ [Next]_vars => OutboxInv'
<1> SUFFICES ASSUME OutboxInv, [Next]_vars PROVE OutboxInv'
  OBVIOUS
<1>1. CASE \E r \in Replicas : Tick(r) \/ Fault(r)
  BY <1>1, RoundStep, JobStep, FetchStep, SendStep, RecordStep, StopStep DEF Tick, Fault
<1>2. CASE (\E a \in Alerts : Arise(a)) \/ (\E d \in Deliveries : Wake(d))
  BY <1>2, WorldStep
<1>3. CASE UNCHANGED vars
  BY <1>3 DEF vars, OutboxInv, OutboxTypeOK, RowsTell, RowOf, CopiesTell, AnswersTell, Noticed
<1>. QED BY <1>1, <1>2, <1>3 DEF Next

-----------------------------------------------------------------------------
(* Theorems *)

\* Every row, copy and answer has the columns of the schema, and no replica ever
\* holds a copy that has used up its attempts.
THEOREM OutboxIsTyped == Spec => []OutboxTypeOK
<1>1. OutboxInv => OutboxTypeOK
  BY DEF OutboxInv
<1>. QED BY <1>1, InitOutbox, OutboxStep, PTL DEF Spec

\* A delivery that is marked as sent was accepted by all it is for, with any
\* number of replicas that record over one another.
THEOREM OutboxTells == Spec => []SentWasAccepted
<1>1. OutboxInv => SentWasAccepted
  BY DEF OutboxInv, RowsTell, RowOf, SentWasAccepted, Is
<1>. QED BY <1>1, InitOutbox, OutboxStep, PTL DEF Spec

\* A delivery that is given up was tried as often as the code promises, although
\* each replica counts from the copy that it read.
THEOREM GivenUpWasTried == Spec => []FailedWasTried
<1>1. OutboxInv => FailedWasTried
  BY DEF OutboxInv, RowsTell, RowOf, FailedWasTried, Is
<1>. QED BY <1>1, InitOutbox, OutboxStep, PTL DEF Spec

\* A step that begins where a delivery has ended and nobody holds it leaves it so.
LEMMA SettledStep ==
    ASSUME OutboxInv, Next, NEW d \in Deliveries, Settled(d)
    PROVE  Settled(d)'
<1>1. /\ delivery[d] \in DeliveryRows /\ delivery[d].status # "PENDING" /\ d[1] \in alert
      /\ \A r \in Replicas : /\ \A copy \in batch[r] : copy.of # d
                             /\ answer[r] # NoRow => answer[r].of # d
  BY DEF OutboxInv, OutboxTypeOK, Noticed, Settled, Final, Held
<1>2. \A x \in DeliveryRows : x # NoRow
  BY OutboxRowAssumption
<1> SUFFICES /\ delivery'[d] \in DeliveryRows /\ delivery'[d].status # "PENDING"
             /\ \A r \in Replicas : /\ \A copy \in batch'[r] : copy.of # d
                                    /\ answer'[r] # NoRow => answer'[r].of # d
  BY <1>2 DEF Settled, Final, Held
<1>3. CASE UNCHANGED <<delivery, batch, answer>>
  BY <1>1, <1>3
<1>4. ASSUME NEW r \in Replicas, NEW a \in Alerts, RunJob(r, a)
      PROVE  delivery'[d] = delivery[d] /\ UNCHANGED <<batch, answer>>
  BY <1>1, <1>4 DEF RunJob, Fresh
<1>5. ASSUME NEW r \in Replicas, Fetch(r)
      PROVE  UNCHANGED <<delivery, answer>> /\ \A s \in Replicas : \A copy \in batch'[s] : copy.of # d
  <2>1. /\ UNCHANGED <<delivery, answer>>
        /\ batch' = [batch EXCEPT ![r] = {CopyOf(e) : e \in {f \in Deliveries : Due(f)}}]
    BY <1>5 DEF Fetch
  <2>2. \A copy \in {CopyOf(e) : e \in {f \in Deliveries : Due(f)}} : copy.of # d
    BY <1>1 DEF CopyOf, Due
  <2>. QED BY <1>1, <2>1, <2>2 DEF OutboxInv, OutboxTypeOK
<1>6. ASSUME NEW r \in Replicas, Send(r)
      PROVE  /\ UNCHANGED delivery
             /\ \A s \in Replicas : /\ \A copy \in batch'[s] : copy.of # d
                                    /\ answer'[s] # NoRow => answer'[s].of # d
  <2>1. PICK copy \in batch[r], o \in {"SENT", "RETRY", "SKIPPED_NOT_CONFIGURED"} :
          /\ batch' = [batch EXCEPT ![r] = @ \ {copy}]
          /\ Answered(r, copy, o)
    BY <1>6 DEF Send
  <2>2. UNCHANGED delivery
    BY <1>6 DEF Send
  <2>3. \A s \in Replicas : batch'[s] \subseteq batch[s]
    BY <2>1 DEF OutboxInv, OutboxTypeOK
  <2>4. copy.of # d
    BY <1>1
  <2>5. \A s \in Replicas : answer'[s] = IF s = r THEN [of |-> copy.of, attempts |-> copy.attempts, outcome |-> o]
                                        ELSE answer[s]
    BY <2>1 DEF Answered, OutboxInv, OutboxTypeOK
  <2>. QED BY <1>1, <2>2, <2>3, <2>4, <2>5
<1>7. ASSUME NEW r \in Replicas, Record(r)
      PROVE  /\ delivery'[d] = delivery[d] /\ UNCHANGED batch
             /\ \A s \in Replicas : answer'[s] \in {NoRow, answer[s]}
  BY <1>1, <1>7 DEF Record, OutboxInv, OutboxTypeOK
<1>8. ASSUME NEW r \in Replicas, Stop(r)
      PROVE  /\ UNCHANGED delivery
             /\ \A s \in Replicas : batch'[s] \subseteq batch[s] /\ answer'[s] \in {NoRow, answer[s]}
  BY <1>8 DEF Stop, OutboxInv, OutboxTypeOK
<1>9. ASSUME NEW e \in Deliveries, Wake(e)
      PROVE  /\ delivery'[d] \in DeliveryRows /\ delivery'[d].status = delivery[d].status
             /\ UNCHANGED <<batch, answer>>
  <2>1. delivery'[d] = delivery[d] \/ delivery'[d] = [delivery[d] EXCEPT !.due = TRUE]
    BY <1>9 DEF Wake, OutboxInv, OutboxTypeOK
  <2>2. UNCHANGED <<batch, answer>>
    BY <1>9 DEF Wake, round
  <2>. QED BY <1>1, <2>1, <2>2 DEF DeliveryRows
<1>10. ASSUME NEW r \in Replicas, Tick(r) \/ Fault(r)
       PROVE  \/ \E a \in Alerts : RunJob(r, a)
              \/ Fetch(r) \/ Send(r) \/ Record(r) \/ Stop(r)
              \/ UNCHANGED <<delivery, batch, answer>>
  BY <1>10 DEF Tick, Fault, TakeLock, SkipJobs, EndJobs, LoseLock, EndRound, FailJob, round
<1>11. CASE \E a \in Alerts : Arise(a)
  BY <1>1, <1>11 DEF Arise, round
<1>. QED BY <1>1, <1>3, <1>4, <1>5, <1>6, <1>7, <1>8, <1>9, <1>10, <1>11 DEF Next

\* Once a delivery has ended and no replica holds a copy of it, it has ended
\* for good, whatever the jobs find again and however the replicas race.
THEOREM EndedForGood == Spec => SettledStays
<1>1. OutboxInv /\ [Next]_vars => [\A d \in Deliveries : Settled(d) => Settled(d)']_vars
  <2> SUFFICES ASSUME OutboxInv, Next, NEW d \in Deliveries, Settled(d) PROVE Settled(d)'
    OBVIOUS
  <2>. QED BY SettledStep
<1>. QED BY <1>1, InitOutbox, OutboxStep, PTL DEF Spec, SettledStays
=============================================================================
