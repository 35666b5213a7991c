-------------------------- MODULE WebhookDelivery --------------------------
(***************************************************************************)
(* The life of a document with its webhook deliveries in detail            *)
(* (WebhookDeliverer.deliver).  DocumentLifecycle sees a delivery that     *)
(* ends; here it makes its attempts, whose answers may get lost, and       *)
(* writes what it did when its session commits.  Between two attempts it   *)
(* sleeps, for seconds or minutes, and everything else goes on.            *)
(*                                                                         *)
(* The session is one transaction: the delivery rows, the audit event and  *)
(* the dead letter are flushed by its commit (autoflush is off), so a task *)
(* that dies leaves none of them, and none can be written for a document   *)
(* that was erased meanwhile.                                              *)
(***************************************************************************)
EXTENDS DocumentLifecycle

CONSTANT Attempts \* how many attempts the schedule allows

\* At least one, and the table takes no attempt above the tenth.
ASSUME SomeAttempts == Attempts \in 1..10

VARIABLES
  payload,  \* what each run's delivery posts: the status and the extraction it read
  posted,   \* the attempts of each run's delivery, added to its session
  recorded, \* webhook_deliveries: the attempts that were committed
  event,    \* audit_log: how the delivery of each run ended
  letterOf, \* dlq: the runs whose delivery wrote each entry
  accepted  \* observer: runs whose result the receiver has accepted

hookVars  == <<payload, posted, recorded, event, letterOf, accepted>>
deliveryVars == <<vars, hookVars>>

NoPayload == [status |-> "absent", extraction |-> "unread"]

\* http_status: 2xx, another one, or NULL when the request raised.
Statuses == {"2xx", "other", "none"}

NoPost == [made |-> 0, last |-> "none"]

HookTypeOK ==
  /\ payload \in [Runs -> [status : DocStatuses, extraction : {"unread", "none", "there"}]]
  /\ posted \in [Runs -> [made : 0..Attempts, last : Statuses]]
  /\ recorded \in [Runs -> [made : 0..Attempts, last : Statuses]]
  /\ event \in [Runs -> {"none", "WEBHOOK_DELIVERED", "WEBHOOK_EXHAUSTED"}]
  /\ letterOf \in [Entries -> SUBSET Runs]
  /\ accepted \subseteq Runs

\* Every variable, the documents' and the deliveries', has its type: no column
\* takes a value its CHECK refuses, no delivery outruns its schedule.
DeliveryTypeOK == TypeOK /\ HookTypeOK

DeliveryInit ==
  /\ Init
  /\ payload = [r \in Runs |-> NoPayload]
  /\ posted = [r \in Runs |-> NoPost]
  /\ recorded = [r \in Runs |-> NoPost]
  /\ event = [r \in Runs |-> "none"]
  /\ letterOf = [e \in Entries |-> {}]
  /\ accepted = {}

-----------------------------------------------------------------------------
(* _deliver_webhook: the payload *)

\* Mutant of Shown: the status the run ended with.
ShownFinal(r) == st[r].status

\* The status in the payload is the row's, which may be another run's, a
\* reviewer's or an erasure's.
Shown(r) == doc[target[r]].status

\* The document and the tenant are read.
Begin(r) ==
  /\ HookBegin(r)
  /\ payload' = IF pc'[r] = "posting" THEN [payload EXCEPT ![r].status = Shown(r)]
                                      ELSE payload
  /\ UNCHANGED <<posted, recorded, event, letterOf, accepted>>

\* Then the extraction, by a statement of its own.
Gather(r) ==
  /\ pc[r] = "posting" /\ payload[r].extraction = "unread"
  /\ payload' = [payload EXCEPT ![r].extraction = IF result[target[r]] THEN "there" ELSE "none"]
  /\ UNCHANGED <<vars, posted, recorded, event, letterOf, accepted>>

-----------------------------------------------------------------------------
(* WebhookDeliverer.deliver *)

Succeeded(r) == posted[r].last = "2xx"

Exhausted(r) == posted[r].made = Attempts /\ ~ Succeeded(r)

\* The loop goes on.
Trying(r) ==
  /\ pc[r] = "posting" /\ payload[r].extraction # "unread"
  /\ ~ Succeeded(r) /\ ~ Exhausted(r)

\* Mutant of Post: an attempt that failed does not use up the schedule.
PostUncounted(r) ==
  /\ Trying(r)
  /\ \E status \in Statuses :
       /\ posted' = [posted EXCEPT ![r] = [made |-> @.made + IF status = "2xx" THEN 1 ELSE 0,
                                           last |-> status]]
       /\ accepted' = IF status = "2xx" THEN accepted \cup {r} ELSE accepted
  /\ UNCHANGED <<vars, payload, recorded, event, letterOf>>

\* Mutant of Post: the attempt after the last one is made too.
PostOnceMore(r) ==
  /\ pc[r] = "posting" /\ payload[r].extraction # "unread" /\ ~ Succeeded(r)
  /\ posted[r].made <= Attempts
  /\ \E status \in Statuses :
       /\ posted' = [posted EXCEPT ![r] = [made |-> @.made + 1, last |-> status]]
       /\ accepted' = IF status = "2xx" THEN accepted \cup {r} ELSE accepted
  /\ UNCHANGED <<vars, payload, recorded, event, letterOf>>

\* Mutant of Post: every attempt is committed on its own.
PostCommitted(r) ==
  /\ Trying(r)
  /\ \E status \in Statuses :
       /\ posted' = [posted EXCEPT ![r] = [made |-> @.made + 1, last |-> status]]
       /\ recorded' = IF Exists(doc[target[r]]) THEN [recorded EXCEPT ![r] = posted'[r]]
                                                ELSE recorded
       /\ accepted' = IF status = "2xx" THEN accepted \cup {r} ELSE accepted
  /\ UNCHANGED <<vars, payload, event, letterOf>>

\* One attempt: an answer, or an HTTP or network error, which also stands for
\* an answer that got lost after the receiver had accepted the request.
Post(r) ==
  /\ Trying(r)
  /\ \E status \in Statuses :
       /\ posted' = [posted EXCEPT ![r] = [made |-> @.made + 1, last |-> status]]
       /\ \/ status \in {"2xx", "none"} /\ accepted' = accepted \cup {r}
          \/ status \in {"other", "none"} /\ UNCHANGED accepted
  /\ UNCHANGED <<vars, payload, recorded, event, letterOf>>

\* What the session has added is written, unless the document is gone: then the
\* foreign keys fail and nothing is.
Committed(r, ending) ==
  /\ payload' = [payload EXCEPT ![r] = NoPayload]
  /\ posted' = [posted EXCEPT ![r] = NoPost]
  /\ IF Exists(doc[target[r]])
       THEN /\ recorded' = [recorded EXCEPT ![r] = posted[r]]
            /\ event' = [event EXCEPT ![r] = ending]
       ELSE UNCHANGED <<recorded, event>>
  /\ UNCHANGED accepted

Deliver(r) ==
  /\ Succeeded(r)
  /\ HookDelivered(r)
  /\ Committed(r, "WEBHOOK_DELIVERED")
  /\ UNCHANGED letterOf

\* With the dead letter of DocumentLifecycle, if it can be written.
Exhaust(r) ==
  /\ Exhausted(r)
  /\ \/ HookExhausted(r)
     \/ ~ Exists(doc[target[r]]) /\ HookDelivered(r)
  /\ Committed(r, "WEBHOOK_EXHAUSTED")
  /\ letterOf' = [e \in Entries |->
                   IF entry'[e] # entry[e] THEN letterOf[e] \cup {r} ELSE letterOf[e]]

Delivery(r) == Begin(r) \/ Gather(r) \/ Post(r) \/ Deliver(r) \/ Exhaust(r)

-----------------------------------------------------------------------------
(* Everything else *)

\* _process, before it schedules the delivery.
Process(r) ==
  RunLoad(r) \/ RunStart(r) \/ GraphStep(r) \/ PersistRead(r) \/ PersistCommit(r)

\* The steps of DocumentLifecycle but for those of deliveries.
Elsewhere ==
  \/ \E d \in Docs : UploadStep(d) \/ UploadFails(d)
  \/ \E r \in Runs : Process(r)
  \/ \E x \in Erasures : EraseStep(x) \/ \E d \in Docs : EraseCancel(x, d)
  \/ \E q \in Retries : RetryStep(q) \/ \E e \in Entries : RetryRead(q, e)
  \/ \E a \in Reviewers :
       ReviewStep(a) \/ \E d \in Docs, action \in Actions : ReviewRead(a, d, action)
  \/ \E p \in Procs : Abort(p)
  \/ Crash

\* A document's delivery rows go with it (ON DELETE CASCADE).
Cascaded(r) ==
  target[r] \in Docs /\ Exists(doc[target[r]]) /\ ~ Exists(doc'[target[r]])

\* A delivery that is aborted or dies with the process rolls back.  Audit events
\* have no foreign key and stay.
Other ==
  /\ Elsewhere
  /\ payload' = [r \in Runs |-> IF pc'[r] = "posting" THEN payload[r] ELSE NoPayload]
  /\ posted' = [r \in Runs |-> IF pc'[r] = "posting" THEN posted[r] ELSE NoPost]
  /\ recorded' = [r \in Runs |-> IF Cascaded(r) THEN NoPost ELSE recorded[r]]
  /\ UNCHANGED <<event, letterOf, accepted>>

DeliveryNext == Other \/ \E r \in Runs : Delivery(r)

DeliverySpec == DeliveryInit /\ [][DeliveryNext]_deliveryVars

\* As FairSpec of DocumentLifecycle; a POST is answered or times out.
FairDeliverySpec ==
  /\ DeliverySpec
  /\ \A d \in Docs : WF_vars(UploadCommit(d)) /\ WF_vars(UploadEnqueue(d))
  /\ \A r \in Runs : WF_vars(Process(r)) /\ WF_deliveryVars(Delivery(r))
  /\ \A x \in Erasures : WF_vars(EraseStep(x))
  /\ \A q \in Retries : WF_vars(RetryStep(q))
  /\ \A a \in Reviewers : WF_vars(ReviewStep(a))

-----------------------------------------------------------------------------
(* Safety *)

\* A payload that calls the document completed, or waiting for review, carries
\* its extraction, though the two are read one after the other and other runs,
\* reviewers and retries go on in between; only an erasure can take it away.
PayloadIsWhole ==
  \A r \in Runs :
    payload[r].status \in {"completed", "review"} /\ payload[r].extraction = "none"
      => ~ Exists(doc[target[r]])

\* What a delivery leaves behind is all of it or nothing, whatever it raced
\* with and wherever it was cut off: the attempts, the event that says how they
\* ended and, for an exhausted schedule, one dead letter.  A delivery said to be
\* delivered was accepted.
RecordIsWhole ==
  \A r \in Runs :
    LET letters == {e \in Entries : r \in letterOf[e]} IN
    /\ recorded[r] # NoPost => event[r] # "none"
    /\ event[r] = "WEBHOOK_DELIVERED" => r \in accepted /\ letters = {}
    /\ event[r] = "WEBHOOK_EXHAUSTED" => \E e \in letters : letters = {e} /\ letterOf[e] = {r}
    /\ event[r] # "none" /\ Exists(doc[target[r]]) =>
         /\ recorded[r].last = "2xx" <=> event[r] = "WEBHOOK_DELIVERED"
         /\ recorded[r].last # "2xx" => recorded[r].made = Attempts

\* What a delivery has still to do before its loop ends: the extraction to read and
\* the attempts of its schedule.
AttemptsLeft(r) ==
  (Attempts - posted[r].made) + IF payload[r].extraction = "unread" THEN 1 ELSE 0

\* Each of its steps leaves it less to do, and nobody else's step changes what it
\* has done so far; a receiver that has answered 2xx is not asked again
\* (webhook_delivery.py:69-98).
AttemptsAdvance ==
  [][\A r \in Runs : pc[r] = "posting" /\ pc'[r] = "posting" =>
       \/ UNCHANGED <<payload[r], posted[r]>>
       \/ /\ AttemptsLeft(r)' < AttemptsLeft(r)
          /\ posted[r].last = "2xx" => posted'[r] = posted[r]]_deliveryVars

-----------------------------------------------------------------------------
(* The inductive invariant behind the theorems *)

\* A delivery at work has left no trace; what is left behind is of one that has
\* ended, and a dead letter of one whose end is on record.
TraceInv ==
  /\ \A r \in Runs :
       /\ pc[r] # "posting" => payload[r] = NoPayload /\ posted[r] = NoPost
       /\ posted[r].last = "2xx" => r \in accepted
       /\ event[r] # "none" => pc[r] = "done"
  /\ \A e \in Entries :
       /\ entry[e].status = "free" => letterOf[e] = {}
       /\ \A r \in letterOf[e] : event[r] = "WEBHOOK_EXHAUSTED"

\* The extraction of a document read as decided is there until it is erased.
PayloadInv ==
  \A r \in Runs :
    payload[r].status \in {"completed", "review"} /\ Exists(doc[target[r]])
      => result[target[r]]

DeliveryInv == HookTypeOK /\ TraceInv /\ RecordIsWhole /\ PayloadInv /\ PayloadIsWhole

-----------------------------------------------------------------------------
(* Liveness *)

\* A delivery that has begun ends and is on record, whatever the receiver
\* answers, unless the document is erased.
DeliveryRecorded ==
  \A r \in Runs, d \in Docs :
    pc[r] = "posting" /\ target[r] = d ~> event[r] # "none" \/ ~ Exists(doc[d])

=============================================================================
