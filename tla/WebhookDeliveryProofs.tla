----------------------- MODULE WebhookDeliveryProofs -----------------------
(***************************************************************************)
(* Theorems about deliveries, for every number of runs and attempts.       *)
(***************************************************************************)
EXTENDS WebhookDelivery, DocumentDecisionProofs

-----------------------------------------------------------------------------
(* A delivery in detail is one of DocumentLifecycle. *)

\* A delivery's steps are those of a run, or are not seen.
LEMMA DeliveryMaps ==
  ASSUME NEW r \in Runs, Delivery(r)
  PROVE  RunStep(r) \/ UNCHANGED vars
BY DEF Delivery, Begin, Gather, Post, Deliver, Exhaust, RunStep

LEMMA ElsewhereMaps == Elsewhere => Next
BY DEF Elsewhere, Process, RunStep, Next

LEMMA DeliverySteps == [DeliveryNext]_deliveryVars => [Next]_vars
<1> SUFFICES ASSUME [DeliveryNext]_deliveryVars PROVE [Next]_vars
  OBVIOUS
<1>1. CASE Other
  BY <1>1, ElsewhereMaps DEF Other
<1>2. CASE \E r \in Runs : Delivery(r)
  BY <1>2, DeliveryMaps DEF Next
<1>3. CASE UNCHANGED deliveryVars
  BY <1>3 DEF deliveryVars
<1> QED BY <1>1, <1>2, <1>3 DEF DeliveryNext

\* Whatever is proved of DocumentLifecycle holds with the deliveries in detail:
\* attempts, lost answers and failing commits add nothing to what the documents
\* see of them.
THEOREM DeliveriesAreHooks == DeliverySpec => Spec
<1>1. DeliveryInit => Init
  BY DEF DeliveryInit
<1> QED BY <1>1, DeliverySteps, PTL DEF DeliverySpec, Spec

\* So, beside a receiver that answers as it likes, no row is written over unread,
\* all sessions, those of deliveries among them, amount to the contract's atomic
\* steps, and a delivery in flight is the last that an erasure has to outlive.
THEOREM DeliveriesKeepRows ==
  DeliverySpec => /\ [](RowsNeedDocument /\ DecidedHasResult /\ ReviewIsOpen)
                  /\ []RejectedCanBeRetried
                  /\ NoLostUpdate
                  /\ ErasureIsFinal
                  /\ ImplementsContract
BY DeliveriesAreHooks, NoOrphanRows, DecidedAlwaysHasResult, ReviewAlwaysOpen,
   RejectedStaysRetryable, NothingIsOverwritten, ErasureStaysFinal, SessionsAreAtomic, PTL

\* And where only runs and erasures meet, deliveries do not keep an erasure from
\* winning, nor, if nothing fails, a document from being taken care of.
THEOREM DeliveriesKeepErasures ==
  ASSUME Lone
  PROVE  DeliverySpec => /\ []LiveHasBlob
                         /\ ErasureWins
                         /\ MaxFaults = 0 => []UnfinishedHasOwner
<1>1. MaxFaults = 0 => (Spec => []UnfinishedHasOwner)
  BY Lone, UnfinishedAlwaysOwned DEF Lone
<1> QED BY <1>1, Lone, DeliveriesAreHooks, LiveAlwaysHasBlob, ErasureAlwaysWins, PTL

-----------------------------------------------------------------------------
(* Who moves a delivery *)

\* The task of a run that has begun keeps its document, does not begin again, and
\* only a delivery's own first step takes it to its attempts.
Follows(r) ==
  /\ pc[r] # "idle" => target'[r] = target[r]
  /\ pc[r] = "done" => pc'[r] = "done"
  /\ pc'[r] = "posting" => pc[r] = "posting"

\* A step of another process follows, and so does one of its own that is not the
\* first of a delivery.
LEMMA OthersFollow ==
  ASSUME TypeOK, NEW r \in Runs, NEW p \in Procs, p # r, NEW step, NEW d,
         pc' = [pc EXCEPT ![p] = step],
         target' = target \/ target' = [target EXCEPT ![p] = d]
  PROVE  Follows(r)
BY DEF TypeOK, Procs, Follows

LEMMA EnqueueFollows ==
  ASSUME TypeOK, NEW r \in Runs, NEW d, NEW moved, moved[r] = pc[r],
         moved \in [Procs -> Steps], Enqueue(d, moved)
  PROVE  Follows(r)
<1>1. PICK s \in Runs : /\ pc[s] = "idle"
                        /\ pc' = [moved EXCEPT ![s] = "queued"]
                        /\ target' = [target EXCEPT ![s] = d]
  BY DEF Enqueue
<1>2. CASE s = r
  BY <1>1, <1>2 DEF TypeOK, Procs, Follows
<1>3. CASE s # r
  BY <1>1, <1>3 DEF TypeOK, Procs, Follows
<1> QED BY <1>2, <1>3

LEMMA ProcessFollows ==
  ASSUME TypeOK, NEW r \in Runs, NEW s \in Runs, Process(s)
  PROVE  Follows(r)
<1> USE DEF sessions, Goto
<1>1. st[s] \in State
  BY DEF TypeOK
<1>2. RouteDecision(RouteNode(st[s])) \in {"deliver", "review", "dlq"}
  BY <1>1, NodeTypes DEF RouteDecision, Branch, Levels
<1>3. PICK step : /\ pc' = [pc EXCEPT ![s] = step] /\ step # "posting"
                  /\ pc[s] # "done"
                  /\ UNCHANGED target
  BY <1>2 DEF Process, RunLoad, RunStart, GraphStep, RunNode, RunParse, RunGuardrail,
     RunExtract, RunScore, RunRoute, RunTerminal, PersistRead, PersistCommit, AfterPersist
<1> QED BY <1>3 DEF TypeOK, Procs, Follows

LEMMA ElsewhereFollows ==
  ASSUME TypeOK, Elsewhere, NEW r \in Runs
  PROVE  Follows(r)
<1> USE DEF sessions, Goto
<1>0. \A p \in Erasures \cup Retries \cup Reviewers : p # r /\ p \in Procs
  BY Disjoint DEF Procs
<1>1. ASSUME NEW d \in Docs, UploadStep(d) \/ UploadFails(d) PROVE Follows(r)
  <2>1. CASE UploadEnqueue(d)
    BY <2>1, EnqueueFollows DEF UploadEnqueue, TypeOK
  <2>2. CASE ~ UploadEnqueue(d)
    <3>1. UNCHANGED <<pc, target>>
      BY <1>1, <2>2 DEF UploadStep, UploadSave, UploadCommit, UploadFails
    <3> QED BY <3>1 DEF Follows
  <2> QED BY <2>1, <2>2
<1>2. ASSUME NEW x \in Erasures, EraseStep(x) \/ \E d \in Docs : EraseCancel(x, d)
      PROVE  Follows(r)
  <2>1. /\ \E step : pc' = [pc EXCEPT ![x] = step]
        /\ target' = target \/ \E d : target' = [target EXCEPT ![x] = d]
    BY <1>2 DEF EraseStep, EraseCancel, EraseRead, EraseMark, EraseBlob, EraseVectors,
       ErasePurge, EraseRows
  <2> QED BY <1>0, <2>1, OthersFollow
<1>3. ASSUME NEW q \in Retries, RetryStep(q) \/ \E e \in Entries : RetryRead(q, e)
      PROVE  Follows(r)
  <2>1. CASE RetryEnqueue(q)
    <3>1. [pc EXCEPT ![q] = "commit"] \in [Procs -> Steps]
      BY DEF TypeOK, Steps, RunSteps
    <3>2. [pc EXCEPT ![q] = "commit"][r] = pc[r]
      BY <1>0 DEF TypeOK, Procs
    <3> QED BY <2>1, <3>1, <3>2, EnqueueFollows DEF RetryEnqueue
  <2>2. CASE ~ RetryEnqueue(q)
    <3>1. /\ \E step : pc' = [pc EXCEPT ![q] = step]
          /\ target' = target \/ \E d : target' = [target EXCEPT ![q] = d]
      BY <1>3, <2>2 DEF RetryStep, RetryRead, RetryCommit
    <3> QED BY <1>0, <3>1, OthersFollow
  <2> QED BY <2>1, <2>2
<1>4. ASSUME NEW a \in Reviewers,
             ReviewStep(a) \/ \E d \in Docs, action \in Actions : ReviewRead(a, d, action)
      PROVE  Follows(r)
  <2>1. /\ \E step : pc' = [pc EXCEPT ![a] = step]
        /\ target' = target \/ \E d : target' = [target EXCEPT ![a] = d]
    BY <1>4 DEF ReviewStep, ReviewRead, ReviewLoad, ReviewWriteBack, ReviewCommit
  <2> QED BY <1>0, <2>1, OthersFollow
<1>5. CASE Crash \/ \E p \in Procs : Abort(p)
  <2>1. /\ UNCHANGED target
        /\ \A p \in Procs : pc'[p] = pc[p] \/ (pc'[p] = "done" /\ pc[p] # "idle")
    BY <1>5 DEF Crash, Abort, TypeOK
  <2> QED BY <2>1 DEF Follows, Procs
<1> QED BY <1>1, <1>2, <1>3, <1>4, <1>5, ProcessFollows DEF Elsewhere

-----------------------------------------------------------------------------
(* What a delivery leaves behind *)

\* A document that is gone stays gone, and an extraction goes only with it.
LEMMA StaysGone ==
  ASSUME ContractInv, ContractInv', [Next]_vars, NEW d, Known(d), Exists(doc'[d])
  PROVE  Exists(doc[d]) /\ (result[d] => result'[d])
<1>0. TypeOK /\ TypeOK' /\ d \in Docs
  BY DEF ContractInv, RaceInv, RowInv, Known
<1>1. ContractStep
  BY ContractSteps
<1>2. /\ Status[d] = "absent" <=> ~ Exists(doc[d])
      /\ Status'[d] = "absent" <=> ~ Exists(doc'[d])
  BY <1>0 DEF Status, Exists
<1>3. Exists(doc[d])
  BY <1>0, <1>1, <1>2, ContractKeeps DEF ContractInv, TombInv, Known
<1> QED BY <1>0, <1>1, <1>2, <1>3, ContractKeeps

\* A dead letter's id is not used again.
LEMMA LettersKeep ==
  ASSUME ContractInv, [Next]_vars, NEW e \in Entries, entry'[e].status = "free"
  PROVE  entry[e].status = "free"
<1>0. TypeOK /\ entry = [x \in Entries |-> entry[x]]
  BY DEF ContractInv, RaceInv, RowInv, TypeOK
<1>1. ContractStep
  BY ContractSteps
<1>2. CASE UNCHANGED entry
  BY <1>2
<1>3. CASE \E d \in Docs : Contract!Bury(d)
  BY <1>0, <1>3 DEF Contract!Bury, TypeOK
<1>4. CASE \E x \in Entries : Contract!Retry(x)
  BY <1>0, <1>4 DEF Contract!Retry, TypeOK
<1>5. CASE \E d \in Docs : Contract!Erase(d)
  BY <1>0, <1>5 DEF Contract!Erase, TypeOK
<1> QED BY <1>1, <1>2, <1>3, <1>4, <1>5 DEF ContractStep, Contract!Next, Contract!Submit,
           Contract!Letter, Contract!Mark, Contract!Accept, Contract!Reject, Contract!Review

\* Everything but deliveries keeps what they have left.
LEMMA OtherKeeps ==
  ASSUME ContractInv, ContractInv', DeliveryInv, Other
  PROVE  DeliveryInv'
<1> USE DEF DeliveryInv
<1>0. TypeOK /\ Elsewhere /\ [Next]_vars
  BY ElsewhereMaps DEF Other, ContractInv, RaceInv, RowInv
<1>1. \A r \in Runs : Follows(r)
  BY <1>0, ElsewhereFollows
<1>2. /\ payload' = [r \in Runs |-> IF pc'[r] = "posting" THEN payload[r] ELSE NoPayload]
      /\ posted' = [r \in Runs |-> IF pc'[r] = "posting" THEN posted[r] ELSE NoPost]
      /\ recorded' = [r \in Runs |-> IF Cascaded(r) THEN NoPost ELSE recorded[r]]
      /\ event' = event /\ letterOf' = letterOf /\ accepted' = accepted
  BY DEF Other
<1>3. \A r \in Runs : pc[r] # "idle" => Known(target[r])
  BY DEF ContractInv, RaceInv, RowInv, TargetInv, Procs
<1>4. HookTypeOK'
  <2>1. /\ NoPayload \in [status : DocStatuses, extraction : {"unread", "none", "there"}]
        /\ NoPost \in [made : 0..Attempts, last : Statuses]
    BY SomeAttempts DEF NoPayload, NoPost, Statuses, DocStatuses
  <2>2. /\ payload' \in [Runs -> [status : DocStatuses, extraction : {"unread", "none", "there"}]]
        /\ posted' \in [Runs -> [made : 0..Attempts, last : Statuses]]
        /\ recorded' \in [Runs -> [made : 0..Attempts, last : Statuses]]
    BY <1>2, <2>1 DEF HookTypeOK
  <2> QED BY <1>2, <2>2 DEF HookTypeOK
<1>5. TraceInv'
  <2>1. ASSUME NEW r \in Runs
        PROVE  /\ pc'[r] # "posting" => payload'[r] = NoPayload /\ posted'[r] = NoPost
               /\ posted'[r].last = "2xx" => r \in accepted'
               /\ event'[r] # "none" => pc'[r] = "done"
    BY <1>1, <1>2 DEF TraceInv, Follows, NoPost
  <2>2. ASSUME NEW e \in Entries
        PROVE  /\ entry'[e].status = "free" => letterOf'[e] = {}
               /\ \A r \in letterOf'[e] : event'[r] = "WEBHOOK_EXHAUSTED"
    BY <1>0, <1>2, LettersKeep DEF TraceInv
  <2> QED BY <2>1, <2>2 DEF TraceInv
<1>6. RecordIsWhole'
  <2> SUFFICES ASSUME NEW r \in Runs
               PROVE  /\ recorded'[r] # NoPost => event'[r] # "none"
                      /\ event'[r] # "none" /\ Exists(doc'[target'[r]]) =>
                           recorded'[r] = recorded[r] /\ Exists(doc[target[r]])
    BY <1>2 DEF RecordIsWhole
  <2>1. recorded'[r] # NoPost => event'[r] # "none"
    BY <1>2 DEF RecordIsWhole
  <2>2. ASSUME event'[r] # "none", Exists(doc'[target'[r]])
        PROVE  recorded'[r] = recorded[r] /\ Exists(doc[target[r]])
    <3>1. pc[r] = "done" /\ target'[r] = target[r] /\ Known(target[r])
      BY <1>1, <1>2, <1>3, <2>2 DEF TraceInv, Follows
    <3>2. Exists(doc[target[r]])
      BY <1>0, <2>2, <3>1, StaysGone
    <3> QED BY <1>2, <2>2, <3>1, <3>2 DEF Cascaded
  <2> QED BY <2>1, <2>2
<1>7. ASSUME NEW r \in Runs, payload'[r].status \in {"completed", "review"}
      PROVE  /\ payload[r] = payload'[r]
             /\ Exists(doc'[target'[r]]) =>
                  /\ target'[r] = target[r]
                  /\ Exists(doc[target[r]])
                  /\ result[target[r]] => result'[target[r]]
  <2>1. pc'[r] = "posting" /\ payload'[r] = payload[r]
    BY <1>2, <1>7 DEF NoPayload
  <2>2. pc[r] = "posting" /\ target'[r] = target[r] /\ Known(target[r])
    BY <1>1, <1>3, <2>1 DEF Follows
  <2> QED BY <1>0, <2>1, <2>2, StaysGone
<1>8. PayloadInv' /\ PayloadIsWhole'
  BY <1>7 DEF PayloadInv, PayloadIsWhole
<1> QED BY <1>4, <1>5, <1>6, <1>8

\* The first steps of a delivery and its attempts leave nothing yet.
LEMMA AttemptKeeps ==
  ASSUME ContractInv, DeliveryInv, NEW r \in Runs, Begin(r) \/ Gather(r) \/ Post(r)
  PROVE  DeliveryInv'
<1> USE DEF DeliveryInv
<1>0. TypeOK /\ DecidedHasResult /\ r \in Procs
  BY DEF ContractInv, RaceInv, RowInv, DecisionInv, Procs
<1>1. /\ UNCHANGED <<doc, result, entry, target, recorded, event, letterOf>>
      /\ \A s \in Runs \ {r} : UNCHANGED <<pc[s], payload[s], posted[s]>>
      /\ pc[r] # "done"
  <2>1. CASE Begin(r)
    <3>1. /\ UNCHANGED <<doc, result, entry, target, recorded, event, letterOf, posted>>
          /\ pc[r] = "hook"
          /\ \E step : pc' = [pc EXCEPT ![r] = step]
      BY <2>1 DEF Begin, HookBegin, rows, Goto
    <3>2. \A s \in Runs \ {r} : payload'[s] = payload[s]
      BY <2>1 DEF Begin, HookTypeOK
    <3> QED BY <1>0, <3>1, <3>2 DEF TypeOK, Procs
  <2>2. CASE Gather(r)
    BY <1>0, <2>2 DEF Gather, vars, HookTypeOK
  <2>3. CASE Post(r)
    BY <1>0, <2>3 DEF Post, Trying, vars, HookTypeOK
  <2> QED BY <2>1, <2>2, <2>3
<1>2. HookTypeOK' /\ accepted \subseteq accepted'
  <2>1. CASE Begin(r)
    <3>1. payload'[r] = [payload[r] EXCEPT !.status = Shown(r)] \/ payload' = payload
      BY <2>1 DEF Begin, HookTypeOK
    <3>2. pc[r] = "hook" /\ target[r] \in Docs
      BY <1>0, <2>1 DEF Begin, HookBegin, ContractInv, RaceInv, RowInv, TargetInv, Known
    <3>3. Shown(r) \in DocStatuses
      BY <1>0, <3>2 DEF Shown, TypeOK
    <3> QED BY <2>1, <3>3 DEF Begin, HookTypeOK
  <2>2. CASE Gather(r)
    BY <2>2 DEF Gather, HookTypeOK
  <2>3. CASE Post(r)
    <3>1. posted[r].made + 1 \in 0..Attempts
      <4>1. posted[r].made \in 0..Attempts /\ posted[r].made # Attempts
        BY <2>3 DEF Post, Trying, Exhausted, Succeeded, HookTypeOK
      <4> QED BY <4>1, SomeAttempts DEF SomeAttempts
    <3>2. PICK status \in Statuses :
            posted' = [posted EXCEPT ![r] = [made |-> posted[r].made + 1, last |-> status]]
      BY <2>3 DEF Post
    <3>3. posted' \in [Runs -> [made : 0..Attempts, last : Statuses]]
      BY <3>1, <3>2 DEF HookTypeOK
    <3>4. accepted' = accepted \/ accepted' = accepted \cup {r}
      BY <2>3 DEF Post
    <3> QED BY <2>3, <3>3, <3>4 DEF Post, HookTypeOK
  <2> QED BY <2>1, <2>2, <2>3
<1>3. /\ pc'[r] # "posting" => payload'[r] = NoPayload /\ posted'[r] = NoPost
      /\ posted'[r].last = "2xx" => r \in accepted'
      /\ event'[r] = "none"
  <2>1. CASE Begin(r)
    <3>1. pc[r] = "hook" /\ payload[r] = NoPayload /\ posted'[r] = NoPost
      BY <2>1 DEF Begin, HookBegin, TraceInv
    <3> QED BY <1>1, <2>1, <3>1 DEF Begin, HookBegin, TraceInv, NoPost
  <2>2. CASE Gather(r)
    BY <1>1, <2>2 DEF Gather, vars, TraceInv
  <2>3. CASE Post(r)
    <3>1. pc'[r] = "posting" /\ event[r] = "none"
      BY <1>1, <2>3 DEF Post, Trying, vars, TraceInv
    <3> QED BY <1>1, <2>3, <3>1 DEF Post, HookTypeOK
  <2> QED BY <2>1, <2>2, <2>3
<1>4. TraceInv'
  <2>1. ASSUME NEW s \in Runs
        PROVE  /\ pc'[s] # "posting" => payload'[s] = NoPayload /\ posted'[s] = NoPost
               /\ posted'[s].last = "2xx" => s \in accepted'
               /\ event'[s] # "none" => pc'[s] = "done"
    BY <1>1, <1>2, <1>3 DEF TraceInv
  <2> QED BY <1>1, <2>1 DEF TraceInv
<1>5. RecordIsWhole'
  BY <1>1, <1>2 DEF RecordIsWhole
<1>6. /\ payload'[r].status \in {"completed", "review"} /\ Exists(doc[target[r]])
           => result[target[r]]
      /\ payload'[r].status \in {"completed", "review"} /\ payload'[r].extraction = "none"
           => ~ Exists(doc[target[r]])
  <2>1. CASE Begin(r)
    <3>1. pc[r] = "hook" /\ payload[r] = NoPayload /\ target[r] \in Docs
      BY <1>0, <2>1 DEF Begin, HookBegin, TraceInv, ContractInv, RaceInv, RowInv, TargetInv, Known
    <3>2. payload'[r] = NoPayload \/ payload'[r] = [status |-> Shown(r), extraction |-> "unread"]
      BY <2>1, <3>1 DEF Begin, HookTypeOK, NoPayload
    <3> QED BY <1>0, <3>1, <3>2 DEF Shown, DecidedHasResult, NoPayload
  <2>2. CASE Gather(r)
    BY <2>2 DEF Gather, HookTypeOK, PayloadInv
  <2>3. CASE Post(r)
    BY <2>3 DEF Post, PayloadInv, PayloadIsWhole
  <2> QED BY <2>1, <2>2, <2>3
<1>7. PayloadInv' /\ PayloadIsWhole'
  BY <1>1, <1>6 DEF PayloadInv, PayloadIsWhole
<1> QED BY <1>2, <1>4, <1>5, <1>7

\* The end of a delivery writes all of it, or nothing if the document is gone.
LEMMA EndKeeps ==
  ASSUME ContractInv, DeliveryInv, NEW r \in Runs, Deliver(r) \/ Exhaust(r)
  PROVE  DeliveryInv'
<1> USE DEF DeliveryInv
<1> DEFINE ending == IF Deliver(r) THEN "WEBHOOK_DELIVERED" ELSE "WEBHOOK_EXHAUSTED"
           d == target[r]
<1>0. TypeOK /\ r \in Procs
  BY DEF ContractInv, RaceInv, RowInv, Procs
<1>1. /\ pc[r] = "posting" /\ event[r] = "none" /\ d \in Docs
      /\ recorded[r] = NoPost /\ \A e \in Entries : r \notin letterOf[e]
  <2>1. pc[r] = "posting"
    BY DEF Deliver, Exhaust, HookDelivered, HookExhausted
  <2>2. event[r] = "none" /\ d \in Docs
    BY <1>0, <2>1 DEF TraceInv, ContractInv, RaceInv, RowInv, TargetInv, Known
  <2> QED BY <2>1, <2>2 DEF TraceInv, RecordIsWhole
<1>2. /\ UNCHANGED <<doc, result, target, accepted>>
      /\ pc' = [pc EXCEPT ![r] = "done"]
      /\ payload' = [payload EXCEPT ![r] = NoPayload]
      /\ posted' = [posted EXCEPT ![r] = NoPost]
  BY DEF Deliver, Exhaust, HookDelivered, HookExhausted, Committed, rows, Goto
<1>3. IF Exists(doc[d])
        THEN /\ recorded' = [recorded EXCEPT ![r] = posted[r]]
             /\ event' = [event EXCEPT ![r] = ending]
        ELSE UNCHANGED <<recorded, event>>
  <2>1. CASE Deliver(r)
    BY <2>1 DEF Deliver, Committed
  <2>2. CASE ~ Deliver(r)
    BY <2>2 DEF Exhaust, Committed
  <2> QED BY <2>1, <2>2
<1>4. /\ payload'[r] = NoPayload /\ posted'[r] = NoPost /\ pc'[r] = "done"
      /\ \A s \in Runs \ {r} : UNCHANGED <<pc[s], payload[s], posted[s], recorded[s], event[s]>>
      /\ Exists(doc[d]) => recorded'[r] = posted[r] /\ event'[r] = ending
      /\ ~ Exists(doc[d]) => recorded'[r] = NoPost /\ event'[r] = "none"
  BY <1>0, <1>1, <1>2, <1>3 DEF TypeOK, HookTypeOK
<1>5. HookTypeOK' /\ posted[r] \in [made : 0..Attempts, last : Statuses]
  <2>1. /\ NoPayload \in [status : DocStatuses, extraction : {"unread", "none", "there"}]
        /\ NoPost \in [made : 0..Attempts, last : Statuses]
    BY SomeAttempts DEF NoPayload, NoPost, Statuses, DocStatuses, SomeAttempts
  <2>2. posted[r] \in [made : 0..Attempts, last : Statuses]
    BY DEF HookTypeOK
  <2>3. letterOf' \in [Entries -> SUBSET Runs]
    BY DEF Deliver, Exhaust, HookTypeOK
  <2>4. recorded' \in [Runs -> [made : 0..Attempts, last : Statuses]]
    BY <1>3, <2>2 DEF HookTypeOK
  <2>5. event' \in [Runs -> {"none", "WEBHOOK_DELIVERED", "WEBHOOK_EXHAUSTED"}]
    BY <1>3 DEF HookTypeOK
  <2> QED BY <1>2, <2>1, <2>2, <2>3, <2>4, <2>5 DEF HookTypeOK
\* Either no letter is written, or one for a document that is there.
<1>6. \/ /\ UNCHANGED <<entry, letterOf>>
         /\ Exists(doc[d]) => Deliver(r)
      \/ /\ ~ Deliver(r) /\ Exists(doc[d])
         /\ \E x \in Entries :
              /\ letterOf[x] = {} /\ letterOf'[x] = {r}
              /\ entry'[x].status # "free"
              /\ \A e \in Entries \ {x} : entry'[e] = entry[e] /\ letterOf'[e] = letterOf[e]
  <2>1. CASE Deliver(r)
    BY <2>1 DEF Deliver, HookDelivered, rows
  <2>2. CASE Exhaust(r) /\ HookExhausted(r)
    <3>1. PICK x \in Entries :
            /\ entry[x].status = "free"
            /\ entry' = [entry EXCEPT ![x] = [status |-> "pending", doc |-> d]]
      BY <2>2 DEF HookExhausted, Bury
    <3>2. /\ entry'[x].status = "pending" /\ entry'[x] # entry[x]
          /\ \A e \in Entries \ {x} : entry'[e] = entry[e]
      BY <1>0, <3>1 DEF TypeOK
    <3>3. letterOf[x] = {}
      BY <3>1 DEF TraceInv
    <3>4. letterOf'[x] = {r} /\ \A e \in Entries \ {x} : letterOf'[e] = letterOf[e]
      BY <2>2, <3>2, <3>3 DEF Exhaust
    <3>5. Exists(doc[d]) /\ ~ Deliver(r)
      BY <2>2 DEF HookExhausted, Exhaust, Exhausted, Deliver
    <3> QED BY <3>2, <3>3, <3>4, <3>5
  <2>3. CASE Exhaust(r) /\ ~ HookExhausted(r)
    <3>1. ~ Exists(doc[d]) /\ entry' = entry
      BY <2>3 DEF Exhaust, HookDelivered, rows
    <3>2. letterOf' = letterOf
      BY <2>3, <3>1 DEF Exhaust, HookTypeOK
    <3> QED BY <3>1, <3>2
  <2> QED BY <2>1, <2>2, <2>3
<1>7. /\ Deliver(r) => posted[r].last = "2xx" /\ r \in accepted
      /\ ~ Deliver(r) => posted[r].last # "2xx" /\ posted[r].made = Attempts
  BY DEF Deliver, Exhaust, Succeeded, Exhausted, TraceInv
<1>8. TraceInv'
  <2>1. ASSUME NEW s \in Runs
        PROVE  /\ pc'[s] # "posting" => payload'[s] = NoPayload /\ posted'[s] = NoPost
               /\ posted'[s].last = "2xx" => s \in accepted'
               /\ event'[s] # "none" => pc'[s] = "done"
    <3>1. NoPost.last # "2xx"
      BY DEF NoPost
    <3> QED BY <1>2, <1>4, <3>1 DEF TraceInv
  <2>2. ASSUME NEW e \in Entries
        PROVE  /\ entry'[e].status = "free" => letterOf'[e] = {}
               /\ \A s \in letterOf'[e] : event'[s] = "WEBHOOK_EXHAUSTED"
    <3>1. \A s \in letterOf[e] : s \in Runs /\ s # r /\ event'[s] = "WEBHOOK_EXHAUSTED"
      BY <1>1, <1>4 DEF TraceInv, HookTypeOK
    <3> QED BY <1>4, <1>6, <3>1 DEF TraceInv
  <2> QED BY <2>1, <2>2 DEF TraceInv
<1>9. RecordIsWhole'
  <2> SUFFICES ASSUME NEW s \in Runs
               PROVE  LET letters == {e \in Entries : s \in letterOf'[e]} IN
                      /\ recorded'[s] # NoPost => event'[s] # "none"
                      /\ event'[s] = "WEBHOOK_DELIVERED" => s \in accepted' /\ letters = {}
                      /\ event'[s] = "WEBHOOK_EXHAUSTED" =>
                           \E e \in letters : letters = {e} /\ letterOf'[e] = {s}
                      /\ event'[s] # "none" /\ Exists(doc'[target'[s]]) =>
                           /\ recorded'[s].last = "2xx" <=> event'[s] = "WEBHOOK_DELIVERED"
                           /\ recorded'[s].last # "2xx" => recorded'[s].made = Attempts
    BY DEF RecordIsWhole
  <2>1. CASE s = r
    <3>1. CASE ~ Exists(doc[d])
      BY <1>4, <2>1, <3>1
    <3>2. CASE Exists(doc[d]) /\ Deliver(r)
      <4>1. \A e \in Entries : r \notin letterOf'[e]
        BY <1>1, <1>6, <3>2
      <4> QED BY <1>2, <1>4, <1>7, <2>1, <3>2, <4>1
    <3>3. CASE Exists(doc[d]) /\ ~ Deliver(r)
      <4>1. PICK x \in Entries :
              /\ letterOf'[x] = {r}
              /\ \A e \in Entries \ {x} : letterOf'[e] = letterOf[e]
        BY <1>6, <3>3
      <4>2. {e \in Entries : r \in letterOf'[e]} = {x}
        BY <1>1, <4>1
      <4>3. event'[r] = "WEBHOOK_EXHAUSTED" /\ recorded'[r] = posted[r]
        BY <1>4, <3>3
      <4> QED BY <1>7, <2>1, <3>3, <4>1, <4>2, <4>3
    <3> QED BY <3>1, <3>2, <3>3
  <2>2. CASE s # r
    <3>1. \A e \in Entries : (s \in letterOf'[e] <=> s \in letterOf[e])
      BY <1>6, <2>2
    <3>2. \A e \in Entries : s \in letterOf[e] => letterOf'[e] = letterOf[e]
      BY <1>6, <2>2
    <3>3. {e \in Entries : s \in letterOf'[e]} = {e \in Entries : s \in letterOf[e]}
      BY <3>1
    <3>4. /\ UNCHANGED <<recorded[s], event[s], accepted>>
          /\ doc'[target'[s]] = doc[target[s]]
      BY <1>2, <1>4, <2>2
    <3> QED BY <3>2, <3>3, <3>4 DEF RecordIsWhole
  <2> QED BY <2>1, <2>2
<1>10. PayloadInv' /\ PayloadIsWhole'
  <2>1. ASSUME NEW s \in Runs
        PROVE  /\ payload'[s] = NoPayload \/ payload'[s] = payload[s]
               /\ doc'[target'[s]] = doc[target[s]] /\ result'[target'[s]] = result[target[s]]
    BY <1>2, <1>4
  <2>2. NoPayload.status \notin {"completed", "review"}
    BY DEF NoPayload
  <2> QED BY <2>1, <2>2 DEF PayloadInv, PayloadIsWhole
<1> QED BY <1>5, <1>8, <1>9, <1>10

\* The invariant, together with the one of the contract, is inductive.
LEMMA DeliveryInitially == DeliveryInit => ContractInv /\ DeliveryInv
<1> SUFFICES ASSUME DeliveryInit PROVE ContractInv /\ DeliveryInv
  OBVIOUS
<1>1. Init
  BY DEF DeliveryInit
<1>2. HookTypeOK
  <2>1. /\ NoPayload \in [status : DocStatuses, extraction : {"unread", "none", "there"}]
        /\ NoPost \in [made : 0..Attempts, last : Statuses]
    BY SomeAttempts DEF NoPayload, NoPost, Statuses, DocStatuses, SomeAttempts
  <2> QED BY <2>1 DEF DeliveryInit, HookTypeOK
<1>3. TraceInv /\ RecordIsWhole /\ PayloadInv /\ PayloadIsWhole
  BY DEF DeliveryInit, TraceInv, RecordIsWhole, PayloadInv, PayloadIsWhole, NoPayload, NoPost
<1> QED BY <1>1, <1>2, <1>3, ContractInit DEF DeliveryInv

LEMMA DeliveryStep ==
  ContractInv /\ DeliveryInv /\ [DeliveryNext]_deliveryVars => ContractInv' /\ DeliveryInv'
<1> SUFFICES ASSUME ContractInv, DeliveryInv, [DeliveryNext]_deliveryVars
             PROVE  ContractInv' /\ DeliveryInv'
  OBVIOUS
<1>1. ContractInv'
  BY DeliverySteps, ContractInvStep
<1>2. CASE UNCHANGED deliveryVars
  <2>1. /\ UNCHANGED <<doc, result, entry, pc, target>>
        /\ UNCHANGED <<payload, posted, recorded, event, letterOf, accepted>>
    BY <1>2 DEF deliveryVars, vars, hookVars
  <2>2. HookTypeOK'
    BY <2>1 DEF DeliveryInv, HookTypeOK
  <2>3. TraceInv'
    BY <2>1 DEF DeliveryInv, TraceInv
  <2>4. RecordIsWhole'
    BY <2>1 DEF DeliveryInv, RecordIsWhole
  <2>5. PayloadInv' /\ PayloadIsWhole'
    BY <2>1 DEF DeliveryInv, PayloadInv, PayloadIsWhole
  <2> QED BY <1>1, <2>2, <2>3, <2>4, <2>5 DEF DeliveryInv
<1>3. CASE \E r \in Runs : Delivery(r)
  BY <1>1, <1>3, AttemptKeeps, EndKeeps DEF Delivery
<1> QED BY <1>1, <1>2, <1>3, OtherKeeps DEF DeliveryNext

LEMMA DeliveryAlways == DeliverySpec => [](ContractInv /\ DeliveryInv)
BY DeliveryInitially, DeliveryStep, PTL DEF DeliverySpec

\* Documents and the records of their deliveries are well formed; in particular
\* no delivery makes more attempts than its schedule has.
THEOREM DeliveriesTypeCorrect == DeliverySpec => []DeliveryTypeOK
<1>1. ContractInv /\ DeliveryInv => DeliveryTypeOK
  BY DEF ContractInv, RaceInv, RowInv, DeliveryInv, DeliveryTypeOK
<1> QED BY <1>1, DeliveryAlways, PTL

\* A delivery leaves all of its records or none, although the minutes between its
\* attempts are open to every other task, to an erasure and to a crash.
THEOREM RecordsAreWhole == DeliverySpec => []RecordIsWhole
<1>1. DeliveryInv => RecordIsWhole
  BY DEF DeliveryInv
<1> QED BY <1>1, DeliveryAlways, PTL

\* No payload calls a document decided without carrying what was decided on.
THEOREM PayloadsAreWhole == DeliverySpec => []PayloadIsWhole
<1>1. DeliveryInv => PayloadIsWhole
  BY DEF DeliveryInv
<1> QED BY <1>1, DeliveryAlways, PTL

-----------------------------------------------------------------------------
(* How long a delivery lasts *)

\* Nobody but a delivery itself changes what it has done so far, and each of its
\* own steps uses up a part of its schedule.
LEMMA DeliveryAdvances ==
  ASSUME TypeOK, HookTypeOK, [DeliveryNext]_deliveryVars, NEW r \in Runs,
         pc[r] = "posting", pc'[r] = "posting"
  PROVE  \/ UNCHANGED <<payload[r], posted[r]>>
         \/ /\ AttemptsLeft(r)' < AttemptsLeft(r)
            /\ posted[r].last = "2xx" => posted'[r] = posted[r]
<1>0. /\ posted[r].made \in 0..Attempts /\ Attempts \in Nat
      /\ r \in Procs
  BY SomeAttempts DEF SomeAttempts, HookTypeOK, Procs
<1>1. CASE UNCHANGED deliveryVars
  BY <1>1 DEF deliveryVars, hookVars
<1>2. CASE Other
  BY <1>2 DEF Other, HookTypeOK
<1>3. ASSUME NEW s \in Runs, Begin(s) PROVE UNCHANGED <<payload[r], posted[r]>>
  <2>1. pc[s] = "hook" /\ s # r
    BY <1>3 DEF Begin, HookBegin
  <2> QED BY <1>3, <2>1 DEF Begin, HookTypeOK
<1>4. ASSUME NEW s \in Runs, Gather(s)
      PROVE  \/ UNCHANGED <<payload[r], posted[r]>>
             \/ AttemptsLeft(r)' < AttemptsLeft(r) /\ posted'[r] = posted[r]
  <2>1. posted' = posted
    BY <1>4 DEF Gather
  <2>2. CASE s # r
    BY <1>4, <2>1, <2>2 DEF Gather, HookTypeOK
  <2>3. CASE s = r
    <3>1. payload[r].extraction = "unread" /\ payload'[r].extraction \in {"there", "none"}
      BY <1>4, <2>3 DEF Gather, HookTypeOK
    <3> QED BY <1>0, <2>1, <3>1 DEF AttemptsLeft
  <2> QED BY <2>2, <2>3
<1>5. ASSUME NEW s \in Runs, Post(s)
      PROVE  \/ UNCHANGED <<payload[r], posted[r]>>
             \/ AttemptsLeft(r)' < AttemptsLeft(r) /\ posted[r].last # "2xx"
  <2>1. payload' = payload
    BY <1>5 DEF Post
  <2>2. CASE s # r
    BY <1>5, <2>1, <2>2 DEF Post, HookTypeOK
  <2>3. CASE s = r
    <3>1. posted[r].last # "2xx" /\ posted'[r].made = posted[r].made + 1
      BY <1>5, <2>3 DEF Post, Trying, Succeeded, HookTypeOK
    <3> QED BY <1>0, <2>1, <3>1 DEF AttemptsLeft
  <2> QED BY <2>2, <2>3
<1>6. ASSUME NEW s \in Runs, Deliver(s) \/ Exhaust(s)
      PROVE  UNCHANGED <<payload[r], posted[r]>>
  <2>1. pc' = [pc EXCEPT ![s] = "done"]
    BY <1>6 DEF Deliver, Exhaust, HookDelivered, HookExhausted, Goto
  <2>2. s # r
    BY <1>0, <2>1 DEF TypeOK
  <2>3. /\ payload' = [payload EXCEPT ![s] = NoPayload]
        /\ posted' = [posted EXCEPT ![s] = NoPost]
    BY <1>6 DEF Deliver, Exhaust, Committed
  <2> QED BY <2>2, <2>3 DEF HookTypeOK
<1> QED BY <1>1, <1>2, <1>3, <1>4, <1>5, <1>6 DEF DeliveryNext, Delivery

\* A delivery is over after its schedule's attempts, whatever the receiver answers
\* and whoever works on the document meanwhile: with TasksAdvance, every task ends
\* after a bounded number of its own steps, those of its delivery included.
THEOREM DeliveriesAdvance == DeliverySpec => AttemptsAdvance /\ EveryTaskAdvances
<1> DEFINE Less == \A r \in Runs : pc[r] = "posting" /\ pc'[r] = "posting" =>
                     \/ UNCHANGED <<payload[r], posted[r]>>
                     \/ /\ AttemptsLeft(r)' < AttemptsLeft(r)
                        /\ posted[r].last = "2xx" => posted'[r] = posted[r]
<1>1. ContractInv /\ DeliveryInv /\ [DeliveryNext]_deliveryVars => [Less]_deliveryVars
  <2> SUFFICES ASSUME ContractInv, DeliveryInv, [DeliveryNext]_deliveryVars
               PROVE  Less
    OBVIOUS
  <2>1. TypeOK /\ HookTypeOK
    BY DEF ContractInv, RaceInv, RowInv, DeliveryInv
  <2> QED BY <2>1, DeliveryAdvances
<1>2. DeliverySpec => [][Less]_deliveryVars
  BY <1>1, DeliveryAlways, PTL DEF DeliverySpec
<1>3. DeliverySpec => EveryTaskAdvances
  BY DeliveriesAreHooks, TasksAdvance, PTL
<1> QED BY <1>2, <1>3 DEF AttemptsAdvance

=============================================================================
