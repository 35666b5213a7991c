----------------------- MODULE DocumentDecisionProofs -----------------------
(***************************************************************************)
(* Theorems about what is decided of a document: its status, its           *)
(* extraction, its review task and its dead letters agree, whichever runs, *)
(* retries and reviewers raced for it; its sessions might as well be       *)
(* atomic; and where only runs and erasures meet, the erasures win.        *)
(***************************************************************************)
EXTENDS DocumentProofs

\* Exactly what DecisionInv is about.
facts == <<doc, result, review, entry>>

AtReview(a) == pc[a] \in {"load", "writeback", "commit"}

\* A step that leaves the rows alone, and after which every reviewer and retry
\* at work was there before with what it had read, or has just read.
LEMMA DecisionQuiet ==
  ASSUME RowInv', DecisionInv, UNCHANGED facts,
         \A a \in Reviewers : pc'[a] \in {"load", "writeback", "commit"} =>
           \/ /\ AtReview(a) /\ UNCHANGED <<target[a], seenReview[a], seen[a]>>
              /\ (HasRead(a)' => HasRead(a))
           \/ /\ AtReview(a) /\ UNCHANGED <<target[a], seenReview[a]>>
              /\ seen'[a] = doc[target'[a]]
           \/ /\ ~ HasRead(a)'
              /\ seenReview'[a] = review[target'[a]]
              /\ Exists(review[target'[a]]),
         \A q \in Retries : pc'[q] = "commit" =>
           \/ pc[q] = "commit" /\ UNCHANGED <<held[q], seen[q]>>
           \/ /\ held'[q] \in Entries
              /\ seen'[q] = doc[entry[held'[q]].doc]
  PROVE  DecisionInv'
<1> USE DEF DecisionInv, facts
<1>1. DecidedHasResult' /\ ReviewIsOpen'
  BY DEF DecidedHasResult, ReviewIsOpen
<1>2. ReviewInv'
  <2>1. \A d \in Docs : Exists(review'[d]) => result'[d]
    BY DEF ReviewInv
  <2>2. ASSUME NEW a \in Reviewers, pc'[a] \in {"load", "writeback", "commit"}
        PROVE  /\ Exists(doc'[target'[a]]) => Exists(review'[target'[a]])
               /\ seenReview'[a].status # "pending" /\ Exists(doc'[target'[a]])
                    => review'[target'[a]].status # "pending"
               /\ HasRead(a)' /\ doc'[target'[a]].status = "review" => seen'[a].status = "review"
    <3>1. CASE AtReview(a) /\ UNCHANGED <<target[a], seenReview[a]>>
      BY <2>2, <3>1 DEF AtReview, ReviewInv
    <3>2. CASE /\ ~ HasRead(a)'
               /\ seenReview'[a] = review[target'[a]]
               /\ Exists(review[target'[a]])
      BY <3>2
    <3> QED BY <2>2, <3>1, <3>2
  <2> QED BY <2>1, <2>2 DEF ReviewInv
<1>3. RetryInv'
  <2> SUFFICES ASSUME NEW d \in Docs, doc'[d].status = "rejected",
                      review'[d].status \in {"absent", "pending"}
               PROVE  Retryable(d)'
    BY DEF RetryInv
  <2>1. PICK e \in Entries :
          /\ entry[e] = [status |-> "pending", doc |-> d]
          /\ \A q \in Retries : pc[q] = "commit" /\ held[q] = e => seen[q].status # "pending"
    BY DEF RetryInv, Retryable
  <2>2. entry[e].doc = d /\ doc[d].status # "pending"
    BY <2>1
  <2>3. \A q \in Retries : pc'[q] = "commit" /\ held'[q] = e => seen'[q].status # "pending"
    BY <2>1, <2>2
  <2> QED BY <2>1, <2>3 DEF Retryable
<1> QED BY <1>1, <1>2, <1>3

\* The same when no reviewer and no retry moves.
LEMMA Bystanders ==
  ASSUME RowInv', DecisionInv, UNCHANGED facts,
         \A p \in Retries \cup Reviewers :
           pc'[p] = pc[p] /\ target'[p] = target[p] /\ seen'[p] = seen[p],
         UNCHANGED <<seenReview, held>>
  PROVE  DecisionInv'
<1>1. \A a \in Reviewers : pc'[a] \in {"load", "writeback", "commit"} =>
        /\ AtReview(a) /\ UNCHANGED <<target[a], seenReview[a], seen[a]>>
        /\ (HasRead(a)' => HasRead(a))
  BY DEF AtReview, HasRead
<1>2. \A q \in Retries : pc'[q] = "commit" =>
        pc[q] = "commit" /\ UNCHANGED <<held[q], seen[q]>>
  OBVIOUS
<1> QED BY <1>1, <1>2, DecisionQuiet

\* A dead letter more takes nothing from the others, and no retry holds it yet.
LEMMA BuryKeeps ==
  ASSUME RowInv, NEW d \in Docs, Bury(d)
  PROVE  \E e \in Entries :
           /\ entry'[e] = [status |-> "pending", doc |-> d]
           /\ \A q \in Retries : pc[q] # "idle" => held[q] # e
           /\ \A x \in Entries : entry[x].status = "pending" => entry'[x] = entry[x]
<1> USE DEF RowInv
<1>1. PICK e \in Entries : /\ entry[e].status = "free"
                           /\ entry' = [entry EXCEPT ![e] = [status |-> "pending", doc |-> d]]
  BY DEF Bury
<1>2. entry'[e] = [status |-> "pending", doc |-> d]
  BY <1>1 DEF TypeOK
<1>3. \A q \in Retries : pc[q] # "idle" => held[q] # e
  BY <1>1 DEF EntryInv
<1>4. \A x \in Entries : entry[x].status = "pending" => entry'[x] = entry[x]
  BY <1>1 DEF TypeOK
<1> QED BY <1>2, <1>3, <1>4

\* An upload decides nothing.
LEMMA DecisionUpload ==
  ASSUME DecisionInv, NEW d \in Docs, UploadStep(d) \/ UploadFails(d)
  PROVE  DecisionInv'
<1> USE DEF rows, stores, sessions
<1>0. RowInv /\ RowInv' /\ TypeOK
  BY RowUpload DEF DecisionInv, RowInv
<1>1. CASE UploadSave(d) \/ UploadFails(d)
  <2>1. UNCHANGED facts /\ UNCHANGED <<pc, target, seen, seenReview, held>>
    BY <1>1 DEF UploadSave, UploadFails, facts
  <2> QED BY <1>0, <2>1, Bystanders
<1>2. CASE UploadEnqueue(d)
  <2>1. PICK r \in Runs : /\ pc' = [pc EXCEPT ![r] = "queued"]
                          /\ target' = [target EXCEPT ![r] = d]
    BY <1>2 DEF UploadEnqueue, Enqueue
  <2>2. \A p \in Retries \cup Reviewers :
          pc'[p] = pc[p] /\ target'[p] = target[p] /\ seen'[p] = seen[p]
    BY <1>0, <1>2, <2>1, Disjoint DEF UploadEnqueue, TypeOK, Procs
  <2>3. UNCHANGED facts /\ UNCHANGED <<seenReview, held>>
    BY <1>2 DEF UploadEnqueue, facts
  <2> QED BY <1>0, <2>2, <2>3, Bystanders
<1>3. CASE UploadCommit(d)
  <2>1. /\ UNCHANGED <<result, review, entry, pc, target, seen, seenReview, held>>
        /\ doc'[d] = [status |-> "pending", version |-> 2]
        /\ \A c \in Docs \ {d} : doc'[c] = doc[c]
    BY <1>0, <1>3 DEF UploadCommit, TypeOK
  <2>2. \A a \in Reviewers : AtReview(a) => target[a] # d /\ target[a] \in Docs
    <3>1. ~ Known(d)
      BY <1>0, <1>3 DEF UploadCommit, RowInv, Known, UploadInv, NoRow
    <3>2. \A a \in Reviewers : AtReview(a) => Known(target[a])
      BY <1>0 DEF AtReview, RowInv, TargetInv, Procs
    <3> QED BY <3>1, <3>2 DEF Known
  <2>3. ReviewInv'
    <3>1. \A a \in Reviewers : AtReview(a) => doc'[target[a]] = doc[target[a]]
      BY <2>1, <2>2
    <3> QED BY <2>1, <3>1 DEF DecisionInv, ReviewInv, AtReview, HasRead
  <2>4. DecidedHasResult' /\ ReviewIsOpen'
    BY <2>1 DEF DecisionInv, DecidedHasResult, ReviewIsOpen
  <2>5. RetryInv'
    BY <2>1 DEF DecisionInv, RetryInv, Retryable
  <2> QED BY <1>0, <2>3, <2>4, <2>5 DEF DecisionInv
<1> QED BY <1>1, <1>2, <1>3 DEF UploadStep

\* The rows of a persist.
LEMMA DecisionPersist ==
  ASSUME DecisionInv, RowInv', NEW r \in Runs, NEW touched \in BOOLEAN, pc[r] = "commit",
         PersistRows(r, touched), NEW step, pc' = [pc EXCEPT ![r] = step],
         UNCHANGED <<target, seen, seenReview, held>>
  PROVE  DecisionInv'
<1>0. /\ RowInv /\ TypeOK
      /\ r \in Procs
      /\ \A p \in Retries \cup Reviewers : p # r /\ p \in Procs
  BY Disjoint DEF DecisionInv, RowInv, Procs
<1>1. PICK d \in Docs : d = target[r]
  BY <1>0 DEF RowInv, TargetInv, Known
<1>2. \A p \in Retries \cup Reviewers : pc'[p] = pc[p]
  BY <1>0 DEF TypeOK
<1>3. /\ Exists(doc[d])
      /\ touched => doc'[d].status = Outcome(r)
      /\ ~ touched => doc' = doc
      /\ \A c \in Docs \ {d} : doc'[c] = doc[c] /\ result'[c] = result[c] /\ review'[c] = review[c]
  BY <1>0, <1>1 DEF PersistRows, TypeOK, Updated
<1>4. /\ Extracted(r) => ~ result[d]
      /\ result'[d] = (result[d] \/ Extracted(r))
      /\ Outcome(r) = "review" => review'[d] = [status |-> "pending", version |-> 1]
      /\ Outcome(r) # "review" => review'[d] = review[d]
  BY <1>0, <1>1 DEF PersistRows, TypeOK
<1>5. Outcome(r) \in {"completed", "review"} <=> Extracted(r)
  BY DEF Extracted
<1>6. DecidedHasResult'
  BY <1>3, <1>4, <1>5 DEF DecisionInv, DecidedHasResult
<1>7. ReviewIsOpen'
  BY <1>3, <1>4 DEF DecisionInv, ReviewIsOpen
<1>8. ReviewInv'
  <2>1. \A c \in Docs : Exists(review'[c]) => result'[c]
    BY <1>3, <1>4, <1>5 DEF DecisionInv, ReviewInv
  <2>2. ASSUME NEW a \in Reviewers, pc'[a] \in {"load", "writeback", "commit"}
        PROVE  /\ Exists(doc'[target'[a]]) => Exists(review'[target'[a]])
               /\ seenReview'[a].status # "pending" /\ Exists(doc'[target'[a]])
                    => review'[target'[a]].status # "pending"
               /\ HasRead(a)' /\ doc'[target'[a]].status = "review" => seen'[a].status = "review"
    <3>1. AtReview(a) /\ target[a] \in Docs /\ (HasRead(a)' => HasRead(a))
      BY <1>0, <1>2, <2>2 DEF AtReview, HasRead, RowInv, TargetInv, Known
    <3>2. CASE target[a] # d
      BY <1>3, <3>1, <3>2 DEF DecisionInv, ReviewInv, AtReview
    <3>3. CASE target[a] = d
      <4>1. Exists(review[d]) /\ result[d]
        BY <1>3, <3>1, <3>3 DEF DecisionInv, ReviewInv, AtReview
      <4>2. Outcome(r) # "review" /\ review'[d] = review[d]
        BY <1>4, <1>5, <4>1
      <4>3. doc'[d].status = "review" => doc[d].status = "review"
        BY <1>3, <4>2
      <4> QED BY <1>3, <3>1, <3>3, <4>1, <4>2, <4>3 DEF DecisionInv, ReviewInv, AtReview
    <3> QED BY <3>2, <3>3
  <2> QED BY <2>1, <2>2 DEF ReviewInv
<1>9. RetryInv'
  <2> SUFFICES ASSUME NEW c \in Docs, doc'[c].status = "rejected",
                      review'[c].status \in {"absent", "pending"}
               PROVE  Retryable(c)'
    BY DEF RetryInv
  <2>1. UNCHANGED entry \/ Bury(d)
    BY <1>1 DEF PersistRows
  <2>2. \A x \in Entries : entry[x].status = "pending" => entry'[x] = entry[x]
    BY <1>0, <2>1, BuryKeeps
  <2>3. CASE Retryable(c)
    BY <1>2, <2>2, <2>3 DEF Retryable
  <2>4. CASE ~ Retryable(c)
    <3>1. c = d /\ touched /\ Outcome(r) = "rejected"
      <4>1. ~ (doc[c].status = "rejected" /\ review[c].status \in {"absent", "pending"})
        BY <2>4 DEF DecisionInv, RetryInv
      <4>2. c = d
        BY <1>3, <4>1
      <4>3. CASE ~ touched
        <5>1. doc[d].status = "rejected" /\ review[d].status \notin {"absent", "pending"}
          BY <1>3, <4>1, <4>2, <4>3
        <5>2. Outcome(r) = "review"
          BY <1>4, <4>2, <5>1
        <5>3. Exists(review[d]) /\ result[d]
          BY <5>1 DEF Exists, DecisionInv, ReviewInv
        <5> QED BY <1>4, <1>5, <5>2, <5>3
      <4>4. CASE touched
        BY <1>3, <4>2, <4>4
      <4> QED BY <4>2, <4>3, <4>4
    <3>2. Bury(d)
      BY <1>1, <3>1 DEF PersistRows
    <3>3. PICK e \in Entries :
            /\ entry'[e] = [status |-> "pending", doc |-> d]
            /\ \A q \in Retries : pc[q] # "idle" => held[q] # e
      BY <1>0, <3>2, BuryKeeps
    <3>4. \A q \in Retries : pc'[q] = "commit" => held'[q] # e
      BY <1>2, <3>3
    <3> QED BY <3>1, <3>3, <3>4 DEF Retryable
  <2> QED BY <2>3, <2>4
<1> QED BY <1>6, <1>7, <1>8, <1>9 DEF DecisionInv

\* A run decides in the transaction that writes the rows of its decision.
LEMMA DecisionRun ==
  ASSUME DecisionInv, NEW r \in Runs, RunStep(r)
  PROVE  DecisionInv'
<1> USE DEF rows, stores, sessions, Goto
<1>0. /\ RowInv /\ RowInv' /\ TypeOK
      /\ r \in Procs
      /\ \A p \in Retries \cup Reviewers : p # r /\ p \in Procs
  BY RowRun, Disjoint DEF DecisionInv, RowInv, Procs
<1>1. CASE PersistCommit(r)
  <2>1. /\ pc[r] = "commit"
        /\ UNCHANGED <<target, seen, seenReview, held>>
        /\ \E step : pc' = [pc EXCEPT ![r] = step]
        /\ \/ \E touched \in BOOLEAN : PersistRows(r, touched)
           \/ UNCHANGED <<doc, result, review, entry>>
    BY <1>1 DEF PersistCommit
  <2>2. CASE UNCHANGED <<doc, result, review, entry>>
    <3>1. \A p \in Retries \cup Reviewers :
            pc'[p] = pc[p] /\ target'[p] = target[p] /\ seen'[p] = seen[p]
      BY <1>0, <2>1 DEF TypeOK
    <3> QED BY <1>0, <2>1, <2>2, <3>1, Bystanders DEF facts
  <2>3. CASE \E touched \in BOOLEAN : PersistRows(r, touched)
    BY <1>0, <2>1, <2>3, DecisionPersist
  <2> QED BY <2>1, <2>2, <2>3
<1>2. CASE HookExhausted(r)
  <2>1. target[r] \in Docs /\ Bury(target[r])
    BY <1>0, <1>2 DEF HookExhausted, RowInv, TargetInv, Known
  <2>2. \A x \in Entries : entry[x].status = "pending" => entry'[x] = entry[x]
    BY <1>0, <2>1, BuryKeeps
  <2>3. /\ UNCHANGED <<doc, result, review, target, seen, seenReview, held>>
        /\ \A p \in Retries \cup Reviewers : pc'[p] = pc[p]
    BY <1>0, <1>2 DEF HookExhausted, TypeOK
  <2>4. DecidedHasResult' /\ ReviewIsOpen' /\ ReviewInv'
    BY <2>3 DEF DecisionInv, DecidedHasResult, ReviewIsOpen, ReviewInv, HasRead
  <2>5. RetryInv'
    BY <2>2, <2>3 DEF DecisionInv, RetryInv, Retryable
  <2> QED BY <1>0, <2>4, <2>5 DEF DecisionInv
<1>3. CASE ~ PersistCommit(r) /\ ~ HookExhausted(r)
  <2>1. /\ UNCHANGED facts /\ UNCHANGED <<target, seenReview, held>>
        /\ \E step : pc' = [pc EXCEPT ![r] = step]
        /\ seen' = seen \/ seen' = [seen EXCEPT ![r] = doc[target[r]]]
    BY <1>3 DEF RunStep, RunLoad, RunStart, GraphStep, RunNode, RunParse, RunGuardrail,
       RunExtract, RunScore, RunRoute, RunTerminal, PersistRead, HookBegin, HookDelivered,
       facts
  <2>2. \A p \in Retries \cup Reviewers :
          pc'[p] = pc[p] /\ target'[p] = target[p] /\ seen'[p] = seen[p]
    BY <1>0, <2>1 DEF TypeOK
  <2> QED BY <1>0, <2>1, <2>2, Bystanders
<1> QED BY <1>1, <1>2, <1>3

\* An erasure takes the decision and its rows away together.
LEMMA DecisionErase ==
  ASSUME DecisionInv, NEW x \in Erasures,
         EraseStep(x) \/ \E d \in Docs : EraseCancel(x, d)
  PROVE  DecisionInv'
<1> USE DEF rows, stores, sessions, Goto
<1>0. /\ RowInv /\ RowInv' /\ TypeOK
      /\ x \in Procs
      /\ \A p \in Retries \cup Reviewers : p # x /\ p \in Procs
  BY RowErase, Disjoint DEF DecisionInv, RowInv, Procs
<1>1. CASE EraseMark(x) \/ EraseRows(x)
  <2>1. PICK d \in Docs : d = target[x]
    BY <1>0, <1>1 DEF EraseMark, EraseRows, RowInv, TargetInv, Known
  <2>2. /\ UNCHANGED <<target, seen, seenReview, held>>
        /\ \A p \in Retries \cup Reviewers : pc'[p] = pc[p]
    BY <1>0, <1>1 DEF EraseMark, EraseRows, TypeOK
  <2>3. /\ \A c \in Docs \ {d} : doc'[c] = doc[c] /\ result'[c] = result[c] /\ review'[c] = review[c]
        /\ doc'[d] = doc[d] \/ doc'[d].status \in {"cancelled", "absent"}
    BY <1>0, <1>1, <2>1 DEF EraseMark, EraseRows, TypeOK, Updated
  <2>4. /\ Exists(doc'[d]) => /\ Exists(doc[d])
                              /\ result'[d] = result[d] /\ review'[d] = review[d]
        /\ Exists(review'[d]) => Exists(doc'[d])
    <3>1. CASE EraseMark(x)
      <4>1. UNCHANGED <<result, review>>
        BY <3>1 DEF EraseMark
      <4>2. Exists(doc'[d]) <=> Exists(doc[d])
        <5>1. CASE doc' = doc
          BY <5>1
        <5>2. CASE doc' # doc
          <6>1. ~ Stale(doc[d], seen[x]) /\ doc' = [doc EXCEPT ![d] = Updated(doc[d], "cancelled")]
            BY <2>1, <3>1, <5>2 DEF EraseMark
          <6>2. doc'[d].status = "cancelled"
            BY <1>0, <6>1 DEF TypeOK, Updated
          <6> QED BY <6>1, <6>2 DEF Stale, Exists
        <5> QED BY <5>1, <5>2
      <4>3. Exists(review[d]) => Exists(doc[d])
        BY <1>0 DEF RowInv, RowsNeedDocument
      <4> QED BY <4>1, <4>2, <4>3
    <3>2. CASE EraseRows(x)
      BY <1>0, <2>1, <3>2 DEF EraseRows, Exists, TypeOK
    <3> QED BY <1>1, <3>1, <3>2
  <2>5. \A e \in Entries : entry[e].doc # d => entry'[e] = entry[e]
    BY <1>1, <2>1 DEF EraseMark, EraseRows
  <2>6. doc'[d].status \in {"completed", "review", "rejected"} => doc'[d] = doc[d] /\ Exists(doc'[d])
    BY <2>3 DEF Exists
  <2>7. DecidedHasResult'
    BY <2>3, <2>4, <2>6 DEF DecisionInv, DecidedHasResult
  <2>8. ReviewIsOpen'
    BY <2>3, <2>4, <2>6 DEF DecisionInv, ReviewIsOpen
  <2>9. ReviewInv'
    <3>1. \A c \in Docs : Exists(review'[c]) => result'[c]
      BY <2>3, <2>4 DEF DecisionInv, ReviewInv
    <3>2. ASSUME NEW a \in Reviewers, pc'[a] \in {"load", "writeback", "commit"}
          PROVE  /\ Exists(doc'[target'[a]]) => Exists(review'[target'[a]])
                 /\ seenReview'[a].status # "pending" /\ Exists(doc'[target'[a]])
                      => review'[target'[a]].status # "pending"
                 /\ HasRead(a)' /\ doc'[target'[a]].status = "review" => seen'[a].status = "review"
      <4>1. /\ AtReview(a) /\ target[a] \in Docs /\ (HasRead(a)' => HasRead(a))
        BY <1>0, <2>2, <3>2 DEF AtReview, HasRead, RowInv, TargetInv, Known
      <4>2. CASE target[a] # d
        BY <2>2, <2>3, <4>1, <4>2 DEF DecisionInv, ReviewInv, AtReview
      <4>3. CASE target[a] = d
        BY <2>2, <2>4, <2>6, <4>1, <4>3 DEF DecisionInv, ReviewInv, AtReview
      <4> QED BY <4>2, <4>3
    <3> QED BY <3>1, <3>2 DEF ReviewInv
  <2>10. RetryInv'
    <3> SUFFICES ASSUME NEW c \in Docs, doc'[c].status = "rejected",
                        review'[c].status \in {"absent", "pending"}
                 PROVE  Retryable(c)'
      BY DEF RetryInv
    <3>1. Retryable(c)
      BY <2>3, <2>4, <2>6 DEF DecisionInv, RetryInv
    <3>2. CASE c = d
      <4>1. UNCHANGED entry
        BY <1>0, <1>1, <2>1, <2>6, <3>2 DEF EraseMark, EraseRows, Exists, TypeOK
      <4> QED BY <2>2, <3>1, <4>1 DEF Retryable
    <3>3. CASE c # d
      <4>1. \A e \in Entries : entry[e].doc = c => entry'[e] = entry[e]
        BY <2>5, <3>3
      <4>2. PICK e \in Entries :
              /\ entry[e] = [status |-> "pending", doc |-> c]
              /\ \A q \in Retries :
                   pc[q] = "commit" /\ held[q] = e => seen[q].status # "pending"
        BY <3>1 DEF Retryable
      <4>3. entry'[e] = [status |-> "pending", doc |-> c]
        BY <4>1, <4>2
      <4> QED BY <2>2, <4>2, <4>3 DEF Retryable
    <3> QED BY <3>2, <3>3
  <2> QED BY <1>0, <2>7, <2>8, <2>9, <2>10 DEF DecisionInv
<1>2. CASE ~ EraseMark(x) /\ ~ EraseRows(x)
  <2>1. /\ UNCHANGED facts /\ UNCHANGED <<seenReview, held>>
        /\ \E step : pc' = [pc EXCEPT ![x] = step]
        /\ seen' = seen \/ seen' = [seen EXCEPT ![x] = doc[target[x]]]
        /\ target' = target \/ \E d \in Docs : target' = [target EXCEPT ![x] = d]
    BY <1>2 DEF EraseStep, EraseCancel, EraseRead, EraseBlob, EraseVectors, ErasePurge, facts
  <2>2. \A p \in Retries \cup Reviewers :
          pc'[p] = pc[p] /\ target'[p] = target[p] /\ seen'[p] = seen[p]
    BY <1>0, <2>1 DEF TypeOK
  <2> QED BY <1>0, <2>1, <2>2, Bystanders
<1> QED BY <1>1, <1>2

\* A retry takes a decision back, keeping its rows.
LEMMA DecisionRetry ==
  ASSUME DecisionInv, NEW q \in Retries,
         RetryStep(q) \/ \E e \in Entries : RetryRead(q, e)
  PROVE  DecisionInv'
<1> USE DEF rows, stores, sessions, Goto
<1>0. /\ RowInv /\ RowInv' /\ TypeOK
      /\ q \in Procs
      /\ \A a \in Reviewers : a # q /\ a \in Procs
      /\ \A p \in Retries : p \in Procs
  BY RowRetry, Disjoint DEF DecisionInv, RowInv, Procs
<1>1. CASE RetryEnqueue(q)
  <2>1. PICK r \in Runs :
          /\ pc' = [[pc EXCEPT ![q] = "commit"] EXCEPT ![r] = "queued"]
          /\ target' = [target EXCEPT ![r] = target[q]]
    BY <1>1 DEF RetryEnqueue, Enqueue
  <2>2. /\ UNCHANGED facts /\ UNCHANGED <<seenReview, held>>
        /\ seen' = [seen EXCEPT ![q] = doc[target[q]]]
        /\ pc[q] # "idle"
    BY <1>1 DEF RetryEnqueue, facts
  <2>3. r \in Procs /\ \A p \in Retries \cup Reviewers : p # r
    BY Disjoint DEF Procs
  <2>4. \A p \in Reviewers : pc'[p] = pc[p] /\ target'[p] = target[p] /\ seen'[p] = seen[p]
    BY <1>0, <2>1, <2>2, <2>3 DEF TypeOK
  <2>5. \A p \in Retries \ {q} : pc'[p] = pc[p] /\ seen'[p] = seen[p]
    BY <1>0, <2>1, <2>2, <2>3 DEF TypeOK
  <2>6. held[q] \in Entries /\ seen'[q] = doc[entry[held[q]].doc]
    BY <1>0, <2>2 DEF RowInv, EntryInv, TypeOK
  <2>7. \A a \in Reviewers : pc'[a] \in {"load", "writeback", "commit"} =>
          /\ AtReview(a) /\ UNCHANGED <<target[a], seenReview[a], seen[a]>>
          /\ (HasRead(a)' => HasRead(a))
    BY <2>2, <2>4 DEF AtReview, HasRead
  <2>8. \A p \in Retries : pc'[p] = "commit" =>
          \/ pc[p] = "commit" /\ UNCHANGED <<held[p], seen[p]>>
          \/ /\ held'[p] \in Entries
             /\ seen'[p] = doc[entry[held'[p]].doc]
    BY <2>2, <2>5, <2>6
  <2> QED BY <1>0, <2>2, <2>7, <2>8, DecisionQuiet
<1>2. CASE RetryCommit(q)
  <2>1. PICK d \in Docs, e \in Entries :
          d = target[q] /\ e = held[q] /\ entry[e].doc = d
    BY <1>0, <1>2 DEF RetryCommit, RowInv, TargetInv, EntryInv, Known
  <2>2. /\ UNCHANGED <<result, review, target, seen, seenReview, held>>
        /\ \A p \in Reviewers : pc'[p] = pc[p]
        /\ \A p \in Retries : pc'[p] = "commit" => pc[p] = "commit"
    BY <1>0, <1>2 DEF RetryCommit, TypeOK
  <2>3. \/ UNCHANGED <<doc, entry>>
        \/ /\ seen[q].status = "pending" /\ pc[q] = "commit"
           /\ doc' = doc
           /\ \A x \in Entries \ {e} : entry'[x] = entry[x]
        \/ /\ Exists(doc[d])
           /\ doc'[d].status = "pending"
           /\ \A c \in Docs \ {d} : doc'[c] = doc[c]
           /\ \A x \in Entries \ {e} : entry'[x] = entry[x]
    BY <1>0, <1>2, <2>1 DEF RetryCommit, RetryTouches, Stale, TypeOK, Updated
  <2>4. \A c \in Docs : doc'[c] = doc[c] \/ (c = d /\ doc'[c].status = "pending" /\ Exists(doc[c]))
    BY <2>3
  <2>5. DecidedHasResult' /\ ReviewIsOpen'
    BY <2>2, <2>4 DEF DecisionInv, DecidedHasResult, ReviewIsOpen
  <2>6. ReviewInv'
    <3>1. \A a \in Reviewers : AtReview(a) => target[a] \in Docs
      BY <1>0 DEF AtReview, RowInv, TargetInv, Known
    <3> QED BY <2>2, <2>4, <3>1 DEF DecisionInv, ReviewInv, AtReview, HasRead
  <2>7. RetryInv'
    <3> SUFFICES ASSUME NEW c \in Docs, doc'[c].status = "rejected",
                        review'[c].status \in {"absent", "pending"}
                 PROVE  Retryable(c)'
      BY DEF RetryInv
    <3>1. PICK x \in Entries :
            /\ entry[x] = [status |-> "pending", doc |-> c]
            /\ \A p \in Retries : pc[p] = "commit" /\ held[p] = x => seen[p].status # "pending"
      BY <2>2, <2>4 DEF DecisionInv, RetryInv, Retryable
    <3>2. entry'[x] = entry[x]
      <4>1. CASE UNCHANGED entry
        BY <4>1
      <4>2. CASE x # e /\ \A y \in Entries \ {e} : entry'[y] = entry[y]
        BY <4>2
      <4>3. CASE x = e /\ doc'[d].status = "pending"
        <5>1. entry[e].doc = c
          BY <3>1, <4>3
        <5> QED BY <2>1, <4>3, <5>1
      <4>4. CASE x = e /\ seen[q].status = "pending" /\ pc[q] = "commit"
        BY <2>1, <3>1, <4>4
      <4> QED BY <2>3, <4>1, <4>2, <4>3, <4>4
    <3> QED BY <2>2, <3>1, <3>2 DEF Retryable
  <2> QED BY <1>0, <2>5, <2>6, <2>7 DEF DecisionInv
<1>3. ASSUME NEW e \in Entries, RetryRead(q, e)
      PROVE  DecisionInv'
  <2>1. /\ UNCHANGED facts /\ UNCHANGED <<seenReview, seen>>
        /\ pc' = [pc EXCEPT ![q] = "entry"]
        /\ held' = [held EXCEPT ![q] = e]
        /\ target' = [target EXCEPT ![q] = entry[e].doc]
    BY <1>3 DEF RetryRead, facts
  <2>2. \A a \in Reviewers : pc'[a] = pc[a] /\ target'[a] = target[a]
    BY <1>0, <2>1 DEF TypeOK
  <2>3. \A a \in Reviewers : pc'[a] \in {"load", "writeback", "commit"} =>
          /\ AtReview(a) /\ UNCHANGED <<target[a], seenReview[a], seen[a]>>
          /\ (HasRead(a)' => HasRead(a))
    BY <2>1, <2>2 DEF AtReview, HasRead
  <2>4. \A p \in Retries : pc'[p] = "commit" =>
          pc[p] = "commit" /\ UNCHANGED <<held[p], seen[p]>>
    BY <1>0, <2>1 DEF TypeOK
  <2> QED BY <1>0, <2>1, <2>3, <2>4, DecisionQuiet
<1> QED BY <1>1, <1>2, <1>3 DEF RetryStep

\* A reviewer decides on a review that exists.
LEMMA DecisionReview ==
  ASSUME DecisionInv, NEW a \in Reviewers,
         ReviewStep(a) \/ \E d \in Docs, action \in Actions : ReviewRead(a, d, action)
  PROVE  DecisionInv'
<1> USE DEF rows, stores, sessions, Goto
<1>0. /\ RowInv /\ RowInv' /\ TypeOK
      /\ a \in Procs
      /\ \A p \in Retries : p # a /\ p \in Procs
      /\ \A b \in Reviewers : b \in Procs
  BY RowReview, Disjoint DEF DecisionInv, RowInv, Procs
<1>1. CASE ReviewLoad(a) \/ ReviewWriteBack(a) \/ \E d \in Docs, action \in Actions : ReviewRead(a, d, action)
  <2>1. /\ UNCHANGED facts /\ UNCHANGED held
        /\ \E step : pc' = [pc EXCEPT ![a] = step]
    BY <1>1 DEF ReviewLoad, ReviewWriteBack, ReviewRead, facts
  <2>2. \A p \in Procs \ {a} : pc'[p] = pc[p] /\ target'[p] = target[p] /\ seen'[p] = seen[p]
    BY <1>0, <1>1, <2>1 DEF ReviewLoad, ReviewWriteBack, ReviewRead, TypeOK
  <2>3. \A b \in Reviewers \ {a} : seenReview'[b] = seenReview[b]
    BY <1>0, <1>1 DEF ReviewLoad, ReviewWriteBack, ReviewRead, TypeOK
  <2>4. \/ /\ AtReview(a) /\ UNCHANGED <<target[a], seenReview[a], seen[a]>>
           /\ (HasRead(a)' => HasRead(a))
        \/ /\ AtReview(a) /\ UNCHANGED <<target[a], seenReview[a]>>
           /\ seen'[a] = doc[target'[a]]
        \/ /\ ~ HasRead(a)'
           /\ seenReview'[a] = review[target'[a]]
           /\ Exists(review[target'[a]])
    <3>1. CASE ReviewLoad(a)
      BY <1>0, <3>1 DEF ReviewLoad, AtReview, TypeOK
    <3>2. CASE ReviewWriteBack(a)
      BY <3>2 DEF ReviewWriteBack, AtReview, HasRead
    <3>3. ASSUME NEW d \in Docs, NEW action \in Actions, ReviewRead(a, d, action)
          PROVE  /\ ~ HasRead(a)'
                 /\ seenReview'[a] = review[target'[a]]
                 /\ Exists(review[target'[a]])
      BY <1>0, <3>3 DEF ReviewRead, HasRead, TypeOK
    <3> QED BY <1>1, <3>1, <3>2, <3>3
  <2>5. \A b \in Reviewers \ {a} : pc'[b] \in {"load", "writeback", "commit"} =>
          /\ AtReview(b) /\ UNCHANGED <<target[b], seenReview[b], seen[b]>>
          /\ (HasRead(b)' => HasRead(b))
    BY <1>0, <2>2, <2>3 DEF AtReview, HasRead
  <2>6. \A q \in Retries : pc'[q] = "commit" =>
          pc[q] = "commit" /\ UNCHANGED <<held[q], seen[q]>>
    BY <1>0, <2>1, <2>2
  <2>7. \A b \in Reviewers : pc'[b] \in {"load", "writeback", "commit"} =>
          \/ /\ AtReview(b) /\ UNCHANGED <<target[b], seenReview[b], seen[b]>>
             /\ (HasRead(b)' => HasRead(b))
          \/ /\ AtReview(b) /\ UNCHANGED <<target[b], seenReview[b]>>
             /\ seen'[b] = doc[target'[b]]
          \/ /\ ~ HasRead(b)'
             /\ seenReview'[b] = review[target'[b]]
             /\ Exists(review[target'[b]])
    BY <2>4, <2>5
  <2> QED BY <1>0, <2>1, <2>6, <2>7, DecisionQuiet
<1>2. CASE ReviewCommit(a)
  <2>1. PICK d \in Docs : d = target[a]
    BY <1>0, <1>2 DEF ReviewCommit, RowInv, TargetInv, Known
  <2>2. /\ UNCHANGED <<result, entry, target, seen, seenReview, held>>
        /\ \A p \in Retries : pc'[p] = pc[p]
        /\ \A b \in Reviewers : pc'[b] \in {"load", "writeback", "commit"} => pc'[b] = pc[b]
        /\ pc[a] = "commit"
    BY <1>0, <1>2 DEF ReviewCommit, TypeOK
  <2> DEFINE decided == ReviewOutcome[act[a]]
             status == ReviewedStatus(act[a])
  <2>3. /\ decided \in {"accepted", "corrected", "rejected"}
        /\ status \in {"completed", "rejected"}
    BY <1>0 DEF ReviewOutcome, ReviewedStatus, Actions, TypeOK
  <2> HIDE DEF decided, status
  <2>4. \/ UNCHANGED <<doc, review>>
        \/ /\ \/ review' = review /\ seenReview[a].status = decided
              \/ /\ ~ Stale(review[d], seenReview[a])
                 /\ review' = [review EXCEPT ![d] = Updated(review[d], decided)]
           /\ \/ doc' = doc /\ (~ Exists(seen[a]) \/ seen[a].status = status)
              \/ /\ ~ Stale(doc[d], seen[a])
                 /\ doc' = [doc EXCEPT ![d] = Updated(doc[d], status)]
    BY <1>2, <2>1 DEF ReviewCommit, decided, status
  <2>5. CASE UNCHANGED <<doc, review>>
    <3>1. DecidedHasResult' /\ ReviewIsOpen'
      BY <2>2, <2>5 DEF DecisionInv, DecidedHasResult, ReviewIsOpen
    <3>2. ReviewInv'
      BY <2>2, <2>5 DEF DecisionInv, ReviewInv, HasRead
    <3>3. RetryInv'
      BY <2>2, <2>5 DEF DecisionInv, RetryInv, Retryable
    <3> QED BY <1>0, <3>1, <3>2, <3>3 DEF DecisionInv
  <2>6. CASE /\ \/ review' = review /\ seenReview[a].status = decided
                \/ /\ ~ Stale(review[d], seenReview[a])
                   /\ review' = [review EXCEPT ![d] = Updated(review[d], decided)]
             /\ \/ doc' = doc /\ (~ Exists(seen[a]) \/ seen[a].status = status)
                \/ /\ ~ Stale(doc[d], seen[a])
                   /\ doc' = [doc EXCEPT ![d] = Updated(doc[d], status)]
    <3>1. \A c \in Docs \ {d} : doc'[c] = doc[c] /\ review'[c] = review[c]
      BY <1>0, <2>6 DEF TypeOK
    <3>2. \/ review'[d] = review[d] /\ seenReview[a].status = decided
          \/ Exists(review[d]) /\ review'[d].status = decided
      BY <1>0, <2>6 DEF TypeOK, Stale, Updated
    <3>3. \/ doc'[d] = doc[d] /\ (~ Exists(seen[a]) \/ seen[a].status = status)
          \/ Exists(doc[d]) /\ doc'[d].status = status
      BY <1>0, <2>6 DEF TypeOK, Stale, Updated
    <3>4. Exists(doc'[d]) <=> Exists(doc[d])
      BY <2>3, <3>3 DEF Exists
    <3>5. Exists(review'[d]) <=> Exists(review[d])
      BY <2>3, <3>2 DEF Exists
    <3>6. Exists(doc[d]) => Exists(review[d]) /\ result[d]
      BY <2>1, <2>2 DEF DecisionInv, ReviewInv
    <3>7. Exists(doc'[d]) => review'[d].status \in {"accepted", "corrected", "rejected"}
      <4> SUFFICES ASSUME Exists(doc[d])
                   PROVE  review'[d].status \in {"accepted", "corrected", "rejected"}
        BY <3>4
      <4>1. CASE review'[d] = review[d] /\ seenReview[a].status = decided
        <5>1. review[d].status # "pending"
          BY <2>1, <2>2, <2>3, <4>1 DEF DecisionInv, ReviewInv
        <5>2. review[d].status \in ReviewStatuses \ {"absent"}
          BY <1>0, <3>6 DEF TypeOK, Exists
        <5> QED BY <4>1, <5>1, <5>2 DEF ReviewStatuses
      <4>2. CASE review'[d].status = decided
        BY <2>3, <4>2
      <4> QED BY <3>2, <4>1, <4>2
    <3>8. doc'[d].status # "review"
      <4>1. CASE doc'[d] = doc[d] /\ (~ Exists(seen[a]) \/ seen[a].status = status)
        <5>1. doc[d].status = "review" => seen[a].status = "review"
          BY <2>1, <2>2 DEF DecisionInv, ReviewInv, HasRead
        <5> QED BY <2>3, <4>1, <5>1 DEF Exists
      <4>2. CASE doc'[d].status = status
        BY <2>3, <4>2
      <4> QED BY <3>3, <4>1, <4>2
    <3>9. DecidedHasResult'
      BY <2>2, <3>1, <3>4, <3>6 DEF DecisionInv, DecidedHasResult, Exists
    <3>10. ReviewIsOpen'
      BY <3>1, <3>8 DEF DecisionInv, ReviewIsOpen
    <3>11. ReviewInv'
      <4>1. \A c \in Docs : Exists(review'[c]) => result'[c]
        BY <2>2, <3>1, <3>5 DEF DecisionInv, ReviewInv
      <4>2. ASSUME NEW b \in Reviewers, pc'[b] \in {"load", "writeback", "commit"}
            PROVE  /\ Exists(doc'[target'[b]]) => Exists(review'[target'[b]])
                   /\ seenReview'[b].status # "pending" /\ Exists(doc'[target'[b]])
                        => review'[target'[b]].status # "pending"
                   /\ HasRead(b)' /\ doc'[target'[b]].status = "review" => seen'[b].status = "review"
        <5>1. AtReview(b) /\ target[b] \in Docs /\ (HasRead(b)' => HasRead(b))
          BY <1>0, <2>2, <4>2 DEF AtReview, HasRead, RowInv, TargetInv, Known
        <5>2. CASE target[b] # d
          BY <2>2, <3>1, <5>1, <5>2 DEF DecisionInv, ReviewInv, AtReview
        <5>3. CASE target[b] = d
          BY <2>2, <3>4, <3>5, <3>6, <3>7, <3>8, <5>3
        <5> QED BY <5>2, <5>3
      <4> QED BY <4>1, <4>2 DEF ReviewInv
    <3>12. RetryInv'
      <4> SUFFICES ASSUME NEW c \in Docs, doc'[c].status = "rejected",
                          review'[c].status \in {"absent", "pending"}
                   PROVE  Retryable(c)'
        BY DEF RetryInv
      <4>1. c # d
        BY <3>7 DEF Exists
      <4> QED BY <2>2, <3>1, <4>1 DEF DecisionInv, RetryInv, Retryable
    <3> QED BY <1>0, <3>9, <3>10, <3>11, <3>12 DEF DecisionInv
  <2> QED BY <2>4, <2>5, <2>6
<1> QED BY <1>1, <1>2 DEF ReviewStep

\* A crash or a rollback decides nothing.
LEMMA DecisionFault ==
  ASSUME DecisionInv, Crash \/ (\E p \in Procs : Abort(p)) \/ UNCHANGED vars
  PROVE  DecisionInv'
<1> USE DEF rows, stores, sessions, Goto
<1>0. /\ RowInv /\ TypeOK
      /\ RowInv'
      /\ \A a \in Retries \cup Reviewers : a \in Procs
  BY RowStep DEF DecisionInv, RowInv, Procs, Next
<1>1. /\ UNCHANGED facts /\ UNCHANGED <<target, seen, seenReview, held>>
      /\ \A p \in Procs : pc'[p] \in {"load", "writeback", "commit"} => pc'[p] = pc[p]
  BY <1>0 DEF Crash, Abort, vars, facts, TypeOK
<1>2. \A a \in Reviewers : pc'[a] \in {"load", "writeback", "commit"} =>
        /\ AtReview(a) /\ UNCHANGED <<target[a], seenReview[a], seen[a]>>
        /\ (HasRead(a)' => HasRead(a))
  BY <1>0, <1>1 DEF AtReview, HasRead
<1>3. \A q \in Retries : pc'[q] = "commit" =>
        pc[q] = "commit" /\ UNCHANGED <<held[q], seen[q]>>
  BY <1>0, <1>1
<1> QED BY <1>0, <1>1, <1>2, <1>3, DecisionQuiet

\* The invariant holds initially.
LEMMA DecisionInit == Init => DecisionInv
BY RowInit DEF Init, NoRow, Exists, Procs, DecisionInv, ReviewInv, DecidedHasResult, ReviewIsOpen, RetryInv

\* Every step preserves it.
LEMMA DecisionStep == DecisionInv /\ [Next]_vars => DecisionInv'
<1> SUFFICES ASSUME DecisionInv, [Next]_vars PROVE DecisionInv'
  OBVIOUS
<1> QED BY DecisionUpload, DecisionRun, DecisionErase, DecisionRetry, DecisionReview,
           DecisionFault DEF Next

\* So it holds in every state of every behaviour.
LEMMA DecisionAlways == Spec => []DecisionInv
BY DecisionInit, DecisionStep, PTL DEF Spec

\* A completed document, or one in review, has its extraction, although runs and
\* reviewers write the status and the extraction in sessions that race.
THEOREM DecidedAlwaysHasResult == Spec => []DecidedHasResult
<1>1. DecisionInv => DecidedHasResult
  BY DEF DecisionInv
<1> QED BY <1>1, DecisionAlways, PTL

\* A document in review has an open task: no run, retry or second reviewer
\* closes the task and leaves the document behind.
THEOREM ReviewAlwaysOpen == Spec => []ReviewIsOpen
<1>1. DecisionInv => ReviewIsOpen
  BY DEF DecisionInv
<1> QED BY <1>1, DecisionAlways, PTL

\* Racing retries never use up all the dead letters of a document that stays
\* rejected, although dlq has no version column.
THEOREM RejectedStaysRetryable == Spec => []RejectedCanBeRetried
<1>1. DecisionInv => RejectedCanBeRetried
  BY DEF DecisionInv, RetryInv, Retryable, RejectedCanBeRetried
<1> QED BY <1>1, DecisionAlways, PTL

-----------------------------------------------------------------------------
(* Nothing is written over unread. *)

\* A reviewer at work was there before with the review it had read, or has just
\* read the current one.
LEMMA ReviewerReads ==
  ASSUME RowInv, [Next]_vars, NEW a \in Reviewers, AtReview(a)'
  PROVE  \/ AtReview(a) /\ UNCHANGED <<target[a], seenReview[a]>>
         \/ seenReview'[a] = review[target'[a]] /\ review' = review
<1> USE DEF rows, stores, sessions, Goto, AtReview
<1> DEFINE Kept == pc'[a] = pc[a] /\ target'[a] = target[a] /\ seenReview'[a] = seenReview[a]
<1>0. /\ TypeOK
      /\ a \in Procs
      /\ \A p \in Runs \cup Erasures \cup Retries : p # a /\ p \in Procs
  BY Disjoint DEF RowInv, Procs
<1>1. ASSUME NEW d \in Docs, UploadStep(d) \/ UploadFails(d)
      PROVE  Kept
  BY <1>0, <1>1 DEF UploadStep, UploadSave, UploadCommit, UploadEnqueue, Enqueue, UploadFails, TypeOK
<1>2. ASSUME NEW r \in Runs, RunStep(r)
      PROVE  Kept
  <2>1. /\ \E step : pc' = [pc EXCEPT ![r] = step]
        /\ UNCHANGED <<target, seenReview>>
    BY <1>2 DEF RunStep, RunLoad, RunStart, GraphStep, RunNode, RunParse, RunGuardrail,
       RunExtract, RunScore, RunRoute, RunTerminal, PersistRead, PersistCommit, HookBegin,
       HookDelivered, HookExhausted
  <2> QED BY <1>0, <2>1 DEF TypeOK
<1>3. ASSUME NEW x \in Erasures, EraseStep(x) \/ \E d \in Docs : EraseCancel(x, d)
      PROVE  Kept
  <2>1. /\ \E step : pc' = [pc EXCEPT ![x] = step]
        /\ target' = target \/ \E d \in Docs : target' = [target EXCEPT ![x] = d]
        /\ UNCHANGED seenReview
    BY <1>3 DEF EraseStep, EraseCancel, EraseRead, EraseMark, EraseBlob, EraseVectors,
       ErasePurge, EraseRows
  <2> QED BY <1>0, <2>1 DEF TypeOK
<1>4. ASSUME NEW q \in Retries, RetryStep(q) \/ \E e \in Entries : RetryRead(q, e)
      PROVE  Kept
  BY <1>0, <1>4 DEF RetryStep, RetryRead, RetryEnqueue, RetryCommit, Enqueue, TypeOK
<1>5. ASSUME NEW b \in Reviewers \ {a},
             ReviewStep(b) \/ \E d \in Docs, action \in Actions : ReviewRead(b, d, action)
      PROVE  Kept
  <2>1. /\ \E step : pc' = [pc EXCEPT ![b] = step]
        /\ target' = target \/ \E d \in Docs : target' = [target EXCEPT ![b] = d]
        /\ seenReview' = seenReview \/ \E d \in Docs : seenReview' = [seenReview EXCEPT ![b] = review[d]]
    BY <1>5 DEF ReviewStep, ReviewRead, ReviewLoad, ReviewWriteBack, ReviewCommit
  <2> QED BY <1>0, <1>5, <2>1 DEF TypeOK
<1>6. CASE ReviewStep(a)
  BY <1>0, <1>6 DEF ReviewStep, ReviewLoad, ReviewWriteBack, ReviewCommit, TypeOK
<1>7. ASSUME NEW d \in Docs, NEW action \in Actions, ReviewRead(a, d, action)
      PROVE  seenReview'[a] = review[target'[a]] /\ review' = review
  BY <1>0, <1>7 DEF ReviewRead, TypeOK
<1>8. CASE Crash \/ (\E p \in Procs : Abort(p)) \/ UNCHANGED vars
  <2>1. UNCHANGED <<target, seenReview>>
    BY <1>8 DEF Crash, Abort, vars
  <2>2. pc'[a] = pc[a] \/ pc'[a] \in {"idle", "done"}
    BY <1>0, <1>8 DEF Crash, Abort, vars, TypeOK
  <2> QED BY <2>1, <2>2
<1>9. ASSUME NEW b \in Reviewers,
             ReviewStep(b) \/ \E d \in Docs, action \in Actions : ReviewRead(b, d, action)
      PROVE  Kept \/ ReviewStep(a) \/ \E d \in Docs, action \in Actions : ReviewRead(a, d, action)
  BY <1>5, <1>9
<1> QED BY <1>1, <1>2, <1>3, <1>4, <1>6, <1>7, <1>8, <1>9 DEF Next

\* What a step does to a review task, and who does it.
TaskChange(c) ==
  \/ review'[c] = review[c]
  \/ \E r \in Runs :                       \* a run opens it,
       /\ Leaves(r, c) /\ ~ Exists(review[c])
       /\ Exists(doc[c]) /\ Exists(doc'[c])
  \/ \E x \in Erasures :                   \* an erasure takes it along,
       /\ Leaves(x, c) /\ pc[x] = "rows"
       /\ ~ Exists(review'[c]) /\ review'[c].version = review[c].version
  \/ \E a \in Reviewers :                  \* a reviewer decides it.
       /\ Leaves(a, c) /\ pc[a] = "commit"
       /\ ~ Stale(review[c], seenReview[a])
       /\ Exists(review'[c]) /\ review'[c].version > review[c].version

LEMMA TaskChanges ==
  ASSUME DecisionInv, [Next]_vars
  PROVE  \A c \in Docs : TaskChange(c)
<1> USE DEF rows, stores, sessions, Goto
<1>0. RowInv /\ TypeOK
  BY DEF DecisionInv, RowInv
<1>1. ASSUME review' = review PROVE \A c \in Docs : TaskChange(c)
  BY <1>1 DEF TaskChange
<1>2. ASSUME NEW r \in Runs, RunStep(r)
      PROVE  \A c \in Docs : TaskChange(c)
  <2>1. CASE PersistCommit(r) /\ review' # review
    <3>1. PICK touched \in BOOLEAN : PersistRows(r, touched)
      BY <2>1 DEF PersistCommit
    <3>2. /\ r \in Procs /\ pc[r] = "commit" /\ target[r] \in Docs
          /\ Exists(doc[target[r]]) /\ Outcome(r) = "review" /\ ~ result[target[r]]
      BY <1>0, <2>1, <3>1 DEF PersistCommit, PersistRows, Extracted, RowInv, TargetInv, Known, Procs
    <3>3. ~ Exists(review[target[r]])
      BY <3>2 DEF DecisionInv, ReviewInv
    <3>4. Exists(doc'[target[r]])
      BY <1>0, <3>1, <3>2 DEF PersistRows, Updated, Exists, TypeOK
    <3>5. Leaves(r, target[r])
      BY <1>0, <2>1, <3>2 DEF PersistCommit, AfterPersist, Leaves, TypeOK
    <3>6. \A c \in Docs \ {target[r]} : review'[c] = review[c]
      BY <1>0, <3>1 DEF PersistRows, TypeOK
    <3> QED BY <3>2, <3>3, <3>4, <3>5, <3>6 DEF TaskChange
  <2>2. CASE ~ PersistCommit(r)
    <3>1. review' = review
      BY <1>2, <2>2 DEF RunStep, RunLoad, RunStart, GraphStep, RunNode, RunParse,
         RunGuardrail, RunExtract, RunScore, RunRoute, RunTerminal, PersistRead, HookBegin,
         HookDelivered, HookExhausted
    <3> QED BY <1>1, <3>1
  <2> QED BY <1>1, <2>1, <2>2
<1>3. ASSUME NEW x \in Erasures, EraseStep(x) \/ \E d \in Docs : EraseCancel(x, d)
      PROVE  \A c \in Docs : TaskChange(c)
  <2>1. CASE EraseRows(x)
    <3>1. /\ x \in Procs /\ pc[x] = "rows" /\ pc' = [pc EXCEPT ![x] = "done"]
          /\ target[x] \in Docs
          /\ \A c \in Docs \ {target[x]} : review'[c] = review[c]
      BY <1>0, <2>1 DEF EraseRows, TypeOK, RowInv, TargetInv, Known, Procs
    <3>2. Leaves(x, target[x])
      BY <1>0, <3>1 DEF Leaves, TypeOK
    <3>3. ~ Exists(review'[target[x]]) /\ review'[target[x]].version = review[target[x]].version
      BY <1>0, <2>1, <3>1 DEF EraseRows, Exists, TypeOK
    <3> QED BY <3>1, <3>2, <3>3 DEF TaskChange
  <2>2. CASE ~ EraseRows(x)
    <3>1. review' = review
      BY <1>3, <2>2 DEF EraseStep, EraseCancel, EraseRead, EraseMark, EraseBlob, EraseVectors,
         ErasePurge
    <3> QED BY <1>1, <3>1
  <2> QED BY <2>1, <2>2
<1>4. ASSUME NEW a \in Reviewers,
             ReviewStep(a) \/ \E d \in Docs, action \in Actions : ReviewRead(a, d, action)
      PROVE  \A c \in Docs : TaskChange(c)
  <2>1. CASE ReviewCommit(a) /\ review' # review
    <3>1. /\ a \in Procs /\ pc[a] = "commit" /\ pc' = [pc EXCEPT ![a] = "done"]
          /\ target[a] \in Docs
      BY <1>0, <2>1 DEF ReviewCommit, RowInv, TargetInv, Known, Procs
    <3>2. /\ ~ Stale(review[target[a]], seenReview[a])
          /\ review' = [review EXCEPT ![target[a]] = Updated(review[target[a]], ReviewOutcome[act[a]])]
      BY <2>1 DEF ReviewCommit
    <3>3. Leaves(a, target[a])
      BY <1>0, <3>1 DEF Leaves, TypeOK
    <3>4. ReviewOutcome[act[a]] # "absent"
      BY <1>0 DEF ReviewOutcome, Actions, TypeOK
    <3>5. /\ Exists(review'[target[a]])
          /\ review'[target[a]].version = review[target[a]].version + 1
          /\ review[target[a]].version \in Nat
      BY <1>0, <3>1, <3>2, <3>4 DEF Updated, Exists, TypeOK
    <3>6. \A c \in Docs \ {target[a]} : review'[c] = review[c]
      BY <1>0, <3>2 DEF TypeOK
    <3>7. review'[target[a]].version > review[target[a]].version
      BY <3>5
    <3> QED BY <3>1, <3>2, <3>3, <3>5, <3>6, <3>7 DEF TaskChange
  <2>2. CASE ~ ReviewCommit(a)
    <3>1. review' = review
      BY <1>4, <2>2 DEF ReviewStep, ReviewRead, ReviewLoad, ReviewWriteBack
    <3> QED BY <1>1, <3>1
  <2> QED BY <1>1, <2>1, <2>2
<1>5. CASE \/ \E d \in Docs : UploadStep(d) \/ UploadFails(d)
           \/ \E q \in Retries : RetryStep(q) \/ \E e \in Entries : RetryRead(q, e)
           \/ Crash \/ (\E p \in Procs : Abort(p)) \/ UNCHANGED vars
  <2>1. review' = review
    BY <1>5 DEF UploadStep, UploadSave, UploadCommit, UploadEnqueue, UploadFails, RetryStep,
       RetryRead, RetryEnqueue, RetryCommit, Crash, Abort, vars
  <2> QED BY <1>1, <2>1
<1> QED BY <1>2, <1>3, <1>4, <1>5 DEF Next

\* A review task that still has the version a reviewer read is the one it read:
\* versions only grow, and a task is opened once.
LEMMA ReviewReadStep ==
  ASSUME DecisionInv, ReviewReadInv, [Next]_vars
  PROVE  ReviewReadInv'
<1> SUFFICES ASSUME NEW a \in Reviewers, AtReview(a)'
             PROVE  LET d == target'[a] IN
                    /\ seenReview'[a].version <= review'[d].version
                    /\ Exists(review'[d]) /\ seenReview'[a].version = review'[d].version
                         => seenReview'[a].status = review'[d].status
  BY DEF ReviewReadInv, AtReview
<1>0. RowInv /\ RowInv' /\ TypeOK /\ TypeOK' /\ a \in Procs
  BY RowStep DEF DecisionInv, RowInv, Procs
<1>1. target'[a] \in Docs
  BY <1>0 DEF RowInv, TargetInv, Known, AtReview
<1>2. /\ review[target'[a]].version \in Nat /\ review'[target'[a]].version \in Nat
      /\ seenReview[a].version \in Nat /\ seenReview'[a].version \in Nat
  BY <1>0, <1>1 DEF TypeOK
<1>3. CASE AtReview(a) /\ UNCHANGED <<target[a], seenReview[a]>>
  <2>1. /\ seenReview[a].version <= review[target[a]].version
        /\ Exists(review[target[a]]) /\ seenReview[a].version = review[target[a]].version
             => seenReview[a].status = review[target[a]].status
        /\ Exists(doc[target[a]]) => Exists(review[target[a]])
    BY <1>3 DEF ReviewReadInv, DecisionInv, ReviewInv, AtReview
  <2>2. TaskChange(target[a])
    BY <1>1, <1>3, TaskChanges
  <2> QED BY <1>2, <1>3, <2>1, <2>2 DEF TaskChange
<1>4. CASE seenReview'[a] = review[target'[a]] /\ review' = review
  BY <1>2, <1>4
<1> QED BY <1>0, <1>3, <1>4, ReviewerReads

\* Whoever changes a review task has read it as it is.
LEMMA TaskWrites ==
  ASSUME DecisionInv, ReviewReadInv, [Next]_vars
  PROVE  \A d \in Docs : ReviewWrite(d)
<1> SUFFICES ASSUME NEW d \in Docs PROVE ReviewWrite(d)
  OBVIOUS
<1>0. TypeOK /\ \A p \in Runs \cup Erasures \cup Reviewers : p \in Procs
  BY DEF DecisionInv, RowInv, Procs
<1>1. ASSUME NEW a \in Reviewers, Leaves(a, d), pc[a] = "commit",
             ~ Stale(review[d], seenReview[a])
      PROVE  Exists(review[d]) /\ seenReview[a] = review[d]
  <2>1. Exists(review[d]) /\ seenReview[a].version = review[d].version
    BY <1>1 DEF Stale
  <2>2. seenReview[a].status = review[d].status
    BY <1>1, <2>1 DEF ReviewReadInv, Leaves
  <2> QED BY <1>0, <2>1, <2>2 DEF TypeOK
<1> QED BY <1>0, <1>1, TaskChanges DEF TaskChange, ReviewWrite

\* Both invariants.
CurrentInv == RaceInv /\ DecisionInv /\ ReviewReadInv

LEMMA CurrentAlways == Spec => []CurrentInv
<1>1. Init => CurrentInv
  BY RaceInit, DecisionInit DEF CurrentInv, Init, ReviewReadInv, Procs
<1>2. CurrentInv /\ [Next]_vars => CurrentInv'
  BY RaceStep, DecisionStep, ReviewReadStep DEF CurrentInv
<1> QED BY <1>1, <1>2, PTL DEF Spec

\* Sessions wait for the network, for models and for each other between reading a
\* row and writing it; yet no status of a document, and no decision of a review,
\* is ever overwritten by a session that has not read it, by an UPDATE of a row
\* that was erased, or, if it is the mark of an erasure, by a run.
THEOREM NothingIsOverwritten == Spec => NoLostUpdate
<1>1. CurrentInv /\ [Next]_vars => [\A d \in Docs : DocumentWrite(d) /\ ReviewWrite(d)]_vars
  BY DocWrites, TaskWrites DEF CurrentInv
<1> QED BY <1>1, CurrentAlways, PTL DEF Spec, NoLostUpdate

-----------------------------------------------------------------------------
(* The sessions implement the atomic steps of DocumentContract. *)

ContractStep == [Contract!Next]_<<Status, result, Decision, entry, tombstones>>

\* Steps that leave the rows alone stutter.
LEMMA RowsQuiet ==
  ASSUME UNCHANGED <<doc, result, review, entry, tombstones>>
  PROVE  ContractStep
BY DEF ContractStep, Status, Decision

\* What an UPDATE of a row does to the column the contract is about.
LEMMA StatusSet ==
  ASSUME TypeOK, NEW d \in Docs, NEW s
  PROVE  /\ Status[d] = doc[d].status
         /\ doc' = doc => Status' = Status
         /\ doc' = [doc EXCEPT ![d] = Updated(doc[d], s)] => Status' = [Status EXCEPT ![d] = s]
<1>1. ASSUME doc' = [doc EXCEPT ![d] = Updated(doc[d], s)]
      PROVE  Status' = [Status EXCEPT ![d] = s]
  <2>1. \A c \in Docs : doc'[c].status = IF c = d THEN s ELSE doc[c].status
    BY <1>1 DEF TypeOK, Updated
  <2> QED BY <2>1 DEF Status
<1> QED BY <1>1 DEF Status

LEMMA DecisionSet ==
  ASSUME TypeOK, NEW d \in Docs, NEW s, NEW v
  PROVE  /\ Decision[d] = review[d].status
         /\ review' = review => Decision' = Decision
         /\ review' = [review EXCEPT ![d] = [status |-> s, version |-> v]]
              => Decision' = [Decision EXCEPT ![d] = s]
<1>1. ASSUME review' = [review EXCEPT ![d] = [status |-> s, version |-> v]]
      PROVE  Decision' = [Decision EXCEPT ![d] = s]
  <2>1. \A c \in Docs : review'[c].status = IF c = d THEN s ELSE review[c].status
    BY <1>1 DEF TypeOK
  <2> QED BY <2>1 DEF Decision
<1> QED BY <1>1 DEF Decision

\* An upload commits to a document that was never erased.
LEMMA ContractUpload ==
  ASSUME ContractInv, NEW d \in Docs, UploadStep(d) \/ UploadFails(d)
  PROVE  ContractStep
<1>1. CASE UploadCommit(d)
  <2>1. TypeOK /\ doc[d] = NoRow
    BY <1>1 DEF ContractInv, RaceInv, RowInv, UploadInv, UploadCommit
  <2>2. Status[d] = "absent" /\ tombstones[d] = 0
    <3>1. ~ (tombstones[d] > 0) /\ tombstones[d] \in Nat
      BY <2>1 DEF ContractInv, TombInv, NoRow, TypeOK
    <3> QED BY <2>1, <3>1 DEF Status, NoRow
  <2>3. Status' = [Status EXCEPT ![d] = "pending"]
    <3>1. \A c \in Docs : doc'[c].status = IF c = d THEN "pending" ELSE doc[c].status
      BY <1>1, <2>1 DEF UploadCommit, TypeOK
    <3> QED BY <3>1 DEF Status
  <2>4. UNCHANGED <<result, Decision, entry, tombstones>>
    BY <1>1 DEF UploadCommit, Decision
  <2>5. Contract!Submit(d)
    BY <2>2, <2>3, <2>4 DEF Contract!Submit, Contract!Set
  <2> QED BY <2>5 DEF ContractStep, Contract!Next
<1>2. CASE ~ UploadCommit(d)
  <2>1. UNCHANGED <<doc, result, review, entry, tombstones>>
    BY <1>2 DEF UploadStep, UploadSave, UploadEnqueue, UploadFails, rows
  <2> QED BY <2>1, RowsQuiet
<1> QED BY <1>1, <1>2

\* A run's commit finds the document as the guard saw it, or only adds a letter.
LEMMA ContractPersist ==
  ASSUME ContractInv, NEW r \in Runs, pc[r] = "commit", NEW touched \in BOOLEAN,
         seen[r].status # Outcome(r) => touched, PersistRows(r, touched),
         UNCHANGED tombstones
  PROVE  ContractStep
<1>1. TypeOK /\ r \in Procs
  BY DEF ContractInv, RaceInv, RowInv, Procs
<1>2. PICK d \in Docs : d = target[r]
  BY <1>1 DEF ContractInv, RaceInv, RowInv, TargetInv, Known
<1>3. Exists(doc[d]) /\ Status[d] = doc[d].status /\ Status[d] # "absent"
  BY <1>1, <1>2, StatusSet DEF PersistRows, Exists
<1>4. Outcome(r) \in {"completed", "review", "rejected", "error"}
  <2>1. st[r].status \in GraphStatuses
    BY <1>1 DEF TypeOK, State
  <2> QED BY <2>1 DEF Outcome, Terminal, GraphStatuses
<1>5. CASE touched
  <2>1. Status[d] # "cancelled"
    <3>1. seen[r].version = doc[d].version
      BY <1>2, <1>5 DEF PersistRows, Stale
    <3>2. seen[r].status = doc[d].status
      BY <1>1, <1>2, <1>3, <3>1 DEF ContractInv, RaceInv, ReadInv, HasRead
    <3> QED BY <1>3, <3>2 DEF ContractInv, RaceInv, GuardInv
  <2>2. Status' = [Status EXCEPT ![d] = Outcome(r)]
    BY <1>1, <1>2, <1>5, StatusSet DEF PersistRows
  <2>3. CASE Extracted(r)
    <3>1. ~ result[d] /\ Decision[d] = "absent"
      BY <1>1, <1>2, <2>3, DecisionSet
         DEF PersistRows, ContractInv, DecisionInv, ReviewInv, Exists
    <3>2. result' = [result EXCEPT ![d] = TRUE]
      BY <1>1, <1>2, <2>3 DEF PersistRows, TypeOK
    <3>3. Decision' = IF Outcome(r) = "review" THEN [Decision EXCEPT ![d] = "pending"]
                                              ELSE Decision
      BY <1>1, <1>2, DecisionSet DEF PersistRows
    <3>4. Outcome(r) \in {"completed", "review"}
      BY <2>3 DEF Extracted
    <3>5. UNCHANGED entry
      BY <3>4 DEF PersistRows
    <3>6. Contract!Accept(d, Outcome(r))
      BY <1>3, <2>1, <2>2, <3>1, <3>2, <3>3, <3>5 DEF Contract!Accept, Contract!Set
    <3> QED BY <3>4, <3>6 DEF ContractStep, Contract!Next
  <2>4. CASE ~ Extracted(r)
    <3>1. Outcome(r) \in {"rejected", "error"}
      BY <1>4, <2>4 DEF Extracted
    <3>2. UNCHANGED <<result, Decision>>
      BY <1>1, <1>2, <2>4, <3>1, DecisionSet DEF PersistRows, TypeOK
    <3>3. Contract!Bury(d)
      BY <1>2, <3>1 DEF PersistRows, Bury, Contract!Bury
    <3>4. Contract!Reject(d, Outcome(r))
      BY <1>3, <2>1, <2>2, <3>2, <3>3 DEF Contract!Reject, Contract!Set
    <3> QED BY <3>1, <3>4 DEF ContractStep, Contract!Next
  <2> QED BY <2>3, <2>4
<1>6. CASE ~ touched
  <2>1. seen[r].status = Outcome(r)
    BY <1>6
  <2>2. ~ Extracted(r)
    <3>1. SUFFICES ASSUME Extracted(r) PROVE FALSE
      OBVIOUS
    <3>2. ~ result[d]
      BY <1>2, <3>1 DEF PersistRows
    <3>3. result[d]
      BY <1>2, <1>3, <2>1, <3>1 DEF ContractInv, FoundInv, Extracted
    <3> QED BY <3>2, <3>3
  <2>3. Outcome(r) \in {"rejected", "error"}
    BY <1>4, <2>2 DEF Extracted
  <2>4. UNCHANGED <<Status, result, Decision>>
    <3>1. doc' = doc /\ review' = review
      BY <1>6, <2>3 DEF PersistRows
    <3>2. result' = result
      BY <1>1, <1>2, <2>2 DEF PersistRows, TypeOK
    <3> QED BY <3>1, <3>2 DEF Status, Decision
  <2>5. Contract!Letter(d)
    BY <1>2, <1>3, <2>3, <2>4 DEF PersistRows, Bury, Contract!Bury, Contract!Letter
  <2> QED BY <2>5 DEF ContractStep, Contract!Next
<1> QED BY <1>5, <1>6

LEMMA ContractRun ==
  ASSUME ContractInv, NEW r \in Runs, RunStep(r)
  PROVE  ContractStep
<1> USE DEF rows, stores, sessions, Goto
<1>1. CASE PersistCommit(r)
  <2>1. pc[r] = "commit" /\ UNCHANGED tombstones
    BY <1>1 DEF PersistCommit
  <2>2. \/ UNCHANGED <<doc, result, review, entry>>
        \/ \E touched \in BOOLEAN :
             (seen[r].status # Outcome(r) => touched) /\ PersistRows(r, touched)
    BY <1>1 DEF PersistCommit
  <2> QED BY <2>1, <2>2, RowsQuiet, ContractPersist
<1>2. CASE HookExhausted(r)
  <2>1. TypeOK /\ target[r] \in Docs
    BY <1>2 DEF HookExhausted, ContractInv, RaceInv, RowInv, TargetInv, Known, Procs
  <2>2. Status[target[r]] # "absent" /\ UNCHANGED <<Status, result, Decision, tombstones>>
    BY <1>2, <2>1, StatusSet, DecisionSet DEF HookExhausted, Exists
  <2>3. Contract!Letter(target[r])
    BY <1>2, <2>2 DEF HookExhausted, Bury, Contract!Bury, Contract!Letter
  <2> QED BY <2>1, <2>3 DEF ContractStep, Contract!Next
<1>3. CASE ~ PersistCommit(r) /\ ~ HookExhausted(r)
  <2>1. UNCHANGED <<doc, result, review, entry, tombstones>>
    BY <1>3 DEF RunStep, RunLoad, RunStart, GraphStep, RunNode, RunParse, RunGuardrail,
       RunExtract, RunScore, RunRoute, RunTerminal, PersistRead, HookBegin, HookDelivered
  <2> QED BY <2>1, RowsQuiet
<1> QED BY <1>1, <1>2, <1>3

\* An erasure marks a document that was not marked, or removes all of it.
LEMMA ContractErase ==
  ASSUME ContractInv, NEW x \in Erasures,
         EraseStep(x) \/ \E d \in Docs : EraseCancel(x, d)
  PROVE  ContractStep
<1> USE DEF rows, stores, sessions, Goto
<1>0. TypeOK /\ x \in Procs
  BY DEF ContractInv, RaceInv, RowInv, Procs
<1>1. CASE EraseMark(x) /\ ~ UNCHANGED doc
  <2>1. PICK d \in Docs : d = target[x] /\ HasRead(x)
    BY <1>0, <1>1 DEF EraseMark, HasRead, ContractInv, RaceInv, RowInv, TargetInv, Known
  <2>2. /\ seen[x].status # "cancelled" /\ ~ Stale(doc[d], seen[x])
        /\ doc' = [doc EXCEPT ![d] = Updated(doc[d], "cancelled")]
    BY <1>1, <2>1 DEF EraseMark
  <2>3. seen[x].status = doc[d].status /\ doc[d].status # "absent"
    BY <1>0, <2>1, <2>2 DEF Stale, Exists, ContractInv, RaceInv, ReadInv
  <2>4. Status[d] \notin {"absent", "cancelled"} /\ Status' = [Status EXCEPT ![d] = "cancelled"]
    BY <1>0, <2>2, <2>3, StatusSet
  <2>5. UNCHANGED <<result, Decision, entry, tombstones>>
    BY <1>1 DEF EraseMark, Decision
  <2>6. Contract!Mark(d)
    BY <2>4, <2>5 DEF Contract!Mark, Contract!Set
  <2> QED BY <2>6 DEF ContractStep, Contract!Next
<1>2. CASE EraseRows(x)
  <2>1. PICK d \in Docs : d = target[x] /\ doc[d].version > 0
    BY <1>0, <1>2 DEF EraseRows, ContractInv, RaceInv, RowInv, TargetInv, Known
  <2>2. Status[d] # "absent" \/ tombstones[d] > 0
    BY <1>0, <2>1, StatusSet DEF ContractInv, TombInv, Exists
  <2>3. Status' = [Status EXCEPT ![d] = "absent"]
    <3>1. \A c \in Docs : doc'[c].status = IF c = d THEN "absent" ELSE doc[c].status
      BY <1>0, <1>2, <2>1 DEF EraseRows, TypeOK
    <3> QED BY <3>1 DEF Status
  <2>4. Decision' = [Decision EXCEPT ![d] = "absent"]
    <3>1. \A c \in Docs : review'[c].status = IF c = d THEN "absent" ELSE review[c].status
      BY <1>0, <1>2, <2>1 DEF EraseRows, TypeOK
    <3> QED BY <3>1 DEF Decision
  <2>5. Contract!Erase(d)
    BY <1>2, <2>1, <2>2, <2>3, <2>4 DEF EraseRows, Contract!Erase, Contract!Set
  <2> QED BY <2>5 DEF ContractStep, Contract!Next
<1>3. CASE ~ EraseRows(x) /\ ~ (EraseMark(x) /\ ~ UNCHANGED doc)
  <2>1. UNCHANGED <<doc, result, review, entry, tombstones>>
    BY <1>3 DEF EraseStep, EraseCancel, EraseRead, EraseMark, EraseBlob, EraseVectors, ErasePurge
  <2> QED BY <2>1, RowsQuiet
<1> QED BY <1>1, <1>2, <1>3

\* A retry uses up a letter of a document that is still there.
LEMMA ContractRetry ==
  ASSUME ContractInv, NEW q \in Retries, RetryStep(q) \/ \E e \in Entries : RetryRead(q, e)
  PROVE  ContractStep
<1> USE DEF rows, stores, sessions, Goto
<1>0. TypeOK /\ RowsNeedDocument /\ q \in Procs
  BY DEF ContractInv, RaceInv, RowInv, Procs
<1>1. CASE RetryCommit(q) /\ ~ UNCHANGED <<doc, entry>>
  <2>1. PICK e \in Entries : e = held[q] /\ entry[e].status # "free" /\ entry[e].doc = target[q]
    BY <1>1 DEF RetryCommit, ContractInv, RaceInv, RowInv, EntryInv
  <2>2. target[q] \in Docs
    BY <1>0, <1>1 DEF RetryCommit, ContractInv, RaceInv, RowInv, TargetInv, Known
  <2>3. /\ entry[e].status # "deleted"
        /\ entry' = [entry EXCEPT ![e].status = "retrying"]
        /\ \/ doc' = doc
           \/ doc' = [doc EXCEPT ![target[q]] = Updated(doc[target[q]], "pending")]
        /\ UNCHANGED <<result, review, tombstones>>
    BY <1>1, <2>1 DEF RetryCommit
  <2>4. entry[e].status \in {"pending", "retrying"}
    BY <1>0, <2>1, <2>3 DEF TypeOK
  <2>5. Status[target[q]] # "absent"
    BY <1>0, <2>1, <2>2, <2>3, StatusSet DEF RowsNeedDocument, Exists
  <2>6. \/ Status' = [Status EXCEPT ![target[q]] = "pending"]
        \/ UNCHANGED Status /\ seen[q].status = "pending" /\ pc[q] = "commit"
    BY <1>0, <1>1, <2>1, <2>2, <2>3, StatusSet DEF RetryCommit, RetryTouches
  <2>7. UNCHANGED Decision
    BY <2>3 DEF Decision
  <2>8. ASSUME Status[target[q]] = "rejected", Contract!Undecided(target[q]),
               seen[q].status = "pending", pc[q] = "commit"
        PROVE  \E other \in Entries \ {e} : Contract!PendingLetter(other, target[q])
    <3>1. Retryable(target[q])
      BY <2>2, <2>8 DEF Status, Decision, Contract!Undecided, ContractInv, DecisionInv, RetryInv
    <3> QED BY <2>1, <2>8, <3>1 DEF Retryable, Contract!PendingLetter
  <2>9. Contract!Retry(e)
    BY <2>1, <2>3, <2>4, <2>5, <2>6, <2>7, <2>8 DEF Contract!Retry, Contract!Set
  <2> QED BY <2>9 DEF ContractStep, Contract!Next
<1>2. CASE ~ (RetryCommit(q) /\ ~ UNCHANGED <<doc, entry>>)
  <2>1. UNCHANGED <<doc, result, review, entry, tombstones>>
    BY <1>2 DEF RetryStep, RetryRead, RetryEnqueue, RetryCommit
  <2> QED BY <2>1, RowsQuiet
<1> QED BY <1>1, <1>2

\* A reviewer who finds the review still open decides the document with it.
LEMMA ContractReview ==
  ASSUME ContractInv, NEW a \in Reviewers,
         ReviewStep(a) \/ \E d \in Docs, action \in Actions : ReviewRead(a, d, action)
  PROVE  ContractStep
<1> USE DEF rows, stores, sessions, Goto
<1>0. TypeOK /\ RowsNeedDocument /\ a \in Procs
  BY DEF ContractInv, RaceInv, RowInv, Procs
<1>1. CASE ReviewCommit(a) /\ ~ UNCHANGED <<doc, review>>
  <2>1. PICK d \in Docs : d = target[a]
    BY <1>0, <1>1 DEF ReviewCommit, ContractInv, RaceInv, RowInv, TargetInv, Known
  <2> DEFINE decided == ReviewOutcome[act[a]]
             status == ReviewedStatus(act[a])
             docTouched == Exists(seen[a]) /\ seen[a].status # status
  <2>2. PICK reviewTouched \in BOOLEAN :
          /\ seenReview[a].status # decided => reviewTouched
          /\ ~ (reviewTouched /\ Stale(review[d], seenReview[a]))
          /\ ~ (docTouched /\ Stale(doc[d], seen[a]))
          /\ review' = IF reviewTouched THEN [review EXCEPT ![d] = Updated(review[d], decided)]
                                        ELSE review
          /\ doc' = IF docTouched THEN [doc EXCEPT ![d] = Updated(doc[d], status)] ELSE doc
    BY <1>1, <2>1 DEF ReviewCommit
  <2>3. reviewTouched \/ docTouched
    BY <1>1, <2>2
  <2>4. Exists(doc[d]) /\ Exists(review[d])
    <3>1. CASE reviewTouched
      BY <1>0, <2>2, <3>1 DEF Stale, RowsNeedDocument
    <3>2. CASE docTouched
      BY <1>1, <2>1, <2>2, <3>2 DEF Stale, ReviewCommit, ContractInv, DecisionInv, ReviewInv
    <3> QED BY <2>3, <3>1, <3>2
  <2>5. Status[d] # "absent" /\ Decision[d] # "absent"
    BY <2>4 DEF Status, Decision, Exists
  <2>6. <<status, decided>> \in Contract!Decisions
    BY <1>0 DEF Contract!Decisions, TypeOK, Actions, ReviewOutcome, ReviewedStatus
  <2>7. ASSUME Status[d] = "review" PROVE reviewTouched /\ docTouched
    <3>1. doc[d].status = "review" /\ review[d].status = "pending"
      BY <2>7 DEF Status, ContractInv, DecisionInv, ReviewIsOpen
    <3>2. seen[a].status = "review" /\ seenReview[a].status = "pending"
      BY <1>1, <2>1, <2>4, <3>1 DEF ReviewCommit, HasRead, ContractInv, DecisionInv, ReviewInv
    <3>3. decided # "pending" /\ status # "review"
      BY <1>0 DEF TypeOK, Actions, ReviewOutcome, ReviewedStatus
    <3> QED BY <2>2, <3>2, <3>3 DEF Exists
  <2>8. \/ Status' = [Status EXCEPT ![d] = status]
        \/ Status[d] # "review" /\ UNCHANGED Status
    BY <1>0, <2>2, <2>7, StatusSet
  <2>9. \/ Decision' = [Decision EXCEPT ![d] = decided]
        \/ ~ Contract!Undecided(d) /\ UNCHANGED Decision
    <3>1. CASE reviewTouched
      BY <1>0, <2>2, <3>1, DecisionSet DEF Updated
    <3>2. CASE ~ reviewTouched
      <4>1. UNCHANGED Decision /\ seenReview[a].status = decided
        BY <2>2, <3>2 DEF Decision
      <4>2. decided # "pending"
        BY <1>0 DEF TypeOK, Actions, ReviewOutcome
      <4>3. review[d].status # "pending"
        BY <1>1, <2>1, <2>4, <4>1, <4>2
           DEF ReviewCommit, ContractInv, DecisionInv, ReviewInv
      <4> QED BY <2>4, <4>1, <4>3 DEF Decision, Exists, Contract!Undecided
    <3> QED BY <3>1, <3>2
  <2>10. UNCHANGED <<result, entry, tombstones>>
    BY <1>1 DEF ReviewCommit
  <2>11. Contract!Review(d, status, decided)
    BY <2>5, <2>8, <2>9, <2>10 DEF Contract!Review, Contract!Set
  <2>12. \E new \in Contract!Decisions : Contract!Review(d, new[1], new[2])
    BY <2>6, <2>11
  <2> QED BY <2>12 DEF ContractStep, Contract!Next
<1>2. CASE ~ (ReviewCommit(a) /\ ~ UNCHANGED <<doc, review>>)
  <2>1. UNCHANGED <<doc, result, review, entry, tombstones>>
    BY <1>2 DEF ReviewStep, ReviewRead, ReviewLoad, ReviewWriteBack, ReviewCommit
  <2> QED BY <2>1, RowsQuiet
<1> QED BY <1>1, <1>2

\* Every step of the detail is a step of the contract, or none.
LEMMA ContractSteps ==
  ASSUME ContractInv, [Next]_vars
  PROVE  ContractStep
<1>1. CASE Crash \/ (\E p \in Procs : Abort(p)) \/ UNCHANGED vars
  <2>1. UNCHANGED <<doc, result, review, entry, tombstones>>
    BY <1>1 DEF Crash, Abort, vars, rows
  <2> QED BY <2>1, RowsQuiet
<1> QED BY <1>1, ContractUpload, ContractRun, ContractErase, ContractRetry, ContractReview
        DEF Next

\* What the contract's steps never do to a document.
LEMMA ContractKeeps ==
  ASSUME TypeOK, ContractStep, NEW d \in Docs
  PROVE  /\ tombstones'[d] \in Nat /\ tombstones'[d] >= tombstones[d]
         /\ tombstones'[d] > tombstones[d] => /\ Status[d] # "absent" \/ tombstones[d] > 0
                                              /\ Status'[d] = "absent"
         /\ Status'[d] = "absent" /\ Status[d] # "absent" => tombstones'[d] > 0
         /\ Status[d] = "absent" /\ tombstones[d] > 0 => Status'[d] = "absent"
         /\ result[d] /\ Status'[d] # "absent" => result'[d]
<1>0. /\ tombstones[d] \in Nat /\ tombstones \in [Docs -> Nat]
      /\ result \in [Docs -> BOOLEAN]
      /\ Status = [c \in Docs |-> Status[c]]
  BY DEF TypeOK, Status
<1>1. CASE UNCHANGED <<Status, result, Decision, entry, tombstones>>
  BY <1>0, <1>1
<1>2. CASE \E c \in Docs : Contract!Erase(c)
  <2>1. PICK c \in Docs : Contract!Erase(c)
    BY <1>2
  <2>2. CASE c = d
    <3>1. /\ Status'[d] = "absent" /\ tombstones'[d] = tombstones[d] + 1
          /\ Status[d] # "absent" \/ tombstones[d] > 0
      BY <1>0, <2>1, <2>2 DEF Contract!Erase, Contract!Set
    <3> QED BY <1>0, <3>1
  <2>3. CASE c # d
    <3>1. Status'[d] = Status[d] /\ tombstones'[d] = tombstones[d] /\ result'[d] = result[d]
      BY <1>0, <2>1, <2>3 DEF Contract!Erase, Contract!Set
    <3> QED BY <1>0, <3>1
  <2> QED BY <2>2, <2>3
<1>3. CASE ~ (\E c \in Docs : Contract!Erase(c)) /\ Contract!Next
  <2>1. tombstones' = tombstones
    BY <1>3 DEF Contract!Next, Contract!Submit, Contract!Letter, Contract!Mark,
       Contract!Accept, Contract!Reject, Contract!Review, Contract!Retry
  <2>2. result[d] => result'[d]
    BY <1>0, <1>3 DEF Contract!Next, Contract!Submit, Contract!Letter, Contract!Mark,
       Contract!Accept, Contract!Reject, Contract!Review, Contract!Retry
  <2>3. \/ UNCHANGED Status
        \/ \E c, new : /\ Status' = [Status EXCEPT ![c] = new] /\ new # "absent"
                       /\ Status[c] # "absent" \/ tombstones[c] = 0
    BY <1>3 DEF Contract!Next, Contract!Submit, Contract!Letter, Contract!Mark,
       Contract!Accept, Contract!Reject, Contract!Review, Contract!Retry, Contract!Set,
       Contract!Decisions
  <2>4. /\ Status[d] # "absent" => Status'[d] # "absent"
        /\ Status[d] = "absent" /\ tombstones[d] > 0 => Status'[d] = "absent"
    BY <1>0, <2>3
  <2> QED BY <1>0, <2>1, <2>2, <2>4
<1> QED BY <1>1, <1>2, <1>3 DEF ContractStep

\* The invariant holds initially,
LEMMA ContractInit == Init => ContractInv
<1> SUFFICES ASSUME Init PROVE ContractInv
  OBVIOUS
<1>1. TombInv
  BY DEF Init, TombInv, NoRow
<1>2. FoundInv
  BY DEF Init, FoundInv, Procs
<1> QED BY <1>1, <1>2, RaceInit, DecisionInit DEF ContractInv

\* and is preserved by every step.
LEMMA ContractInvStep == ContractInv /\ [Next]_vars => ContractInv'
<1> SUFFICES ASSUME ContractInv, [Next]_vars PROVE ContractInv'
  OBVIOUS
<1>1. RaceInv' /\ DecisionInv'
  BY RaceStep, DecisionStep DEF ContractInv
<1>2. TypeOK /\ TypeOK' /\ RowInv /\ RowInv'
  BY <1>1 DEF ContractInv, RaceInv, RowInv
<1>3. ContractStep
  BY ContractSteps
<1>4. ASSUME NEW d \in Docs
      PROVE  /\ Status[d] = "absent" <=> ~ Exists(doc[d])
             /\ Status'[d] = "absent" <=> ~ Exists(doc'[d])
             /\ doc[d].version \in Nat /\ doc'[d].version \in Nat
             /\ tombstones[d] \in Nat
             /\ Exists(doc[d]) => doc[d].version > 0
  <2>1. Exists(doc[d]) => doc[d].version > 0
    BY <1>2 DEF RowInv, UploadInv, NoRow, Exists
  <2> QED BY <1>2, <2>1 DEF TypeOK, Status, Exists
<1>5. TombInv'
  <2> SUFFICES ASSUME NEW d \in Docs
               PROVE  tombstones'[d] > 0 <=> doc'[d].version > 0 /\ ~ Exists(doc'[d])
    BY DEF TombInv
  <2>1. Written(d)
    BY <1>2, StepWrites
  <2>2. tombstones[d] > 0 <=> doc[d].version > 0 /\ ~ Exists(doc[d])
    BY DEF ContractInv, TombInv
  <2>3. doc'[d].version >= doc[d].version
    BY <1>4, <2>1 DEF Written
  <2>4. tombstones'[d] > 0 => doc[d].version > 0 /\ ~ Exists(doc'[d])
    BY <1>2, <1>3, <1>4, <2>2, ContractKeeps
  <2>5. doc'[d].version > 0 /\ ~ Exists(doc'[d]) => tombstones'[d] > 0
    BY <1>2, <1>3, <1>4, <2>1, <2>2, ContractKeeps DEF Written
  <2> QED BY <1>4, <2>3, <2>4, <2>5
<1>6. FoundInv'
  <2> SUFFICES ASSUME NEW r \in Runs, pc'[r] = "commit",
                      seen'[r].status \in {"completed", "review"}, Exists(doc'[target'[r]])
               PROVE  result'[target'[r]]
    BY DEF FoundInv
  <2>1. r \in Procs /\ target'[r] \in Docs
    BY <1>2 DEF RowInv, TargetInv, Known, Procs
  <2>2. CASE seen'[r] = doc'[target'[r]]
    BY <1>1, <2>1, <2>2 DEF DecisionInv, DecidedHasResult
  <2>3. CASE pc[r] = "commit" /\ seen'[r] = seen[r] /\ target'[r] = target[r]
    <3>1. doc[target[r]].version > 0
      BY <1>2, <2>1, <2>3 DEF RowInv, TargetInv, Known
    <3>2. Exists(doc[target[r]])
      BY <1>2, <1>3, <1>4, <2>1, <2>3, <3>1, ContractKeeps DEF ContractInv, TombInv
    <3>3. result[target[r]]
      BY <2>3, <3>2 DEF ContractInv, FoundInv
    <3> QED BY <1>2, <1>3, <1>4, <2>1, <2>3, <3>3, ContractKeeps
  <2>4. \/ HasRead(r) /\ seen'[r] = seen[r] /\ target'[r] = target[r]
        \/ seen'[r] = doc'[target'[r]]
    BY <1>2, <2>1, StepReads DEF Reads
  <2>5. pc[r] = "commit" \/ PersistRead(r)
    BY <1>2, RunCommits
  <2>6. ASSUME PersistRead(r) PROVE seen'[r] = doc'[target'[r]]
    BY <1>2, <2>1, <2>6 DEF PersistRead, TypeOK, rows
  <2> QED BY <2>2, <2>3, <2>4, <2>5, <2>6
<1> QED BY <1>1, <1>5, <1>6 DEF ContractInv

LEMMA ContractAlways == Spec => []ContractInv
BY ContractInit, ContractInvStep, PTL DEF Spec

\* All that the sessions of runs, webhooks, erasures, retries and reviewers do to
\* a document's rows, they might as well do in atomic steps, each on the rows as
\* they are: no read that has grown old by the time of the commit shows in them.
THEOREM SessionsAreAtomic == Spec => ImplementsContract
<1>1. Init => Contract!Init
  <2> SUFFICES ASSUME Init PROVE Contract!Init
    OBVIOUS
  <2>1. Status = [d \in Docs |-> "absent"] /\ Decision = [d \in Docs |-> "absent"]
    BY DEF Init, NoRow, Status, Decision
  <2> QED BY <2>1 DEF Init, Contract!Init
<1>2. ContractInv /\ [Next]_vars => [Contract!Next]_(Contract!contract)
  BY ContractSteps DEF ContractStep, Contract!contract
<1> QED BY <1>1, <1>2, ContractAlways, PTL DEF Spec, ImplementsContract, Contract!Spec

-----------------------------------------------------------------------------
(* What the contract is worth: it implies by itself that the rows agree. *)

AgreeInv == Contract!TypeOK /\ Contract!RowsAgree

\* A new letter is the only change of a row of dlq.
LEMMA ContractBury ==
  ASSUME Contract!TypeOK, NEW d \in Docs, Contract!Bury(d)
  PROVE  /\ entry' \in [Entries -> [status : {"free", "pending", "retrying", "deleted"},
                                    doc    : Docs \cup {NoDoc}]]
         /\ \E e \in Entries : Contract!PendingLetter(e, d)'
         /\ \A e \in Entries, c \in Docs :
              Contract!PendingLetter(e, c) => Contract!PendingLetter(e, c)'
         /\ \A e \in Entries : \/ entry'[e] = entry[e]
                               \/ entry'[e].doc = d /\ entry[e].status # "pending"
         /\ \A e \in Entries : entry'[e].status = "deleted" <=> entry[e].status = "deleted"
<1>1. PICK e \in Entries :
        /\ entry[e].status = "free"
        /\ entry' = [entry EXCEPT ![e] = [status |-> "pending", doc |-> d]]
  BY DEF Contract!Bury
<1>2. Contract!PendingLetter(e, d)'
  BY <1>1 DEF Contract!PendingLetter, Contract!TypeOK
<1>3. \A f \in Entries, c \in Docs :
        Contract!PendingLetter(f, c) => Contract!PendingLetter(f, c)'
  BY <1>1 DEF Contract!PendingLetter, Contract!TypeOK
<1>4. \A f \in Entries : f # e => entry'[f] = entry[f]
  BY <1>1 DEF Contract!TypeOK
<1>5. entry'[e] = [status |-> "pending", doc |-> d]
  BY <1>1 DEF Contract!TypeOK
<1>6. entry' \in [Entries -> [status : {"free", "pending", "retrying", "deleted"},
                             doc    : Docs \cup {NoDoc}]]
  BY <1>1 DEF Contract!TypeOK
<1>7. \A f \in Entries :
        /\ entry'[f] = entry[f] \/ (entry'[f].doc = d /\ entry[f].status # "pending")
        /\ entry'[f].status = "deleted" <=> entry[f].status = "deleted"
  <2>1. /\ entry'[e].doc = d /\ entry'[e].status = "pending"
        /\ entry[e].status # "pending" /\ entry[e].status # "deleted"
    BY <1>1, <1>5
  <2> QED BY <1>4, <2>1
<1>8. \E f \in Entries : Contract!PendingLetter(f, d)'
  BY <1>2
<1> QED BY <1>3, <1>6, <1>7, <1>8

\* The steps that decide about one document, which is there, and leave the
\* letters of the others alone.
LEMMA AgreesElsewhere ==
  ASSUME AgreeInv, NEW d \in Docs, Contract!TypeOK',
         \A c \in Docs \ {d} :
           /\ Status'[c] = Status[c] /\ result'[c] = result[c]
           /\ Decision'[c] = Decision[c] /\ tombstones'[c] = tombstones[c],
         \A e \in Entries : entry'[e] = entry[e] \/ (entry'[e].doc = d /\ (entry[e].doc = d \/ entry[e].status # "pending")),
         Status'[d] \in {"completed", "review"} \/ Decision'[d] # "absent" => result'[d],
         Status'[d] = "review" => Decision'[d] = "pending",
         Status'[d] = "rejected" /\ Decision'[d] \in {"absent", "pending"}
           => \E e \in Entries : Contract!PendingLetter(e, d)',
         Status'[d] = "absent" =>
           /\ ~ result'[d] /\ Decision'[d] = "absent"
           /\ \A e \in Entries : entry'[e].doc = d => entry'[e].status = "deleted",
         tombstones'[d] > 0 => Status'[d] = "absent"
  PROVE  AgreeInv'
<1> SUFFICES ASSUME NEW c \in Docs
             PROVE  /\ Status'[c] \in {"completed", "review"} \/ Decision'[c] # "absent"
                         => result'[c]
                    /\ Status'[c] = "review" => Decision'[c] = "pending"
                    /\ Status'[c] = "rejected" /\ Decision'[c] \in {"absent", "pending"}
                         => \E e \in Entries : Contract!PendingLetter(e, c)'
                    /\ Status'[c] = "absent" =>
                         /\ ~ result'[c] /\ Decision'[c] = "absent"
                         /\ \A e \in Entries : entry'[e].doc = c => entry'[e].status = "deleted"
                    /\ tombstones'[c] > 0 => Status'[c] = "absent"
  BY DEF AgreeInv, Contract!RowsAgree, Contract!Undecided
<1>1. CASE c = d
  BY <1>1
<1>2. CASE c # d
  <2>1. \A e \in Entries : Contract!PendingLetter(e, c) => Contract!PendingLetter(e, c)'
    BY <1>2 DEF Contract!PendingLetter
  <2>2. \A e \in Entries : entry'[e].doc = c => entry'[e] = entry[e]
    BY <1>2
  <2> QED BY <1>2, <2>1, <2>2 DEF AgreeInv, Contract!RowsAgree, Contract!Undecided
<1> QED BY <1>1, <1>2

\* Each step of the contract keeps the rows in agreement.
LEMMA AgreeStep ==
  ASSUME AgreeInv, Contract!Next
  PROVE  AgreeInv'
<1> USE DEF Contract!Set
<1>0. Contract!TypeOK /\ Contract!RowsAgree
  BY DEF AgreeInv
<1>1. ASSUME NEW d \in Docs, Contract!Submit(d)
      PROVE  AgreeInv'
  <2>1. Contract!TypeOK'
    BY <1>0, <1>1 DEF Contract!Submit, Contract!TypeOK
  <2>2. Status'[d] = "pending" /\ ~ result[d] /\ Decision[d] = "absent" /\ tombstones[d] = 0
    BY <1>0, <1>1 DEF Contract!Submit, Contract!TypeOK, Contract!RowsAgree
  <2>3. \A c \in Docs \ {d} : Status'[c] = Status[c]
    BY <1>0, <1>1 DEF Contract!Submit, Contract!TypeOK
  <2> QED BY <1>1, <2>1, <2>2, <2>3, AgreesElsewhere DEF Contract!Submit
<1>2. ASSUME NEW d \in Docs, Contract!Letter(d)
      PROVE  AgreeInv'
  <2>1. Contract!Bury(d) /\ UNCHANGED <<Status, result, Decision, tombstones>>
    BY <1>2 DEF Contract!Letter
  <2>2. Contract!TypeOK'
    BY <1>0, <2>1, ContractBury DEF Contract!TypeOK
  <2> QED BY <1>0, <1>2, <2>1, <2>2, ContractBury, AgreesElsewhere
         DEF Contract!Letter, Contract!RowsAgree
<1>3. ASSUME NEW d \in Docs, Contract!Mark(d)
      PROVE  AgreeInv'
  <2>1. Contract!TypeOK'
    BY <1>0, <1>3 DEF Contract!Mark, Contract!TypeOK
  <2>2. Status[d] # "absent" /\ Status'[d] = "cancelled" /\ \A c \in Docs \ {d} : Status'[c] = Status[c]
    BY <1>0, <1>3 DEF Contract!Mark, Contract!TypeOK
  <2>3. UNCHANGED <<result, Decision, entry, tombstones>>
    BY <1>3 DEF Contract!Mark
  <2> QED BY <1>0, <2>1, <2>2, <2>3, AgreesElsewhere DEF Contract!RowsAgree
<1>4. ASSUME NEW d \in Docs, Contract!Erase(d)
      PROVE  AgreeInv'
  <2>1. Contract!TypeOK'
    BY <1>0, <1>4 DEF Contract!Erase, Contract!TypeOK
  <2>2. /\ Status'[d] = "absent" /\ ~ result'[d] /\ Decision'[d] = "absent"
        /\ \A c \in Docs \ {d} :
             /\ Status'[c] = Status[c] /\ result'[c] = result[c]
             /\ Decision'[c] = Decision[c] /\ tombstones'[c] = tombstones[c]
    BY <1>0, <1>4 DEF Contract!Erase, Contract!TypeOK
  <2>3. \A e \in Entries :
          \/ entry[e].doc # d /\ entry'[e] = entry[e]
          \/ entry[e].doc = d /\ entry'[e].doc = d /\ entry'[e].status = "deleted"
    BY <1>0, <1>4 DEF Contract!Erase, Contract!TypeOK
  <2> QED BY <2>1, <2>2, <2>3, AgreesElsewhere
<1>5. ASSUME NEW d \in Docs, NEW outcome \in {"completed", "review"}, Contract!Accept(d, outcome)
      PROVE  AgreeInv'
  <2>1. Contract!TypeOK'
    BY <1>0, <1>5 DEF Contract!Accept, Contract!TypeOK
  <2>2. /\ Status[d] # "absent" /\ Status'[d] = outcome /\ result'[d]
        /\ outcome = "review" => Decision'[d] = "pending"
        /\ \A c \in Docs \ {d} :
             /\ Status'[c] = Status[c] /\ result'[c] = result[c] /\ Decision'[c] = Decision[c]
        /\ UNCHANGED <<entry, tombstones>>
    BY <1>0, <1>5 DEF Contract!Accept, Contract!TypeOK
  <2> QED BY <1>0, <2>1, <2>2, AgreesElsewhere DEF Contract!RowsAgree
<1>6. ASSUME NEW d \in Docs, NEW outcome \in {"rejected", "error"}, Contract!Reject(d, outcome)
      PROVE  AgreeInv'
  <2>1. Contract!Bury(d) /\ UNCHANGED <<result, Decision, tombstones>>
    BY <1>6 DEF Contract!Reject
  <2>2. Contract!TypeOK'
    BY <1>0, <1>6, <2>1, ContractBury DEF Contract!Reject, Contract!TypeOK
  <2>3. /\ Status[d] # "absent" /\ Status'[d] = outcome
        /\ \A c \in Docs \ {d} : Status'[c] = Status[c]
    BY <1>0, <1>6 DEF Contract!Reject, Contract!TypeOK
  <2> QED BY <1>0, <2>1, <2>2, <2>3, ContractBury, AgreesElsewhere DEF Contract!RowsAgree
<1>7. ASSUME NEW d \in Docs, NEW new \in Contract!Decisions, Contract!Review(d, new[1], new[2])
      PROVE  AgreeInv'
  <2>1. new[1] \in {"completed", "rejected"} /\ new[2] \in {"accepted", "corrected", "rejected"}
    BY DEF Contract!Decisions
  <2>2. Contract!TypeOK'
    BY <1>0, <1>7, <2>1 DEF Contract!Review, Contract!TypeOK
  <2>3. /\ Status[d] # "absent" /\ Decision[d] # "absent"
        /\ Status'[d] = new[1] \/ (Status[d] # "review" /\ Status'[d] = Status[d])
        /\ Decision'[d] = new[2] \/ (~ Contract!Undecided(d) /\ Decision'[d] = Decision[d])
        /\ \A c \in Docs \ {d} : Status'[c] = Status[c] /\ Decision'[c] = Decision[c]
        /\ UNCHANGED <<result, entry, tombstones>>
    BY <1>0, <1>7 DEF Contract!Review, Contract!TypeOK
  <2>4. result[d] /\ ~ (tombstones[d] > 0)
    BY <1>0, <2>3 DEF Contract!RowsAgree
  <2>5. Decision'[d] \notin {"absent", "pending"}
    BY <2>1, <2>3 DEF Contract!Undecided
  <2> QED BY <2>1, <2>2, <2>3, <2>4, <2>5, AgreesElsewhere
<1>8. ASSUME NEW e \in Entries, Contract!Retry(e)
      PROVE  AgreeInv'
  <2>1. /\ entry[e].status \in {"pending", "retrying"}
        /\ entry' = [entry EXCEPT ![e].status = "retrying"]
        /\ UNCHANGED <<result, Decision, tombstones>>
    BY <1>8 DEF Contract!Retry
  <2>2. /\ \A f \in Entries \ {e} : entry'[f] = entry[f]
        /\ entry'[e].doc = entry[e].doc /\ entry'[e].status = "retrying"
        /\ entry[e].doc \in Docs \cup {NoDoc}
    BY <1>0, <2>1 DEF Contract!TypeOK
  <2>3. ASSUME NEW d \in Docs, d = entry[e].doc
        PROVE  AgreeInv'
    <3>1. /\ Status[d] # "absent"
          /\ \/ Status' = [Status EXCEPT ![d] = "pending"]
             \/ /\ UNCHANGED Status
                /\ Status[d] = "rejected" /\ Contract!Undecided(d) =>
                     \E other \in Entries \ {e} : Contract!PendingLetter(other, d)
      BY <1>8, <2>3 DEF Contract!Retry
    <3>2. Contract!TypeOK'
      BY <1>0, <2>1, <3>1 DEF Contract!TypeOK
    <3>3. /\ Status[d] \in {"completed", "review"} \/ Decision[d] # "absent" => result[d]
          /\ Status[d] = "review" => Decision[d] = "pending"
          /\ ~ (tombstones[d] > 0)
      BY <1>0, <3>1 DEF Contract!RowsAgree
    <3>4. CASE Status' = [Status EXCEPT ![d] = "pending"]
      <4>1. Status'[d] = "pending" /\ \A c \in Docs \ {d} : Status'[c] = Status[c]
        BY <1>0, <3>4 DEF Contract!TypeOK
      <4> QED BY <2>1, <2>2, <2>3, <3>2, <3>3, <4>1, AgreesElsewhere
    <3>5. CASE UNCHANGED Status
      <4>1. Status'[d] = "rejected" /\ Decision'[d] \in {"absent", "pending"}
              => \E f \in Entries : Contract!PendingLetter(f, d)'
        <5>1. SUFFICES ASSUME Status[d] = "rejected", Contract!Undecided(d)
                       PROVE  \E f \in Entries : Contract!PendingLetter(f, d)'
          BY <2>1, <3>5 DEF Contract!Undecided
        <5>2. PICK f \in Entries \ {e} : Contract!PendingLetter(f, d)
          <6>1. Status' # [Status EXCEPT ![d] = "pending"]
            BY <1>0, <3>5, <5>1 DEF Contract!TypeOK
          <6> QED BY <3>1, <5>1, <6>1
        <5> QED BY <2>2, <5>2 DEF Contract!PendingLetter
      <4> QED BY <2>1, <2>2, <2>3, <3>1, <3>2, <3>3, <3>5, <4>1, AgreesElsewhere
    <3> QED BY <3>1, <3>4, <3>5
  <2>4. CASE entry[e].doc = NoDoc
    <3>1. Contract!TypeOK' /\ \A c \in Docs : Status'[c] = Status[c]
      BY <1>0, <1>8, <2>1, <2>4, Nothing DEF Contract!Retry, Contract!TypeOK
    <3>2. \A f \in Entries, c \in Docs :
            /\ Contract!PendingLetter(f, c) => Contract!PendingLetter(f, c)'
            /\ entry'[f].doc = c => entry'[f] = entry[f]
      BY <2>2, <2>4, Nothing DEF Contract!PendingLetter
    <3> QED BY <1>0, <2>1, <3>1, <3>2
           DEF AgreeInv, Contract!RowsAgree, Contract!Undecided
  <2> QED BY <2>2, <2>3, <2>4
<1> QED BY <1>1, <1>2, <1>3, <1>4, <1>5, <1>6, <1>7, <1>8 DEF Contract!Next

\* The contract says enough: whoever keeps to its steps, whatever sessions they
\* are made of, has an extraction with every decision, an open task with every
\* document in review, a letter for every rejected one, and nothing of an erased.
THEOREM ContractIsEnough == Contract!Spec => []Contract!RowsAgree
<1>1. Contract!Init => AgreeInv
  <2> SUFFICES ASSUME Contract!Init PROVE AgreeInv
    OBVIOUS
  <2>1. Contract!TypeOK
    BY DEF Contract!Init, Contract!TypeOK
  <2>2. Contract!RowsAgree
    BY Nothing DEF Contract!Init, Contract!RowsAgree, Contract!Undecided
  <2> QED BY <2>1, <2>2 DEF AgreeInv
<1>2. AgreeInv /\ [Contract!Next]_(Contract!contract) => AgreeInv'
  <2>1. ASSUME AgreeInv, UNCHANGED Contract!contract PROVE AgreeInv'
    BY <2>1 DEF AgreeInv, Contract!contract, Contract!TypeOK, Contract!RowsAgree,
       Contract!Undecided, Contract!PendingLetter
  <2> QED BY <2>1, AgreeStep
<1>3. AgreeInv => Contract!RowsAgree
  BY DEF AgreeInv
<1> QED BY <1>1, <1>2, <1>3, PTL DEF Contract!Spec

\* So the sessions of the handlers leave the rows in agreement.
THEOREM RowsAlwaysAgree == Spec => []Contract!RowsAgree
BY SessionsAreAtomic, ContractIsEnough, PTL DEF ImplementsContract

-----------------------------------------------------------------------------
(* Erasures are final. *)

\* An upload that was answered stays so, and only such documents are erased.
LEMMA AnsweredStep ==
  ASSUME RowInv, AnsweredInv, [Next]_vars
  PROVE  AnsweredInv'
<1> USE DEF AnsweredInv
<1>0. TypeOK
  BY DEF RowInv
<1>1. ASSUME NEW d \in Docs, upload[d] = "enqueued"
      PROVE  upload'[d] = "enqueued"
  <2>1. ASSUME NEW c \in Docs, UploadStep(c) \/ UploadFails(c)
        PROVE  upload[c] # "enqueued" /\ \E step : upload' = [upload EXCEPT ![c] = step]
    BY <2>1 DEF UploadStep, UploadSave, UploadCommit, UploadEnqueue, UploadFails
  <2>2. ASSUME NEW c \in Docs, UploadStep(c) \/ UploadFails(c)
        PROVE  upload'[d] = "enqueued"
    BY <1>0, <1>1, <2>1, <2>2 DEF TypeOK
  <2>3. CASE Crash
    BY <1>1, <2>3 DEF Crash
  <2>4. CASE \/ \E r \in Runs : RunStep(r)
             \/ \E x \in Erasures : EraseStep(x) \/ \E c \in Docs : EraseCancel(x, c)
             \/ \E q \in Retries : RetryStep(q) \/ \E e \in Entries : RetryRead(q, e)
             \/ \E a \in Reviewers :
                  ReviewStep(a) \/ \E c \in Docs, action \in Actions : ReviewRead(a, c, action)
             \/ \E p \in Procs : Abort(p)
             \/ UNCHANGED vars
    <3>1. upload' = upload
      BY <2>4 DEF RunStep, RunLoad, RunStart, GraphStep, RunNode, RunParse, RunGuardrail,
         RunExtract, RunScore, RunRoute, RunTerminal, PersistRead, PersistCommit, HookBegin,
         HookDelivered, HookExhausted, EraseStep, EraseCancel, EraseRead, EraseMark, EraseBlob,
         EraseVectors, ErasePurge, EraseRows, RetryStep, RetryRead, RetryEnqueue, RetryCommit,
         ReviewStep, ReviewRead, ReviewLoad, ReviewWriteBack, ReviewCommit, Abort, vars
    <3> QED BY <1>1, <3>1
  <2> QED BY <2>2, <2>3, <2>4 DEF Next
<1>2. ASSUME NEW x \in Erasures, pc'[x] # "idle"
      PROVE  upload'[target'[x]] = "enqueued"
  <2>0. x \in Procs /\ (pc[x] # "idle" => target[x] \in Docs)
    BY DEF RowInv, TargetInv, Known, Procs
  <2>1. CASE pc[x] # "idle" /\ target'[x] = target[x]
    BY <1>1, <2>0, <2>1
  <2>2. ASSUME NEW d \in Docs, EraseCancel(x, d), target'[x] = d
        PROVE  upload'[target'[x]] = "enqueued"
    BY <1>1, <2>2 DEF EraseCancel
  <2>3. EraseStep(x) => pc[x] # "idle"
    BY DEF EraseStep, EraseRead, EraseMark, EraseBlob, EraseVectors, ErasePurge, EraseRows
  <2> QED BY <1>0, <1>2, <2>0, <2>1, <2>2, <2>3, EveryMove, Disjoint DEF Moves, Still, Ends
<1>3. ASSUME NEW d \in Docs, tombstones'[d] > 0
      PROVE  upload'[d] = "enqueued"
  <2>1. CASE tombstones[d] > 0
    BY <1>1, <2>1
  <2>2. CASE ~ (tombstones[d] > 0)
    <3>1. PICK x \in Erasures : EraseRows(x)
      <4>1. tombstones' # tombstones
        BY <1>3, <2>2
      <4> QED BY <4>1 DEF Next, UploadStep, UploadSave, UploadCommit, UploadEnqueue, UploadFails,
         RunStep, RunLoad, RunStart, GraphStep, RunNode, RunParse, RunGuardrail, RunExtract,
         RunScore, RunRoute, RunTerminal, PersistRead, PersistCommit, HookBegin, HookDelivered,
         HookExhausted, EraseStep, EraseCancel, EraseRead, EraseMark, EraseBlob, EraseVectors,
         ErasePurge, RetryStep, RetryRead, RetryEnqueue, RetryCommit, ReviewStep, ReviewRead,
         ReviewLoad, ReviewWriteBack, ReviewCommit, Abort, Crash, vars, rows
    <3>2. d = target[x] /\ pc[x] = "rows"
      BY <1>0, <1>3, <2>2, <3>1 DEF EraseRows, TypeOK
    <3> QED BY <1>1, <3>2
  <2> QED BY <2>1, <2>2
<1> QED BY <1>2, <1>3

\* What is stored beside Postgres comes from an upload, or from a run or a reviewer
\* at work.
LEMMA StoresGrow ==
  ASSUME TypeOK, TargetInv, [Next]_vars, NEW d \in Docs
  PROVE  /\ blob'[d] /\ ~ blob[d] => UploadSave(d)
         /\ vectors'[d] /\ ~ vectors[d] => \E a \in Reviewers : Owns(a, d)
         /\ ckpt'[d] \notin {ckpt[d], EmptyState} => \E r \in Runs : Owns(r, d)
<1> USE DEF rows, stores
<1> DEFINE Same == UNCHANGED <<blob, vectors, ckpt>>
<1>1. ASSUME NEW c \in Docs, UploadStep(c) \/ UploadFails(c)
      PROVE  Same \/ (UploadSave(c) /\ blob' = [blob EXCEPT ![c] = TRUE] /\ UNCHANGED <<vectors, ckpt>>)
  BY <1>1 DEF UploadStep, UploadSave, UploadCommit, UploadEnqueue, UploadFails
<1>2. ASSUME NEW r \in Runs, RunStep(r)
      PROVE  /\ UNCHANGED <<blob, vectors>> /\ pc[r] \notin {"idle", "done"}
             /\ ckpt' = ckpt \/ \E s : ckpt' = [ckpt EXCEPT ![target[r]] = s]
  BY <1>2 DEF RunStep, RunLoad, RunStart, GraphStep, RunNode, RunParse, RunGuardrail,
     RunExtract, RunScore, RunRoute, RunTerminal, Checkpointed, PersistRead, PersistCommit,
     HookBegin, HookDelivered, HookExhausted
<1>3. ASSUME NEW x \in Erasures, EraseStep(x) \/ \E c \in Docs : EraseCancel(x, c)
      PROVE  /\ blob' = blob \/ blob' = [blob EXCEPT ![target[x]] = FALSE]
             /\ vectors' = vectors \/ vectors' = [vectors EXCEPT ![target[x]] = FALSE]
             /\ ckpt' = ckpt \/ ckpt' = [ckpt EXCEPT ![target[x]] = EmptyState]
  BY <1>3 DEF EraseStep, EraseCancel, EraseRead, EraseMark, EraseBlob, EraseVectors, ErasePurge,
     EraseRows
<1>4. ASSUME NEW q \in Retries, RetryStep(q) \/ \E e \in Entries : RetryRead(q, e)
      PROVE  Same
  BY <1>4 DEF RetryStep, RetryRead, RetryEnqueue, RetryCommit
<1>5. ASSUME NEW a \in Reviewers,
             ReviewStep(a) \/ \E c \in Docs, action \in Actions : ReviewRead(a, c, action)
      PROVE  \/ Same
             \/ /\ pc[a] = "writeback" /\ UNCHANGED <<blob, ckpt>>
                /\ vectors' = [vectors EXCEPT ![target[a]] = TRUE]
  BY <1>5 DEF ReviewStep, ReviewRead, ReviewLoad, ReviewWriteBack, ReviewCommit
<1>6. CASE Crash \/ (\E p \in Procs : Abort(p)) \/ UNCHANGED vars
  BY <1>6 DEF Crash, Abort, vars
<1>7. ASSUME NEW c \in Docs, UploadStep(c) \/ UploadFails(c)
      PROVE  /\ blob'[d] /\ ~ blob[d] => UploadSave(d)
             /\ vectors' = vectors /\ ckpt' = ckpt
  BY <1>1, <1>7 DEF TypeOK
<1>8. ASSUME NEW r \in Runs, RunStep(r)
      PROVE  ckpt'[d] # ckpt[d] => Owns(r, d)
  BY <1>2, <1>8 DEF TypeOK, Owns
<1>9. ASSUME NEW x \in Erasures, EraseStep(x) \/ \E c \in Docs : EraseCancel(x, c)
      PROVE  /\ blob'[d] => blob[d]
             /\ vectors'[d] => vectors[d]
             /\ ckpt'[d] \in {ckpt[d], EmptyState}
  BY <1>3, <1>9 DEF TypeOK
<1>10. ASSUME NEW a \in Reviewers,
              ReviewStep(a) \/ \E c \in Docs, action \in Actions : ReviewRead(a, c, action)
       PROVE  /\ blob' = blob /\ ckpt' = ckpt
              /\ vectors'[d] /\ ~ vectors[d] => Owns(a, d)
  BY <1>5, <1>10 DEF TypeOK, Owns
<1> QED BY <1>2, <1>4, <1>6, <1>7, <1>8, <1>9, <1>10 DEF Next

\* Nobody takes up an erased document: its letters and its review are gone.
LEMMA NobodyTakesUp ==
  ASSUME RowInv, AnsweredInv, [Next]_vars, NEW d \in Docs, ~ Exists(doc[d]),
         tombstones[d] > 0, NEW p \in Runs \cup Retries \cup Reviewers, Owns(p, d)'
  PROVE  InUse(d)
<1>0. TypeOK /\ RowsNeedDocument /\ p \in Procs /\ pc'[p] \notin {"idle", "done"}
      /\ target'[p] = d /\ upload[d] = "enqueued"
  BY DEF RowInv, Procs, Owns, AnsweredInv
<1>1. CASE target'[p] = target[p] /\ pc[p] \notin {"idle", "done"}
  BY <1>0, <1>1 DEF InUse, Owns
<1>2. CASE Still(p) \/ Ends(p)
  BY <1>0, <1>1, <1>2 DEF Still, Ends
<1>3. CASE p \in Runs
  <2>1. RunStep(p) => pc[p] \notin {"idle", "done"}
    BY DEF RunStep, RunLoad, RunStart, GraphStep, RunNode, RunParse, RunGuardrail, RunExtract,
       RunScore, RunRoute, RunTerminal, PersistRead, PersistCommit, HookBegin, HookDelivered,
       HookExhausted
  <2>2. ASSUME NEW c \in Docs, UploadEnqueue(c), Enqueued(p, c)
        PROVE  FALSE
    BY <1>0, <2>2 DEF UploadEnqueue, Enqueued
  <2>3. ASSUME NEW q \in Retries, RetryEnqueue(q), Enqueued(p, target[q])
        PROVE  InUse(d)
    BY <1>0, <2>3 DEF RetryEnqueue, Enqueued, InUse, Owns
  <2> QED BY <1>0, <1>1, <1>2, <1>3, <2>1, <2>2, <2>3, EveryMove, Disjoint DEF Moves
<1>4. CASE p \in Retries
  <2>1. RetryStep(p) => pc[p] \notin {"idle", "done"}
    BY DEF RetryStep, RetryEnqueue, RetryCommit
  <2>2. \A e \in Entries : RetryRead(p, e) => entry[e].doc # d
    BY <1>0 DEF RetryRead, RowsNeedDocument
  <2> QED BY <1>0, <1>1, <1>2, <1>4, <2>1, <2>2, EveryMove, Disjoint DEF Moves
<1>5. CASE p \in Reviewers
  <2>1. ReviewStep(p) => pc[p] \notin {"idle", "done"}
    BY DEF ReviewStep, ReviewLoad, ReviewWriteBack, ReviewCommit
  <2>2. \A c \in Docs, action \in Actions : ReviewRead(p, c, action) => c # d
    BY <1>0 DEF ReviewRead, RowsNeedDocument
  <2> QED BY <1>0, <1>1, <1>2, <1>5, <2>1, <2>2, EveryMove, Disjoint DEF Moves
<1> QED BY <1>3, <1>4, <1>5

\* Once the tasks that an erasure met are done, nothing of the document appears
\* any more, in any store, whatever requests still come for it.
THEOREM ErasureStaysFinal == Spec => ErasureIsFinal
<1> DEFINE Inv == ContractInv /\ AnsweredInv
           Final(d) == /\ ~ InUse(d)'
                       /\ ~ Exists(doc'[d])
                       /\ blob'[d] => blob[d]
                       /\ vectors'[d] => vectors[d]
                       /\ ckpt'[d] \in {ckpt[d], EmptyState}
<1>1. Init => Inv
  <2>1. Init => AnsweredInv
    BY DEF Init, AnsweredInv, Procs
  <2> QED BY <2>1, ContractInit
<1>2. Inv /\ [Next]_vars => Inv'
  BY ContractInvStep, AnsweredStep DEF ContractInv, RaceInv
<1>3. ASSUME Inv, [Next]_vars, NEW d \in Docs, tombstones[d] > 0, ~ InUse(d)
      PROVE  Final(d)
  <2>0. /\ RowInv /\ TypeOK /\ TargetInv /\ TombInv
        /\ ~ Exists(doc[d]) /\ upload[d] = "enqueued"
    BY <1>3 DEF ContractInv, RaceInv, RowInv, TombInv, AnsweredInv
  <2>1. ~ InUse(d)'
    BY <1>3, <2>0, NobodyTakesUp DEF InUse
  <2>2. ~ Exists(doc'[d])
    <3>1. Status[d] = "absent"
      BY <2>0 DEF Status, Exists
    <3>2. Status'[d] = "absent"
      BY <1>3, <2>0, <3>1, ContractSteps, ContractKeeps
    <3> QED BY <3>2 DEF Status, Exists
  <2>3. ~ UploadSave(d)
    BY <2>0 DEF UploadSave
  <2> QED BY <1>3, <2>0, <2>1, <2>2, <2>3, StoresGrow DEF InUse
<1>4. Inv /\ [Next]_vars =>
        \A d \in Docs : tombstones[d] > 0 /\ ~ InUse(d) => Final(d)
  BY <1>3
<1> QED BY <1>1, <1>2, <1>4, PTL DEF Spec, ErasureIsFinal

-----------------------------------------------------------------------------
(* Who writes a document's row *)

\* One upload, run, erasure, retry or reviewer.
LEMMA RowWrites ==
  ASSUME [Next]_vars
  PROVE  \/ doc' = doc
         \/ \E d \in Docs : UploadCommit(d)
         \/ \E r \in Runs : PersistCommit(r)
         \/ \E x \in Erasures : EraseMark(x) \/ EraseRows(x)
         \/ \E q \in Retries : RetryCommit(q)
         \/ \E a \in Reviewers : ReviewCommit(a)
<1> USE DEF rows
<1>1. ASSUME NEW d \in Docs, UploadStep(d) \/ UploadFails(d), ~ UploadCommit(d)
      PROVE  doc' = doc
  BY <1>1 DEF UploadStep, UploadSave, UploadEnqueue, UploadFails
<1>2. ASSUME NEW r \in Runs, RunStep(r), ~ PersistCommit(r)
      PROVE  doc' = doc
  BY <1>2 DEF RunStep, RunLoad, RunStart, GraphStep, RunNode, RunParse,
     RunGuardrail, RunExtract, RunScore, RunRoute, RunTerminal, PersistRead, HookBegin,
     HookDelivered, HookExhausted
<1>3. ASSUME NEW x \in Erasures, EraseStep(x) \/ \E d \in Docs : EraseCancel(x, d),
             ~ EraseMark(x), ~ EraseRows(x)
      PROVE  doc' = doc
  BY <1>3 DEF EraseStep, EraseCancel, EraseRead, EraseBlob, EraseVectors, ErasePurge
<1>4. ASSUME NEW q \in Retries, RetryStep(q) \/ \E e \in Entries : RetryRead(q, e),
             ~ RetryCommit(q)
      PROVE  doc' = doc
  BY <1>4 DEF RetryStep, RetryRead, RetryEnqueue
<1>5. ASSUME NEW a \in Reviewers,
             ReviewStep(a) \/ \E d \in Docs, action \in Actions : ReviewRead(a, d, action),
             ~ ReviewCommit(a)
      PROVE  doc' = doc
  BY <1>5 DEF ReviewStep, ReviewRead, ReviewLoad, ReviewWriteBack
<1>6. CASE Crash \/ (\E p \in Procs : Abort(p)) \/ UNCHANGED vars
  BY <1>6 DEF Crash, Abort, vars
<1> QED BY <1>1, <1>2, <1>3, <1>4, <1>5, <1>6 DEF Next

\* A run's persist leaves its document decided, or alone because it is marked or
\* was written since it was read.
LEMMA PersistWrites ==
  ASSUME RaceInv, NEW r \in Runs, PersistCommit(r)
  PROVE  /\ target[r] \in Docs /\ pc'[r] # "commit"
         /\ \A c \in Docs : c # target[r] => doc'[c] = doc[c]
         /\ \/ doc' = doc
            \/ /\ ~ Stale(doc[target[r]], seen[r])
               /\ doc'[target[r]] = Updated(doc[target[r]], Outcome(r))
<1>1. r \in Procs /\ TypeOK /\ pc[r] = "commit"
  BY DEF RaceInv, RowInv, Procs, PersistCommit
<1>2. target[r] \in Docs
  BY <1>1 DEF RaceInv, RowInv, TargetInv, Known
<1>3. pc'[r] # "commit"
  BY <1>1 DEF PersistCommit, Goto, AfterPersist, TypeOK
<1>4. \/ doc' = doc
      \/ /\ ~ Stale(doc[target[r]], seen[r])
         /\ doc' = [doc EXCEPT ![target[r]] = Updated(doc[target[r]], Outcome(r))]
  BY DEF PersistCommit, PersistRows
<1> QED BY <1>1, <1>2, <1>3, <1>4 DEF TypeOK

\* So do an erasure's mark and its deletion.
LEMMA EraseWrites ==
  ASSUME RaceInv, NEW x \in Erasures, EraseMark(x) \/ EraseRows(x)
  PROVE  /\ target[x] \in Docs
         /\ \A c \in Docs : c # target[x] => doc'[c] = doc[c]
         /\ \/ doc' = doc
            \/ doc'[target[x]].status \in {"cancelled", "absent"}
<1>1. x \in Procs /\ TypeOK /\ pc[x] # "idle"
  BY DEF RaceInv, RowInv, Procs, EraseMark, EraseRows
<1>2. target[x] \in Docs
  BY <1>1 DEF RaceInv, RowInv, TargetInv, Known
<1>3. CASE EraseMark(x)
  <2>1. doc' = doc \/ doc' = [doc EXCEPT ![target[x]] = Updated(doc[target[x]], "cancelled")]
    BY <1>3 DEF EraseMark
  <2> QED BY <1>1, <1>2, <2>1 DEF TypeOK, Updated
<1>4. CASE EraseRows(x)
  <2>1. doc' = [doc EXCEPT ![target[x]] = [@ EXCEPT !.status = "absent"]]
    BY <1>4 DEF EraseRows
  <2> QED BY <1>1, <1>2, <2>1 DEF TypeOK
<1> QED BY <1>3, <1>4

\* A review decides the document, or leaves it.
LEMMA ReviewWrites ==
  ASSUME RaceInv, NEW a \in Reviewers, ReviewCommit(a)
  PROVE  /\ Known(target[a])
         /\ \A c \in Docs : c # target[a] => doc'[c] = doc[c]
         /\ doc' = doc \/ doc'[target[a]].status \in {"completed", "rejected"}
<1>1. a \in Procs /\ TypeOK /\ pc[a] # "idle"
  BY DEF RaceInv, RowInv, Procs, ReviewCommit
<1>2. Known(target[a])
  BY <1>1 DEF RaceInv, RowInv, TargetInv
<1>3. doc' = doc \/ doc' = [doc EXCEPT ![target[a]] = Updated(doc[target[a]], ReviewedStatus(act[a]))]
  BY DEF ReviewCommit
<1> QED BY <1>1, <1>2, <1>3 DEF TypeOK, Updated, ReviewedStatus, Known

\* A retry makes it pending, or leaves it.
LEMMA RetryWrites ==
  ASSUME RaceInv, NEW q \in Retries, RetryCommit(q)
  PROVE  /\ Known(target[q])
         /\ \A c \in Docs : c # target[q] => doc'[c] = doc[c]
         /\ doc' = doc \/ doc'[target[q]].status = "pending"
<1>1. q \in Procs /\ TypeOK /\ pc[q] # "idle"
  BY DEF RaceInv, RowInv, Procs, RetryCommit
<1>2. Known(target[q])
  BY <1>1 DEF RaceInv, RowInv, TargetInv
<1>3. doc' = doc \/ doc' = [doc EXCEPT ![target[q]] = Updated(doc[target[q]], "pending")]
  BY DEF RetryCommit
<1> QED BY <1>1, <1>2, <1>3 DEF TypeOK, Updated, Known

\* Nothing but its own steps and faults moves an erasure.
LEMMA EraseMoves ==
  ASSUME TypeOK, [Next]_vars, NEW x \in Erasures
  PROVE  \/ pc'[x] = pc[x] /\ target'[x] = target[x] /\ seen'[x] = seen[x]
         \/ Fault /\ pc'[x] = "done"
         \/ EraseStep(x) /\ target'[x] = target[x]
         \/ \E d \in Docs : EraseCancel(x, d)
BY EveryMove, Disjoint DEF Procs, Moves, Still, Ends

-----------------------------------------------------------------------------
(* Instances in which only runs and erasures meet *)

\* Of a document's row, only uploads, runs and erasures are left to write it.
LEMMA LoneWrites ==
  ASSUME Lone, [Next]_vars
  PROVE  \/ doc' = doc
         \/ \E d \in Docs : UploadCommit(d)
         \/ \E r \in Runs : PersistCommit(r)
         \/ \E x \in Erasures : EraseMark(x) \/ EraseRows(x)
BY RowWrites DEF Lone

\* A mark is not lost, and a document that was erased stays so.
LEMMA MarkStays ==
  ASSUME Lone, ContractInv, [Next]_vars, NEW d \in Docs, doc[d].version > 0
  PROVE  /\ doc[d].status = "cancelled" => doc'[d].status \in {"cancelled", "absent"}
         /\ doc[d].status = "absent" => doc'[d].status = "absent"
<1>0. RaceInv /\ TypeOK /\ UploadInv /\ TombInv
  BY DEF ContractInv, RaceInv, RowInv
<1>1. ASSUME doc[d].status = "cancelled"
      PROVE  doc'[d].status \in {"cancelled", "absent"}
  <2>1. ASSUME NEW c \in Docs, UploadCommit(c)
        PROVE  doc'[d] = doc[d]
    <3>1. doc[c] = NoRow
      BY <1>0, <2>1 DEF UploadCommit, UploadInv
    <3>2. c # d
      BY <3>1, <1>1 DEF NoRow
    <3> QED BY <1>0, <2>1, <3>2 DEF UploadCommit, TypeOK
  <2>2. ASSUME NEW r \in Runs, PersistCommit(r)
        PROVE  doc'[d].status = "cancelled"
    BY <1>0, <1>1, <2>2, PersistWrites, KeepsCancelled DEF PersistCommit
  <2>3. ASSUME NEW x \in Erasures, EraseMark(x) \/ EraseRows(x)
        PROVE  doc'[d].status \in {"cancelled", "absent"}
    BY <1>0, <1>1, <2>3, EraseWrites
  <2> QED BY <1>1, <2>1, <2>2, <2>3, LoneWrites
<1>2. ASSUME doc[d].status = "absent"
      PROVE  doc'[d].status = "absent"
  <2>1. tombstones[d] > 0 /\ Status[d] = "absent"
    BY <1>0, <1>2 DEF TombInv, Exists, Status
  <2>2. Status'[d] = "absent"
    BY <1>0, <2>1, ContractSteps, ContractKeeps
  <2> QED BY <2>2 DEF Status
<1> QED BY <1>1, <1>2

\* An erasure that works on the stores keeps finding its document marked.
LEMMA MarkStep ==
  ASSUME Lone, ContractInv, MarkInv, [Next]_vars
  PROVE  MarkInv'
<1> SUFFICES ASSUME NEW x \in Erasures, Marked(x)'
             PROVE  doc'[target'[x]].status \in {"cancelled", "absent"}
  BY DEF MarkInv
<1>0. /\ x \in Procs /\ TypeOK /\ TypeOK' /\ RaceInv
      /\ pc[x] # "idle" => target[x] \in Docs /\ doc[target[x]].version > 0
  BY RowStep DEF ContractInv, RaceInv, RowInv, TargetInv, Known, Procs
<1>1. ASSUME target'[x] = target[x], Marked(x)
      PROVE  doc'[target'[x]].status \in {"cancelled", "absent"}
  BY <1>0, <1>1, MarkStays DEF MarkInv, Marked
<1>2. CASE pc'[x] = pc[x] /\ target'[x] = target[x] /\ seen'[x] = seen[x]
  BY <1>1, <1>2 DEF Marked
<1>3. CASE EraseStep(x)
  <2>1. target'[x] = target[x]
    BY <1>3 DEF EraseStep, EraseRead, EraseMark, EraseBlob, EraseVectors, ErasePurge, EraseRows
  <2>2. CASE EraseRead(x)
    <3>1. /\ pc'[x] \in {"mark", "done"} /\ seen'[x] = doc[target[x]] /\ doc' = doc
      BY <1>0, <2>2 DEF EraseRead, Goto, TypeOK, rows
    <3> QED BY <2>1, <3>1 DEF Marked
  <2>3. CASE EraseMark(x)
    <3>1. CASE seen[x].status = "cancelled"
      BY <1>1, <2>1, <2>3, <3>1 DEF EraseMark, Marked
    <3>2. CASE /\ seen[x].status # "cancelled"
               /\ doc' = [doc EXCEPT ![target[x]] = Updated(doc[target[x]], "cancelled")]
      BY <1>0, <2>1, <2>3, <3>2 DEF EraseMark, TypeOK, Updated
    <3>3. CASE pc' = [pc EXCEPT ![x] = "done"]
      BY <1>0, <3>3 DEF Marked, TypeOK
    <3> QED BY <2>3, <3>1, <3>2, <3>3 DEF EraseMark, Goto
  <2>4. CASE EraseBlob(x) \/ EraseVectors(x) \/ ErasePurge(x) \/ EraseRows(x)
    BY <1>1, <2>1, <2>4 DEF EraseBlob, EraseVectors, ErasePurge, EraseRows, Marked
  <2> QED BY <1>3, <2>2, <2>3, <2>4 DEF EraseStep
<1>4. ASSUME NEW d \in Docs, EraseCancel(x, d)
      PROVE  FALSE
  BY <1>0, <1>4 DEF EraseCancel, Goto, TypeOK, Marked
<1>5. CASE pc'[x] \in {"idle", "done"}
  BY <1>5 DEF Marked
<1> QED BY <1>0, <1>2, <1>3, <1>4, <1>5, EraseMoves

\* A document that is live after a step was so before, or has just been uploaded.
LEMMA LiveWas ==
  ASSUME Lone, ContractInv, [Next]_vars, NEW d \in Docs,
         doc'[d].status \notin {"absent", "cancelled"}
  PROVE  \/ UploadCommit(d)
         \/ doc[d].version > 0 /\ doc[d].status \notin {"absent", "cancelled"}
<1>0. RaceInv /\ TypeOK /\ UploadInv /\ RowInv
  BY DEF ContractInv, RaceInv, RowInv
<1>1. CASE doc[d].version > 0
  BY <1>1, MarkStays
<1>2. CASE doc[d].version = 0
  <2>0. doc[d].status = "absent"
    BY <1>0, <1>2 DEF UploadInv, NoRow
  <2>1. ASSUME NEW c \in Docs, UploadCommit(c)
        PROVE  UploadCommit(d)
    <3>1. c = d
      BY <1>0, <2>0, <2>1 DEF UploadCommit, TypeOK
    <3> QED BY <2>1, <3>1
  <2>2. ASSUME NEW r \in Runs, PersistCommit(r)
        PROVE  FALSE
    <3>1. d # target[r]
      BY <1>0, <1>2, <2>2 DEF RowInv, TargetInv, Known, PersistCommit, Procs
    <3> QED BY <1>0, <2>0, <2>2, <3>1, PersistWrites
  <2>3. ASSUME NEW x \in Erasures, EraseMark(x) \/ EraseRows(x)
        PROVE  FALSE
    BY <1>0, <2>0, <2>3, EraseWrites
  <2> QED BY <2>0, <2>1, <2>2, <2>3, LoneWrites
<1> QED BY <1>0, <1>1, <1>2 DEF TypeOK

\* What happens to files: uploads save them, erasures delete those of documents
\* they have marked.
LEMMA BlobWrites ==
  ASSUME Lone, [Next]_vars
  PROVE  \/ blob' = blob
         \/ \E d \in Docs : UploadSave(d)
         \/ \E x \in Erasures : EraseBlob(x)
<1> USE DEF stores
<1>1. ASSUME NEW d \in Docs, UploadStep(d) \/ UploadFails(d), ~ UploadSave(d)
      PROVE  blob' = blob
  BY <1>1 DEF UploadStep, UploadCommit, UploadEnqueue, UploadFails
<1>2. ASSUME NEW r \in Runs, RunStep(r)
      PROVE  blob' = blob
  BY <1>2 DEF RunStep, RunLoad, RunStart, GraphStep, RunNode, RunParse, RunGuardrail,
     RunExtract, RunScore, RunRoute, RunTerminal, PersistRead, PersistCommit, HookBegin,
     HookDelivered, HookExhausted
<1>3. ASSUME NEW x \in Erasures, EraseStep(x) \/ \E d \in Docs : EraseCancel(x, d),
             ~ EraseBlob(x)
      PROVE  blob' = blob
  BY <1>3 DEF EraseStep, EraseCancel, EraseRead, EraseMark, EraseVectors, ErasePurge, EraseRows
<1>4. CASE Crash \/ (\E p \in Procs : Abort(p)) \/ UNCHANGED vars
  BY <1>4 DEF Crash, Abort, vars
<1> QED BY <1>1, <1>2, <1>3, <1>4 DEF Next, Lone

\* A file that is gone was gone, or is that of a document marked before and after.
LEMMA BlobStays ==
  ASSUME Lone, ContractInv, MarkInv, [Next]_vars, NEW d \in Docs, blob[d], ~ blob'[d]
  PROVE  /\ doc[d].version > 0
         /\ doc[d].status \in {"cancelled", "absent"}
<1>0. TypeOK /\ TargetInv
  BY DEF ContractInv, RaceInv, RowInv
<1>1. ASSUME NEW c \in Docs, UploadSave(c)
      PROVE  FALSE
  BY <1>0, <1>1 DEF UploadSave, TypeOK
<1>2. ASSUME NEW x \in Erasures, EraseBlob(x)
      PROVE  /\ doc[d].version > 0
             /\ doc[d].status \in {"cancelled", "absent"}
  <2>1. d = target[x]
    BY <1>0, <1>2 DEF EraseBlob, TypeOK
  <2> QED BY <1>0, <1>2, <2>1 DEF EraseBlob, MarkInv, Marked, TargetInv, Known, Procs
<1> QED BY <1>1, <1>2, BlobWrites

\* A document that is not decided keeps its file.
LEMMA FileStep ==
  ASSUME Lone, LoneInv, [Next]_vars
  PROVE  FileInv' /\ LiveHasBlob'
<1>0. ContractInv /\ MarkInv /\ TypeOK /\ UploadInv
  BY DEF LoneInv, ContractInv, RaceInv, RowInv
<1>1. ASSUME NEW d \in Docs, upload'[d] = "saved"
      PROVE  blob'[d]
  <2>1. upload[d] = "saved" \/ UploadSave(d)
    <3>1. ASSUME NEW c \in Docs, UploadStep(c) \/ UploadFails(c)
          PROVE  upload[d] = "saved" \/ UploadSave(d)
      <4>1. CASE UploadSave(c)
        BY <1>0, <1>1, <4>1 DEF UploadSave, TypeOK
      <4>2. CASE ~ UploadSave(c)
        BY <1>0, <1>1, <3>1, <4>2
           DEF UploadStep, UploadCommit, UploadEnqueue, UploadFails, TypeOK
      <4> QED BY <4>1, <4>2
    <3>2. ASSUME NEW r \in Runs, RunStep(r)
          PROVE  upload' = upload
      BY <3>2 DEF RunStep, RunLoad, RunStart, GraphStep, RunNode, RunParse, RunGuardrail,
         RunExtract, RunScore, RunRoute, RunTerminal, PersistRead, PersistCommit, HookBegin,
         HookDelivered, HookExhausted
    <3>3. ASSUME NEW x \in Erasures, EraseStep(x) \/ \E c \in Docs : EraseCancel(x, c)
          PROVE  upload' = upload
      BY <3>3 DEF EraseStep, EraseCancel, EraseRead, EraseMark, EraseBlob, EraseVectors,
         ErasePurge, EraseRows
    <3>4. ASSUME Crash
          PROVE  upload'[d] # "saved"
      BY <1>0, <3>4 DEF Crash, TypeOK
    <3>5. CASE (\E p \in Procs : Abort(p)) \/ UNCHANGED vars
      BY <1>1, <3>5 DEF Abort, vars
    <3> QED BY <1>1, <3>1, <3>2, <3>3, <3>4, <3>5 DEF Next, Lone
  <2>2. CASE upload[d] = "saved"
    <3>1. blob[d] /\ doc[d] = NoRow
      BY <1>0, <2>2 DEF LoneInv, FileInv, UploadInv
    <3> QED BY <1>0, <3>1, BlobStays DEF NoRow
  <2>3. CASE UploadSave(d)
    BY <1>0, <2>3 DEF UploadSave, TypeOK
  <2> QED BY <2>1, <2>2, <2>3
<1>2. ASSUME NEW d \in Docs, doc'[d].status \notin {"absent", "cancelled"}
      PROVE  blob'[d]
  <2>1. CASE UploadCommit(d)
    BY <1>0, <2>1 DEF UploadCommit, LoneInv, FileInv, stores
  <2>2. CASE doc[d].version > 0 /\ doc[d].status \notin {"absent", "cancelled"}
    BY <1>0, <2>2, BlobStays DEF LoneInv, LiveHasBlob
  <2> QED BY <1>0, <1>2, <2>1, <2>2, LiveWas
<1> QED BY <1>1, <1>2 DEF FileInv, LiveHasBlob

\* What makes an erasure win holds in every instance with runs and erasures only.
LEMMA LoneAlways == ASSUME Lone PROVE Spec => []LoneInv
<1>1. Init => LoneInv
  <2>1. Init => MarkInv /\ FileInv /\ LiveHasBlob
    BY DEF Init, MarkInv, Marked, FileInv, LiveHasBlob, NoRow, Procs
  <2> QED BY <2>1, ContractInit DEF LoneInv
<1>2. LoneInv /\ [Next]_vars => LoneInv'
  BY Lone, ContractInvStep, MarkStep, FileStep DEF LoneInv
<1> QED BY <1>1, <1>2, PTL DEF Spec

\* Where nobody retries or reviews, a document is never parsed without its file:
\* no erasure deletes it before the mark can be seen.
THEOREM LiveAlwaysHasBlob == ASSUME Lone PROVE Spec => []LiveHasBlob
<1>1. LoneInv => LiveHasBlob
  BY DEF LoneInv
<1> QED BY <1>1, LoneAlways, Lone, PTL

\* Where nobody retries or reviews, the erasures win, for any numbers of
\* documents, runs, erasures and faults.
THEOREM ErasureAlwaysWins == ASSUME Lone PROVE Spec => ErasureWins
<1>1. LoneInv /\ [Next]_vars =>
        [\A d \in Docs :
           /\ doc[d].status = "cancelled" => doc'[d].status \in {"cancelled", "absent"}
           /\ tombstones[d] > 0 => doc'[d].status = "absent"]_vars
  <2> SUFFICES ASSUME LoneInv, [Next]_vars, NEW d \in Docs
               PROVE  /\ doc[d].status = "cancelled" => doc'[d].status \in {"cancelled", "absent"}
                      /\ tombstones[d] > 0 => doc'[d].status = "absent"
    OBVIOUS
  <2>0. ContractInv /\ TypeOK /\ UploadInv /\ TombInv
    BY DEF LoneInv, ContractInv, RaceInv, RowInv
  <2>1. doc[d].status = "cancelled" => doc[d].version > 0
    BY <2>0 DEF UploadInv, NoRow
  <2>2. tombstones[d] > 0 => doc[d].version > 0 /\ doc[d].status = "absent"
    BY <2>0 DEF TombInv, Exists
  <2> QED BY <2>0, <2>1, <2>2, Lone, MarkStays
<1> QED BY <1>1, LoneAlways, Lone, PTL DEF Spec, ErasureWins

\* Only steps of its own move a run that has begun, if nothing fails.
LEMMA RunMoves ==
  ASSUME MaxFaults = 0, TypeOK, [Next]_vars, NEW r \in Runs, pc[r] # "idle"
  PROVE  /\ target'[r] = target[r]
         /\ pc'[r] = pc[r] \/ RunStep(r)
<1>1. ~ Fault
  BY DEF Fault, TypeOK
<1> QED BY <1>1, EveryMove, Disjoint DEF Procs, Moves, Still, Enqueued

\* A run that persists an outcome finds its document decided, or decides it.
LEMMA PersistDecides ==
  ASSUME RaceInv, PendingInv, NEW r \in Runs, PersistCommit(r)
  PROVE  doc'[target[r]].status # "pending"
<1>0. /\ r \in Procs /\ TypeOK /\ HasRead(r)
      /\ target[r] \in Docs
  BY DEF RaceInv, RowInv, TargetInv, Known, Procs, PersistCommit, HasRead
<1>1. Outcome(r) \in Terminal
  BY DEF Outcome, Terminal
<1>2. ASSUME doc[target[r]].status = "pending"
      PROVE  /\ ~ Stale(doc[target[r]], seen[r])
             /\ seen[r].status = "pending" /\ ~ result[target[r]]
  <2>1. doc[target[r]].version = 2 /\ Exists(doc[target[r]]) /\ ~ result[target[r]]
    BY <1>0, <1>2 DEF PendingInv, Exists
  <2>2. seen[r].version = 2
    <3>1. seen[r].version >= 2 /\ seen[r].version <= 2
      BY <1>0, <2>1 DEF PendingInv, RaceInv, ReadInv
    <3>2. seen[r].version \in Nat
      BY <1>0 DEF TypeOK
    <3> QED BY <3>1, <3>2
  <2>3. seen[r].status = "pending"
    BY <1>0, <1>2, <2>1, <2>2 DEF RaceInv, ReadInv
  <2> QED BY <2>1, <2>2, <2>3 DEF Stale
<1>3. ASSUME NEW touched \in BOOLEAN, seen[r].status # Outcome(r) => touched,
             PersistRows(r, touched)
      PROVE  doc'[target[r]].status # "pending"
  <2>1. CASE touched
    <3>1. doc' = [doc EXCEPT ![target[r]] = Updated(doc[target[r]], Outcome(r))]
      BY <1>3, <2>1 DEF PersistRows
    <3>2. doc'[target[r]].status = Outcome(r)
      BY <1>0, <3>1 DEF TypeOK, Updated
    <3> QED BY <1>1, <3>2 DEF Terminal
  <2>2. CASE ~ touched
    <3>1. doc' = doc /\ seen[r].status # "pending"
      BY <1>1, <1>3, <2>2 DEF PersistRows, Terminal
    <3> QED BY <1>2, <3>1
  <2> QED BY <2>1, <2>2
<1>4. ASSUME NEW touched \in BOOLEAN, PersistRaises(r, touched), doc' = doc
      PROVE  doc'[target[r]].status # "pending"
  <2> SUFFICES ASSUME doc[target[r]].status = "pending" PROVE FALSE
    BY <1>4
  <2>1. Exists(doc[target[r]])
    BY DEF Exists
  <2> QED BY <1>2, <1>4, <2>1 DEF PersistRaises
<1> QED BY <1>3, <1>4 DEF PersistCommit

\* A document that is pending after a step was so before, or has just been uploaded.
LEMMA PendingWas ==
  ASSUME Retries = {}, RaceInv, PendingInv, [Next]_vars, NEW d \in Docs, doc'[d].status = "pending"
  PROVE  \/ UploadCommit(d) /\ doc'[d].version = 2
         \/ doc'[d] = doc[d] /\ \A r \in Runs : PersistCommit(r) => target[r] # d
<1>0. TypeOK
  BY DEF RaceInv, RowInv
<1>1. \A r \in Runs : PersistCommit(r) => target[r] # d
  BY PersistDecides
<1>2. ASSUME NEW c \in Docs, UploadCommit(c)
      PROVE  doc'[d] = doc[d] \/ (UploadCommit(d) /\ doc'[d].version = 2)
  BY <1>0, <1>2 DEF UploadCommit, TypeOK
<1>3. ASSUME NEW r \in Runs, PersistCommit(r)
      PROVE  doc'[d] = doc[d]
  BY <1>1, <1>3, PersistWrites
<1>4. ASSUME NEW x \in Erasures, EraseMark(x) \/ EraseRows(x)
      PROVE  doc'[d] = doc[d]
  BY <1>4, EraseWrites
<1>5. ASSUME NEW a \in Reviewers, ReviewCommit(a)
      PROVE  doc'[d] = doc[d]
  BY <1>5, ReviewWrites
<1> QED BY <1>1, <1>2, <1>3, <1>4, <1>5, RowWrites

\* Extractions are stored by persists only.
LEMMA ResultWrites ==
  ASSUME Retries = {}, [Next]_vars, RaceInv, NEW d \in Docs, result'[d]
  PROVE  result[d] \/ \E r \in Runs : PersistCommit(r) /\ target[r] = d
<1> USE DEF rows
<1>0. TypeOK
  BY DEF RaceInv, RowInv
<1>1. ASSUME NEW c \in Docs, UploadStep(c) \/ UploadFails(c)
      PROVE  result' = result
  BY <1>1 DEF UploadStep, UploadSave, UploadCommit, UploadEnqueue, UploadFails
<1>2. ASSUME NEW r \in Runs, RunStep(r), ~ PersistCommit(r)
      PROVE  result' = result
  BY <1>2 DEF RunStep, RunLoad, RunStart, GraphStep, RunNode, RunParse,
     RunGuardrail, RunExtract, RunScore, RunRoute, RunTerminal, PersistRead, HookBegin,
     HookDelivered, HookExhausted
<1>3. ASSUME NEW r \in Runs, PersistCommit(r), target[r] # d
      PROVE  result'[d] = result[d]
  <2>1. result' = result \/ \E b : result' = [result EXCEPT ![target[r]] = b]
    BY <1>3 DEF PersistCommit, PersistRows
  <2> QED BY <1>0, <1>3, <2>1 DEF TypeOK
<1>4. ASSUME NEW x \in Erasures, EraseStep(x) \/ \E c \in Docs : EraseCancel(x, c)
      PROVE  result' = result \/ result' = [result EXCEPT ![target[x]] = FALSE]
  BY <1>4 DEF EraseStep, EraseCancel, EraseRead, EraseMark, EraseBlob, EraseVectors, ErasePurge,
     EraseRows
<1>5. ASSUME NEW a \in Reviewers,
             ReviewStep(a) \/ \E c \in Docs, action \in Actions : ReviewRead(a, c, action)
      PROVE  result' = result
  BY <1>5 DEF ReviewStep, ReviewRead, ReviewLoad, ReviewWriteBack, ReviewCommit
<1>6. CASE Crash \/ (\E p \in Procs : Abort(p)) \/ UNCHANGED vars
  BY <1>6 DEF Crash, Abort, vars
<1> QED BY <1>0, <1>1, <1>2, <1>3, <1>4, <1>5, <1>6 DEF Next, TypeOK

\* What is known of pending rows survives every step.
LEMMA PendingStep ==
  ASSUME Retries = {}, RaceInv, PendingInv, [Next]_vars
  PROVE  PendingInv'
<1>0. TypeOK /\ TypeOK' /\ RowInv /\ RowInv' /\ UploadInv
  BY RaceStep DEF RaceInv, RowInv
<1>1. ASSUME NEW d \in Docs, doc'[d].version > 0
      PROVE  doc'[d].version >= 2
  <2>1. CASE doc[d].version > 0
    <3>1. Written(d) /\ doc[d].version >= 2
      BY <1>0, <2>1, StepWrites DEF PendingInv
    <3>2. doc[d].version \in Nat /\ doc'[d].version \in Nat
      BY <1>0 DEF TypeOK
    <3> QED BY <3>1, <3>2 DEF Written
  <2>2. CASE doc[d].version = 0
    <3>1. ASSUME NEW c \in Docs, UploadCommit(c)
          PROVE  doc'[d].version \in {0, 2}
      BY <1>0, <2>2, <3>1 DEF UploadCommit, TypeOK
    <3>2. ASSUME NEW r \in Runs, PersistCommit(r)
          PROVE  doc'[d] = doc[d]
      <4>1. d # target[r]
        BY <1>0, <2>2, <3>2 DEF RowInv, TargetInv, Known, PersistCommit, Procs
      <4> QED BY <3>2, <4>1, PersistWrites
    <3>3. ASSUME NEW x \in Erasures, EraseMark(x) \/ EraseRows(x)
          PROVE  doc'[d] = doc[d]
      <4>1. d # target[x]
        BY <1>0, <2>2, <3>3 DEF RowInv, TargetInv, Known, EraseMark, EraseRows, Procs
      <4> QED BY <3>3, <4>1, EraseWrites
    <3>4. ASSUME NEW a \in Reviewers, ReviewCommit(a)
          PROVE  doc'[d] = doc[d]
      <4>1. d # target[a]
        BY <1>0, <2>2, <3>4, ReviewWrites DEF Known
      <4> QED BY <3>4, <4>1, ReviewWrites
    <3> QED BY <1>1, <2>2, <3>1, <3>2, <3>3, <3>4, RowWrites
  <2> QED BY <1>0, <2>1, <2>2 DEF TypeOK
<1>2. ASSUME NEW d \in Docs, doc'[d].status = "pending"
      PROVE  doc'[d].version = 2 /\ ~ result'[d]
  <2>1. CASE UploadCommit(d) /\ doc'[d].version = 2
    <3>1. ~ Exists(doc[d]) /\ result' = result
      BY <1>0, <2>1 DEF UploadCommit, UploadInv, NoRow, Exists
    <3> QED BY <1>0, <2>1, <3>1 DEF RowInv, RowsNeedDocument
  <2>2. CASE doc'[d] = doc[d] /\ \A r \in Runs : PersistCommit(r) => target[r] # d
    <3>1. doc[d].version = 2 /\ ~ result[d]
      BY <1>2, <2>2 DEF PendingInv
    <3> QED BY <2>2, <3>1, ResultWrites
  <2> QED BY <1>2, <2>1, <2>2, PendingWas
<1>3. ASSUME NEW p \in Procs, HasRead(p)'
      PROVE  seen'[p].version >= 2
  <2>1. CASE HasRead(p) /\ seen'[p] = seen[p]
    BY <2>1 DEF PendingInv
  <2>2. CASE seen'[p] = doc[target'[p]] /\ doc' = doc
    <3>1. target'[p] \in Docs /\ doc'[target'[p]].version > 0
      BY <1>0, <1>3 DEF RowInv, TargetInv, Known, HasRead
    <3> QED BY <2>2, <3>1 DEF PendingInv
  <2> QED BY <1>0, <1>3, <2>1, <2>2, StepReads DEF Reads, HasRead
<1> QED BY <1>1, <1>2, <1>3 DEF PendingInv

\* In an instance without faults none occurs.
LEMMA NoFault ==
  ASSUME MaxFaults = 0, TypeOK
  PROVE  ~ Fault
BY DEF Fault, TypeOK

\* A run that can decide a document goes on until it has, unless an erasure
\* takes over.
LEMMA CarriesOn ==
  ASSUME Retries = {}, MaxFaults = 0, RaceInv, PendingInv, [Next]_vars, NEW d \in Docs,
         NEW r \in Runs, Carries(r, d), doc[d].status = "pending", doc'[d].status = "pending"
  PROVE  Carries(r, d)' \/ d \in flagged
<1> USE DEF Goto
<1>0. /\ TypeOK /\ r \in Procs /\ target[r] = d /\ pc[r] \notin {"idle", "hook", "posting"}
      /\ pc[r] \in RunSteps
  BY DEF RaceInv, RowInv, Procs, Carries, RunSteps
<1>1. target'[r] = target[r] /\ (pc'[r] = pc[r] \/ RunStep(r))
  BY <1>0, RunMoves
<1>2. CASE pc'[r] = pc[r]
  BY <1>0, <1>1, <1>2 DEF Carries
<1>3. CASE RunLoad(r) \/ RunStart(r)
  <2>1. pc'[r] \in {"loaded", "parse"}
    BY <1>0, <1>3 DEF RunLoad, RunStart, Exists, TypeOK
  <2> QED BY <1>0, <1>1, <2>1 DEF Carries, RunSteps
<1>4. CASE GraphStep(r)
  <2>1. RouteDecision(RouteNode(st[r])) \in {"deliver", "review", "dlq"}
    <3>1. st[r] \in State
      BY <1>0 DEF TypeOK
    <3> QED BY <3>1, NodeTypes DEF RouteDecision, Branch, Levels
  <2>2. \E step \in {"guardrail", "extract", "score", "route", "deliver", "review", "dlq",
                     "outcome"} : pc' = [pc EXCEPT ![r] = step]
    BY <1>4, <2>1 DEF GraphStep, RunNode, RunParse, RunGuardrail, RunExtract, RunScore,
       RunRoute, RunTerminal
  <2>3. pc'[r] \in RunSteps \ {"hook", "posting"}
    BY <1>0, <2>2 DEF TypeOK, RunSteps
  <2> QED BY <1>0, <1>1, <2>3 DEF Carries
<1>5. CASE PersistRead(r) /\ d \notin flagged
  <2>1. ~ PersistSkips(d)
    BY <1>5 DEF PersistSkips, Exists
  <2>2. pc'[r] = "commit"
    BY <1>0, <1>5, <2>1 DEF PersistRead, TypeOK
  <2> QED BY <1>0, <1>1, <2>2 DEF Carries, RunSteps
<1>6. CASE PersistCommit(r)
  BY <1>0, <1>6, PersistDecides
<1>7. ~ HookBegin(r) /\ ~ HookDelivered(r) /\ ~ HookExhausted(r)
  BY <1>0 DEF HookBegin, HookDelivered, HookExhausted
<1> QED BY <1>1, <1>2, <1>3, <1>4, <1>5, <1>6, <1>7 DEF RunStep

\* An erasure goes on until the document is not pending any more: the mark of a
\* pending document is never stale.
LEMMA OwnsOn ==
  ASSUME Retries = {}, MaxFaults = 0, RaceInv, PendingInv, [Next]_vars, NEW d \in Docs,
         NEW x \in Erasures, Owns(x, d), doc[d].status = "pending", doc'[d].status = "pending"
  PROVE  Owns(x, d)'
<1> USE DEF Goto
<1>0. TypeOK /\ x \in Procs /\ target[x] = d /\ pc[x] \notin {"idle", "done"}
  BY DEF RaceInv, RowInv, Procs, Owns
<1>1. CASE pc'[x] = pc[x] /\ target'[x] = target[x]
  BY <1>0, <1>1 DEF Owns
<1>2. CASE EraseRead(x)
  BY <1>0, <1>2 DEF EraseRead, Owns, TypeOK, Exists
<1>3. CASE EraseMark(x)
  <2>1. HasRead(x) /\ doc[d].version = 2 /\ Exists(doc[d])
    BY <1>0, <1>3 DEF EraseMark, HasRead, PendingInv, Exists
  <2>2. seen[x].version >= 2 /\ seen[x].version <= 2 /\ seen[x].version \in Nat
    BY <1>0, <2>1 DEF PendingInv, RaceInv, ReadInv, TypeOK
  <2>3. ~ Stale(doc[d], seen[x])
    BY <2>1, <2>2 DEF Stale
  <2>4. pc' = [pc EXCEPT ![x] = "blob"] /\ target' = target
    BY <1>0, <1>3, <2>3 DEF EraseMark
  <2> QED BY <1>0, <2>4 DEF Owns, TypeOK
<1>4. CASE EraseBlob(x) \/ EraseVectors(x) \/ ErasePurge(x)
  BY <1>0, <1>4 DEF EraseBlob, EraseVectors, ErasePurge, Owns, TypeOK
<1>5. CASE EraseRows(x)
  BY <1>0, <1>5 DEF EraseRows, TypeOK
<1>6. \A c \in Docs : ~ EraseCancel(x, c)
  BY <1>0 DEF EraseCancel
<1> QED BY <1>0, <1>1, <1>2, <1>3, <1>4, <1>5, <1>6, EraseMoves, NoFault DEF EraseStep

\* Flags are set by requests that go on to erase.
LEMMA FlagWrites ==
  ASSUME Retries = {}, TypeOK, [Next]_vars, NEW d \in flagged'
  PROVE  \/ d \in flagged
         \/ upload[d] = "enqueued" /\ \E x \in Erasures : Owns(x, d)'
<1>1. ASSUME NEW c \in Docs, UploadStep(c) \/ UploadFails(c)
      PROVE  flagged' = flagged
  BY <1>1 DEF UploadStep, UploadSave, UploadCommit, UploadEnqueue, UploadFails
<1>2. ASSUME NEW r \in Runs, RunStep(r)
      PROVE  flagged' = flagged
  BY <1>2 DEF RunStep, RunLoad, RunStart, GraphStep, RunNode, RunParse, RunGuardrail,
     RunExtract, RunScore, RunRoute, RunTerminal, PersistRead, PersistCommit, HookBegin,
     HookDelivered, HookExhausted
<1>3. ASSUME NEW x \in Erasures, EraseStep(x)
      PROVE  flagged' \subseteq flagged
  BY <1>3 DEF EraseStep, EraseRead, EraseMark, EraseBlob, EraseVectors, ErasePurge, EraseRows
<1>4. ASSUME NEW x \in Erasures, NEW c \in Docs, EraseCancel(x, c), d \notin flagged
      PROVE  upload[d] = "enqueued" /\ Owns(x, d)'
  <2>1. d = c /\ x \in Procs
    BY <1>4 DEF EraseCancel, Procs
  <2> QED BY <1>4, <2>1 DEF EraseCancel, Owns, Goto, TypeOK
<1>5. CASE Crash \/ (\E p \in Procs : Abort(p)) \/ UNCHANGED vars
  BY <1>5 DEF Crash, Abort, vars
<1>6. ASSUME NEW a \in Reviewers,
             ReviewStep(a) \/ \E c \in Docs, action \in Actions : ReviewRead(a, c, action)
      PROVE  flagged' = flagged
  BY <1>6 DEF ReviewStep, ReviewRead, ReviewLoad, ReviewWriteBack, ReviewCommit
<1> QED BY <1>1, <1>2, <1>3, <1>4, <1>5, <1>6 DEF Next

\* A committed upload is enqueued.
LEMMA CommittedOn ==
  ASSUME Retries = {}, MaxFaults = 0, TypeOK, [Next]_vars, NEW d \in Docs, upload[d] = "committed"
  PROVE  upload'[d] = "committed" \/ \E r \in Runs : Carries(r, d)'
<1>1. ASSUME NEW c \in Docs, UploadEnqueue(c)
      PROVE  upload'[d] = "committed" \/ \E r \in Runs : Carries(r, d)'
  <2>1. PICK r \in Runs : /\ pc' = [pc EXCEPT ![r] = "queued"]
                          /\ target' = [target EXCEPT ![r] = c]
    BY <1>1 DEF UploadEnqueue, Enqueue
  <2>2. pc'[r] = "queued" /\ target'[r] = c
    BY <2>1 DEF TypeOK, Procs
  <2>3. CASE c = d
    BY <2>2, <2>3 DEF Carries, RunSteps
  <2>4. CASE c # d
    BY <1>1, <2>4 DEF UploadEnqueue, TypeOK
  <2> QED BY <2>3, <2>4
<1>2. ASSUME NEW c \in Docs, UploadStep(c) \/ UploadFails(c), ~ UploadEnqueue(c)
      PROVE  upload'[d] = "committed"
  BY <1>2 DEF UploadStep, UploadSave, UploadCommit, UploadFails, TypeOK
<1>3. ASSUME NEW r \in Runs, RunStep(r)
      PROVE  upload' = upload
  BY <1>3 DEF RunStep, RunLoad, RunStart, GraphStep, RunNode, RunParse, RunGuardrail,
     RunExtract, RunScore, RunRoute, RunTerminal, PersistRead, PersistCommit, HookBegin,
     HookDelivered, HookExhausted
<1>4. ASSUME NEW x \in Erasures, EraseStep(x) \/ \E c \in Docs : EraseCancel(x, c)
      PROVE  upload' = upload
  BY <1>4 DEF EraseStep, EraseCancel, EraseRead, EraseMark, EraseBlob, EraseVectors,
     ErasePurge, EraseRows
<1>5. ~ Crash /\ \A p \in Procs : ~ Abort(p)
  BY NoFault DEF Crash, Abort
<1>6. CASE UNCHANGED vars
  BY <1>6 DEF vars
<1>7. ASSUME NEW a \in Reviewers,
             ReviewStep(a) \/ \E c \in Docs, action \in Actions : ReviewRead(a, c, action)
      PROVE  upload' = upload
  BY <1>7 DEF ReviewStep, ReviewRead, ReviewLoad, ReviewWriteBack, ReviewCommit
<1> QED BY <1>1, <1>2, <1>3, <1>4, <1>5, <1>6, <1>7 DEF Next

\* Somebody keeps caring for a pending document.
LEMMA OwnerStep ==
  ASSUME Retries = {}, MaxFaults = 0, CareInv, [Next]_vars
  PROVE  OwnerInv'
<1>0. RaceInv /\ PendingInv /\ TypeOK /\ UploadInv /\ RowInv /\ RowInv' /\ TypeOK' /\ UploadInv'
  BY RaceStep DEF CareInv, RaceInv, RowInv
<1>1. ASSUME NEW d \in flagged'
      PROVE  doc'[d].version > 0
  <2>1. d \in Docs
    BY <1>0 DEF TypeOK
  <2>2. doc[d].version > 0
    BY <1>0, <2>1, FlagWrites DEF CareInv, OwnerInv, UploadInv
  <2>3. doc[d].version \in Nat /\ doc'[d].version \in Nat
    BY <1>0, <2>1 DEF TypeOK
  <2> QED BY <1>0, <2>1, <2>2, <2>3, StepWrites DEF Written
<1>2. ASSUME NEW d \in Docs, doc'[d].status = "pending"
      PROVE  /\ \/ upload'[d] = "committed"
                \/ \E r \in Runs : Carries(r, d)'
                \/ \E x \in Erasures : Owns(x, d)'
             /\ d \in flagged' => \E x \in Erasures : Owns(x, d)'
  <2>1. CASE UploadCommit(d)
    <3>1. upload'[d] = "committed" /\ doc[d] = NoRow /\ flagged' = flagged
      BY <1>0, <2>1 DEF UploadCommit, UploadInv, TypeOK
    <3>2. d \notin flagged
      BY <3>1 DEF CareInv, OwnerInv, NoRow
    <3> QED BY <3>1, <3>2
  <2>2. CASE doc'[d] = doc[d]
    <3>0. doc[d].status = "pending"
      BY <1>2, <2>2
    <3>1. d \in flagged' => \E x \in Erasures : Owns(x, d)'
      BY <1>0, <1>2, <3>0, FlagWrites, OwnsOn DEF CareInv, OwnerInv
    <3>2. ASSUME NEW x \in Erasures, Owns(x, d)
          PROVE  Owns(x, d)'
      BY <1>0, <1>2, <3>0, <3>2, OwnsOn
    <3>3. ASSUME NEW r \in Runs, Carries(r, d)
          PROVE  Carries(r, d)' \/ \E x \in Erasures : Owns(x, d)'
      <4>1. CASE d \in flagged
        BY <3>0, <3>2, <4>1 DEF CareInv, OwnerInv
      <4> QED BY <1>0, <1>2, <3>0, <3>3, <4>1, CarriesOn
    <3>4. ASSUME upload[d] = "committed"
          PROVE  upload'[d] = "committed" \/ \E r \in Runs : Carries(r, d)'
      BY <1>0, <3>4, CommittedOn
    <3> QED BY <3>0, <3>1, <3>2, <3>3, <3>4 DEF CareInv, OwnerInv
  <2> QED BY <1>0, <1>2, <2>1, <2>2, PendingWas
<1> QED BY <1>1, <1>2 DEF OwnerInv

\* What keeps a document from being abandoned holds.
LEMMA CareAlways == ASSUME Retries = {}, MaxFaults = 0 PROVE Spec => []CareInv
<1>1. Init => CareInv
  <2>1. Init => PendingInv
    BY DEF Init, PendingInv, HasRead, NoRow, Procs
  <2>2. Init => OwnerInv
    BY DEF Init, OwnerInv, NoRow
  <2> QED BY <2>1, <2>2, RaceInit DEF CareInv
<1>2. CareInv /\ [Next]_vars => CareInv'
  <2> SUFFICES ASSUME CareInv, [Next]_vars PROVE CareInv'
    OBVIOUS
  <2>1. RaceInv'
    BY RaceStep DEF CareInv
  <2>2. PendingInv'
    BY Retries = {}, PendingStep DEF CareInv
  <2>3. OwnerInv'
    BY Retries = {}, OwnerStep, MaxFaults = 0
  <2> QED BY <2>1, <2>2, <2>3 DEF CareInv
<1> QED BY <1>1, <1>2, PTL DEF Spec

\* Only an erasure marks a document, and it goes on until the row is gone.
LEMMA MarkedStep ==
  ASSUME MaxFaults = 0, RaceInv, MarkedInv, [Next]_vars
  PROVE  MarkedInv'
<1> DEFINE Past(x, d) == target[x] = d /\ pc[x] \in {"blob", "vectors", "purge", "rows"}
<1> USE DEF Goto
<1>0. TypeOK /\ RowInv
  BY DEF RaceInv, RowInv
<1> SUFFICES ASSUME NEW d \in Docs, doc'[d].status = "cancelled"
             PROVE  \E x \in Erasures : Past(x, d)'
  BY DEF MarkedInv
<1>1. CASE doc[d].status = "cancelled"
  <2>1. PICK x \in Erasures : Past(x, d)
    BY <1>1 DEF MarkedInv
  <2>2. x \in Procs
    BY DEF Procs
  <2>3. CASE pc'[x] = pc[x] /\ target'[x] = target[x]
    BY <2>1, <2>3
  <2>4. CASE EraseStep(x) /\ target'[x] = target[x]
    <3>1. ~ EraseRead(x) /\ ~ EraseMark(x)
      BY <2>1 DEF EraseRead, EraseMark
    <3>2. ~ EraseRows(x)
      BY <1>0, <2>1 DEF EraseRows, TypeOK
    <3>3. CASE EraseBlob(x) \/ EraseVectors(x) \/ ErasePurge(x)
      BY <1>0, <2>1, <2>2, <2>4, <3>3 DEF EraseBlob, EraseVectors, ErasePurge, TypeOK
    <3> QED BY <2>4, <3>1, <3>2, <3>3 DEF EraseStep
  <2>5. \A c \in Docs : ~ EraseCancel(x, c)
    BY <2>1 DEF EraseCancel
  <2> QED BY <1>0, <2>3, <2>4, <2>5, EraseMoves, NoFault
<1>2. CASE doc[d].status # "cancelled"
  <2>1. doc'[d] # doc[d]
    BY <1>2
  <2>2. ASSUME NEW c \in Docs, UploadCommit(c)
        PROVE  FALSE
    BY <1>0, <1>2, <2>2 DEF UploadCommit, TypeOK
  <2>3. ASSUME NEW r \in Runs, PersistCommit(r)
        PROVE  FALSE
    <3>1. doc'[d].status = Outcome(r)
      <4>1. d = target[r]
        BY <2>1, <2>3, PersistWrites
      <4>2. doc'[d] = Updated(doc[d], Outcome(r))
        BY <2>1, <2>3, <4>1, PersistWrites
      <4> QED BY <4>2 DEF Updated
    <3>2. st[r].status \in GraphStatuses
      BY <1>0 DEF TypeOK, State
    <3> QED BY <3>1, <3>2 DEF Outcome, Terminal, GraphStatuses
  <2>4. ASSUME NEW x \in Erasures, EraseMark(x) \/ EraseRows(x)
        PROVE  Past(x, d)'
    <3>1. d = target[x] /\ target' = target /\ x \in Procs
      BY <2>1, <2>4, EraseWrites DEF EraseMark, EraseRows, Procs
    <3>2. CASE EraseRows(x)
      BY <1>0, <3>1, <3>2 DEF EraseRows, TypeOK
    <3>3. CASE EraseMark(x)
      <4>1. pc' = [pc EXCEPT ![x] = "blob"]
        BY <2>1, <3>3 DEF EraseMark
      <4> QED BY <1>0, <3>1, <4>1 DEF TypeOK
    <3> QED BY <2>4, <3>2, <3>3
  <2>5. ASSUME NEW q \in Retries, RetryCommit(q)
        PROVE  FALSE
    BY <2>1, <2>5, RetryWrites
  <2>6. ASSUME NEW a \in Reviewers, ReviewCommit(a)
        PROVE  FALSE
    BY <2>1, <2>6, ReviewWrites
  <2> QED BY <2>1, <2>2, <2>3, <2>4, <2>5, <2>6, RowWrites
<1> QED BY <1>1, <1>2

\* Where nothing fails, no marked document is left half erased: whatever runs,
\* retries, reviewers and other erasures interfere, one that has not failed is past
\* the mark.
THEOREM MarkedAlwaysOwned == ASSUME MaxFaults = 0 PROVE Spec => []MarkedInv
<1>1. Init => RaceInv /\ MarkedInv
  BY RaceInit DEF Init, MarkedInv, NoRow
<1>2. RaceInv /\ MarkedInv /\ [Next]_vars => RaceInv' /\ MarkedInv'
  BY RaceStep, MarkedStep, MaxFaults = 0
<1> QED BY <1>1, <1>2, PTL DEF Spec

\* Where nobody retries either, no unfinished document is abandoned, however many
\* erasures, runs and reviewers overtake each other.
THEOREM UnfinishedAlwaysOwned ==
  ASSUME Retries = {}, MaxFaults = 0
  PROVE  Spec => []UnfinishedHasOwner
<1>1. CareInv /\ MarkedInv => UnfinishedHasOwner
  <2> SUFFICES ASSUME CareInv, MarkedInv, NEW d \in Docs
               PROVE  /\ doc[d].status = "pending" =>
                           upload[d] = "committed" \/ \E p \in Runs \cup Erasures : Owns(p, d)
                      /\ doc[d].status = "cancelled" => \E x \in Erasures : Owns(x, d)
    BY DEF UnfinishedHasOwner
  <2>1. ASSUME NEW r \in Runs, Carries(r, d)
        PROVE  Owns(r, d)
    BY <2>1 DEF Carries, Owns, RunSteps
  <2> QED BY <2>1 DEF CareInv, OwnerInv, MarkedInv, Owns
<1> QED BY <1>1, CareAlways, MarkedAlwaysOwned, Retries = {}, MaxFaults = 0, PTL

=============================================================================
