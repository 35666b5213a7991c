--------------------------- MODULE DocumentProofs ---------------------------
(***************************************************************************)
(* Theorems about DocumentLifecycle, for every value of its constants.     *)
(***************************************************************************)
EXTENDS DocumentInvariant, TLAPS

\* What a node makes of a well-typed state is well-typed.
LEMMA NodeTypes ==
  ASSUME NEW s \in State
  PROVE  /\ EmptyState \in State
         /\ WithInput(s) \in State
         /\ \A out \in Parses : ParseNode(s, out) \in State
         /\ GuardrailNode(s) \in State
         /\ \A out \in Extractions : ExtractNode(s, out) \in State
         /\ \A level \in Levels : ScoreNode(s, level) \in State
         /\ RouteLevel(s) \in Levels
         /\ RouteNode(s) \in State
         /\ \A branch \in {"deliver", "review", "dlq"} : TerminalNode(branch, s) \in State
<1>1. EmptyState \in State
  BY DEF EmptyState, State, GraphStatuses, Reasons, Levels
<1>2. WithInput(s) \in State
  BY DEF WithInput, State, GraphStatuses
<1>3. \A out \in Parses : ParseNode(s, out) \in State
  BY DEF Parses, ParseNode, State, GraphStatuses, Reasons
<1>4. GuardrailNode(s) \in State
  BY DEF GuardrailNode, State, GraphStatuses, Reasons
<1>5. \A out \in Extractions : ExtractNode(s, out) \in State
  BY DEF ExtractNode, State, GraphStatuses, Reasons
<1>6. \A level \in Levels : ScoreNode(s, level) \in State
  BY DEF ScoreNode, State, GraphStatuses
<1>7. RouteLevel(s) \in Levels
  BY DEF RouteLevel, State, Levels
<1>8. RouteNode(s) \in State
  BY <1>7 DEF RouteNode, State
<1>9. \A branch \in {"deliver", "review", "dlq"} : TerminalNode(branch, s) \in State
  BY DEF TerminalNode, DeliverNode, ReviewNode, DlqNode, State, GraphStatuses, Reasons
<1> QED BY <1>1, <1>2, <1>3, <1>4, <1>5, <1>6, <1>7, <1>8, <1>9

-----------------------------------------------------------------------------

\* The invariant holds initially.
LEMMA RowInit == Init => RowInv
<1> SUFFICES ASSUME Init PROVE RowInv
  OBVIOUS
<1> USE DEF Init
<1>1. TypeOK
  BY NodeTypes, Nothing DEF TypeOK, NoRow, DocStatuses, ReviewStatuses, UploadSteps, Steps,
     Actions, State, EmptyState, GraphStatuses, Reasons, Levels
<1>2. UploadInv /\ RowsNeedDocument
  BY Nothing DEF UploadInv, RowsNeedDocument, NoRow, Exists
<1>3. TargetInv /\ EntryInv
  BY DEF TargetInv, EntryInv, Procs
<1> QED BY <1>1, <1>2, <1>3 DEF RowInv

\* Updating a row keeps its type.
LEMMA RowUpdates ==
  ASSUME NEW A, NEW row \in [status : A, version : Nat], NEW s \in A
  PROVE  /\ Updated(row, s) \in [status : A, version : Nat]
         /\ [row EXCEPT !.status = s] \in [status : A, version : Nat]
BY DEF Updated

\* Typing: every action, given that the working ones have a target.
LEMMA TypeUpload ==
  ASSUME RowInv, NEW d \in Docs, UploadStep(d) \/ UploadFails(d)
  PROVE  TypeOK'
<1> USE DEF RowInv, rows, stores, sessions, UploadSteps
<1>1. CASE UploadSave(d)
  BY <1>1 DEF UploadSave, TypeOK
<1>2. CASE UploadCommit(d)
  BY <1>2 DEF UploadCommit, TypeOK, DocStatuses
<1>3. CASE UploadEnqueue(d)
  <2>1. PICK r \in Runs : /\ pc' = [pc EXCEPT ![r] = "queued"]
                          /\ target' = [target EXCEPT ![r] = d]
    BY <1>3 DEF UploadEnqueue, Enqueue
  <2> QED BY <1>3, <2>1 DEF UploadEnqueue, TypeOK, Steps, RunSteps
<1>4. CASE UploadFails(d)
  BY <1>4, FaultBound DEF UploadFails, Fault, TypeOK
<1> QED BY <1>1, <1>2, <1>3, <1>4 DEF UploadStep

\* The steps of a run and its webhook keep the types.
LEMMA TypeRun ==
  ASSUME RowInv, NEW r \in Runs, RunStep(r)
  PROVE  TypeOK'
<1> USE DEF RowInv, rows, stores, sessions, Goto
<1>0. /\ r \in Procs
      /\ pc[r] # "idle" => target[r] \in Docs
      /\ st[r] \in State
  BY DEF Procs, TargetInv, Known, TypeOK
<1>1. CASE RunLoad(r)
  BY <1>1 DEF RunLoad, TypeOK, Steps, RunSteps
<1>2. CASE RunStart(r)
  <2>1. WithInput(ckpt[target[r]]) \in State
    BY <1>0, <1>2, NodeTypes DEF RunStart, TypeOK
  <2> QED BY <1>2, <2>1 DEF RunStart, Checkpointed, TypeOK, Steps, RunSteps
<1>3. CASE GraphStep(r)
  <2> DEFINE Moved(s, next) ==
        /\ pc' = [pc EXCEPT ![r] = next]
        /\ st' = [st EXCEPT ![r] = s]
        /\ ckpt' = [ckpt EXCEPT ![target[r]] = s]
        /\ UNCHANGED <<rows, blob, vectors, flagged, upload, target, sessions, faults>>
  <2>1. ASSUME NEW s \in State, NEW next \in RunSteps, Moved(s, next)
        PROVE  TypeOK'
    BY <2>1 DEF TypeOK, Steps
  <2>2. ASSUME NEW node, NEW s, NEW next, RunNode(r, node, s, next)
        PROVE  Moved(s, next) /\ pc[r] = node
    BY <2>2 DEF RunNode, Checkpointed
  <2> HIDE DEF Moved
  <2>3. CASE RunParse(r)
    <3>1. PICK out \in Parses : RunNode(r, "parse", ParseNode(st[r], out), "guardrail")
      BY <2>3, Outcomes DEF RunParse
    <3>2. ParseNode(st[r], out) \in State /\ "guardrail" \in RunSteps
      BY <1>0, NodeTypes DEF RunSteps
    <3> QED BY <2>1, <2>2, <3>1, <3>2
  <2>4. CASE RunGuardrail(r)
    <3>1. GuardrailNode(st[r]) \in State /\ "extract" \in RunSteps
      BY <1>0, NodeTypes DEF RunSteps
    <3> QED BY <2>1, <2>2, <2>4, <3>1 DEF RunGuardrail
  <2>5. CASE RunExtract(r)
    <3>1. PICK out \in Extractions : RunNode(r, "extract", ExtractNode(st[r], out), "score")
      BY <2>5, Outcomes DEF RunExtract
    <3>2. ExtractNode(st[r], out) \in State /\ "score" \in RunSteps
      BY <1>0, NodeTypes DEF RunSteps
    <3> QED BY <2>1, <2>2, <3>1, <3>2
  <2>6. CASE RunScore(r)
    <3>1. PICK level \in Levels : RunNode(r, "score", ScoreNode(st[r], level), "route")
      BY <2>6 DEF RunScore
    <3>2. ScoreNode(st[r], level) \in State /\ "route" \in RunSteps
      BY <1>0, NodeTypes DEF RunSteps
    <3> QED BY <2>1, <2>2, <3>1, <3>2
  <2>7. CASE RunRoute(r)
    <3>1. RouteNode(st[r]) \in State
      BY <1>0, NodeTypes
    <3>2. Branch[RouteLevel(RouteNode(st[r]))] \in RunSteps
      BY <1>0, NodeTypes DEF Branch, RunSteps, Levels
    <3> QED BY <2>1, <2>2, <2>7, <3>1, <3>2 DEF RunRoute, RouteDecision
  <2>8. CASE RunTerminal(r)
    <3>1. PICK branch \in {"deliver", "review", "dlq"} :
            RunNode(r, branch, TerminalNode(branch, st[r]), "outcome")
      BY <2>8 DEF RunTerminal
    <3>2. TerminalNode(branch, st[r]) \in State /\ "outcome" \in RunSteps
      BY <1>0, NodeTypes DEF RunSteps
    <3> QED BY <2>1, <2>2, <3>1, <3>2
  <2> QED BY <1>3, <2>3, <2>4, <2>5, <2>6, <2>7, <2>8 DEF GraphStep
<1>4. CASE PersistRead(r)
  BY <1>0, <1>4 DEF PersistRead, AfterPersist, TypeOK, Steps, RunSteps
<1>5. CASE PersistCommit(r)
  <2>1. Outcome(r) \in DocStatuses \ {"absent"}
    BY DEF Outcome, Terminal, DocStatuses
  <2>2. PICK touched \in BOOLEAN :
          \/ PersistRows(r, touched) /\ pc' = [pc EXCEPT ![r] = AfterPersist(r)]
          \/ pc' = [pc EXCEPT ![r] = "done"] /\ UNCHANGED <<doc, result, review, entry>>
    BY <1>5 DEF PersistCommit
  <2>3. AfterPersist(r) \in Steps
    BY DEF AfterPersist, Steps, RunSteps
  <2>4. CASE PersistRows(r, touched)
    <3>1. doc' \in [Docs -> [status : DocStatuses, version : Nat]]
      BY <1>0, <1>5, <2>1, <2>4 DEF PersistCommit, PersistRows, Updated, TypeOK
    <3>2. result' \in [Docs -> BOOLEAN]
      BY <2>4 DEF PersistRows, Extracted, TypeOK
    <3>3. review' \in [Docs -> [status : ReviewStatuses, version : Nat]]
      BY <2>4 DEF PersistRows, TypeOK, ReviewStatuses
    <3>4. entry' \in [Entries -> [status : {"free", "pending", "retrying", "deleted"},
                                  doc    : Docs \cup {NoDoc}]]
      <4>1. CASE Outcome(r) \in {"rejected", "error"}
        BY <1>0, <1>5, <2>4, <4>1 DEF PersistCommit, PersistRows, Bury, TypeOK
      <4>2. CASE Outcome(r) \notin {"rejected", "error"}
        BY <2>4, <4>2 DEF PersistRows, TypeOK
      <4> QED BY <4>1, <4>2
    <3> QED BY <1>5, <2>2, <2>3, <3>1, <3>2, <3>3, <3>4 DEF PersistCommit, TypeOK, Steps
  <2> QED BY <1>5, <2>2, <2>4 DEF PersistCommit, TypeOK, Steps
<1>6. CASE HookBegin(r)
  BY <1>6 DEF HookBegin, TypeOK, Steps, RunSteps
<1>7. CASE HookDelivered(r)
  BY <1>7 DEF HookDelivered, TypeOK, Steps
<1>8. CASE HookExhausted(r)
  BY <1>0, <1>8 DEF HookExhausted, Bury, TypeOK, Steps
<1> QED BY <1>1, <1>2, <1>3, <1>4, <1>5, <1>6, <1>7, <1>8 DEF RunStep

\* So do the steps of an erasure,
LEMMA TypeErase ==
  ASSUME RowInv, NEW x \in Erasures,
         EraseStep(x) \/ \E d \in Docs : EraseCancel(x, d)
  PROVE  TypeOK'
<1> USE DEF RowInv, rows, stores, sessions, Goto, Steps
<1>0. x \in Procs /\ (pc[x] # "idle" => target[x] \in Docs)
  BY DEF Procs, TargetInv, Known
<1>1. CASE EraseRead(x)
  BY <1>0, <1>1 DEF EraseRead, TypeOK
<1>2. CASE EraseMark(x)
  <2>1. doc' \in [Docs -> [status : DocStatuses, version : Nat]]
    <3>1. doc' = doc \/ doc' = [doc EXCEPT ![target[x]] = Updated(doc[target[x]], "cancelled")]
      BY <1>2 DEF EraseMark
    <3>2. doc[target[x]] \in [status : DocStatuses, version : Nat] /\ "cancelled" \in DocStatuses
      BY <1>0, <1>2 DEF EraseMark, TypeOK, DocStatuses
    <3>3. Updated(doc[target[x]], "cancelled") \in [status : DocStatuses, version : Nat]
      BY <3>2, RowUpdates
    <3> QED BY <3>1, <3>3 DEF TypeOK
  <2>2. pc' \in [Procs -> Steps]
    BY <1>2 DEF EraseMark, TypeOK
  <2> QED BY <1>2, <2>1, <2>2 DEF EraseMark, TypeOK
<1>3. CASE EraseBlob(x)
  <2>1. blob' = blob \/ blob' = [blob EXCEPT ![target[x]] = FALSE]
    BY <1>3 DEF EraseBlob
  <2>2. blob' \in [Docs -> BOOLEAN]
    BY <2>1 DEF TypeOK
  <2>3. faults' \in Nat
    BY <1>3 DEF EraseBlob, Fault, TypeOK
  <2> QED BY <1>3, <2>2, <2>3 DEF EraseBlob, TypeOK
<1>4. CASE EraseVectors(x)
  <2>1. vectors' = vectors \/ vectors' = [vectors EXCEPT ![target[x]] = FALSE]
    BY <1>4 DEF EraseVectors
  <2>2. vectors' \in [Docs -> BOOLEAN]
    BY <2>1 DEF TypeOK
  <2>3. faults' \in Nat
    BY <1>4 DEF EraseVectors, Fault, TypeOK
  <2> QED BY <1>4, <2>2, <2>3 DEF EraseVectors, TypeOK
<1>5. CASE ErasePurge(x)
  BY <1>5, NodeTypes DEF ErasePurge, TypeOK
<1>6. CASE EraseRows(x)
  <2>0. target[x] \in Docs
    BY <1>0, <1>6 DEF EraseRows
  <2>1. doc' \in [Docs -> [status : DocStatuses, version : Nat]]
    <3>1. doc[target[x]] \in [status : DocStatuses, version : Nat] /\ "absent" \in DocStatuses
      BY <2>0 DEF TypeOK, DocStatuses
    <3>2. [doc[target[x]] EXCEPT !.status = "absent"] \in [status : DocStatuses, version : Nat]
      BY <3>1, RowUpdates
    <3>3. doc' = [doc EXCEPT ![target[x]] = [doc[target[x]] EXCEPT !.status = "absent"]]
      BY <1>6 DEF EraseRows
    <3> QED BY <3>2, <3>3 DEF TypeOK
  <2>2. review' \in [Docs -> [status : ReviewStatuses, version : Nat]]
    <3>1. review[target[x]] \in [status : ReviewStatuses, version : Nat] /\ "absent" \in ReviewStatuses
      BY <2>0 DEF TypeOK, ReviewStatuses
    <3>2. [review[target[x]] EXCEPT !.status = "absent"] \in [status : ReviewStatuses, version : Nat]
      BY <3>1, RowUpdates
    <3>3. review' = [review EXCEPT ![target[x]] = [review[target[x]] EXCEPT !.status = "absent"]]
      BY <1>6 DEF EraseRows
    <3> QED BY <3>2, <3>3 DEF TypeOK
  <2>3. entry' \in [Entries -> [status : {"free", "pending", "retrying", "deleted"},
                                doc    : Docs \cup {NoDoc}]]
    <3>1. \A e \in Entries : [entry[e] EXCEPT !.status = "deleted"] \in
            [status : {"free", "pending", "retrying", "deleted"}, doc : Docs \cup {NoDoc}]
      BY DEF TypeOK
    <3> QED BY <1>6, <3>1 DEF EraseRows, TypeOK
  <2>4. result' \in [Docs -> BOOLEAN] /\ tombstones' \in [Docs -> Nat]
    <3>1. result' = [result EXCEPT ![target[x]] = FALSE]
      BY <1>6 DEF EraseRows
    <3>2. result' \in [Docs -> BOOLEAN]
      BY <3>1 DEF TypeOK
    <3>3. tombstones' \in [Docs -> Nat]
      BY <1>0, <1>6 DEF EraseRows, TypeOK
    <3> QED BY <3>2, <3>3
  <2> QED BY <1>6, <2>1, <2>2, <2>3, <2>4 DEF EraseRows, TypeOK
<1>7. ASSUME NEW d \in Docs, EraseCancel(x, d)
      PROVE  TypeOK'
  BY <1>7 DEF EraseCancel, TypeOK
<1> QED BY <1>1, <1>2, <1>3, <1>4, <1>5, <1>6, <1>7 DEF EraseStep

\* of a retry,
LEMMA TypeRetry ==
  ASSUME RowInv, NEW q \in Retries,
         RetryStep(q) \/ \E e \in Entries : RetryRead(q, e)
  PROVE  TypeOK'
<1> USE DEF RowInv, rows, stores, sessions, Goto, Steps
<1>0. q \in Procs /\ (pc[q] # "idle" => target[q] \in Docs /\ held[q] \in Entries)
  BY DEF Procs, TargetInv, EntryInv, Known
<1>1. CASE RetryEnqueue(q)
  <2>1. PICK r \in Runs :
          /\ pc' = [[pc EXCEPT ![q] = "commit"] EXCEPT ![r] = "queued"]
          /\ target' = [target EXCEPT ![r] = target[q]]
    BY <1>1 DEF RetryEnqueue, Enqueue
  <2>2. pc' \in [Procs -> Steps] /\ target' \in [Procs -> Docs \cup {NoDoc}]
    BY <1>0, <1>1, <2>1 DEF RetryEnqueue, TypeOK, RunSteps
  <2>3. seen' \in [Procs -> [status : DocStatuses, version : Nat]]
    BY <1>0, <1>1 DEF RetryEnqueue, TypeOK
  <2> QED BY <1>1, <2>2, <2>3 DEF RetryEnqueue, TypeOK
<1>2. CASE RetryCommit(q)
  <2>1. doc' \in [Docs -> [status : DocStatuses, version : Nat]]
    <3>1. doc' = doc \/ doc' = [doc EXCEPT ![target[q]] = Updated(doc[target[q]], "pending")]
      BY <1>2 DEF RetryCommit
    <3>2. doc[target[q]] \in [status : DocStatuses, version : Nat] /\ "pending" \in DocStatuses
      BY <1>0, <1>2 DEF RetryCommit, TypeOK, DocStatuses
    <3>3. Updated(doc[target[q]], "pending") \in [status : DocStatuses, version : Nat]
      BY <3>2, RowUpdates
    <3> QED BY <3>1, <3>3 DEF TypeOK
  <2>2. entry' \in [Entries -> [status : {"free", "pending", "retrying", "deleted"},
                                doc    : Docs \cup {NoDoc}]]
    <3>1. entry' = entry \/ entry' = [entry EXCEPT ![held[q]].status = "retrying"]
      BY <1>2 DEF RetryCommit
    <3>2. [entry[held[q]] EXCEPT !.status = "retrying"] \in
            [status : {"free", "pending", "retrying", "deleted"}, doc : Docs \cup {NoDoc}]
      <4>1. held[q] \in Entries
        BY <1>0, <1>2 DEF RetryCommit
      <4> QED BY <4>1 DEF TypeOK
    <3> QED BY <3>1, <3>2 DEF TypeOK
  <2> QED BY <1>2, <2>1, <2>2 DEF RetryCommit, TypeOK
<1>3. ASSUME NEW e \in Entries, RetryRead(q, e)
      PROVE  TypeOK'
  BY <1>3 DEF RetryRead, TypeOK
<1> QED BY <1>1, <1>2, <1>3 DEF RetryStep

\* of a reviewer,
LEMMA TypeReview ==
  ASSUME RowInv, NEW a \in Reviewers,
         ReviewStep(a) \/ \E d \in Docs, action \in Actions : ReviewRead(a, d, action)
  PROVE  TypeOK'
<1> USE DEF RowInv, rows, stores, sessions, Goto, Steps
<1>0. a \in Procs /\ (pc[a] # "idle" => target[a] \in Docs)
  BY DEF Procs, TargetInv, Known
<1>1. CASE ReviewLoad(a)
  BY <1>0, <1>1 DEF ReviewLoad, TypeOK, RunSteps
<1>2. CASE ReviewWriteBack(a)
  <2>1. vectors' = vectors \/ vectors' = [vectors EXCEPT ![target[a]] = TRUE]
    BY <1>2 DEF ReviewWriteBack
  <2>2. vectors' \in [Docs -> BOOLEAN]
    BY <2>1 DEF TypeOK
  <2>3. faults' \in Nat
    BY <1>2 DEF ReviewWriteBack, Fault, TypeOK
  <2> QED BY <1>2, <2>2, <2>3 DEF ReviewWriteBack, TypeOK, RunSteps
<1>3. CASE ReviewCommit(a)
  <2>1. ReviewOutcome[act[a]] \in ReviewStatuses
    BY DEF ReviewOutcome, ReviewStatuses, Actions, TypeOK
  <2>2. ReviewedStatus(act[a]) \in DocStatuses
    BY DEF ReviewedStatus, DocStatuses
  <2>3. doc' \in [Docs -> [status : DocStatuses, version : Nat]]
    <3>1. \/ doc' = doc
          \/ doc' = [doc EXCEPT ![target[a]] =
                       Updated(doc[target[a]], ReviewedStatus(act[a]))]
      BY <1>3 DEF ReviewCommit
    <3>2. doc[target[a]] \in [status : DocStatuses, version : Nat]
      BY <1>0, <1>3 DEF ReviewCommit, TypeOK
    <3>3. Updated(doc[target[a]], ReviewedStatus(act[a])) \in [status : DocStatuses, version : Nat]
      BY <2>2, <3>2, RowUpdates
    <3> QED BY <3>1, <3>3 DEF TypeOK
  <2>4. review' \in [Docs -> [status : ReviewStatuses, version : Nat]]
    <3>1. \/ review' = review
          \/ review' = [review EXCEPT ![target[a]] =
                          Updated(review[target[a]], ReviewOutcome[act[a]])]
      BY <1>3 DEF ReviewCommit
    <3>2. review[target[a]] \in [status : ReviewStatuses, version : Nat]
      BY <1>0, <1>3 DEF ReviewCommit, TypeOK
    <3>3. Updated(review[target[a]], ReviewOutcome[act[a]]) \in [status : ReviewStatuses, version : Nat]
      BY <2>1, <3>2, RowUpdates
    <3> QED BY <3>1, <3>3 DEF TypeOK
  <2> QED BY <1>3, <2>3, <2>4 DEF ReviewCommit, TypeOK
<1>4. ASSUME NEW d \in Docs, NEW action \in Actions, ReviewRead(a, d, action)
      PROVE  TypeOK'
  BY <1>0, <1>4 DEF ReviewRead, TypeOK
<1> QED BY <1>1, <1>2, <1>3, <1>4 DEF ReviewStep

\* and a crash or a rolled-back transaction.
LEMMA TypeFault ==
  ASSUME RowInv, Crash \/ \E p \in Procs : Abort(p)
  PROVE  TypeOK'
<1> USE DEF RowInv, rows, stores, sessions, Goto, Steps
<1>1. CASE Crash
  BY <1>1, FaultBound DEF Crash, Fault, TypeOK, UploadSteps
<1>2. ASSUME NEW p \in Procs, Abort(p)
      PROVE  TypeOK'
  BY <1>2, FaultBound DEF Abort, Fault, TypeOK
<1> QED BY <1>1, <1>2

-----------------------------------------------------------------------------
(* The rest of RowInv *)

\* A step of one task that writes no row, starts nothing and holds nothing new.
LEMMA RowQuiet ==
  ASSUME RowInv, TypeOK', NEW p \in Procs, NEW step, pc[p] # "idle",
         pc' = [pc EXCEPT ![p] = step],
         UNCHANGED <<rows, upload, target, held>>
  PROVE  RowInv'
<1> USE DEF RowInv, rows
<1>1. UploadInv' /\ RowsNeedDocument'
  BY DEF UploadInv, RowsNeedDocument
<1>2. \A x \in Procs : pc'[x] # "idle" => pc[x] # "idle"
  BY DEF TypeOK
<1>3. TargetInv'
  BY <1>2 DEF TargetInv, Known
<1>4. EntryInv'
  BY <1>2 DEF EntryInv, Known, Procs
<1> QED BY <1>1, <1>3, <1>4

\* An upload leaves no row without its document.
LEMMA RowUpload ==
  ASSUME RowInv, NEW d \in Docs, UploadStep(d) \/ UploadFails(d)
  PROVE  RowInv'
<1> USE DEF RowInv, rows, stores, sessions
<1>0. TypeOK'
  BY TypeUpload
<1>1. CASE UploadSave(d) \/ UploadFails(d)
  <2>1. UploadInv'
    BY <1>1 DEF UploadSave, UploadFails, UploadInv, TypeOK
  <2>2. TargetInv' /\ EntryInv' /\ RowsNeedDocument'
    BY <1>1 DEF UploadSave, UploadFails, TargetInv, EntryInv, RowsNeedDocument, Known
  <2> QED BY <1>0, <2>1, <2>2
<1>2. CASE UploadCommit(d)
  <2>0. doc' = [doc EXCEPT ![d] = [status |-> "pending", version |-> 2]]
    BY <1>2 DEF UploadCommit
  <2>1. \A c \in Docs : (c = d /\ doc'[c] = [status |-> "pending", version |-> 2])
                          \/ (c # d /\ doc'[c] = doc[c])
    BY <2>0 DEF TypeOK
  <2>2. UploadInv'
    BY <1>2, <2>1 DEF UploadCommit, UploadInv, TypeOK
  <2>3. TargetInv' /\ EntryInv'
    BY <1>2, <2>1 DEF UploadCommit, TargetInv, EntryInv, Known
  <2>4. RowsNeedDocument'
    BY <1>2, <2>1 DEF UploadCommit, RowsNeedDocument, Exists
  <2> QED BY <1>0, <2>2, <2>3, <2>4
<1>3. CASE UploadEnqueue(d)
  <2>1. PICK r \in Runs : /\ pc' = [pc EXCEPT ![r] = "queued"]
                          /\ target' = [target EXCEPT ![r] = d]
    BY <1>3 DEF UploadEnqueue, Enqueue
  <2>2. UploadInv' /\ RowsNeedDocument'
    BY <1>3 DEF UploadEnqueue, UploadInv, RowsNeedDocument, TypeOK
  <2>3. Known(d)
    BY <1>3 DEF UploadEnqueue, UploadInv, Known
  <2>4. TargetInv'
    BY <1>3, <2>1, <2>3 DEF UploadEnqueue, TargetInv, Known, TypeOK, Procs
  <2>5. \A q \in Retries : pc'[q] = pc[q] /\ target'[q] = target[q]
    BY <2>1, Disjoint DEF TypeOK, Procs
  <2>6. EntryInv'
    BY <1>3, <2>5 DEF UploadEnqueue, EntryInv, Known
  <2> QED BY <1>0, <2>2, <2>4, <2>6
<1> QED BY <1>1, <1>2, <1>3 DEF UploadStep

\* A dead letter is written for a known document.
LEMMA RowBury ==
  ASSUME RowInv, NEW d \in Docs, Exists(doc[d]), Bury(d)
  PROVE  /\ \A e \in Entries : entry'[e] = entry[e] \/ (entry[e].status = "free" /\ entry'[e] = [status |-> "pending", doc |-> d])
         /\ Known(d)
<1> USE DEF RowInv
<1>1. Known(d)
  BY DEF UploadInv, Known, Exists, NoRow
<1>2. PICK e \in Entries : /\ entry[e].status = "free"
                           /\ entry' = [entry EXCEPT ![e] = [status |-> "pending", doc |-> d]]
  BY DEF Bury
<1> QED BY <1>1, <1>2 DEF TypeOK

\* Nor does a run, whose rows are written only if the document is there.
LEMMA RowRun ==
  ASSUME RowInv, NEW r \in Runs, RunStep(r)
  PROVE  RowInv'
<1> USE DEF RowInv, rows, stores, sessions, Goto
<1>0. /\ TypeOK'
      /\ r \in Procs
      /\ \A q \in Retries : q # r /\ q \in Procs
  BY TypeRun, Disjoint DEF Procs
<1>1. CASE RunLoad(r) \/ RunStart(r) \/ GraphStep(r) \/ PersistRead(r) \/ HookBegin(r)
             \/ HookDelivered(r)
  <2>1. /\ pc[r] # "idle"
        /\ UNCHANGED <<rows, upload, target, held>>
        /\ \E step : pc' = [pc EXCEPT ![r] = step]
    BY <1>1 DEF RunLoad, RunStart, GraphStep, RunNode, RunParse, RunGuardrail, RunExtract,
       RunScore, RunRoute, RunTerminal, PersistRead, HookBegin, HookDelivered
  <2> QED BY <1>0, <2>1, RowQuiet
<1>2. CASE PersistCommit(r) \/ HookExhausted(r)
  <2>0. PICK d : d = target[r]
    OBVIOUS
  <2>1. PICK step : pc' = [pc EXCEPT ![r] = step]
    BY <1>2 DEF PersistCommit, HookExhausted
  <2>2. \A p \in Procs : pc'[p] # "idle" => pc[p] # "idle"
    BY <1>2, <2>1 DEF PersistCommit, HookExhausted, TypeOK
  <2>3. d \in Docs
    BY <1>0, <1>2, <2>0 DEF TargetInv, Known, PersistCommit, HookExhausted
  <2>4. \/ UNCHANGED <<doc, result, review, entry>>
        \/ /\ Exists(doc[d])
           /\ doc' = doc \/ doc' = [doc EXCEPT ![d] = Updated(doc[d], Outcome(r))]
           /\ \A c \in Docs : c # d => result'[c] = result[c] /\ review'[c] = review[c]
           /\ UNCHANGED entry \/ Bury(d)
    BY <1>2, <2>0 DEF PersistCommit, PersistRows, HookExhausted, TypeOK
  <2>5. CASE UNCHANGED <<doc, result, review, entry>>
    <3>1. UNCHANGED <<rows, upload, target, held>> /\ pc[r] # "idle"
      BY <1>2, <2>5 DEF PersistCommit, HookExhausted
    <3> QED BY <1>0, <2>1, <3>1, RowQuiet
  <2>6. CASE /\ Exists(doc[d])
             /\ doc' = doc \/ doc' = [doc EXCEPT ![d] = Updated(doc[d], Outcome(r))]
             /\ \A c \in Docs : c # d => result'[c] = result[c] /\ review'[c] = review[c]
             /\ UNCHANGED entry \/ Bury(d)
    <3>1. Exists(doc'[d])
      <4>1. Exists(Updated(doc[d], Outcome(r)))
        BY DEF Exists, Updated, Outcome, Terminal
      <4>2. CASE doc' = doc
        BY <2>6, <4>2
      <4>3. CASE doc' = [doc EXCEPT ![d] = Updated(doc[d], Outcome(r))]
        BY <2>3, <4>1, <4>3 DEF TypeOK
      <4> QED BY <2>6, <4>2, <4>3
    <3>2. \A c \in Docs : /\ c # d => doc'[c] = doc[c]
                          /\ doc'[c].version >= doc[c].version
      <4>1. doc[d].version \in Nat /\ Updated(doc[d], Outcome(r)).version = doc[d].version + 1
        BY <2>3 DEF TypeOK, Updated
      <4>2. CASE doc' = doc
        BY <4>2 DEF TypeOK
      <4>3. CASE doc' = [doc EXCEPT ![d] = Updated(doc[d], Outcome(r))]
        BY <2>3, <4>1, <4>3 DEF TypeOK
      <4> QED BY <2>6, <4>2, <4>3
    <3>3. \A e \in Entries :
            \/ entry'[e] = entry[e]
            \/ /\ entry[e].status = "free"
               /\ entry'[e] = [status |-> "pending", doc |-> d]
      BY <2>3, <2>6, RowBury
    <3>4. Known(d) /\ Known(d)'
      BY <1>0, <2>3, <2>6, <3>2 DEF Known, UploadInv, Exists, NoRow, TypeOK
    <3>5. \A c : Known(c) => Known(c)'
      BY <1>0, <3>2 DEF Known, TypeOK
    <3>6. UNCHANGED <<upload, target, held>>
      BY <1>2 DEF PersistCommit, HookExhausted
    <3>7. UploadInv'
      <4>1. \A c \in Docs : c # d => doc'[c] = doc[c]
        BY <3>2
      <4>2. upload[d] \notin {"none", "saved", "failed"}
        BY <2>3, <3>4 DEF UploadInv, Known, NoRow
      <4> QED BY <2>3, <3>4, <3>6, <4>1, <4>2 DEF UploadInv, Known
    <3>8. TargetInv'
      BY <2>2, <3>5, <3>6 DEF TargetInv
    <3>9. EntryInv'
      <4>1. \A e \in Entries : entry'[e].status # "free" => Known(entry[e].doc)'
        BY <3>3, <3>4, <3>5 DEF EntryInv
      <4>2. \A q \in Retries : pc'[q] # "idle" => pc[q] # "idle"
        BY <1>0, <2>2
      <4>3. \A e \in Entries : entry[e].status # "free" => entry'[e] = entry[e]
        BY <3>3
      <4> QED BY <3>6, <4>1, <4>2, <4>3 DEF EntryInv
    <3>10. RowsNeedDocument'
      <4> SUFFICES ASSUME NEW c \in Docs, ~ Exists(doc'[c])
                   PROVE  /\ ~ result'[c]
                          /\ ~ Exists(review'[c])
                          /\ \A e \in Entries : entry'[e].doc = c => entry'[e].status = "deleted"
        BY DEF RowsNeedDocument
      <4>1. c # d /\ ~ Exists(doc[c])
        BY <3>1, <3>2
      <4>2. ~ result'[c] /\ ~ Exists(review'[c])
        BY <2>6, <4>1 DEF RowsNeedDocument
      <4>3. ASSUME NEW e \in Entries, entry'[e].doc = c
            PROVE  entry'[e].status = "deleted"
        BY <3>3, <4>1, <4>3 DEF RowsNeedDocument
      <4> QED BY <4>2, <4>3
    <3> QED BY <1>0, <3>7, <3>8, <3>9, <3>10
  <2> QED BY <2>4, <2>5, <2>6
<1> QED BY <1>1, <1>2 DEF RunStep

\* What the remaining writes of documents, and of rows made from it, have in
\* common: they write no row of a document that has none.
LEMMA RowWrite ==
  ASSUME RowInv, TypeOK', NEW p \in Procs, NEW step, pc[p] # "idle",
         pc' = [pc EXCEPT ![p] = step],
         UNCHANGED <<upload, target, held, result>>,
         \A c \in Docs : /\ doc'[c].version >= doc[c].version
                         /\ ~ Exists(doc[c]) => doc'[c] = doc[c] /\ review'[c] = review[c]
                         /\ Exists(doc[c]) => Exists(doc'[c]),
         \A e \in Entries : /\ entry'[e].doc = entry[e].doc
                            /\ (entry'[e].status = "free") = (entry[e].status = "free")
                            /\ entry[e].status = "deleted" => entry'[e].status = "deleted"
  PROVE  RowInv'
<1> USE DEF RowInv
<1>1. \A x \in Procs : pc'[x] # "idle" => pc[x] # "idle"
  BY DEF TypeOK
<1>2. \A c : Known(c) => Known(c)'
  BY DEF Known, TypeOK
<1>3. UploadInv'
  <2> SUFFICES ASSUME NEW c \in Docs
               PROVE  IF upload'[c] \in {"none", "saved", "failed"}
                        THEN doc'[c] = NoRow ELSE doc'[c].version > 0
    BY DEF UploadInv
  <2>1. CASE upload[c] \in {"none", "saved", "failed"}
    BY <2>1 DEF UploadInv, Exists, NoRow
  <2>2. CASE upload[c] \notin {"none", "saved", "failed"}
    <3>1. doc[c].version > 0
      BY <2>2 DEF UploadInv
    <3>2. Known(c)'
      BY <1>2, <3>1 DEF Known
    <3> QED BY <2>2, <3>2 DEF Known
  <2> QED BY <2>1, <2>2
<1>4. TargetInv'
  BY <1>1, <1>2 DEF TargetInv
<1>5. EntryInv'
  <2>1. \A e \in Entries : entry'[e].status # "free" => Known(entry[e].doc)'
    BY <1>2 DEF EntryInv
  <2>2. \A q \in Retries : pc'[q] # "idle" => pc[q] # "idle"
    BY <1>1 DEF Procs
  <2> QED BY <2>1, <2>2 DEF EntryInv
<1>6. RowsNeedDocument'
  BY DEF RowsNeedDocument
<1> QED BY <1>3, <1>4, <1>5, <1>6

\* Nor does an erasure, which cascades.
LEMMA RowErase ==
  ASSUME RowInv, NEW x \in Erasures,
         EraseStep(x) \/ \E d \in Docs : EraseCancel(x, d)
  PROVE  RowInv'
<1> USE DEF RowInv, rows, stores, sessions, Goto
<1>0. /\ TypeOK'
      /\ x \in Procs
      /\ \A q \in Retries : q # x /\ q \in Procs
  BY TypeErase, Disjoint DEF Procs
<1>1. CASE EraseRead(x) \/ EraseBlob(x) \/ EraseVectors(x) \/ ErasePurge(x)
  <2>1. /\ pc[x] # "idle"
        /\ UNCHANGED <<rows, upload, target, held>>
        /\ \E step : pc' = [pc EXCEPT ![x] = step]
    BY <1>1 DEF EraseRead, EraseBlob, EraseVectors, ErasePurge
  <2> QED BY <1>0, <2>1, RowQuiet
<1>2. CASE EraseMark(x)
  <2>0. PICK d : d = target[x]
    OBVIOUS
  <2>1. /\ pc[x] # "idle"
        /\ UNCHANGED <<upload, target, held, result, review, entry>>
        /\ \E step : pc' = [pc EXCEPT ![x] = step]
    BY <1>2 DEF EraseMark
  <2>2. d \in Docs
    BY <1>0, <2>0, <2>1 DEF TargetInv, Known
  <2>3. \/ doc' = doc
        \/ /\ ~ Stale(doc[d], seen[x])
           /\ doc' = [doc EXCEPT ![d] = Updated(doc[d], "cancelled")]
    BY <1>2, <2>0 DEF EraseMark
  <2>4. \A c \in Docs : /\ doc'[c].version >= doc[c].version
                        /\ ~ Exists(doc[c]) => doc'[c] = doc[c]
                        /\ Exists(doc[c]) => Exists(doc'[c])
    <3>1. CASE doc' = doc
      BY <3>1 DEF TypeOK
    <3>2. CASE /\ ~ Stale(doc[d], seen[x])
               /\ doc' = [doc EXCEPT ![d] = Updated(doc[d], "cancelled")]
      <4>1. Exists(doc[d]) /\ \A c \in Docs \ {d} : doc'[c] = doc[c]
        BY <2>2, <3>2 DEF Stale, TypeOK
      <4>2. doc'[d] = [status |-> "cancelled", version |-> doc[d].version + 1]
        BY <2>2, <3>2 DEF TypeOK, Updated
      <4>3. Exists(doc'[d]) /\ doc'[d].version >= doc[d].version
        BY <2>2, <4>2 DEF TypeOK, Exists
      <4> QED BY <4>1, <4>3 DEF TypeOK
    <3> QED BY <2>3, <3>1, <3>2
  <2> QED BY <1>0, <2>1, <2>4, RowWrite
<1>3. CASE EraseRows(x)
  <2>0. PICK d : d = target[x]
    OBVIOUS
  <2>1. d \in Docs
    BY <1>0, <1>3, <2>0 DEF EraseRows, TargetInv, Known
  <2>2. \A c \in Docs : /\ c # d => /\ doc'[c] = doc[c] /\ result'[c] = result[c]
                                    /\ review'[c] = review[c]
                        /\ doc'[c].version = doc[c].version
    <3>1. \A c \in Docs \ {d} : /\ doc'[c] = doc[c] /\ result'[c] = result[c]
                                /\ review'[c] = review[c]
      BY <1>3, <2>0 DEF EraseRows, TypeOK
    <3>2. doc'[d] = [doc[d] EXCEPT !.status = "absent"]
      BY <1>3, <2>0, <2>1 DEF EraseRows, TypeOK
    <3>3. doc'[d].version = doc[d].version
      BY <2>1, <3>2 DEF TypeOK
    <3> QED BY <3>1, <3>3
  <2>3. ~ result'[d] /\ ~ Exists(review'[d]) /\ ~ Exists(doc'[d])
    BY <1>3, <2>0, <2>1 DEF EraseRows, Exists, TypeOK
  <2>4. \A e \in Entries : entry'[e] = IF entry[e].doc = d
                                         THEN [entry[e] EXCEPT !.status = "deleted"]
                                         ELSE entry[e]
    BY <1>3, <2>0 DEF EraseRows
  <2>5. \A e \in Entries :
          /\ entry'[e].doc = entry[e].doc
          /\ entry[e].doc = d => entry'[e].status = "deleted"
          /\ entry[e].doc # d => entry'[e] = entry[e]
    BY <2>4 DEF TypeOK
  <2>6. UNCHANGED <<upload, target, held>> /\ \A p \in Procs : pc'[p] # "idle" => pc[p] # "idle"
    BY <1>3 DEF EraseRows, TypeOK
  <2>7. \A c : Known(c) => Known(c)'
    BY <2>2 DEF Known
  <2>8. Known(d)
    BY <1>0, <1>3, <2>0 DEF EraseRows, TargetInv
  <2>9. UploadInv'
    <3>1. upload[d] \notin {"none", "saved", "failed"}
      BY <2>1, <2>8 DEF UploadInv, Known, NoRow
    <3> QED BY <2>2, <2>6, <2>7, <2>8, <3>1 DEF UploadInv, Known
  <2>10. TargetInv'
    BY <2>6, <2>7 DEF TargetInv
  <2>11. EntryInv'
    <3>1. \A e \in Entries : entry'[e].status # "free" => Known(entry[e].doc)'
      BY <2>5, <2>7, <2>8 DEF EntryInv
    <3>2. \A e \in Entries : entry[e].status # "free" => entry'[e].status # "free"
      BY <2>5
    <3>3. \A q \in Retries : pc'[q] # "idle" => pc[q] # "idle"
      BY <1>0, <2>6
    <3> QED BY <2>5, <2>6, <3>1, <3>2, <3>3 DEF EntryInv
  <2>12. RowsNeedDocument'
    BY <2>2, <2>3, <2>5 DEF RowsNeedDocument
  <2> QED BY <1>0, <2>9, <2>10, <2>11, <2>12
<1>4. ASSUME NEW d \in Docs, EraseCancel(x, d)
      PROVE  RowInv'
  <2>1. UploadInv' /\ RowsNeedDocument'
    BY <1>4 DEF EraseCancel, UploadInv, RowsNeedDocument
  <2>2. Known(d)
    BY <1>4 DEF EraseCancel, UploadInv, Known
  <2>3. TargetInv'
    BY <1>0, <1>4, <2>2 DEF EraseCancel, TargetInv, Known, TypeOK
  <2>4. \A q \in Retries : pc'[q] = pc[q] /\ target'[q] = target[q]
    BY <1>0, <1>4 DEF EraseCancel, TypeOK
  <2>5. EntryInv'
    BY <1>4, <2>4 DEF EraseCancel, EntryInv, Known
  <2> QED BY <1>0, <2>1, <2>3, <2>5
<1> QED BY <1>1, <1>2, <1>3, <1>4 DEF EraseStep

\* Nor does a retry.
LEMMA RowRetry ==
  ASSUME RowInv, NEW q \in Retries,
         RetryStep(q) \/ \E e \in Entries : RetryRead(q, e)
  PROVE  RowInv'
<1> USE DEF RowInv, rows, stores, sessions, Goto
<1>0. TypeOK' /\ q \in Procs
  BY TypeRetry DEF Procs
<1>1. CASE RetryEnqueue(q)
  <2>1. PICK r \in Runs :
          /\ pc[r] = "idle"
          /\ pc' = [[pc EXCEPT ![q] = "commit"] EXCEPT ![r] = "queued"]
          /\ target' = [target EXCEPT ![r] = target[q]]
    BY <1>1 DEF RetryEnqueue, Enqueue
  <2>2. r # q /\ r \in Procs /\ \A p \in Retries : p # r /\ p \in Procs
    BY Disjoint DEF Procs
  <2>3. UploadInv' /\ RowsNeedDocument'
    BY <1>1 DEF RetryEnqueue, UploadInv, RowsNeedDocument
  <2>4. Known(target[q]) /\ pc[q] # "idle"
    BY <1>0, <1>1 DEF RetryEnqueue, TargetInv
  <2>5. \A p \in Procs : \/ p = r /\ target'[p] = target[q]
                         \/ /\ target'[p] = target[p]
                            /\ pc'[p] # "idle" => pc[p] # "idle"
    BY <1>0, <2>1, <2>2, <2>4 DEF TypeOK
  <2>6. TargetInv'
    BY <1>1, <2>4, <2>5 DEF RetryEnqueue, TargetInv, Known
  <2>7. EntryInv'
    BY <1>1, <2>2, <2>5 DEF RetryEnqueue, EntryInv, Known
  <2> QED BY <1>0, <2>3, <2>6, <2>7
<1>2. CASE RetryCommit(q)
  <2>0. PICK d, e : d = target[q] /\ e = held[q]
    OBVIOUS
  <2>1. /\ pc[q] # "idle"
        /\ UNCHANGED <<upload, target, held, result, review>>
        /\ \E step : pc' = [pc EXCEPT ![q] = step]
    BY <1>2 DEF RetryCommit
  <2>2. d \in Docs /\ e \in Entries /\ entry[e].status # "free" /\ entry[e].doc = d
    BY <1>0, <2>0, <2>1 DEF TargetInv, EntryInv, Known
  <2>3. \/ UNCHANGED <<doc, entry>>
        \/ /\ entry[e].status # "deleted"
           /\ entry' = [entry EXCEPT ![e].status = "retrying"]
           /\ \/ doc' = doc
              \/ /\ ~ Stale(doc[d], seen[q])
                 /\ doc' = [doc EXCEPT ![d] = Updated(doc[d], "pending")]
    BY <1>2, <2>0 DEF RetryCommit
  <2>4. \A c \in Docs : /\ doc'[c].version >= doc[c].version
                        /\ ~ Exists(doc[c]) => doc'[c] = doc[c]
                        /\ Exists(doc[c]) => Exists(doc'[c])
    <3>1. CASE doc' = doc
      BY <3>1 DEF TypeOK
    <3>2. CASE /\ ~ Stale(doc[d], seen[q])
               /\ doc' = [doc EXCEPT ![d] = Updated(doc[d], "pending")]
      <4>1. Exists(doc[d]) /\ \A c \in Docs \ {d} : doc'[c] = doc[c]
        BY <2>2, <3>2 DEF Stale, TypeOK
      <4>2. doc'[d] = [status |-> "pending", version |-> doc[d].version + 1]
        BY <2>2, <3>2 DEF TypeOK, Updated
      <4>3. Exists(doc'[d]) /\ doc'[d].version >= doc[d].version
        BY <2>2, <4>2 DEF TypeOK, Exists
      <4> QED BY <4>1, <4>3 DEF TypeOK
    <3> QED BY <2>3, <3>1, <3>2
  <2>5. \A x \in Entries : /\ entry'[x].doc = entry[x].doc
                           /\ (entry'[x].status = "free") = (entry[x].status = "free")
                           /\ entry[x].status = "deleted" => entry'[x].status = "deleted"
    <3>1. CASE UNCHANGED <<doc, entry>>
      BY <3>1
    <3>2. CASE /\ entry[e].status # "deleted"
               /\ entry' = [entry EXCEPT ![e].status = "retrying"]
      <4>1. \A x \in Entries \ {e} : entry'[x] = entry[x]
        BY <2>2, <3>2 DEF TypeOK
      <4>2. entry'[e] = [entry[e] EXCEPT !.status = "retrying"]
        BY <2>2, <3>2 DEF TypeOK
      <4>3. entry'[e].doc = entry[e].doc /\ entry'[e].status = "retrying"
        BY <2>2, <4>2 DEF TypeOK
      <4> QED BY <2>2, <3>2, <4>1, <4>3
    <3> QED BY <2>3, <3>1, <3>2
  <2> QED BY <1>0, <2>1, <2>4, <2>5, RowWrite
<1>3. ASSUME NEW e \in Entries, RetryRead(q, e)
      PROVE  RowInv'
  <2>1. UploadInv' /\ RowsNeedDocument'
    BY <1>3 DEF RetryRead, UploadInv, RowsNeedDocument
  <2>2. Known(entry[e].doc)
    BY <1>3 DEF RetryRead, EntryInv
  <2>3. TargetInv'
    BY <1>0, <1>3, <2>2 DEF RetryRead, TargetInv, Known, TypeOK
  <2>4. EntryInv'
    <3>1. ASSUME NEW p \in Retries, pc'[p] # "idle"
          PROVE  /\ held'[p] \in Entries
                 /\ entry[held'[p]].status # "free"
                 /\ entry[held'[p]].doc = target'[p]
      <4>1. CASE p = q
        BY <1>0, <1>3, <4>1 DEF RetryRead, TypeOK
      <4>2. CASE p # q
        BY <1>0, <1>3, <3>1, <4>2 DEF RetryRead, TypeOK, EntryInv
      <4> QED BY <4>1, <4>2
    <3>2. \A x \in Entries : entry[x].status # "free" => Known(entry[x].doc)'
      BY <1>3 DEF RetryRead, EntryInv, Known
    <3>3. entry' = entry
      BY <1>3 DEF RetryRead
    <3> QED BY <3>1, <3>2, <3>3 DEF EntryInv
  <2> QED BY <1>0, <2>1, <2>3, <2>4
<1> QED BY <1>1, <1>2, <1>3 DEF RetryStep

\* Nor does a reviewer.
LEMMA RowReview ==
  ASSUME RowInv, NEW a \in Reviewers,
         ReviewStep(a) \/ \E d \in Docs, action \in Actions : ReviewRead(a, d, action)
  PROVE  RowInv'
<1> USE DEF RowInv, rows, stores, sessions, Goto
<1>0. /\ TypeOK'
      /\ a \in Procs
      /\ \A q \in Retries : q # a /\ q \in Procs
  BY TypeReview, Disjoint DEF Procs
<1>1. CASE ReviewLoad(a) \/ ReviewWriteBack(a)
  <2>1. /\ pc[a] # "idle"
        /\ UNCHANGED <<rows, upload, target, held>>
        /\ \E step : pc' = [pc EXCEPT ![a] = step]
    BY <1>1 DEF ReviewLoad, ReviewWriteBack
  <2> QED BY <1>0, <2>1, RowQuiet
<1>2. CASE ReviewCommit(a)
  <2>0. PICK d : d = target[a]
    OBVIOUS
  <2>1. /\ pc[a] # "idle"
        /\ UNCHANGED <<upload, target, held, result, entry>>
        /\ \E step : pc' = [pc EXCEPT ![a] = step]
    BY <1>2 DEF ReviewCommit
  <2>2. d \in Docs
    BY <1>0, <2>0, <2>1 DEF TargetInv, Known
  <2>3. /\ \/ doc' = doc
           \/ /\ ~ Stale(doc[d], seen[a])
              /\ doc' = [doc EXCEPT ![d] = Updated(doc[d], ReviewedStatus(act[a]))]
        /\ \/ review' = review
           \/ /\ ~ Stale(review[d], seenReview[a])
              /\ review' = [review EXCEPT ![d] = Updated(review[d], ReviewOutcome[act[a]])]
    BY <1>2, <2>0 DEF ReviewCommit
  <2>4. \A c \in Docs : /\ doc'[c].version >= doc[c].version
                        /\ ~ Exists(doc[c]) => doc'[c] = doc[c]
                        /\ Exists(doc[c]) => Exists(doc'[c])
    <3>1. CASE doc' = doc
      BY <3>1 DEF TypeOK
    <3>2. CASE /\ ~ Stale(doc[d], seen[a])
               /\ doc' = [doc EXCEPT ![d] = Updated(doc[d], ReviewedStatus(act[a]))]
      <4>1. Exists(doc[d]) /\ \A c \in Docs \ {d} : doc'[c] = doc[c]
        BY <2>2, <3>2 DEF Stale, TypeOK
      <4>2. doc'[d] = [status |-> ReviewedStatus(act[a]), version |-> doc[d].version + 1]
        BY <2>2, <3>2 DEF TypeOK, Updated
      <4>3. Exists(doc'[d]) /\ doc'[d].version >= doc[d].version
        BY <2>2, <4>2 DEF TypeOK, Exists, ReviewedStatus
      <4> QED BY <4>1, <4>3 DEF TypeOK
    <3> QED BY <2>3, <3>1, <3>2
  <2>5. \A c \in Docs : ~ Exists(doc[c]) => review'[c] = review[c]
    <3>1. CASE review' = review
      BY <3>1
    <3>2. CASE /\ ~ Stale(review[d], seenReview[a])
               /\ review' = [review EXCEPT ![d] = Updated(review[d], ReviewOutcome[act[a]])]
      <4>1. Exists(review[d]) /\ \A c \in Docs \ {d} : review'[c] = review[c]
        BY <2>2, <3>2 DEF Stale, TypeOK
      <4>2. Exists(doc[d])
        BY <2>2, <4>1 DEF RowsNeedDocument
      <4> QED BY <4>1, <4>2
    <3> QED BY <2>3, <3>1, <3>2
  <2>6. \A x \in Entries : entry'[x] = entry[x]
    BY <2>1
  <2> QED BY <1>0, <2>1, <2>4, <2>5, <2>6, RowWrite
<1>3. ASSUME NEW d \in Docs, NEW action \in Actions, ReviewRead(a, d, action)
      PROVE  RowInv'
  <2>1. UploadInv' /\ RowsNeedDocument'
    BY <1>3 DEF ReviewRead, UploadInv, RowsNeedDocument
  <2>2. Known(d)
    <3>1. Exists(doc[d])
      BY <1>3 DEF ReviewRead, RowsNeedDocument
    <3> QED BY <3>1 DEF UploadInv, Known, Exists, NoRow
  <2>3. TargetInv'
    BY <1>0, <1>3, <2>2 DEF ReviewRead, TargetInv, Known, TypeOK
  <2>4. \A q \in Retries : pc'[q] = pc[q] /\ target'[q] = target[q]
    BY <1>0, <1>3 DEF ReviewRead, TypeOK
  <2>5. EntryInv'
    BY <1>3, <2>4 DEF ReviewRead, EntryInv, Known
  <2> QED BY <1>0, <2>1, <2>3, <2>5
<1> QED BY <1>1, <1>2, <1>3 DEF ReviewStep

\* Nor does a crash or a rollback.
LEMMA RowFault ==
  ASSUME RowInv, Crash \/ \E p \in Procs : Abort(p)
  PROVE  RowInv'
<1> USE DEF RowInv, rows, stores, sessions, Goto
<1>0. TypeOK'
  BY TypeFault
<1>1. CASE Crash
  <2>1. UNCHANGED <<rows, target, held>> /\ \A p \in Procs : pc'[p] # "idle" => pc[p] # "idle"
    BY <1>1 DEF Crash
  <2>2. UploadInv'
    BY <1>1 DEF Crash, UploadInv
  <2>3. TargetInv' /\ EntryInv' /\ RowsNeedDocument'
    BY <2>1 DEF TargetInv, EntryInv, RowsNeedDocument, Known, Procs
  <2> QED BY <1>0, <2>2, <2>3
<1>2. ASSUME NEW p \in Procs, Abort(p)
      PROVE  RowInv'
  <2>1. pc[p] # "idle" /\ UNCHANGED <<rows, upload, target, held>> /\ pc' = [pc EXCEPT ![p] = "done"]
    BY <1>2 DEF Abort
  <2> QED BY <1>0, <2>1, RowQuiet
<1> QED BY <1>1, <1>2

\* RowInv is inductive.
LEMMA RowStep == RowInv /\ [Next]_vars => RowInv'
<1> SUFFICES ASSUME RowInv, [Next]_vars PROVE RowInv'
  OBVIOUS
<1>1. CASE UNCHANGED vars
  BY <1>1 DEF vars, RowInv, TypeOK, UploadInv, TargetInv, EntryInv, RowsNeedDocument, Known
<1>2. CASE \E d \in Docs : UploadStep(d) \/ UploadFails(d)
  BY <1>2, RowUpload
<1>3. CASE \E r \in Runs : RunStep(r)
  BY <1>3, RowRun
<1>4. CASE \E x \in Erasures : EraseStep(x) \/ \E d \in Docs : EraseCancel(x, d)
  BY <1>4, RowErase
<1>5. CASE \E q \in Retries : RetryStep(q) \/ \E e \in Entries : RetryRead(q, e)
  BY <1>5, RowRetry
<1>6. CASE \E a \in Reviewers :
             ReviewStep(a) \/ \E d \in Docs, action \in Actions : ReviewRead(a, d, action)
  BY <1>6, RowReview
<1>7. CASE Crash \/ \E p \in Procs : Abort(p)
  BY <1>7, RowFault
<1> QED BY <1>1, <1>2, <1>3, <1>4, <1>5, <1>6, <1>7 DEF Next

\* So the invariant holds in every state of every behaviour.
LEMMA RowAlways == Spec => []RowInv
BY RowInit, RowStep, PTL DEF Spec

\* Every variable keeps its type, whatever the tasks, requests and faults do.
THEOREM TypeCorrect == Spec => []TypeOK
<1>1. RowInv => TypeOK
  BY DEF RowInv
<1> QED BY <1>1, RowAlways, PTL

\* No row made from a document outlives the document or is written after it is
\* gone: the foreign keys and the version column that _persist_outcome,
\* _deliver_webhook, retry_dlq and apply_action run into are enough, without any
\* lock held between a read and its commit.
THEOREM NoOrphanRows == Spec => []RowsNeedDocument
<1>1. RowInv => RowsNeedDocument
  BY DEF RowInv
<1> QED BY <1>1, RowAlways, PTL

-----------------------------------------------------------------------------
(* Sessions that read a row and commit after others have run: what the version *)
(* column of documents gives them.                                             *)

\* What a step may do to a documents row: nothing, an INSERT or UPDATE, or its
\* deletion.
Written(c) ==
  \/ doc'[c] = doc[c]
  \/ doc'[c].version > doc[c].version /\ Exists(doc'[c])
  \/ doc'[c].version = doc[c].version /\ ~ Exists(doc'[c])

\* A successful UPDATE changes the version of the row, or nothing.
LEMMA UpdateWrites ==
  ASSUME TypeOK, NEW d \in Docs, NEW status, status # "absent",
         doc' = doc \/ doc' = [doc EXCEPT ![d] = Updated(doc[d], status)]
  PROVE  \A c \in Docs : Written(c)
<1>1. CASE doc' = doc
  BY <1>1 DEF Written
<1>2. CASE doc' = [doc EXCEPT ![d] = Updated(doc[d], status)]
  <2>1. \A c \in Docs \ {d} : doc'[c] = doc[c]
    BY <1>2 DEF TypeOK
  <2>2. doc'[d] = [status |-> status, version |-> doc[d].version + 1]
    BY <1>2 DEF TypeOK, Updated
  <2>3. /\ doc[d].version \in Nat /\ doc'[d].version = doc[d].version + 1
        /\ Exists(doc'[d])
    BY <2>2 DEF TypeOK, Exists
  <2> QED BY <2>1, <2>3 DEF Written
<1> QED BY <1>1, <1>2

\* Every step that changes a document changes its version.
LEMMA StepWrites ==
  ASSUME RowInv, [Next]_vars
  PROVE  \A c \in Docs : Written(c)
<1> USE DEF RowInv, rows, stores, sessions, Goto
<1>0. \A p \in Procs : pc[p] # "idle" => target[p] \in Docs
  BY DEF TargetInv, Known
<1>1. CASE doc' = doc
  BY <1>1 DEF Written
<1>2. ASSUME NEW d \in Docs, UploadStep(d) \/ UploadFails(d)
      PROVE  \A c \in Docs : Written(c)
  <2>1. CASE doc' = doc
    BY <2>1 DEF Written
  <2>2. CASE UploadCommit(d)
    <3>1. \A c \in Docs \ {d} : doc'[c] = doc[c]
      BY <2>2 DEF UploadCommit, TypeOK
    <3>2. doc'[d].version = 2 /\ Exists(doc'[d]) /\ doc[d].version = 0
      BY <2>2 DEF UploadCommit, TypeOK, UploadInv, NoRow, Exists
    <3> QED BY <3>1, <3>2 DEF Written
  <2> QED BY <1>2, <2>1, <2>2 DEF UploadStep, UploadSave, UploadEnqueue, UploadFails
<1>3. ASSUME NEW r \in Runs, RunStep(r)
      PROVE  \A c \in Docs : Written(c)
  <2>1. CASE PersistCommit(r)
    <3>1. target[r] \in Docs
      BY <1>0, <2>1 DEF PersistCommit, Procs
    <3>2. doc' = doc \/ doc' = [doc EXCEPT ![target[r]] = Updated(doc[target[r]], Outcome(r))]
      BY <2>1 DEF PersistCommit, PersistRows
    <3>3. Outcome(r) # "absent"
      BY DEF Outcome, Terminal
    <3> QED BY <3>1, <3>2, <3>3, UpdateWrites
  <2>2. CASE ~ PersistCommit(r)
    <3>1. doc' = doc
      BY <1>3, <2>2 DEF RunStep, RunLoad, RunStart, GraphStep, RunNode, RunParse,
         RunGuardrail, RunExtract, RunScore, RunRoute, RunTerminal, PersistRead, HookBegin,
         HookDelivered, HookExhausted
    <3> QED BY <1>1, <3>1
  <2> QED BY <2>1, <2>2
<1>4. ASSUME NEW x \in Erasures, EraseStep(x) \/ \E d \in Docs : EraseCancel(x, d)
      PROVE  \A c \in Docs : Written(c)
  <2>1. CASE EraseMark(x)
    <3>1. target[x] \in Docs
      BY <1>0, <2>1 DEF EraseMark, Procs
    <3>2. doc' = doc \/ doc' = [doc EXCEPT ![target[x]] = Updated(doc[target[x]], "cancelled")]
      BY <2>1 DEF EraseMark
    <3> QED BY <3>1, <3>2, UpdateWrites
  <2>2. CASE EraseRows(x)
    <3>1. target[x] \in Docs
      BY <1>0, <2>2 DEF EraseRows, Procs
    <3>2. \A c \in Docs \ {target[x]} : doc'[c] = doc[c]
      BY <2>2 DEF EraseRows, TypeOK
    <3>3. doc'[target[x]] = [doc[target[x]] EXCEPT !.status = "absent"]
      BY <2>2, <3>1 DEF EraseRows, TypeOK
    <3>4. doc'[target[x]].version = doc[target[x]].version /\ ~ Exists(doc'[target[x]])
      BY <3>1, <3>3 DEF TypeOK, Exists
    <3> QED BY <3>2, <3>4 DEF Written
  <2>3. CASE ~ EraseMark(x) /\ ~ EraseRows(x)
    <3>1. doc' = doc
      BY <1>4, <2>3 DEF EraseStep, EraseCancel, EraseRead, EraseBlob, EraseVectors, ErasePurge
    <3> QED BY <1>1, <3>1
  <2> QED BY <2>1, <2>2, <2>3
<1>5. ASSUME NEW q \in Retries, RetryStep(q) \/ \E e \in Entries : RetryRead(q, e)
      PROVE  \A c \in Docs : Written(c)
  <2>1. CASE RetryCommit(q)
    <3>1. target[q] \in Docs
      BY <1>0, <2>1 DEF RetryCommit, Procs
    <3>2. doc' = doc \/ doc' = [doc EXCEPT ![target[q]] = Updated(doc[target[q]], "pending")]
      BY <2>1 DEF RetryCommit
    <3> QED BY <3>1, <3>2, UpdateWrites
  <2>2. CASE ~ RetryCommit(q)
    <3>1. doc' = doc
      BY <1>5, <2>2 DEF RetryStep, RetryRead, RetryEnqueue
    <3> QED BY <1>1, <3>1
  <2> QED BY <2>1, <2>2
<1>6. ASSUME NEW a \in Reviewers,
             ReviewStep(a) \/ \E d \in Docs, action \in Actions : ReviewRead(a, d, action)
      PROVE  \A c \in Docs : Written(c)
  <2>1. CASE ReviewCommit(a)
    <3>1. target[a] \in Docs
      BY <1>0, <2>1 DEF ReviewCommit, Procs
    <3>2. \/ doc' = doc
          \/ doc' = [doc EXCEPT ![target[a]] = Updated(doc[target[a]], ReviewedStatus(act[a]))]
      BY <2>1 DEF ReviewCommit
    <3>3. ReviewedStatus(act[a]) # "absent"
      BY DEF ReviewedStatus
    <3> QED BY <3>1, <3>2, <3>3, UpdateWrites
  <2>2. CASE ~ ReviewCommit(a)
    <3>1. doc' = doc
      BY <1>6, <2>2 DEF ReviewStep, ReviewRead, ReviewLoad, ReviewWriteBack
    <3> QED BY <1>1, <3>1
  <2> QED BY <2>1, <2>2
<1>7. CASE Crash \/ (\E p \in Procs : Abort(p)) \/ UNCHANGED vars
  BY <1>1, <1>7 DEF Crash, Abort, vars
<1> QED BY <1>2, <1>3, <1>4, <1>5, <1>6, <1>7 DEF Next

\* A session that has read its rows at the end of a step either had read them
\* before and still holds what it read, or read the current row in this step.
Reads(p) ==
  pc'[p] \in {"commit", "mark", "writeback"} =>
    \/ HasRead(p) /\ seen'[p] = seen[p] /\ target'[p] = target[p]
    \/ seen'[p] = doc[target'[p]] /\ doc' = doc

\* One process moves; nobody else's session changes.
LEMMA OneMoves ==
  ASSUME TypeOK, NEW p \in Procs, NEW step, pc' = [pc EXCEPT ![p] = step],
         \A x \in Procs \ {p} : target'[x] = target[x] /\ seen'[x] = seen[x],
         \/ step \notin {"commit", "mark", "writeback"}
         \/ HasRead(p) /\ seen'[p] = seen[p] /\ target'[p] = target[p]
         \/ seen'[p] = doc[target'[p]] /\ doc' = doc
  PROVE  \A x \in Procs : Reads(x)
<1>1. pc'[p] = step /\ \A x \in Procs \ {p} : pc'[x] = pc[x]
  BY DEF TypeOK
<1>2. Reads(p)
  BY <1>1 DEF Reads
<1>3. \A x \in Procs \ {p} : Reads(x)
  BY <1>1 DEF Reads, HasRead
<1> QED BY <1>2, <1>3

\* What the runs have read stays no newer than the rows.
LEMMA RunReads ==
  ASSUME RowInv, NEW r \in Runs, RunStep(r)
  PROVE  \A x \in Procs : Reads(x)
<1> USE DEF sessions, Goto
<1>0. TypeOK /\ r \in Procs
  BY DEF RowInv, Procs
<1>1. CASE PersistRead(r)
  <2>1. /\ seen' = [seen EXCEPT ![r] = doc[target[r]]]
        /\ target' = target /\ doc' = doc
        /\ \E step : pc' = [pc EXCEPT ![r] = step]
    BY <1>1 DEF PersistRead, rows
  <2>2. seen'[r] = doc[target'[r]] /\ \A x \in Procs \ {r} : seen'[x] = seen[x]
    BY <1>0, <2>1 DEF TypeOK
  <2> QED BY <1>0, <2>1, <2>2, OneMoves
<1>2. CASE ~ PersistRead(r)
  <2>1. UNCHANGED <<target, seen>>
    BY <1>2 DEF RunStep, RunLoad, RunStart, GraphStep, RunNode, RunParse,
       RunGuardrail, RunExtract, RunScore, RunRoute, RunTerminal, PersistCommit, HookBegin,
       HookDelivered, HookExhausted
  <2>2. \E step : /\ step \notin {"commit", "mark", "writeback"}
                  /\ pc' = [pc EXCEPT ![r] = step]
    <3>1. st[r] \in State
      BY <1>0 DEF TypeOK
    <3>2. RouteDecision(RouteNode(st[r])) \in {"deliver", "review", "dlq"}
      BY <3>1, NodeTypes DEF RouteDecision, Branch, Levels
    <3> QED BY <1>2, <3>2 DEF RunStep, RunLoad, RunStart, GraphStep, RunNode, RunParse,
         RunGuardrail, RunExtract, RunScore, RunRoute, RunTerminal, PersistCommit,
         AfterPersist, HookBegin, HookDelivered, HookExhausted
  <2> QED BY <1>0, <2>1, <2>2, OneMoves
<1> QED BY <1>1, <1>2

\* So does what the erasures have read,
LEMMA EraseReads ==
  ASSUME RowInv, NEW e \in Erasures,
         EraseStep(e) \/ \E d \in Docs : EraseCancel(e, d)
  PROVE  \A x \in Procs : Reads(x)
<1> USE DEF sessions, Goto
<1>0. TypeOK /\ e \in Procs
  BY DEF RowInv, Procs
<1>1. CASE EraseRead(e)
  <2>1. /\ seen' = [seen EXCEPT ![e] = doc[target[e]]]
        /\ target' = target /\ doc' = doc
        /\ \E step : pc' = [pc EXCEPT ![e] = step]
    BY <1>1 DEF EraseRead, rows
  <2>2. seen'[e] = doc[target'[e]] /\ \A x \in Procs \ {e} : seen'[x] = seen[x]
    BY <1>0, <2>1 DEF TypeOK
  <2> QED BY <1>0, <2>1, <2>2, OneMoves
<1>2. CASE ~ EraseRead(e)
  <2>1. seen' = seen /\ \A x \in Procs \ {e} : target'[x] = target[x]
    BY <1>0, <1>2 DEF EraseStep, EraseCancel, EraseMark, EraseBlob, EraseVectors, ErasePurge,
       EraseRows, TypeOK
  <2>2. \E step : /\ step \notin {"commit", "mark", "writeback"}
                  /\ pc' = [pc EXCEPT ![e] = step]
    BY <1>2 DEF EraseStep, EraseCancel, EraseMark, EraseBlob, EraseVectors, ErasePurge,
       EraseRows
  <2> QED BY <1>0, <2>1, <2>2, OneMoves
<1> QED BY <1>1, <1>2

\* the retries,
LEMMA RetryReads ==
  ASSUME RowInv, NEW q \in Retries,
         RetryStep(q) \/ \E e \in Entries : RetryRead(q, e)
  PROVE  \A x \in Procs : Reads(x)
<1> USE DEF sessions, Goto
<1>0. TypeOK /\ q \in Procs
  BY DEF RowInv, Procs
<1>1. CASE RetryEnqueue(q)
  <2>1. PICK r \in Runs :
          /\ pc' = [[pc EXCEPT ![q] = "commit"] EXCEPT ![r] = "queued"]
          /\ target' = [target EXCEPT ![r] = target[q]]
    BY <1>1 DEF RetryEnqueue, Enqueue
  <2>2. r # q /\ r \in Procs
    BY Disjoint DEF Procs
  <2>3. doc' = doc /\ seen' = [seen EXCEPT ![q] = doc[target[q]]]
    BY <1>1 DEF RetryEnqueue, rows
  <2>4. Reads(r)
    BY <1>0, <2>1, <2>2 DEF Reads, TypeOK
  <2>5. Reads(q)
    BY <1>0, <2>1, <2>2, <2>3 DEF Reads, TypeOK
  <2>6. \A x \in Procs \ {q, r} : pc'[x] = pc[x] /\ target'[x] = target[x] /\ seen'[x] = seen[x]
    BY <1>0, <2>1, <2>3 DEF TypeOK
  <2>7. \A x \in Procs \ {q, r} : Reads(x)
    BY <2>6 DEF Reads, HasRead
  <2> QED BY <2>4, <2>5, <2>7
<1>2. CASE ~ RetryEnqueue(q)
  <2>1. seen' = seen /\ \A x \in Procs \ {q} : target'[x] = target[x]
    BY <1>0, <1>2 DEF RetryStep, RetryRead, RetryCommit, TypeOK
  <2>2. \E step : /\ step \notin {"commit", "mark", "writeback"}
                  /\ pc' = [pc EXCEPT ![q] = step]
    BY <1>2 DEF RetryStep, RetryRead, RetryCommit
  <2> QED BY <1>0, <2>1, <2>2, OneMoves
<1> QED BY <1>1, <1>2

\* and the reviewers.
LEMMA ReviewReads ==
  ASSUME RowInv, NEW a \in Reviewers,
         ReviewStep(a) \/ \E d \in Docs, action \in Actions : ReviewRead(a, d, action)
  PROVE  \A x \in Procs : Reads(x)
<1> USE DEF sessions, Goto
<1>0. TypeOK /\ a \in Procs
  BY DEF RowInv, Procs
<1>1. CASE ReviewLoad(a)
  <2>1. /\ seen' = [seen EXCEPT ![a] = doc[target[a]]]
        /\ target' = target /\ doc' = doc
        /\ \E step : pc' = [pc EXCEPT ![a] = step]
    BY <1>1 DEF ReviewLoad, rows
  <2>2. seen'[a] = doc[target'[a]] /\ \A x \in Procs \ {a} : seen'[x] = seen[x]
    BY <1>0, <2>1 DEF TypeOK
  <2> QED BY <1>0, <2>1, <2>2, OneMoves
<1>2. CASE ReviewWriteBack(a)
  <2>1. /\ UNCHANGED <<target, seen>>
        /\ pc' = [pc EXCEPT ![a] = "commit"]
        /\ HasRead(a)
    BY <1>2 DEF ReviewWriteBack, HasRead
  <2> QED BY <1>0, <2>1, OneMoves
<1>3. CASE ~ ReviewLoad(a) /\ ~ ReviewWriteBack(a)
  <2>1. seen' = seen /\ \A x \in Procs \ {a} : target'[x] = target[x]
    BY <1>0, <1>3 DEF ReviewStep, ReviewRead, ReviewCommit, TypeOK
  <2>2. \E step : /\ step \notin {"commit", "mark", "writeback"}
                  /\ pc' = [pc EXCEPT ![a] = step]
    BY <1>3 DEF ReviewStep, ReviewRead, ReviewCommit
  <2> QED BY <1>0, <2>1, <2>2, OneMoves
<1> QED BY <1>1, <1>2, <1>3

\* Every step keeps the reads no newer than the rows.
LEMMA StepReads ==
  ASSUME RowInv, [Next]_vars
  PROVE  \A x \in Procs : Reads(x)
<1>0. TypeOK
  BY DEF RowInv
<1>1. ASSUME NEW d \in Docs, UploadStep(d) \/ UploadFails(d)
      PROVE  \A x \in Procs : Reads(x)
  <2>1. CASE UploadEnqueue(d)
    <3>1. PICK r \in Runs : /\ pc' = [pc EXCEPT ![r] = "queued"]
                            /\ target' = [target EXCEPT ![r] = d]
      BY <2>1 DEF UploadEnqueue, Enqueue
    <3>2. r \in Procs /\ seen' = seen /\ \A x \in Procs \ {r} : target'[x] = target[x]
      BY <1>0, <2>1, <3>1 DEF UploadEnqueue, sessions, Procs, TypeOK
    <3> QED BY <1>0, <3>1, <3>2, OneMoves
  <2>2. CASE ~ UploadEnqueue(d)
    BY <1>1, <2>2 DEF UploadStep, UploadSave, UploadCommit, UploadFails, sessions, Reads, HasRead
  <2> QED BY <2>1, <2>2
<1>2. CASE Crash
  BY <1>2 DEF Crash, Reads
<1>3. ASSUME NEW p \in Procs, Abort(p)
      PROVE  \A x \in Procs : Reads(x)
  <2>1. pc' = [pc EXCEPT ![p] = "done"] /\ UNCHANGED <<target, seen>>
    BY <1>3 DEF Abort, Goto, sessions
  <2> QED BY <1>0, <2>1, OneMoves
<1>4. CASE UNCHANGED vars
  BY <1>4 DEF vars, Reads, HasRead
<1> QED BY <1>1, <1>2, <1>3, <1>4, RunReads, EraseReads, RetryReads, ReviewReads DEF Next

\* A row that still has the version a session read is the row it read.
LEMMA ReadStep ==
  ASSUME RowInv, ReadInv, [Next]_vars
  PROVE  ReadInv'
<1> SUFFICES ASSUME NEW p \in Procs, HasRead(p)'
             PROVE  LET d == target'[p] IN
                    /\ seen'[p].version <= doc'[d].version
                    /\ Exists(doc'[d]) /\ seen'[p].version = doc'[d].version
                         => seen'[p].status = doc'[d].status
  BY DEF ReadInv
<1>0. TypeOK /\ TypeOK' /\ RowInv'
  BY RowStep DEF RowInv
<1>1. pc'[p] \in {"commit", "mark", "writeback"} /\ Reads(p)
  BY StepReads DEF HasRead
<1>2. target'[p] \in Docs
  BY <1>0, <1>1 DEF RowInv, TargetInv, Known
<1>3. Written(target'[p])
  BY <1>2, StepWrites
<1>4. /\ doc[target'[p]].version \in Nat /\ doc'[target'[p]].version \in Nat
      /\ seen[p].version \in Nat /\ seen'[p].version \in Nat
  BY <1>0, <1>2 DEF TypeOK
<1>5. CASE HasRead(p) /\ seen'[p] = seen[p] /\ target'[p] = target[p]
  <2>1. /\ seen[p].version <= doc[target[p]].version
        /\ Exists(doc[target[p]]) /\ seen[p].version = doc[target[p]].version
             => seen[p].status = doc[target[p]].status
    BY <1>5 DEF ReadInv
  <2> QED BY <1>3, <1>4, <1>5, <2>1 DEF Written
<1>6. CASE seen'[p] = doc[target'[p]] /\ doc' = doc
  BY <1>4, <1>6
<1> QED BY <1>1, <1>5, <1>6 DEF Reads

\* A run's steps are its own: nothing else moves a run at its commit, or brings
\* a run there, except a fault that ends it.
LEMMA RunCommits ==
  ASSUME RowInv, [Next]_vars, NEW r \in Runs
  PROVE  /\ pc'[r] = "commit" => \/ pc[r] = "commit" /\ seen'[r] = seen[r]
                                 \/ PersistRead(r)
         /\ pc[r] = "commit" /\ pc'[r] # "commit" => PersistCommit(r) \/ doc' = doc
<1> DEFINE Kept == pc'[r] = pc[r] /\ seen'[r] = seen[r]
           Goal == /\ pc'[r] = "commit" => \/ pc[r] = "commit" /\ seen'[r] = seen[r]
                                           \/ PersistRead(r)
                   /\ pc[r] = "commit" /\ pc'[r] # "commit" => PersistCommit(r) \/ doc' = doc
<1> USE DEF sessions, Goto
<1>0. /\ TypeOK
      /\ r \in Procs
      /\ \A p \in Erasures \cup Retries \cup Reviewers : p # r /\ p \in Procs
  BY Disjoint DEF RowInv, Procs
<1>1. ASSUME NEW d \in Docs, UploadStep(d) \/ UploadFails(d)
      PROVE  Goal
  <2>1. CASE UploadEnqueue(d)
    <3>1. PICK s \in Runs : pc[s] = "idle" /\ pc' = [pc EXCEPT ![s] = "queued"]
      BY <2>1 DEF UploadEnqueue, Enqueue
    <3>2. seen' = seen
      BY <2>1 DEF UploadEnqueue
    <3>3. pc'[r] = pc[r] \/ (pc[r] = "idle" /\ pc'[r] = "queued")
      BY <1>0, <3>1 DEF TypeOK
    <3> QED BY <3>2, <3>3
  <2>2. CASE ~ UploadEnqueue(d)
    BY <1>1, <2>2 DEF UploadStep, UploadSave, UploadCommit, UploadFails
  <2> QED BY <2>1, <2>2
<1>2. ASSUME NEW s \in Runs, RunStep(s), s # r
      PROVE  Kept
  <2>1. s \in Procs
    BY DEF Procs
  <2>2. \E step : pc' = [pc EXCEPT ![s] = step]
    BY <1>2 DEF RunStep, RunLoad, RunStart, GraphStep, RunNode, RunParse, RunGuardrail,
       RunExtract, RunScore, RunRoute, RunTerminal, PersistRead, PersistCommit, HookBegin,
       HookDelivered, HookExhausted
  <2>3. seen' = seen \/ seen' = [seen EXCEPT ![s] = doc[target[s]]]
    BY <1>2 DEF RunStep, RunLoad, RunStart, GraphStep, RunNode, RunParse, RunGuardrail,
       RunExtract, RunScore, RunRoute, RunTerminal, PersistRead, PersistCommit, HookBegin,
       HookDelivered, HookExhausted
  <2> QED BY <1>0, <1>2, <2>1, <2>2, <2>3 DEF TypeOK
<1>3. CASE RunStep(r)
  <2>1. CASE PersistRead(r)
    BY <2>1 DEF PersistRead
  <2>2. CASE PersistCommit(r)
    <3>1. pc[r] = "commit" /\ seen' = seen
      BY <2>2 DEF PersistCommit
    <3> QED BY <2>2, <3>1
  <2>3. CASE ~ PersistRead(r) /\ ~ PersistCommit(r)
    <3>1. st[r] \in State
      BY <1>0 DEF TypeOK
    <3>2. RouteDecision(RouteNode(st[r])) \in {"deliver", "review", "dlq"}
      BY <3>1, NodeTypes DEF RouteDecision, Branch, Levels
    <3>3. pc[r] # "commit" /\ \E step : step # "commit" /\ pc' = [pc EXCEPT ![r] = step]
      BY <1>3, <2>3, <3>2 DEF RunStep, RunLoad, RunStart, GraphStep, RunNode, RunParse,
         RunGuardrail, RunExtract, RunScore, RunRoute, RunTerminal, HookBegin,
         HookDelivered, HookExhausted
    <3>4. pc'[r] # "commit"
      BY <1>0, <3>3 DEF TypeOK
    <3> QED BY <3>3, <3>4
  <2> QED BY <2>1, <2>2, <2>3
<1>4. ASSUME NEW x \in Erasures, EraseStep(x) \/ \E d \in Docs : EraseCancel(x, d)
      PROVE  Kept
  <2>1. /\ \E step : pc' = [pc EXCEPT ![x] = step]
        /\ seen' = seen \/ seen' = [seen EXCEPT ![x] = doc[target[x]]]
    BY <1>4 DEF EraseStep, EraseCancel, EraseRead, EraseMark, EraseBlob, EraseVectors,
       ErasePurge, EraseRows
  <2> QED BY <1>0, <2>1 DEF TypeOK
<1>5. ASSUME NEW q \in Retries, RetryStep(q) \/ \E e \in Entries : RetryRead(q, e)
      PROVE  Goal
  <2>1. CASE RetryEnqueue(q)
    <3>1. PICK s \in Runs : /\ pc[s] = "idle"
                            /\ pc' = [[pc EXCEPT ![q] = "commit"] EXCEPT ![s] = "queued"]
      BY <2>1 DEF RetryEnqueue, Enqueue
    <3>2. seen'[r] = seen[r]
      BY <1>0, <2>1 DEF RetryEnqueue, TypeOK
    <3>3. pc'[r] = pc[r] \/ (pc[r] = "idle" /\ pc'[r] = "queued")
      BY <1>0, <3>1 DEF TypeOK
    <3> QED BY <3>2, <3>3
  <2>2. CASE ~ RetryEnqueue(q)
    <3>1. seen' = seen /\ \E step : pc' = [pc EXCEPT ![q] = step]
      BY <1>5, <2>2 DEF RetryStep, RetryRead, RetryCommit
    <3>2. Kept
      BY <1>0, <3>1 DEF TypeOK
    <3> QED BY <3>2
  <2> QED BY <2>1, <2>2
<1>6. ASSUME NEW a \in Reviewers,
             ReviewStep(a) \/ \E d \in Docs, action \in Actions : ReviewRead(a, d, action)
      PROVE  Kept
  <2>1. /\ \E step : pc' = [pc EXCEPT ![a] = step]
        /\ seen' = seen \/ seen' = [seen EXCEPT ![a] = doc[target[a]]]
    BY <1>6 DEF ReviewStep, ReviewRead, ReviewLoad, ReviewWriteBack, ReviewCommit
  <2> QED BY <1>0, <2>1 DEF TypeOK
<1>7. CASE Crash
  <2>1. pc'[r] # "commit" /\ doc' = doc
    BY <1>0, <1>7 DEF Crash, rows
  <2> QED BY <2>1
<1>8. ASSUME NEW p \in Procs, Abort(p)
      PROVE  Goal
  <2>1. doc' = doc /\ seen' = seen /\ (pc'[r] = pc[r] \/ pc'[r] = "done")
    BY <1>0, <1>8 DEF Abort, rows, TypeOK
  <2> QED BY <2>1
<1>9. CASE UNCHANGED vars
  BY <1>9 DEF vars
<1>10. Kept => Goal
  OBVIOUS
<1> QED BY <1>1, <1>2, <1>3, <1>4, <1>5, <1>6, <1>7, <1>8, <1>9, <1>10 DEF Next

\* Every step keeps what a passed guard tells about the document.
LEMMA GuardStep ==
  ASSUME RowInv, GuardInv, [Next]_vars
  PROVE  GuardInv'
<1> SUFFICES ASSUME NEW r \in Runs, pc'[r] = "commit"
             PROVE  seen'[r].status \notin {"absent", "cancelled"}
  BY DEF GuardInv
<1>1. CASE pc[r] = "commit" /\ seen'[r] = seen[r]
  BY <1>1 DEF GuardInv
<1>2. CASE PersistRead(r)
  <2>1. TypeOK /\ r \in Procs
    BY DEF RowInv, Procs
  <2>2. ~ PersistSkips(target[r]) /\ seen'[r] = doc[target[r]]
    BY <1>2, <2>1 DEF PersistRead, Goto, AfterPersist, TypeOK
  <2> QED BY <2>2 DEF PersistSkips, Exists
<1> QED BY <1>1, <1>2, RunCommits

\* The invariant holds initially.
LEMMA RaceInit == Init => RaceInv
BY RowInit DEF Init, RaceInv, ReadInv, GuardInv, HasRead, Procs

\* Every step preserves it.
LEMMA RaceStep == RaceInv /\ [Next]_vars => RaceInv'
BY RowStep, ReadStep, GuardStep DEF RaceInv

\* So it holds in every state of every behaviour.
LEMMA RaceAlways == Spec => []RaceInv
BY RaceInit, RaceStep, PTL DEF Spec

\* A run whose document an erasure has marked does not write over the mark: the
\* guard of _persist_outcome sees the mark, or the version it read is stale.
LEMMA KeepsCancelled ==
  ASSUME RaceInv, [Next]_vars, NEW r \in Runs, NEW d \in Docs,
         pc[r] = "commit", pc'[r] # "commit", doc[d].status = "cancelled"
  PROVE  doc'[d].status = "cancelled"
<1>1. CASE doc' = doc
  BY <1>1
<1>2. CASE PersistCommit(r) /\ doc' # doc
  <2>1. /\ doc' = [doc EXCEPT ![target[r]] = Updated(doc[target[r]], Outcome(r))]
        /\ ~ Stale(doc[target[r]], seen[r])
    BY <1>2 DEF PersistCommit, PersistRows
  <2>2. CASE target[r] = d
    <3>1. Exists(doc[d]) /\ seen[r].version = doc[d].version
      BY <2>1, <2>2 DEF Stale
    <3>2. HasRead(r) /\ r \in Procs
      BY DEF HasRead, Procs
    <3>3. seen[r].status = "cancelled"
      BY <2>2, <3>1, <3>2 DEF RaceInv, ReadInv
    <3> QED BY <3>3 DEF RaceInv, GuardInv
  <2>3. CASE target[r] # d
    BY <2>1, <2>3 DEF RaceInv, RowInv, TypeOK
  <2> QED BY <2>2, <2>3
<1> QED BY <1>1, <1>2, RunCommits DEF RaceInv

\* The UPDATE of a session that is not stale.
LEMMA UpdateIsCurrent ==
  ASSUME RaceInv, NEW p \in Procs, NEW status, HasRead(p), Leaves(p, target[p]),
         doc' = [doc EXCEPT ![target[p]] = Updated(doc[target[p]], status)],
         ~ Stale(doc[target[p]], seen[p]),
         p \in Runs \/ pc[p] = "mark" => seen[p].status # "cancelled"
  PROVE  \A d \in Docs : DocumentWrite(d)
<1> USE DEF RaceInv, RowInv
<1>1. target[p] \in Docs
  BY DEF HasRead, TargetInv, Known
<1>2. /\ Exists(doc[target[p]]) /\ seen[p].version = doc[target[p]].version
      /\ seen[p].status = doc[target[p]].status
  BY DEF Stale, ReadInv
<1>3. seen[p] = doc[target[p]]
  BY <1>1, <1>2 DEF TypeOK
<1>4. DocumentWrite(target[p])
  BY <1>2, <1>3 DEF DocumentWrite
<1>5. \A d \in Docs \ {target[p]} : DocumentWrite(d)
  BY DEF DocumentWrite, TypeOK
<1> QED BY <1>4, <1>5

\* Whoever changes a document has read it as it is.
LEMMA DocWrites ==
  ASSUME RaceInv, [Next]_vars
  PROVE  \A d \in Docs : DocumentWrite(d)
<1> USE DEF RaceInv, RowInv, rows, stores, sessions, Goto
<1>0. TypeOK
  OBVIOUS
<1>1. ASSUME doc' = doc PROVE \A d \in Docs : DocumentWrite(d)
  BY <1>1 DEF DocumentWrite
<1>2. ASSUME NEW c \in Docs, UploadStep(c) \/ UploadFails(c)
      PROVE  \A d \in Docs : DocumentWrite(d)
  <2>1. CASE UploadCommit(c)
    <3>1. upload[c] = "saved" /\ doc[c] = NoRow
      BY <2>1 DEF UploadCommit, UploadInv
    <3>2. \A d \in Docs \ {c} : doc'[d] = doc[d]
      BY <2>1 DEF UploadCommit, TypeOK
    <3> QED BY <3>1, <3>2 DEF DocumentWrite, NoRow, Exists
  <2>2. CASE ~ UploadCommit(c)
    BY <1>1, <1>2, <2>2 DEF UploadStep, UploadSave, UploadEnqueue, UploadFails
  <2> QED BY <2>1, <2>2
<1>3. ASSUME NEW r \in Runs, RunStep(r)
      PROVE  \A d \in Docs : DocumentWrite(d)
  <2>1. CASE PersistCommit(r) /\ doc' # doc
    <3>1. /\ doc' = [doc EXCEPT ![target[r]] = Updated(doc[target[r]], Outcome(r))]
          /\ ~ Stale(doc[target[r]], seen[r])
          /\ pc[r] = "commit"
      BY <2>1 DEF PersistCommit, PersistRows
    <3>2. r \in Procs /\ HasRead(r) /\ seen[r].status # "cancelled"
      BY <3>1 DEF Procs, HasRead, GuardInv
    <3>3. Leaves(r, target[r])
      BY <2>1, <3>1, <3>2 DEF PersistCommit, AfterPersist, Leaves, TypeOK
    <3> QED BY <3>1, <3>2, <3>3, UpdateIsCurrent
  <2>2. CASE ~ PersistCommit(r)
    <3>1. doc' = doc
      BY <1>3, <2>2 DEF RunStep, RunLoad, RunStart, GraphStep, RunNode, RunParse,
         RunGuardrail, RunExtract, RunScore, RunRoute, RunTerminal, PersistRead, HookBegin,
         HookDelivered, HookExhausted
    <3> QED BY <1>1, <3>1
  <2> QED BY <1>1, <2>1, <2>2
<1>4. ASSUME NEW x \in Erasures, EraseStep(x) \/ \E d \in Docs : EraseCancel(x, d)
      PROVE  \A d \in Docs : DocumentWrite(d)
  <2>0. x \in Procs /\ x \notin Runs
    BY Disjoint DEF Procs
  <2>1. CASE EraseMark(x) /\ doc' # doc
    <3>1. /\ doc' = [doc EXCEPT ![target[x]] = Updated(doc[target[x]], "cancelled")]
          /\ ~ Stale(doc[target[x]], seen[x]) /\ seen[x].status # "cancelled"
          /\ pc[x] = "mark" /\ pc' = [pc EXCEPT ![x] = "blob"]
      BY <2>1 DEF EraseMark
    <3>2. HasRead(x) /\ Leaves(x, target[x])
      BY <2>0, <3>1 DEF HasRead, Leaves, TypeOK
    <3> QED BY <2>0, <3>1, <3>2, UpdateIsCurrent
  <2>2. CASE EraseRows(x)
    <3>1. /\ pc[x] = "rows" /\ pc' = [pc EXCEPT ![x] = "done"]
          /\ \A d \in Docs \ {target[x]} : doc'[d] = doc[d]
      BY <2>2 DEF EraseRows, TypeOK
    <3>2. target[x] \in Docs /\ Leaves(x, target[x])
      BY <2>0, <3>1 DEF TargetInv, Known, Leaves, TypeOK
    <3>3. ~ Exists(doc'[target[x]])
      BY <2>2, <3>2 DEF EraseRows, Exists, TypeOK
    <3> QED BY <2>0, <3>1, <3>2, <3>3 DEF DocumentWrite
  <2>3. CASE ~ EraseMark(x) /\ ~ EraseRows(x)
    <3>1. doc' = doc
      BY <1>4, <2>3 DEF EraseStep, EraseCancel, EraseRead, EraseBlob, EraseVectors, ErasePurge
    <3> QED BY <1>1, <3>1
  <2> QED BY <1>1, <2>1, <2>2, <2>3
<1>5. ASSUME NEW q \in Retries, RetryStep(q) \/ \E e \in Entries : RetryRead(q, e)
      PROVE  \A d \in Docs : DocumentWrite(d)
  <2>1. CASE RetryCommit(q) /\ doc' # doc
    <3>1. /\ doc' = [doc EXCEPT ![target[q]] = Updated(doc[target[q]], "pending")]
          /\ ~ Stale(doc[target[q]], seen[q])
          /\ pc[q] = "commit" /\ pc' = [pc EXCEPT ![q] = "done"]
      BY <2>1 DEF RetryCommit
    <3>2. /\ q \in Procs /\ q \notin Runs
          /\ HasRead(q) /\ Leaves(q, target[q])
      BY <3>1, Disjoint DEF Procs, HasRead, Leaves, TypeOK
    <3> QED BY <3>1, <3>2, UpdateIsCurrent
  <2>2. CASE ~ RetryCommit(q)
    <3>1. doc' = doc
      BY <1>5, <2>2 DEF RetryStep, RetryRead, RetryEnqueue
    <3> QED BY <1>1, <3>1
  <2> QED BY <1>1, <2>1, <2>2
<1>6. ASSUME NEW a \in Reviewers,
             ReviewStep(a) \/ \E d \in Docs, action \in Actions : ReviewRead(a, d, action)
      PROVE  \A d \in Docs : DocumentWrite(d)
  <2>1. CASE ReviewCommit(a) /\ doc' # doc
    <3>1. /\ doc' = [doc EXCEPT ![target[a]] = Updated(doc[target[a]], ReviewedStatus(act[a]))]
          /\ ~ Stale(doc[target[a]], seen[a])
          /\ pc[a] = "commit" /\ pc' = [pc EXCEPT ![a] = "done"]
      BY <2>1 DEF ReviewCommit
    <3>2. /\ a \in Procs /\ a \notin Runs
          /\ HasRead(a) /\ Leaves(a, target[a])
      BY <3>1, Disjoint DEF Procs, HasRead, Leaves, TypeOK
    <3> QED BY <3>1, <3>2, UpdateIsCurrent
  <2>2. CASE ~ ReviewCommit(a)
    <3>1. doc' = doc
      BY <1>6, <2>2 DEF ReviewStep, ReviewRead, ReviewLoad, ReviewWriteBack
    <3> QED BY <1>1, <3>1
  <2> QED BY <1>1, <2>1, <2>2
<1>7. CASE Crash \/ (\E p \in Procs : Abort(p)) \/ UNCHANGED vars
  BY <1>1, <1>7 DEF Crash, Abort, vars
<1> QED BY <1>2, <1>3, <1>4, <1>5, <1>6, <1>7 DEF Next

-----------------------------------------------------------------------------
(* Who moves *)

Still(p) == pc'[p] = pc[p] /\ target'[p] = target[p] /\ seen'[p] = seen[p]

Ends(p) == pc[p] # "idle" /\ pc'[p] = "done" /\ target'[p] = target[p]

Enqueued(r, d) == pc[r] = "idle" /\ pc'[r] = "queued" /\ target'[r] = d

\* A step of one process that may bring in one run.
LEMMA OthersStill ==
  ASSUME TypeOK, NEW p \in Procs, NEW o \in Procs, o # p,
         \E step : pc' = [pc EXCEPT ![o] = step],
         \/ target' = target
         \/ \E d : target' = [target EXCEPT ![o] = d],
         \/ seen' = seen
         \/ \E row : seen' = [seen EXCEPT ![o] = row]
  PROVE  Still(p)
BY DEF TypeOK, Still

LEMMA EnqueueMoves ==
  ASSUME TypeOK, NEW p \in Procs, NEW o, NEW step, o \notin Runs, NEW d,
         Enqueue(d, [pc EXCEPT ![o] = step]), p # o,
         seen' = seen \/ \E row : seen' = [seen EXCEPT ![o] = row]
  PROVE  Still(p) \/ (p \in Runs /\ Enqueued(p, d))
<1>1. PICK r \in Runs : /\ pc[r] = "idle"
                        /\ pc' = [[pc EXCEPT ![o] = step] EXCEPT ![r] = "queued"]
                        /\ target' = [target EXCEPT ![r] = d]
  BY DEF Enqueue
<1>2. r \in Procs /\ pc \in [Procs -> Steps] /\ seen'[p] = seen[p]
  BY DEF Procs, TypeOK
<1>3. CASE p = r
  BY <1>1, <1>2, <1>3 DEF Enqueued, TypeOK
<1>4. CASE p # r
  BY <1>1, <1>2, <1>4 DEF Still, TypeOK
<1> QED BY <1>3, <1>4

\* A process is moved by its own steps, by a fault, or by whoever enqueues it.
Moves(p) ==
  \/ Still(p)
  \/ Fault /\ Ends(p)
  \/ /\ p \in Runs
     /\ \/ RunStep(p) /\ target'[p] = target[p]
        \/ \E d \in Docs : UploadEnqueue(d) /\ Enqueued(p, d)
        \/ \E q \in Retries : RetryEnqueue(q) /\ Enqueued(p, target[q])
  \/ /\ p \in Erasures
     /\ \/ EraseStep(p) /\ target'[p] = target[p]
        \/ \E d \in Docs : EraseCancel(p, d) /\ target'[p] = d
  \/ /\ p \in Retries
     /\ \/ RetryStep(p) /\ target'[p] = target[p]
        \/ \E e \in Entries : RetryRead(p, e) /\ target'[p] = entry[e].doc
  \/ /\ p \in Reviewers
     /\ \/ ReviewStep(p) /\ target'[p] = target[p]
        \/ \E d \in Docs, action \in Actions : ReviewRead(p, d, action) /\ target'[p] = d

LEMMA EveryMove ==
  ASSUME TypeOK, [Next]_vars, NEW p \in Procs
  PROVE  Moves(p)
<1> USE DEF sessions, Goto
<1>0. /\ \A o \in Runs \cup Erasures \cup Retries \cup Reviewers : o \in Procs
      /\ \A r \in Runs : r \notin Erasures \cup Retries \cup Reviewers
      /\ \A x \in Erasures : x \notin Runs \cup Retries \cup Reviewers
      /\ \A q \in Retries : q \notin Runs \cup Erasures \cup Reviewers
      /\ \A a \in Reviewers : a \notin Runs \cup Erasures \cup Retries
  BY Disjoint DEF Procs
<1>1. ASSUME NEW d \in Docs, UploadStep(d) \/ UploadFails(d)
      PROVE  Moves(p)
  <2>1. CASE UploadEnqueue(d)
    <3>1. PICK r \in Runs : /\ pc[r] = "idle"
                            /\ pc' = [pc EXCEPT ![r] = "queued"]
                            /\ target' = [target EXCEPT ![r] = d]
                            /\ seen' = seen
      BY <2>1 DEF UploadEnqueue, Enqueue
    <3>2. CASE p = r
      <4>1. Enqueued(p, d)
        BY <1>0, <3>1, <3>2 DEF Enqueued, TypeOK
      <4> QED BY <2>1, <3>2, <4>1 DEF Moves
    <3>3. CASE p # r
      BY <1>0, <3>1, <3>3 DEF Moves, Still, TypeOK
    <3> QED BY <3>2, <3>3
  <2>2. CASE ~ UploadEnqueue(d)
    BY <1>1, <2>2 DEF UploadStep, UploadSave, UploadCommit, UploadFails, Moves, Still
  <2> QED BY <2>1, <2>2
<1>2. ASSUME NEW r \in Runs, RunStep(r)
      PROVE  Moves(p)
  <2>1. target' = target /\ \E step : pc' = [pc EXCEPT ![r] = step]
    BY <1>2 DEF RunStep, RunLoad, RunStart, GraphStep, RunNode, RunParse, RunGuardrail,
       RunExtract, RunScore, RunRoute, RunTerminal, PersistRead, PersistCommit, HookBegin,
       HookDelivered, HookExhausted
  <2>2. seen' = seen \/ seen' = [seen EXCEPT ![r] = doc[target[r]]]
    BY <1>2 DEF RunStep, RunLoad, RunStart, GraphStep, RunNode, RunParse, RunGuardrail,
       RunExtract, RunScore, RunRoute, RunTerminal, PersistRead, PersistCommit, HookBegin,
       HookDelivered, HookExhausted
  <2>3. CASE p = r
    BY <1>2, <2>1, <2>3 DEF Moves
  <2>4. CASE p # r
    BY <1>0, <2>1, <2>2, <2>4, OthersStill DEF Moves
  <2> QED BY <2>3, <2>4
<1>3. ASSUME NEW x \in Erasures, EraseStep(x) \/ \E d \in Docs : EraseCancel(x, d)
      PROVE  Moves(p)
  <2>1. /\ \E step : pc' = [pc EXCEPT ![x] = step]
        /\ seen' = seen \/ \E row : seen' = [seen EXCEPT ![x] = row]
        /\ target' = target \/ \E d : target' = [target EXCEPT ![x] = d]
    BY <1>3 DEF EraseStep, EraseCancel, EraseRead, EraseMark, EraseBlob, EraseVectors,
       ErasePurge, EraseRows
  <2>2. EraseStep(x) => target' = target
    BY DEF EraseStep, EraseRead, EraseMark, EraseBlob, EraseVectors, ErasePurge, EraseRows
  <2>3. \A d \in Docs : EraseCancel(x, d) => target'[x] = d
    BY <1>0 DEF EraseCancel, TypeOK
  <2>4. CASE p = x
    BY <1>3, <2>2, <2>3, <2>4 DEF Moves
  <2>5. CASE p # x
    BY <1>0, <2>1, <2>5, OthersStill DEF Moves
  <2> QED BY <2>4, <2>5
<1>4. ASSUME NEW q \in Retries, RetryStep(q) \/ \E e \in Entries : RetryRead(q, e)
      PROVE  Moves(p)
  <2>1. CASE RetryEnqueue(q)
    <3>1. /\ Enqueue(target[q], [pc EXCEPT ![q] = "commit"])
          /\ \E row : seen' = [seen EXCEPT ![q] = row]
      BY <2>1 DEF RetryEnqueue
    <3>2. CASE p # q
      BY <1>0, <2>1, <3>1, <3>2, EnqueueMoves DEF Moves
    <3>3. CASE p = q
      <4>1. target'[p] = target[p]
        <5>1. PICK r \in Runs : target' = [target EXCEPT ![r] = target[q]]
          BY <3>1 DEF Enqueue
        <5> QED BY <1>0, <3>3, <5>1 DEF TypeOK
      <4> QED BY <2>1, <3>3, <4>1 DEF Moves, RetryStep
    <3> QED BY <3>2, <3>3
  <2>2. CASE ~ RetryEnqueue(q)
    <3>1. /\ \E step : pc' = [pc EXCEPT ![q] = step]
          /\ seen' = seen
          /\ target' = target \/ \E d : target' = [target EXCEPT ![q] = d]
      BY <1>4, <2>2 DEF RetryStep, RetryRead, RetryCommit
    <3>2. RetryCommit(q) => target' = target
      BY DEF RetryCommit
    <3>3. \A e \in Entries : RetryRead(q, e) => target'[q] = entry[e].doc
      BY <1>0 DEF RetryRead, TypeOK
    <3>4. CASE p = q
      BY <1>4, <2>2, <3>2, <3>3, <3>4 DEF Moves, RetryStep
    <3>5. CASE p # q
      BY <1>0, <3>1, <3>5, OthersStill DEF Moves
    <3> QED BY <3>4, <3>5
  <2> QED BY <2>1, <2>2
<1>5. ASSUME NEW a \in Reviewers,
             ReviewStep(a) \/ \E d \in Docs, action \in Actions : ReviewRead(a, d, action)
      PROVE  Moves(p)
  <2>1. /\ \E step : pc' = [pc EXCEPT ![a] = step]
        /\ seen' = seen \/ \E row : seen' = [seen EXCEPT ![a] = row]
        /\ target' = target \/ \E d : target' = [target EXCEPT ![a] = d]
    BY <1>5 DEF ReviewStep, ReviewRead, ReviewLoad, ReviewWriteBack, ReviewCommit
  <2>2. ReviewStep(a) => target' = target
    BY DEF ReviewStep, ReviewLoad, ReviewWriteBack, ReviewCommit
  <2>3. \A d \in Docs, action \in Actions : ReviewRead(a, d, action) => target'[a] = d
    BY <1>0 DEF ReviewRead, TypeOK
  <2>4. CASE p = a
    BY <1>5, <2>2, <2>3, <2>4 DEF Moves
  <2>5. CASE p # a
    BY <1>0, <2>1, <2>5, OthersStill DEF Moves
  <2> QED BY <2>4, <2>5
<1>6. CASE Crash
  <2>1. /\ pc'[p] = IF pc[p] = "idle" THEN "idle" ELSE "done"
        /\ target'[p] = target[p] /\ seen'[p] = seen[p] /\ Fault
    BY <1>6 DEF Crash
  <2> QED BY <2>1 DEF Moves, Still, Ends
<1>7. ASSUME NEW o \in Procs, Abort(o)
      PROVE  Moves(p)
  <2>1. /\ pc' = [pc EXCEPT ![o] = "done"] /\ pc[o] # "idle" /\ Fault
        /\ target' = target /\ seen' = seen
    BY <1>7 DEF Abort
  <2> QED BY <2>1 DEF Moves, Still, Ends, TypeOK
<1>8. CASE UNCHANGED vars
  BY <1>8 DEF vars, Moves, Still
<1> QED BY <1>1, <1>2, <1>3, <1>4, <1>5, <1>6, <1>7, <1>8 DEF Next

-----------------------------------------------------------------------------
(* No task goes back. *)

\* Of a run,
LEMMA RunAdvances ==
  ASSUME TypeOK, NEW r \in Runs, RunStep(r)
  PROVE  pc'[r] = pc[r] \/ Stage(pc[r]) < Stage(pc'[r])
<1> USE DEF Goto, Stage
<1>0. r \in Procs /\ pc \in [Procs -> Steps] /\ st[r] \in State
  BY DEF TypeOK, Procs
<1>1. CASE RunLoad(r) \/ RunStart(r) \/ HookBegin(r) \/ HookDelivered(r) \/ HookExhausted(r)
  BY <1>0, <1>1 DEF RunLoad, RunStart, HookBegin, HookDelivered, HookExhausted
<1>2. CASE GraphStep(r)
  <2>1. ASSUME NEW node, NEW s, NEW next, RunNode(r, node, s, next)
        PROVE  pc[r] = node /\ pc'[r] = next
    BY <1>0, <2>1 DEF RunNode
  <2>2. RouteDecision(RouteNode(st[r])) \in {"deliver", "review", "dlq"}
    BY <1>0, NodeTypes DEF RouteDecision, Branch, Levels
  <2>3. \/ pc[r] = "parse" /\ pc'[r] = "guardrail"
        \/ pc[r] = "guardrail" /\ pc'[r] = "extract"
        \/ pc[r] = "extract" /\ pc'[r] = "score"
        \/ pc[r] = "score" /\ pc'[r] = "route"
        \/ pc[r] = "route" /\ pc'[r] \in {"deliver", "review", "dlq"}
        \/ pc[r] \in {"deliver", "review", "dlq"} /\ pc'[r] = "outcome"
    BY <1>2, <2>1, <2>2 DEF GraphStep, RunParse, RunGuardrail, RunExtract, RunScore, RunRoute,
       RunTerminal
  <2> QED BY <2>3
<1>3. CASE PersistRead(r) \/ PersistCommit(r)
  BY <1>0, <1>3 DEF PersistRead, PersistCommit, AfterPersist
<1> QED BY <1>1, <1>2, <1>3 DEF RunStep

\* and of a request.
LEMMA RequestAdvances ==
  ASSUME TypeOK, NEW p \in Procs,
         \/ EraseStep(p) \/ \E d \in Docs : EraseCancel(p, d)
         \/ RetryCommit(p) \/ \E e \in Entries : RetryRead(p, e)
         \/ ReviewStep(p) \/ \E d \in Docs, action \in Actions : ReviewRead(p, d, action)
  PROVE  Stage(pc[p]) < Stage(pc'[p])
<1> USE DEF Goto, Stage
<1>0. pc \in [Procs -> Steps]
  BY DEF TypeOK
<1>1. CASE EraseStep(p) \/ \E d \in Docs : EraseCancel(p, d)
  BY <1>0, <1>1 DEF EraseStep, EraseCancel, EraseRead, EraseMark, EraseBlob, EraseVectors,
     ErasePurge, EraseRows
<1>2. CASE RetryCommit(p) \/ \E e \in Entries : RetryRead(p, e)
  BY <1>0, <1>2 DEF RetryCommit, RetryRead
<1>3. CASE ReviewStep(p) \/ \E d \in Docs, action \in Actions : ReviewRead(p, d, action)
  BY <1>0, <1>3 DEF ReviewStep, ReviewLoad, ReviewWriteBack, ReviewCommit, ReviewRead
<1> QED BY <1>1, <1>2, <1>3

\* Each task and request ends after at most thirteen steps of its own; the others
\* can end it, but never send it back or make it repeat a step.
THEOREM TasksAdvance == Spec => EveryTaskAdvances
<1>1. ASSUME TypeOK, [Next]_vars, NEW p \in Procs
      PROVE  pc'[p] = pc[p] \/ Stage(pc[p]) < Stage(pc'[p])
  <2>1. CASE Still(p)
    BY <2>1 DEF Still
  <2>2. CASE Ends(p)
    BY <1>1, <2>2 DEF Ends, Stage, TypeOK, Steps, RunSteps
  <2>3. ASSUME NEW d, Enqueued(p, d)
        PROVE  Stage(pc[p]) < Stage(pc'[p])
    BY <2>3 DEF Enqueued, Stage
  <2>4. ASSUME RetryEnqueue(p), p \in Retries
        PROVE  Stage(pc[p]) < Stage(pc'[p])
    <3>1. PICK r \in Runs : pc' = [[pc EXCEPT ![p] = "commit"] EXCEPT ![r] = "queued"]
      BY <2>4 DEF RetryEnqueue, Enqueue
    <3>2. r # p
      BY <2>4, Disjoint
    <3> QED BY <1>1, <2>4, <3>1, <3>2 DEF RetryEnqueue, Stage, TypeOK
  <2> QED BY <1>1, <2>1, <2>2, <2>3, <2>4, EveryMove, RunAdvances, RequestAdvances
          DEF Moves, RetryStep
<1>2. TypeOK /\ [Next]_vars =>
        \A p \in Procs : pc'[p] = pc[p] \/ Stage(pc[p]) < Stage(pc'[p])
  BY <1>1
<1> QED BY <1>2, TypeCorrect, PTL DEF Spec, EveryTaskAdvances

=============================================================================
