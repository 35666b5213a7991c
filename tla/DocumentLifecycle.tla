------------------------- MODULE DocumentLifecycle -------------------------
(***************************************************************************)
(* The life of a document: upload, pipeline run, persistence of the        *)
(* outcome, webhook, dead-letter retry, review and GDPR erasure, as the    *)
(* asyncio tasks and the request handlers of app/ interleave them.         *)
(*                                                                         *)
(* A handler's database work is a session that reads rows and commits      *)
(* later; every await between the two is a point where others may run, so  *)
(* a read and its commit are separate actions.  A commit (or the flush     *)
(* that takes the row locks) is atomic.  documents and review_tasks carry  *)
(* SQLAlchemy's version column: an UPDATE of a row whose version is not    *)
(* the one the session read raises StaleDataError and the whole            *)
(* transaction is rolled back.  An answer that changes nothing (404, 409)  *)
(* is no step, unless the handler had already changed something.           *)
(***************************************************************************)
EXTENDS Pipeline, Naturals, FiniteSets

CONSTANTS
  Docs,          \* documents
  Entries,       \* ids of dead-letter rows
  Runs,          \* asyncio tasks of run_pipeline, one id per task
  Erasures,      \* DELETE /documents/{id} requests
  Retries,       \* POST /dlq/{id}/retry requests
  Reviewers,     \* POST /review/{id} requests
  Parsing,       \* what the parser may yield in this instance
  Extracting,    \* what the extraction chain may yield in this instance
  MaxFaults,     \* how many crashes, failed calls and failed tasks may occur
  NoDoc, NoEntry \* what a task holds before it holds anything

Procs == Runs \cup Erasures \cup Retries \cup Reviewers

ASSUME Disjoint ==
  /\ Runs \cap (Erasures \cup Retries \cup Reviewers) = {}
  /\ Erasures \cap (Retries \cup Reviewers) = {}
  /\ Retries \cap Reviewers = {}

ASSUME Outcomes ==
  /\ "failed" \in Parsing /\ Parsing \subseteq Parses
  /\ Extracting \subseteq Extractions

ASSUME Nothing == NoDoc \notin Docs /\ NoEntry \notin Entries

ASSUME FaultBound == MaxFaults \in Nat

VARIABLES
  \* Postgres.
  doc,         \* documents: status ("absent" when there is no row) and version
  result,      \* whether extraction_results has the document's row
  review,      \* review_tasks: status ("absent" when there is no row), version
  entry,       \* dlq: status ("free" before the row exists, "deleted" after), doc
  tombstones,  \* how many ERASURE_COMPLETED events audit_log has
  ckpt,        \* the LangGraph state checkpointed under thread_id = document id
  \* The stores beside Postgres.
  blob,        \* whether the uploaded file is in the blob store
  vectors,     \* whether Qdrant has an example made from the document
  \* Process memory.
  flagged,     \* cancellation._cancelled
  upload,      \* where the document's POST /extract is
  pc,          \* where each task or request is
  target,      \* the document it works on
  seen,        \* the documents row its session read
  seenReview,  \* the review_tasks row its session read
  held,        \* the dead-letter entry a retry request read
  act,         \* a reviewer's action
  st,          \* a run's graph state
  \* Bookkeeping.
  faults       \* faults so far

rows     == <<doc, result, review, entry, tombstones>>
stores   == <<ckpt, blob, vectors>>
sessions == <<seen, seenReview, held, act>>
vars     == <<doc, result, review, entry, tombstones, ckpt, blob, vectors,
              flagged, upload, pc, target, seen, seenReview, held, act, st, faults>>

DocStatuses == {"absent", "pending", "completed", "review", "rejected", "error",
                "cancelled"}

\* runner._TERMINAL
Terminal == {"completed", "review", "rejected", "error", "cancelled"}

ReviewStatuses == {"absent", "pending", "accepted", "corrected", "rejected"}

Actions == {"accept", "correct", "reject"}

ReviewOutcome == [accept |-> "accepted", correct |-> "corrected", reject |-> "rejected"]

UploadSteps == {"none", "saved", "committed", "enqueued", "failed", "lost"}

RunSteps == {"queued", "loaded", "parse", "guardrail", "extract", "score", "route",
             "deliver", "review", "dlq", "outcome", "commit", "hook", "posting"}

Steps == RunSteps \cup {"idle", "done"}
                  \cup {"cancel", "mark", "blob", "vectors", "purge", "rows"}
                  \cup {"entry", "load", "writeback"}

NoRow == [status |-> "absent", version |-> 0]

TypeOK ==
  /\ doc \in [Docs -> [status : DocStatuses, version : Nat]]
  /\ result \in [Docs -> BOOLEAN]
  /\ review \in [Docs -> [status : ReviewStatuses, version : Nat]]
  /\ entry \in [Entries -> [status : {"free", "pending", "retrying", "deleted"},
                            doc    : Docs \cup {NoDoc}]]
  /\ tombstones \in [Docs -> Nat]
  /\ ckpt \in [Docs -> State]
  /\ blob \in [Docs -> BOOLEAN]
  /\ vectors \in [Docs -> BOOLEAN]
  /\ flagged \subseteq Docs
  /\ upload \in [Docs -> UploadSteps]
  /\ pc \in [Procs -> Steps]
  /\ target \in [Procs -> Docs \cup {NoDoc}]
  /\ seen \in [Procs -> [status : DocStatuses, version : Nat]]
  /\ seenReview \in [Reviewers -> [status : ReviewStatuses, version : Nat]]
  /\ held \in [Retries -> Entries \cup {NoEntry}]
  /\ act \in [Reviewers -> Actions]
  /\ st \in [Runs -> State]
  /\ faults \in Nat

Init ==
  /\ doc = [d \in Docs |-> NoRow]
  /\ result = [d \in Docs |-> FALSE]
  /\ review = [d \in Docs |-> NoRow]
  /\ entry = [e \in Entries |-> [status |-> "free", doc |-> NoDoc]]
  /\ tombstones = [d \in Docs |-> 0]
  /\ ckpt = [d \in Docs |-> EmptyState]
  /\ blob = [d \in Docs |-> FALSE]
  /\ vectors = [d \in Docs |-> FALSE]
  /\ flagged = {}
  /\ upload = [d \in Docs |-> "none"]
  /\ pc = [p \in Procs |-> "idle"]
  /\ target = [p \in Procs |-> NoDoc]
  /\ seen = [p \in Procs |-> NoRow]
  /\ seenReview = [a \in Reviewers |-> NoRow]
  /\ held = [q \in Retries |-> NoEntry]
  /\ act = [a \in Reviewers |-> "accept"]
  /\ st = [r \in Runs |-> EmptyState]
  /\ faults = 0

-----------------------------------------------------------------------------
(* Rows, sessions and tasks *)

Exists(row) == row.status # "absent"

\* The row after an UPDATE that sets its status.
Updated(row, status) == [status |-> status, version |-> row.version + 1]

\* Mutant of Stale: a table without a version column.
StaleUnversioned(row, read) == ~ Exists(row)

\* An UPDATE of the row a session read as `read` finds no row of that version.
Stale(row, read) == ~ Exists(row) \/ row.version # read.version

Goto(p, step) == pc' = [pc EXCEPT ![p] = step]

\* enqueue_pipeline: a task is created; it has not run yet.  `moved` is pc with
\* the step of the caller.
Enqueue(d, moved) ==
  \E r \in Runs :
    /\ pc[r] = "idle"
    /\ pc' = [moved EXCEPT ![r] = "queued"]
    /\ target' = [target EXCEPT ![r] = d]

\* INSERT INTO dlq, status pending.
Bury(d) ==
  \E e \in Entries :
    /\ entry[e].status = "free"
    /\ entry' = [entry EXCEPT ![e] = [status |-> "pending", doc |-> d]]

\* One more of the faults this instance allows.
Fault ==
  /\ faults < MaxFaults
  /\ faults' = faults + 1

-----------------------------------------------------------------------------
(* POST /extract *)

\* create_document: the row is inserted (not yet committed), the file is saved.
UploadSave(d) ==
  /\ upload[d] = "none"
  /\ upload' = [upload EXCEPT ![d] = "saved"]
  /\ blob' = [blob EXCEPT ![d] = TRUE]
  /\ UNCHANGED <<rows, ckpt, vectors, flagged, pc, target, sessions, st, faults>>

\* The transaction commits.  The storage key, set after the INSERT was flushed,
\* is an UPDATE of its own, so the row starts its life at version 2.
UploadCommit(d) ==
  /\ upload[d] = "saved"
  /\ upload' = [upload EXCEPT ![d] = "committed"]
  /\ doc' = [doc EXCEPT ![d] = [status |-> "pending", version |-> 2]]
  /\ UNCHANGED <<result, review, entry, tombstones, stores, flagged, pc, target,
                 sessions, st, faults>>

UploadEnqueue(d) ==
  /\ upload[d] = "committed"
  /\ upload' = [upload EXCEPT ![d] = "enqueued"]
  /\ Enqueue(d, pc)
  /\ UNCHANGED <<rows, stores, flagged, sessions, st, faults>>

\* Anything raised before the commit rolls the row back; the file stays.
UploadFails(d) ==
  /\ upload[d] = "saved"
  /\ Fault
  /\ upload' = [upload EXCEPT ![d] = "failed"]
  /\ UNCHANGED <<rows, stores, flagged, pc, target, sessions, st>>

-----------------------------------------------------------------------------
(* run_pipeline: _load_initial_state and the graph *)

\* _load_initial_state; a missing document ends the task.
RunLoad(r) ==
  /\ pc[r] = "queued"
  /\ Goto(r, IF Exists(doc[target[r]]) THEN "loaded" ELSE "done")
  /\ UNCHANGED <<rows, stores, flagged, upload, target, sessions, st, faults>>

\* The run holds graph state s after a node, and it is checkpointed.
Checkpointed(r, s) ==
  /\ st' = [st EXCEPT ![r] = s]
  /\ ckpt' = [ckpt EXCEPT ![target[r]] = s]

\* ainvoke(initial): the input is merged into the thread's last checkpoint.
RunStart(r) ==
  /\ pc[r] = "loaded"
  /\ Goto(r, "parse")
  /\ Checkpointed(r, WithInput(ckpt[target[r]]))
  /\ UNCHANGED <<rows, blob, vectors, flagged, upload, target, sessions, faults>>

\* A node returned: its update is in the run's state and checkpointed.
RunNode(r, node, s, next) ==
  /\ pc[r] = node
  /\ Goto(r, next)
  /\ Checkpointed(r, s)
  /\ UNCHANGED <<rows, blob, vectors, flagged, upload, target, sessions, faults>>

\* A file that is gone cannot be loaded.
RunParse(r) ==
  /\ pc[r] = "parse"
  /\ \E out \in IF blob[target[r]] THEN Parsing ELSE {"failed"} :
       RunNode(r, "parse", ParseNode(st[r], out), "guardrail")

RunGuardrail(r) == RunNode(r, "guardrail", GuardrailNode(st[r]), "extract")

RunExtract(r) ==
  \E out \in Extracting : RunNode(r, "extract", ExtractNode(st[r], out), "score")

RunScore(r) ==
  \E level \in Levels : RunNode(r, "score", ScoreNode(st[r], level), "route")

RunRoute(r) ==
  RunNode(r, "route", RouteNode(st[r]), RouteDecision(RouteNode(st[r])))

RunTerminal(r) ==
  \E branch \in {"deliver", "review", "dlq"} :
    RunNode(r, branch, TerminalNode(branch, st[r]), "outcome")

-----------------------------------------------------------------------------
(* run_pipeline: _persist_outcome *)

\* Where _process goes after _persist_outcome returned.
AfterPersist(r) == IF st[r].status = "completed" THEN "hook" ELSE "done"

\* Mutant of PersistSkips: no erasure guard.
PersistSkipsMissing(d) == ~ Exists(doc[d])

\* The erasure guard, and a missing row.
PersistSkips(d) ==
  ~ Exists(doc[d]) \/ doc[d].status = "cancelled" \/ d \in flagged

\* The session reads the document; right after, the guard decides on the write.
PersistRead(r) ==
  /\ pc[r] = "outcome"
  /\ Goto(r, IF PersistSkips(target[r]) THEN AfterPersist(r) ELSE "commit")
  /\ seen' = [seen EXCEPT ![r] = doc[target[r]]]
  /\ UNCHANGED <<rows, stores, flagged, upload, target, seenReview, held, act, st,
                 faults>>

Outcome(r) == IF st[r].status \in Terminal THEN st[r].status ELSE "error"

\* Mutant of Extracted: the extraction is stored only once it is final.
ExtractedWhenCompleted(r) == Outcome(r) = "completed"

\* Outcomes that store an extraction.
Extracted(r) == Outcome(r) \in {"completed", "review"}

\* Mutant of PersistRows: no version check and no foreign keys.
PersistRowsUnchecked(r, touched) ==
  LET d == target[r] IN
  /\ doc' = IF touched THEN [doc EXCEPT ![d] = Updated(doc[d], Outcome(r))] ELSE doc
  /\ \/ /\ Extracted(r)
        /\ result' = [result EXCEPT ![d] = TRUE]
        /\ UNCHANGED <<review, entry>>
     \/ /\ ~ Extracted(r)
        /\ Bury(d)
        /\ UNCHANGED <<result, review>>

\* The rows of a successful persist.  Without an UPDATE of documents there is
\* no version check, but the child rows still need the document (foreign key),
\* and extraction_results has at most one row per document (unique key).
PersistRows(r, touched) ==
  LET d == target[r] IN
  /\ Exists(doc[d])
  /\ touched => ~ Stale(doc[d], seen[r])
  /\ doc' = IF touched THEN [doc EXCEPT ![d] = Updated(doc[d], Outcome(r))] ELSE doc
  /\ Extracted(r) => ~ result[d]
  /\ result' = [result EXCEPT ![d] = @ \/ Extracted(r)]
  /\ review' = IF Outcome(r) = "review"
                 THEN [review EXCEPT ![d] = [status |-> "pending", version |-> 1]]
                 ELSE review
  /\ IF Outcome(r) \in {"rejected", "error"} THEN Bury(d) ELSE UNCHANGED entry

\* Whether a persist with or without an UPDATE of documents raises.
PersistRaises(r, touched) ==
  LET d == target[r] IN
  \/ ~ Exists(doc[d])
  \/ touched /\ Stale(doc[d], seen[r])
  \/ Extracted(r) /\ result[d]

\* With a status equal to the one read, whether there is an UPDATE depends on
\* the routing and confidence columns, which the model leaves out.  A persist
\* that raises ends the task: its outcome is lost.
PersistCommit(r) ==
  /\ pc[r] = "commit"
  /\ \E touched \in BOOLEAN :
       /\ seen[r].status # Outcome(r) => touched
       /\ \/ /\ PersistRows(r, touched)
             /\ Goto(r, AfterPersist(r))
          \/ /\ PersistRaises(r, touched)
             /\ Goto(r, "done")
             /\ UNCHANGED <<doc, result, review, entry>>
  /\ UNCHANGED <<tombstones, stores, flagged, upload, target, sessions, st, faults>>

-----------------------------------------------------------------------------
(* _deliver_webhook: its task continues the completed run's id *)

\* The session reads document, tenant and result and builds the payload; a
\* missing document or webhook URL ends it.
HookBegin(r) ==
  /\ pc[r] = "hook"
  /\ \/ Exists(doc[target[r]]) /\ Goto(r, "posting")
     \/ Goto(r, "done")
  /\ UNCHANGED <<rows, stores, flagged, upload, target, sessions, st, faults>>

\* Delivered: the attempts are recorded when the session commits.  Nothing of
\* it is kept here.
HookDelivered(r) ==
  /\ pc[r] = "posting"
  /\ Goto(r, "done")
  /\ UNCHANGED <<rows, stores, flagged, upload, target, sessions, st, faults>>

\* Exhausted: a dead letter, lost with the transaction if the document is gone.
HookExhausted(r) ==
  /\ pc[r] = "posting"
  /\ Exists(doc[target[r]])
  /\ Bury(target[r])
  /\ Goto(r, "done")
  /\ UNCHANGED <<doc, result, review, tombstones, stores, flagged, upload, target,
                 sessions, st, faults>>

-----------------------------------------------------------------------------
(* DELETE /documents/{id}: erase_document *)

\* A client knows a document's id once its upload was answered.
EraseCancel(x, d) ==
  /\ pc[x] = "idle"
  /\ upload[d] = "enqueued"
  /\ flagged' = flagged \cup {d}
  /\ target' = [target EXCEPT ![x] = d]
  /\ Goto(x, "cancel")
  /\ UNCHANGED <<rows, stores, upload, sessions, st, faults>>

\* Mutant of EraseRead: the file goes before the document is marked.
EraseReadEager(x) ==
  /\ pc[x] = "cancel"
  /\ Goto(x, IF Exists(doc[target[x]]) THEN "mark" ELSE "done")
  /\ seen' = [seen EXCEPT ![x] = doc[target[x]]]
  /\ blob' = [blob EXCEPT ![target[x]] = FALSE]
  /\ UNCHANGED <<rows, ckpt, vectors, flagged, upload, target, seenReview, held, act,
                 st, faults>>

\* Mutant of EraseRead: a document whose run is in flight is refused.
EraseReadIdleOnly(x) ==
  /\ pc[x] = "cancel"
  /\ Goto(x, IF doc[target[x]].status \notin {"absent", "pending"} THEN "mark" ELSE "done")
  /\ seen' = [seen EXCEPT ![x] = doc[target[x]]]
  /\ UNCHANGED <<rows, stores, flagged, upload, target, seenReview, held, act, st,
                 faults>>

\* A missing document is a 404; the flag set before stays.
EraseRead(x) ==
  /\ pc[x] = "cancel"
  /\ Goto(x, IF Exists(doc[target[x]]) THEN "mark" ELSE "done")
  /\ seen' = [seen EXCEPT ![x] = doc[target[x]]]
  /\ UNCHANGED <<rows, stores, flagged, upload, target, seenReview, held, act, st,
                 faults>>

\* A document read as cancelled already is not updated.  A stale one ends the
\* request with an error; again the flag stays.
EraseMark(x) ==
  /\ pc[x] = "mark"
  /\ LET d == target[x] IN
     \/ /\ seen[x].status = "cancelled"
        /\ Goto(x, "blob")
        /\ UNCHANGED doc
     \/ /\ seen[x].status # "cancelled"
        /\ ~ Stale(doc[d], seen[x])
        /\ doc' = [doc EXCEPT ![d] = Updated(doc[d], "cancelled")]
        /\ Goto(x, "blob")
     \/ /\ seen[x].status # "cancelled"
        /\ Stale(doc[d], seen[x])
        /\ Goto(x, "done")
        /\ UNCHANGED doc
  /\ UNCHANGED <<result, review, entry, tombstones, stores, flagged, upload, target,
                 sessions, st, faults>>

\* An error of an external store is suppressed: the request goes on.
EraseBlob(x) ==
  /\ pc[x] = "blob"
  /\ Goto(x, "vectors")
  /\ \/ blob' = [blob EXCEPT ![target[x]] = FALSE] /\ UNCHANGED faults
     \/ Fault /\ UNCHANGED blob
  /\ UNCHANGED <<rows, ckpt, vectors, flagged, upload, target, sessions, st>>

EraseVectors(x) ==
  /\ pc[x] = "vectors"
  /\ Goto(x, "purge")
  /\ \/ vectors' = [vectors EXCEPT ![target[x]] = FALSE] /\ UNCHANGED faults
     \/ Fault /\ UNCHANGED vectors
  /\ UNCHANGED <<rows, ckpt, blob, flagged, upload, target, sessions, st>>

\* Mutant of ErasePurge: a thread that has no checkpoint yet is an error.
ErasePurgeUnchecked(x) ==
  /\ pc[x] = "purge"
  /\ Goto(x, IF ckpt[target[x]] = EmptyState THEN "done" ELSE "rows")
  /\ ckpt' = [ckpt EXCEPT ![target[x]] = EmptyState]
  /\ UNCHANGED <<rows, blob, vectors, flagged, upload, target, sessions, st, faults>>

\* _purge_checkpoints
ErasePurge(x) ==
  /\ pc[x] = "purge"
  /\ Goto(x, "rows")
  /\ ckpt' = [ckpt EXCEPT ![target[x]] = EmptyState]
  /\ UNCHANGED <<rows, blob, vectors, flagged, upload, target, sessions, st, faults>>

\* Mutant of EraseRows: the dead letters are kept, without their document.
EraseRowsKeepsLetters(x) ==
  /\ pc[x] = "rows"
  /\ LET d == target[x] IN
     /\ doc' = [doc EXCEPT ![d].status = "absent"]
     /\ result' = [result EXCEPT ![d] = FALSE]
     /\ review' = [review EXCEPT ![d].status = "absent"]
     /\ tombstones' = [tombstones EXCEPT ![d] = @ + 1]
     /\ flagged' = flagged \ {d}
  /\ Goto(x, "done")
  /\ UNCHANGED <<entry, stores, upload, target, sessions, st, faults>>

\* DELETE FROM documents, which cascades, and the tombstone, in one
\* transaction; then the flag is cleared.
EraseRows(x) ==
  /\ pc[x] = "rows"
  /\ LET d == target[x] IN
     /\ doc' = [doc EXCEPT ![d].status = "absent"]
     /\ result' = [result EXCEPT ![d] = FALSE]
     /\ review' = [review EXCEPT ![d].status = "absent"]
     /\ entry' = [e \in Entries |-> IF entry[e].doc = d
                                      THEN [entry[e] EXCEPT !.status = "deleted"]
                                      ELSE entry[e]]
     /\ tombstones' = [tombstones EXCEPT ![d] = @ + 1]
     /\ flagged' = flagged \ {d}
  /\ Goto(x, "done")
  /\ UNCHANGED <<stores, upload, target, sessions, st, faults>>

-----------------------------------------------------------------------------
(* POST /dlq/{id}/retry: retry_dlq *)

\* An entry that is not pending is a 409.
RetryRead(q, e) ==
  /\ pc[q] = "idle"
  /\ entry[e].status = "pending"
  /\ held' = [held EXCEPT ![q] = e]
  /\ target' = [target EXCEPT ![q] = entry[e].doc]
  /\ Goto(q, "entry")
  /\ UNCHANGED <<rows, stores, flagged, upload, seen, seenReview, act, st, faults>>

\* The document is read; then, with no await in between, the run is enqueued.
\* The transaction commits only after the handler has returned.
RetryEnqueue(q) ==
  /\ pc[q] = "entry"
  /\ seen' = [seen EXCEPT ![q] = doc[target[q]]]
  /\ Enqueue(target[q], [pc EXCEPT ![q] = "commit"])
  /\ UNCHANGED <<rows, stores, flagged, upload, seenReview, held, act, st, faults>>

\* Mutant of RetryTouches: the document's status is left alone.
RetryNeverTouches(q) == FALSE

\* Whether document.status = "pending" is an UPDATE.
RetryTouches(q) == seen[q].status # "pending"

\* The commit.  The entry has no version column; retry_count becomes 1 with the
\* status.
RetryCommit(q) ==
  /\ pc[q] = "commit"
  /\ Goto(q, "done")
  /\ LET d == target[q]
         e == held[q]
         touched == RetryTouches(q)
     IN  IF entry[e].status = "deleted" \/ (touched /\ Stale(doc[d], seen[q]))
           THEN UNCHANGED <<doc, entry>>
           ELSE /\ entry' = [entry EXCEPT ![e].status = "retrying"]
                /\ doc' = IF touched THEN [doc EXCEPT ![d] = Updated(doc[d], "pending")]
                                     ELSE doc
  /\ UNCHANGED <<result, review, tombstones, stores, flagged, upload, target,
                 sessions, st, faults>>

-----------------------------------------------------------------------------
(* POST /review/{id}: apply_action *)

\* The review is read, and its version is the one the client expects.
ReviewRead(a, d, action) ==
  /\ pc[a] = "idle"
  /\ Exists(review[d])
  /\ target' = [target EXCEPT ![a] = d]
  /\ seenReview' = [seenReview EXCEPT ![a] = review[d]]
  /\ act' = [act EXCEPT ![a] = action]
  /\ Goto(a, "load")
  /\ UNCHANGED <<rows, stores, flagged, upload, seen, held, st, faults>>

\* The document is read; a correction whose extraction is there goes on to the
\* example store.
ReviewLoad(a) ==
  /\ pc[a] = "load"
  /\ seen' = [seen EXCEPT ![a] = doc[target[a]]]
  /\ Goto(a, IF act[a] = "correct" /\ result[target[a]] THEN "writeback" ELSE "commit")
  /\ UNCHANGED <<rows, stores, flagged, upload, target, seenReview, held, act, st,
                 faults>>

\* The corrected example goes to Qdrant, before the transaction commits; an
\* error is logged and ignored.
ReviewWriteBack(a) ==
  /\ pc[a] = "writeback"
  /\ Goto(a, "commit")
  /\ \/ vectors' = [vectors EXCEPT ![target[a]] = TRUE] /\ UNCHANGED faults
     \/ Fault /\ UNCHANGED vectors
  /\ UNCHANGED <<rows, ckpt, blob, flagged, upload, target, sessions, st>>

\* Mutant of ReviewedStatus: a correction leaves the document in review.
ReviewedStatusDeferred(action) ==
  CASE action = "accept"  -> "completed"
    [] action = "reject"  -> "rejected"
    [] action = "correct" -> "review"

\* The document's status after the action.
ReviewedStatus(action) == IF action = "reject" THEN "rejected" ELSE "completed"

\* Both rows are versioned; either being stale rolls everything back.  A row
\* whose values do not change is not updated: repeating a correction or a
\* rejection is an UPDATE only if the corrections or the reason differ.  Nothing
\* asks whether the review is still open, or what the document's status is.
ReviewCommit(a) ==
  /\ pc[a] = "commit"
  /\ Goto(a, "done")
  /\ \E reviewTouched \in BOOLEAN :
       LET d == target[a]
           decided == ReviewOutcome[act[a]]
           status == ReviewedStatus(act[a])
           docTouched == Exists(seen[a]) /\ seen[a].status # status
       IN  /\ seenReview[a].status # decided => reviewTouched
           /\ seenReview[a].status = decided /\ act[a] = "accept" => ~ reviewTouched
           /\ IF \/ reviewTouched /\ Stale(review[d], seenReview[a])
                 \/ docTouched /\ Stale(doc[d], seen[a])
                THEN UNCHANGED <<doc, review>>
                ELSE /\ review' = IF reviewTouched
                                    THEN [review EXCEPT ![d] = Updated(review[d], decided)]
                                    ELSE review
                     /\ doc' = IF docTouched
                                 THEN [doc EXCEPT ![d] = Updated(doc[d], status)]
                                 ELSE doc
  /\ UNCHANGED <<result, entry, tombstones, stores, flagged, upload, target, sessions,
                 st, faults>>

-----------------------------------------------------------------------------
(* Failures *)

\* The process dies: its tasks, requests and cancellation flags are gone.  On
\* start the worker recovers nothing (worker/__main__.py only idles).
Crash ==
  /\ Fault
  /\ pc' = [p \in Procs |-> IF pc[p] = "idle" THEN "idle" ELSE "done"]
  /\ flagged' = {}
  /\ upload' = [d \in Docs |-> CASE upload[d] = "saved" -> "failed"
                                 [] upload[d] = "committed" -> "lost"
                                 [] OTHER -> upload[d]]
  /\ UNCHANGED <<rows, stores, target, sessions, st>>

\* A database error raised in the middle of a task or a request ends it.
Abort(p) ==
  /\ pc[p] \notin {"idle", "done"}
  /\ Fault
  /\ Goto(p, "done")
  /\ UNCHANGED <<rows, stores, flagged, upload, target, sessions, st>>

-----------------------------------------------------------------------------

UploadStep(d) == UploadSave(d) \/ UploadCommit(d) \/ UploadEnqueue(d)

GraphStep(r) ==
  \/ RunParse(r) \/ RunGuardrail(r) \/ RunExtract(r) \/ RunScore(r) \/ RunRoute(r)
  \/ RunTerminal(r)

RunStep(r) ==
  \/ RunLoad(r) \/ RunStart(r) \/ GraphStep(r) \/ PersistRead(r) \/ PersistCommit(r)
  \/ HookBegin(r) \/ HookDelivered(r) \/ HookExhausted(r)

\* What a DELETE request does once it has begun.
EraseStep(x) ==
  \/ EraseRead(x) \/ EraseMark(x) \/ EraseBlob(x) \/ EraseVectors(x) \/ ErasePurge(x)
  \/ EraseRows(x)

RetryStep(q) == RetryEnqueue(q) \/ RetryCommit(q)

ReviewStep(a) == ReviewLoad(a) \/ ReviewWriteBack(a) \/ ReviewCommit(a)

Next ==
  \/ \E d \in Docs : UploadStep(d) \/ UploadFails(d)
  \/ \E r \in Runs : RunStep(r)
  \/ \E x \in Erasures : EraseStep(x) \/ \E d \in Docs : EraseCancel(x, d)
  \/ \E q \in Retries : RetryStep(q) \/ \E e \in Entries : RetryRead(q, e)
  \/ \E a \in Reviewers :
       ReviewStep(a) \/ \E d \in Docs, action \in Actions : ReviewRead(a, d, action)
  \/ \E p \in Procs : Abort(p)
  \/ Crash

Spec == Init /\ [][Next]_vars

\* Every task and request that has begun is scheduled again by the event loop
\* (its awaits return or time out), and an upload goes on; no client has to send
\* a request, and no fault has to happen.
FairSpec ==
  /\ Spec
  /\ \A d \in Docs : WF_vars(UploadCommit(d)) /\ WF_vars(UploadEnqueue(d))
  /\ \A r \in Runs : WF_vars(RunStep(r))
  /\ \A x \in Erasures : WF_vars(EraseStep(x))
  /\ \A q \in Retries : WF_vars(RetryStep(q))
  /\ \A a \in Reviewers : WF_vars(ReviewStep(a))

-----------------------------------------------------------------------------
(* Safety *)

\* Once a document's row is gone no row made from it is left in Postgres, and
\* none comes back, whatever runs, webhooks, retries and reviews were in flight
\* when it was erased.
RowsNeedDocument ==
  \A d \in Docs : ~ Exists(doc[d]) =>
    /\ ~ result[d]
    /\ ~ Exists(review[d])
    /\ \A e \in Entries : entry[e].doc = d => entry[e].status = "deleted"

\* A document that is completed or waits for review has its extraction stored,
\* also after two runs of it, or a run and a reviewer, raced.
DecidedHasResult ==
  \A d \in Docs : doc[d].status \in {"completed", "review"} => result[d]

\* A document that waits for review has an open review task to be decided in.
ReviewIsOpen ==
  \A d \in Docs : doc[d].status = "review" => review[d].status = "pending"

\* A rejected document that no reviewer has decided can be retried: one of its
\* dead letters is still pending, however many retries of it have raced.
RejectedCanBeRetried ==
  \A d \in Docs : doc[d].status = "rejected" /\ review[d].status \in {"absent", "pending"} =>
    \E e \in Entries : entry[e] = [status |-> "pending", doc |-> d]

\* A session that works on d commits, or ends.
Leaves(p, d) == target[p] = d /\ pc[p] \in {"commit", "mark", "rows"} /\ pc'[p] # pc[p]

\* The row that a commit changes is the one its session read, status and version;
\* only the deletion that ends an erasure does not ask.  A run or an erasure never
\* changes a row that is marked.  A row is inserted once, by the upload.
DocumentWrite(d) ==
  /\ Exists(doc[d]) /\ doc'[d] # doc[d] =>
       \E p \in Procs :
         /\ Leaves(p, d)
         /\ pc[p] = "rows" \/ seen[p] = doc[d]
         /\ p \in Runs \/ pc[p] = "mark" => doc[d].status # "cancelled"
  /\ ~ Exists(doc[d]) /\ Exists(doc'[d]) => doc[d] = NoRow /\ upload[d] = "saved"

ReviewWrite(d) ==
  /\ Exists(review[d]) /\ review'[d] # review[d] =>
       \E p \in Procs :
         /\ Leaves(p, d)
         /\ pc[p] = "rows" \/ (p \in Reviewers /\ seenReview[p] = review[d])
  /\ ~ Exists(review[d]) /\ Exists(review'[d]) =>
       Exists(doc'[d]) /\ \E r \in Runs : Leaves(r, d)

\* Nothing is written over unread, whatever a session has waited for since it
\* read: no status of a document, no decision of a review, no erasure's mark.
NoLostUpdate == [][\A d \in Docs : DocumentWrite(d) /\ ReviewWrite(d)]_vars

\* Without retries and reviews an erasure wins: a document marked by it stays
\* marked until its rows are gone, and they stay gone.
ErasureWins ==
  [][\A d \in Docs :
       /\ doc[d].status = "cancelled" => doc'[d].status \in {"cancelled", "absent"}
       /\ tombstones[d] > 0 => doc'[d].status = "absent"]_vars

\* A document an erasure has not marked can still be parsed: its file is there.
LiveHasBlob ==
  \A d \in Docs : doc[d].status \notin {"absent", "cancelled"} => blob[d]

Owns(p, d) == target[p] = d /\ pc[p] \notin {"idle", "done"}

\* Where nothing fails and nobody retries, an unfinished document is never
\* abandoned: a pending one is about to be enqueued, or a run or an erasure is
\* working on it; one that is marked, an erasure is working on.
UnfinishedHasOwner ==
  \A d \in Docs :
    /\ doc[d].status = "pending" =>
         upload[d] = "committed" \/ \E p \in Runs \cup Erasures : Owns(p, d)
    /\ doc[d].status = "cancelled" => \E x \in Erasures : Owns(x, d)

\* Somebody other than an erasure works on d.
InUse(d) == \E p \in Runs \cup Retries \cup Reviewers : Owns(p, d)

\* An erasure is final once the tasks it met in flight are done: nothing takes the
\* document up again, no row of it comes back, and what those tasks have left in
\* the stores beside Postgres never grows.
ErasureIsFinal ==
  [][\A d \in Docs : tombstones[d] > 0 /\ ~ InUse(d) =>
       /\ ~ InUse(d)'
       /\ ~ Exists(doc'[d])
       /\ blob'[d] => blob[d]
       /\ vectors'[d] => vectors[d]
       /\ ckpt'[d] \in {ckpt[d], EmptyState}]_vars

\* How far a task or request is.
Stage(step) ==
  CASE step = "idle" -> 0
    [] step \in {"queued", "cancel", "entry", "load"} -> 1
    [] step \in {"loaded", "mark", "writeback"} -> 2
    [] step \in {"parse", "blob"} -> 3
    [] step \in {"guardrail", "vectors"} -> 4
    [] step \in {"extract", "purge"} -> 5
    [] step \in {"score", "rows"} -> 6
    [] step = "route" -> 7
    [] step \in {"deliver", "review", "dlq"} -> 8
    [] step = "outcome" -> 9
    [] step = "commit" -> 10
    [] step = "hook" -> 11
    [] step = "posting" -> 12
    [] step = "done" -> 13

\* No task or request ever goes back, whatever the others do to its document: each
\* ends after a bounded number of its own steps.
EveryTaskAdvances ==
  [][\A p \in Procs : pc'[p] = pc[p] \/ Stage(pc[p]) < Stage(pc'[p])]_vars

\* What retry_dlq promises: one document is not enqueued twice at a time.  Whether
\* the retries that enqueued it commit is another matter.
OneRunPerDocument ==
  \A d \in Docs, r1, r2 \in Runs :
    Owns(r1, d) /\ Owns(r2, d) /\ "posting" \notin {pc[r1], pc[r2]} => r1 = r2

\* What erase_document promises: a tombstone says that nothing made from the
\* document is left in any store.
ErasedLeavesNothing ==
  \A d \in Docs : tombstones[d] > 0 =>
    ~ blob[d] /\ ~ vectors[d] /\ ckpt[d] = EmptyState

-----------------------------------------------------------------------------
(* Refinement *)

Status == [d \in Docs |-> doc[d].status]

Decision == [d \in Docs |-> review[d].status]

Contract == INSTANCE DocumentContract WITH status <- Status, decision <- Decision

\* Sessions that read and commit later, with their versions, keys and cascades,
\* amount to atomic steps on the current rows.
ImplementsContract == Contract!Spec

-----------------------------------------------------------------------------
(* Liveness *)

\* Every accepted document leaves the pending state: it is decided or erased.
PendingIsDecided ==
  \A d \in Docs : doc[d].status = "pending" ~> doc[d].status # "pending"

\* A document marked by an erasure is erased, even if several requests erase it.
ErasureCompletes ==
  \A d \in Docs : doc[d].status = "cancelled" ~> doc[d].status = "absent"

=============================================================================
