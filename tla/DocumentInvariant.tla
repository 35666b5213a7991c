------------------------- MODULE DocumentInvariant -------------------------
(***************************************************************************)
(* The inductive invariant behind the theorems about DocumentLifecycle:    *)
(* what has to be remembered about rows, versions and half-done requests   *)
(* for the safety properties to survive every step.                        *)
(***************************************************************************)
EXTENDS DocumentLifecycle

\* The document's row has been committed at some time.
Known(d) == d \in Docs /\ doc[d].version > 0

\* A document has no row before its upload commits; afterwards its version is
\* never 0 again, even when the row is gone.
UploadInv ==
  \A d \in Docs : IF upload[d] \in {"none", "saved", "failed"}
                    THEN doc[d] = NoRow
                    ELSE doc[d].version > 0

\* Tasks and requests work on known documents.
TargetInv == \A p \in Procs : pc[p] # "idle" => Known(target[p])

\* Dead letters belong to known documents; a retry holds one of its target's.
EntryInv ==
  /\ \A e \in Entries : entry[e].status # "free" => Known(entry[e].doc)
  /\ \A q \in Retries : pc[q] # "idle" =>
       /\ held[q] \in Entries
       /\ entry[held[q]].status # "free"
       /\ entry[held[q]].doc = target[q]

\* Rows are read, and the session has not committed yet.
HasRead(p) == pc[p] \in {"commit", "mark", "writeback"}

\* Versions only grow, and a row that still has the version a session read is
\* the row it read.
ReadInv ==
  \A p \in Procs : HasRead(p) =>
    LET d == target[p] IN
    /\ seen[p].version <= doc[d].version
    /\ Exists(doc[d]) /\ seen[p].version = doc[d].version
         => seen[p].status = doc[d].status

\* What the erasure guard let through.
GuardInv ==
  \A r \in Runs : pc[r] = "commit" => seen[r].status \notin {"absent", "cancelled"}

\* A review task comes with an extraction, and a reviewer at work has one as
\* long as the document is there.  Nobody reopens a decided review, and nothing
\* sends a document to review that a reviewer has already read.
ReviewInv ==
  /\ \A d \in Docs : Exists(review[d]) => result[d]
  /\ \A a \in Reviewers : pc[a] \in {"load", "writeback", "commit"} =>
       LET d == target[a] IN
       /\ Exists(doc[d]) => Exists(review[d])
       /\ seenReview[a].status # "pending" /\ Exists(doc[d]) => review[d].status # "pending"
       /\ HasRead(a) /\ doc[d].status = "review" => seen[a].status = "review"

\* The same of a reviewer's review task.
ReviewReadInv ==
  \A a \in Reviewers : pc[a] \in {"load", "writeback", "commit"} =>
    LET d == target[a] IN
    /\ seenReview[a].version <= review[d].version
    /\ Exists(review[d]) /\ seenReview[a].version = review[d].version
         => seenReview[a].status = review[d].status

\* A pending dead letter that no half-done retry is about to use up without
\* making the document pending again.
Retryable(d) ==
  \E e \in Entries :
    /\ entry[e] = [status |-> "pending", doc |-> d]
    /\ \A q \in Retries :
         pc[q] = "commit" /\ held[q] = e => seen[q].status # "pending"

RetryInv ==
  \A d \in Docs :
    doc[d].status = "rejected" /\ review[d].status \in {"absent", "pending"} => Retryable(d)

\* A document that was known has no row exactly when it has been erased.
TombInv ==
  \A d \in Docs : tombstones[d] > 0 <=> doc[d].version > 0 /\ ~ Exists(doc[d])

\* Only a document whose upload was answered is erased, and an answer stays.
AnsweredInv ==
  /\ \A x \in Erasures : pc[x] # "idle" => upload[target[x]] = "enqueued"
  /\ \A d \in Docs : tombstones[d] > 0 => upload[d] = "enqueued"

\* A run that read a decided document will find its extraction.
FoundInv ==
  \A r \in Runs :
    /\ pc[r] = "commit" /\ seen[r].status \in {"completed", "review"}
    /\ Exists(doc[target[r]])
    => result[target[r]]

RowInv == TypeOK /\ UploadInv /\ TargetInv /\ EntryInv /\ RowsNeedDocument

\* What makes a run's write harmless to an erasure.
RaceInv == RowInv /\ ReadInv /\ GuardInv

\* What makes the decisions of runs, retries and reviewers consistent.
DecisionInv == RowInv /\ ReviewInv /\ DecidedHasResult /\ ReviewIsOpen /\ RetryInv

\* What makes every commit a step of DocumentContract.
ContractInv == RaceInv /\ DecisionInv /\ TombInv /\ FoundInv

-----------------------------------------------------------------------------
(* Instances in which only runs and erasures meet *)

Lone == Retries = {} /\ Reviewers = {}

\* An erasure works on the stores only of a document that is marked, and takes
\* no document for marked that is not.
Marked(x) ==
  \/ pc[x] \in {"blob", "vectors", "purge", "rows"}
  \/ pc[x] = "mark" /\ seen[x].status = "cancelled"

MarkInv ==
  \A x \in Erasures : Marked(x) => doc[target[x]].status \in {"cancelled", "absent"}

\* The file is there before the row.
FileInv == \A d \in Docs : upload[d] = "saved" => blob[d]

\* What makes an erasure win.
LoneInv == ContractInv /\ MarkInv /\ FileInv /\ LiveHasBlob

-----------------------------------------------------------------------------
(* Instances in which nothing fails *)

\* A marked document's erasure is past its mark.
MarkedInv ==
  \A d \in Docs : doc[d].status = "cancelled" =>
    \E x \in Erasures : target[x] = d /\ pc[x] \in {"blob", "vectors", "purge", "rows"}

\* A pending row is as its upload has left it, and so is what was read of it.
PendingInv ==
  /\ \A d \in Docs :
       /\ doc[d].version > 0 => doc[d].version >= 2
       /\ doc[d].status = "pending" => doc[d].version = 2 /\ ~ result[d]
  /\ \A p \in Procs : HasRead(p) => seen[p].version >= 2

\* The runs that can still decide a document.
Carries(r, d) == target[r] = d /\ pc[r] \in RunSteps \ {"hook", "posting"}

\* A pending document is about to be enqueued, or carried by a run, or being
\* erased; a flagged one is being erased.
OwnerInv ==
  /\ \A d \in flagged : doc[d].version > 0
  /\ \A d \in Docs : doc[d].status = "pending" =>
       /\ \/ upload[d] = "committed"
          \/ \E r \in Runs : Carries(r, d)
          \/ \E x \in Erasures : Owns(x, d)
       /\ d \in flagged => \E x \in Erasures : Owns(x, d)

\* What keeps a document from being abandoned, where nobody retries.
CareInv == RaceInv /\ PendingInv /\ OwnerInv

=============================================================================
