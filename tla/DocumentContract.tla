-------------------------- MODULE DocumentContract --------------------------
(***************************************************************************)
(* What the handlers promise of a document's rows together: every session, *)
(* however long before its commit it has read, changes them in one of the  *)
(* steps below, whose guards hold of the rows as they are at the commit.   *)
(* No versions, tasks or sessions are left.  DocumentLifecycle implements  *)
(* this.                                                                   *)
(***************************************************************************)
EXTENDS Naturals

CONSTANTS Docs, Entries, NoDoc

VARIABLES
  status,    \* documents.status, "absent" when there is no row
  result,    \* whether extraction_results has the document's row
  decision,  \* review_tasks.status
  entry,     \* dlq
  tombstones \* ERASURE_COMPLETED events

contract == <<status, result, decision, entry, tombstones>>

TypeOK ==
  /\ status \in [Docs -> {"absent", "pending", "completed", "review", "rejected",
                         "error", "cancelled"}]
  /\ result \in [Docs -> BOOLEAN]
  /\ decision \in [Docs -> {"absent", "pending", "accepted", "corrected", "rejected"}]
  /\ entry \in [Entries -> [status : {"free", "pending", "retrying", "deleted"},
                            doc    : Docs \cup {NoDoc}]]
  /\ tombstones \in [Docs -> Nat]

Init ==
  /\ status = [d \in Docs |-> "absent"]
  /\ result = [d \in Docs |-> FALSE]
  /\ decision = [d \in Docs |-> "absent"]
  /\ entry = [e \in Entries |-> [status |-> "free", doc |-> NoDoc]]
  /\ tombstones = [d \in Docs |-> 0]

Set(d, new) == status' = [status EXCEPT ![d] = new]

Bury(d) ==
  \E e \in Entries :
    /\ entry[e].status = "free"
    /\ entry' = [entry EXCEPT ![e] = [status |-> "pending", doc |-> d]]

\* A document is submitted once, and never again after it was erased.
Submit(d) ==
  /\ status[d] = "absent" /\ tombstones[d] = 0
  /\ Set(d, "pending")
  /\ UNCHANGED <<result, decision, entry, tombstones>>

\* A run ends with an extraction: its first, and of a document that is not
\* being erased.
Accept(d, outcome) ==
  /\ status[d] \notin {"absent", "cancelled"}
  /\ ~ result[d] /\ decision[d] = "absent"
  /\ Set(d, outcome)
  /\ result' = [result EXCEPT ![d] = TRUE]
  /\ decision' = IF outcome = "review" THEN [decision EXCEPT ![d] = "pending"] ELSE decision
  /\ UNCHANGED <<entry, tombstones>>

\* A run ends without one: the letter is written with the status.
Reject(d, outcome) ==
  /\ status[d] \notin {"absent", "cancelled"}
  /\ Set(d, outcome)
  /\ Bury(d)
  /\ UNCHANGED <<result, decision, tombstones>>

\* A letter of its own: an exhausted webhook, or a second run that is rejected
\* like the one before.
Letter(d) ==
  /\ status[d] # "absent"
  /\ Bury(d)
  /\ UNCHANGED <<status, result, decision, tombstones>>

\* A document that no reviewer has decided.
Undecided(d) == decision[d] \in {"absent", "pending"}

\* A letter that a retry can still use.
PendingLetter(e, d) == entry[e] = [status |-> "pending", doc |-> d]

\* The letter is used up even if the status is not set, which is so when the
\* request has read it as pending; but then it is not the last letter of a
\* document that has been rejected meanwhile.
Retry(e) ==
  LET d == entry[e].doc IN
  /\ entry[e].status \in {"pending", "retrying"}
  /\ status[d] # "absent"
  /\ entry' = [entry EXCEPT ![e].status = "retrying"]
  /\ \/ Set(d, "pending")
     \/ /\ status[d] = "rejected" /\ Undecided(d) =>
             \E other \in Entries \ {e} : PendingLetter(other, d)
        /\ UNCHANGED status
  /\ UNCHANGED <<result, decision, tombstones>>

\* accept and correct complete the document.
Decisions == {<<"completed", "accepted">>, <<"completed", "corrected">>,
              <<"rejected", "rejected">>}

\* An open review is decided, and a document in review with it.  A review that is
\* not open any more may be decided again, for itself or for the document alone.
Review(d, new, decided) ==
  /\ status[d] # "absent" /\ decision[d] # "absent"
  /\ \/ Set(d, new)
     \/ status[d] # "review" /\ UNCHANGED status
  /\ \/ decision' = [decision EXCEPT ![d] = decided]
     \/ ~ Undecided(d) /\ UNCHANGED decision
  /\ UNCHANGED <<result, entry, tombstones>>

Mark(d) ==
  /\ status[d] \notin {"absent", "cancelled"}
  /\ Set(d, "cancelled")
  /\ UNCHANGED <<result, decision, entry, tombstones>>

\* All rows go in one step that leaves a tombstone; a second request that was
\* on its way leaves another.
Erase(d) ==
  /\ status[d] # "absent" \/ tombstones[d] > 0
  /\ Set(d, "absent")
  /\ result' = [result EXCEPT ![d] = FALSE]
  /\ decision' = [decision EXCEPT ![d] = "absent"]
  /\ entry' = [e \in Entries |-> IF entry[e].doc = d
                                   THEN [entry[e] EXCEPT !.status = "deleted"]
                                   ELSE entry[e]]
  /\ tombstones' = [tombstones EXCEPT ![d] = @ + 1]

Next ==
  \/ \E d \in Docs :
       \/ Submit(d) \/ Letter(d) \/ Mark(d) \/ Erase(d)
       \/ \E outcome \in {"completed", "review"} : Accept(d, outcome)
       \/ \E outcome \in {"rejected", "error"} : Reject(d, outcome)
       \/ \E new \in Decisions : Review(d, new[1], new[2])
  \/ \E e \in Entries : Retry(e)

Spec == Init /\ [][Next]_contract

-----------------------------------------------------------------------------
(* What the steps make of a document *)

\* The rows are there as the status says: an extraction with each decision, an
\* open task with a document in review, a letter to retry a rejected document,
\* and nothing of one that is gone.
RowsAgree ==
  \A d \in Docs :
    /\ status[d] \in {"completed", "review"} \/ decision[d] # "absent" => result[d]
    /\ status[d] = "review" => decision[d] = "pending"
    /\ status[d] = "rejected" /\ Undecided(d) => \E e \in Entries : PendingLetter(e, d)
    /\ status[d] = "absent" =>
         /\ ~ result[d] /\ decision[d] = "absent"
         /\ \A e \in Entries : entry[e].doc = d => entry[e].status = "deleted"
    /\ tombstones[d] > 0 => status[d] = "absent"

=============================================================================
