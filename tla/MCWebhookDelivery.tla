------------------------- MODULE MCWebhookDelivery -------------------------
(* WebhookDelivery on small instances. *)
EXTENDS WebhookDelivery, DocumentInvariant, TLC

\* Ids are interchangeable; liveness runs do not use this.
Symmetry ==
  UNION {Permutations(Docs), Permutations(Entries), Permutations(Runs),
         Permutations(Erasures), Permutations(Retries), Permutations(Reviewers)}

\* Two states that differ only in the locals of tasks that have ended have the
\* same futures: no action reads them again, but for the document of a run, whose
\* delivery rows go with it.
Working(p) == pc[p] # "done"

LiveView ==
  <<rows, stores, flagged, upload, pc, faults, hookVars,
    [r \in Runs |-> target[r]],
    [p \in {p \in Procs : Working(p)} |-> <<target[p], seen[p]>>],
    [a \in {a \in Reviewers : Working(a)} |-> <<seenReview[a], act[a]>>],
    [q \in {q \in Retries : Working(q)} |-> held[q]],
    [r \in {r \in Runs : Working(r)} |-> st[r]]>>

=============================================================================
