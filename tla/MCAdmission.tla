---------------------------- MODULE MCAdmission ----------------------------
(* Admission on small instances. *)
EXTENDS Admission, TLC

\* Ids are interchangeable; only runs without a liveness property use this.
Symmetry == UNION {Permutations(Uploads), Permutations(Retries), Permutations(Sems)}

=============================================================================
