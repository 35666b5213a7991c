-------------------------- MODULE MCCircuitBreaker --------------------------
(* CircuitBreaker on small instances. *)
EXTENDS CircuitBreaker, TLC

\* Calls are interchangeable.
Symmetry == Permutations(Calls)

=============================================================================
