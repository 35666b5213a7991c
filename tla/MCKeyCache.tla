---------------------------- MODULE MCKeyCache ----------------------------
(* KeyCache for TLC: keys and lookups are interchangeable.                 *)
EXTENDS KeyCache, TLC

Symmetry == Permutations(Keys) \cup Permutations(Lookups)
=============================================================================
