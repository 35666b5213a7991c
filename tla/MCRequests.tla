----------------------------- MODULE MCRequests -----------------------------
(***************************************************************************)
(* SchemaRegistry and KeyCache on small instances.  The two keep their     *)
(* state apart, rows of a schema here and the process's cache of keys      *)
(* there: no action of one reads or writes a variable of the other, and    *)
(* every property is about one of them.  What interleaving their steps     *)
(* would show of either it shows alone, so each is explored while the      *)
(* other is in its initial state, which makes the states of the two a sum  *)
(* instead of a product.                                                   *)
(***************************************************************************)
EXTENDS SchemaRegistry, KeyCache, TLC

RequestsInit == Init /\ KeyInit

RequestsNext ==
  \/ KeyInit /\ Next /\ UNCHANGED keyVars
  \/ Init /\ KeyNext /\ UNCHANGED vars

RequestsSpec == RequestsInit /\ [][RequestsNext]_<<vars, keyVars>>

\* Interchangeable ids; of those that are, only the ones worth their permutations.
Symmetry ==
  UNION {Permutations(Seeders), Permutations(Activators),
         Permutations(Keys), Permutations(Lookups)}

=============================================================================
