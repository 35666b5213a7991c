-------------------------- MODULE MCSchemaRegistry --------------------------
(* SchemaRegistry on small instances. *)
EXTENDS SchemaRegistry, TLC

\* Requests of a kind, documents and the values of a column are interchangeable.
Symmetry ==
  UNION {Permutations(Creators), Permutations(Editors), Permutations(Seeders),
         Permutations(Activators), Permutations(Docs), Permutations(Values)}

=============================================================================
