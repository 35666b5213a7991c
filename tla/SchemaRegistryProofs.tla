------------------------ MODULE SchemaRegistryProofs ------------------------
(***************************************************************************)
(* Theorems about SchemaRegistry, for any numbers of requests and          *)
(* documents.  Counting is safe although requests overwrite each other's   *)
(* counts, because every count that is or will be written was covered by   *)
(* an example when it was read; pinning is safe because a schema becomes   *)
(* active in the step that writes the snapshot of its version.             *)
(***************************************************************************)
EXTENDS SchemaRegistry, TLAPS

\* What the requests at work have read and brought.
SessionInv ==
  /\ \A p \in Creators \cup Editors : pc[p] = "commit" => wanted[p] \in Definitions
  /\ \A p \in Requests \ Creators : pc[p] \in {"embed", "commit"} =>
       row.status # "absent" /\ seen[p].defn \in Definitions

\* Counts that are stored, were read or will be written, against the examples.
SeedInv ==
  /\ CountedAreIndexed
  /\ ActiveIsSeeded
  /\ \A p \in Requests : seen[p].seeds <= examples
  /\ \A s \in Seeders : pc[s] = "commit" => seen[s].seeds + 1 <= examples
  /\ \A a \in Activators : pc[a] = "commit" => seen[a].seeds >= MinSeeds

\* Nothing deprecates a schema, so the version stays 1; an active schema and
\* the documents submitted under it have its snapshot.
VersionInv ==
  /\ row.version = 1
  /\ \A p \in Requests : seen[p].version = 1
  /\ row.status = "active" => \E s \in snapshots : s.version = 1
  /\ \A d \in Docs : pinned[d] # 0 => pinned[d] = 1 /\ \E s \in snapshots : s.version = 1

RegistryInv ==
  TypeOK /\ SessionInv /\ SeedInv /\ VersionInv /\ OneDefinitionPerVersion

-----------------------------------------------------------------------------

\* The invariant holds before the first request.
LEMMA RegistryInit == Init => RegistryInv
<1> SUFFICES ASSUME Init PROVE RegistryInv
  OBVIOUS
<1> USE EnoughSeeds DEF Init, NoSchema
<1>1. NoSchema \in Rows
  BY DEF Rows
<1>2. TypeOK
  BY <1>1 DEF TypeOK
<1>3. SessionInv /\ VersionInv /\ OneDefinitionPerVersion
  BY DEF SessionInv, VersionInv, OneDefinitionPerVersion, Requests
<1>4. SeedInv
  BY DEF SeedInv, CountedAreIndexed, ActiveIsSeeded, Requests
<1> QED BY <1>2, <1>3, <1>4 DEF RegistryInv

\* A request begins: it has read the row as it is.
LEMMA Begins ==
  ASSUME RegistryInv, NEW p \in Requests, NEW step \in {"embed", "commit"},
         NEW defn \in Definitions \cup {Blank}, Begin(p, step, defn),
         p \in Creators \cup Editors => defn \in Definitions,
         p \notin Creators => Exists,
         p \in Seeders => step = "embed",
         p \in Activators => row.seeds >= MinSeeds
  PROVE  RegistryInv'
<1> USE DEF RegistryInv, Begin, registry, docs, Exists
<1>1. /\ seen' = [seen EXCEPT ![p] = row] /\ wanted' = [wanted EXCEPT ![p] = defn]
      /\ pc' = [pc EXCEPT ![p] = step] /\ UNCHANGED <<row, snapshots, examples, pinned, used>>
  OBVIOUS
<1>2. TypeOK'
  BY <1>1 DEF TypeOK
<1>3. SessionInv'
  BY <1>1 DEF TypeOK, SessionInv, Requests
<1>4. SeedInv'
  <2>1. CountedAreIndexed' /\ ActiveIsSeeded'
    BY <1>1 DEF SeedInv, CountedAreIndexed, ActiveIsSeeded
  <2>2. \A q \in Requests : seen'[q].seeds <= examples'
    BY <1>1 DEF TypeOK, SeedInv, CountedAreIndexed
  <2>3. \A s \in Seeders : pc'[s] = "commit" => seen'[s].seeds + 1 <= examples'
    BY <1>1 DEF TypeOK, SeedInv, Requests
  <2>4. \A a \in Activators : pc'[a] = "commit" => seen'[a].seeds >= MinSeeds
    BY <1>1 DEF TypeOK, SeedInv, Requests
  <2> QED BY <2>1, <2>2, <2>3, <2>4 DEF SeedInv
<1>5. VersionInv'
  BY <1>1 DEF TypeOK, VersionInv
<1>6. OneDefinitionPerVersion'
  BY <1>1 DEF OneDefinitionPerVersion
<1> QED BY <1>2, <1>3, <1>4, <1>5, <1>6

\* A request ends, having written the row or a snapshot, or nothing.
LEMMA Ends ==
  ASSUME RegistryInv, NEW p \in Requests, End(p), UNCHANGED <<examples, pinned, used>>,
         row' \in Rows, row'.status # "absent" => row'.defn \in Definitions,
         row.status # "absent" => row'.status # "absent",
         row'.version = 1, CountedAreIndexed', ActiveIsSeeded',
         snapshots' \subseteq [version : Nat \ {0}, defn : Definitions],
         snapshots \subseteq snapshots', OneDefinitionPerVersion',
         row'.status = "active" => \E s \in snapshots' : s.version = 1
  PROVE  RegistryInv'
<1> USE DEF RegistryInv, End
<1>1. /\ seen' = [seen EXCEPT ![p] = NoSchema] /\ wanted' = [wanted EXCEPT ![p] = Blank]
      /\ pc' = [pc EXCEPT ![p] = "done"]
  OBVIOUS
<1>2. NoSchema \in Rows /\ NoSchema.seeds = 0 /\ NoSchema.version = 1
  BY DEF NoSchema, Rows
<1>3. TypeOK'
  BY <1>1, <1>2 DEF TypeOK
<1>4. SessionInv'
  BY <1>1 DEF TypeOK, SessionInv, Requests
<1>5. SeedInv'
  <2>1. examples \in Nat /\ examples' = examples
    BY DEF TypeOK
  <2>2. \A q \in Requests : seen'[q].seeds <= examples'
    BY <1>1, <1>2, <2>1 DEF TypeOK, SeedInv
  <2>3. \A s \in Seeders : pc'[s] = "commit" => seen'[s].seeds + 1 <= examples'
    BY <1>1, <2>1 DEF TypeOK, SeedInv, Requests
  <2>4. \A a \in Activators : pc'[a] = "commit" => seen'[a].seeds >= MinSeeds
    BY <1>1 DEF TypeOK, SeedInv, Requests
  <2> QED BY <2>2, <2>3, <2>4 DEF SeedInv
<1>6. VersionInv'
  BY <1>1, <1>2 DEF TypeOK, VersionInv
<1> QED BY <1>3, <1>4, <1>5, <1>6

\* What a request does when it ends.
LEMMA CommitStep ==
  ASSUME RegistryInv, NEW p \in Requests,
         \/ p \in Creators /\ CreateCommit(p)
         \/ p \in Editors /\ EditCommit(p)
         \/ p \in Seeders /\ SeedCommit(p)
         \/ p \in Activators /\ ActivateCommit(p)
         \/ Abort(p)
  PROVE  RegistryInv'
<1> USE DEF registry, docs
<1>1. row \in Rows /\ row.version = 1 /\ examples \in Nat
  BY DEF RegistryInv, TypeOK, VersionInv
<1>2. CASE p \in Creators /\ CreateCommit(p)
  <2>1. wanted[p] \in Definitions
    BY <1>2 DEF CreateCommit, RegistryInv, SessionInv
  <2>2. CASE Exists
    BY <1>1, <1>2, <2>2, Ends DEF CreateCommit, RegistryInv, TypeOK, VersionInv, SeedInv,
       CountedAreIndexed, ActiveIsSeeded, OneDefinitionPerVersion
  <2>3. CASE ~ Exists
    <3>1. row' = Created(wanted[p]) /\ UNCHANGED <<snapshots, examples, pinned, used>> /\ End(p)
      BY <1>2, <2>3 DEF CreateCommit
    <3>2. row' \in Rows /\ row'.defn \in Definitions /\ row'.version = 1
          /\ row'.status = "draft" /\ row'.seeds = 0
      BY <2>1, <3>1 DEF Created, Rows
    <3>3. CountedAreIndexed' /\ ActiveIsSeeded' /\ OneDefinitionPerVersion'
      BY <1>1, <3>1, <3>2 DEF CountedAreIndexed, ActiveIsSeeded, RegistryInv,
         OneDefinitionPerVersion
    <3> QED BY <3>1, <3>2, <3>3, Ends DEF RegistryInv, TypeOK
  <2> QED BY <2>2, <2>3
<1>3. CASE p \in Editors /\ EditCommit(p)
  <2>1. /\ row' = [row EXCEPT !.defn = Merged(row.defn, seen[p].defn, wanted[p])]
        /\ UNCHANGED <<snapshots, examples, pinned, used>> /\ End(p)
    BY <1>3 DEF EditCommit
  <2>2. /\ wanted[p] \in Definitions /\ seen[p].defn \in Definitions
        /\ row.status # "absent" /\ row.defn \in Definitions
    BY <1>3, Kinds DEF EditCommit, RegistryInv, SessionInv, TypeOK
  <2>3. Merged(row.defn, seen[p].defn, wanted[p]) \in Definitions
    BY <2>2 DEF Merged, Definitions
  <2>4. /\ row' \in Rows /\ row'.defn \in Definitions /\ row'.version = 1
        /\ row'.status = row.status /\ row'.seeds = row.seeds
    BY <1>1, <2>1, <2>3 DEF Rows
  <2>5. CountedAreIndexed' /\ ActiveIsSeeded' /\ OneDefinitionPerVersion'
    BY <2>1, <2>4 DEF CountedAreIndexed, ActiveIsSeeded, RegistryInv, SeedInv,
       OneDefinitionPerVersion
  <2> QED BY <2>1, <2>4, <2>5, Ends DEF RegistryInv, TypeOK, VersionInv
<1>4. CASE p \in Seeders /\ SeedCommit(p) /\ row' = row
  BY <1>1, <1>4, Ends DEF SeedCommit, RegistryInv, TypeOK, VersionInv, SeedInv,
     CountedAreIndexed, ActiveIsSeeded, OneDefinitionPerVersion
<1>5. CASE p \in Seeders /\ SeedCommit(p) /\ row' = Counted(seen[p])
  <2>1. /\ row' = [row EXCEPT !.seeds = seen[p].seeds + 1]
        /\ UNCHANGED <<snapshots, examples, pinned, used>> /\ End(p)
    BY <1>5 DEF SeedCommit, Counted
  <2>2. seen[p].seeds \in Nat /\ seen[p].seeds + 1 <= examples
    BY <1>5 DEF SeedCommit, RegistryInv, SeedInv, TypeOK, Rows
  <2>3. /\ row' \in Rows /\ row'.defn = row.defn /\ row'.version = 1
        /\ row'.status = row.status /\ row'.seeds = seen[p].seeds + 1
    BY <1>1, <2>1, <2>2 DEF Rows
  <2>4. CountedAreIndexed' /\ ActiveIsSeeded' /\ OneDefinitionPerVersion'
    BY <2>1, <2>2, <2>3 DEF CountedAreIndexed, ActiveIsSeeded, RegistryInv, SeedInv,
       OneDefinitionPerVersion
  <2> QED BY <2>1, <2>3, <2>4, Ends DEF RegistryInv, TypeOK, VersionInv
<1>6. CASE p \in Activators /\ ActivateCommit(p)
  <2>1. UNCHANGED <<examples, pinned, used>> /\ End(p)
    BY <1>6 DEF ActivateCommit
  <2>2. /\ ActivatedVersion(seen[p]) = 1
    BY DEF ActivatedVersion, RegistryInv, TypeOK, Rows, VersionInv
  <2>3. CASE SnapshotTaken(1) \/ ~ Gated(Activated(seen[p]))
    <3>1. UNCHANGED <<row, snapshots>>
      BY <1>6, <2>2, <2>3 DEF ActivateCommit
    <3> QED BY <1>1, <2>1, <3>1, Ends DEF RegistryInv, TypeOK, VersionInv, SeedInv,
       CountedAreIndexed, ActiveIsSeeded, OneDefinitionPerVersion
  <2>4. CASE ~ SnapshotTaken(1) /\ Gated(Activated(seen[p]))
    <3>1. /\ snapshots' = snapshots \cup {[version |-> 1, defn |-> seen[p].defn]}
          /\ row' = [row EXCEPT !.status = "active", !.version = 1]
      BY <1>6, <2>2, <2>4 DEF ActivateCommit, Activated
    <3>2. seen[p].defn \in Definitions /\ row.status # "absent" /\ row.defn \in Definitions
      BY <1>6, Kinds DEF ActivateCommit, RegistryInv, SessionInv, TypeOK
    <3>3. /\ row' \in Rows /\ row'.defn = row.defn /\ row'.version = 1
          /\ row'.status = "active" /\ row'.seeds = row.seeds
      BY <1>1, <3>1 DEF Rows
    <3>4. snapshots' \subseteq [version : Nat \ {0}, defn : Definitions]
      BY <3>1, <3>2 DEF RegistryInv, TypeOK
    <3>5. OneDefinitionPerVersion'
      BY <2>4, <3>1 DEF SnapshotTaken, RegistryInv, OneDefinitionPerVersion
    <3>6. CountedAreIndexed' /\ ActiveIsSeeded'
      <4>1. seen[p].seeds >= MinSeeds /\ seen[p].seeds <= examples /\ seen[p].seeds \in Nat
        BY <1>6 DEF ActivateCommit, RegistryInv, SeedInv, TypeOK, Rows
      <4> QED BY <1>1, <2>1, <3>3, <4>1, EnoughSeeds DEF CountedAreIndexed, ActiveIsSeeded,
         RegistryInv, SeedInv
    <3>7. \E s \in snapshots' : s.version = 1
      <4> DEFINE taken == [version |-> 1, defn |-> seen[p].defn]
      <4>1. taken \in snapshots' /\ taken.version = 1
        BY <3>1
      <4> QED BY <4>1
    <3>8. snapshots \subseteq snapshots'
      BY <3>1
    <3> QED BY <2>1, <3>2, <3>3, <3>4, <3>5, <3>6, <3>7, <3>8, Ends
  <2> QED BY <2>3, <2>4
<1>7. CASE Abort(p)
  BY <1>1, <1>7, Ends DEF Abort, RegistryInv, TypeOK, VersionInv, SeedInv,
     CountedAreIndexed, ActiveIsSeeded, OneDefinitionPerVersion
<1> QED BY <1>2, <1>3, <1>4, <1>5, <1>6, <1>7 DEF SeedCommit

\* An example is stored: it covers the count its request is about to write.
LEMMA UpsertStep ==
  ASSUME RegistryInv, NEW p \in Seeders, SeedUpsert(p)
  PROVE  RegistryInv'
<1> USE DEF RegistryInv, docs
<1>1. /\ pc[p] = "embed" /\ pc' = [pc EXCEPT ![p] = "commit"] /\ examples' = examples + 1
      /\ UNCHANGED <<row, snapshots, seen, wanted, pinned, used>>
  BY DEF SeedUpsert
<1>2. p \in Requests /\ p \notin Creators \cup Editors \cup Activators
  BY Kinds DEF Requests
<1>3. TypeOK'
  <2>1. examples' \in Nat
    BY <1>1 DEF TypeOK
  <2>2. pc' \in [Requests -> {"idle", "embed", "commit", "done"}]
    BY <1>1 DEF TypeOK
  <2> QED BY <1>1, <2>1, <2>2 DEF TypeOK
<1>4. SessionInv'
  BY <1>1, <1>2 DEF TypeOK, SessionInv, Requests
<1>5. SeedInv'
  <2>1. examples \in Nat /\ row.seeds \in Nat /\ \A q \in Requests : seen[q].seeds \in Nat
    BY DEF TypeOK, Rows
  <2>2. CountedAreIndexed' /\ ActiveIsSeeded'
    BY <1>1, <2>1, EnoughSeeds DEF SeedInv, CountedAreIndexed, ActiveIsSeeded
  <2>3. \A q \in Requests : seen'[q].seeds <= examples'
    BY <1>1, <2>1 DEF SeedInv
  <2>4. \A s \in Seeders : pc'[s] = "commit" => seen'[s].seeds + 1 <= examples'
    BY <1>1, <2>1 DEF TypeOK, SeedInv, Requests
  <2>5. \A a \in Activators : pc'[a] = "commit" => seen'[a].seeds >= MinSeeds
    BY <1>1, <1>2 DEF TypeOK, SeedInv, Requests
  <2> QED BY <2>2, <2>3, <2>4, <2>5 DEF SeedInv
<1>6. VersionInv' /\ OneDefinitionPerVersion'
  BY <1>1 DEF VersionInv, OneDefinitionPerVersion
<1> QED BY <1>3, <1>4, <1>5, <1>6

\* A step of a document.
LEMMA DocStep ==
  ASSUME RegistryInv, NEW d \in Docs, Submit(d) \/ RunLoad(d)
  PROVE  RegistryInv'
<1> USE DEF RegistryInv, registry, requests
<1>1. UNCHANGED <<row, snapshots, examples, pc, seen, wanted>>
  BY DEF Submit, RunLoad
<1>2. SessionInv' /\ SeedInv' /\ OneDefinitionPerVersion'
  BY <1>1 DEF SessionInv, SeedInv, CountedAreIndexed, ActiveIsSeeded, OneDefinitionPerVersion
<1>3. CASE Submit(d)
  <2>1. pinned' = [pinned EXCEPT ![d] = 1] /\ UNCHANGED used /\ row.status = "active"
    BY <1>3 DEF Submit, VersionInv
  <2>2. TypeOK'
    BY <1>1, <2>1 DEF TypeOK
  <2>3. VersionInv'
    BY <1>1, <2>1 DEF TypeOK, VersionInv
  <2> QED BY <1>2, <2>2, <2>3
<1>4. CASE RunLoad(d)
  <2>1. used' = [used EXCEPT ![d] = row.defn] /\ UNCHANGED pinned
    BY <1>4 DEF RunLoad
  <2>2. row.defn \in Definitions \cup {Blank}
    BY DEF TypeOK, Rows
  <2>3. TypeOK'
    BY <1>1, <2>1, <2>2 DEF TypeOK
  <2>4. VersionInv'
    BY <1>1, <2>1 DEF VersionInv
  <2> QED BY <1>2, <2>3, <2>4
<1> QED BY <1>3, <1>4

\* Every step preserves it.
LEMMA RegistryStep == RegistryInv /\ [Next]_vars => RegistryInv'
<1> SUFFICES ASSUME RegistryInv, [Next]_vars PROVE RegistryInv'
  OBVIOUS
<1> USE Kinds DEF Requests
<1>1. ASSUME NEW c \in Creators, CreateBegin(c)
      PROVE  RegistryInv'
  BY <1>1, Begins DEF CreateBegin
<1>2. ASSUME NEW e \in Editors, EditBegin(e)
      PROVE  RegistryInv'
  BY <1>2, Begins DEF EditBegin
<1>3. ASSUME NEW s \in Seeders, SeedBegin(s)
      PROVE  RegistryInv'
  BY <1>3, Begins DEF SeedBegin
<1>4. ASSUME NEW a \in Activators, ActivateBegin(a)
      PROVE  RegistryInv'
  BY <1>4, Begins DEF ActivateBegin, Activatable
<1>5. ASSUME NEW c \in Creators, CreateCommit(c)
      PROVE  RegistryInv'
  BY <1>5, CommitStep
<1>6. ASSUME NEW e \in Editors, EditCommit(e)
      PROVE  RegistryInv'
  BY <1>6, CommitStep
<1>7. ASSUME NEW s \in Seeders, SeedCommit(s)
      PROVE  RegistryInv'
  BY <1>7, CommitStep
<1>8. ASSUME NEW a \in Activators, ActivateCommit(a)
      PROVE  RegistryInv'
  BY <1>8, CommitStep
<1>9. ASSUME NEW p \in Requests, Abort(p)
      PROVE  RegistryInv'
  BY <1>9, CommitStep
<1>10. CASE UNCHANGED vars
  BY <1>10 DEF vars, RegistryInv, TypeOK, SessionInv, SeedInv, CountedAreIndexed,
     ActiveIsSeeded, VersionInv, OneDefinitionPerVersion
<1> QED BY <1>1, <1>2, <1>3, <1>4, <1>5, <1>6, <1>7, <1>8, <1>9, <1>10, UpsertStep, DocStep
        DEF Next

\* So it holds in every state of every behaviour.
LEMMA RegistryAlways == Spec => []RegistryInv
BY RegistryInit, RegistryStep, PTL DEF Spec

-----------------------------------------------------------------------------
(* The theorems *)

\* Every variable keeps its type, the columns that edits merge included.
THEOREM TypeCorrect == Spec => []TypeOK
<1>1. RegistryInv => TypeOK
  BY DEF RegistryInv
<1> QED BY <1>1, RegistryAlways, PTL

\* seed_count never claims an example that Qdrant does not hold, although
\* requests that overlap overwrite each other's counts.
THEOREM CountsAreCovered == Spec => []CountedAreIndexed
<1>1. RegistryInv => CountedAreIndexed
  BY DEF RegistryInv, SeedInv
<1> QED BY <1>1, RegistryAlways, PTL

\* A schema that is active has the examples activation asks for.
THEOREM ActiveStaysSeeded == Spec => []ActiveIsSeeded
<1>1. RegistryInv => ActiveIsSeeded
  BY DEF RegistryInv, SeedInv
<1> QED BY <1>1, RegistryAlways, PTL

\* No document is pinned to a version that was never snapshotted.
THEOREM PinsHaveSnapshots == Spec => []PinnedVersionExists
<1>1. RegistryInv => PinnedVersionExists
  BY DEF RegistryInv, VersionInv, PinnedVersionExists
<1> QED BY <1>1, RegistryAlways, PTL

\* A published version has one definition.
THEOREM VersionsAreUnique == Spec => []OneDefinitionPerVersion
<1>1. RegistryInv => OneDefinitionPerVersion
  BY DEF RegistryInv
<1> QED BY <1>1, RegistryAlways, PTL

=============================================================================
