--------------------------- MODULE SchemaRegistry ---------------------------
(***************************************************************************)
(* The extraction schema registry, followed for one schema name of one     *)
(* tenant: creation, editing, seed examples and activation by concurrent   *)
(* requests, and the documents that are submitted under the schema and run *)
(* later.                                                                  *)
(*                                                                         *)
(* A request reads the row when it begins and commits when it ends.  The   *)
(* schemas table has no version column to check, and an UPDATE writes just *)
(* the columns whose value differs from the one that was read, so what two *)
(* requests write is merged column by column.  A definition is what an     *)
(* activation copies to schema_versions: the JSON schema, the required and *)
(* PII fields and the prompt template.                                     *)
(*                                                                         *)
(* A trigger of the table refuses to store an active row whose count is    *)
(* too low: the writer's transaction fails and writes nothing.             *)
(*                                                                         *)
(* Nothing in app/ deprecates a schema, so that status does not occur.     *)
(***************************************************************************)
EXTENDS Naturals

CONSTANTS
  Creators,   \* POST /schemas requests
  Editors,    \* PUT /schemas/{id} requests
  Seeders,    \* POST /schemas/{id}/seeds requests
  Activators, \* POST /schemas/{id}/activate requests
  Docs,       \* documents submitted under the schema
  Columns,    \* the columns of a definition
  Values,     \* what a column may hold in this instance
  MinSeeds,   \* MIN_SEEDS_FOR_ACTIVATION
  Blank       \* no definition

Requests == Creators \cup Editors \cup Seeders \cup Activators

Definitions == [Columns -> Values]

ASSUME Kinds ==
  /\ Creators \cap (Editors \cup Seeders \cup Activators) = {}
  /\ Editors \cap (Seeders \cup Activators) = {}
  /\ Seeders \cap Activators = {}

ASSUME EnoughSeeds == MinSeeds \in Nat

ASSUME NoBlank == Blank \notin Definitions

VARIABLES
  row,       \* the schemas row
  snapshots, \* schema_versions
  examples,  \* how many seed examples of the schema Qdrant holds
  pc,        \* where each request is
  seen,      \* the row its session read
  wanted,    \* the definition a request brings
  pinned,    \* documents.schema_version, 0 before the submission
  used       \* the definition a document's run was started with

registry == <<row, snapshots, examples>>
requests == <<pc, seen, wanted>>
docs     == <<pinned, used>>
vars     == <<row, snapshots, examples, pc, seen, wanted, pinned, used>>

Rows == [status : {"absent", "draft", "active"}, version : Nat \ {0},
         defn : Definitions \cup {Blank}, seeds : Nat]

NoSchema == [status |-> "absent", version |-> 1, defn |-> Blank, seeds |-> 0]

TypeOK ==
  /\ row \in Rows
  /\ row.status # "absent" => row.defn \in Definitions
  /\ snapshots \subseteq [version : Nat \ {0}, defn : Definitions]
  /\ examples \in Nat
  /\ pc \in [Requests -> {"idle", "embed", "commit", "done"}]
  /\ seen \in [Requests -> Rows]
  /\ wanted \in [Requests -> Definitions \cup {Blank}]
  /\ pinned \in [Docs -> Nat]
  /\ used \in [Docs -> Definitions \cup {Blank}]

Init ==
  /\ row = NoSchema
  /\ snapshots = {}
  /\ examples = 0
  /\ pc = [p \in Requests |-> "idle"]
  /\ seen = [p \in Requests |-> NoSchema]
  /\ wanted = [p \in Requests |-> Blank]
  /\ pinned = [d \in Docs |-> 0]
  /\ used = [d \in Docs |-> Blank]

-----------------------------------------------------------------------------
(* Requests *)

Exists == row.status # "absent"

\* The session reads the row; the request then goes to `step` and brings `defn`.
Begin(p, step, defn) ==
  /\ pc[p] = "idle"
  /\ pc' = [pc EXCEPT ![p] = step]
  /\ seen' = [seen EXCEPT ![p] = row]
  /\ wanted' = [wanted EXCEPT ![p] = defn]
  /\ UNCHANGED <<registry, docs>>

\* trg_schema_activation_gate: whoever writes the row, it checks the merged result.
Gated(new) == new.status = "active" => new.seeds >= MinSeeds

\* The session commits, or is rolled back, and its locals are gone.
End(p) ==
  /\ pc' = [pc EXCEPT ![p] = "done"]
  /\ seen' = [seen EXCEPT ![p] = NoSchema]
  /\ wanted' = [wanted EXCEPT ![p] = Blank]

-----------------------------------------------------------------------------
(* create_schema and update_schema *)

\* Mutant of Created: versions start at 0.
CreatedUnversioned(defn) == [status |-> "draft", version |-> 0, defn |-> defn, seeds |-> 0]

Created(defn) == [status |-> "draft", version |-> 1, defn |-> defn, seeds |-> 0]

\* A name that exists is a 409.
CreateBegin(c) == ~ Exists /\ \E defn \in Definitions : Begin(c, "commit", defn)

\* Two requests may have found the name free; the unique key lets one in.
CreateCommit(c) ==
  /\ pc[c] = "commit"
  /\ row' = IF Exists THEN row ELSE Created(wanted[c])
  /\ End(c)
  /\ UNCHANGED <<snapshots, examples, docs>>

EditBegin(e) == Exists /\ \E defn \in Definitions : Begin(e, "commit", defn)

\* A definition after an UPDATE by a session that read `old` and set `new`.
Merged(defn, old, new) ==
  [c \in Columns |-> IF new[c] # old[c] THEN new[c] ELSE defn[c]]

\* An edit changes neither status nor count, so the trigger lets it pass.
EditCommit(e) ==
  /\ pc[e] = "commit"
  /\ row' = [row EXCEPT !.defn = Merged(@, seen[e].defn, wanted[e])]
  /\ End(e)
  /\ UNCHANGED <<snapshots, examples, docs>>

-----------------------------------------------------------------------------
(* add_seed_example *)

SeedBegin(s) == Exists /\ Begin(s, "embed", Blank)

\* Mutant of SeedUpsert: an error of Qdrant is logged and ignored.
SeedUpsertSwallowing(s) ==
  /\ pc[s] = "embed"
  /\ pc' = [pc EXCEPT ![s] = "commit"]
  /\ examples' \in {examples, examples + 1}
  /\ UNCHANGED <<row, snapshots, seen, wanted, docs>>

\* The example is embedded and goes to Qdrant, outside the transaction.
SeedUpsert(s) ==
  /\ pc[s] = "embed"
  /\ pc' = [pc EXCEPT ![s] = "commit"]
  /\ examples' = examples + 1
  /\ UNCHANGED <<row, snapshots, seen, wanted, docs>>

\* seed_count += 1, on the count that was read.
Counted(read) == [row EXCEPT !.seeds = read.seeds + 1]

SeedCommit(s) ==
  /\ pc[s] = "commit"
  /\ row' = IF Gated(Counted(seen[s])) THEN Counted(seen[s]) ELSE row
  /\ End(s)
  /\ UNCHANGED <<snapshots, examples, docs>>

-----------------------------------------------------------------------------
(* activate_schema *)

\* Too few seeds are a 409.
Activatable == Exists /\ row.seeds >= MinSeeds

ActivateBegin(a) == Activatable /\ Begin(a, "commit", Blank)

\* A deprecated schema would get a new version.
ActivatedVersion(read) ==
  IF read.status = "deprecated" THEN read.version + 1 ELSE read.version

\* Mutant of SnapshotTaken: schema_versions has no unique key.
SnapshotTakenNever(version) == FALSE

SnapshotTaken(version) == \E s \in snapshots : s.version = version

\* Mutant of Activated: the version moves on after the snapshot was made.
ActivatedNext(read) ==
  [row EXCEPT !.status = "active", !.version = ActivatedVersion(read) + 1]

Activated(read) == [row EXCEPT !.status = "active", !.version = ActivatedVersion(read)]

\* The definition that was read becomes the snapshot of its version.  The request
\* fails on the unique key if the version has one, and on the trigger if another
\* request has meanwhile stored a lower count.
ActivateCommit(a) ==
  /\ pc[a] = "commit"
  /\ LET version == ActivatedVersion(seen[a]) IN
     IF SnapshotTaken(version) \/ ~ Gated(Activated(seen[a]))
       THEN UNCHANGED <<row, snapshots>>
       ELSE /\ snapshots' = snapshots \cup {[version |-> version, defn |-> seen[a].defn]}
            /\ row' = Activated(seen[a])
  /\ End(a)
  /\ UNCHANGED <<examples, docs>>

-----------------------------------------------------------------------------
(* Documents *)

\* create_document resolves the active schema and pins its version.
Submit(d) ==
  /\ pinned[d] = 0
  /\ row.status = "active"
  /\ pinned' = [pinned EXCEPT ![d] = row.version]
  /\ UNCHANGED <<registry, requests, used>>

\* _load_initial_state takes the definition from the schemas row.
RunLoad(d) ==
  /\ pinned[d] # 0
  /\ used[d] = Blank
  /\ used' = [used EXCEPT ![d] = row.defn]
  /\ UNCHANGED <<registry, requests, pinned>>

-----------------------------------------------------------------------------

\* The embedder, Qdrant or the database raises: the transaction is rolled back.
Abort(p) ==
  /\ pc[p] \in {"embed", "commit"}
  /\ End(p)
  /\ UNCHANGED <<registry, docs>>

Next ==
  \/ \E c \in Creators : CreateBegin(c) \/ CreateCommit(c)
  \/ \E e \in Editors : EditBegin(e) \/ EditCommit(e)
  \/ \E s \in Seeders : SeedBegin(s) \/ SeedUpsert(s) \/ SeedCommit(s)
  \/ \E a \in Activators : ActivateBegin(a) \/ ActivateCommit(a)
  \/ \E d \in Docs : Submit(d) \/ RunLoad(d)
  \/ \E p \in Requests : Abort(p)

Spec == Init /\ [][Next]_vars

-----------------------------------------------------------------------------
(* Properties *)

\* The count, which lags behind when requests overlap or are rolled back, never
\* claims an example that Qdrant does not hold.
CountedAreIndexed == row.seeds <= examples

\* An active schema has the seed examples activation asks for in Qdrant, however
\* counting requests and activations overlap.
ActiveIsSeeded == row.status = "active" => examples >= MinSeeds

\* The version a document is pinned to is in schema_versions.
PinnedVersionExists ==
  \A d \in Docs : pinned[d] # 0 => \E s \in snapshots : s.version = pinned[d]

\* A version has one definition, also when activations and edits race.
OneDefinitionPerVersion ==
  \A s, t \in snapshots : s.version = t.version => s = t

\* What pinning promises: a document runs on the definition of its version,
\* whatever is edited after its submission.
RunsOnPinned ==
  \A d \in Docs : used[d] # Blank =>
    [version |-> pinned[d], defn |-> used[d]] \in snapshots

=============================================================================
