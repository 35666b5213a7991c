\* Racing creations, an edit, three seeds, two activations and a document of
\* one schema; two overlapping lookups of two keys, with a cache of one entry.
SPECIFICATION RequestsSpec
CONSTANTS
  Creators = {c1, c2}
  Editors = {e1}
  Seeders = {s1, s2, s3}
  Activators = {a1, a2}
  Docs = {d1}
  Columns = {schema}
  Values = {v1, v2}
  MinSeeds = 2
  Blank = Blank
  Keys = {k1, k2}
  Lookups = {l1, l2}
  Grants = {full}
  Refused = refused
  Nothing = nothing
  Expiries = {2, 9}
  TTL = 1
  MaxSize = 1
  Lag = 1
  MaxTime = 4
SYMMETRY Symmetry
INVARIANTS TypeOK CountedAreIndexed ActiveIsSeeded PinnedVersionExists OneDefinitionPerVersion
           KeyTypeOK CacheBounded
PROPERTIES AnswersRecent ExpiryWithinTTL
CHECK_DEADLOCK FALSE
