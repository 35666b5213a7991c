\* A schema is edited between a document's submission and its run.
SPECIFICATION Spec
CONSTANTS
  Creators = {c1}
  Editors = {e1}
  Seeders = {s1, s2, s3}
  Activators = {a1}
  Docs = {d1}
  Columns = {schema}
  Values = {v1, v2}
  MinSeeds = 3
  Blank = Blank
SYMMETRY Symmetry
INVARIANT RunsOnPinned
CHECK_DEADLOCK FALSE
