\* Two retry requests for the one dead letter of a document.
SPECIFICATION Spec
CONSTANTS
  Docs = {d1}
  Entries = {e1, e2, e3}
  Runs = {r1, r2, r3}
  Erasures = {}
  Retries = {q1, q2}
  Reviewers = {}
  Parsing = {"failed", "plain"}
  Extracting = {"fields"}
  MaxFaults = 0
  NoDoc = NoDoc
  NoEntry = NoEntry
INVARIANT OneRunPerDocument
CHECK_DEADLOCK FALSE
