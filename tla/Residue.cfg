\* One erasure while the only run is in flight; no store fails.
SPECIFICATION Spec
CONSTANTS
  Docs = {d1}
  Entries = {e1}
  Runs = {r1}
  Erasures = {x1}
  Retries = {}
  Reviewers = {}
  Parsing = {"failed", "plain"}
  Extracting = {"fields"}
  MaxFaults = 0
  NoDoc = NoDoc
  NoEntry = NoEntry
INVARIANT ErasedLeavesNothing
CHECK_DEADLOCK FALSE
