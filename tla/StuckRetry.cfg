\* One retry of a completed document whose webhook was exhausted.
SPECIFICATION FairSpec
CONSTANTS
  Docs = {d1}
  Entries = {e1, e2}
  Runs = {r1, r2}
  Erasures = {}
  Retries = {q1}
  Reviewers = {}
  Parsing = {"failed", "plain"}
  Extracting = {"fields"}
  MaxFaults = 0
  NoDoc = NoDoc
  NoEntry = NoEntry
PROPERTY PendingIsDecided
CHECK_DEADLOCK FALSE
