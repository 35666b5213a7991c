\* Two erasures of a document whose run is in flight, under fairness.
SPECIFICATION FairDeliverySpec
CONSTANTS
  Docs = {d1}
  Entries = {e1}
  Runs = {r1}
  Erasures = {x1, x2}
  Retries = {}
  Reviewers = {}
  Parsing = {"failed", "empty", "plain", "injection"}
  Extracting = {"failed", "empty", "fields"}
  MaxFaults = 0
  Attempts = 5
  NoDoc = NoDoc
  NoEntry = NoEntry
INVARIANTS LiveHasBlob UnfinishedHasOwner
PROPERTIES ErasureWins PendingIsDecided ErasureCompletes
           DeliveryRecorded
CHECK_DEADLOCK FALSE
