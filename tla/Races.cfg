\* Everything at once on one document, with two faults.
SPECIFICATION DeliverySpec
CONSTANTS
  Docs = {d1}
  Entries = {e1, e2}
  Runs = {r1, r2}
  Erasures = {x1}
  Retries = {q1}
  Reviewers = {a1, a2}
  Parsing = {"failed", "plain", "injection"}
  Extracting = {"failed", "empty", "fields"}
  MaxFaults = 2
  Attempts = 2
  NoDoc = NoDoc
  NoEntry = NoEntry
SYMMETRY Symmetry
VIEW LiveView
INVARIANTS RowsNeedDocument DecidedHasResult ReviewIsOpen RejectedCanBeRetried
           DeliveryTypeOK PayloadIsWhole RecordIsWhole
PROPERTIES NoLostUpdate ErasureIsFinal ImplementsContract
CHECK_DEADLOCK FALSE
