\* Two runs of a document whose schema may be edited in between, under fairness.
SPECIFICATION FairSpec
CONSTANTS
  f1 = f1
  f2 = f2
  Fields = {f1, f2}
  Inputs <- SmallInputs
  Texts <- SmallTexts
  SelfReports = {0, 8499, 9000}
  Costs = {0, 1}
  PollTime = 3
  MaxRetries = 2
  High = 8500
  Medium = 6000
  MaxRuns = 2
  NoText = NoText
  NoScore = NoScore
INVARIANTS TypeOK BlockedNeverSent WeakSignalHolds BudgetKept
PROPERTIES ImplementsGraph RunEnds
CHECK_DEADLOCK FALSE
