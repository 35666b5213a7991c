\* Two uploads and a retry of one tenant under one breaker, with the pool's limit
\* lowered while they run.
SPECIFICATION FairWorkerSpec
CONSTANTS
  Uploads = {u1, u2}
  Retries = {q1}
  MaxQueue = 1
  DefaultConcurrency = 2
  Limits = {1}
  Sems = {s1, s2}
  NoSem = NoSem
  Calls = {u1, u2, q1}
  Threshold = 2
  Window = 2
  Cooldown = 1
  MaxTime = 2
  Never = Never
INVARIANTS TypeOK NoSlotLeaked AdmittedBounded PoolBounded CallsBounded
           BreakerTypeOK ClosedBelowThreshold
PROPERTIES EveryRunEnds OpensOnBurst
CHECK_DEADLOCK FALSE
