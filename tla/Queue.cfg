\* Three uploads and a retry against a queue of two; one job runs at a time.
SPECIFICATION Spec
CONSTANTS
  Uploads = {u1, u2, u3}
  Retries = {q1}
  MaxQueue = 2
  DefaultConcurrency = 1
  Limits = {}
  Sems = {s1}
  NoSem = NoSem
SYMMETRY Symmetry
INVARIANT QueueBounded
CHECK_DEADLOCK FALSE
