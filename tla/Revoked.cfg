\* One key and two lookups, whose sessions take no time at all.
SPECIFICATION KeySpec
CONSTANTS
  Keys = {k1}
  Lookups = {l1, l2}
  Grants = {full}
  Refused = refused
  Nothing = nothing
  Expiries = {9}
  TTL = 1
  MaxSize = 1
  Lag = 0
  MaxTime = 2
SYMMETRY Symmetry
PROPERTY RevokedIsRefused
CHECK_DEADLOCK FALSE
