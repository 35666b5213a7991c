\* The provider is still down when the cooldown has passed.
SPECIFICATION BreakerSpec
CONSTANTS
  Calls = {c1, c2, c3, c4}
  Threshold = 2
  Window = 2
  Cooldown = 2
  MaxTime = 4
  Never = Never
SYMMETRY Symmetry
PROPERTY BurstOpens
CHECK_DEADLOCK FALSE
