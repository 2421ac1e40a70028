CONSTANTS
  a = a
  b = b
  k1 = k1
  k2 = k2
  c1 = c1
  c2 = c2
  c3 = c3
  Calls <- TwoCalls
  Plan <- Crossing
  Names <- TwoNames
  Keys <- TwoKeys
  MaxSteps = 2
  MaxRetries = 3
SPECIFICATION Spec
INVARIANTS RolledBackIsTrue
\* Every call ends; nothing is left to do then.
CHECK_DEADLOCK FALSE
