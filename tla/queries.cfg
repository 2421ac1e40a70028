CONSTANTS
  a = a
  b = b
  p1 = p1
  p2 = p2
  q1 = q1
  q2 = q2
  q3 = q3
  None = None
  Torn = Torn
  Callers <- Two
  Processes <- Procs
  Configs <- Some
  Questions <- Three
  Scope <- ScopeOf
  Templates <- Offered
  MaxSize = 2
  MaxAsks = 3
  MaxCrashes = 1
SPECIFICATION FairSpec
INVARIANTS  PaidOnce
PROPERTIES LevelsAgree TranslationGoesOn
\* No more questions may come.
CHECK_DEADLOCK FALSE
