CONSTANTS
  a = a
  b = b
  k1 = k1
  k2 = k2
  c1 = c1
  c2 = c2
  c3 = c3
  Calls <- ThreeCalls
  Plan <- CrossingForward
  Names <- TwoNames
  Keys <- TwoKeys
  MaxSteps = 2
  MaxRetries = 3
  t1 = t1
  t2 = t2
  s1 = s1
  None = None
  TxnIds <- TwoTxns
  Opened <- Begun
  Shards <- OneShard
  Shard <- Together
  Workers = 3
  Scenes <- Mixed
  MaxConcurrency = 1
  Parts = {"calls", "pipelines"}
SPECIFICATION CallsSpec
INVARIANTS TypeOK AllOrNothing AnswerMatchesOutcome NoneLeftOpen ReportsProgress
INVARIANTS SessionExclusive ResultsTrue Accounts
PROPERTIES EndedIsGone EveryCallReturns
\* Calls that have returned do nothing more.
CHECK_DEADLOCK FALSE
