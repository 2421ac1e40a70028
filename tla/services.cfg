CONSTANTS
  Present = {"tools", "streams", "watch", "dedup", "rates", "cache", "embed", "telemetry", "search"}
  a = a
  b = b
  Clients <- Two
  Scenes <- All
  Modes = {TRUE, FALSE}
  Services <- Everything
  MaxOps = 2
  Rows = 5
  BatchSize = 2
  Ahead = 2
  Cuts <- TwoThreeFive
  Bad <- AtMostOne
  fa = fa
  fb = fb
  Files <- BothFiles
  Matching <- OneOf
  Debounce = 2
  Interval = 1
  MaxWrites = 2
  ja = ja
  jb = jb
  no = no
  Jobs <- BothJobs
  NoKey <- no
  Plans <- Some
  Stored <- Old
  Tenants = {"t", "u"}
  Second = 2
  MaxRate = 2
  Tasks = {"v", "w"}
  Entries = {1, 2, 3}
  MaxEntries = 1
  MaxUses = 4
  x = x
  y = y
  z = z
  Callers <- Three
  MaxBatch = 3
  Recorders = {"r", "s"}
  Capacity = 2
  Latencies = {1, 2}
  MaxEvents = 3
  MaxFlushes = 1
  Requests = {"p", "q"}
  MaxChanges = 2
SPECIFICATION ServicesSpec
INVARIANTS GateHolds SessionTrue StreamsHonest  EachItsOwn 
PROPERTIES KeepsPromise IngestsJustified   
\* Every part may come to an end of its work.
CHECK_DEADLOCK FALSE
