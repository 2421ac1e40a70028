CONSTANTS
  ask1 = ask1
  ask2 = ask2
  list = list
  Requests <- ThreeRequests
  NeedsLlm <- TwoAsk
  Channel = 2
  MaxLines = 5
  Writers = {"w1", "w2"}
  TotalRows = 5
  BatchSize = 2
  Capacity = 1
  ProgressEvery = 2
  MaxCancels = 2
  Conns = {"x", "y"}
  BinaryEnabled = TRUE
  GrpcUds = TRUE
  MaxStarts = 2
SPECIFICATION ProcessSpec
INVARIANTS AnswersRouted JobExact CancelStops SocketsUsable
PROPERTIES JobQuiet ExitHasCause 
\* The loop ends with the host's input, the job when it is done, and the
\* process may stay down once it has been started MaxStarts times.
CHECK_DEADLOCK FALSE
