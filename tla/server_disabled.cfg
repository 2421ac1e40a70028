CONSTANTS
  x = x
  y = y
  Conns <- TwoConns
  BinaryEnabled = FALSE
  GrpcUds = TRUE
  MaxStarts = 2
SPECIFICATION Spec
PROPERTIES ExitHasCause
\* The process may stay down once it has been started MaxStarts times.
CHECK_DEADLOCK FALSE
