CONSTANTS
  Shapes <- TwoClasses
  MaxFrames = 4
  MaxConcurrent = 1
  SplitWrites = FALSE
SPECIFICATION Spec
INVARIANTS BatchBoundaryFlushed

\* A closed connection with a closed peer takes no further step.
CHECK_DEADLOCK FALSE
