CONSTANTS
  Shapes <- Plain
  MaxFrames = 3
  MaxConcurrent = 1
  SplitWrites = TRUE
SPECIFICATION Spec
INVARIANTS NoFrameTorn
\* A closed connection with a closed peer takes no further step.
CHECK_DEADLOCK FALSE
