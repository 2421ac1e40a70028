CONSTANTS
  Shapes <- AllKinds
  MaxFrames = 4
  MaxConcurrent = 1
  SplitWrites = TRUE
SPECIFICATION Spec
INVARIANTS TypeOK EveryFrameAccounted FifoWithinClass AnswersInOrder
PROPERTIES ImplementsService
\* A closed connection with a closed peer takes no further step.
CHECK_DEADLOCK FALSE
