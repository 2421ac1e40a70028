CONSTANTS
  ask1 = ask1
  ask2 = ask2
  list = list
  Requests <- ThreeRequests
  NeedsLlm <- TwoAsk
  Channel = 2
  MaxLines = 5
SPECIFICATION Spec
PROPERTIES SampleWrittenWhileAwaited
\* The loop ends with the host's input.
CHECK_DEADLOCK FALSE
