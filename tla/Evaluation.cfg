\* Two episodes of three environments, chunks of up to three actions, one of them
\* empty; the stop and an interrupt at any moment, any call may raise.
CONSTANTS
  NumEnvs = 3
  Episodes = 2
  StepLimit = 4
  MaxChunk = 3
  MaxEmpty = 1
SPECIFICATION Spec
INVARIANT TypeOK
INVARIANT ActionsInPlace
INVARIANT EveryStepObserved
INVARIANT FramesCarryStep
INVARIANT StopsSoon
PROPERTY EndsClosed
CHECK_DEADLOCK FALSE
