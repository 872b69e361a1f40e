SPECIFICATION Spec

CONSTANTS
  Envs = {e1, e2, e3}
  Root = e1
  MAXFD = 3
  NFrames = 4
  PIPEBUFSIZ = 1
  MaxCount = 2
  MaxPos = 2
  MaxCalls = 5
  Smp = FALSE

INVARIANTS
  NoHalfDescriptor
  RingIsFifo

PROPERTIES
  ClosedIsReal
  EndIsNoticed

CHECK_DEADLOCK FALSE
