SPECIFICATION Spec

CONSTANTS
  Pids = {2, 3, 4, 5}
  Lines <- MCLines
  MaxLines = 2
  NPIPES = 2
  CAP = 1
  Outputs = {1, 2}
  Codes = {1}
  N = 12
  Procs = 6
  SIZE = 2
  Numbers = {n1, n2}

PROPERTIES
  StatusIsOwn
  JobsAreReaped
  CommandsEnd
  SievePrintsPrimes
  BallComesBack

CHECK_DEADLOCK FALSE
