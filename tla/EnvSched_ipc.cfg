SPECIFICATION Spec

CONSTANTS
  NENV = 3
  NCPU = 2
  NBoot = 3
  MaxGen = 1
  Values = {1}
  Pages = {TRUE, FALSE}
  Syscalls = {"exofork", "ipc"}
  Raw = FALSE
  DeviceIrqs = TRUE

INVARIANTS
  RecvMeansBlocked

PROPERTIES
  MessageStable
  PageOnlyIfAsked
