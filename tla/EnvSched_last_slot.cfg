SPECIFICATION FairSpec

CONSTANTS
  NENV = 3
  NCPU = 1
  NBoot = 3
  MaxGen = 1
  Values = {1}
  Pages = {FALSE}
  Syscalls = {"env_destroy"}
  Raw = FALSE
  DeviceIrqs = FALSE

PROPERTIES
  NoStarvationLastSlot
