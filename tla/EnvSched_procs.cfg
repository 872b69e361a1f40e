SPECIFICATION Spec

CONSTANTS
  NENV = 3
  NCPU = 2
  NBoot = 2
  MaxGen = 1
  Values = {1}
  Pages = {FALSE}
  Syscalls = {"exofork", "env_destroy", "env_set_status", "ipc",
              "breakpoint"}
  Raw = FALSE
  DeviceIrqs = FALSE

INVARIANTS
  TypeOK
  LockProtectsKernel
  RunsOnOneCpu
  FreeListExact
  MonitorMeansIdle
  NoPanic

PROPERTIES
  ZombieFreedByItsCpu
  EmbryoReleasedByParent
