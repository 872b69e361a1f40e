SPECIFICATION FairSpec

CONSTANTS
  NENV = 3
  NCPU = 2
  NBoot = 2
  MaxGen = 1
  Values = {1}
  Pages = {FALSE}
  Syscalls = {"exofork", "env_destroy", "env_set_status"}
  Raw = FALSE
  DeviceIrqs = FALSE

PROPERTIES
  NoStarvation
  ZombiesAreReaped
  BootCompletes
