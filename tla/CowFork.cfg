SPECIFICATION Spec

CONSTANTS
  Envs = {e1, e2, e3}
  Root = e1
  NoEnv = none
  Data = {"data"}
  ReadOnly = {"text"}
  NFrames = 7
  Values = {0, 1}
  Zero = 0
  UxWords = 40
  Dead = dead

INVARIANTS
  WritableIsPrivate
  TrapFramesIntact

PROPERTIES
  ForkIsolates
  ForkAndFaultsEnd

CHECK_DEADLOCK FALSE
