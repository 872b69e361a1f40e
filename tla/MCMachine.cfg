SPECIFICATION Spec

CONSTANTS
  CONSBUFSIZE = 3
  CRT_COLS = 2
  CRT_ROWS = 2
  BUFLEN = 4
  KBD = 3
  MaxKeys = 4
  Sizes = {6, 12, 14, 15, 16, 17, 18, 19, 20, 21, 24, 40}
  MPENTRY = 2
  IOPHYSMEM = 8
  EXTPHYSMEM = 9
  KEND = 11
  LOW = 20
  NENT = 20
  KT = 2
  PERPAGE = 10
  ENVPAGES = 2
  NCPU = 2
  KSTKSIZE = 1
  KSTKGAP = 2

INVARIANTS
  ReadIsTyped
  EchoMatches
  BootMemorySafe

CHECK_DEADLOCK FALSE
