SPECIFICATION Spec

CONSTANTS
  Clients = {c1, c2}
  First = c1
  Names = {n1, n2}
  MAXOPEN = 1
  OpenFds = {0}
  IDMOD = 6
  MaxOpens = 3
  NBLOCKS = 12
  BLKBITSIZE = 32768
  WORD = 2
  NDIRECT = 2
  NINDIRECT = 3
  BLKFILES = 1
  FileNames = {"a", "b"}
  Sizes = {0, 5}
  ImageFile = "a"
  ImageSize = 1

INVARIANTS
  OpenStaysOpen
  
  CrashIsSafe

PROPERTIES
  OwnFileOnly
  CallsReturn

CHECK_DEADLOCK FALSE
