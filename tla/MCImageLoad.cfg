CONSTANTS
  Cands = {a, b}
  Images <- MCImages
  MaxSegments = 2
  AddrMax = 15
  MmapMax = 2
  SigSize = 3
  PoolSize = 2
  Ram <- MCRam
  Drom <- MCDrom
  Irom <- MCIrom
  Cell <- MCCell
  TextStart = 12
  TextEnd = 13
  DataStart = 2
  BssEnd = 4
  StackStart = 5
  RomStack = 8
  Headroom = 2
SPECIFICATION ImageSpec
INVARIANTS ImageTypeOK Released SectionsSpared LaunchedSound SoundBoots LaunchedIntact
CHECK_DEADLOCK FALSE
