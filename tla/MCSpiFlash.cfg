CONSTANTS
  Chips <- MCChips
  Sr1Left <- MCSr1
  Sr2Left <- MCSr2
  Sectors = {0, 1, 2}
  WordSize = 2
  SectorSize = 2
  PageSize = 4
  VPages = 6
  Reads <- MCReads
  Apps <- MCApps
SPECIFICATION FlashSpec
INVARIANTS FlashTypeOK QuadEnabled CommandsHeard ResultsTrue AppSeesItself
PROPERTIES DriverReturns MappingTrue
