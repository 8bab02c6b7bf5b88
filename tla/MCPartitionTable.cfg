CONSTANTS
  MaxSlots = 2
  SeqMax = 15
  MinOffset = 3
  FlashSize = 12
  MaxPartitions = 3
  SectorSize = 2
  Entries <- MCEntries
SPECIFICATION ResetSpec
INVARIANTS ResetTypeOK AcceptedDisjoint LayoutDelivered RolesDisjoint ResetConfined FlagMeansErased
CHECK_DEADLOCK FALSE
