CONSTANTS
  MaxSlots = 2
  SeqMax = 3
  SecureVersion = 1
  NoDesc = NoDesc
  EraseMayFail = FALSE
  WriteMayFail = TRUE
  StateTears = TRUE
  FactoryResetBuild = TRUE
  AppTestBuild = FALSE
  Layouts <- MCLayouts
  Images <- MCImages
  OtaDataInits <- MCOtaDataInits
  AppEntries <- MCEntries
SPECIFICATION MCSpec
INVARIANTS TypeOK FactoryResetForgets
PROPERTIES SelectionStable PendingNamesRunning BootBounded ImplementsPolicy
