CONSTANTS
  MaxSlots = 1
  SeqMax = 2
  SecureVersion = 1
  NoDesc = NoDesc
  EraseMayFail = TRUE
  WriteMayFail = TRUE
  StateTears = FALSE
  FactoryResetBuild = FALSE
  AppTestBuild = FALSE
  Layouts <- MCLayouts
  Images <- MCImages
  OtaDataInits <- MCOtaDataInits
  AppEntries <- Entry
  Blank <- MCBlank
SPECIFICATION MCLiveSpec
INVARIANTS SysTypeOK UpdateSelected
PROPERTIES ImplementsBootloader UpdateRuns ResetRecovers
