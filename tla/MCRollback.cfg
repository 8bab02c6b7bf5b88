CONSTANTS
  MaxSlots = 1
  SeqMax = 2
  SecureVersion = 1
  NoDesc = NoDesc
  EraseMayFail = FALSE
  WriteMayFail = FALSE
  StateTears = FALSE
  FactoryResetBuild = FALSE
  AppTestBuild = FALSE
  Layouts <- MCLayouts
  Images <- MCImages
  OtaDataInits <- ErasedOtaData
  AppEntries <- Entry
  Blank <- MCBlank
SPECIFICATION MCSpec
PROPERTIES UnconfirmedRolledBack
