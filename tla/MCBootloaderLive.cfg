CONSTANTS
  MaxSlots = 2
  SeqMax = 3
  SecureVersion = 1
  NoDesc = NoDesc
  EraseMayFail = TRUE
  WriteMayFail = TRUE
  StateTears = FALSE
  FactoryResetBuild = TRUE
  AppTestBuild = TRUE
  Layouts <- EndLayouts
  Images <- MCImages
  OtaDataInits <- EndOtaDataInits
  AppEntries <- EndEntries
SPECIFICATION MCLiveSpec
PROPERTIES LaunchesFirst NeverStranded BootEnds EventuallyRuns
