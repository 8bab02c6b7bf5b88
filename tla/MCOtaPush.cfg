CONSTANTS
  Firmware <- MCFirmware
  CHUNK = 2
  ShellLine = 2
  AppLine = 3
  MaxSessions = 3
  MaxOut = 4
CHECK_DEADLOCK FALSE
SPECIFICATION LiveSpec
INVARIANTS PushTypeOK ReportedIsDelivered InStep
PROPERTIES TransferEnds
