SPECIFICATION FairSpec
CONSTANTS
  Modes = {"NO_PS", "AUTO", "MANUAL"}
  MaxPolls = 2
  WAKUP_TRAILS_TIMEOUT = 1
  MacReadFails = FALSE
  MaxBusErrors = 1
  MaxCalls = 3
INVARIANTS AwakeOnAccess MessagesArriveWhole ScanFlagAgrees NothingLeaks
PROPERTIES CallsReturn
CHECK_DEADLOCK FALSE
