CONSTANTS
  SPI_RETRY_COUNT = 2
  SPI_RESP_RETRY_COUNT = 2
  RegBytes = 4
  BlockBytes = 8
  LateBy = {3, 8}
  MaxFaults = 3
  TIMEOUT = 3
  MaxInits = 2
SPECIFICATION FairSpec
CHECK_DEADLOCK FALSE
INVARIANTS
  OkMeansDone
  UpMeansRunning
PROPERTY
  InitEnds
