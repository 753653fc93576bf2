\* one transient error on the header of one message
CONSTANTS
  Msgs = 1
  MaxReads = 1
  Faults = {"header"}
  MaxBusErrors = 1
SPECIFICATION FairSpec
PROPERTIES HandlingEnds
CHECK_DEADLOCK FALSE
