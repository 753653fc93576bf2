\* the network may fail, the driver and the access point do not
CONSTANTS
  TCP_SOCK_MAX = 3
  MaxAsked = 3
  Faults = {}
SPECIFICATION FairSpec
INVARIANTS
  TypeOK
  NoReplyOutlivesItsStage
  OnlyCurrentSocketOpen
  PublishesInSession
PROPERTIES
  UsesWhatIsThere
  Recovers
CHECK_DEADLOCK FALSE
