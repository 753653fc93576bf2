\* two sessions, requests of every kind, some sends fail
CONSTANTS
  KeepAlive = TRUE
  MaxSessions = 2
  MaxMade = 3
  MaxPushed = 1
  MaxSendErrors = 1
SPECIFICATION Spec
INVARIANTS SessionByItsConnack TimersMatchReplies TimersCreatedOnce KeepAliveArmed
CHECK_DEADLOCK FALSE
