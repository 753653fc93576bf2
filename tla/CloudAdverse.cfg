CONSTANTS
  TCP_SOCK_MAX = 2
  MaxAsked = 1
  Faults = {"drop", "renew", "refuse", "reject", "odd", "late"}
SPECIFICATION Spec
INVARIANTS
  NoLostWakeup
  ClosedSocketsAreClean
PROPERTIES
  ForwardOnlyOnSuccess
CHECK_DEADLOCK FALSE
