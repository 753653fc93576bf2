CONSTANTS
  TCP_SOCK_MAX = 2
  MaxAsked = 3
  Faults = {}
SPECIFICATION Spec
INVARIANTS
  KeepsReceiving
CHECK_DEADLOCK FALSE
