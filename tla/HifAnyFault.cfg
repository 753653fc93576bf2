\* every bus access may fail
CONSTANTS
  Msgs = 4
  MaxReads = 3
  Faults = {"status", "clear", "header", "payload", "rxdone"}
  MaxBusErrors = 3
SPECIFICATION MCSpec
INVARIANTS NoLostInterrupt BufferHasOneOwner
PROPERTIES ImplementsMailbox DeliversEveryMessage
CHECK_DEADLOCK FALSE
