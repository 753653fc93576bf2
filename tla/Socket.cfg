SPECIFICATION Spec
CONSTANTS
  TCP_SOCK_MAX = 2
  UDP_SOCK_MAX = 1
  SessionIds = 2
  SslOptions = {"BYPASS"}
  Buffers = {1}
  Lengths = {1, 2}
  CallbackCalls = {"recv", "close"}
  LateAnswers = {"bind", "listen", "connect", "send", "recv"}
  Faults = {"send", "receive"}
  MaxUses = 3
  MaxAsked = 2
INVARIANTS RepliesReachTheirUse PendingMeansAsked ReleasedWhenRead TlsStaysTls
CHECK_DEADLOCK FALSE
