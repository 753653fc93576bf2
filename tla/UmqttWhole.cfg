\* chunks that end anywhere, PUBLISHes shorter and longer than a chunk
CONSTANTS
  RX_BUFF_SIZE = 5
  RecvSize = 12
  Topics = {3, 7, 15}
  Payload = {1, 144}
  Garbage = {0, 1, 130}
  MaxSessions = 2
  MaxSubscribes = 2
  MaxPublishes = 2
SPECIFICATION Spec
INVARIANTS StaysInStep ConnectedMeansAccepted UnackedIsCounted
CHECK_DEADLOCK FALSE
