CONSTANTS
  Byte = {1, 2}
  length = 3
  Data <- MCData
SPECIFICATION RingSpec
PROPERTIES ImplementsFifo PushesWhileThereIsRoom
