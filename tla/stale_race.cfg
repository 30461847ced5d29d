CONSTANTS
  Brokers = {b1, b2}
  NoSocket = NoSocket
SPECIFICATION Spec
CHECK_DEADLOCK FALSE
PROPERTIES OnlyStaleRemoved
