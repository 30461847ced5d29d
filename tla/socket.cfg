CONSTANTS
  Brokers = {b1, b2, b3}
  NoSocket = NoSocket
SPECIFICATION Spec
CHECK_DEADLOCK FALSE
INVARIANTS TypeOK AcceptingIsReachable NoStartRefused CleanStop
