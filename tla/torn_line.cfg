CONSTANTS
  Conns = {c1, c2}
  NoConn = NoConn
  status = status
  reveal = reveal
  Capabilities = {status, reveal}
  Registered = {status}
  Requests <- InvokesDef
  Inputs <- InputsDef
  Redact <- redactValue
  MaxFaults = 1
SPECIFICATION Spec
INVARIANTS OneObjectPerLine
CHECK_DEADLOCK FALSE
