CONSTANTS
  Conns = {c1, c2, c3}
  NoConn = NoConn
  status = status
  reveal = reveal
  Capabilities = {status, reveal}
  Registered = {status}
  Requests <- RequestsDef
  Inputs <- InputsDef
  Redact <- redactValue
  MaxFaults = 2
SPECIFICATION FairSpec
INVARIANTS TypeOK RepliesAreRecorded OneRecordEach RedactionIsExact
PROPERTIES ImplementsDecisionLog EveryRequestEnds
CHECK_DEADLOCK FALSE
