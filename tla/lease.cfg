CONSTANTS
  Procs = {p1}
  NoProc = NoProc
  r1 = r1
  r2 = r2
  r3 = r3
  r4 = r4
  NoRelease = NoRelease
  Releases = {r1, r2, r3}
  First = r1
  Seq <- SeqDef
  Issued <- IssuedShort
  Expires <- ExpiresShort
  Revokes <- RevokesDef
  Approved = {r1, r2, r3}
  Healthy = {r1, r2, r3}
  Times = {0, 2, 5}
  Slack = 1
  Grace = 2
  MaxFaults = 2
SPECIFICATION FairSpec
INVARIANTS LeaseBacked
PROPERTIES ApprovalsAreSound ImplementsLedger LockReleased TransactionResolves
