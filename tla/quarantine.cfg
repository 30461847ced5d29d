CONSTANTS
  Procs = {p1}
  NoProc = NoProc
  r1 = r1
  r2 = r2
  r3 = r3
  r4 = r4
  NoRelease = NoRelease
  Releases = {r1, r2, r3}
  First = r1
  Seq <- SeqDef
  Issued <- IssuedLong
  Expires <- ExpiresLong
  Revokes <- RevokesDef
  Approved = {r1, r2, r3}
  Healthy = {r1, r2, r3}
  Times = {1}
  Slack = 1
  Grace = 2
  MaxFaults = 2
SPECIFICATION Spec
PROPERTIES QuarantineHolds
