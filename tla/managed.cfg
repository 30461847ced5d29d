CONSTANTS
  Procs = {p1, p2}
  NoProc = NoProc
  r1 = r1
  r2 = r2
  r3 = r3
  NoRelease = NoRelease
  Releases = {r1, r2, r3}
  First = r1
  Seq <- SeqDef
  Issued <- IssuedDef
  Expires <- ExpiresDef
  Revokes <- RevokesDef
  Approved = {r1, r2, r3}
  Healthy = {r1, r2}
  Times = {1}
  Slack = 1
  Grace = 2
  MaxFaults = 1
SPECIFICATION UseSpec
INVARIANTS SessionTypeOK NoLostUpdate AnswersAreApproved
SYMMETRY ClientSymmetry
