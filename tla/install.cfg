CONSTANTS
  Builders = {b1, b2}
  Nobody = Nobody
  Versions = {v1, v2}
  Commit = v1
  Artefacts = 2
  MaxEdits = 1
  Installers = {i1, i2}
SPECIFICATION Spec
INVARIANTS BuildTypeOK LoadableIsComplete  PreparedIsPreserved HostTypeOK GrantsFollowStaging InstalledIsOneBuild SealedIsProven StopReportIsTrue
SYMMETRY ScriptSymmetry
CHECK_DEADLOCK FALSE
