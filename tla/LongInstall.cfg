SPECIFICATION Spec
CONSTANTS
  Processes = {p1}
  Engines = {e1}
  Versions = {v1}
  Broken = {}
  Probes = 3
  CallLimit = 2
  Grace = 5
  CheckTtl = 5
  RenewalsFail = TRUE
  None = None
INVARIANT InstallIsCovered
