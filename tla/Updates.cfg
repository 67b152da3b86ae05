SPECIFICATION FairSpec
CONSTANTS
  Processes = {p1, p2}
  Engines = {e1}
  Versions = {v1, v2, v3}
  Broken = {v3}
  Probes = 1
  CallLimit = 1
  Grace = 2
  CheckTtl = 0
  RenewalsFail = FALSE
  None = None
INVARIANTS OperationIsAlone SelectionIsInstalled
PROPERTIES ActivationKeepsTheRest ScansGetTheirTurn
