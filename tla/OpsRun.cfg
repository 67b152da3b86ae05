SPECIFICATION MCSpec
CONSTANTS
  Engine = host
  None = None
  Connections = {c1}
  Gates = {g1}
  Grace = 1
  Repeat = 2
  ProbeTtl = 1
  MaxLag = 1
  MaxCalls = 2
  MailTurns = TRUE
  WritesFail = TRUE
INVARIANTS RowRemembersAlert
PROPERTIES AlertsSpaced FirstAlertAfterGrace OutageKeepsBeingTold EndIsTold
