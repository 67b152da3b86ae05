SPECIFICATION Spec
CONSTANTS
  Engine = host
  None = None
  Connections = {}
  Gates = {}
  Grace = 1
  Repeat = 2
  ProbeTtl = 1
  MaxLag = 1
  MaxCalls = 2
  MailTurns = TRUE
  WritesFail = FALSE
PROPERTIES AlertAfterGrace
