SPECIFICATION Spec
CONSTANTS
  Engine = host
  None = None
  Connections = {}
  Gates = {g1}
  Grace = 1
  Repeat = 2
  ProbeTtl = 0
  MaxLag = 0
  MaxCalls = 2
  MailTurns = FALSE
  WritesFail = FALSE
PROPERTIES OverMeansPublished
