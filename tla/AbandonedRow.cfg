SPECIFICATION Spec
CONSTANTS
  Notices = {n1}
  Links = {l1}
  Tests = {}
  MaxAttempts = 2
  RetryDelay <- Delays
  BatchLimit = 2
  LinkTtl = 1
  WritesFail = TRUE
  MaxRestarts = 1
INVARIANTS SendingIsHeld
