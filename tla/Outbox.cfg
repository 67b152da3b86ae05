SPECIFICATION FairSpec
CONSTANTS
  Notices = {n1}
  Links = {l1}
  Tests = {t1}
  MaxAttempts = 2
  RetryDelay <- Delays
  BatchLimit = 2
  LinkTtl = 1
  WritesFail = TRUE
  MaxRestarts = 1
INVARIANTS AttemptsBounded
PROPERTIES FinishedForGood EveryMessageEnds DeadLinksEnd
