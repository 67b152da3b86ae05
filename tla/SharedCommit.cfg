SPECIFICATION Spec
CONSTANTS
  A = A
  B = B
  C = C
  D = D
  Shas = {A, B, C}
  Targets = {1, 2}
  PullRequests = {}
  Forks = {}
  FirstHead <- HeadA
  MaxTime = 4
  MaxSent = 3
  MaxReruns = 0
  PullsClose = FALSE
  AccessChanges = FALSE
  TiedClocks = FALSE
  Actions = {1}
  InitialActions <- TwoTargets
  FollowChoices = {}
  CostChoices = {}
  Edits = {}
  EditsInCycle = TRUE
  MaxRevision = 1
  DayLength = 3
  Retention = 10
  PruneEvery = 10
  MaxRestarts = 0
INVARIANTS PaidOncePerCommit
