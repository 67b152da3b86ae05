SPECIFICATION Spec
CONSTANTS
  A = A
  B = B
  C = C
  D = D
  Shas = {A, B, C}
  Targets = {1}
  PullRequests = {1}
  Forks = {}
  FirstHead <- HeadA
  MaxTime = 3
  MaxSent = 2
  MaxReruns = 0
  PullsClose = FALSE
  AccessChanges = FALSE
  TiedClocks = FALSE
  Actions = {1}
  InitialActions <- RoomyAction
  FollowChoices = {}
  CostChoices = {2}
  Edits = {"cost"}
  EditsInCycle = TRUE
  MaxRevision = 1
  DayLength = 2
  Retention = 10
  PruneEvery = 10
  MaxRestarts = 0
INVARIANTS SpendWithinCap
