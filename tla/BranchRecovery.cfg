SPECIFICATION Spec
CONSTANTS
  A = A
  B = B
  C = C
  D = D
  Shas = {A, B, C, D}
  Targets = {1}
  PullRequests = {}
  Forks = {}
  FirstHead <- HeadA
  MaxTime = 5
  MaxSent = 3
  MaxReruns = 0
  PullsClose = FALSE
  AccessChanges = FALSE
  TiedClocks = FALSE
  Actions = {1}
  InitialActions <- OneAction
  FollowChoices = {}
  CostChoices = {}
  Edits = {}
  EditsInCycle = TRUE
  MaxRevision = 1
  DayLength = 6
  Retention = 10
  PruneEvery = 10
  MaxRestarts = 0
INVARIANTS CurrentHeadKept
