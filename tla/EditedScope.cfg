SPECIFICATION Spec
CONSTANTS
  A = A
  B = B
  C = C
  D = D
  Shas = {A, B}
  Targets = {1, 2}
  PullRequests = {1, 2}
  Forks = {2}
  FirstHead <- HeadA
  MaxTime = 2
  MaxSent = 1
  MaxReruns = 0
  PullsClose = TRUE
  AccessChanges = FALSE
  TiedClocks = FALSE
  Actions = {1, 2}
  InitialActions <- TwoRules
  FollowChoices = {{1}, {1, 2}}
  CostChoices = {}
  Edits = {"observe", "toggle", "delete"}
  EditsInCycle = FALSE
  MaxRevision = 2
  DayLength = 2
  Retention = 10
  PruneEvery = 10
  MaxRestarts = 0
SYMMETRY Commits
PROPERTIES CreatedWithinScope BacklogNotCharged
INVARIANTS SpendWithinCap
