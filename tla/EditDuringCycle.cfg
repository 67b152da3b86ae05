SPECIFICATION Spec
CONSTANTS
  A = A
  B = B
  C = C
  D = D
  Shas = {A, B}
  Targets = {1, 2}
  PullRequests = {1, 2}
  Forks = {}
  FirstHead <- HeadsDiffer
  MaxTime = 2
  MaxSent = 0
  MaxReruns = 0
  PullsClose = FALSE
  AccessChanges = FALSE
  TiedClocks = FALSE
  Actions = {1}
  InitialActions <- NewAction
  FollowChoices = {{1}, {1, 2}}
  CostChoices = {}
  Edits = {"observe"}
  EditsInCycle = TRUE
  MaxRevision = 2
  DayLength = 2
  Retention = 10
  PruneEvery = 10
  MaxRestarts = 0
PROPERTIES BacklogNotCharged
