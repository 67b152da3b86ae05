SPECIFICATION Spec
CONSTANTS
  A = A
  B = B
  C = C
  D = D
  Shas = {A, B, C, D}
  Targets = {1}
  PullRequests = {1}
  Forks = {}
  FirstHead <- HeadA
  MaxTime = 5
  MaxSent = 3
  MaxReruns = 0
  PullsClose = FALSE
  AccessChanges = FALSE
  TiedClocks = FALSE
  Actions = {1}
  InitialActions <- OneAction
  FollowChoices = {}
  CostChoices = {}
  Edits = {}
  EditsInCycle = TRUE
  MaxRevision = 1
  DayLength = 6
  Retention = 1
  PruneEvery = 1
  MaxRestarts = 0
SYMMETRY Commits
INVARIANTS FlightOwnsItsRow CurrentHeadKept
