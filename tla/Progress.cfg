SPECIFICATION FairSpec
CONSTANTS
  A = A
  B = B
  C = C
  D = D
  Shas = {A, B}
  Targets = {1}
  PullRequests = {1}
  Forks = {}
  FirstHead <- HeadA
  MaxTime = 3
  MaxSent = 2
  MaxReruns = 1
  PullsClose = FALSE
  AccessChanges = TRUE
  TiedClocks = FALSE
  Actions = {1}
  InitialActions <- Ample
  FollowChoices = {}
  CostChoices = {}
  Edits = {}
  EditsInCycle = TRUE
  MaxRevision = 1
  DayLength = 2
  Retention = 10
  PruneEvery = 10
  MaxRestarts = 1
PROPERTIES EventsSettle HeadSeen AccessLossObeyed
  EventsFollowLifecycle
INVARIANTS LaunchedOnce
