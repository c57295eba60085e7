CONSTANTS
  f1 = f1
  f2 = f2
  a = a
  d = d
  Empty = Empty
  None = None
  Files <- MCFiles
  Projects <- MCProjects
  Contents <- MCContents
  Stored <- MCStored
  Demo <- MCDemoOfOne
  Sessions <- MCSessions
  MaxAwaited = 2
  MaxActs = 3
  MaxEdits = 2
  MaxRuns = 2
SPECIFICATION Spec
PROPERTIES
  DeployKeepsUnopenedFiles
CHECK_DEADLOCK FALSE
