CONSTANTS
  f1 = f1
  f2 = f2
  a = a
  d = d
  Empty = Empty
  None = None
  Files <- MCFiles
  Projects <- MCProjects
  Contents <- MCContents
  Stored <- MCStored
  Demo <- MCDemo
  Sessions <- MCSessions
  MaxAwaited = 2
  MaxActs = 2
  MaxEdits = 2
  MaxRuns = 2
CONSTRAINT SomethingClaimed
SYMMETRY MCSymmetry
SPECIFICATION Spec
INVARIANTS
  TypeOK
  EditorShowsServer
  EveryFileKept
PROPERTIES
  RejectUndoesEveryEdit
CHECK_DEADLOCK FALSE
