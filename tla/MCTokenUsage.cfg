CONSTANTS
  r1 = r1
  r2 = r2
  r3 = r3
  Requests <- MCRequests
  Questions = {1, 2}
  Answers = {0, 1}
  Limit = 3
  LastMonth = 2
  None = None
SPECIFICATION Spec
INVARIANTS
  TypeOK
  CounterIsExact
  OverdraftBounded
SYMMETRY MCSymmetry
CHECK_DEADLOCK FALSE
