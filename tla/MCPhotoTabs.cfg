SPECIFICATION Spec
CONSTANTS
    w1 = w1
    w2 = w2
    Workspaces <- MCWorkspaces
    None = None
    MaxTabs = 2
    MaxAwaited = 2
    r1 = r1
    r2 = r2
    Revisions <- MCRevisions
INVARIANTS
    TypeOK
    EveryTabKeepsItsWork
    OneTabPerWorkspace
SYMMETRY MCSymmetry
CONSTRAINT NotCrossed
