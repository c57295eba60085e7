SPECIFICATION FairSpec
CONSTANTS
    Stages <- MCStages
    MaxFix = 2
    MaxTasks = 2
    Costs <- MCCosts
    Estimate = 7
INVARIANTS
    TypeOK
    AccountsForItsAgents
    NoAgentRunLeftRunning
    CheckpointsFollowStages
PROPERTIES
    ImplementsContract
    RunFinishes
CHECK_DEADLOCK FALSE
