SPECIFICATION Spec
CONSTANTS
    Stages <- MCStages
    MaxFix = 2
    MaxTasks = 2
    Costs <- MCCosts
    Estimate = 7
INVARIANT BatchIsRetried
CHECK_DEADLOCK FALSE
