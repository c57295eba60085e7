SPECIFICATION LoopSpec
CONSTANTS
    Commands <- MCCommands
    Servers <- MCServers
    Errors <- MCErrors
    MaxTotalSteps = 4
    MaxPlanCycles = 3
    MaxPlanLen = 2
INVARIANTS
    LoopTypeOK
    BudgetsBound
    NoFailureReplanned
    SuccessMeansStepsRan
CHECK_DEADLOCK FALSE
