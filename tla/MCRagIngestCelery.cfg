SPECIFICATION FairSpec
CONSTANT Settings <- MCCelery
PROPERTY PollingEnds
CHECK_DEADLOCK FALSE
