SPECIFICATION FairSpec
CONSTANT Settings <- MCAllSettings
INVARIANTS
    TypeOK
    RowKeepsItsFile
    ReadyIsIndexed
PROPERTIES
    DeletedStaysDeleted
    PollingEndsInBackground
CHECK_DEADLOCK FALSE
