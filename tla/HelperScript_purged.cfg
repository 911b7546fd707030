CONSTANTS
    MaxWait <- MCMaxWait
    CopyTries <- MCCopyTries
    CleanupTries <- MCCleanupTries
SPECIFICATION Spec
CHECK_DEADLOCK FALSE
INVARIANT StagingPurged
