CONSTANTS
    MaxWait <- MCMaxWait
    CopyTries <- MCCopyTries
    CleanupTries <- MCCleanupTries
SPECIFICATION FairSpec
CHECK_DEADLOCK FALSE
INVARIANTS TypeOK RelaunchOnlyComplete
PROPERTIES ScriptEnds
