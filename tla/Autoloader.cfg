CONSTANTS
    NFiles = 2
    MaxChunks = 3
SPECIFICATION FairSpec
CHECK_DEADLOCK FALSE
INVARIANT TypeOK
PROPERTIES CancelStopsInstall AutoloaderEnds
