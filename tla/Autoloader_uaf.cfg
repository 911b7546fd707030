CONSTANTS
    NFiles = 2
    MaxChunks = 3
SPECIFICATION Spec
CHECK_DEADLOCK FALSE
INVARIANT NoUseAfterFree
