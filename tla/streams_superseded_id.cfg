CONSTANTS
    Attempts = 2
    Chunks = 1
    Limit = 2
    Breaks = 1
SPECIFICATION Spec
INVARIANT EveryIdResumes
CHECK_DEADLOCK FALSE
