CONSTANTS
    Attempts = 2
    Chunks = 1
    Limit = 2
    Breaks = 1
SPECIFICATION Spec
INVARIANTS TypeOK NeverMixed NoHoles NobodyIdlesAtTheEnd
PROPERTY ImplementsPlayback
CHECK_DEADLOCK FALSE
