SPECIFICATION Spec
CONSTANTS
    InitialFiles <- MCFiles
    Patches <- MCPatches
    MaxLines = 2
INVARIANTS AdditionsFollowTheirLine
CHECK_DEADLOCK FALSE
