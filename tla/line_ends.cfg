SPECIFICATION Spec
CONSTANTS
    InitialFiles <- MCFiles
    Patches <- MCPatches
    MaxLines = 2
INVARIANTS LinesBeforeHunksUntouched
CHECK_DEADLOCK FALSE
