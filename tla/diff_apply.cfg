SPECIFICATION Spec
CONSTANTS
    InitialFiles <- MCFiles
    Patches <- MCPatches
    MaxLines = 2
INVARIANTS TypeOK AppliedAsWritten ReversePatchRestores
CHECK_DEADLOCK FALSE
