SPECIFICATION Spec
CONSTANTS
    a = a
    b = b
    secret = secret
    blob = blob
    Missing = Missing
    Mismatch = Mismatch
    Undecodable <- MCRefused
    Files <- PolicyFiles
    Contents <- PolicyContents
    RefusedContents <- MCRefused
    DeniedPaths <- MCDenied
    Workspace = "root"
    Policy <- MCPolicy
    Requests <- PolicyRequests
    Patches = {"p", "q", "r"}
    PatchText <- MCPatchText
    InitialFiles <- PolicyInitialFiles
    RecoverFirst = FALSE
    MaxCrashes = 0
    MaxFaults = 0
    MaxEdits = 1
    MaxTime = 1
INVARIANTS ReceiptBindsRollback
PROPERTIES OnlyApprovedWrites
CHECK_DEADLOCK FALSE
