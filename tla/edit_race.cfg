SPECIFICATION Spec
CONSTANTS
    a = a
    b = b
    secret = secret
    blob = blob
    Missing = Missing
    Mismatch = Mismatch
    Undecodable = {}
    Files <- MCFiles
    Contents <- MCContents
    RefusedContents = {}
    DeniedPaths = {}
    Workspace = "root"
    Policy <- MCPolicy
    Requests <- TxRequests
    Patches = {"p", "q", "r"}
    PatchText <- MCPatchText
    InitialFiles <- MCInitialFiles
    RecoverFirst = FALSE
    MaxCrashes = 0
    MaxFaults = 0
    MaxEdits = 1
    MaxTime = 0
INVARIANTS ReportedPreimagesAreRestorable
CHECK_DEADLOCK FALSE
