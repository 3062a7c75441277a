SPECIFICATION FairSpec
CONSTANTS
    a = a
    b = b
    secret = secret
    blob = blob
    Missing = Missing
    Mismatch = Mismatch
    Undecodable = {}
    Files <- MCFiles
    Contents <- MCContents
    RefusedContents = {}
    DeniedPaths = {}
    Workspace = "root"
    Policy <- MCPolicy
    Requests <- AllRequests
    Patches = {"p", "q", "r"}
    PatchText <- MCPatchText
    InitialFiles <- MCInitialFiles
    RecoverFirst = TRUE
    MaxCrashes = 2
    MaxFaults = 1
    MaxEdits = 0
    MaxTime = 0
INVARIANTS TypeOK Recoverable RollbackBeforeMutation RejectedMeansUntouched ReceiptMatchesWorkspace
PROPERTIES AllOrNothing CallEnds
CHECK_DEADLOCK FALSE
