SPECIFICATION FairSpec
CONSTANTS
    LoopPolicy <- MCLoopPolicy
    Allowlist = {"unit"}
    LoopRequests <- OneDirectory
    Authorities <- Trusted
    Dirs = {1}
    ProposalIds = {"p", "q"}
    Contents <- TwoTexts
    Missing = Missing
    Diffs <- TwoDiffs
    Redacted <- MCRedacted
    PatchText <- MCPatchText
    Mismatch = Mismatch
    InitialContent = "old"
    MaxApprovals = 1
    MaxCrashes = 0
    MaxFaults = 1
    MaxEdits = 1
INVARIANTS TypeOK CommitsAreApproved SuccessDocumentsAgree
PROPERTY LoopEnds
CHECK_DEADLOCK FALSE
