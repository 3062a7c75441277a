SPECIFICATION Spec
CONSTANTS
    LoopPolicy <- MCLoopPolicy
    Allowlist = {"unit"}
    LoopRequests <- BackAndForth
    Authorities <- Trusted
    Dirs = {1, 2}
    ProposalIds = {"p", "q"}
    Contents <- MCContents
    Missing = Missing
    Diffs <- MCDiffs
    Redacted <- MCRedacted
    PatchText <- MCPatchText
    Mismatch = Mismatch
    InitialContent = "old"
    MaxApprovals = 2
    MaxCrashes = 0
    MaxFaults = 0
    MaxEdits = 0
INVARIANTS ApprovalSingleUse
CHECK_DEADLOCK FALSE
