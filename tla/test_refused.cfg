SPECIFICATION Spec
CONSTANTS
    LoopPolicy <- MCLoopPolicy
    Allowlist = {"unit"}
    LoopRequests <- SharedId
    Authorities <- Trusted
    Dirs = {1, 2}
    ProposalIds = {"p"}
    Contents <- MCContents
    Missing = Missing
    Diffs <- MCDiffs
    Redacted <- MCRedacted
    PatchText <- MCPatchText
    Mismatch = Mismatch
    InitialContent = "old"
    MaxApprovals = 1
    MaxCrashes = 0
    MaxFaults = 0
    MaxEdits = 0
INVARIANTS RejectedMeansNotPerformed
CHECK_DEADLOCK FALSE
