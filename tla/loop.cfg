SPECIFICATION Spec
CONSTANTS
    LoopPolicy <- MCLoopPolicy
    Allowlist = {"unit"}
    LoopRequests <- SharedId
    Authorities <- Anyone
    Dirs = {1, 2}
    ProposalIds = {"p"}
    Contents <- MCContents
    Missing = Missing
    Diffs <- MCDiffs
    Redacted <- MCRedacted
    PatchText <- MCPatchText
    Mismatch = Mismatch
    InitialContent = "old"
    MaxApprovals = 1
    MaxCrashes = 1
    MaxFaults = 0
    MaxEdits = 0
INVARIANTS ApprovedArtifactChosen PerformedMeansApplied RejectedBeforeTestsUntouched
CHECK_DEADLOCK FALSE
