CONSTANTS
    Callers = {c1}
    Payloads <- MCPayloads
    PacketOverrides <- MCPacketOverrides
    WorkspaceRequests <- MCWorkspaceRequests
    OutputPaths <- MCOutputPaths
    Contents <- MCContents
    StoreLimits = {1}
    LinkedDirectory <- MCLinked
    LinkTargets <- MCLinkTargets
    MaxDocuments = 4
    MaxRelinks = 0
SPECIFICATION Spec
INVARIANT WrittenUnderTaskRoots
CHECK_DEADLOCK FALSE
