CONSTANTS
    Callers = {c1}
    Payloads <- MCPayloads
    PacketOverrides <- MCPacketOverrides
    WorkspaceRequests <- MCWorkspaceRequests
    OutputPaths <- MCOutputPaths
    Contents <- MCContents
    StoreLimits = {1}
    LinkedDirectory <- MCLinked
    LinkTargets <- MCLinkTargets
    MaxDocuments = 3
    MaxRelinks = 0
SPECIFICATION Spec
INVARIANT WrittenOnlyWhenPrepared
CHECK_DEADLOCK FALSE
