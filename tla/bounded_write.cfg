CONSTANTS
    Callers = {c1, c2}
    Payloads <- MCPayloads
    PacketOverrides <- MCPacketOverrides
    WorkspaceRequests <- MCWorkspaceRequests
    OutputPaths <- MCOutputPaths
    Contents <- MCContents
    StoreLimits = {1}
    LinkedDirectory <- MCLinked
    LinkTargets <- MCLinkTargets
    MaxDocuments = 4
    MaxRelinks = 1
SPECIFICATION Spec
SYMMETRY MCSymmetry
INVARIANTS TypeOK WrittenAsAuthorised SoleWriterReceiptHolds
CHECK_DEADLOCK FALSE
