CONSTANTS
    Runs = {"r1", "r2", "r3"}
    TaskOf <- MCTaskOf
    HashesOf <- MCHashesOf
    NodesOf <- MCNodesOf
    EventTypes = {"executor_completed", "validation_completed"}
    Demands <- MCDemands
    MaxEvents = 2
SPECIFICATION Spec
INVARIANT SealedTaskWasAdmitted
CHECK_DEADLOCK FALSE
