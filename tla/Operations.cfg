SPECIFICATION Spec
CONSTANTS
    c1 = c1
    c2 = c2
    Callers = {c1, c2}
    Batches <- MCBatches
    Droppable = {c1}
    MaxChanges = 1
INVARIANTS
    SuccessMeansItWasDone
    RemainsHaveACause
    UndisturbedActionsAreRight
    WaitTellsTheTruth
PROPERTIES
    BatchesEnd
CHECK_DEADLOCK FALSE
