SPECIFICATION FairSpec
CONSTANTS
    MaxCalls = 2
    MaxChildren = 2
    Slots = 1
    Faults <- FaultPoints
    Images = {i1, i2}
    Window = 2
    MaxHits <- MCMaxHits
    LastTick = 2
INVARIANTS OwnAnswer OkMeansStored RateBound
PROPERTIES RejectedIsOver UploadEnds
CHECK_DEADLOCK FALSE
