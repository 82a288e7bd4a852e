SPECIFICATION Spec
CONSTANTS
    Ids = {i1}
    MaxAge = 2
    LastTick = 2
    AssetFaults = {}
    None = None
INVARIANTS BookedIsTold
CHECK_DEADLOCK FALSE
