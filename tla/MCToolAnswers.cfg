SPECIFICATION Spec
CONSTANTS
    Ids = {i1, i2}
    MaxAge = 1
    LastTick = 2
    AssetFaults <- AssetFaultPoints
    None = None
SYMMETRY MCSymmetry
INVARIANTS AnswersFit LinkWhole ServedRight
CHECK_DEADLOCK FALSE
