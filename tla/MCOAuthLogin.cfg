CONSTANTS
    Keys = {k1}
    Ids = {i1, i2}
    Tabs = {t1, t2}
    Faults <- FaultPoints
    None = None
SPECIFICATION FairSpec
INVARIANTS
    IndexSound
    ExpiredMeansOver
PROPERTIES
    KeepsRequest
    LoginEnds
CHECK_DEADLOCK FALSE
