CONSTANTS
    Trades = {t1, t2}
    Faults <- FaultPoints
    Moves <- MovePoints
SPECIFICATION FairSpec
INVARIANT ProcessedHasOrder
PROPERTIES OneProof FundedGetsProof BookingEnds
CHECK_DEADLOCK FALSE
