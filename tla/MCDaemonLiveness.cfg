CONSTANTS
    Trades = {t1, t2}
    Terms <- PlainTerms
    Faults <- NoFaults
    Moves <- DaemonMoves
    MaxCrashes = 1
SPECIFICATION FairSpec
PROPERTIES Settles BuyerTold OperatorCancelFinal
CHECK_DEADLOCK FALSE
