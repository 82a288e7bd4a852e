CONSTANTS
    Trades = {t1}
    Terms <- AllTerms
    Faults <- MostFaults
    Moves <- OwnMoves
    MaxCrashes = 2
SPECIFICATION Spec
INVARIANTS
    ConfirmOnlyIfFunded
    AuthorisedConfirm
    CancelOnlyWithGrounds
    NoticeMatchesVerdict
    NoticesOnce
PROPERTIES
    VerdictFinal
    KeepsThePromise
CHECK_DEADLOCK FALSE
