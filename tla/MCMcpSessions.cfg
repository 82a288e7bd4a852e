SPECIFICATION SessionsSpec
CONSTANTS
    Accounts = {p1, p2}
    Transports = {t1, t2}
    Handlers = {h1, h2}
    Faults <- FaultPoints
    None = None
SYMMETRY MCSymmetry
INVARIANTS SessionSound LoggedOutStaysOut AloneMeansCurrent
CHECK_DEADLOCK FALSE
