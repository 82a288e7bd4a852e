SPECIFICATION SessionsSpec
CONSTANTS
    Accounts = {p1}
    Transports = {t1}
    Handlers = {h1}
    Faults = {}
    None = None
PROPERTIES NoSwapLoggedOut
CHECK_DEADLOCK FALSE
