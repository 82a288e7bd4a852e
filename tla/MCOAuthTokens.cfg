CONSTANTS
    Clients = {c1, c2}
    Tokens = {k1, k2, k3}
    Scopes = {read, write}
    Calls = {q1, q2}
    Faults <- FaultPoints
    None = None
SYMMETRY Symmetry
SPECIFICATION Spec
INVARIANTS
    OneLivePerFamily
    RotatedOnce
    NotStranded
CHECK_DEADLOCK FALSE
