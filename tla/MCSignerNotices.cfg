SPECIFICATION Spec
CONSTANTS
    Calls = {c1, c2}
    Accounts = {a1, a2}
    Requests = {r1, r2, r3}
    Quiet = {r3}
    None = None
INVARIANTS OwnRequests AnswerTellsAll OneForm
CHECK_DEADLOCK FALSE
