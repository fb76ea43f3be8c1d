SPECIFICATION Spec
CONSTANTS
    Payloads = {p1, p2}
    MaxRequests = 3
CHECK_DEADLOCK FALSE
INVARIANTS
    ExecutedOnce
