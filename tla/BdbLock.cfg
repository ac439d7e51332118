SPECIFICATION Spec
CONSTANTS
    None = None
    w1 = w1
    w2 = w2
    u1 = u1
    u2 = u2
    Worker = {w1, w2}
    User = {u1, u2}
    MaxCalls = 3
    MaxGets = 3
    Requests = 1
INVARIANTS Exclusion CountsCalls
PROPERTY Granted
