SPECIFICATION Spec
CONSTANTS
    a = a
    b = b
    c = c
    d = d
    Locker = {a, b, c, d}
    Earlier = {a, b}
    Keeper = k
    Objects <- PageOrTable
INVARIANTS  SweepClears
CHECK_DEADLOCK FALSE
