\* A participant and a coordinator for x, which are joined by two more requests
\* for y, where a recovered prepare may hold the lock.
CONSTANTS
    None = None
    Prepare = Prepare
    b1 = b1
    b2 = b2
    b3 = b3
    b4 = b4
    x = x
    y = y
    Bp = {b1, b2, b3, b4}
    Participants = {b1, b3}
    Coordinators = {b2}
    Obj = {x, y}
    wants <- TwoObj
    Recovered = {y}
    Downgrades = {d1}
    gbl_maxretries = 2
SPECIFICATION Spec
INVARIANTS NoWriteWaiters NotOverwritten 
PROPERTY DowngradeGetsLock
CHECK_DEADLOCK FALSE
