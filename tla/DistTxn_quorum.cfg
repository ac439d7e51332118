SPECIFICATION Spec
CONSTANTS
    Participants = {p1}
    Coordinator = co
    Hosts = {h1, h2}
    FirstHost = h1
    None = none
    CanRetry = TRUE
    Failing = {p1}
    MaxFailovers = 1
    StableGenerations = TRUE
INVARIANTS
    DurablePrepares
CHECK_DEADLOCK FALSE
