SPECIFICATION FairSpec
CONSTANTS
    Participants = {p1}
    Coordinator = co
    Hosts = {h1, h2}
    FirstHost = h1
    None = none
    CanRetry = TRUE
    Failing = {p1, co}
    MaxFailovers = 2
    StableGenerations = TRUE
INVARIANTS
    OneDecision Unanimous
PROPERTIES
    PreparedIsPromise ImplementsAtomicCommit 
CHECK_DEADLOCK FALSE
