CONSTANTS
    A = A
    B = B
    C = C
    Node <- ThreeNodes
    None = None
    First = A
    TieBreaker <- OneTie
    Connected <- TwoOrThree
    Candidates <- NotFirst
    MaxEgen = 2
    MaxLog = 2
    MaxRestarts = 0
SPECIFICATION Spec
INVARIANTS DurableSurvives
CHECK_DEADLOCK FALSE
