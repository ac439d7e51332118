CONSTANTS
    A = A
    B = B
    C = C
    Node <- ThreeNodes
    None = None
    First = A
    TieBreaker <- OneTie
    Connected <- Two
    Candidates <- NotFirst
    MaxEgen = 2
    MaxLog = 2
    MaxRestarts = 1
SPECIFICATION Spec
INVARIANTS StandsOnce KeptDurableSurvives 
CHECK_DEADLOCK FALSE
SYMMETRY SwapFollowers
