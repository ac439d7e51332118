SPECIFICATION Spec
CONSTANTS
  a = a
  b = b
  N = 3
  Obj <- TwoObj
  Loads <- ThreeLoads
INVARIANTS HoldersAgree   
PROPERTY NoOvertaking
