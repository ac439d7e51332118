SPECIFICATION Spec
CONSTANTS
  A = A
  B = B
  C = C
  None = None
  Db = {A, B, C}
  Txn = {1, 2, 3}
  Worlds <- ThreeWorlds
CHECK_DEADLOCK FALSE
 
PROPERTY AllEnd
