SPECIFICATION Spec
CONSTANTS
  Procs = {c1, c2}
  Rescanners = {s1}
  p1 = p1
  p2 = p2
  p3 = p3
  Paths = {p1, p2, p3}
  KeyOf <- Folded
  Nil = Nil
  MaxCalls = 2
  MaxRescans = 1
SYMMETRY Symmetric
INVARIANTS
  TypeOK
  
PROPERTIES
  StaleWriteRejected
  NoNoteLost
CHECK_DEADLOCK FALSE
