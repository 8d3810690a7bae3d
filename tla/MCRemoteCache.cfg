SPECIFICATION Spec
CONSTANTS
  Procs = {g1, g2}
  Others = {o1}
  Paths = {p1, p2}
  Misspelt = px
  Nil = Nil
  Size <- MCSize
  MaxBytes = 2
  BufCap = 1
  MaxVersion = 2
INVARIANTS
  TypeOK
  
  ReadYourWrite
  BodyBudget
SYMMETRY Symmetric
CHECK_DEADLOCK FALSE
