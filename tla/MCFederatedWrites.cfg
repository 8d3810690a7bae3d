SPECIFICATION Spec
CONSTANTS
  personal = personal
  team = team
  c1 = c1
  c2 = c2
  k1 = k1
  k2 = k2
  p1 = p1
  Clients <- const_Clients
  Scopes <- const_Scopes
  Local = personal
  Remote <- const_Remote
  Paths = {p1}
  Keys = {k1, k2}
  NoKey = NoKey
  Nil = Nil
  Torn = Torn
  Promotions <- const_Promotions
  Number <- const_Number
  IdemMax = 1
  MaxMint = 5
  MaxCalls = 3
  MaxCrashes = 1
SYMMETRY const_Symmetry
INVARIANTS TypeOK ReplayKnown ArchivedWasCopied UniqueIDs NoGhostRow AckedDeletesKept
CHECK_DEADLOCK FALSE
