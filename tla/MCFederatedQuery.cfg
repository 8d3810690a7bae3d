SPECIFICATION Spec
CONSTANTS
  personal = personal
  team = team
  a = a
  b = b
  NoCursor = NoCursor
  Idle = Idle
  Scopes <- const_Scopes
  Remote <- const_Remote
  Ranks <- const_Ranks
  NameOf <- const_NameOf
  Limits <- const_Limits
  Starts <- const_Starts
  Filters <- const_Filters
  MaxPage = 3
  DefaultLimit = 1
  OverFetch = 2
  MaxListOffset = 1
  InlineBudget = 1
  Initial <- const_Initial
  MaxPages = 6
  MaxChanges = 1
INVARIANTS TypeOK OnlyAllowed NoRepeat PagingExact SearchBest
PROPERTY PagingEnds
CHECK_DEADLOCK FALSE
