SPECIFICATION Spec
CONSTANTS
  personal = personal
  team = team
  a = a
  b = b
  NoCursor = NoCursor
  Idle = Idle
  Scopes <- const_Scopes
  Remote <- const_Remote
  Ranks <- const_Ranks
  NameOf <- const_NameOf
  Limits = {1}
  Starts = {0}
  Filters <- const_Filters
  MaxPage = 1
  DefaultLimit = 1
  OverFetch = 2
  MaxListOffset = 9
  InlineBudget = 1
  Initial <- const_Initial
  MaxPages = 6
  MaxChanges = 0
INVARIANT PagingExact
CHECK_DEADLOCK FALSE
