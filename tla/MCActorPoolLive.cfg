SPECIFICATION FairSpec
CONSTANTS
  c1 = c1
  c2 = c2
  c3 = c3
  k1 = k1
  k2 = k2
  Calls = {c1, c2, c3}
  Closers = {x1}
  Keys = {k1, k2}
  KeyChoices <- MCTwoKeys
  BufferSize = 0
  None = None
PROPERTIES
  Responsive
  AcceptedRuns
