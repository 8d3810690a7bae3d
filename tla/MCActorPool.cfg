SPECIFICATION Spec
CONSTANTS
  c1 = c1
  c2 = c2
  c3 = c3
  k1 = k1
  k2 = k2
  Calls = {c1, c2, c3}
  Closers = {x1, x2}
  Keys = {k1, k2}
  KeyChoices <- MCKeyChoices
  BufferSize = 2
  None = None
INVARIANTS
  TypeOK
  NoSendOnClosed
  NoDoubleClose
  RealTimeOrder
PROPERTIES
  ImplementsSerializer
