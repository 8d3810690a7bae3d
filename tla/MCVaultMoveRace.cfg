SPECIFICATION Spec
CONSTANTS
  note = note
  trash = trash
  a = a
  b = b
  oneLink = oneLink
  twoLinks = twoLinks
  Paths = {note, trash}
  Targets = {a, b}
  Slots = {s1, s2}
  Loop = Loop
  Scan = Scan
  ApiPaths = {note, trash}
  Dests = {trash}
  TrashOf <- MCTrashOf
  BaseOf <- MCBaseOf
  Bodies = {oneLink}
  NoBody = NoBody
  Garbled = Garbled
  LinksOf <- MCLinksOf
  Budgets <- MCMoveBudgets
  None = None
PROPERTIES
  StaleWriteRejected
