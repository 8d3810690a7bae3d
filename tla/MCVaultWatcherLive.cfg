SPECIFICATION FairSpec
CONSTANTS
  note = note
  trash = trash
  a = a
  b = b
  oneLink = oneLink
  twoLinks = twoLinks
  Paths = {note, trash}
  Targets = {a, b}
  Slots = {s1}
  Loop = Loop
  Scan = Scan
  ApiPaths = {note}
  Dests = {trash}
  TrashOf <- MCTrashOf
  BaseOf <- MCBaseOf
  Bodies = {oneLink}
  NoBody = NoBody
  Garbled = Garbled
  LinksOf <- MCLinksOf
  Budgets <- MCLiveBudgets
  None = None
PROPERTIES
  Converges
