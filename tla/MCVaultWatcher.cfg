SPECIFICATION Spec
CONSTANTS
  note = note
  trash = trash
  a = a
  b = b
  oneLink = oneLink
  twoLinks = twoLinks
  Paths = {note, trash}
  Targets = {a, b}
  Slots = {s1, s2}
  Loop = Loop
  Scan = Scan
  ApiPaths = {note}
  Dests = {trash}
  TrashOf <- MCTrashOf
  BaseOf <- MCBaseOf
  Bodies = {oneLink, twoLinks}
  NoBody = NoBody
  Garbled = Garbled
  LinksOf <- MCLinksOf
  Budgets <- MCBudgets
  None = None
SYMMETRY MCSymmetry
INVARIANTS
  TypeOK
  NoGhost
  NoPhantom
PROPERTIES
  NoSilentOverwrite
