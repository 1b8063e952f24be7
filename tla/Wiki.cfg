CONSTANTS
  Pages = {p1, p2, p3, p4}
  Requests = {r1, r2}
  MaxDepth = 3
  MaxUpdates = 2
  Shared = {p1}
  None = None
  Same = Same
SPECIFICATION Spec
SYMMETRY Symmetry
INVARIANTS TypeOK EveryPageInTree UpdatesCounted
PROPERTY TextKeptAlone
CHECK_DEADLOCK FALSE
