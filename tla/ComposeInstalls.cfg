SPECIFICATION Spec
CONSTANTS
  p1 = p1
  p2 = p2
  Procs = {p1, p2}
  MaxVersion = 1
  Removals = FALSE
  Empty = Empty
INVARIANTS EntryFits FirstWins
SYMMETRY Symmetry
