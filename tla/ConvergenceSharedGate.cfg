CONSTANTS
  Agents = {1, 2, 3}
  Checkouts = {c1, c2}
  Nowhere = Nowhere
  Bases = {b1}
  NoBase = NoBase
  Paths = {p1}
  Changes <- TwoChanges
  Watchers = {w}
  Syncs = {}
  MaxTime = 0
SPECIFICATION SpecInPlace
SYMMETRY Symmetry
INVARIANT LiveConflictBlocksBoth
