CONSTANTS
  Agents = {1, 2}
  Checkouts = {c1, c2}
  Nowhere = Nowhere
  Bases = {b1}
  NoBase = NoBase
  Paths = {p1}
  Changes <- TwoChanges
  Watchers = {w}
  Syncs = {s}
  MaxTime = 1
SPECIFICATION SpecInPlace
ACTION_CONSTRAINT OneScan
SYMMETRY Symmetry
INVARIANTS ContentionIsBetweenCheckouts ContentionIsTold ConflictBlocksBothAlone
