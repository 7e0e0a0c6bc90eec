CONSTANTS
  Agents = {1}
  Checkouts = {c1, c2}
  Nowhere = Nowhere
  Bases = {b1, b2}
  NoBase = NoBase
  Paths = {p1}
  Changes <- OneChange
  Watchers = {w}
  Syncs = {s}
  MaxTime = 0
SPECIFICATION SpecWatched
PROPERTIES ConvergesAfterQuiet PhantomsAreForgotten
