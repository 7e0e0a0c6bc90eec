CONSTANTS
  Runs = {r1}
  src = src
  docs = docs
  Areas = {src, docs}
  Scope <- AllInSrc
  Task <- OwnTask
  MaxLive = 1
  MaxHead = 1
SPECIFICATION FairSpec
INVARIANTS ProcessIsCovered
PROPERTIES WorkIsKept StoppingEnds
