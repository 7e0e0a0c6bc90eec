CONSTANTS
  old = old
  new = new
  base = base
  trimmed = trimmed
  other = other
  extra = extra
  latin = latin
  Absent = Absent
  Paths = {old, new}
  Versions = {base, trimmed, other, extra, latin}
  Choices <- OldAndNew
  Base <- OldIsBase
  Binary = {}
  Unreadable = {other}
  Unsearched = {other}
  Garbled = {latin}
  Span <- OneRegion
  Symbols = {"f", "g"}
  Exports <- FInBase
  Uses <- ExtraUsesF
  Answers = {TRUE, FALSE}
  MAX_REFERENCES = 2
  Attributed = {old}
  MaxEdits = 3
SPECIFICATION FairSpec
INVARIANTS SteadyPathsAreSeen CalmScanKnowsSymbols
PROPERTY RowsSettle
