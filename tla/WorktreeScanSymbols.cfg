CONSTANTS
  old = old
  new = new
  base = base
  trimmed = trimmed
  other = other
  extra = extra
  latin = latin
  Absent = Absent
  Paths = {old}
  Versions = {base, trimmed, other, extra, latin}
  Choices <- OldOnly
  Base <- OldOnlyBase
  Binary = {}
  Unreadable = {}
  Unsearched = {}
  Garbled = {}
  Span <- OneRegion
  Symbols = {"f", "g"}
  Exports <- FInBase
  Uses <- ExtraUsesF
  Answers = {TRUE}
  MAX_REFERENCES = 3
  Attributed = {}
  MaxEdits = 2
SPECIFICATION FairSpec
PROPERTY SymbolsSettle
