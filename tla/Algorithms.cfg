CONSTANTS
  Letters = {"s", "t"}
  Names <- FileNames
  MaxParts = 2
  Paths = {p, q}
  Sources = {p}
  Symbols = {f}
  Lines = 3
  MaxHunks = 2
  Voices = 3
  Sessions = {s1, s2, s3}
  Checkouts = {main, c1, c2}
  Primary = main
  Agents = {a1, a2}
  NoAgent = NoAgent
  Pids = {p1}
  Tasks = {t1}
  Resources <- NestedAndPort
  LeaseLengths = {1, 2}
  StaleAfter = 0
  AbandonedAfter = 1
  MaxTime = 2
  MaxCalls = 2
SPECIFICATION SpecWithTables
SYMMETRY Symmetry
INVARIANTS ConflictIsSharedFile KeyIsIdentity DiffIsReadWhole DesyncIsConservative
  SafeMeansCleanMerge CleanRewritesPass PathAndPairsAgree NothingGoesUnsaid
  ReservationsDisjoint
PROPERTIES ClaimHeldUntilExpiry BurialNeedsEvidence ClaimsAreALeaseService
  ReservationHeldUntilExpiry AllOrNothing ReservationsAreALeaseService
CHECK_DEADLOCK FALSE
