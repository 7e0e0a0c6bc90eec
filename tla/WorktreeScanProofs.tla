-------------------------- MODULE WorktreeScanProofs --------------------------
(***************************************************************************)
(* What a scan torn by edits still gets right, for any number of paths,    *)
(* versions, symbols and edits: the rows of the paths that were left       *)
(* alone, and the symbols of a checkout at rest.                           *)
(***************************************************************************)
EXTENDS WorktreeScan, TLAPS

Version == Versions \cup {Absent}

File == [head : Version, index : Version, work : Version]

Kind == {Unnamed, Added, Edited, Deleted}

Regions == {None} \cup {Some(Span[v]) : v \in Version}

Digests == {None} \cup {Some(v) : v \in Version}

Row == [kind : Kind, digest : Digests, ranges : Regions]

SymbolRow ==
  [removed : SUBSET (Symbols \X Paths), references : SUBSET Symbols, truncated : BOOLEAN]

Scan ==
  [phase : {"idle", "diff", "status", "digest", "attributes", "references", "publish"},
   left : SUBSET Paths, kinds : [Paths -> Kind], regions : [Paths -> Regions],
   entries : [Paths -> Row], symbols : SymbolRow]

ScanType ==
  /\ tree \in [Paths -> File]
  /\ whole \subseteq Paths /\ probed \subseteq Paths
  /\ steady \subseteq Paths
  /\ scan \in Scan

-----------------------------------------------------------------------------
(***************************************************************************)
(* What the two git commands say of a path between them, and the row that  *)
(* follows from it, at one moment.                                         *)
(***************************************************************************)
FinalKind(p) == IF DiffKind(p) # Unnamed THEN DiffKind(p) ELSE StatusKind(p)

SeenRow(p) ==
  LET work == tree[p].work
      kind == IF work = Absent THEN Deleted ELSE FinalKind(p)
      seen == kind # Deleted /\ work \notin Unreadable
  IN  IF FinalKind(p) = Unnamed THEN NoEntry
      ELSE [kind   |-> kind,
            digest |-> IF seen THEN Some(work) ELSE None,
            ranges |-> IF seen /\ work \notin Binary THEN DiffRegion(p) ELSE None]

LEMMA KindsDiffer ==
  /\ Unnamed # Added /\ Unnamed # Edited /\ Unnamed # Deleted
  /\ Added # Edited /\ Added # Deleted /\ Edited # Deleted
BY DEF Unnamed, Added, Edited, Deleted

LEMMA SomeIsNotNone == \A x : Some(x) # None
BY DEF Some, None

LEMMA KindsTyped ==
  ASSUME ScanType, NEW p \in Paths
  PROVE  /\ DiffKind(p) \in Kind /\ StatusKind(p) \in Kind /\ FinalKind(p) \in Kind
         /\ DiffRegion(p) \in Regions
         /\ Base[p] \in Version
<1>1. DiffKind(p) \in Kind /\ StatusKind(p) \in Kind
  BY DEF DiffKind, StatusKind, Kind
<1>2. tree[p].work \in Version /\ Base[p] \in Version
  BY WorktreeScanAssumption DEF ScanType, File, Version
<1>3. QED
  BY <1>1, <1>2 DEF FinalKind, DiffRegion, Regions

\* Between them the two commands name exactly what differs from the base.
LEMMA NamedIsChanged ==
  ASSUME NEW p \in Paths
  PROVE  FinalKind(p) # Unnamed <=> Changed(p)
BY KindsDiffer DEF FinalKind, DiffKind, StatusKind, Changed

\* What they take for deleted is gone, from the working tree or from the index.
LEMMA DeletedIsGone ==
  ASSUME NEW p \in Paths
  PROVE  FinalKind(p) = Deleted => Absent \in {tree[p].work, tree[p].index}
BY KindsDiffer DEF FinalKind, DiffKind, StatusKind

LEMMA RegionIsTrue ==
  ASSUME NEW p \in Paths
  PROVE  DiffRegion(p) # None =>
           tree[p].work \notin Binary /\ DiffRegion(p) = Some(Span[tree[p].work])
BY DEF DiffRegion

LEMMA SeenIsTrue ==
  ASSUME NEW p \in Paths
  PROVE  /\ p \notin whole \cap probed => RowIsTrue(p, SeenRow(p))
         /\ RowIsTrue(p, [SeenRow(p) EXCEPT !.ranges = None])
<1>1. CASE FinalKind(p) = Unnamed
  <2>1. SeenRow(p) = NoEntry
    BY <1>1 DEF SeenRow
  <2>2. ~Changed(p)
    BY <1>1, NamedIsChanged
  <2>3. QED
    BY <2>1, <2>2, KindsDiffer DEF RowIsTrue, NoEntry
<1>2. CASE FinalKind(p) # Unnamed
  <2> DEFINE row == SeenRow(p)
  <2>1. /\ row.kind = IF tree[p].work = Absent THEN Deleted ELSE FinalKind(p)
        /\ row.digest = IF row.kind # Deleted /\ tree[p].work \notin Unreadable
                        THEN Some(tree[p].work) ELSE None
        /\ row.ranges # None => /\ row.kind # Deleted
                                /\ tree[p].work \notin Binary \cup Unreadable
                                /\ row.ranges = DiffRegion(p)
        /\ [row EXCEPT !.ranges = None].kind = row.kind
        /\ [row EXCEPT !.ranges = None].digest = row.digest
        /\ [row EXCEPT !.ranges = None].ranges = None
    BY <1>2 DEF SeenRow
  <2> HIDE DEF row
  <2>2. row.kind # Unnamed /\ Changed(p)
    BY <1>2, <2>1, NamedIsChanged, KindsDiffer
  <2>3. row.kind = Deleted => Absent \in {tree[p].work, tree[p].index}
    BY <2>1, DeletedIsGone
  <2>4. row.kind # Deleted =>
          /\ tree[p].work # Absent
          /\ row.digest = IF tree[p].work \in Unreadable THEN None ELSE Some(tree[p].work)
    BY <2>1
  <2>5. row.ranges # None => /\ tree[p].work \notin Binary \cup Unreadable
                             /\ row.ranges = Some(Span[tree[p].work])
    BY <2>1, RegionIsTrue
  <2>6. /\ p \notin whole \cap probed => RowIsTrue(p, row)
        /\ RowIsTrue(p, [row EXCEPT !.ranges = None])
    BY <2>1, <2>2, <2>3, <2>4, <2>5 DEF RowIsTrue
  <2>7. QED
    BY <2>6 DEF row
<1>3. QED
  BY <1>1, <1>2

\* The rows of files are the rows of what the checkout keeps.
LEMMA SeenIsLive ==
  ASSUME NEW p \in Paths
  PROVE  SeenRow(p).kind \notin {Unnamed, Deleted} <=> p \in LiveFiles
<1>1. SeenRow(p).kind = IF FinalKind(p) = Unnamed THEN Unnamed
                        ELSE IF tree[p].work = Absent THEN Deleted ELSE FinalKind(p)
  BY DEF SeenRow, NoEntry
<1>2. tree[p].work # Absent /\ FinalKind(p) # Unnamed =>
        (FinalKind(p) # Deleted <=>
           (tree[p].index = Absent => {Base[p], tree[p].head} = {Absent}))
  BY KindsDiffer DEF FinalKind, DiffKind, StatusKind
<1>3. QED
  BY <1>1, <1>2, NamedIsChanged, KindsDiffer DEF LiveFiles

-----------------------------------------------------------------------------
(***************************************************************************)
(* How far a scan has come: what it holds of a path that was left alone,   *)
(* and what it holds of names when nothing was touched at all.             *)
(***************************************************************************)
RowSoFar(p) ==
  /\ scan.phase \in {"diff", "status"} => scan.entries[p] = NoEntry
  /\ scan.phase = "status" =>
       scan.kinds[p] = DiffKind(p) /\ scan.regions[p] = DiffRegion(p)
  /\ scan.phase = "digest" =>
       /\ scan.kinds[p] = FinalKind(p) /\ scan.regions[p] = DiffRegion(p)
       /\ p \in scan.left => scan.kinds[p] # Unnamed
       /\ p \notin scan.left => scan.entries[p] = SeenRow(p)
  /\ scan.phase = "attributes" => scan.entries[p] = SeenRow(p)
  /\ scan.phase \in {"references", "publish"} =>
       /\ scan.entries[p] \in {SeenRow(p), [SeenRow(p) EXCEPT !.ranges = None]}
       /\ p \in whole \cap probed => scan.entries[p] = [SeenRow(p) EXCEPT !.ranges = None]

UsesOf(S) == UsesIn({p \in S : Legible(p)})

SymbolsSoFar ==
  /\ scan.phase = "diff" => scan.symbols = NoSymbols
  /\ scan.phase \in {"status", "digest", "attributes"} =>
       scan.symbols.references = {} /\ ~scan.symbols.truncated
  /\ scan.phase \in {"status", "digest", "attributes", "references", "publish"} =>
       scan.symbols.removed = WithdrawnExports
  /\ scan.phase = "references" =>
       /\ scan.left \subseteq Files
       /\ ~scan.symbols.truncated => scan.symbols.references = UsesOf(Files \ scan.left)
  /\ scan.phase = "publish" /\ ~scan.symbols.truncated =>
       scan.symbols.references = UsesOf(Files)

ScanInv ==
  /\ ScanType
  /\ \A p \in steady : RowSoFar(p)
  /\ steady = Paths => SymbolsSoFar

LEMMA ScanBegins == Init => ScanInv
<1> SUFFICES ASSUME Init
             PROVE  ScanInv
  OBVIOUS
<1>1. scan \in Scan
  BY DEF Init, NoScan, Scan, Empty, NoEntry, NoSymbols, Row, Kind, Regions, Digests, SymbolRow
<1>2. tree \in [Paths -> File]
  BY WorktreeScanAssumption DEF Init, File, Version
<1>3. scan.phase = "idle"
  BY DEF Init, NoScan
<1>4. QED
  BY <1>1, <1>2, <1>3 DEF Init, ScanInv, ScanType, RowSoFar, SymbolsSoFar

\* A path whose file did not change is seen as before.
LEMMA SameFile ==
  ASSUME NEW p \in Paths, tree'[p] = tree[p]
  PROVE  /\ DiffKind(p)' = DiffKind(p) /\ StatusKind(p)' = StatusKind(p)
         /\ DiffRegion(p)' = DiffRegion(p) /\ FinalKind(p)' = FinalKind(p)
         /\ SeenRow(p)' = SeenRow(p)
<1>1. DiffKind(p)' = DiffKind(p) /\ StatusKind(p)' = StatusKind(p)
  BY DEF DiffKind, StatusKind
<1>2. DiffRegion(p)' = DiffRegion(p)
  BY <1>1 DEF DiffRegion
<1>3. FinalKind(p)' = FinalKind(p)
  BY <1>1 DEF FinalKind
<1>4. QED
  BY <1>1, <1>2, <1>3 DEF SeenRow

\* No attribute file changed what it says of p.
SameAttributes(p) == p \in (whole \cap probed)' <=> p \in whole \cap probed

\* What every edit has in common.
LEMMA EditKeeps ==
  ASSUME ScanInv, NEW S \in SUBSET Paths, Touch(S),
         tree' \in [Paths -> File], whole' \subseteq Paths, probed' \subseteq Paths,
         \A p \in Paths \ S : tree'[p] = tree[p] /\ SameAttributes(p)
  PROVE  ScanInv'
<1>1. scan' = scan /\ S # {} /\ steady' = IF scan.phase = "idle" THEN Paths ELSE steady \ S
  BY DEF Touch
<1>2. ScanType'
  BY <1>1 DEF ScanInv, ScanType
<1>3. CASE scan.phase = "idle"
  BY <1>1, <1>2, <1>3 DEF ScanInv, RowSoFar, SymbolsSoFar
<1>4. CASE scan.phase # "idle"
  <2>1. ASSUME NEW p \in steady'
        PROVE  RowSoFar(p)'
    <3>1. /\ p \in steady /\ p \in Paths
          /\ tree'[p] = tree[p] /\ SameAttributes(p)
      BY <1>1, <1>4 DEF ScanInv, ScanType
    <3>2. RowSoFar(p)
      BY <3>1 DEF ScanInv
    <3>3. QED
      BY <1>1, <3>1, <3>2, SameFile DEF RowSoFar, SameAttributes
  <2>2. steady' # Paths
    BY <1>1, <1>4
  <2>3. QED
    BY <1>2, <2>1, <2>2 DEF ScanInv
<1>5. QED
  BY <1>3, <1>4

LEMMA EditsKeep == ScanInv /\ Edits => ScanInv'
<1> SUFFICES ASSUME ScanInv, Edits
             PROVE  ScanInv'
  OBVIOUS
<1> USE DEF ScanInv, ScanType
<1>1. ASSUME NEW p \in Paths, NEW v \in Choices[p], Write(p, v)
      PROVE  ScanInv'
  <2>1. v \in Version
    BY WorktreeScanAssumption DEF Version
  <2>2. tree' \in [Paths -> File] /\ \A q \in Paths \ {p} : tree'[q] = tree[q]
    BY <1>1, <2>1 DEF Write, File
  <2>3. QED
    BY <1>1, <2>2, EditKeeps DEF Write, SameAttributes
<1>2. ASSUME NEW p \in Paths, NEW v, Stage(p, v)
      PROVE  ScanInv'
  <2>1. v \in Version
    BY <1>2 DEF Stage, File, Version
  <2>2. tree' \in [Paths -> File] /\ \A q \in Paths \ {p} : tree'[q] = tree[q]
    BY <1>2, <2>1 DEF Stage, File
  <2>3. QED
    BY <1>2, <2>2, EditKeeps DEF Stage, SameAttributes
<1>3. CASE Commit
  <2> DEFINE S == {p \in Paths : tree[p].head # tree[p].index}
  <2>1. tree' \in [Paths -> File]
    BY <1>3 DEF Commit, File
  <2>2. \A q \in Paths \ S : tree'[q] = tree[q]
    BY <1>3 DEF Commit, File
  <2>3. QED
    BY <1>3, <2>1, <2>2, EditKeeps DEF Commit, SameAttributes
<1>4. ASSUME NEW S \in SUBSET Attributed, NEW P \in SUBSET Attributed, SetAttributes(S, P)
      PROVE  ScanInv'
  <2> DEFINE T == Differing(S, whole) \cup Differing(P, probed)
  <2>1. S \subseteq Paths /\ P \subseteq Paths
    BY WorktreeScanAssumption
  <2>2. T \in SUBSET Paths
    BY <2>1 DEF Differing
  <2>3. \A p \in Paths \ T : tree'[p] = tree[p] /\ SameAttributes(p)
    BY <1>4 DEF SetAttributes, SameAttributes, Differing
  <2>4. QED
    BY <1>4, <2>1, <2>2, <2>3, EditKeeps DEF SetAttributes
<1>5. QED
  BY <1>1, <1>2, <1>3, <1>4 DEF Edits

-----------------------------------------------------------------------------
(***************************************************************************)
(* The steps of the scan.                                                  *)
(***************************************************************************)
SameCheckout == UNCHANGED <<tree, whole, probed, steady>>

LEMMA SameExports == SameCheckout => WithdrawnExports' = WithdrawnExports
BY DEF SameCheckout, WithdrawnExports, DiffSide, DiffKind

LEMMA NoScanTyped ==
  /\ NoScan \in Scan /\ NoScan.phase = "idle" /\ NoScan.symbols = NoSymbols
  /\ \A p \in Paths : NoScan.entries[p] = NoEntry
BY DEF NoScan, Scan, Empty, NoEntry, NoSymbols, Row, Kind, Regions, Digests, SymbolRow

\* A scan that ends, or that begins, keeps nothing.
LEMMA IdleKeeps ==
  ASSUME ScanInv, scan' = NoScan, steady' = Paths, UNCHANGED <<tree, whole, probed>>
  PROVE  ScanInv'
BY NoScanTyped DEF ScanInv, ScanType, RowSoFar, SymbolsSoFar

LEMMA BeginKeeps == ScanInv /\ Begin => ScanInv'
<1> SUFFICES ASSUME ScanInv, Begin
             PROVE  ScanInv'
  OBVIOUS
<1>1. /\ scan' \in Scan /\ scan'.phase = "diff" /\ scan'.symbols = NoSymbols
      /\ \A p \in Paths : scan'.entries[p] = NoEntry
      /\ steady' = Paths /\ UNCHANGED <<tree, whole, probed>>
  BY NoScanTyped DEF Begin, Scan
<1>2. QED
  BY <1>1 DEF ScanInv, ScanType, RowSoFar, SymbolsSoFar

LEMMA DiffKeeps == ScanInv /\ Diff => ScanInv'
<1> SUFFICES ASSUME ScanInv, Diff
             PROVE  ScanInv'
  OBVIOUS
<1>1. scan \in Scan /\ scan.phase = "diff" /\ SameCheckout
  BY DEF Diff, Looks, SameCheckout, ScanInv, ScanType
<1>2. /\ [p \in Paths |-> DiffKind(p)] \in [Paths -> Kind]
      /\ [p \in Paths |-> DiffRegion(p)] \in [Paths -> Regions]
  BY KindsTyped DEF ScanInv
<1>3. WithdrawnExports \in SUBSET (Symbols \X Paths)
  BY DEF WithdrawnExports
<1>4. /\ scan' \in Scan /\ scan'.phase = "status" /\ scan'.entries = scan.entries
      /\ scan'.kinds = [p \in Paths |-> DiffKind(p)]
      /\ scan'.regions = [p \in Paths |-> DiffRegion(p)]
      /\ scan'.symbols.removed = WithdrawnExports
      /\ scan'.symbols.references = scan.symbols.references
      /\ scan'.symbols.truncated = scan.symbols.truncated
  BY <1>1, <1>2, <1>3 DEF Diff, Scan, SymbolRow
<1>5. ASSUME NEW p \in steady'
      PROVE  RowSoFar(p)'
  <2>1. p \in Paths /\ p \in steady /\ tree'[p] = tree[p]
    BY <1>1 DEF SameCheckout, ScanInv, ScanType
  <2>2. scan.entries[p] = NoEntry
    BY <1>1, <2>1 DEF ScanInv, RowSoFar
  <2>3. QED
    BY <1>4, <2>1, <2>2, SameFile DEF RowSoFar
<1>6. ASSUME steady' = Paths
      PROVE  SymbolsSoFar'
  <2>1. scan.symbols = NoSymbols
    BY <1>1, <1>6 DEF ScanInv, SymbolsSoFar, SameCheckout
  <2>2. WithdrawnExports' = WithdrawnExports
    BY <1>1, SameExports
  <2>3. QED
    BY <1>4, <2>1, <2>2 DEF SymbolsSoFar, NoSymbols
<1>7. QED
  BY <1>1, <1>4, <1>5, <1>6 DEF ScanInv, ScanType, SameCheckout

LEMMA StatusKeeps == ScanInv /\ StatusOnlyChanges => ScanInv'
<1> SUFFICES ASSUME ScanInv, StatusOnlyChanges
             PROVE  ScanInv'
  OBVIOUS
<1> DEFINE kinds == WithStatus(scan.kinds)
<1>1. scan \in Scan /\ scan.phase = "status" /\ SameCheckout
  BY DEF StatusOnlyChanges, Looks, SameCheckout, ScanInv, ScanType
<1>2. kinds \in [Paths -> Kind]
  <2>1. scan.kinds \in [Paths -> Kind]
    BY <1>1 DEF Scan
  <2>2. QED
    BY <2>1, KindsTyped DEF ScanInv, WithStatus
<1>3. /\ scan' \in Scan /\ scan'.phase = "digest" /\ scan'.entries = scan.entries
      /\ scan'.kinds = kinds /\ scan'.regions = scan.regions /\ scan'.symbols = scan.symbols
      /\ scan'.left = {p \in Paths : kinds[p] # Unnamed}
  BY <1>1, <1>2 DEF StatusOnlyChanges, Scan
<1>4. ASSUME NEW p \in steady'
      PROVE  RowSoFar(p)'
  <2>1. p \in Paths /\ p \in steady /\ tree'[p] = tree[p]
    BY <1>1 DEF SameCheckout, ScanInv, ScanType
  <2>2. /\ scan.entries[p] = NoEntry /\ scan.kinds[p] = DiffKind(p)
        /\ scan.regions[p] = DiffRegion(p)
    BY <1>1, <2>1 DEF ScanInv, RowSoFar
  <2>3. kinds[p] = FinalKind(p)
    BY <2>1, <2>2 DEF WithStatus, FinalKind
  <2>4. kinds[p] = Unnamed => SeenRow(p) = NoEntry
    BY <2>3 DEF SeenRow
  <2> HIDE DEF kinds
  <2>5. QED
    BY <1>3, <2>1, <2>2, <2>3, <2>4, SameFile DEF RowSoFar
<1>5. ASSUME steady' = Paths
      PROVE  SymbolsSoFar'
  <2>1. SymbolsSoFar
    BY <1>1, <1>5 DEF ScanInv, SameCheckout
  <2>2. WithdrawnExports' = WithdrawnExports
    BY <1>1, SameExports
  <2>3. QED
    BY <1>1, <1>3, <2>1, <2>2 DEF SymbolsSoFar
<1>6. QED
  BY <1>1, <1>3, <1>4, <1>5 DEF ScanInv, ScanType, SameCheckout

\* The row of a file read while it is as both commands saw it.
LEMMA EntryIs ==
  ASSUME ScanType, NEW p \in Paths
  PROVE  /\ Entry(p) \in Row
         /\ scan.kinds[p] = FinalKind(p) /\ FinalKind(p) # Unnamed
              /\ scan.regions[p] = DiffRegion(p) => Entry(p) = SeenRow(p)
<1>1. /\ tree[p].work \in Version /\ scan.kinds[p] \in Kind /\ scan.regions[p] \in Regions
  BY DEF ScanType, File, Scan
<1>2. Entry(p) \in Row
  BY <1>1 DEF Entry, Row, Kind, Regions, Digests
<1>3. QED
  BY <1>2 DEF Entry, SeenRow

LEMMA DigestKeeps ==
  ASSUME ScanInv, NEW p \in Paths, FingerprintOf(p)
  PROVE  ScanInv'
<1>1. /\ scan \in Scan /\ scan.phase = "digest" /\ SameCheckout
      /\ p \in scan.left
  BY DEF FingerprintOf, IsNext, Looks, SameCheckout, ScanInv, ScanType
<1>2. Entry(p) \in Row
  BY EntryIs DEF ScanInv
<1>3. /\ scan' \in Scan /\ scan'.left = scan.left \ {p}
      /\ scan'.phase = IF scan.left = {p} THEN "attributes" ELSE "digest"
      /\ scan'.entries = [scan.entries EXCEPT ![p] = Entry(p)]
      /\ scan'.kinds = scan.kinds /\ scan'.regions = scan.regions
      /\ scan'.symbols = scan.symbols
  BY <1>1, <1>2 DEF FingerprintOf, Scan
<1>4. ASSUME NEW q \in steady'
      PROVE  RowSoFar(q)'
  <2>1. q \in Paths /\ q \in steady /\ tree'[q] = tree[q]
    BY <1>1 DEF SameCheckout, ScanInv, ScanType
  <2>2. /\ scan.kinds[q] = FinalKind(q) /\ scan.regions[q] = DiffRegion(q)
        /\ q \in scan.left => scan.kinds[q] # Unnamed
        /\ q \notin scan.left => scan.entries[q] = SeenRow(q)
    BY <1>1, <2>1 DEF ScanInv, RowSoFar
  <2>3. q \notin scan'.left => scan'.entries[q] = SeenRow(q)
    <3>1. CASE q = p
      <4>1. Entry(p) = SeenRow(p)
        BY <1>1, <2>2, <3>1, EntryIs DEF ScanInv
      <4>2. QED
        BY <1>1, <1>3, <3>1, <4>1 DEF Scan
    <3>2. CASE q # p
      BY <1>1, <1>3, <2>1, <2>2, <3>2 DEF Scan
    <3>3. QED
      BY <3>1, <3>2
  <2>4. QED
    BY <1>1, <1>3, <2>1, <2>2, <2>3, SameFile DEF RowSoFar
<1>5. ASSUME steady' = Paths
      PROVE  SymbolsSoFar'
  <2>1. SymbolsSoFar
    BY <1>1, <1>5 DEF ScanInv, SameCheckout
  <2>2. WithdrawnExports' = WithdrawnExports
    BY <1>1, SameExports
  <2>3. QED
    BY <1>1, <1>3, <2>1, <2>2 DEF SymbolsSoFar
<1>6. QED
  BY <1>1, <1>3, <1>4, <1>5 DEF ScanInv, ScanType, SameCheckout

LEMMA NothingKeeps == ScanInv /\ NothingChanged => ScanInv'
<1> SUFFICES ASSUME ScanInv, NothingChanged
             PROVE  ScanInv'
  OBVIOUS
<1>1. scan \in Scan /\ scan.phase = "digest" /\ SameCheckout /\ scan.left = {}
  BY DEF NothingChanged, Looks, SameCheckout, ScanInv, ScanType
<1>2. /\ scan' \in Scan /\ scan'.phase = "attributes"
      /\ scan'.entries = scan.entries /\ scan'.symbols = scan.symbols
  BY <1>1 DEF NothingChanged, Scan
<1>3. ASSUME NEW q \in steady'
      PROVE  RowSoFar(q)'
  <2>1. q \in Paths /\ q \in steady /\ tree'[q] = tree[q]
    BY <1>1 DEF SameCheckout, ScanInv, ScanType
  <2>2. scan.entries[q] = SeenRow(q)
    BY <1>1, <2>1 DEF ScanInv, RowSoFar
  <2>3. QED
    BY <1>2, <2>1, <2>2, SameFile DEF RowSoFar
<1>4. ASSUME steady' = Paths
      PROVE  SymbolsSoFar'
  <2>1. SymbolsSoFar
    BY <1>1, <1>4 DEF ScanInv, SameCheckout
  <2>2. WithdrawnExports' = WithdrawnExports
    BY <1>1, SameExports
  <2>3. QED
    BY <1>1, <1>2, <2>1, <2>2 DEF SymbolsSoFar
<1>5. QED
  BY <1>1, <1>2, <1>3, <1>4 DEF ScanInv, ScanType, SameCheckout

LEMMA AttributesKeep ==
  ASSUME ScanInv, NEW answered \in Answers, WithholdUnmergeableRegions(answered)
  PROVE  ScanInv'
<1>1. scan \in Scan /\ scan.phase = "attributes" /\ SameCheckout
  BY DEF WithholdUnmergeableRegions, Looks, SameCheckout, ScanInv, ScanType
<1> DEFINE refused == IF AttributesReachable THEN Refused(answered) ELSE {}
           rows == [p \in Paths |-> IF p \in refused
                                    THEN [scan.entries[p] EXCEPT !.ranges = None]
                                    ELSE scan.entries[p]]
<1>2. rows \in [Paths -> Row]
  <2>1. \A p \in Paths : scan.entries[p] \in Row
    BY <1>1 DEF Scan
  <2>2. \A p \in Paths : [scan.entries[p] EXCEPT !.ranges = None] \in Row
    BY <2>1 DEF Row, Regions
  <2>3. QED
    BY <2>1, <2>2
<1>3. Files \in SUBSET Paths
  BY DEF Files
<1>4. /\ scan' \in Scan /\ scan'.phase = "references" /\ scan'.left = Files
      /\ scan'.entries = rows /\ scan'.symbols = scan.symbols
  <2>1. scan' = [scan EXCEPT !.phase = "references", !.left = Files, !.entries = rows]
    BY <1>1 DEF WithholdUnmergeableRegions, Scan
  <2> HIDE DEF rows
  <2>2. QED
    BY <1>1, <1>2, <1>3, <2>1 DEF Scan
<1>5. ASSUME NEW q \in whole \cap probed, scan.entries[q].ranges # None
      PROVE  q \in refused
  <2>1. AttributesReachable
    BY <1>5 DEF AttributesReachable
  <2>2. q \in Refused(answered)
    BY <1>5 DEF Refused, ScanInv, ScanType
  <2>3. QED
    BY <2>1, <2>2
<1>6. ASSUME NEW q \in steady'
      PROVE  RowSoFar(q)'
  <2>1. /\ q \in Paths /\ q \in steady /\ tree'[q] = tree[q]
        /\ SameAttributes(q)
    BY <1>1 DEF SameAttributes, SameCheckout, ScanInv, ScanType
  <2>2. scan.entries[q] = SeenRow(q)
    BY <1>1, <2>1 DEF ScanInv, RowSoFar
  <2>3. rows[q] = IF q \in refused THEN [SeenRow(q) EXCEPT !.ranges = None] ELSE SeenRow(q)
    BY <2>1, <2>2
  <2>4. SeenRow(q).ranges = None => SeenRow(q) = [SeenRow(q) EXCEPT !.ranges = None]
    BY DEF SeenRow, NoEntry
  <2>5. q \in whole \cap probed => q \in refused \/ SeenRow(q).ranges = None
    BY <1>5, <2>2
  <2> HIDE DEF rows, refused
  <2>6. /\ rows[q] \in {SeenRow(q), [SeenRow(q) EXCEPT !.ranges = None]}
        /\ q \in whole \cap probed => rows[q] = [SeenRow(q) EXCEPT !.ranges = None]
    BY <2>3, <2>4, <2>5
  <2>7. QED
    BY <1>4, <2>1, <2>6, SameFile DEF RowSoFar, SameAttributes
<1>7. ASSUME steady' = Paths
      PROVE  SymbolsSoFar'
  <2>1. SymbolsSoFar
    BY <1>1, <1>7 DEF ScanInv, SameCheckout
  <2>2. WithdrawnExports' = WithdrawnExports
    BY <1>1, SameExports
  <2>3. \A p \in Paths : rows[p].kind = scan.entries[p].kind
    BY <1>1 DEF Scan, Row
  <2>4. Files' = Files
    <3> HIDE DEF rows
    <3>1. QED
      BY <1>4, <2>3 DEF Files
  <2>5. \A S : UsesOf(S)' = UsesOf(S)
    BY <1>1 DEF UsesOf, UsesIn, Legible, SameCheckout
  <2>6. UsesOf(Files \ Files) = {}
    BY DEF UsesOf, UsesIn
  <2> HIDE DEF rows
  <2>7. QED
    BY <1>1, <1>4, <2>1, <2>2, <2>4, <2>5, <2>6 DEF SymbolsSoFar
<1>8. QED
  BY <1>1, <1>4, <1>6, <1>7 DEF ScanInv, ScanType, SameCheckout

LEMMA HarvestIs ==
  ASSUME NEW sym \in SymbolRow, NEW v \in Version
  PROVE  /\ Harvested(sym, v) \in SymbolRow
         /\ Harvested(sym, v).removed = sym.removed
         /\ v # Absent /\ ~Harvested(sym, v).truncated =>
              /\ ~sym.truncated
              /\ Harvested(sym, v).references =
                   sym.references \cup (IF v \in Garbled \ Unsearched THEN {} ELSE Uses[v])
<1>1. v # Absent => Uses[v] \in SUBSET Symbols
  BY WorktreeScanAssumption DEF Version
<1>2. (Cardinality(sym.references \cup Uses[v]) >= MAX_REFERENCES) \in BOOLEAN
  OBVIOUS
<1>3. QED
  BY <1>1, <1>2 DEF Harvested, SymbolRow

LEMMA ReferencesKeep ==
  ASSUME ScanInv, NEW p \in Paths, ReferencedSymbols(p)
  PROVE  ScanInv'
<1> DEFINE sym == Harvested(scan.symbols, tree[p].work)
<1>1. /\ scan \in Scan /\ scan.phase = "references" /\ SameCheckout
      /\ p \in scan.left
  BY DEF ReferencedSymbols, IsNext, Looks, SameCheckout, ScanInv, ScanType
<1>2. scan.symbols \in SymbolRow /\ tree[p].work \in Version
  BY <1>1 DEF Scan, ScanInv, ScanType, File
<1>3. /\ sym \in SymbolRow /\ sym.removed = scan.symbols.removed
      /\ tree[p].work # Absent /\ ~sym.truncated =>
           /\ ~scan.symbols.truncated
           /\ sym.references =
                scan.symbols.references \cup (IF Legible(p) THEN Uses[tree[p].work] ELSE {})
  BY <1>2, HarvestIs DEF Legible
<1>4. /\ scan' \in Scan /\ scan'.left = scan.left \ {p} /\ scan'.phase = "references"
      /\ scan'.entries = scan.entries /\ scan'.symbols = sym
  <2>1. scan' = [scan EXCEPT !.left = scan.left \ {p}, !.symbols = sym]
    BY DEF ReferencedSymbols
  <2> HIDE DEF sym
  <2>2. QED
    BY <1>1, <1>3, <2>1 DEF Scan
<1> HIDE DEF sym
<1>5. ASSUME NEW q \in steady'
      PROVE  RowSoFar(q)'
  <2>1. /\ q \in Paths /\ q \in steady /\ tree'[q] = tree[q]
        /\ SameAttributes(q)
    BY <1>1 DEF SameAttributes, SameCheckout, ScanInv, ScanType
  <2>2. RowSoFar(q)
    BY <2>1 DEF ScanInv
  <2>3. QED
    BY <1>1, <1>4, <2>1, <2>2, SameFile DEF RowSoFar, SameAttributes
<1>6. ASSUME steady' = Paths
      PROVE  SymbolsSoFar'
  <2>1. SymbolsSoFar /\ steady = Paths
    BY <1>1, <1>6 DEF ScanInv, SameCheckout
  <2>2. WithdrawnExports' = WithdrawnExports /\ Files' = Files
    BY <1>1, <1>4, SameExports DEF Files
  <2>3. p \in Files /\ scan.left \subseteq Files
    BY <1>1, <2>1 DEF SymbolsSoFar
  <2>4. tree[p].work # Absent
    <3>1. scan.entries[p].kind \notin {Unnamed, Deleted}
      BY <2>3 DEF Files
    <3>2. scan.entries[p] \in {SeenRow(p), [SeenRow(p) EXCEPT !.ranges = None]}
      BY <1>1, <2>1 DEF ScanInv, RowSoFar
    <3>3. [SeenRow(p) EXCEPT !.ranges = None].kind = SeenRow(p).kind
      BY DEF SeenRow, NoEntry
    <3>4. p \in LiveFiles
      BY <3>1, <3>2, <3>3, SeenIsLive
    <3>5. QED
      BY <3>4 DEF LiveFiles
  <2>5. Files \ (scan.left \ {p}) = (Files \ scan.left) \cup {p}
    BY <1>1, <2>3
  <2>6. UsesOf(Files \ (scan.left \ {p})) =
          UsesOf(Files \ scan.left) \cup (IF Legible(p) THEN Uses[tree[p].work] ELSE {})
    BY <2>5 DEF UsesOf, UsesIn
  <2>7. \A S : UsesOf(S)' = UsesOf(S)
    BY <1>1 DEF UsesOf, UsesIn, Legible, SameCheckout
  <2>8. ~sym.truncated => sym.references = UsesOf(Files \ (scan.left \ {p}))
    BY <1>1, <1>3, <2>1, <2>4, <2>6 DEF SymbolsSoFar
  <2>9. QED
    BY <1>1, <1>3, <1>4, <2>1, <2>2, <2>3, <2>7, <2>8 DEF SymbolsSoFar
<1>7. QED
  BY <1>1, <1>4, <1>5, <1>6 DEF ScanInv, ScanType, SameCheckout

LEMMA ScannedKeeps == ScanInv /\ Scanned => ScanInv'
<1> SUFFICES ASSUME ScanInv, Scanned
             PROVE  ScanInv'
  OBVIOUS
<1>1. scan \in Scan /\ scan.phase = "references" /\ SameCheckout /\ scan.left = {}
  BY DEF Scanned, Looks, SameCheckout, ScanInv, ScanType
<1>2. /\ scan' \in Scan /\ scan'.phase = "publish"
      /\ scan'.entries = scan.entries /\ scan'.symbols = scan.symbols
  BY <1>1 DEF Scanned, Scan
<1>3. ASSUME NEW q \in steady'
      PROVE  RowSoFar(q)'
  <2>1. /\ q \in Paths /\ q \in steady /\ tree'[q] = tree[q]
        /\ SameAttributes(q)
    BY <1>1 DEF SameAttributes, SameCheckout, ScanInv, ScanType
  <2>2. RowSoFar(q)
    BY <2>1 DEF ScanInv
  <2>3. QED
    BY <1>1, <1>2, <2>1, <2>2, SameFile DEF RowSoFar, SameAttributes
<1>4. ASSUME steady' = Paths
      PROVE  SymbolsSoFar'
  <2>1. SymbolsSoFar
    BY <1>1, <1>4 DEF ScanInv, SameCheckout
  <2>2. WithdrawnExports' = WithdrawnExports /\ Files' = Files
    BY <1>1, <1>2, SameExports DEF Files
  <2>3. \A S : UsesOf(S)' = UsesOf(S)
    BY <1>1 DEF UsesOf, UsesIn, Legible, SameCheckout
  <2>4. Files \ scan.left = Files
    BY <1>1
  <2>5. QED
    BY <1>1, <1>2, <2>1, <2>2, <2>3, <2>4 DEF SymbolsSoFar
<1>5. QED
  BY <1>1, <1>2, <1>3, <1>4 DEF ScanInv, ScanType, SameCheckout

LEMMA ScanSteps == ScanInv /\ [Next]_vars => ScanInv'
<1>1. ScanInv /\ UNCHANGED vars => ScanInv'
  <2> SUFFICES ASSUME ScanInv, UNCHANGED vars
               PROVE  ScanInv'
    OBVIOUS
  <2>1. SameCheckout /\ scan' = scan
    BY DEF vars, SameCheckout
  <2>2. ASSUME NEW q \in steady'
        PROVE  RowSoFar(q)'
    BY <2>1, SameFile DEF RowSoFar, SameCheckout, ScanInv, ScanType
  <2>3. WithdrawnExports' = WithdrawnExports /\ Files' = Files /\ \A S : UsesOf(S)' = UsesOf(S)
    BY <2>1, SameExports DEF Files, UsesOf, UsesIn, Legible, SameCheckout
  <2>4. steady' = Paths => SymbolsSoFar'
    BY <2>1, <2>3 DEF ScanInv, SymbolsSoFar, SameCheckout
  <2>5. QED
    BY <2>1, <2>2, <2>4 DEF ScanInv, ScanType, SameCheckout
<1>2. ScanInv /\ (Publish \/ Fail) => ScanInv'
  BY IdleKeeps DEF Publish, Fail
<1>3. QED
  BY <1>1, <1>2, EditsKeep, BeginKeeps, DiffKeeps, StatusKeeps, DigestKeeps, NothingKeeps,
     AttributesKeep, ReferencesKeep, ScannedKeeps
  DEF Next, Step

LEMMA ScanHolds == Spec => []ScanInv
BY ScanBegins, ScanSteps, PTL DEF Spec

(***************************************************************************)
(* A scan torn by any number of edits, stagings, commits and attribute     *)
(* files sees every path that was left alone as it is.  Regions of a path  *)
(* whose only attribute rule is in a file it does not look for are not     *)
(* covered (scan_worktree, attributes_reachable).                          *)
(***************************************************************************)
THEOREM TornScansAreTrue == Spec => []SteadyPathsAreSeen
<1>1. ScanInv => SteadyPathsAreSeen
  <2> SUFFICES ASSUME ScanInv, scan.phase = "publish", NEW p \in steady
               PROVE  RowIsTrue(p, scan.entries[p])
    BY DEF SteadyPathsAreSeen
  <2>1. p \in Paths /\ RowSoFar(p)
    BY DEF ScanInv, ScanType
  <2>2. /\ scan.entries[p] \in {SeenRow(p), [SeenRow(p) EXCEPT !.ranges = None]}
        /\ p \in whole \cap probed => scan.entries[p] = [SeenRow(p) EXCEPT !.ranges = None]
    BY <2>1 DEF RowSoFar
  <2>3. QED
    BY <2>1, <2>2, SeenIsTrue
<1>2. QED
  BY <1>1, ScanHolds, PTL

(***************************************************************************)
(* A scan of a checkout at rest knows every symbol it withdrew and every   *)
(* name it leans on in a file that reads as text, or says it does not, for *)
(* any cap on the names (referenced_symbols).                              *)
(***************************************************************************)
THEOREM CalmScansKnowSymbols == Spec => []CalmScanKnowsSymbols
<1>1. ScanInv => CalmScanKnowsSymbols
  <2> SUFFICES ASSUME ScanInv, scan.phase = "publish", steady = Paths
               PROVE  SymbolsAreTrue(scan.symbols)
    BY DEF CalmScanKnowsSymbols
  <2>1. ASSUME NEW p \in Paths
        PROVE  scan.entries[p].kind \notin {Unnamed, Deleted} <=> p \in LiveFiles
    <3>1. scan.entries[p] \in {SeenRow(p), [SeenRow(p) EXCEPT !.ranges = None]}
      BY DEF ScanInv, RowSoFar
    <3>2. [SeenRow(p) EXCEPT !.ranges = None].kind = SeenRow(p).kind
      BY DEF SeenRow, NoEntry
    <3>3. QED
      BY <3>1, <3>2, SeenIsLive
  <2>2. Files = LiveFiles
    BY <2>1 DEF Files, LiveFiles
  <2>3. UsesOf(Files) = UsesIn({p \in LiveFiles : Legible(p)})
    BY <2>2 DEF UsesOf
  <2>4. QED
    BY <2>3 DEF ScanInv, SymbolsSoFar, SymbolsAreTrue
<1>2. QED
  BY <1>1, ScanHolds, PTL
=============================================================================
