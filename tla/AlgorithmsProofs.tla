--------------------------- MODULE AlgorithmsProofs ---------------------------
(***************************************************************************)
(* What the pure parts of the program promise for inputs of any size: the  *)
(* verdict over a contested path, for files of any length, any hunks and   *)
(* any number of checkouts; the report of a sweep, for any fleet; what is  *)
(* read from a diff, for any number of paths, hunks and lines.             *)
(***************************************************************************)
EXTENDS MCSeverity, MCSweepReport, MCDiffReader, ResourceKeysProofs

(***************************************************************************)
(* A verdict in terms of what it was given.                                *)
(***************************************************************************)
Deleting(ps) == \E i \in DOMAIN ps : ps[i].kind = Deleted

Editing(ps) == \E i \in DOMAIN ps : ps[i].kind # Deleted

LEMMA BenignMeans ==
  ASSUME NEW ps
  PROVE  Benign(Classify(ps)) <=>
           \/ Deleting(ps) /\ ~Editing(ps)
           \/ ~Deleting(ps) /\ (SameContent(ps) \/ DisjointRegions(ps))
BY DEF Benign, Classify, Deleting, Editing

LEMMA DeleteEditMeans ==
  ASSUME NEW ps
  PROVE  Classify(ps) = "delete_edit" <=> Deleting(ps) /\ Editing(ps)
BY DEF Classify, Deleting, Editing

LEMMA TouchIsSymmetric ==
  ASSUME NEW l, NEW r
  PROVE  RegionsTouch(l, r) <=> RegionsTouch(r, l)
BY DEF RegionsTouch

LEMMA HunkIsLines ==
  ASSUME NEW h \in Hunks
  PROVE  h.start \in Nat /\ h.removed \in Nat
BY SidesAssumption DEF Hunks

(***************************************************************************)
(* Two hunks that share a line or a seam have spans within REQUIRED_GAP.   *)
(***************************************************************************)
LEMMA ClashTouches ==
  ASSUME NEW h \in Hunks, NEW k \in Hunks, Clash(h, k)
  PROVE  RegionsTouch(HunkSpan(h.start, h.removed), HunkSpan(k.start, k.removed))
<1>1. PICK x : x \in Footing(h) /\ x \in Footing(k)
  BY DEF Clash
<1>2. ASSUME NEW g \in Hunks, x \in Footing(g)
      PROVE  /\ x \in Int
             /\ 2 * HunkSpan(g.start, g.removed).first - 1 <= x
             /\ x <= 2 * HunkSpan(g.start, g.removed).last + 1
             /\ HunkSpan(g.start, g.removed).first \in Int
             /\ HunkSpan(g.start, g.removed).last \in Int
  <2>1. g.start \in Nat /\ g.removed \in Nat
    BY HunkIsLines
  <2>2. CASE g.removed = 0
    BY <1>2, <2>1, <2>2 DEF Footing, Seam, HunkSpan
  <2>3. CASE g.removed # 0
    BY <1>2, <2>1, <2>3 DEF Footing, Seam, HunkSpan
  <2>4. QED
    BY <2>2, <2>3
<1>3. QED
  BY <1>1, <1>2 DEF RegionsTouch, REQUIRED_GAP

\* And the other way round, for two that take lines.
LEMMA TouchingClash ==
  ASSUME NEW h \in Hunks, NEW k \in Hunks, h.removed > 0, k.removed > 0,
         RegionsTouch(HunkSpan(h.start, h.removed), HunkSpan(k.start, k.removed))
  PROVE  Clash(h, k)
<1>1. h.start \in Nat /\ h.removed \in Nat /\ k.start \in Nat /\ k.removed \in Nat
  BY HunkIsLines
<1>2. h.start <= k.start + k.removed /\ k.start <= h.start + h.removed
  BY <1>1 DEF RegionsTouch, HunkSpan, REQUIRED_GAP
<1>3. ASSUME NEW x \in Nat
      PROVE  /\ 2 * h.start <= x + 1 /\ x + 1 <= 2 * (h.start + h.removed) => x \in Footing(h)
             /\ 2 * k.start <= x + 1 /\ x + 1 <= 2 * (k.start + k.removed) => x \in Footing(k)
  BY <1>1 DEF Footing, Seam
<1>4. h.start >= 1 /\ k.start >= 1
  BY DEF Hunks
<1>5. CASE h.start <= k.start
  <2> DEFINE x == 2 * k.start - 1
  <2>1. /\ x \in Nat /\ x + 1 = 2 * k.start
        /\ 2 * h.start <= 2 * k.start
        /\ 2 * k.start <= 2 * (h.start + h.removed) /\ 2 * k.start <= 2 * (k.start + k.removed)
    BY <1>1, <1>2, <1>4, <1>5
  <2> HIDE DEF x
  <2>2. QED
    BY <1>3, <2>1 DEF Clash
<1>6. CASE k.start <= h.start
  <2> DEFINE x == 2 * h.start - 1
  <2>1. /\ x \in Nat /\ x + 1 = 2 * h.start
        /\ 2 * k.start <= 2 * h.start
        /\ 2 * h.start <= 2 * (k.start + k.removed) /\ 2 * h.start <= 2 * (h.start + h.removed)
    BY <1>1, <1>2, <1>4, <1>6
  <2> HIDE DEF x
  <2>2. QED
    BY <1>3, <2>1 DEF Clash
<1>7. QED
  BY <1>1, <1>5, <1>6

-----------------------------------------------------------------------------
(***************************************************************************)
(* The checkouts of one contested path.                                    *)
(***************************************************************************)
Holds(s) ==
  /\ s.deleted \in BOOLEAN /\ s.hashable \in BOOLEAN /\ s.lines \in BOOLEAN
  /\ s.hunks \subseteq Hunks

SidesType ==
  /\ sides \in Seq(Sides)
  /\ \A i \in DOMAIN sides : Holds(sides[i])

LEMMA SidesHold == ASSUME NEW s \in Sides PROVE Holds(s)
<1>1. CASE s = Deletion
  BY <1>1 DEF Deletion, Holds
<1>2. CASE s # Deletion
  <2>1. s \in [deleted : {FALSE}, hunks : Edits, text : Texts, hashable : BOOLEAN, lines : BOOLEAN]
    BY <1>2 DEF Sides
  <2>2. s.hunks \in Edits /\ s.deleted = FALSE /\ s.hashable \in BOOLEAN /\ s.lines \in BOOLEAN
    BY <2>1
  <2>3. s.hunks \subseteq Hunks
    BY <2>2 DEF Edits, kSubset
  <2>4. QED
    BY <2>2, <2>3 DEF Holds
<1>3. QED
  BY <1>1, <1>2

LEMMA SidesTyped == SpecSides => []SidesType
<1>1. InitSides => SidesType
  BY DEF InitSides, SidesType
<1>2. SidesType /\ [Contest]_sides => SidesType'
  <2> SUFFICES ASSUME SidesType, [Contest]_sides PROVE SidesType'
    OBVIOUS
  <2>1. CASE UNCHANGED sides
    BY <2>1 DEF SidesType, Holds
  <2>2. CASE Contest
    <3>1. PICK s \in Sides : sides' = Append(sides, s)
      BY <2>2 DEF Contest
    <3>2. sides' \in Seq(Sides)
      BY <3>1 DEF SidesType
    <3>3. \A i \in DOMAIN sides' : sides'[i] \in Sides
      BY <3>2
    <3>4. QED
      BY <3>2, <3>3, SidesHold DEF SidesType
  <2>3. QED
    BY <2>1, <2>2
<1>3. QED
  BY <1>1, <1>2, PTL DEF SpecSides

\* What is observed of a checkout.
LEMMA ObservedIs ==
  ASSUME NEW s, Holds(s)
  PROVE  /\ Observed(s).kind = Deleted <=> s.deleted
         /\ Observed(s).digest # None <=> ~s.deleted /\ s.hashable
         /\ ~s.deleted /\ s.hashable => Observed(s).digest = Some(Content(s))
         /\ Observed(s).ranges # None <=> ~s.deleted /\ s.hashable /\ s.lines
         /\ ~s.deleted /\ s.hashable /\ s.lines =>
              UNION Observed(s).ranges = {HunkSpan(h.start, h.removed) : h \in s.hunks}
<1>1. Deleted # Edited
  BY DEF Deleted, Edited
<1>2. QED
  BY <1>1 DEF Observed, None, Some, Holds

Participants == [i \in DOMAIN sides |-> Observed(sides[i])]

\* A pair, in terms of its two checkouts.
LEMMA PairMeans ==
  ASSUME NEW i, NEW j
  PROVE  LET p == Observed(sides[i])
             q == Observed(sides[j])
         IN  /\ Benign(Pair(i, j)) <=>
                  \/ p.kind = Deleted /\ q.kind = Deleted
                  \/ /\ p.kind # Deleted /\ q.kind # Deleted
                     /\ \/ p.digest # None /\ q.digest = p.digest
                        \/ /\ p.ranges # None /\ q.ranges # None
                           /\ \A l \in UNION p.ranges, r \in UNION q.ranges : ~RegionsTouch(l, r)
             /\ Pair(i, j) = "delete_edit" <=>
                  \/ p.kind = Deleted /\ q.kind # Deleted
                  \/ p.kind # Deleted /\ q.kind = Deleted
<1> DEFINE p == Observed(sides[i])
           q == Observed(sides[j])
           ps == <<p, q>>
<1>1. DOMAIN ps = {1, 2} /\ ps[1] = p /\ ps[2] = q
  OBVIOUS
<1>2. Pair(i, j) = Classify(ps)
  BY DEF Pair
<1> HIDE DEF p, q, ps
<1>3. Deleting(ps) <=> p.kind = Deleted \/ q.kind = Deleted
  BY <1>1 DEF Deleting
<1>4. Editing(ps) <=> p.kind # Deleted \/ q.kind # Deleted
  BY <1>1 DEF Editing
<1>5. SameContent(ps) <=> p.digest # None /\ q.digest = p.digest
  BY <1>1 DEF SameContent
<1>6. DisjointRegions(ps) <=>
        /\ p.ranges # None /\ q.ranges # None
        /\ \A l \in UNION p.ranges, r \in UNION q.ranges : ~RegionsTouch(l, r)
  BY <1>1 DEF DisjointRegions
<1>7. QED
  BY <1>2, <1>3, <1>4, <1>5, <1>6, BenignMeans, DeleteEditMeans DEF p, q

\* The verdict over the whole path, in terms of any two of its checkouts.
LEMMA WholeMeans ==
  ASSUME SidesType, Contested
  PROVE  /\ Benign(Whole) =>
              \A i, j \in DOMAIN sides : i # j => Benign(Pair(i, j))
         /\ Whole = "delete_edit" <=>
              \E i, j \in DOMAIN sides : i # j /\ Pair(i, j) = "delete_edit"
<1> DEFINE ps == Participants
<1>1. /\ DOMAIN ps = DOMAIN sides /\ 1 \in DOMAIN sides
      /\ \A i \in DOMAIN sides : ps[i] = Observed(sides[i]) /\ i \in Int
      /\ Whole = Classify(ps)
  BY DEF Participants, Whole, Contested, SidesType
<1> HIDE DEF ps
<1>2. Deleting(ps) <=> \E i \in DOMAIN sides : Observed(sides[i]).kind = Deleted
  BY <1>1 DEF Deleting
<1>3. Editing(ps) <=> \E i \in DOMAIN sides : Observed(sides[i]).kind # Deleted
  BY <1>1 DEF Editing
<1>4. ASSUME Benign(Whole), NEW i \in DOMAIN sides, NEW j \in DOMAIN sides, i # j
      PROVE  Benign(Pair(i, j))
  <2>1. CASE Deleting(ps) /\ ~Editing(ps)
    BY <1>3, <2>1, PairMeans
  <2>2. CASE ~Deleting(ps) /\ SameContent(ps)
    <3>1. Observed(sides[i]).digest # None /\ Observed(sides[j]).digest = Observed(sides[i]).digest
      BY <1>1, <2>2 DEF SameContent
    <3>2. QED
      BY <1>2, <2>2, <3>1, PairMeans
  <2>3. CASE ~Deleting(ps) /\ DisjointRegions(ps)
    <3>1. Observed(sides[i]).ranges # None /\ Observed(sides[j]).ranges # None
      BY <1>1, <2>3 DEF DisjointRegions
    <3>2. ASSUME NEW l \in UNION Observed(sides[i]).ranges, NEW r \in UNION Observed(sides[j]).ranges
          PROVE  ~RegionsTouch(l, r)
      <4>1. CASE i < j
        BY <1>1, <2>3, <4>1 DEF DisjointRegions
      <4>2. CASE j < i
        BY <1>1, <2>3, <4>2, TouchIsSymmetric DEF DisjointRegions
      <4>3. QED
        BY <1>1, <1>4, <4>1, <4>2
    <3>3. QED
      BY <1>2, <2>3, <3>1, <3>2, PairMeans
  <2>4. QED
    BY <1>1, <1>4, <2>1, <2>2, <2>3, BenignMeans
<1>5. Whole = "delete_edit" <=> Deleting(ps) /\ Editing(ps)
  BY <1>1, DeleteEditMeans
<1>6. QED
  BY <1>2, <1>3, <1>4, <1>5, PairMeans

(***************************************************************************)
(* The gate, which judges pairs, and the report, which judges the path,    *)
(* agree for any number of checkouts: a path reported benign blocks no     *)
(* pair, and a delete against an edit is one in both.                      *)
(***************************************************************************)
THEOREM PathsAndPairs == SpecSides => []PathAndPairsAgree
<1>1. SidesType => PathAndPairsAgree
  BY WholeMeans DEF PathAndPairsAgree
<1>2. QED
  BY <1>1, SidesTyped, PTL

\* Two checkouts judged benign hold changes that merge.
LEMMA BenignPairMerges ==
  ASSUME NEW i, NEW j, Holds(sides[i]), Holds(sides[j]), Benign(Pair(i, j))
  PROVE  MergesCleanly(sides[i], sides[j])
<1> DEFINE s == sides[i]
           t == sides[j]
<1>1. CASE s.deleted \/ t.deleted
  <2>1. s.deleted /\ t.deleted
    BY <1>1, PairMeans, ObservedIs
  <2>2. QED
    BY <2>1 DEF MergesCleanly
<1>2. CASE ~s.deleted /\ ~t.deleted
  <2>1. CASE Observed(s).digest # None /\ Observed(t).digest = Observed(s).digest
    <3>1. Some(Content(s)) = Some(Content(t))
      BY <1>2, <2>1, ObservedIs
    <3>2. QED
      BY <1>2, <3>1 DEF MergesCleanly, Some
  <2>2. CASE /\ Observed(s).ranges # None /\ Observed(t).ranges # None
             /\ \A l \in UNION Observed(s).ranges, r \in UNION Observed(t).ranges : ~RegionsTouch(l, r)
    <3>1. s.lines /\ t.lines /\ s.hashable /\ t.hashable
      BY <2>2, ObservedIs
    <3>2. ASSUME NEW h \in s.hunks, NEW k \in t.hunks PROVE ~Clash(h, k)
      <4>1. /\ HunkSpan(h.start, h.removed) \in UNION Observed(s).ranges
            /\ HunkSpan(k.start, k.removed) \in UNION Observed(t).ranges
        BY <1>2, <3>1, ObservedIs
      <4>2. h \in Hunks /\ k \in Hunks
        BY DEF Holds
      <4>3. QED
        BY <2>2, <4>1, <4>2, ClashTouches
    <3>3. QED
      BY <1>2, <3>1, <3>2 DEF MergesCleanly
  <2>3. QED
    BY <1>2, <2>1, <2>2, PairMeans, ObservedIs
<1>3. QED
  BY <1>1, <1>2 DEF Holds

(***************************************************************************)
(* No false safe: whatever any number of checkouts hold of a file of any   *)
(* length, a path called identical or adjacent merges between every two.   *)
(***************************************************************************)
THEOREM NoFalseSafe == SpecSides => []SafeMeansCleanMerge
<1>1. SidesType => SafeMeansCleanMerge
  <2> SUFFICES ASSUME SidesType, Contested, Benign(Whole),
                      NEW i \in DOMAIN sides, NEW j \in DOMAIN sides, i # j
               PROVE  MergesCleanly(sides[i], sides[j])
    BY DEF SafeMeansCleanMerge
  <2>1. Benign(Pair(i, j))
    BY WholeMeans
  <2>2. QED
    BY <2>1, BenignPairMerges DEF SidesType
<1>2. QED
  BY <1>1, SidesTyped, PTL

(***************************************************************************)
(* And no false alarm over rewrites: what was measured whole and merges    *)
(* cleanly is never called a conflict, for files and edits of any size.    *)
(***************************************************************************)
THEOREM NoFalseAlarm == SpecSides => []CleanRewritesPass
<1>1. SidesType => CleanRewritesPass
  <2> SUFFICES ASSUME SidesType, NEW i \in DOMAIN sides, NEW j \in DOMAIN sides,
                      Measured(sides[i]), Measured(sides[j]), MergesCleanly(sides[i], sides[j])
               PROVE  Benign(Pair(i, j))
    BY DEF CleanRewritesPass
  <2> DEFINE s == sides[i]
             t == sides[j]
  <2>1. Holds(s) /\ Holds(t) /\ Measured(s) /\ Measured(t) /\ MergesCleanly(s, t)
    BY DEF SidesType
  <2>2. CASE s.deleted /\ t.deleted
    BY <2>1, <2>2, ObservedIs, PairMeans
  <2>3. CASE ~s.deleted /\ ~t.deleted /\ Content(s) = Content(t)
    <3>1. s.hashable /\ t.hashable
      BY DEF Measured
    <3>2. Observed(s).digest # None /\ Observed(t).digest = Observed(s).digest
      <4>1. Observed(s).digest # None
        BY <2>1, <2>3, <3>1, ObservedIs
      <4>2. Observed(s).digest = Some(Content(s)) /\ Observed(t).digest = Some(Content(t))
        BY <2>1, <2>3, <3>1, ObservedIs
      <4>3. QED
        BY <2>3, <4>1, <4>2
    <3>3. Observed(s).kind # Deleted /\ Observed(t).kind # Deleted
      BY <2>1, <2>3, ObservedIs
    <3>4. QED
      BY <3>2, <3>3, PairMeans
  <2>4. CASE ~s.deleted /\ ~t.deleted /\ \A h \in s.hunks, k \in t.hunks : ~Clash(h, k)
    <3>1. s.hashable /\ t.hashable /\ s.lines /\ t.lines
      BY DEF Measured
    <3>2. Observed(s).ranges # None /\ Observed(t).ranges # None
      BY <2>1, <2>4, <3>1, ObservedIs
    <3>3. ASSUME NEW l \in UNION Observed(s).ranges, NEW r \in UNION Observed(t).ranges
          PROVE  ~RegionsTouch(l, r)
      <4>1. /\ UNION Observed(s).ranges = {HunkSpan(h.start, h.removed) : h \in s.hunks}
            /\ UNION Observed(t).ranges = {HunkSpan(h.start, h.removed) : h \in t.hunks}
        BY <2>1, <2>4, <3>1, ObservedIs
      <4>2. PICK h \in s.hunks : l = HunkSpan(h.start, h.removed)
        BY <4>1
      <4>3. PICK k \in t.hunks : r = HunkSpan(k.start, k.removed)
        BY <4>1
      <4>4. h \in Hunks /\ k \in Hunks /\ h.removed > 0 /\ k.removed > 0 /\ ~Clash(h, k)
        BY <2>1, <2>4 DEF Holds, Measured
      <4>5. QED
        BY <4>2, <4>3, <4>4, TouchingClash
    <3>4. Observed(s).kind # Deleted /\ Observed(t).kind # Deleted
      BY <2>1, <2>4, ObservedIs
    <3>5. QED
      BY <3>2, <3>3, <3>4, PairMeans
  <2>5. QED
    BY <2>1, <2>2, <2>3, <2>4 DEF MergesCleanly
<1>2. QED
  BY <1>1, SidesTyped, PTL

(***************************************************************************)
(* The fleets the report is about, and that what is scanned of one is a    *)
(* finite part of what its live sessions occupy.                           *)
(***************************************************************************)
SweepType == sweep \subseteq Sweep

LEMMA SweepTyped == SpecSweep => []SweepType
<1>1. InitSweep => SweepType
  BY DEF InitSweep, SweepType
<1>2. SweepType /\ [AskSweep]_sweep => SweepType'
  BY DEF SweepType, AskSweep
<1>3. QED
  BY <1>1, <1>2, PTL DEF SpecSweep

LEMMA GroupedIsCheckouts ==
  ASSUME NEW s \in Sweep
  PROVE  /\ IsFiniteSet(Grouped(s)) /\ IsFiniteSet(Scanned(s))
         /\ Grouped(s) \subseteq Checkouts
         /\ Cardinality(Grouped(s)) \in Nat /\ Cardinality(Scanned(s)) \in Nat
<1>1. ASSUME NEW a \in Sessions
      PROVE  s.rows[a].at \subseteq Checkouts
  BY DEF Sweep, SessionRow, NoSession
<1>2. Grouped(s) \subseteq Checkouts
  BY <1>1 DEF Grouped, LiveSessions
<1>3. IsFiniteSet(Grouped(s))
  BY <1>2, SweepReportAssumption, FS_Subset
<1>4. IsFiniteSet(Scanned(s))
  BY <1>3, FS_Subset DEF Scanned
<1>5. QED
  BY <1>2, <1>3, <1>4, FS_CardinalityType

(***************************************************************************)
(* The label, which watch_pass computes from two counts, in terms of the   *)
(* checkouts counted.                                                      *)
(***************************************************************************)
LEMMA ObservationMeans ==
  ASSUME NEW s \in Sweep
  PROVE  LET o == Report(s).observation
         IN  /\ o \in {"complete", "idle"} => Scanned(s) = Grouped(s)
             /\ o \in {"partial", "blind"} => Scanned(s) # Grouped(s) /\ Grouped(s) # {}
<1> DEFINE n == Cardinality(Grouped(s))
           m == Cardinality(Scanned(s))
<1>1. /\ n \in Nat /\ m \in Nat
      /\ n = 0 <=> Grouped(s) = {}
      /\ m = 0 <=> Scanned(s) = {}
  BY GroupedIsCheckouts, FS_EmptySet
<1>2. Scanned(s) \subseteq Grouped(s) /\ m <= n /\ (m = n => Scanned(s) = Grouped(s))
  BY GroupedIsCheckouts, FS_Subset DEF Scanned
<1>3. Report(s).observation = Observation(n, m)
  BY DEF Report, ObservedCheckouts
<1> HIDE DEF n, m
<1>4. Observation(n, m) \in {"complete", "idle"} => n = m \/ n = 0
  BY <1>1, <1>2 DEF Observation
<1>5. Observation(n, m) \in {"partial", "blind"} => n # 0 /\ n # m
  BY <1>1, <1>2 DEF Observation
<1>6. n # m => Scanned(s) # Grouped(s)
  BY DEF n, m
<1>7. QED
  BY <1>1, <1>2, <1>3, <1>4, <1>5, <1>6

(***************************************************************************)
(* Every sweep of every fleet accounts for every checkout, and never calls *)
(* itself complete over one it skipped.                                    *)
(***************************************************************************)
THEOREM SweepsAccount == SpecSweep => []NothingGoesUnsaid
<1>1. SweepType => NothingGoesUnsaid
  <2> SUFFICES ASSUME SweepType, NEW s \in sweep
               PROVE  /\ \A c \in s.known \cup Grouped(s) :
                           \/ c \in Scanned(s) \cup Mentioned(Report(s))
                           \/ Report(s).uncovered
                           \/ c = Primary /\ Report(s).asked
                      /\ Report(s).observation \in {"complete", "idle"} => Report(s).skipped = {}
                      /\ Report(s).observation \in {"partial", "blind"} =>
                           Report(s).skipped # {} /\ Report(s).asked
    BY DEF NothingGoesUnsaid
  <2>1. s \in Sweep
    BY DEF SweepType
  <2>2. /\ Report(s).skipped = Skipped(s) /\ Report(s).uncovered = ~s.lists
        /\ Report(s).unwatched = Unwatched(s) /\ Report(s).asked = (LiveSessions(s) # {})
    BY DEF Report
  <2>3. Grouped(s) # {} => LiveSessions(s) # {}
    BY DEF Grouped
  <2>4. Scanned(s) \subseteq Grouped(s)
    BY DEF Scanned
  <2>5. ASSUME NEW c \in Grouped(s)
        PROVE  c \in Scanned(s) \cup Mentioned(Report(s))
    BY <2>2 DEF Mentioned, Skipped
  <2>6. ASSUME NEW c \in s.known, c \notin Grouped(s), s.lists, c \notin Unwatched(s)
        PROVE  c = Primary /\ Report(s).asked
    BY <2>2, <2>3, <2>6 DEF Unwatched, Known, Gap
  <2>7. QED
    BY <2>1, <2>2, <2>3, <2>4, <2>5, <2>6, ObservationMeans DEF Mentioned, Skipped
<1>2. QED
  BY <1>1, SweepTyped, PTL

-----------------------------------------------------------------------------
(***************************************************************************)
(* Reading a diff, line by line.                                           *)
(***************************************************************************)
Kinds == {Unnamed, Added, Edited, Deleted}

Span == [first : Int, last : Int]

\* What the parser's locals hold.
State ==
  [current : SUBSET Paths, pending : SUBSET Paths, kinds : [Paths -> Kinds],
   regions : [Paths -> Seq(Span)], removed : SUBSET (Symbols \X Paths),
   added : SUBSET Symbols, body : Nat, desynced : BOOLEAN, announced : Nat]

Reads(s, lines, e) ==
  \E r : /\ r[0] = s /\ r[Len(lines)] = e
         /\ \A k \in 1..Len(lines) : r[k] = ReadLine(r[k-1], lines[k])

LEMMA UnreadTyped == Unread \in State
BY DEF Unread, State, Kinds, None

LEMMA SpanTyped ==
  ASSUME NEW first \in Nat, NEW removed \in Nat
  PROVE  HunkSpan(first, removed) \in Span
BY DEF HunkSpan, Span

LEMMA HarvestTyped ==
  ASSUME NEW s \in State, NEW line \in Line
  PROVE  Harvest(s, line) \in State
<1> DEFINE path == IF s.current # None THEN s.current ELSE s.pending
<1>1. path \in SUBSET Paths /\ line.exports \in SUBSET Symbols
  BY DEF State, Line
<1>2. line.exports \X path \subseteq Symbols \X Paths
  BY <1>1
<1>3. [s EXCEPT !.removed = @ \cup (line.exports \X path)] \in State
  BY <1>2 DEF State
<1>4. [s EXCEPT !.added = @ \cup line.exports] \in State
  BY <1>1 DEF State
<1>5. QED
  BY <1>3, <1>4 DEF Harvest

LEMMA ReadLineTyped ==
  ASSUME NEW s \in State, NEW line \in Line
  PROVE  ReadLine(s, line) \in State
<1>1. s.body > 0 => ReadBody(s, line) \in State
  <2>1. s.body > 0 => s.body - 1 \in Nat
    BY DEF State
  <2>2. s.body > 0 => [s EXCEPT !.body = @ - 1] \in State
    BY <2>1 DEF State
  <2>3. QED
    BY <2>2, HarvestTyped DEF ReadBody
<1>2. Name(s, line.path) \in State
  <2>1. line.path \in SUBSET Paths
    BY DEF Line
  <2>2. [s EXCEPT !.kinds = [p \in Paths |-> IF p \in line.path THEN Added ELSE @[p]],
                  !.pending = line.path] \in State
    BY <2>1 DEF State, Kinds
  <2>3. [s EXCEPT !.kinds = [p \in Paths |-> IF p \notin s.current THEN @[p]
                                             ELSE IF line.path = None THEN Deleted ELSE Edited]]
          \in State
    BY <2>1 DEF State, Kinds
  <2>4. QED
    BY <2>2, <2>3 DEF Name
<1>3. ASSUME NEW hunk \in line.hunk
      PROVE  OpenHunk(s, hunk) \in State
  <2>1. hunk.start \in Nat /\ hunk.removed \in Nat /\ hunk.added \in Nat
    BY DEF Line
  <2>2. HunkSpan(hunk.start, hunk.removed) \in Span
    BY <2>1, SpanTyped
  <2>3. \A p \in Paths : Append(s.regions[p], HunkSpan(hunk.start, hunk.removed)) \in Seq(Span)
    BY <2>2 DEF State
  <2>4. [p \in Paths |-> IF p \in s.current THEN Append(s.regions[p], HunkSpan(hunk.start, hunk.removed))
                         ELSE s.regions[p]] \in [Paths -> Seq(Span)]
    BY <2>3 DEF State
  <2>5. hunk.removed + hunk.added \in Nat
    BY <2>1
  <2>6. QED
    BY <2>4, <2>5 DEF OpenHunk, State
<1>4. ReadHeader(s, line) \in State
  <2>0. s.announced + 1 \in Nat /\ None \in SUBSET Paths
    BY DEF State, None
  <2>1. [s EXCEPT !.announced = @ + 1, !.current = None, !.pending = None] \in State
    BY <2>0 DEF State
  <2>2. [s EXCEPT !.current = line.path, !.pending = None] \in State
    BY DEF State, None, Line
  <2>3. [s EXCEPT !.desynced = TRUE] \in State
    BY DEF State
  <2>4. line.hunk # {} => OpenHunk(s, CHOOSE h \in line.hunk : TRUE) \in State
    BY <1>3
  <2>5. QED
    BY <1>2, <2>1, <2>2, <2>3, <2>4 DEF ReadHeader
<1>5. QED
  BY <1>1, <1>4 DEF ReadLine

\* The loop of read_diff reads the lines one after the other.
LEMMA FoldReads ==
  ASSUME NEW s \in State, NEW lines \in Seq(Line)
  PROVE  Reads(s, lines, FoldLeft(ReadLine, s, lines))
<1> DEFINE n == Len(lines)
           F == [p \in (1..n) \X State |-> ReadLine(p[2], lines[p[1]])]
           Reading(g) == g = [t \in SUBSET (1..n) |->
                                IF t = {} THEN s ELSE ReadLine(g[t \ {Max(t)}], lines[Max(t)])]
           it == CHOOSE g : Reading(g)
<1>1. n \in Nat /\ DOMAIN lines = 1..n /\ \A i \in 1..n : lines[i] \in Line
  OBVIOUS
<1>2. FoldLeft(ReadLine, s, lines) = it[1..n]
  BY <1>1 DEF FoldLeft, MapThenFoldSet
<1> HIDE DEF n
<1>3. F \in [(1..n) \X State -> State]
  BY <1>1, ReadLineTyped
<1>4. \A i \in 1..n, v \in State : F[i, v] = ReadLine(v, lines[i])
  OBVIOUS
<1> HIDE DEF F
<1>5. PICK g \in [SUBSET (1..n) -> State] : Folding(g, F, s, 1..n)
  BY <1>1, <1>3, FoldExists
<1>6. \A t \in SUBSET (1..n) : t # {} => Max(t) \in 1..n /\ t \ {Max(t)} \in SUBSET (1..n)
  BY <1>1, MaxIn
<1>7. Reading(g)
  <2>1. ASSUME NEW t \in SUBSET (1..n), t # {}
        PROVE  F[Max(t), g[t \ {Max(t)}]] = ReadLine(g[t \ {Max(t)}], lines[Max(t)])
    BY <1>4, <1>6, <2>1
  <2>2. QED
    BY <1>5, <2>1 DEF Folding
<1>8. Reading(it)
  BY <1>7
<1> HIDE DEF it
<1>9. it[{}] = s
  BY <1>8
<1>10. Unfolds(it, F, s, State, 1..n)
  <2>1. \A t \in SUBSET (1..n) :
          t # {} /\ it[t \ {Max(t)}] \in State => it[t] = F[Max(t), it[t \ {Max(t)}]]
    BY <1>4, <1>6, <1>8
  <2>2. QED
    BY <1>9, <2>1 DEF Unfolds
<1>11. PICK j : Walked(j, it, F, s, State, n)
  BY <1>1, <1>3, <1>10, FoldWalks
<1>12. ASSUME NEW k \in 1..n
       PROVE  j[k] = ReadLine(j[k-1], lines[k])
  <2>1. k - 1 \in 0..n
    BY <1>1
  <2>2. j[k] = F[k, j[k-1]] /\ j[k-1] \in State
    BY <1>11, <2>1 DEF Walked
  <2>3. QED
    BY <1>4, <2>2
<1>13. j[0] = s /\ j[n] = FoldLeft(ReadLine, s, lines)
  BY <1>2, <1>11 DEF Walked
<1>14. QED
  BY <1>12, <1>13 DEF n, Reads

LEMMA ReadsNone ==
  ASSUME NEW s, NEW e, Reads(s, << >>, e)
  PROVE  e = s
<1>1. Len(<< >>) = 0
  OBVIOUS
<1>2. QED
  BY <1>1 DEF Reads

LEMMA ReadsOne ==
  ASSUME NEW s, NEW e, NEW line, Reads(s, <<line>>, e)
  PROVE  e = ReadLine(s, line)
<1>1. Len(<<line>>) = 1 /\ <<line>>[1] = line /\ 1 \in 1..1 /\ 1 - 1 = 0
  OBVIOUS
<1>2. QED
  BY <1>1 DEF Reads

LEMMA ReadsBoth ==
  ASSUME NEW X, NEW s, NEW e, NEW a \in Seq(X), NEW b \in Seq(X), Reads(s, a \o b, e)
  PROVE  \E m : Reads(s, a, m) /\ Reads(m, b, e)
<1> DEFINE ab == a \o b
<1>1. /\ Len(a) \in Nat /\ Len(b) \in Nat /\ Len(ab) = Len(a) + Len(b)
      /\ \A k \in 1..Len(a) : ab[k] = a[k]
      /\ \A k \in 1..Len(b) : ab[Len(a) + k] = b[k]
  OBVIOUS
<1> HIDE DEF ab
<1>2. PICK r : /\ r[0] = s /\ r[Len(ab)] = e
               /\ \A k \in 1..Len(ab) : r[k] = ReadLine(r[k-1], ab[k])
  BY DEF Reads, ab
<1>3. Reads(s, a, r[Len(a)])
  <2>1. \A k \in 1..Len(a) : k \in 1..Len(ab)
    BY <1>1
  <2>2. \A k \in 1..Len(a) : r[k] = ReadLine(r[k-1], a[k])
    BY <1>1, <1>2, <2>1
  <2>3. QED
    BY <1>2, <2>2 DEF Reads
<1>4. Reads(r[Len(a)], b, e)
  <2> DEFINE q == [k \in 0..Len(b) |-> r[Len(a) + k]]
  <2>1. q[0] = r[Len(a)] /\ q[Len(b)] = e
    BY <1>1, <1>2
  <2>2. ASSUME NEW k \in 1..Len(b)
        PROVE  q[k] = ReadLine(q[k-1], b[k])
    <3>1. /\ Len(a) + k \in 1..Len(ab) /\ (Len(a) + k) - 1 = Len(a) + (k - 1)
          /\ k \in 0..Len(b) /\ k - 1 \in 0..Len(b)
      BY <1>1
    <3>2. r[Len(a) + k] = ReadLine(r[Len(a) + (k - 1)], b[k])
      BY <1>1, <1>2, <3>1
    <3>3. QED
      BY <3>1, <3>2
  <2> HIDE DEF q
  <2>3. QED
    BY <2>1, <2>2 DEF Reads
<1>5. QED
  BY <1>3, <1>4

LEMMA ReadsTyped ==
  ASSUME NEW s \in State, NEW lines \in Seq(Line), NEW e, Reads(s, lines, e)
  PROVE  e \in State
<1>1. PICK r : /\ r[0] = s /\ r[Len(lines)] = e
               /\ \A k \in 1..Len(lines) : r[k] = ReadLine(r[k-1], lines[k])
  BY DEF Reads
<1> DEFINE S == {k \in 0..Len(lines) : r[k] \in State}
<1>2. Len(lines) \in Nat /\ 0 \in S
  BY <1>1
<1>3. ASSUME NEW k \in 0..Len(lines)-1, k \in S
      PROVE  k + 1 \in S
  <2>1. k + 1 \in 1..Len(lines) /\ (k + 1) - 1 = k /\ k + 1 \in 0..Len(lines)
    OBVIOUS
  <2>2. lines[k + 1] \in Line /\ r[k] \in State
    BY <1>3, <2>1
  <2>3. r[k + 1] \in State
    BY <1>1, <2>1, <2>2, ReadLineTyped
  <2>4. QED
    BY <2>1, <2>3
<1>4. Len(lines) \in S
  <2> HIDE DEF S
  <2>1. 0..Len(lines) \subseteq S
    BY <1>2, <1>3, Walk
  <2>2. QED
    BY <1>2, <2>1
<1>5. QED
  BY <1>1, <1>4

\* A parser that has given up reads on without looking.
LEMMA ReadsNothing ==
  ASSUME NEW s, NEW X, NEW lines \in Seq(X), NEW e, Reads(s, lines, e), s.desynced
  PROVE  e = s
<1>1. PICK r : /\ r[0] = s /\ r[Len(lines)] = e
               /\ \A k \in 1..Len(lines) : r[k] = ReadLine(r[k-1], lines[k])
  BY DEF Reads
<1> DEFINE S == {k \in 0..Len(lines) : r[k] = s}
<1>2. Len(lines) \in Nat /\ 0 \in S
  BY <1>1
<1>3. ASSUME NEW k \in 0..Len(lines)-1, k \in S
      PROVE  k + 1 \in S
  <2>1. k + 1 \in 1..Len(lines) /\ (k + 1) - 1 = k /\ k + 1 \in 0..Len(lines)
    OBVIOUS
  <2>2. r[k + 1] = s
    BY <1>1, <1>3, <2>1 DEF ReadLine
  <2>3. QED
    BY <2>1, <2>2
<1>4. Len(lines) \in S
  <2> HIDE DEF S
  <2>1. 0..Len(lines) \subseteq S
    BY <1>2, <1>3, Walk
  <2>2. QED
    BY <1>2, <2>1
<1>5. QED
  BY <1>1, <1>4

-----------------------------------------------------------------------------
(***************************************************************************)
(* The body of a hunk: whatever the lines look like, each is counted off   *)
(* and harvested for the path the headers named.                           *)
(***************************************************************************)
Holder(s) == IF s.current # None THEN s.current ELSE s.pending

Code(s) == Holder(s) # None /\ Holder(s) \subseteq Sources

Gone(s, exports) == IF Code(s) THEN exports \X Holder(s) ELSE {}

Came(s, exports) == IF Code(s) THEN exports ELSE {}

Taken(s, e, n, gone, came) ==
  /\ e.current = s.current /\ e.pending = s.pending /\ e.kinds = s.kinds
  /\ e.regions = s.regions /\ e.desynced = s.desynced /\ e.announced = s.announced
  /\ e.body = s.body - n /\ e.removed = s.removed \cup gone /\ e.added = s.added \cup came

TakenBy(s, e, n, sign, exports) ==
  Taken(s, e, n, IF sign = "-" THEN Gone(s, exports) ELSE {},
                 IF sign = "+" THEN Came(s, exports) ELSE {})

ExportsTo(texts, k) == UNION {texts[i].exports : i \in 1..k}

LEMMA BodyLine ==
  ASSUME NEW s \in State, NEW line \in Line, ~s.desynced, s.body > 0,
         line.reads # "note", line.sign \in {"-", "+"}
  PROVE  TakenBy(s, ReadLine(s, line), 1, line.sign, line.exports)
<1> DEFINE t == [s EXCEPT !.body = @ - 1]
<1>1. ReadLine(s, line) = Harvest(t, line)
  BY DEF ReadLine, ReadBody
<1>2. /\ t.current = s.current /\ t.pending = s.pending /\ t.kinds = s.kinds
      /\ t.regions = s.regions /\ t.desynced = s.desynced /\ t.announced = s.announced
      /\ t.body = s.body - 1 /\ t.removed = s.removed /\ t.added = s.added
  BY DEF State
<1> DEFINE path == IF t.current # None THEN t.current ELSE t.pending
           code == line.exports # {} /\ path # None /\ path \subseteq Sources
<1>3. path = Holder(s)
  BY <1>2 DEF Holder
<1>4. DOMAIN t = DOMAIN s /\ DOMAIN s = {"current", "pending", "kinds", "regions", "removed",
                                         "added", "body", "desynced", "announced"}
  BY DEF State
<1>5. Harvest(t, line) =
        IF ~code THEN t
        ELSE IF line.sign = "-" THEN [t EXCEPT !.removed = @ \cup (line.exports \X path)]
        ELSE [t EXCEPT !.added = @ \cup line.exports]
  BY DEF Harvest
<1> HIDE DEF t, path
<1>6. CASE ~code
  <2>1. Gone(s, line.exports) = {} /\ Came(s, line.exports) = {}
    <3>1. line.exports = {} \/ ~Code(s)
      BY <1>3, <1>6 DEF Code
    <3>2. {} \X Holder(s) = {}
      OBVIOUS
    <3>3. QED
      BY <3>1, <3>2 DEF Gone, Came
  <2>2. QED
    BY <1>1, <1>2, <1>5, <1>6, <2>1 DEF TakenBy, Taken
<1>7. CASE code
  <2>1. Gone(s, line.exports) = line.exports \X path /\ Came(s, line.exports) = line.exports
    BY <1>3, <1>7 DEF Gone, Came, Code
  <2>2. CASE line.sign = "-"
    <3> DEFINE e == [t EXCEPT !.removed = @ \cup (line.exports \X path)]
    <3>1. /\ e.current = t.current /\ e.pending = t.pending /\ e.kinds = t.kinds
          /\ e.regions = t.regions /\ e.desynced = t.desynced /\ e.announced = t.announced
          /\ e.body = t.body /\ e.removed = t.removed \cup (line.exports \X path)
          /\ e.added = t.added
      BY <1>4
    <3>2. ReadLine(s, line) = e
      BY <1>1, <1>5, <1>7, <2>2
    <3> HIDE DEF e
    <3>3. QED
      BY <1>2, <2>1, <2>2, <3>1, <3>2 DEF TakenBy, Taken
  <2>3. CASE line.sign = "+"
    <3> DEFINE e == [t EXCEPT !.added = @ \cup line.exports]
    <3>1. /\ e.current = t.current /\ e.pending = t.pending /\ e.kinds = t.kinds
          /\ e.regions = t.regions /\ e.desynced = t.desynced /\ e.announced = t.announced
          /\ e.body = t.body /\ e.removed = t.removed
          /\ e.added = t.added \cup line.exports
      BY <1>4
    <3>2. ReadLine(s, line) = e
      BY <1>1, <1>5, <1>7, <2>3
    <3> HIDE DEF e
    <3>3. QED
      BY <1>2, <2>1, <2>3, <3>1, <3>2 DEF TakenBy, Taken
  <2>4. QED
    BY <2>2, <2>3
<1>8. QED
  BY <1>6, <1>7

\* Two stretches of a body read one after the other.
LEMMA TakenOn ==
  ASSUME NEW s \in State, NEW m \in State, NEW e \in State, NEW sign, NEW n \in Nat,
         NEW A, NEW B, TakenBy(s, m, n, sign, A), TakenBy(m, e, 1, sign, B)
  PROVE  TakenBy(s, e, n + 1, sign, A \cup B)
<1>2. Holder(m) = Holder(s) /\ (Code(m) <=> Code(s))
  BY DEF Holder, Code, TakenBy, Taken
<1>3. Gone(s, A \cup B) = Gone(s, A) \cup Gone(m, B) /\ Came(s, A \cup B) = Came(s, A) \cup Came(m, B)
  <2>1. (A \cup B) \X Holder(s) = (A \X Holder(s)) \cup (B \X Holder(s))
    OBVIOUS
  <2>2. QED
    BY <1>2, <2>1 DEF Gone, Came
<1>4. e.body = s.body - (n + 1)
  BY DEF State, TakenBy, Taken
<1>5. QED
  BY <1>3, <1>4 DEF TakenBy, Taken

LEMMA MarkedLine ==
  ASSUME NEW texts \in Seq(TextLines), NEW sign \in {"-", "+"}, NEW k \in 1..Len(texts)
  PROVE  /\ Marks(sign, texts)[k] \in Line
         /\ Marks(sign, texts)[k].sign = sign /\ Marks(sign, texts)[k].reads # "note"
         /\ Marks(sign, texts)[k].exports = texts[k].exports
<1>1. texts[k] \in TextLines /\ Marks(sign, texts)[k] = Marked(sign, texts[k])
  BY DEF Marks
<1>2. QED
  BY <1>1 DEF Marked, Plain, TextLines, Line

LEMMA MarksTyped ==
  ASSUME NEW texts \in Seq(TextLines), NEW sign \in {"-", "+"}
  PROVE  Marks(sign, texts) \in Seq(Line) /\ Len(Marks(sign, texts)) = Len(texts)
<1>1. \A k \in 1..Len(texts) : Marks(sign, texts)[k] \in Line
  BY MarkedLine
<1>2. Marks(sign, texts) = [k \in 1..Len(texts) |-> Marks(sign, texts)[k]]
  BY DEF Marks
<1>3. QED
  BY <1>1, <1>2

LEMMA MarksRead ==
  ASSUME NEW s \in State, NEW e, NEW texts \in Seq(TextLines), NEW sign \in {"-", "+"},
         ~s.desynced, Len(texts) <= s.body, Reads(s, Marks(sign, texts), e)
  PROVE  TakenBy(s, e, Len(texts), sign, ExportsTo(texts, Len(texts)))
<1> DEFINE n == Len(texts)
           lines == Marks(sign, texts)
<1>1. lines \in Seq(Line) /\ Len(lines) = n /\ n \in Nat
  BY MarksTyped
<1>2. PICK r : /\ r[0] = s /\ r[n] = e
               /\ \A k \in 1..n : r[k] = ReadLine(r[k-1], lines[k])
  BY <1>1 DEF Reads
<1>3. \A k \in 1..n : /\ lines[k] \in Line /\ lines[k].sign = sign /\ lines[k].reads # "note"
                      /\ lines[k].exports = texts[k].exports
  BY MarkedLine
<1>4. s.body \in Nat
  BY DEF State
<1> HIDE DEF n, lines
<1> DEFINE S == {k \in 0..n : r[k] \in State /\ TakenBy(s, r[k], k, sign, ExportsTo(texts, k))}
<1>5. 0 \in S
  <2>1. ExportsTo(texts, 0) = {}
    BY DEF ExportsTo
  <2>2. Gone(s, {}) = {} /\ Came(s, {}) = {}
    <3>1. {} \X Holder(s) = {}
      OBVIOUS
    <3>2. QED
      BY <3>1 DEF Gone, Came
  <2>3. TakenBy(s, s, 0, sign, {})
    BY <1>4, <2>2 DEF TakenBy, Taken
  <2>4. TakenBy(s, r[0], 0, sign, ExportsTo(texts, 0))
    BY <1>2, <2>1, <2>3
  <2>5. r[0] \in State
    BY <1>2
  <2>6. 0 \in 0..n
    BY <1>1
  <2>7. QED
    BY <2>4, <2>5, <2>6
<1>6. ASSUME NEW k \in 0..n-1, k \in S
      PROVE  k + 1 \in S
  <2>1. k + 1 \in 1..n /\ (k + 1) - 1 = k /\ k + 1 \in 0..n /\ k \in Nat
    BY <1>1
  <2>2. r[k] \in State /\ TakenBy(s, r[k], k, sign, ExportsTo(texts, k))
    BY <1>6
  <2>3. r[k].body > 0 /\ ~r[k].desynced
    <3>1. r[k].body = s.body - k /\ r[k].desynced = s.desynced
      BY <2>2 DEF TakenBy, Taken
    <3>2. k < s.body
      BY <1>1, <1>4 DEF n
    <3>3. QED
      BY <1>4, <2>1, <3>1, <3>2
  <2>4. r[k+1] = ReadLine(r[k], lines[k+1])
    BY <1>2, <2>1
  <2>5. TakenBy(r[k], r[k+1], 1, sign, texts[k+1].exports) /\ r[k+1] \in State
    BY <1>3, <2>1, <2>2, <2>3, <2>4, BodyLine, ReadLineTyped
  <2>6. ExportsTo(texts, k + 1) = ExportsTo(texts, k) \cup texts[k+1].exports
    <3>1. \A i : i \in 1..(k+1) <=> i \in 1..k \/ i = k + 1
      BY <2>1
    <3>2. QED
      BY <3>1 DEF ExportsTo
  <2>7. TakenBy(s, r[k+1], k + 1, sign, ExportsTo(texts, k + 1))
    BY <2>1, <2>2, <2>5, <2>6, TakenOn
  <2>8. QED
    BY <2>1, <2>5, <2>7
<1> HIDE DEF S
<1>7. n \in S
  <2>1. 0..n \subseteq S
    BY <1>1, <1>5, <1>6, Walk
  <2>2. QED
    BY <1>1, <2>1
<1>8. QED
  BY <1>2, <1>7 DEF S, n

-----------------------------------------------------------------------------
(***************************************************************************)
(* A hunk as git prints it.                                                *)
(***************************************************************************)
Exports(texts) == UNION {h.exports : h \in ToSet(texts)}

LEMMA ExportsAre ==
  ASSUME NEW texts \in Seq(TextLines)
  PROVE  ExportsTo(texts, Len(texts)) = Exports(texts)
<1>1. DOMAIN texts = 1..Len(texts)
  OBVIOUS
<1>2. QED
  BY <1>1 DEF ExportsTo, Exports, ToSet

LEMMA NoteRead ==
  ASSUME NEW s \in State, ~s.desynced
  PROVE  ReadLine(s, Note) = s
<1>1. Note.reads = "note"
  BY DEF Note, Plain
<1>2. QED
  BY <1>1 DEF ReadLine, ReadBody, ReadHeader

HunkLine(h) ==
  [Plain EXCEPT !.reads = "hunk",
     !.hunk = IF h.legible
              THEN {[start |-> h.start, removed |-> Len(h.minus), added |-> Len(h.plus)]}
              ELSE {}]

LEMMA HunkTyped ==
  ASSUME NEW h \in TextHunks
  PROVE  /\ h.start \in Nat /\ h.minus \in Seq(TextLines) /\ h.plus \in Seq(TextLines)
         /\ HunkLine(h) \in Line /\ Note \in Line /\ Rendered(h) \in Seq(Line)
         /\ Rendered(h) = <<HunkLine(h)>> \o Marks("-", h.minus) \o <<Note>> \o Marks("+", h.plus)
<1>1. h.start \in Nat /\ h.minus \in Seq(TextLines) /\ h.plus \in Seq(TextLines)
  BY DEF TextHunks
<1>2. Note \in Line
  BY DEF Note, Plain, Line
<1>3. HunkLine(h) \in Line
  <2>1. Len(h.minus) \in Nat /\ Len(h.plus) \in Nat
    BY <1>1
  <2>2. [start |-> h.start, removed |-> Len(h.minus), added |-> Len(h.plus)]
          \in [start : Nat, removed : Nat, added : Nat]
    BY <1>1, <2>1
  <2>3. QED
    BY <2>2 DEF HunkLine, Plain, Line
<1>4. Rendered(h) = <<HunkLine(h)>> \o Marks("-", h.minus) \o <<Note>> \o Marks("+", h.plus)
  BY DEF Rendered, HunkLine
<1>5. Marks("-", h.minus) \in Seq(Line) /\ Marks("+", h.plus) \in Seq(Line)
  BY <1>1, MarksTyped
<1>6. QED
  BY <1>1, <1>2, <1>3, <1>4, <1>5

\* The regions after a hunk, for the path the old-side header named.
Extended(s, span) ==
  [p \in Paths |-> IF p \in s.current THEN Append(s.regions[p], span) ELSE s.regions[p]]

LEMMA HunkOpens ==
  ASSUME NEW s \in State, NEW h \in TextHunks, ~s.desynced, s.body = 0
  PROVE  LET e == ReadLine(s, HunkLine(h))
         IN  /\ e \in State
             /\ e.current = s.current /\ e.pending = s.pending /\ e.kinds = s.kinds
             /\ ~h.legible => e.desynced
             /\ h.legible => /\ ~e.desynced /\ e.announced = s.announced
                             /\ e.body = Len(h.minus) + Len(h.plus)
                             /\ e.regions = Extended(s, HunkSpan(h.start, Len(h.minus)))
                             /\ e.removed = s.removed /\ e.added = s.added
<1> DEFINE l == HunkLine(h)
           e == ReadLine(s, l)
<1>1. l \in Line
  BY HunkTyped
<1>2. l.reads = "hunk"
      /\ l.hunk = IF h.legible
                  THEN {[start |-> h.start, removed |-> Len(h.minus), added |-> Len(h.plus)]} ELSE {}
  BY DEF HunkLine, Plain
<1> HIDE DEF l
<1>3. e \in State
  BY <1>1, ReadLineTyped
<1>4. e = IF l.hunk = {} THEN [s EXCEPT !.desynced = TRUE]
          ELSE OpenHunk(s, CHOOSE g \in l.hunk : TRUE)
  BY <1>2 DEF ReadLine, ReadHeader
<1>5. CASE h.legible
  <2> DEFINE g == [start |-> h.start, removed |-> Len(h.minus), added |-> Len(h.plus)]
  <2>1. l.hunk = {g}
    BY <1>2, <1>5
  <2>2. g.start = h.start /\ g.removed = Len(h.minus) /\ g.added = Len(h.plus)
    OBVIOUS
  <2> HIDE DEF g
  <2>3. (CHOOSE x \in l.hunk : TRUE) = g
    BY <2>1
  <2>4. e = OpenHunk(s, g)
    BY <1>4, <2>1, <2>3
  <2>5. /\ e.current = s.current /\ e.pending = s.pending /\ e.kinds = s.kinds
        /\ e.desynced = s.desynced /\ e.announced = s.announced
        /\ e.body = g.removed + g.added
        /\ e.removed = s.removed /\ e.added = s.added
    BY <2>4 DEF OpenHunk, State
  <2>6. e.regions = Extended(s, HunkSpan(g.start, g.removed))
    BY <2>4 DEF OpenHunk, State, Extended
  <2> HIDE DEF e
  <2>7. QED
    BY <1>3, <1>5, <2>2, <2>5, <2>6 DEF e, l
<1>6. CASE ~h.legible
  <2>1. e = [s EXCEPT !.desynced = TRUE]
    BY <1>2, <1>4, <1>6
  <2>2. /\ e.current = s.current /\ e.pending = s.pending /\ e.kinds = s.kinds /\ e.desynced
    BY <2>1 DEF State
  <2> HIDE DEF e
  <2>3. QED
    BY <1>3, <1>6, <2>2 DEF e, l
<1>7. QED
  BY <1>5, <1>6

\* What one whole hunk leaves.
LEMMA HunkRead ==
  ASSUME NEW s \in State, NEW h \in TextHunks, NEW e, ~s.desynced, s.body = 0, Reads(s, Rendered(h), e)
  PROVE  /\ e \in State /\ e.kinds = s.kinds
         /\ ~h.legible => e.desynced
         /\ h.legible => /\ ~e.desynced /\ e.body = 0 /\ e.announced = s.announced
                         /\ e.current = s.current /\ e.pending = s.pending
                         /\ e.regions = Extended(s, HunkSpan(h.start, Len(h.minus)))
                         /\ e.removed = s.removed \cup Gone(s, Exports(h.minus))
                         /\ e.added = s.added \cup Came(s, Exports(h.plus))
<1> DEFINE a == <<HunkLine(h)>>
           b == Marks("-", h.minus)
           c == <<Note>>
           d == Marks("+", h.plus)
<1>1. /\ h.minus \in Seq(TextLines) /\ h.plus \in Seq(TextLines)
      /\ a \in Seq(Line) /\ b \in Seq(Line) /\ c \in Seq(Line) /\ d \in Seq(Line)
      /\ Rendered(h) = a \o b \o c \o d
  BY HunkTyped, MarksTyped
<1> DEFINE ab == a \o b
           abc == ab \o c
<1>2. ab \in Seq(Line) /\ abc \in Seq(Line)
  BY <1>1
<1>3. Rendered(h) = abc \o d
  BY <1>1
<1>4. PICK t : Reads(s, abc, t) /\ Reads(t, d, e)
  BY <1>1, <1>2, <1>3, ReadsBoth
<1>5. PICK n : Reads(s, ab, n) /\ Reads(n, c, t)
  BY <1>1, <1>2, <1>4, ReadsBoth
<1>6. PICK m : Reads(s, a, m) /\ Reads(m, b, n)
  BY <1>1, <1>5, ReadsBoth
<1>7. m = ReadLine(s, HunkLine(h)) /\ t = ReadLine(n, Note)
  BY <1>5, <1>6, ReadsOne
<1>8. /\ m \in State
      /\ m.current = s.current /\ m.pending = s.pending /\ m.kinds = s.kinds
      /\ ~h.legible => m.desynced
      /\ h.legible => /\ ~m.desynced /\ m.announced = s.announced
                      /\ m.body = Len(h.minus) + Len(h.plus)
                      /\ m.regions = Extended(s, HunkSpan(h.start, Len(h.minus)))
                      /\ m.removed = s.removed /\ m.added = s.added
  BY <1>7, HunkOpens
<1>9. n \in State /\ t \in State /\ e \in State
  BY <1>1, <1>2, <1>4, <1>5, ReadsTyped
<1> HIDE DEF a, b, c, d, ab, abc
<1>10. CASE ~h.legible
  <2>1. n = m
    BY <1>1, <1>6, <1>8, <1>10, ReadsNothing
  <2>2. t = m
    BY <1>1, <1>5, <1>8, <1>10, <2>1, ReadsNothing
  <2>3. e = m
    BY <1>1, <1>4, <1>8, <1>10, <2>2, ReadsNothing
  <2>4. QED
    BY <1>8, <1>10, <2>3
<1>11. CASE h.legible
  <2>0. Len(h.minus) \in Nat /\ Len(h.plus) \in Nat
    BY <1>1
  <2>01. m.body = Len(h.minus) + Len(h.plus)
    BY <1>8, <1>11
  <2>02. \A x, y, z \in Nat : z = x + y => x <= z
    OBVIOUS
  <2>03. m.body \in Nat
    BY <1>8 DEF State
  <2>1. Len(h.minus) \in Nat /\ Len(h.plus) \in Nat /\ Len(h.minus) <= m.body
    BY <2>0, <2>01, <2>02, <2>03
  <2>2. TakenBy(m, n, Len(h.minus), "-", Exports(h.minus))
    BY <1>1, <1>6, <1>8, <1>11, <2>1, MarksRead, ExportsAre DEF b
  <2>3. /\ n.current = m.current /\ n.pending = m.pending /\ n.kinds = m.kinds
        /\ n.regions = m.regions /\ n.desynced = m.desynced /\ n.announced = m.announced
        /\ n.body = Len(h.plus) /\ n.removed = m.removed \cup Gone(m, Exports(h.minus))
        /\ n.added = m.added
    BY <1>8, <1>11, <2>1, <2>2 DEF TakenBy, Taken
  <2>4. t = n
    BY <1>7, <1>8, <1>9, <1>11, <2>3, NoteRead
  <2>5. TakenBy(n, e, Len(h.plus), "+", Exports(h.plus))
    BY <1>1, <1>4, <1>8, <1>9, <1>11, <2>1, <2>3, <2>4, MarksRead, ExportsAre DEF d
  <2>6. /\ e.current = n.current /\ e.pending = n.pending /\ e.kinds = n.kinds
        /\ e.regions = n.regions /\ e.desynced = n.desynced /\ e.announced = n.announced
        /\ e.body = 0 /\ e.removed = n.removed
        /\ e.added = n.added \cup Came(n, Exports(h.plus))
    BY <2>1, <2>3, <2>5 DEF TakenBy, Taken
  <2>7. /\ Gone(m, Exports(h.minus)) = Gone(s, Exports(h.minus))
        /\ Came(n, Exports(h.plus)) = Came(s, Exports(h.plus))
    BY <1>8, <2>3 DEF Gone, Came, Code, Holder
  <2>8. QED
    BY <1>8, <1>9, <1>11, <2>3, <2>6, <2>7
<1>12. QED
  BY <1>10, <1>11

-----------------------------------------------------------------------------
(***************************************************************************)
(* A sequence of sequences read one after the other.                       *)
(***************************************************************************)
Chain(m, s, seqs, n) == m[0] = s /\ \A i \in 1..n : Reads(m[i-1], seqs[i], m[i])

LEMMA Flattened ==
  ASSUME NEW X, NEW seqs \in Seq(Seq(X))
  PROVE  \E f : /\ f[0] = << >> /\ FlattenSeq(seqs) = f[Len(seqs)]
                /\ \A i \in 1..Len(seqs) : f[i] = f[i-1] \o seqs[i]
                /\ \A i \in 0..Len(seqs) : f[i] \in Seq(X)
<1> DEFINE n == Len(seqs)
           Flat(g, k) == g = [i \in 1..k |-> IF i = 1 THEN seqs[i] ELSE g[i-1] \o seqs[i]]
           fl == CHOOSE g : Flat(g, n)
           f == [i \in 0..n |-> IF i = 0 THEN << >> ELSE fl[i]]
<1>1. n \in Nat /\ \A i \in 1..n : seqs[i] \in Seq(X)
  OBVIOUS
<1>2. FlattenSeq(seqs) = IF n = 0 THEN seqs ELSE fl[n]
  BY DEF FlattenSeq
<1>3. n = 0 => seqs = << >>
  OBVIOUS
<1> HIDE DEF n, Flat
<1>4. \E g : Flat(g, n)
  <2> DEFINE S == {k \in 0..n : \E g : Flat(g, k)}
  <2>1. 0 \in S
    <3>1. [i \in 1..0 |-> seqs[i]] =
            [i \in 1..0 |-> IF i = 1 THEN seqs[i] ELSE [l \in 1..0 |-> seqs[l]][i-1] \o seqs[i]]
      OBVIOUS
    <3>2. Flat([i \in 1..0 |-> seqs[i]], 0)
      BY <3>1 DEF Flat
    <3>3. 0 \in 0..n
      BY <1>1
    <3>4. QED
      BY <3>2, <3>3
  <2>2. ASSUME NEW k \in 0..n-1, k \in S
        PROVE  k + 1 \in S
    <3>1. PICK g : Flat(g, k)
      BY <2>2
    <3> DEFINE h == [i \in 1..(k+1) |-> IF i = k + 1 THEN IF i = 1 THEN seqs[i] ELSE g[k] \o seqs[i]
                                        ELSE g[i]]
    <3>2. ASSUME NEW i \in 1..(k+1)
          PROVE  h[i] = IF i = 1 THEN seqs[i] ELSE h[i-1] \o seqs[i]
      <4>1. CASE i = k + 1
        <5>1. i # 1 => i - 1 = k /\ k \in 1..(k+1) /\ k # k + 1
          BY <4>1
        <5>2. QED
          BY <4>1, <5>1
      <4>2. CASE i # k + 1
        <5>1. i \in 1..k /\ (i # 1 => i - 1 \in 1..(k+1) /\ i - 1 # k + 1)
          BY <4>2
        <5>2. g[i] = IF i = 1 THEN seqs[i] ELSE g[i-1] \o seqs[i]
          BY <3>1, <5>1 DEF Flat
        <5>3. QED
          BY <4>2, <5>1, <5>2
      <4>3. QED
        BY <4>1, <4>2
    <3>3. h = [i \in 1..(k+1) |-> h[i]]
      OBVIOUS
    <3> HIDE DEF h
    <3>4. Flat(h, k + 1)
      BY <3>2, <3>3 DEF Flat
    <3>5. k + 1 \in 0..n
      BY <1>1
    <3>6. QED
      BY <3>4, <3>5
  <2> HIDE DEF S
  <2>3. 0..n \subseteq S
    BY <1>1, <2>1, <2>2, Walk
  <2>4. QED
    BY <1>1, <2>3 DEF S
<1>5. Flat(fl, n)
  BY <1>4
<1> HIDE DEF fl
<1>6. f[0] = << >> /\ FlattenSeq(seqs) = f[n]
  BY <1>1, <1>2, <1>3
<1>7. ASSUME NEW i \in 1..n
      PROVE  f[i] = f[i-1] \o seqs[i]
  <2>1. fl[i] = IF i = 1 THEN seqs[i] ELSE fl[i-1] \o seqs[i]
    BY <1>5 DEF Flat
  <2>0. i \in 0..n /\ i - 1 \in 0..n /\ i # 0
    BY <1>1
  <2>2. CASE i = 1
    <3>1. f[i] = seqs[i] /\ f[i-1] = << >>
      BY <2>0, <2>1, <2>2
    <3>2. << >> \o seqs[i] = seqs[i]
      BY <1>1
    <3>3. QED
      BY <3>1, <3>2
  <2>3. CASE i # 1
    <3>1. f[i] = fl[i] /\ f[i-1] = fl[i-1]
      <4>1. i - 1 # 0
        BY <2>3
      <4>2. QED
        BY <2>0, <4>1
    <3>2. QED
      BY <2>1, <2>3, <3>1
  <2>4. QED
    BY <2>2, <2>3
<1> HIDE DEF f
<1>8. \A i \in 0..n : f[i] \in Seq(X)
  <2> DEFINE S == {i \in 0..n : f[i] \in Seq(X)}
  <2>1. 0 \in S
    <3>1. f[0] \in Seq(X)
      BY <1>6
    <3>2. 0 \in 0..n
      BY <1>1
    <3>3. QED
      BY <3>1, <3>2
  <2>2. ASSUME NEW k \in 0..n-1, k \in S
        PROVE  k + 1 \in S
    <3>1. k + 1 \in 1..n /\ (k + 1) - 1 = k /\ k + 1 \in 0..n
      BY <1>1
    <3>2. f[k+1] = f[k] \o seqs[k+1] /\ f[k] \in Seq(X) /\ seqs[k+1] \in Seq(X)
      BY <1>1, <1>7, <2>2, <3>1
    <3>3. f[k+1] \in Seq(X)
      BY <3>2
    <3>4. QED
      BY <3>1, <3>3
  <2> HIDE DEF S
  <2>3. 0..n \subseteq S
    BY <1>1, <2>1, <2>2, Walk
  <2>4. QED
    BY <2>3 DEF S
<1>9. QED
  BY <1>6, <1>7, <1>8 DEF n

LEMMA FlattenedTyped ==
  ASSUME NEW X, NEW seqs \in Seq(Seq(X))
  PROVE  FlattenSeq(seqs) \in Seq(X)
<1>1. Len(seqs) \in 0..Len(seqs)
  OBVIOUS
<1>2. PICK f : /\ FlattenSeq(seqs) = f[Len(seqs)]
               /\ \A i \in 0..Len(seqs) : f[i] \in Seq(X)
  BY Flattened
<1>3. QED
  BY <1>1, <1>2

LEMMA ReadsAll ==
  ASSUME NEW X, NEW seqs \in Seq(Seq(X)), NEW s, NEW e, Reads(s, FlattenSeq(seqs), e)
  PROVE  \E m : Chain(m, s, seqs, Len(seqs)) /\ m[Len(seqs)] = e
<1> DEFINE n == Len(seqs)
<1>1. n \in Nat /\ \A i \in 1..n : seqs[i] \in Seq(X)
  OBVIOUS
<1>2. PICK f : /\ f[0] = << >> /\ FlattenSeq(seqs) = f[n]
               /\ \A i \in 1..n : f[i] = f[i-1] \o seqs[i]
               /\ \A i \in 0..n : f[i] \in Seq(X)
  BY Flattened
<1> HIDE DEF n
<1> DEFINE S == {i \in 0..n : \A x : Reads(s, f[i], x) => \E m : Chain(m, s, seqs, i) /\ m[i] = x}
<1>3. 0 \in S
  <2>1. ASSUME NEW x, Reads(s, f[0], x)
        PROVE  \E m : Chain(m, s, seqs, 0) /\ m[0] = x
    <3>1. x = s
      BY <1>2, <2>1, ReadsNone
    <3>2. Chain([i \in {0} |-> s], s, seqs, 0)
      BY DEF Chain
    <3>3. [i \in {0} |-> s][0] = x
      BY <3>1
    <3>4. QED
      BY <3>2, <3>3
  <2>2. QED
    BY <1>1, <2>1
<1>4. ASSUME NEW k \in 0..n-1, k \in S
      PROVE  k + 1 \in S
  <2>1. k + 1 \in 1..n /\ (k + 1) - 1 = k /\ k + 1 \in 0..n /\ k \in 0..n
    BY <1>1
  <2>2. ASSUME NEW x, Reads(s, f[k+1], x)
        PROVE  \E m : Chain(m, s, seqs, k + 1) /\ m[k+1] = x
    <3>1. f[k+1] = f[k] \o seqs[k+1] /\ f[k] \in Seq(X) /\ seqs[k+1] \in Seq(X)
      BY <1>1, <1>2, <2>1
    <3>2. PICK y : Reads(s, f[k], y) /\ Reads(y, seqs[k+1], x)
      BY <2>2, <3>1, ReadsBoth
    <3>3. PICK m : Chain(m, s, seqs, k) /\ m[k] = y
      BY <1>4, <3>2
    <3> DEFINE q == [i \in 0..(k+1) |-> IF i = k + 1 THEN x ELSE m[i]]
    <3>4. q[0] = s /\ q[k+1] = x
      BY <2>1, <3>3 DEF Chain
    <3>5. ASSUME NEW i \in 1..(k+1)
          PROVE  Reads(q[i-1], seqs[i], q[i])
      <4>1. CASE i = k + 1
        <5>1. q[i-1] = y /\ q[i] = x
          BY <2>1, <3>3, <4>1
        <5>2. QED
          BY <3>2, <4>1, <5>1
      <4>2. CASE i # k + 1
        <5>1. i \in 1..k /\ q[i-1] = m[i-1] /\ q[i] = m[i]
          BY <2>1, <4>2
        <5>2. QED
          BY <3>3, <5>1 DEF Chain
      <4>3. QED
        BY <4>1, <4>2
    <3> HIDE DEF q
    <3>6. QED
      BY <3>4, <3>5 DEF Chain
  <2>3. QED
    BY <2>1, <2>2
<1> HIDE DEF S
<1>5. n \in S
  <2>1. 0..n \subseteq S
    BY <1>1, <1>3, <1>4, Walk
  <2>2. QED
    BY <1>1, <2>1
<1>6. QED
  BY <1>2, <1>5 DEF S, n

-----------------------------------------------------------------------------
(***************************************************************************)
(* The hunks of one path: read whole, or given up at the first that is not *)
(* legible, with no kind disturbed.                                        *)
(***************************************************************************)
SpansTo(hunks, k) == [i \in 1..k |-> HunkSpan(hunks[i].start, Len(hunks[i].minus))]

MinusTo(hunks, k) == UNION {Exports(hunks[i].minus) : i \in 1..k}

PlusTo(hunks, k) == UNION {Exports(hunks[i].plus) : i \in 1..k}

LegibleTo(hunks, k) == \A i \in 1..k : hunks[i].legible

Through(s, e, hunks, k) ==
  /\ ~e.desynced /\ e.body = 0 /\ e.announced = s.announced
  /\ e.current = s.current /\ e.pending = s.pending
  /\ e.regions = [p \in Paths |-> IF p \in s.current THEN SpansTo(hunks, k) ELSE s.regions[p]]
  /\ e.removed = s.removed \cup Gone(s, MinusTo(hunks, k))
  /\ e.added = s.added \cup Came(s, PlusTo(hunks, k))

LEMMA SpansStep ==
  ASSUME NEW hunks \in Seq(TextHunks), NEW k \in 0..Len(hunks)-1
  PROVE  /\ SpansTo(hunks, k + 1) =
              Append(SpansTo(hunks, k), HunkSpan(hunks[k+1].start, Len(hunks[k+1].minus)))
         /\ MinusTo(hunks, k + 1) = MinusTo(hunks, k) \cup Exports(hunks[k+1].minus)
         /\ PlusTo(hunks, k + 1) = PlusTo(hunks, k) \cup Exports(hunks[k+1].plus)
         /\ LegibleTo(hunks, k + 1) <=> LegibleTo(hunks, k) /\ hunks[k+1].legible
<1>1. k \in Nat /\ \A i : i \in 1..(k+1) <=> i \in 1..k \/ i = k + 1
  OBVIOUS
<1>2. \A i \in 1..(k+1) : HunkSpan(hunks[i].start, Len(hunks[i].minus)) \in Span
  <2>1. ASSUME NEW i \in 1..(k+1)
        PROVE  HunkSpan(hunks[i].start, Len(hunks[i].minus)) \in Span
    <3>1. hunks[i] \in TextHunks
      OBVIOUS
    <3>2. hunks[i].start \in Nat /\ hunks[i].minus \in Seq(TextLines)
      BY <3>1, HunkTyped
    <3>3. Len(hunks[i].minus) \in Nat
      BY <3>2
    <3>4. QED
      BY <3>2, <3>3, SpanTyped
  <2>2. QED
    BY <2>1
<1>3. SpansTo(hunks, k + 1) =
        Append(SpansTo(hunks, k), HunkSpan(hunks[k+1].start, Len(hunks[k+1].minus)))
  <2> DEFINE a == SpansTo(hunks, k)
             b == SpansTo(hunks, k + 1)
             x == HunkSpan(hunks[k+1].start, Len(hunks[k+1].minus))
  <2>1. a \in Seq(Span) /\ Len(a) = k /\ b \in Seq(Span) /\ Len(b) = k + 1 /\ x \in Span
    BY <1>1, <1>2 DEF SpansTo
  <2>2. b[k + 1] = x /\ \A i \in 1..k : b[i] = a[i]
    BY <1>1 DEF SpansTo
  <2> HIDE DEF a, b, x
  <2>3. Append(a, x) \in Seq(Span) /\ Len(Append(a, x)) = k + 1
        /\ Append(a, x)[k + 1] = x /\ \A i \in 1..k : Append(a, x)[i] = a[i]
    BY <1>1, <2>1
  <2>4. \A i \in 1..(k+1) : b[i] = Append(a, x)[i]
    BY <1>1, <2>2, <2>3
  <2>5. b = Append(a, x)
    BY <2>1, <2>3, <2>4
  <2>6. QED
    BY <2>5 DEF a, b, x
<1>4. MinusTo(hunks, k + 1) = MinusTo(hunks, k) \cup Exports(hunks[k+1].minus)
  BY <1>1 DEF MinusTo
<1>5. PlusTo(hunks, k + 1) = PlusTo(hunks, k) \cup Exports(hunks[k+1].plus)
  BY <1>1 DEF PlusTo
<1>6. LegibleTo(hunks, k + 1) <=> LegibleTo(hunks, k) /\ hunks[k+1].legible
  BY <1>1 DEF LegibleTo
<1>7. QED
  BY <1>3, <1>4, <1>5, <1>6

LEMMA ThroughOn ==
  ASSUME NEW s \in State, NEW hunks \in Seq(TextHunks), NEW k \in 0..Len(hunks)-1,
         NEW m \in State, NEW e \in State, Through(s, m, hunks, k),
         \A p \in s.current : s.regions[p] = << >>,
         ~e.desynced, e.body = 0, e.announced = m.announced,
         e.current = m.current, e.pending = m.pending,
         e.regions = Extended(m, HunkSpan(hunks[k+1].start, Len(hunks[k+1].minus))),
         e.removed = m.removed \cup Gone(m, Exports(hunks[k+1].minus)),
         e.added = m.added \cup Came(m, Exports(hunks[k+1].plus))
  PROVE  Through(s, e, hunks, k + 1)
<1>1. /\ m.announced = s.announced /\ m.current = s.current /\ m.pending = s.pending
      /\ m.regions = [p \in Paths |-> IF p \in s.current THEN SpansTo(hunks, k) ELSE s.regions[p]]
      /\ m.removed = s.removed \cup Gone(s, MinusTo(hunks, k))
      /\ m.added = s.added \cup Came(s, PlusTo(hunks, k))
  BY DEF Through
<1>2. Holder(m) = Holder(s) /\ (Code(m) <=> Code(s))
  BY <1>1 DEF Holder, Code
<1>3. e.regions = [p \in Paths |-> IF p \in s.current THEN SpansTo(hunks, k + 1) ELSE s.regions[p]]
  <2>1. SpansTo(hunks, k + 1) =
          Append(SpansTo(hunks, k), HunkSpan(hunks[k+1].start, Len(hunks[k+1].minus)))
    BY SpansStep
  <2>2. ASSUME NEW p \in Paths
        PROVE  (IF p \in m.current
                THEN Append(m.regions[p], HunkSpan(hunks[k+1].start, Len(hunks[k+1].minus)))
                ELSE m.regions[p]) =
               (IF p \in s.current THEN SpansTo(hunks, k + 1) ELSE s.regions[p])
    <3>1. m.regions[p] = IF p \in s.current THEN SpansTo(hunks, k) ELSE s.regions[p]
      BY <1>1
    <3>2. QED
      BY <1>1, <2>1, <3>1
  <2>3. QED
    BY <2>2 DEF Extended
<1>4. e.removed = s.removed \cup Gone(s, MinusTo(hunks, k + 1))
  <2>1. \A A, B : (A \cup B) \X Holder(s) = (A \X Holder(s)) \cup (B \X Holder(s))
    OBVIOUS
  <2>2. MinusTo(hunks, k + 1) = MinusTo(hunks, k) \cup Exports(hunks[k+1].minus)
    BY SpansStep
  <2>3. QED
    BY <1>1, <1>2, <2>1, <2>2 DEF Gone
<1>5. e.added = s.added \cup Came(s, PlusTo(hunks, k + 1))
  <2>1. PlusTo(hunks, k + 1) = PlusTo(hunks, k) \cup Exports(hunks[k+1].plus)
    BY SpansStep
  <2>2. QED
    BY <1>1, <1>2, <2>1 DEF Came
<1>6. QED
  BY <1>1, <1>3, <1>4, <1>5 DEF Through

RenderedAll(hunks) == [i \in DOMAIN hunks |-> Rendered(hunks[i])]

LEMMA HunksRead ==
  ASSUME NEW s \in State, NEW hunks \in Seq(TextHunks), NEW e, ~s.desynced, s.body = 0,
         \A p \in s.current : s.regions[p] = << >>,
         Reads(s, FlattenSeq(RenderedAll(hunks)), e)
  PROVE  /\ e \in State /\ e.kinds = s.kinds
         /\ ~LegibleTo(hunks, Len(hunks)) => e.desynced
         /\ LegibleTo(hunks, Len(hunks)) => Through(s, e, hunks, Len(hunks))
<1> DEFINE n == Len(hunks)
           seqs == RenderedAll(hunks)
<1>1. n \in Nat /\ \A i \in 1..n : hunks[i] \in TextHunks
  OBVIOUS
<1>2. \A i \in 1..n : seqs[i] = Rendered(hunks[i]) /\ Rendered(hunks[i]) \in Seq(Line)
  <2>1. ASSUME NEW i \in 1..n
        PROVE  seqs[i] = Rendered(hunks[i])
    BY <1>1 DEF RenderedAll
  <2>2. ASSUME NEW i \in 1..n
        PROVE  Rendered(hunks[i]) \in Seq(Line)
    <3>1. hunks[i] \in TextHunks
      BY <1>1
    <3>2. QED
      BY <3>1, HunkTyped
  <2>3. QED
    BY <2>1, <2>2
<1>3. seqs \in Seq(Seq(Line)) /\ Len(seqs) = n
  <2>1. seqs = [i \in 1..n |-> seqs[i]]
    BY DEF RenderedAll
  <2>2. QED
    BY <1>1, <1>2, <2>1
<1>4. PICK m : Chain(m, s, seqs, n) /\ m[n] = e
  BY <1>3, ReadsAll
<1> HIDE DEF n, seqs
<1> DEFINE Inv(k) == /\ m[k] \in State /\ m[k].kinds = s.kinds
                     /\ ~LegibleTo(hunks, k) => m[k].desynced
                     /\ LegibleTo(hunks, k) => Through(s, m[k], hunks, k)
           S == {k \in 0..n : Inv(k)}
<1>5. 0 \in S
  <2>1. m[0] = s
    BY <1>4 DEF Chain
  <2>2. SpansTo(hunks, 0) = << >> /\ MinusTo(hunks, 0) = {} /\ PlusTo(hunks, 0) = {}
        /\ LegibleTo(hunks, 0)
    BY DEF SpansTo, MinusTo, PlusTo, LegibleTo
  <2>3. Gone(s, {}) = {} /\ Came(s, {}) = {}
    <3>1. {} \X Holder(s) = {}
      OBVIOUS
    <3>2. QED
      BY <3>1 DEF Gone, Came
  <2>4. s.regions = [p \in Paths |-> IF p \in s.current THEN << >> ELSE s.regions[p]]
    BY DEF State
  <2>5. Through(s, s, hunks, 0)
    BY <2>2, <2>3, <2>4 DEF Through
  <2>6. Inv(0)
    BY <2>1, <2>2, <2>5
  <2>7. 0 \in 0..n
    BY <1>1
  <2> HIDE DEF Inv
  <2>8. QED
    BY <2>6, <2>7
<1>6. ASSUME NEW k \in 0..n-1, k \in S
      PROVE  k + 1 \in S
  <2>1. k + 1 \in 1..n /\ (k + 1) - 1 = k /\ k + 1 \in 0..n /\ k \in 0..Len(hunks)-1
    BY <1>1 DEF n
  <2>2. Inv(k)
    BY <1>6
  <2>3. hunks[k+1] \in TextHunks /\ Reads(m[k], Rendered(hunks[k+1]), m[k+1])
    BY <1>1, <1>2, <1>4, <2>1 DEF Chain
  <2>4. LegibleTo(hunks, k + 1) <=> LegibleTo(hunks, k) /\ hunks[k+1].legible
    BY <2>1, SpansStep
  <2>5. CASE ~LegibleTo(hunks, k)
    <3>1. m[k+1] = m[k]
      BY <1>2, <2>1, <2>2, <2>3, <2>5, ReadsNothing
    <3>2. QED
      BY <2>1, <2>2, <2>4, <2>5, <3>1
  <2>6. CASE LegibleTo(hunks, k)
    <3>1. m[k] \in State /\ ~m[k].desynced /\ m[k].body = 0 /\ m[k].kinds = s.kinds
          /\ Through(s, m[k], hunks, k)
      BY <2>2, <2>6 DEF Through
    <3> HIDE DEF Inv
    <3>2. /\ m[k+1] \in State /\ m[k+1].kinds = s.kinds
          /\ ~hunks[k+1].legible => m[k+1].desynced
      BY <2>3, <3>1, HunkRead
    <3>3. ASSUME hunks[k+1].legible
          PROVE  Through(s, m[k+1], hunks, k + 1)
      <4>1. /\ ~m[k+1].desynced /\ m[k+1].body = 0 /\ m[k+1].announced = m[k].announced
            /\ m[k+1].current = m[k].current /\ m[k+1].pending = m[k].pending
            /\ m[k+1].regions = Extended(m[k], HunkSpan(hunks[k+1].start, Len(hunks[k+1].minus)))
            /\ m[k+1].removed = m[k].removed \cup Gone(m[k], Exports(hunks[k+1].minus))
            /\ m[k+1].added = m[k].added \cup Came(m[k], Exports(hunks[k+1].plus))
        BY <2>3, <3>1, <3>3, HunkRead
      <4>2. QED
        BY <2>1, <3>1, <3>2, <4>1, ThroughOn
    <3>4. Inv(k + 1)
      BY <2>4, <2>6, <3>2, <3>3 DEF Inv
    <3>5. QED
      BY <2>1, <3>4
  <2>7. QED
    BY <2>5, <2>6
<1> HIDE DEF S
<1>7. n \in S
  <2>1. 0..n \subseteq S
    BY <1>1, <1>5, <1>6, Walk
  <2>2. QED
    BY <1>1, <2>1
<1>8. QED
  BY <1>4, <1>7 DEF S, n

-----------------------------------------------------------------------------
(***************************************************************************)
(* The entry of one path.                                                  *)
(***************************************************************************)
LEMMA ReadsTwo ==
  ASSUME NEW s, NEW e, NEW a, NEW b, Reads(s, <<a, b>>, e)
  PROVE  e = ReadLine(ReadLine(s, a), b)
<1>1. /\ Len(<<a, b>>) = 2 /\ <<a, b>>[1] = a /\ <<a, b>>[2] = b
      /\ 1 \in 1..2 /\ 2 \in 1..2 /\ 1 - 1 = 0 /\ 2 - 1 = 1
  OBVIOUS
<1>2. QED
  BY <1>1 DEF Reads

DiffLine == [Plain EXCEPT !.reads = "diff"]

OldLine(p, f) == [Plain EXCEPT !.reads = "old", !.path = IF f.as = Added THEN {} ELSE {p}]

NewLine(p, f) == [Plain EXCEPT !.reads = "new", !.path = IF f.as = Deleted THEN {} ELSE {p}]

LEMMA HeaderTyped ==
  ASSUME NEW p \in Paths, NEW f \in Forms
  PROVE  /\ DiffLine \in Line /\ Plain \in Line
         /\ OldLine(p, f) \in Line /\ NewLine(p, f) \in Line
         /\ Header(p, f) = <<OldLine(p, f), NewLine(p, f)>>
<1>1. Plain \in Line
  BY DEF Plain, Line
<1>2. DiffLine \in Line
  BY DEF DiffLine, Plain, Line
<1>3. OldLine(p, f) \in Line
  BY DEF OldLine, Plain, Line
<1>4. NewLine(p, f) \in Line
  BY DEF NewLine, Plain, Line
<1>5. QED
  BY <1>1, <1>2, <1>3, <1>4 DEF Header, OldLine, NewLine

LEMMA EntryOpens ==
  ASSUME NEW s \in State, NEW e, ~s.desynced, s.body = 0, Reads(s, <<DiffLine, Plain>>, e)
  PROVE  /\ e \in State /\ ~e.desynced /\ e.body = 0 /\ e.announced = s.announced + 1
         /\ e.current = None /\ e.pending = None /\ e.kinds = s.kinds
         /\ e.regions = s.regions /\ e.removed = s.removed /\ e.added = s.added
<1>1. e = ReadLine(ReadLine(s, DiffLine), Plain)
  BY ReadsTwo
<1>2. DiffLine.reads = "diff" /\ Plain.reads = "plain"
  BY DEF DiffLine, Plain
<1> DEFINE t == [s EXCEPT !.announced = @ + 1, !.current = None, !.pending = None]
<1>3. ReadLine(s, DiffLine) = t
  BY <1>2 DEF ReadLine, ReadHeader
<1>4. /\ ~t.desynced /\ t.body = 0 /\ t.announced = s.announced + 1
      /\ t.current = None /\ t.pending = None /\ t.kinds = s.kinds
      /\ t.regions = s.regions /\ t.removed = s.removed /\ t.added = s.added
  BY DEF State
<1>5. t \in State
  <2>1. s.announced + 1 \in Nat /\ None \in SUBSET Paths
    BY DEF State, None
  <2>2. QED
    BY <2>1 DEF State
<1> HIDE DEF t
<1>6. ReadLine(t, Plain) = t
  BY <1>2, <1>4 DEF ReadLine, ReadHeader
<1>7. QED
  BY <1>1, <1>3, <1>4, <1>5, <1>6

LEMMA HeaderRead ==
  ASSUME NEW s \in State, NEW e, ~s.desynced, s.body = 0,
         NEW p \in Paths, NEW f \in Forms, f.as \in {Edited, Deleted, Added},
         Reads(s, Header(p, f), e)
  PROVE  /\ e \in State /\ ~e.desynced /\ e.body = 0 /\ e.announced = s.announced
         /\ e.current = (IF f.as = Added THEN {} ELSE {p}) /\ Holder(e) = {p}
         /\ e.kinds = [s.kinds EXCEPT ![p] = f.as]
         /\ e.regions = s.regions /\ e.removed = s.removed /\ e.added = s.added
<1>1. e = ReadLine(ReadLine(s, OldLine(p, f)), NewLine(p, f))
  BY HeaderTyped, ReadsTwo
<1>2. /\ OldLine(p, f).reads = "old" /\ OldLine(p, f).path = IF f.as = Added THEN {} ELSE {p}
      /\ NewLine(p, f).reads = "new" /\ NewLine(p, f).path = IF f.as = Deleted THEN {} ELSE {p}
  BY DEF OldLine, NewLine, Plain
<1> DEFINE t == ReadLine(s, OldLine(p, f))
<1>3. t = [s EXCEPT !.current = OldLine(p, f).path, !.pending = None]
  BY <1>2 DEF ReadLine, ReadHeader
<1>4. t \in State
  BY HeaderTyped, ReadLineTyped
<1>5. /\ ~t.desynced /\ t.body = 0 /\ t.announced = s.announced
      /\ t.current = (IF f.as = Added THEN {} ELSE {p}) /\ t.pending = None /\ t.kinds = s.kinds
      /\ t.regions = s.regions /\ t.removed = s.removed /\ t.added = s.added
  BY <1>2, <1>3 DEF State
<1>6. e \in State /\ e = ReadLine(t, NewLine(p, f))
  BY <1>1, <1>4, HeaderTyped, ReadLineTyped
<1> HIDE DEF t
<1>7. e = Name(t, NewLine(p, f).path)
  BY <1>2, <1>5, <1>6 DEF ReadLine, ReadHeader
<1>8. t.kinds \in [Paths -> Kinds] /\ t.kinds = s.kinds
  BY <1>4, <1>5 DEF State
<1>9. CASE f.as = Added
  <2>1. t.current = None /\ NewLine(p, f).path = {p}
    BY <1>2, <1>5, <1>9 DEF None, Added, Deleted
  <2>2. e = [t EXCEPT !.kinds = [q \in Paths |-> IF q \in {p} THEN Added ELSE @[q]],
                      !.pending = {p}]
    BY <1>7, <2>1 DEF Name, None
  <2>3. /\ e.desynced = t.desynced /\ e.body = t.body /\ e.announced = t.announced
        /\ e.current = t.current /\ e.pending = {p}
        /\ e.kinds = [q \in Paths |-> IF q \in {p} THEN Added ELSE t.kinds[q]]
        /\ e.regions = t.regions /\ e.removed = t.removed /\ e.added = t.added
    BY <1>4, <2>2 DEF State
  <2>4. e.kinds = [s.kinds EXCEPT ![p] = f.as]
    BY <1>8, <1>9, <2>3
  <2>5. Holder(e) = {p}
    BY <2>1, <2>3 DEF Holder
  <2>6. QED
    BY <1>5, <1>6, <1>9, <2>3, <2>4, <2>5
<1>10. CASE f.as # Added
  <2> DEFINE target == NewLine(p, f).path
  <2>1. t.current = {p} /\ t.current # None /\ (target = None <=> f.as = Deleted)
    BY <1>2, <1>5, <1>10 DEF None
  <2> HIDE DEF target
  <2>2. e = [t EXCEPT !.kinds = [q \in Paths |-> IF q \notin t.current THEN @[q]
                                                 ELSE IF target = None THEN Deleted ELSE Edited]]
    BY <1>7, <2>1 DEF Name, target
  <2>3. /\ e.desynced = t.desynced /\ e.body = t.body /\ e.announced = t.announced
        /\ e.current = t.current /\ e.pending = t.pending
        /\ e.kinds = [q \in Paths |-> IF q \notin t.current THEN t.kinds[q]
                                      ELSE IF target = None THEN Deleted ELSE Edited]
        /\ e.regions = t.regions /\ e.removed = t.removed /\ e.added = t.added
    BY <1>4, <2>2 DEF State
  <2>4. (IF target = None THEN Deleted ELSE Edited) = f.as
    BY <1>10, <2>1
  <2>5. e.kinds = [s.kinds EXCEPT ![p] = f.as]
    BY <1>8, <2>1, <2>3, <2>4
  <2>6. Holder(e) = {p}
    BY <2>1, <2>3 DEF Holder
  <2>7. QED
    BY <1>5, <1>6, <1>10, <2>3, <2>5, <2>6
<1>11. QED
  BY <1>9, <1>10

LEMMA AllRendered ==
  ASSUME NEW hunks \in Seq(TextHunks)
  PROVE  FlattenSeq(RenderedAll(hunks)) \in Seq(Line)
<1> DEFINE n == Len(hunks)
           seqs == RenderedAll(hunks)
<1>1. ASSUME NEW i \in 1..n
      PROVE  seqs[i] \in Seq(Line)
  <2>1. hunks[i] \in TextHunks
    OBVIOUS
  <2>2. seqs[i] = Rendered(hunks[i])
    BY DEF RenderedAll
  <2>3. QED
    BY <2>1, <2>2, HunkTyped
<1>2. n \in Nat /\ DOMAIN hunks = 1..n
  OBVIOUS
<1>3. seqs = [i \in 1..n |-> seqs[i]]
  BY <1>2 DEF RenderedAll
<1>4. seqs \in Seq(Seq(Line)) /\ Len(seqs) = n
  BY <1>1, <1>2, <1>3
<1>5. QED
  BY <1>4, FlattenedTyped

LEMMA FormTyped ==
  ASSUME NEW f \in Forms
  PROVE  /\ f.hunks \in Seq(TextHunks)
         /\ f.hunks = << >> <=> f.as \notin {Edited, Deleted, Added}
         /\ f.as = "clean" => f.hunks = << >>
<1>1. << >> \in Seq(TextHunks)
  OBVIOUS
<1>2. QED
  BY <1>1 DEF Forms, Edited, Deleted, Added

SourceOf(p) == IF p \in Sources THEN {p} ELSE {}

\* What the entries of a set of paths leave: counted, placed and harvested.
Counted(p, f) == IF f.as = "clean" THEN 0 ELSE 1

EntryLeaves(s, e, p, f) ==
  LET n == Len(f.hunks)
  IN  /\ ~e.desynced /\ e.body = 0 /\ e.announced = s.announced + Counted(p, f)
      /\ e.regions = [s.regions EXCEPT ![p] = Spans(f)]
      /\ e.removed = s.removed \cup (MinusTo(f.hunks, n) \X SourceOf(p))
      /\ e.added = s.added \cup (IF p \in Sources THEN PlusTo(f.hunks, n) ELSE {})

LEMMA NothingFlattened == FlattenSeq(RenderedAll(<< >>)) = << >>
<1>1. RenderedAll(<< >>) = << >> /\ Len(<< >>) = 0
  BY DEF RenderedAll
<1>2. QED
  BY <1>1 DEF FlattenSeq

LEMMA NothingToDeclare ==
  MinusTo(<< >>, 0) = {} /\ PlusTo(<< >>, 0) = {} /\ LegibleTo(<< >>, 0)
BY DEF MinusTo, PlusTo, LegibleTo

LEMMA EntryRead ==
  ASSUME NEW s \in State, NEW e, ~s.desynced, s.body = 0,
         NEW p \in Paths, NEW f \in Forms, s.regions[p] = << >>, Reads(s, Entry(p, f), e)
  PROVE  /\ e \in State
         /\ e.kinds = (IF f.hunks = << >> THEN s.kinds ELSE [s.kinds EXCEPT ![p] = f.as])
         /\ ~LegibleTo(f.hunks, Len(f.hunks)) => e.desynced
         /\ LegibleTo(f.hunks, Len(f.hunks)) => EntryLeaves(s, e, p, f)
<1>1. /\ f.hunks \in Seq(TextHunks) /\ Len(<< >>) = 0
      /\ s.regions \in [Paths -> Seq(Span)] /\ s.announced \in Nat
  BY FormTyped DEF State
<1>2. ASSUME f.hunks = << >>
      PROVE  /\ Spans(f) = << >> /\ [s.regions EXCEPT ![p] = Spans(f)] = s.regions
             /\ MinusTo(f.hunks, Len(f.hunks)) = {} /\ PlusTo(f.hunks, Len(f.hunks)) = {}
             /\ LegibleTo(f.hunks, Len(f.hunks))
  <2>1. Spans(f) = << >>
    BY <1>2 DEF Spans
  <2>2. [s.regions EXCEPT ![p] = << >>] = s.regions
    BY <1>1
  <2>3. QED
    BY <1>1, <1>2, <2>1, <2>2, NothingToDeclare
<1>3. {} \X SourceOf(p) = {}
  OBVIOUS
<1>4. CASE f.as = "clean"
  <2>1. f.hunks = << >> /\ Entry(p, f) = << >>
    BY <1>4, FormTyped DEF Entry
  <2>2. e = s
    BY <2>1, ReadsNone
  <2>3. Counted(p, f) = 0 /\ s.announced + 0 = s.announced
    BY <1>1, <1>4 DEF Counted
  <2>4. QED
    BY <1>2, <1>3, <2>1, <2>2, <2>3 DEF EntryLeaves
<1>5. CASE f.as # "clean" /\ f.hunks = << >>
  <2>1. Entry(p, f) = <<DiffLine, Plain>> \o << >> \o << >>
    <3>1. FlattenSeq([i \in DOMAIN f.hunks |-> Rendered(f.hunks[i])]) = << >>
      BY <1>5, NothingFlattened DEF RenderedAll
    <3>2. QED
      BY <1>5, <3>1 DEF Entry, DiffLine
  <2>2. Entry(p, f) = <<DiffLine, Plain>>
    BY <2>1
  <2>3. /\ e \in State /\ ~e.desynced /\ e.body = 0 /\ e.announced = s.announced + 1
        /\ e.kinds = s.kinds /\ e.regions = s.regions /\ e.removed = s.removed
        /\ e.added = s.added
    BY <2>2, EntryOpens
  <2>4. Counted(p, f) = 1
    BY <1>5 DEF Counted
  <2>5. QED
    BY <1>2, <1>3, <1>5, <2>3, <2>4 DEF EntryLeaves
<1>6. CASE f.hunks # << >>
  <2> DEFINE n == Len(f.hunks)
             rest == FlattenSeq(RenderedAll(f.hunks))
             opening == <<DiffLine, Plain>>
             head == Header(p, f)
  <2>1. f.as # "clean" /\ f.as \in {Edited, Deleted, Added}
    BY <1>6, FormTyped
  <2>2. Entry(p, f) = opening \o head \o rest
    BY <1>6, <2>1 DEF Entry, RenderedAll, DiffLine
  <2>3. opening \in Seq(Line) /\ head \in Seq(Line)
    <3>1. \A a, b \in Line : <<a, b>> \in Seq(Line)
      OBVIOUS
    <3>2. QED
      BY <3>1, HeaderTyped
  <2>4. rest \in Seq(Line)
    BY <1>1, AllRendered
  <2> HIDE DEF opening, head, rest
  <2>5. opening \o head \in Seq(Line)
    BY <2>3
  <2>6. PICK b : Reads(s, opening \o head, b) /\ Reads(b, rest, e)
    BY <2>2, <2>4, <2>5, ReadsBoth
  <2>7. PICK a : Reads(s, opening, a) /\ Reads(a, head, b)
    BY <2>3, <2>6, ReadsBoth
  <2>8. /\ a \in State /\ ~a.desynced /\ a.body = 0 /\ a.announced = s.announced + 1
        /\ a.current = None /\ a.pending = None /\ a.kinds = s.kinds
        /\ a.regions = s.regions /\ a.removed = s.removed /\ a.added = s.added
    BY <2>7, EntryOpens DEF opening
  <2>9. /\ b \in State /\ ~b.desynced /\ b.body = 0 /\ b.announced = s.announced + 1
        /\ b.current = (IF f.as = Added THEN {} ELSE {p}) /\ Holder(b) = {p}
        /\ b.kinds = [s.kinds EXCEPT ![p] = f.as]
        /\ b.regions = s.regions /\ b.removed = s.removed /\ b.added = s.added
    <3>1. Reads(a, Header(p, f), b)
      BY <2>7 DEF head
    <3>2. /\ b \in State /\ ~b.desynced /\ b.body = 0 /\ b.announced = a.announced
          /\ b.current = (IF f.as = Added THEN {} ELSE {p}) /\ Holder(b) = {p}
          /\ b.kinds = [a.kinds EXCEPT ![p] = f.as]
          /\ b.regions = a.regions /\ b.removed = a.removed /\ b.added = a.added
      BY <2>1, <2>8, <3>1, HeaderRead
    <3>3. QED
      BY <2>8, <3>2
  <2>10. \A q \in b.current : b.regions[q] = << >>
    BY <2>9
  <2>11. /\ e \in State /\ e.kinds = b.kinds
         /\ ~LegibleTo(f.hunks, n) => e.desynced
         /\ LegibleTo(f.hunks, n) => Through(b, e, f.hunks, n)
    BY <1>1, <2>6, <2>9, <2>10, HunksRead DEF rest
  <2>12. ASSUME LegibleTo(f.hunks, n)
         PROVE  EntryLeaves(s, e, p, f)
    <3>1. Through(b, e, f.hunks, n)
      BY <2>11, <2>12
    <3>2. Counted(p, f) = 1
      BY <2>1 DEF Counted
    <3>3. e.regions = [s.regions EXCEPT ![p] = Spans(f)]
      <4>1. f.as # Added => Spans(f) = SpansTo(f.hunks, n)
        BY <1>1 DEF Spans, SpansTo
      <4>2. f.as = Added => Spans(f) = << >>
        BY DEF Spans
      <4>3. e.regions = [q \in Paths |-> IF q \in b.current THEN SpansTo(f.hunks, n)
                                         ELSE s.regions[q]]
        BY <2>9, <3>1 DEF Through
      <4> HIDE DEF n
      <4>4. CASE f.as = Added
        BY <1>1, <2>9, <4>2, <4>3, <4>4
      <4>5. CASE f.as # Added
        BY <1>1, <2>9, <4>1, <4>3, <4>5
      <4>6. QED
        BY <4>4, <4>5
    <3>4. Code(b) <=> p \in Sources
      BY <2>9 DEF Code, None
    <3>5. Gone(b, MinusTo(f.hunks, n)) = MinusTo(f.hunks, n) \X SourceOf(p)
      <4>1. MinusTo(f.hunks, n) \X {} = {}
        OBVIOUS
      <4>2. QED
        BY <2>9, <3>4, <4>1 DEF Gone, SourceOf
    <3>6. Came(b, PlusTo(f.hunks, n)) = IF p \in Sources THEN PlusTo(f.hunks, n) ELSE {}
      BY <3>4 DEF Came
    <3>7. QED
      BY <2>9, <3>1, <3>2, <3>3, <3>5, <3>6 DEF Through, EntryLeaves
  <2>13. QED
    BY <1>6, <2>9, <2>11, <2>12
<1>7. QED
  BY <1>4, <1>5, <1>6

-----------------------------------------------------------------------------
(***************************************************************************)
(* The whole diff, one entry after the other, each path once.              *)
(***************************************************************************)
LEMMA OrderIs ==
  /\ InOrder \in Seq(Paths)
  /\ \A i, k \in 1..Len(InOrder) : InOrder[i] = InOrder[k] => i = k
  /\ \A p \in Paths : \E i \in 1..Len(InOrder) : InOrder[i] = p
<1> DEFINE n == Cardinality(Paths)
           Orders(f) == f \in [1..n -> Paths] /\ IsInjective(f)
<1>1. n \in Nat /\ ExistsBijection(1..n, Paths)
  BY DiffReaderAssumption, FS_CardinalityType
<1>2. \E f : Orders(f)
  BY <1>1 DEF ExistsBijection, Bijection, Injection
<1>3. InOrder = CHOOSE f \in [1..n -> Paths] : IsInjective(f)
  BY DEF InOrder, SetToSeq
<1>4. Orders(InOrder)
  BY <1>2, <1>3
<1> HIDE DEF n
<1>5. InOrder \in Seq(Paths) /\ Len(InOrder) = n /\ DOMAIN InOrder = 1..n
  BY <1>1, <1>4
<1>6. InOrder \in Injection(1..n, Paths)
  BY <1>4 DEF Injection
<1>7. IsFiniteSet(1..n) /\ Cardinality(1..n) = n
  <2>1. 0 \in Int /\ 1 \in Int /\ n \in Int
    BY <1>1
  <2>2. IsFiniteSet(1..n) /\ Cardinality(1..n) = IF 1 > n THEN 0 ELSE n - 1 + 1
    BY <2>1, FS_Interval
  <2>3. QED
    BY <1>1, <2>2
<1>8. InOrder \in Surjection(1..n, Paths)
  BY <1>6, <1>7, DiffReaderAssumption, FS_Injection DEF n
<1>9. QED
  BY <1>4, <1>5, <1>8 DEF IsInjective, Surjection

LEMMA EntryTyped ==
  ASSUME NEW p \in Paths, NEW f \in Forms
  PROVE  Entry(p, f) \in Seq(Line)
<1>1. FlattenSeq([i \in DOMAIN f.hunks |-> Rendered(f.hunks[i])]) \in Seq(Line)
  BY FormTyped, AllRendered DEF RenderedAll
<1>2. Header(p, f) \in Seq(Line) /\ <<DiffLine, Plain>> \in Seq(Line)
  <2>1. \A a, b \in Line : <<a, b>> \in Seq(Line)
    OBVIOUS
  <2>2. QED
    BY <2>1, HeaderTyped
<1>3. << >> \in Seq(Line)
  OBVIOUS
<1>5. f.as # "clean" =>
        Entry(p, f) = <<DiffLine, Plain>> \o (IF f.hunks = << >> THEN << >> ELSE Header(p, f))
                        \o FlattenSeq([i \in DOMAIN f.hunks |-> Rendered(f.hunks[i])])
  BY DEF Entry, DiffLine
<1>6. (IF f.hunks = << >> THEN << >> ELSE Header(p, f)) \in Seq(Line)
  BY <1>2, <1>3
<1>7. f.as = "clean" => Entry(p, f) = << >>
  BY DEF Entry
<1>8. CASE f.as = "clean"
  BY <1>3, <1>7, <1>8
<1>9. CASE f.as # "clean"
  <2> DEFINE head == IF f.hunks = << >> THEN << >> ELSE Header(p, f)
             rest == FlattenSeq([i \in DOMAIN f.hunks |-> Rendered(f.hunks[i])])
             opening == <<DiffLine, Plain>>
  <2>1. Entry(p, f) = opening \o head \o rest
    BY <1>5, <1>9
  <2>2. opening \in Seq(Line) /\ head \in Seq(Line) /\ rest \in Seq(Line)
    BY <1>1, <1>2, <1>6
  <2> HIDE DEF opening, head, rest
  <2>3. QED
    BY <2>1, <2>2
<1>10. QED
  BY <1>8, <1>9

Minus(p) == MinusTo(change[p].hunks, Len(change[p].hunks))

Plus(p) == PlusTo(change[p].hunks, Len(change[p].hunks))

LegibleIn(p) == LegibleTo(change[p].hunks, Len(change[p].hunks))

Dirty(D) == {p \in D : change[p].as # "clean"}

\* What the entries of the paths D leave once all of them were legible.
Exactly(e, D) ==
  /\ ~e.desynced /\ e.body = 0 /\ e.announced = Cardinality(Dirty(D))
  /\ e.kinds = [p \in Paths |-> IF p \in D /\ change[p].hunks # << >> THEN change[p].as ELSE Unnamed]
  /\ e.regions = [p \in Paths |-> IF p \in D THEN Spans(change[p]) ELSE << >>]
  /\ e.removed = UNION {Minus(p) \X SourceOf(p) : p \in D}
  /\ e.added = UNION {IF p \in Sources THEN Plus(p) ELSE {} : p \in D}

\* A kind is the right one or still to be asked for.
NeverWrong(e) == \A p \in Paths : e.kinds[p] \in {Unnamed, ByName[p]}

LEMMA ExactlyOn ==
  ASSUME NEW D \in SUBSET Paths, NEW p \in Paths, p \notin D, change \in [Paths -> Forms],
         NEW s \in State, NEW e \in State, Exactly(s, D),
         e.kinds = (IF change[p].hunks = << >> THEN s.kinds ELSE [s.kinds EXCEPT ![p] = change[p].as]),
         EntryLeaves(s, e, p, change[p])
  PROVE  Exactly(e, D \cup {p})
<1> DEFINE f == change[p]
           E == D \cup {p}
<1>1. f \in Forms /\ E \in SUBSET Paths
  OBVIOUS
<1>2. e.announced = Cardinality(Dirty(E))
  <2>1. IsFiniteSet(Dirty(D))
    <3>1. Dirty(D) \in SUBSET Paths
      BY DEF Dirty
    <3>2. QED
      BY <3>1, DiffReaderAssumption, FS_Subset
  <2>2. e.announced = Cardinality(Dirty(D)) + Counted(p, f)
    BY DEF EntryLeaves, Exactly
  <2>3. CASE f.as = "clean"
    <3>1. Dirty(E) = Dirty(D)
      BY <2>3 DEF Dirty
    <3>2. Cardinality(Dirty(D)) \in Nat
      BY <2>1, FS_CardinalityType
    <3>3. QED
      BY <2>2, <2>3, <3>1, <3>2 DEF Counted
  <2>4. CASE f.as # "clean"
    <3>1. Dirty(E) = Dirty(D) \cup {p} /\ p \notin Dirty(D)
      BY <2>4 DEF Dirty
    <3>2. Cardinality(Dirty(E)) = Cardinality(Dirty(D)) + 1
      BY <2>1, <3>1, FS_AddElement
    <3>3. QED
      BY <2>2, <2>4, <3>2 DEF Counted
  <2>5. QED
    BY <2>3, <2>4
<1>3. e.kinds = [q \in Paths |-> IF q \in E /\ change[q].hunks # << >> THEN change[q].as ELSE Unnamed]
  <2>1. s.kinds = [q \in Paths |-> IF q \in D /\ change[q].hunks # << >> THEN change[q].as ELSE Unnamed]
    BY DEF Exactly
  <2>2. CASE f.hunks = << >>
    <3>1. \A q \in Paths : (q \in E /\ change[q].hunks # << >>) <=> (q \in D /\ change[q].hunks # << >>)
      BY <2>2
    <3>2. e.kinds = s.kinds
      BY <2>2
    <3> HIDE DEF E
    <3>3. QED
      BY <2>1, <3>1, <3>2
  <2>3. CASE f.hunks # << >>
    <3>1. e.kinds = [s.kinds EXCEPT ![p] = f.as]
      BY <2>3
    <3>2. QED
      BY <2>1, <2>3, <3>1
  <2>4. QED
    BY <2>2, <2>3
<1>4. e.regions = [q \in Paths |-> IF q \in E THEN Spans(change[q]) ELSE << >>]
  <2>1. /\ s.regions = [q \in Paths |-> IF q \in D THEN Spans(change[q]) ELSE << >>]
        /\ e.regions = [s.regions EXCEPT ![p] = Spans(f)]
    BY DEF Exactly, EntryLeaves
  <2>2. QED
    BY <2>1
<1>5. e.removed = UNION {Minus(q) \X SourceOf(q) : q \in E}
  <2>1. /\ s.removed = UNION {Minus(q) \X SourceOf(q) : q \in D}
        /\ e.removed = s.removed \cup (Minus(p) \X SourceOf(p))
    BY DEF Exactly, EntryLeaves, Minus
  <2> DEFINE G(q) == Minus(q) \X SourceOf(q)
  <2>2. UNION {G(q) : q \in E} = (UNION {G(q) : q \in D}) \cup G(p)
    <3> HIDE DEF G
    <3>1. QED
      OBVIOUS
  <2>3. QED
    BY <2>1, <2>2
<1>6. e.added = UNION {IF q \in Sources THEN Plus(q) ELSE {} : q \in E}
  <2>1. /\ s.added = UNION {IF q \in Sources THEN Plus(q) ELSE {} : q \in D}
        /\ e.added = s.added \cup (IF p \in Sources THEN Plus(p) ELSE {})
    BY DEF Exactly, EntryLeaves, Plus
  <2> DEFINE G(q) == IF q \in Sources THEN Plus(q) ELSE {}
  <2>2. UNION {G(q) : q \in E} = (UNION {G(q) : q \in D}) \cup G(p)
    <3> HIDE DEF G
    <3>1. QED
      OBVIOUS
  <2>3. QED
    BY <2>1, <2>2
<1>7. ~e.desynced /\ e.body = 0
  BY DEF EntryLeaves
<1>8. QED
  BY <1>2, <1>3, <1>4, <1>5, <1>6, <1>7 DEF Exactly

LEMMA WholeDiff ==
  ASSUME change \in [Paths -> Forms]
  PROVE  LET e == FoldLeft(ReadLine, Unread, Diff)
         IN  /\ e \in State /\ NeverWrong(e)
             /\ (\E p \in Paths : ~LegibleIn(p)) => e.desynced
             /\ (\A p \in Paths : LegibleIn(p)) => Exactly(e, Paths)
<1> DEFINE n == Len(InOrder)
           seqs == [i \in DOMAIN InOrder |-> Entry(InOrder[i], change[InOrder[i]])]
           end == FoldLeft(ReadLine, Unread, Diff)
           Done(k) == {InOrder[i] : i \in 1..k}
<1>1. /\ n \in Nat /\ DOMAIN InOrder = 1..n /\ \A i \in 1..n : InOrder[i] \in Paths
      /\ \A i, k \in 1..n : InOrder[i] = InOrder[k] => i = k
      /\ \A p \in Paths : \E i \in 1..n : InOrder[i] = p
  BY OrderIs
<1>2. ASSUME NEW i \in 1..n
      PROVE  seqs[i] = Entry(InOrder[i], change[InOrder[i]]) /\ seqs[i] \in Seq(Line)
  <2>1. InOrder[i] \in Paths /\ change[InOrder[i]] \in Forms
    BY <1>1
  <2>2. seqs[i] = Entry(InOrder[i], change[InOrder[i]])
    BY <1>1
  <2>3. QED
    BY <2>1, <2>2, EntryTyped
<1>3. seqs \in Seq(Seq(Line)) /\ Len(seqs) = n
  <2>1. seqs = [i \in 1..n |-> seqs[i]]
    BY <1>1
  <2>2. QED
    BY <1>1, <1>2, <2>1
<1>4. Diff = FlattenSeq(seqs)
  BY DEF Diff
<1> HIDE DEF n, seqs, end
<1>5. Diff \in Seq(Line)
  BY <1>3, <1>4, FlattenedTyped
<1>6. Reads(Unread, Diff, end)
  BY <1>5, UnreadTyped, FoldReads DEF end
<1>7. PICK m : Chain(m, Unread, seqs, n) /\ m[n] = end
  BY <1>3, <1>4, <1>6, ReadsAll
<1> DEFINE Legibly(k) == \A p \in Done(k) : LegibleIn(p)
           Inv(k) == /\ m[k] \in State /\ NeverWrong(m[k])
                     /\ ~Legibly(k) => m[k].desynced
                     /\ Legibly(k) => Exactly(m[k], Done(k))
           S == {k \in 0..n : Inv(k)}
<1>8. 0 \in S
  <2>1. m[0] = Unread /\ Done(0) = {}
    BY <1>7 DEF Chain
  <2>2. Dirty({}) = {} /\ Cardinality({}) = 0
    BY FS_EmptySet DEF Dirty
  <2>3. Exactly(Unread, {})
    BY <2>2 DEF Exactly, Unread
  <2>4. NeverWrong(Unread)
    BY DEF NeverWrong, Unread
  <2>5. Legibly(0)
    BY <2>1
  <2>6. Inv(0)
    BY <2>1, <2>3, <2>4, <2>5, UnreadTyped
  <2>7. 0 \in 0..n
    BY <1>1
  <2> HIDE DEF Inv
  <2>8. QED
    BY <2>6, <2>7
<1>9. ASSUME NEW k \in 0..n-1, k \in S
      PROVE  k + 1 \in S
  <2> DEFINE p == InOrder[k+1]
             f == change[p]
  <2>1. k + 1 \in 1..n /\ (k + 1) - 1 = k /\ k + 1 \in 0..n
    BY <1>1
  <2>2. Inv(k)
    BY <1>9
  <2>3. p \in Paths /\ f \in Forms /\ Done(k) \in SUBSET Paths /\ p \notin Done(k)
    <3>1. \A i \in 1..k : i \in 1..n /\ i # k + 1
      BY <1>1
    <3>2. QED
      BY <1>1, <2>1, <3>1
  <2>4. Done(k + 1) = Done(k) \cup {p}
    <3>1. \A i : i \in 1..(k+1) <=> i \in 1..k \/ i = k + 1
      BY <1>1
    <3>2. QED
      BY <3>1
  <2>5. Reads(m[k], Entry(p, f), m[k+1])
    BY <1>2, <1>7, <2>1 DEF Chain
  <2>6. CASE ~Legibly(k)
    <3>1. m[k+1] = m[k]
      <4>1. m[k].desynced
        BY <2>2, <2>6
      <4>2. Entry(p, f) \in Seq(Line)
        BY <2>3, EntryTyped
      <4>3. QED
        BY <2>5, <4>1, <4>2, ReadsNothing
    <3>2. ~Legibly(k + 1)
      BY <2>4, <2>6
    <3>3. Inv(k + 1)
      BY <2>2, <2>6, <3>1, <3>2
    <3> HIDE DEF Inv
    <3>4. QED
      BY <2>1, <3>3
  <2>7. CASE Legibly(k)
    <3>1. m[k] \in State /\ NeverWrong(m[k]) /\ Exactly(m[k], Done(k))
      BY <2>2, <2>7
    <3>2. Legibly(k + 1) <=> LegibleIn(p)
      BY <2>4, <2>7
    <3> HIDE DEF Legibly, Inv, Done, p
    <3>3. ~m[k].desynced /\ m[k].body = 0 /\ m[k].regions[p] = << >>
      BY <2>3, <3>1 DEF Exactly
    <3>4. /\ m[k+1] \in State
          /\ m[k+1].kinds = (IF f.hunks = << >> THEN m[k].kinds ELSE [m[k].kinds EXCEPT ![p] = f.as])
          /\ ~LegibleIn(p) => m[k+1].desynced
          /\ LegibleIn(p) => EntryLeaves(m[k], m[k+1], p, f)
      BY <2>3, <2>5, <3>1, <3>3, EntryRead DEF LegibleIn
    <3>5. NeverWrong(m[k+1])
      <4>1. f.hunks # << >> => f.as = ByName[p]
        <5>1. f.hunks # << >> => f.as \in {Edited, Deleted, Added}
          BY <2>3, FormTyped
        <5>2. QED
          BY <2>3, <5>1 DEF ByName, Edited, Deleted, Added
      <4>2. m[k].kinds \in [Paths -> Kinds]
        BY <3>1 DEF State
      <4>3. QED
        BY <2>3, <3>1, <3>4, <4>1, <4>2 DEF NeverWrong
    <3>6. ASSUME LegibleIn(p)
          PROVE  Exactly(m[k+1], Done(k + 1))
      <4>1. EntryLeaves(m[k], m[k+1], p, change[p])
        BY <3>4, <3>6
      <4>2. m[k+1].kinds = (IF change[p].hunks = << >> THEN m[k].kinds
                            ELSE [m[k].kinds EXCEPT ![p] = change[p].as])
        BY <3>4
      <4> HIDE DEF f
      <4>3. Exactly(m[k+1], Done(k) \cup {p})
        BY <2>3, <3>1, <3>4, <4>1, <4>2, ExactlyOn
      <4>4. QED
        BY <2>4, <4>3
    <3>7. Inv(k + 1)
      BY <3>2, <3>4, <3>5, <3>6 DEF Inv
    <3>8. QED
      BY <2>1, <3>7
  <2>8. QED
    BY <2>6, <2>7
<1> HIDE DEF S
<1>10. n \in S
  <2>1. 0..n \subseteq S
    BY <1>1, <1>8, <1>9, Walk
  <2>2. QED
    BY <1>1, <2>1
<1>11. Done(n) = Paths
  BY <1>1
<1>12. Inv(n)
  BY <1>10 DEF S
<1>13. /\ end \in State /\ NeverWrong(end)
       /\ (\E p \in Paths : ~LegibleIn(p)) => end.desynced
       /\ (\A p \in Paths : LegibleIn(p)) => Exactly(end, Paths)
  BY <1>7, <1>11, <1>12
<1>14. QED
  BY <1>13 DEF end

-----------------------------------------------------------------------------
(***************************************************************************)
(* What is made of it: paths left unnamed are noticed, and asked for.      *)
(***************************************************************************)
LEMMA NamedOrAsked ==
  ASSUME NEW e \in State, NEW asked, NeverWrong(e), change \in [Paths -> Forms], asked = ByName,
         e.desynced \/ Exactly(e, Paths)
  PROVE  Summarise(e, asked).kinds = ByName
<1>1. Summarise(e, asked).kinds =
        [p \in Paths |-> IF Short(e) /\ e.kinds[p] = Unnamed THEN ByName[p] ELSE e.kinds[p]]
  BY DEF Summarise
<1>2. ByName = [p \in Paths |-> ByName[p]]
  BY DEF ByName
<1>3. CASE Short(e)
  BY <1>1, <1>2, <1>3 DEF NeverWrong
<1>4. CASE ~Short(e)
  <2> DEFINE named == NamedPaths(e.kinds)
             dirty == Dirty(Paths)
  <2>1. ~e.desynced /\ Exactly(e, Paths)
    BY <1>4 DEF Short
  <2>2. named = {p \in Paths : change[p].hunks # << >>}
    <3>1. \A p \in Paths : change[p].hunks # << >> => change[p].as # Unnamed
      BY FormTyped DEF Unnamed, Edited, Deleted, Added
    <3>2. QED
      BY <2>1, <3>1 DEF NamedPaths, Exactly
  <2>3. named \subseteq dirty
    <3>1. \A p \in Paths : change[p].as = "clean" => change[p].hunks = << >>
      BY FormTyped
    <3>2. QED
      BY <2>2, <3>1 DEF Dirty
  <2>4. IsFiniteSet(dirty)
    <3>1. dirty \in SUBSET Paths
      BY DEF Dirty
    <3>2. QED
      BY <3>1, DiffReaderAssumption, FS_Subset
  <2>5. Cardinality(dirty) = e.announced
    BY <2>1 DEF Exactly
  <2>6. ~(e.announced > Cardinality(named))
    BY <1>4 DEF Short
  <2> HIDE DEF named, dirty
  <2>7. Cardinality(named) <= Cardinality(dirty) /\ (Cardinality(dirty) = Cardinality(named) => dirty = named)
        /\ IsFiniteSet(named)
    BY <2>3, <2>4, FS_Subset
  <2>8. Cardinality(dirty) \in Nat /\ Cardinality(named) \in Nat
    BY <2>4, <2>7, FS_CardinalityType
  <2>9. dirty = named
    BY <2>5, <2>6, <2>7, <2>8
  <2>10. ASSUME NEW p \in Paths
         PROVE  e.kinds[p] = ByName[p]
    <3>1. CASE p \in named
      BY <2>10, <3>1 DEF NeverWrong, NamedPaths, named
    <3>2. CASE p \notin named
      <4>1. change[p].as = "clean"
        BY <2>9, <3>2 DEF dirty, Dirty
      <4>2. e.kinds[p] = Unnamed
        BY <3>2 DEF named, NamedPaths
      <4>3. QED
        BY <4>1, <4>2 DEF ByName, Edited, Deleted, Added
    <3>3. QED
      BY <3>1, <3>2
  <2>11. QED
    BY <1>1, <1>2, <1>4, <2>10
<1>5. QED
  BY <1>3, <1>4

LEMMA DeclaredIs ==
  ASSUME NEW p \in Paths, change \in [Paths -> Forms]
  PROVE  Declared(p, "-") = Minus(p) /\ Declared(p, "+") = Plus(p)
<1>1. change[p].hunks \in Seq(TextHunks)
  BY FormTyped
<1>2. DOMAIN change[p].hunks = 1..Len(change[p].hunks)
  BY <1>1
<1>3. QED
  BY <1>2 DEF Declared, Minus, Plus, MinusTo, PlusTo, Exports

LEMMA LegibleIs ==
  ASSUME change \in [Paths -> Forms]
  PROVE  Legible <=> \A p \in Paths : LegibleIn(p)
<1>1. \A p \in Paths : change[p].hunks \in Seq(TextHunks)
  BY FormTyped
<1>2. \A p \in Paths : DOMAIN change[p].hunks = 1..Len(change[p].hunks)
  BY <1>1
<1>3. QED
  BY <1>2 DEF Legible, LegibleIn, LegibleTo

LEMMA WithdrawnIs ==
  ASSUME NEW e, change \in [Paths -> Forms], Exactly(e, Paths), e \in State
  PROVE  {r \in e.removed : r[1] \notin e.added} = Withdrawn
<1>0. Sources \subseteq Paths
  BY DiffReaderAssumption
<1>1. ASSUME NEW x
      PROVE  x \in e.added <=> \E p \in Sources : x \in Declared(p, "+")
  <2>1. x \in e.added <=> \E p \in Paths : x \in (IF p \in Sources THEN Plus(p) ELSE {})
    BY DEF Exactly
  <2>2. QED
    BY <1>0, <2>1, DeclaredIs
<1>2. ASSUME NEW r
      PROVE  r \in e.removed <=> r \in Symbols \X Sources /\ r[1] \in Declared(r[2], "-")
  <2>1. r \in e.removed <=> \E p \in Paths : r \in Minus(p) \X SourceOf(p)
    BY DEF Exactly
  <2>2. \A p \in Paths : r \in Minus(p) \X SourceOf(p) =>
          p \in Sources /\ r[2] = p /\ r[1] \in Minus(p) /\ r = <<r[1], r[2]>>
    BY DEF SourceOf
  <2>3. ASSUME r \in e.removed
        PROVE  r \in Symbols \X Sources /\ r[1] \in Declared(r[2], "-")
    <3>1. r \in Symbols \X Paths
      BY <2>3 DEF State
    <3>2. PICK p \in Paths : r \in Minus(p) \X SourceOf(p)
      BY <2>1, <2>3
    <3>3. QED
      BY <2>2, <3>1, <3>2, DeclaredIs
  <2>4. ASSUME r \in Symbols \X Sources, r[1] \in Declared(r[2], "-")
        PROVE  r \in e.removed
    <3>1. r[2] \in Sources /\ r[2] \in Paths /\ r = <<r[1], r[2]>>
      BY <1>0, <2>4
    <3>2. r[1] \in Minus(r[2]) /\ r[2] \in SourceOf(r[2])
      BY <2>4, <3>1, DeclaredIs DEF SourceOf
    <3>3. r \in Minus(r[2]) \X SourceOf(r[2])
      BY <3>1, <3>2
    <3>4. QED
      BY <2>1, <3>1, <3>3
  <2>5. QED
    BY <2>3, <2>4
<1>3. QED
  BY <1>1, <1>2 DEF Withdrawn

LEMMA ChangeTyped == SpecChange => [](change # << >> => change \in [Paths -> Forms])
<1>1. InitChange => (change # << >> => change \in [Paths -> Forms])
  BY DEF InitChange
<1>2. (change # << >> => change \in [Paths -> Forms]) /\ [AskChange]_change
        => (change # << >> => change \in [Paths -> Forms])'
  BY DEF AskChange
<1>3. QED
  BY <1>1, <1>2, PTL DEF SpecChange

(***************************************************************************)
(* read_diff gives back what git printed: for any repository, any number   *)
(* of hunks of any length and any lines in them, every changed path has    *)
(* its kind, every rewritten region is there and every withdrawn export.   *)
(***************************************************************************)
THEOREM DiffsAreReadWhole == SpecChange => []DiffIsReadWhole
<1>1. ASSUME change \in [Paths -> Forms]
      PROVE  DiffIsReadWhole
  <2> SUFFICES ASSUME Legible
               PROVE  Summary = [kinds   |-> ByName,
                                 regions |-> [p \in Paths |-> Spans(change[p])],
                                 removed |-> Withdrawn]
    BY DEF DiffIsReadWhole
  <2> DEFINE e == FoldLeft(ReadLine, Unread, Diff)
  <2>1. Summary = Summarise(e, ByName)
    BY DEF Summary, ReadDiff
  <2>2. e \in State /\ NeverWrong(e) /\ Exactly(e, Paths)
    BY <1>1, WholeDiff, LegibleIs
  <2> HIDE DEF e
  <2>3. Summarise(e, ByName).kinds = ByName
    BY <1>1, <2>2, NamedOrAsked
  <2>4. ~e.desynced /\ e.regions = [p \in Paths |-> Spans(change[p])]
    BY <2>2 DEF Exactly
  <2>5. {r \in e.removed : r[1] \notin e.added} = Withdrawn
    BY <1>1, <2>2, WithdrawnIs
  <2>6. Summarise(e, ByName) = [kinds   |-> Summarise(e, ByName).kinds,
                                regions |-> e.regions,
                                removed |-> {r \in e.removed : r[1] \notin e.added}]
    BY <2>4 DEF Summarise
  <2>7. QED
    BY <2>1, <2>3, <2>4, <2>5, <2>6
<1>2. change = << >> => DiffIsReadWhole
  BY DEF DiffIsReadWhole
<1>3. (change # << >> => change \in [Paths -> Forms]) => DiffIsReadWhole
  BY <1>1, <1>2
<1>4. QED
  BY <1>3, ChangeTyped, PTL

(***************************************************************************)
(* A diff with a hunk header that makes no sense, wherever it stands,      *)
(* costs regions and never a path: all changed paths are reported with     *)
(* their kinds, none of them with half a list of regions.                  *)
(***************************************************************************)
THEOREM GivingUpIsConservative == SpecChange => []DesyncIsConservative
<1>1. ASSUME change \in [Paths -> Forms]
      PROVE  DesyncIsConservative
  <2> SUFFICES ASSUME ~Legible
               PROVE  Summary.kinds = ByName /\ \A p \in Paths : Summary.regions[p] = << >>
    BY DEF DesyncIsConservative
  <2> DEFINE e == FoldLeft(ReadLine, Unread, Diff)
  <2>1. Summary = Summarise(e, ByName)
    BY DEF Summary, ReadDiff
  <2>2. e \in State /\ NeverWrong(e) /\ e.desynced
    BY <1>1, WholeDiff, LegibleIs
  <2> HIDE DEF e
  <2>3. Summarise(e, ByName).kinds = ByName
    BY <1>1, <2>2, NamedOrAsked
  <2>4. Summarise(e, ByName).regions = [p \in Paths |-> << >>]
    BY <2>2 DEF Summarise
  <2>5. QED
    BY <2>1, <2>3, <2>4
<1>2. change = << >> => DesyncIsConservative
  BY DEF DesyncIsConservative
<1>3. (change # << >> => change \in [Paths -> Forms]) => DesyncIsConservative
  BY <1>1, <1>2
<1>4. QED
  BY <1>3, ChangeTyped, PTL
=============================================================================
