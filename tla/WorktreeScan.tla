---------------------------- MODULE WorktreeScan ----------------------------
(***************************************************************************)
(* One checkout, the people and agents who change it, and the scan that    *)
(* observes it while they do: scan_worktree (src/src/converge.rs) and the  *)
(* publishing of what it saw (src/src/store.rs).                           *)
(*                                                                         *)
(* A scan is a handful of git commands and file reads, each of which sees  *)
(* the checkout of its own moment; Convergence takes it for one reading.   *)
(* A file is its four states: in the base commit, in HEAD, in the index    *)
(* and in the working tree.  What a version of a file says (its regions    *)
(* against the base, its exports, the names it uses) is a constant.        *)
(***************************************************************************)
EXTENDS Integers, FiniteSets, Severity

CONSTANTS
  Paths,          \* repository paths, all of them code
  Absent,         \* no file
  Versions,       \* contents
  Choices,        \* the versions a path may take, Absent among them
  Base,           \* each path's version in the base commit
  Binary,         \* versions git merges whole, and says so in no attribute
  Unreadable,     \* versions fingerprint_of cannot hash: no file, too large, not permitted
  Unsearched,     \* versions whose names are not collected: no file, or too large for that
  Garbled,        \* other versions read_to_string fails on: not UTF-8, or not permitted
  Span,           \* the base region in which a version differs from the base
  Symbols,        \* exported names
  Exports,        \* the names a version declares
  Uses,           \* the names a version mentions and does not declare
  Answers,        \* TRUE: git answers about attributes; FALSE: it fails
  MAX_REFERENCES, \* the cap on names recorded per checkout
  Attributed,     \* bound: the paths whose attributes change
  MaxEdits        \* bound: changes made to the checkout

ASSUME WorktreeScanAssumption ==
  /\ Absent \notin Versions
  /\ Choices \in [Paths -> SUBSET (Versions \cup {Absent})]
  /\ Base \in [Paths -> Versions \cup {Absent}]
  /\ Exports \in [Versions -> SUBSET Symbols]
  /\ Uses \in [Versions -> SUBSET Symbols]
  /\ Answers \subseteq BOOLEAN
  /\ MAX_REFERENCES \in Nat
  /\ Attributed \subseteq Paths
  /\ MaxEdits \in Nat

VARIABLES
  tree,     \* head, index and working tree of each path
  whole,    \* the paths an attribute file takes the line merge away from
  probed,   \* the paths an attribute file applies to that attributes_reachable looks for
  edits,    \* how many changes were made
  scan,     \* the scan under way
  steady,   \* paths nothing was done to since the scan began
  stored    \* the footprint and symbol rows of the session

vars == <<tree, whole, probed, edits, scan, steady, stored>>

Added == "added"

Unnamed == "unnamed"

NoEntry == [kind |-> Unnamed, digest |-> None, ranges |-> None]

NoSymbols == [removed |-> {}, references |-> {}, truncated |-> FALSE]

Empty == [entries |-> [p \in Paths |-> NoEntry], symbols |-> NoSymbols]

\* kinds and regions fill up first, entries and symbols after them; left: paths to go.
NoScan ==
  [phase |-> "idle", left |-> {}, kinds |-> [p \in Paths |-> Unnamed],
   regions |-> [p \in Paths |-> None], entries |-> Empty.entries, symbols |-> NoSymbols]

Init ==
  /\ tree = [p \in Paths |-> [head |-> Base[p], index |-> Base[p], work |-> Base[p]]]
  /\ whole = {}
  /\ probed = {}
  /\ edits = 0
  /\ scan = NoScan
  /\ steady = Paths
  /\ stored = Empty

-----------------------------------------------------------------------------
(***************************************************************************)
(* The checkout changes, at any moment of a scan.                          *)
(***************************************************************************)
Touch(S) ==
  /\ S # {}
  /\ edits < MaxEdits
  /\ edits' = edits + 1
  /\ steady' = IF scan.phase = "idle" THEN Paths ELSE steady \ S
  /\ UNCHANGED <<scan, stored>>

Write(p, v) ==
  /\ v # tree[p].work
  /\ tree' = [tree EXCEPT ![p].work = v]
  /\ Touch({p}) /\ UNCHANGED <<whole, probed>>

\* git add, or git rm --cached for an index entry that is Absent afterwards.
Stage(p, v) ==
  /\ v \in {tree[p].work, Absent} \ {tree[p].index}
  /\ tree' = [tree EXCEPT ![p].index = v]
  /\ Touch({p}) /\ UNCHANGED <<whole, probed>>

Commit ==
  /\ tree' = [p \in Paths |-> [tree[p] EXCEPT !.head = tree[p].index]]
  /\ Touch({p \in Paths : tree[p].head # tree[p].index})
  /\ UNCHANGED <<whole, probed>>

Differing(S, T) == (S \cup T) \ (S \cap T)

(***************************************************************************)
(* An attribute file appears, changes or goes.  A rule may sit in a file   *)
(* attributes_reachable does not look for: core.attributesFile, a system   *)
(* file outside /etc, one of the holder's that came after the process.     *)
(***************************************************************************)
SetAttributes(S, P) ==
  /\ whole' = S
  /\ probed' = P
  /\ Touch(Differing(S, whole) \cup Differing(P, probed))
  /\ UNCHANGED tree

-----------------------------------------------------------------------------
(***************************************************************************)
(* What git answers at one moment.                                         *)
(***************************************************************************)

\* git diff <base>: blind to a path the index does not have, unless the base does.
DiffKind(p) ==
  CASE tree[p].index = Absent /\ Base[p] # Absent -> Deleted
    [] tree[p].index = Absent /\ Base[p] = Absent -> Unnamed
    [] tree[p].index # Absent /\ tree[p].work = Base[p] -> Unnamed
    [] OTHER -> CASE tree[p].work = Absent -> Deleted
                  [] Base[p] = Absent      -> Added
                  [] OTHER                 -> Edited

\* A hunk per rewritten region; none for an added file, or one shown as binary.
DiffRegion(p) ==
  IF DiffKind(p) = Edited /\ tree[p].work \notin Binary THEN Some(Span[tree[p].work]) ELSE None

\* git status, by from_status_code: the tracked record, or else the untracked one.
StatusKind(p) ==
  CASE tree[p].head = tree[p].index /\ tree[p].index = tree[p].work -> Unnamed
    [] tree[p].head = Absent /\ tree[p].index # tree[p].head        -> Added
    [] tree[p].head = Absent /\ tree[p].index = Absent /\ tree[p].work # Absent -> Added
    [] tree[p].head # Absent /\ Absent \in {tree[p].index, tree[p].work} -> Deleted
    [] OTHER -> Edited

Declares(v) == IF v = Absent THEN {} ELSE Exports[v]

\* The file's content, where it differs from the base as the diff sees it.
DiffSide(p) == IF DiffKind(p) = Deleted THEN Absent ELSE tree[p].work

\* read_diff: exports that vanish from one path and appear in no other.
WithdrawnExports ==
  LET named == {p \in Paths : DiffKind(p) # Unnamed /\ DiffSide(p) \notin Binary}
      back  == UNION {Declares(DiffSide(p)) \ Declares(Base[p]) : p \in named}
  IN  {r \in Symbols \X named : r[1] \in (Declares(Base[r[2]]) \ Declares(DiffSide(r[2]))) \ back}

-----------------------------------------------------------------------------
(***************************************************************************)
(* The scan.                                                               *)
(***************************************************************************)
Looks(phase) == scan.phase = phase /\ UNCHANGED <<tree, whole, probed, edits, steady, stored>>

\* resolve_base_ref and merge-base; the base does not move in this module.
Begin ==
  /\ scan.phase = "idle"
  /\ scan' = [NoScan EXCEPT !.phase = "diff"]
  /\ steady' = Paths
  /\ UNCHANGED <<tree, whole, probed, edits, stored>>

Diff ==
  /\ Looks("diff")
  /\ scan' = [scan EXCEPT !.phase = "status",
                          !.kinds = [p \in Paths |-> DiffKind(p)],
                          !.regions = [p \in Paths |-> DiffRegion(p)],
                          !.symbols.removed = WithdrawnExports]

BugWithStatus(kinds) == kinds

\* The diff is authoritative for what it covers; status fills in what it cannot see.
WithStatus(kinds) ==
  [p \in Paths |-> IF kinds[p] # Unnamed THEN kinds[p] ELSE StatusKind(p)]

StatusOnlyChanges ==
  /\ Looks("status")
  /\ LET kinds == WithStatus(scan.kinds)
     IN  scan' = [scan EXCEPT !.phase = "digest", !.kinds = kinds,
                              !.left = {p \in Paths : kinds[p] # Unnamed}]

\* Entries are kept and read in one order, that of the paths.
IsNext(p) == p \in scan.left /\ p = CHOOSE q \in scan.left : TRUE

\* The file system is the authority on whether a path is gone.
Entry(p) ==
  LET work == tree[p].work
      kind == IF work = Absent THEN Deleted ELSE scan.kinds[p]
      seen == kind # Deleted /\ work \notin Unreadable
  IN  [kind   |-> kind,
       digest |-> IF seen THEN Some(work) ELSE None,
       ranges |-> IF seen /\ work \notin Binary THEN scan.regions[p] ELSE None]

FingerprintOf(p) ==
  /\ Looks("digest")
  /\ IsNext(p)
  /\ scan' = [scan EXCEPT !.left = @ \ {p}, !.entries[p] = Entry(p),
                          !.phase = IF scan.left = {p} THEN "attributes" ELSE @]

\* A checkout without a change has no entry to read.
NothingChanged ==
  /\ Looks("digest")
  /\ scan.left = {}
  /\ scan' = [scan EXCEPT !.phase = "attributes"]

BugRefused(answered) == IF answered THEN whole ELSE {}

\* unmergeable_paths: a question git does not answer refuses every path asked about.
Refused(answered) == IF answered THEN whole ELSE Paths

Files == {p \in Paths : scan.entries[p].kind \notin {Unnamed, Deleted}}

\* attributes_reachable, of the paths that have regions: whether git is asked at all.
AttributesReachable == \E p \in probed : scan.entries[p].ranges # None

WithholdUnmergeableRegions(answered) ==
  /\ Looks("attributes")
  /\ LET refused == IF AttributesReachable THEN Refused(answered) ELSE {}
     IN  scan' = [scan EXCEPT !.phase = "references", !.left = Files,
           !.entries = [p \in Paths |-> IF p \in refused
                                        THEN [@[p] EXCEPT !.ranges = None] ELSE @[p]]]

BugHarvested(sym, v) ==
  IF v \in Versions \ (Unsearched \cup Garbled) THEN [sym EXCEPT !.references = @ \cup Uses[v]] ELSE sym

\* Names of one file more, or the flag that says some are missing; a file that
\* is gone or does not read as text is passed over without the flag.
Harvested(sym, v) ==
  CASE v = Absent -> sym
    [] v \in Unsearched -> [sym EXCEPT !.truncated = TRUE]
    [] v \in Garbled \ Unsearched -> sym
    [] OTHER -> LET seen == sym.references \cup Uses[v]
                IN  [sym EXCEPT !.references = seen,
                                !.truncated = @ \/ Cardinality(seen) >= MAX_REFERENCES]

ReferencedSymbols(p) ==
  /\ Looks("references")
  /\ IsNext(p)
  /\ scan' = [scan EXCEPT !.left = @ \ {p}, !.symbols = Harvested(@, tree[p].work)]

Scanned ==
  /\ Looks("references")
  /\ scan.left = {}
  /\ scan' = [scan EXCEPT !.phase = "publish"]

BugCurrent(entries) ==
  \A p \in Paths : entries[p].kind = stored.entries[p].kind
                     /\ entries[p].ranges = stored.entries[p].ranges

\* footprint_is_current: nothing to write, as the footprint rows have it.
Current(entries) == stored.entries = entries

\* write_footprint_rows: an incomplete set of names is stored as its flag alone.
Publish ==
  /\ scan.phase = "publish"
  /\ stored' = IF Current(scan.entries) THEN stored
               ELSE [entries |-> scan.entries,
                     symbols |-> IF scan.symbols.truncated
                                 THEN [scan.symbols EXCEPT !.references = {}]
                                 ELSE scan.symbols]
  /\ scan' = NoScan
  /\ steady' = Paths
  /\ UNCHANGED <<tree, whole, probed, edits>>

\* No git, no base branch, a git command that fails, a busy database.
Fail ==
  /\ scan.phase # "idle"
  /\ scan' = NoScan
  /\ steady' = Paths
  /\ UNCHANGED <<tree, whole, probed, edits, stored>>

Edits ==
  \/ \E p \in Paths : \E v \in Choices[p] : Write(p, v) \/ Stage(p, v)
  \/ Commit
  \/ \E S, P \in SUBSET Attributed : SetAttributes(S, P)

Step ==
  \/ Begin \/ Diff \/ StatusOnlyChanges \/ NothingChanged \/ Scanned \/ Publish
  \/ \E p \in Paths : FingerprintOf(p) \/ ReferencedSymbols(p)
  \/ \E answered \in Answers : WithholdUnmergeableRegions(answered)

Next == Edits \/ Step \/ Fail

Spec == Init /\ [][Next]_vars

(***************************************************************************)
(* A watched checkout is scanned again and again, and no step of a scan    *)
(* fails every time.                                                       *)
(***************************************************************************)
Watched ==
  /\ WF_vars(Begin)
  /\ SF_vars(Diff) /\ SF_vars(StatusOnlyChanges)
  /\ \A p \in Paths : SF_vars(FingerprintOf(p)) /\ SF_vars(ReferencedSymbols(p))
  /\ SF_vars(NothingChanged) /\ SF_vars(Scanned) /\ SF_vars(Publish)
  /\ SF_vars(\E answered \in Answers : WithholdUnmergeableRegions(answered))

FairSpec == Spec /\ Watched

-----------------------------------------------------------------------------
(***************************************************************************)
(* Properties                                                              *)
(***************************************************************************)

\* A footprint row says of each path no more than what the checkout holds.
Changed(p) == {Base[p], tree[p].head, tree[p].index, tree[p].work} # {Base[p]}

RowIsTrue(p, row) ==
  /\ row.kind # Unnamed <=> Changed(p)
  /\ row.kind = Deleted => Absent \in {tree[p].work, tree[p].index}
  /\ row.kind \notin {Unnamed, Deleted} =>
       /\ tree[p].work # Absent
       /\ row.digest = IF tree[p].work \in Unreadable THEN None ELSE Some(tree[p].work)
  /\ row.ranges # None =>
       /\ p \notin whole \cap probed /\ tree[p].work \notin Binary \cup Unreadable
       /\ row.ranges = Some(Span[tree[p].work])

(***************************************************************************)
(* However a scan is torn by edits, it sees every path that was left alone *)
(* as it is: none is missed between the diff and the status ("a path in no *)
(* footprint contests nothing", read_diff), and none has a region where an *)
(* attribute file it looks for takes the line merge away.  A rule that is  *)
(* only in a file it does not look for is a known limit of                 *)
(* attributes_reachable: the regions stay.                                 *)
(***************************************************************************)
SteadyPathsAreSeen ==
  scan.phase = "publish" => \A p \in steady : RowIsTrue(p, scan.entries[p])

\* Changed files the checkout would still have after a commit; what is only
\* left over of a file taken out of the index is not one.
LiveFiles ==
  {p \in Paths : /\ Changed(p) /\ tree[p].work # Absent
                 /\ tree[p].index = Absent => {Base[p], tree[p].head} = {Absent}}

UsesIn(S) == UNION {Uses[tree[p].work] : p \in S}

Legible(p) == tree[p].work \notin Garbled \ Unsearched

SymbolsAreTrue(sym) ==
  /\ sym.removed = WithdrawnExports
  /\ ~sym.truncated => sym.references = UsesIn({p \in LiveFiles : Legible(p)})

(***************************************************************************)
(* A scan of a checkout at rest knows every export it withdrew and every   *)
(* name its changed files lean on that read as text, or says that it does  *)
(* not (the cap on names errs towards matching everything,                 *)
(* SymbolFootprint.truncated).                                             *)
(***************************************************************************)
CalmScanKnowsSymbols ==
  scan.phase = "publish" /\ steady = Paths => SymbolsAreTrue(scan.symbols)

\* Nobody changes the checkout any more.
Quiet == <>[][UNCHANGED <<tree, whole, probed>>]_vars

(***************************************************************************)
(* Once the checkout rests, the stored footprint rows come to say what it  *)
(* holds and stay so: a scan torn by the last edit is corrected by a later *)
(* one, although footprint_is_current skips what looks unchanged.          *)
(***************************************************************************)
RowsSettle == Quiet => <>[](\A p \in Paths : RowIsTrue(p, stored.entries[p]))

(***************************************************************************)
(* store.rs says footprint_is_current tells "whether this scan says        *)
(* anything the stored footprint does not already say"; were it so, the    *)
(* stored symbols would settle as the rows do.                             *)
(***************************************************************************)
SymbolsSettle == Quiet => <>[]SymbolsAreTrue(stored.symbols)
=============================================================================
