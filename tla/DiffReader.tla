----------------------------- MODULE DiffReader -----------------------------
(***************************************************************************)
(* How one `git diff --unified=0` is read: read_diff, harvest and          *)
(* opaque_changes (src/src/converge.rs).  A line is what it would be read  *)
(* as between two hunks, with what that reading yields; a line of a hunk   *)
(* body also has its marker and the export its text declares.  A deleted   *)
(* `-- a/p` is such a body line that reads as an old-side header.          *)
(***************************************************************************)
EXTENDS SequencesExt, Severity

CONSTANTS
  Paths,     \* repository paths
  Sources,   \* the paths is_source says hold code
  Symbols    \* names a declaration may export

ASSUME DiffReaderAssumption == Sources \subseteq Paths /\ IsFiniteSet(Paths)

Added == "added"

\* No entry in the map of kinds.
Unnamed == "unnamed"

Line == [reads : {"diff", "old", "new", "hunk", "note", "plain"},
         path : SUBSET Paths,     \* at most one: /dev/null names none
         hunk : SUBSET [start : Nat, removed : Nat, added : Nat],  \* none: malformed
         sign : {"-", "+", ""}, exports : SUBSET Symbols]

\* The parser's locals, before the first line.
Unread ==
  [current   |-> None,    pending  |-> None,
   kinds     |-> [p \in Paths |-> Unnamed],
   regions   |-> [p \in Paths |-> << >>],
   removed   |-> {},      added    |-> {},
   body      |-> 0,       desynced |-> FALSE,  announced |-> 0]

\* harvest: only lines of source files declare anything.
Harvest(s, line) ==
  LET path == IF s.current # None THEN s.current ELSE s.pending
      code == line.exports # {} /\ path # None /\ path \subseteq Sources
  IN  CASE code /\ line.sign = "-" -> [s EXCEPT !.removed = @ \cup (line.exports \X path)]
        [] code /\ line.sign = "+" -> [s EXCEPT !.added = @ \cup line.exports]
        [] OTHER                   -> s

\* A body line, owed to the hunk; the note on a missing newline is not.
ReadBody(s, line) ==
  IF line.reads = "note" THEN s ELSE Harvest([s EXCEPT !.body = @ - 1], line)

\* The pair of headers is what names the change.
Name(s, target) ==
  CASE s.current = None /\ target # None ->
         [s EXCEPT !.kinds = [p \in Paths |-> IF p \in target THEN Added ELSE @[p]],
                   !.pending = target]
    [] s.current # None ->
         [s EXCEPT !.kinds = [p \in Paths |-> IF p \notin s.current THEN @[p]
                                              ELSE IF target = None THEN Deleted ELSE Edited]]
    [] OTHER -> s

OpenHunk(s, hunk) ==
  [s EXCEPT !.body = hunk.removed + hunk.added,
            !.regions = [p \in Paths |->
               IF p \in s.current THEN Append(@[p], HunkSpan(hunk.start, hunk.removed))
               ELSE @[p]]]

\* A line between two hunks.
ReadHeader(s, line) ==
  CASE line.reads = "diff" ->
         [s EXCEPT !.announced = @ + 1, !.current = None, !.pending = None]
    [] line.reads = "old"  -> [s EXCEPT !.current = line.path, !.pending = None]
    [] line.reads = "new"  -> Name(s, line.path)
    [] line.reads = "hunk" ->
         IF line.hunk = {} THEN [s EXCEPT !.desynced = TRUE]
         ELSE OpenHunk(s, CHOOSE h \in line.hunk : TRUE)
    [] OTHER -> s

BugReadLine(s, line) ==
  IF s.desynced THEN s
  ELSE IF s.body > 0 /\ line.reads = "plain" THEN ReadBody(s, line)
  ELSE ReadHeader(s, line)

\* One turn of the loop, left for good once a header made no sense.
ReadLine(s, line) ==
  IF s.desynced THEN s
  ELSE IF s.body > 0 THEN ReadBody(s, line)
  ELSE ReadHeader(s, line)

NamedPaths(kinds) == {p \in Paths : kinds[p] # Unnamed}

BugShort(s) == s.announced > Cardinality(NamedPaths(s.kinds))

\* Paths may be missing: a parser that gave up has stopped counting as well.
Short(s) == s.desynced \/ s.announced > Cardinality(NamedPaths(s.kinds))

(***************************************************************************)
(* What read_diff returns: an export that comes back anywhere in the diff  *)
(* was not withdrawn, a parser that lost its place reports no region, and  *)
(* paths it left unnamed are asked for by name (byName, opaque_changes).   *)
(***************************************************************************)
Summarise(s, byName) ==
  [kinds   |-> [p \in Paths |-> IF Short(s) /\ s.kinds[p] = Unnamed THEN byName[p]
                                ELSE s.kinds[p]],
   regions |-> IF s.desynced THEN [p \in Paths |-> << >>] ELSE s.regions,
   removed |-> {r \in s.removed : r[1] \notin s.added}]

ReadDiff(lines, byName) == Summarise(FoldLeft(ReadLine, Unread, lines), byName)
=============================================================================
