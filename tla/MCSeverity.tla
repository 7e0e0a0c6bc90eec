----------------------------- MODULE MCSeverity -----------------------------
(***************************************************************************)
(* The severity of a path against what git does with it: checkouts hold    *)
(* real edits of one base file, a scan observes them the way scan_worktree *)
(* does, and the verdict is compared with the three-way merge.             *)
(***************************************************************************)
EXTENDS Severity, FiniteSetsExt

CONSTANTS
  Lines,     \* bound: lines of the base file
  MaxHunks,  \* bound: hunks in one edit
  Voices     \* bound: how many checkouts contest the path, of which the
             \* third and later ones hold a single hunk

ASSUME SidesAssumption == Lines \in Nat /\ MaxHunks \in Nat /\ Voices \in Nat

VARIABLE sides   \* what the checkouts hold, or << >> before any

(***************************************************************************)
(* Ground truth.  A hunk replaces the lines start .. start+removed-1, or   *)
(* inserts after line start when removed is 0.  Between two lines there is *)
(* a seam; a rewrite takes its lines and the seams around them, so two     *)
(* hunks that share neither a line nor a seam have an unchanged line       *)
(* between them, which is what keeps git's merge clean.                    *)
(***************************************************************************)
Hunks ==
  {h \in [start : 0..Lines, removed : 0..Lines] :
     h.removed > 0 => h.start >= 1 /\ h.start + h.removed - 1 <= Lines}

Seam(g) == 2 * g + 1

Footing(h) ==
  IF h.removed = 0 THEN {Seam(h.start)}
  ELSE Seam(h.start - 1) .. Seam(h.start + h.removed - 1)

Clash(h, k) == Footing(h) \cap Footing(k) # {}

\* The hunks of one diff have unchanged lines between them.
Edits ==
  {E \in UNION {kSubset(n, Hunks) : n \in 1..MaxHunks} :
     \A h, k \in E : h # k => ~Clash(h, k)}

Texts == {"x", "y"}

Deletion == [deleted |-> TRUE, hunks |-> {}, text |-> "x", hashable |-> TRUE, lines |-> TRUE]

(***************************************************************************)
(* hashable: the content can be fingerprinted.  lines: git merges the path *)
(* line by line and the scan could establish it (neither binary nor        *)
(* -merge nor a header it could not read).                                 *)
(***************************************************************************)
Sides ==
  {Deletion} \cup
  [deleted : {FALSE}, hunks : Edits, text : Texts, hashable : BOOLEAN, lines : BOOLEAN]

Content(s) == <<s.hunks, s.text>>

\* What scan_worktree records: an unhashable path loses its regions as well.
Observed(s) ==
  [kind   |-> IF s.deleted THEN Deleted ELSE Edited,
   digest |-> IF s.deleted \/ ~s.hashable THEN None ELSE Some(Content(s)),
   ranges |-> IF s.deleted \/ ~s.hashable \/ ~s.lines THEN None
              ELSE Some({HunkSpan(h.start, h.removed) : h \in s.hunks})]

MergesCleanly(s, t) ==
  \/ s.deleted /\ t.deleted
  \/ /\ ~s.deleted /\ ~t.deleted
     /\ \/ Content(s) = Content(t)
        \/ s.lines /\ t.lines /\ \A h \in s.hunks, k \in t.hunks : ~Clash(h, k)

InitSides == sides = << >>

\* Texts are only compared, so the first checkout may be taken to write "x".
Contest ==
  /\ Len(sides) < Voices
  /\ \E s \in Sides :
       /\ sides = << >> => s.text = "x"
       /\ Len(sides) >= 2 => Cardinality(s.hunks) <= 1
       /\ sides' = Append(sides, s)

SpecSides == InitSides /\ [][Contest]_sides

Contested == Len(sides) > 1

Whole == Classify([i \in DOMAIN sides |-> Observed(sides[i])])

Pair(i, j) == Classify(<<Observed(sides[i]), Observed(sides[j])>>)

(***************************************************************************)
(* The false safe the module exists to prevent (converge.rs): a path       *)
(* called identical or adjacent merges cleanly between every two of its    *)
(* checkouts, whatever could not be hashed or measured.                    *)
(***************************************************************************)
SafeMeansCleanMerge ==
  Contested /\ Benign(Whole) =>
    \A i, j \in DOMAIN sides : i # j => MergesCleanly(sides[i], sides[j])

(***************************************************************************)
(* The other direction, for what was fully observed: two rewrites of       *)
(* existing lines that git merges cleanly are never called a conflict.  An *)
(* insertion may be: its boundary line stands for it.                      *)
(***************************************************************************)
Measured(s) == s.hashable /\ s.lines /\ \A h \in s.hunks : h.removed > 0

CleanRewritesPass ==
  Contested =>
    \A i, j \in DOMAIN sides :
      i < j /\ Measured(sides[i]) /\ Measured(sides[j]) /\ MergesCleanly(sides[i], sides[j])
        => Benign(Pair(i, j))

(***************************************************************************)
(* merge_readiness judges pairs, the report judges the path: a path        *)
(* reported benign blocks nobody, and a delete against an edit outranks    *)
(* every other finding at both.                                            *)
(***************************************************************************)
PathAndPairsAgree ==
  Contested =>
    /\ Benign(Whole) =>
         \A i, j \in DOMAIN sides : i # j => Benign(Pair(i, j))
    /\ Whole = "delete_edit" <=>
         \E i, j \in DOMAIN sides : i # j /\ Pair(i, j) = "delete_edit"
=============================================================================
