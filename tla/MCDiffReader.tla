---------------------------- MODULE MCDiffReader ----------------------------
(***************************************************************************)
(* DiffReader against the change a diff describes: any change is rendered  *)
(* the way git renders it and read back.                                   *)
(***************************************************************************)
EXTENDS DiffReader

VARIABLE change   \* what the checkout holds against its base, or << >>

(***************************************************************************)
(* A line of text: what it reads as once git has put a marker before it    *)
(* ("-- a/p" deleted reads as an old-side header), and what it exports.    *)
(***************************************************************************)
TextLines == [reads : {"plain", "header"}, exports : SUBSET Symbols]

\* legible: git's header is well formed, which the parser does not take for granted.
TextHunks ==
  {h \in [start : Nat, minus : Seq(TextLines), plus : Seq(TextLines), legible : BOOLEAN] :
     h.minus # << >> \/ h.plus # << >>}

\* as: what became of the path.  An opaque change has no text diff.
Forms ==
  [as : {"clean", "opaque_edit", "opaque_deleted", "opaque_added"}, hunks : {<< >>}]
    \cup {f \in [as : {Edited, Deleted, Added}, hunks : Seq(TextHunks) \ {<< >>}] :
            \A i \in DOMAIN f.hunks :
              /\ f.as = Deleted => f.hunks[i].plus = << >>
              /\ f.as = Added => f.hunks[i].minus = << >>}

InitChange == change = << >>

AskChange ==
  /\ change = << >>
  /\ change' \in [Paths -> Forms]

SpecChange == InitChange /\ [][AskChange]_change

-----------------------------------------------------------------------------
(***************************************************************************)
(* What git prints.                                                        *)
(***************************************************************************)
Plain == [reads |-> "plain", path |-> {}, hunk |-> {}, sign |-> "", exports |-> {}]

Note == [Plain EXCEPT !.reads = "note"]

Marked(sign, text) ==
  [Plain EXCEPT !.sign = sign, !.exports = text.exports,
                !.reads = IF text.reads = "plain" THEN "plain"
                          ELSE IF sign = "-" THEN "old" ELSE "new"]

Marks(sign, texts) == [i \in DOMAIN texts |-> Marked(sign, texts[i])]

Rendered(h) ==
  <<[Plain EXCEPT !.reads = "hunk",
       !.hunk = IF h.legible
                THEN {[start |-> h.start, removed |-> Len(h.minus), added |-> Len(h.plus)]}
                ELSE {}]>>
    \o Marks("-", h.minus) \o <<Note>> \o Marks("+", h.plus)

Header(p, form) ==
  <<[Plain EXCEPT !.reads = "old", !.path = IF form.as = Added THEN {} ELSE {p}],
    [Plain EXCEPT !.reads = "new", !.path = IF form.as = Deleted THEN {} ELSE {p}]>>

Entry(p, form) ==
  IF form.as = "clean" THEN << >>
  ELSE <<[Plain EXCEPT !.reads = "diff"], Plain>>
         \o (IF form.hunks = << >> THEN << >> ELSE Header(p, form))
         \o FlattenSeq([i \in DOMAIN form.hunks |-> Rendered(form.hunks[i])])

InOrder == SetToSeq(Paths)

Diff == FlattenSeq([i \in DOMAIN InOrder |-> Entry(InOrder[i], change[InOrder[i]])])

\* git diff --name-status
ByName ==
  [p \in Paths |-> CASE change[p].as = "clean"                      -> Unnamed
                     [] change[p].as \in {"opaque_edit", Edited}    -> Edited
                     [] change[p].as \in {"opaque_deleted", Deleted} -> Deleted
                     [] OTHER                                       -> Added]

Summary == ReadDiff(Diff, ByName)

-----------------------------------------------------------------------------
Legible == \A p \in Paths : \A i \in DOMAIN change[p].hunks : change[p].hunks[i].legible

Spans(form) ==
  IF form.as = Added THEN << >>
  ELSE [i \in DOMAIN form.hunks |-> HunkSpan(form.hunks[i].start, Len(form.hunks[i].minus))]

Declared(p, side) ==
  UNION {UNION {h.exports : h \in ToSet(IF side = "-" THEN change[p].hunks[i].minus
                                                      ELSE change[p].hunks[i].plus)} :
           i \in DOMAIN change[p].hunks}

Withdrawn ==
  {r \in Symbols \X Sources :
     /\ r[1] \in Declared(r[2], "-")
     /\ \A p \in Sources : r[1] \notin Declared(p, "+")}

(***************************************************************************)
(* What git printed is read back as it is: every changed path with its     *)
(* kind, every rewritten region, every withdrawn export, and nothing more, *)
(* whatever the changed lines look like (read_diff: a region that is lost  *)
(* turns a conflict into "adjacent").                                      *)
(***************************************************************************)
DiffIsReadWhole ==
  change # << >> /\ Legible =>
    Summary = [kinds   |-> ByName,
               regions |-> [p \in Paths |-> Spans(change[p])],
               removed |-> Withdrawn]

(***************************************************************************)
(* A diff that stops making sense halfway costs precision, never a path    *)
(* and never half a list of regions (the comments on `desynced`): every    *)
(* changed path is still in the footprint, as overlapping whatever it      *)
(* meets.                                                                  *)
(***************************************************************************)
DesyncIsConservative ==
  change # << >> /\ ~Legible =>
    LET s == Summary
    IN  s.kinds = ByName /\ \A p \in Paths : s.regions[p] = << >>
=============================================================================
