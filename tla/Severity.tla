------------------------------ MODULE Severity ------------------------------
(***************************************************************************)
(* How one contested path is judged: hunk_header, classify,                *)
(* disjoint_regions and regions_touch (src/src/converge.rs).  A            *)
(* participant is what its footprint row says: how the path changed, the   *)
(* digest of its content and the regions of the base file it rewrote.      *)
(* Line numbers stay far below u32, so saturation is left out.             *)
(***************************************************************************)
EXTENDS Integers, Sequences

Deleted == "deleted"   \* ChangeKind; every other kind is an edit here
Edited  == "modified"

\* An Option<T> column is the set of the at most one value it holds.
None    == {}
Some(x) == {x}

REQUIRED_GAP == 1

\* The base lines a hunk header stands for; a pure insertion is its boundary line.
HunkSpan(start, removed) ==
  [first |-> start, last |-> IF removed = 0 THEN start ELSE start + removed - 1]

BugRegionsTouch(l, r) == l.first <= r.last /\ r.first <= l.last

BugWideTouch(l, r) == l.first <= r.last + 2 /\ r.first <= l.last + 2

RegionsTouch(l, r) ==
  /\ l.first <= r.last + REQUIRED_GAP
  /\ r.first <= l.last + REQUIRED_GAP

\* Proven separable: every region known and no two of them touch.
DisjointRegions(ps) ==
  /\ \A i \in DOMAIN ps : ps[i].ranges # None
  /\ \A i, j \in DOMAIN ps :
       i < j => ~ \E l \in UNION ps[i].ranges, r \in UNION ps[j].ranges : RegionsTouch(l, r)

SameContent(ps) ==
  /\ ps[1].digest # None
  /\ \A i \in DOMAIN ps : ps[i].digest = ps[1].digest

Severities == {"delete_edit", "divergent", "adjacent", "identical"}

BugClassify(ps) ==
  LET Deleting(p) == p.kind = Deleted
  IN  IF Deleting(ps[1]) THEN "identical"
      ELSE IF SameContent(ps) THEN "identical"
      ELSE IF DisjointRegions(ps) THEN "adjacent"
      ELSE "divergent"

\* classify, over the participants of one path in agent_id order.
Classify(ps) ==
  LET deleting == \E i \in DOMAIN ps : ps[i].kind = Deleted
      editing  == \E i \in DOMAIN ps : ps[i].kind # Deleted
  IN  CASE deleting /\ editing                      -> "delete_edit"
        [] deleting /\ ~editing                     -> "identical"
        [] ~deleting /\ SameContent(ps)             -> "identical"
        [] ~deleting /\ ~SameContent(ps) /\ DisjointRegions(ps) -> "adjacent"
        [] OTHER                                    -> "divergent"

\* The two severities merge_readiness lets pass.
Benign(severity) == severity \in {"identical", "adjacent"}
=============================================================================
