---------------------------- MODULE MCConvergence ----------------------------
(***************************************************************************)
(* Convergence for TLC: edits of two overlapping regions, and a deletion.  *)
(***************************************************************************)
EXTENDS Convergence

Region(first, last) == Some({[first |-> first, last |-> last]})

Top    == [kind |-> Edited, digest |-> Some("head"), ranges |-> Region(1, 2)]
Middle == [kind |-> Edited, digest |-> Some("neck"), ranges |-> Region(2, 3)]
Gone   == [kind |-> Deleted, digest |-> None, ranges |-> None]

OneChange  == {Gone}
TwoChanges == {Top, Middle}

(***************************************************************************)
(* One scan at a time, as an action constraint: the safety run spends      *)
(* its states on who shares a checkout, on ages of rows and on endings.    *)
(* Scans that overtake each other are left to SpecWatched.                 *)
(***************************************************************************)
OneScan == Cardinality({j \in Jobs : jobs'[j].phase # "idle"}) <= 1

Symmetry == Permutations(Checkouts)
=============================================================================
