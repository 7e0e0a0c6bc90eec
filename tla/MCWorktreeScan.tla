--------------------------- MODULE MCWorktreeScan ---------------------------
(***************************************************************************)
(* Two files for TLC: old is in the base commit and exports f, new is not. *)
(***************************************************************************)
EXTENDS WorktreeScan

CONSTANTS old, new, base, trimmed, other, extra, latin

\* trimmed withdraws f, other keeps it; both rewrite the same region.
OldAndNew    == [p \in {old, new} |-> IF p = old THEN {base, trimmed, other, Absent}
                                      ELSE {extra, latin, Absent}]
OldIsBase    == [p \in {old, new} |-> IF p = old THEN base ELSE Absent]
OldOnly      == [p \in {old} |-> {base, trimmed, other}]
OldOnlyBase  == [p \in {old} |-> base]

OneRegion    == [v \in Versions |-> "1-2"]
FInBase      == [v \in Versions |-> IF v \in {base, other} THEN {"f"} ELSE {}]
ExtraUsesF   == [v \in Versions |-> IF v \in {extra, latin} THEN {"f", "g"} ELSE {"g"}]
=============================================================================
