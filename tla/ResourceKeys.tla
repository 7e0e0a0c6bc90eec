---------------------------- MODULE ResourceKeys ----------------------------
(***************************************************************************)
(* How a reservation request becomes the keys of resource_leases rows, and *)
(* when two keys conflict: normalize_resources, normalize_resource_path    *)
(* and the SQL of resource_conflicts (src/src/store.rs).  A raw path is    *)
(* its list of '/'-separated parts; a part is a sequence of characters,    *)
(* because the stored key is one joined string and the conflict test is a  *)
(* string test: whether "src" takes "src2" with it depends on the joint.   *)
(***************************************************************************)
EXTENDS Integers, SequencesExt

Slash     == "/"
CurDir    == <<".">>
ParentDir == <<".", ".">>

\* Path::components drops empty parts, the loop drops the CurDir ones.
Kept(parts) ==
  LET Keep(acc, p) == IF p \in {<< >>, CurDir} THEN acc ELSE Append(acc, p)
  IN  FoldLeft(Keep, << >>, parts)

\* The refusals of normalize_resource_path: a root, a '..', or nothing left.
RefusesPath(raw) ==
  \/ raw.absolute
  \/ ParentDir \in ToSet(raw.parts)
  \/ Kept(raw.parts) = << >>

\* parts.join("/")
Joined(parts) ==
  LET Join(acc, p) == IF acc = << >> THEN p ELSE acc \o <<Slash>> \o p
  IN  FoldLeft(Join, << >>, parts)

BugPathKey(raw) == Joined(raw.parts)

\* normalize_resource_path, for a path it does not refuse.
PathKey(raw) == Joined(Kept(raw.parts))

BugUnder(dir, key) == IsPrefix(dir, key)

\* instr(key, dir || '/') = 1
Under(dir, key) == IsPrefix(dir \o <<Slash>>, key)

(***************************************************************************)
(* resource_conflicts: a path conflicts with itself, with what lies under  *)
(* it and with what it lies under; any other kind only with itself.        *)
(***************************************************************************)
Overlaps(r, s) ==
  /\ r.kind = s.kind
  /\ \/ r.key = s.key
     \/ r.kind = "path" /\ (Under(r.key, s.key) \/ Under(s.key, r.key))
=============================================================================
