--------------------------- MODULE MCResourceKeys ---------------------------
(***************************************************************************)
(* The key functions of ResourceKeys against what a path means, over every *)
(* pair of raw paths built from a few parts.                               *)
(***************************************************************************)
EXTENDS ResourceKeys, FiniteSets

CONSTANTS
  Letters,    \* the characters a name is written in
  Names,      \* the names of files and directories
  MaxParts    \* bound: parts in a raw path

\* A name is text without a slash, and not one of the two dotted parts.
ASSUME PartsAssumption ==
  /\ MaxParts \in Nat
  /\ Slash \notin Letters
  /\ \A name \in Names : name \in Seq(Letters) \ {<< >>, CurDir, ParentDir}
  /\ \E p, q \in Names : p # q

VARIABLE pair       \* the two raw paths under test, or << >> before any

Parts == Names \cup {<< >>, CurDir, ParentDir}

RawPaths == [absolute : BOOLEAN, parts : BoundedSeq(Parts, MaxParts)]

InitPair == pair = << >>

AskPair ==
  /\ pair = << >>
  /\ \E p, q \in RawPaths : pair' = <<p, q>>

SpecPair == InitPair /\ [][AskPair]_pair

(***************************************************************************)
(* The reference: a path names the subtree of files below it, files being  *)
(* component lists one deeper than any path in the test.                   *)
(***************************************************************************)
Files == [1 .. MaxParts + 1 -> Names]

\* How deep in the tree the i-th part of a path leads: dots lead nowhere.
Depth(parts, i) == Cardinality({k \in 1..i : parts[k] \in Names})

Covers(raw) ==
  {f \in Files : \A i \in DOMAIN raw.parts :
                   raw.parts[i] \in Names => f[Depth(raw.parts, i)] = raw.parts[i]}

Accepted == pair # << >> /\ ~RefusesPath(pair[1]) /\ ~RefusesPath(pair[2])

AsResource(raw) == [kind |-> "path", key |-> PathKey(raw)]

(***************************************************************************)
(* Two accepted paths conflict exactly when some file lies below both:     *)
(* "path:src" takes "path:src/store.rs" with it and never "path:src2"      *)
(* (docs/protocol.md), whatever dots and doubled slashes were typed.       *)
(***************************************************************************)
ConflictIsSharedFile ==
  Accepted =>
    (Overlaps(AsResource(pair[1]), AsResource(pair[2]))
       <=> Covers(pair[1]) \cap Covers(pair[2]) # {})

(***************************************************************************)
(* Two accepted paths get the same row key exactly when they name the same *)
(* subtree: no two spellings of a path escape each other's primary key and *)
(* no two different paths share one.                                       *)
(***************************************************************************)
KeyIsIdentity ==
  Accepted =>
    (PathKey(pair[1]) = PathKey(pair[2]) <=> Covers(pair[1]) = Covers(pair[2]))
=============================================================================
