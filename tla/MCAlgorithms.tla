---------------------------- MODULE MCAlgorithms ----------------------------
(***************************************************************************)
(* The pure parts of the program, each over its own bounded inputs: one    *)
(* state per input, and only one of the four is asked in a behaviour; and  *)
(* beside them, in behaviours of their own, the tables that stand on the   *)
(* first of them (MCLeases).                                               *)
(***************************************************************************)
EXTENDS MCLeases, MCResourceKeys, MCDiffReader, MCSeverity, MCSweepReport

\* One name begins another, and a text of each begins two paths that part.
FileNames == {<<"s">>, <<"s", "t">>, <<"t">>}

\* Changes of at most two hunks, each of at most one line a side; what a line
\* exports is told apart in changes of one hunk, and one hunk at most is illegible.
AtMostOne(S) == {<< >>} \cup {<<x>> : x \in S}

SmallLines == {[reads |-> "header", exports |-> {}]}
                \cup [reads : {"plain"}, exports : {{}} \cup {{f} : f \in Symbols}]

HunksAt(start) ==
  {h \in [start : {start}, minus : AtMostOne(SmallLines), plus : AtMostOne(SmallLines),
          legible : BOOLEAN] : h.minus # << >> \/ h.plus # << >>}

Mute(start) ==
  {h \in HunksAt(start) :
     \A text \in ToSet(h.minus) \cup ToSet(h.plus) : text.exports = {}}

Later == {h \in Mute(7) : h.plus = << >>}

Rewrites ==
  {<<h>> : h \in HunksAt(3)}
    \cup UNION {{<<h, k>> : k \in {l \in Later : h.legible \/ l.legible}} : h \in Mute(3)}

SmallForms ==
  [as : {"clean", "opaque_edit", "opaque_deleted", "opaque_added"}, hunks : {<< >>}]
    \cup [as : {Edited}, hunks : Rewrites]
    \cup [as : {Deleted}, hunks : {<<h>> : h \in {g \in HunksAt(1) : g.plus = << >>}}]
    \cup [as : {Added}, hunks : {<<h>> : h \in {g \in HunksAt(0) : g.minus = << >>}}]

\* A third edit joins edits of one hunk only; it is of one hunk itself.
FewHunks ==
  Len(sides) >= 2 => \A i \in DOMAIN sides : Cardinality(sides[i].hunks) <= 1

inputs == <<pair, change, sides, sweep>>

InitInputs == InitPair /\ InitChange /\ InitSides /\ InitSweep

NextInputs ==
  \/ /\ change = << >> /\ sides = << >> /\ sweep = {}
     /\ AskPair   /\ UNCHANGED <<change, sides, sweep>>
  \/ /\ pair = << >> /\ sides = << >> /\ sweep = {}
     /\ change' \in [Paths -> SmallForms] /\ AskChange /\ UNCHANGED <<pair, sides, sweep>>
  \/ /\ pair = << >> /\ change = << >> /\ sweep = {}
     /\ FewHunks /\ Contest /\ UNCHANGED <<pair, change, sweep>>
  \/ /\ pair = << >> /\ change = << >> /\ sides = << >>
     /\ AskSweep  /\ UNCHANGED <<pair, change, sides>>

\* Inputs are asked for while the tables are empty.
InitWithTables ==
  /\ InitInputs
  /\ MCInit \/ (half = "inputs" /\ Init /\ alive = Pids)

NextWithTables ==
  \/ half = "inputs" /\ NextInputs /\ UNCHANGED <<half, vars>>
  \/ MCNext /\ UNCHANGED inputs

SpecWithTables == InitWithTables /\ [][NextWithTables]_<<half, vars, inputs>>
=============================================================================
