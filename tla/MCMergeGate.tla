----------------------------- MODULE MCMergeGate -----------------------------
(***************************************************************************)
(* The merge gate for TLC: session 1 asks among peers 2 and 3, of which 3  *)
(* withdraws and uses names that sort first; it shares its checkout with   *)
(* session 4; or sessions 1 and 2 race to merge.                           *)
(***************************************************************************)
EXTENDS MergeGate

OneAndFour == [a \in Agents |-> IF a = 4 THEN 1 ELSE a]

OneFile == [r \in Regions |-> "f"]

Editing == [Nothing EXCEPT !.edits = {"r"}]

Elsewhere == [Nothing EXCEPT !.edits = {"s"}]

Withdrawing == [Nothing EXCEPT !.removed = {1, 2}]

MCWork == <<{Nothing, Editing, Withdrawing},
            {[Editing EXCEPT !.uses = {2}], [Nothing EXCEPT !.truncated = TRUE]},
            {[Nothing EXCEPT !.uses = {1}, !.removed = {2}]},
            {Nothing, Elsewhere}>>

\* Work that stands in nobody's way.
Apart == <<Withdrawing, Editing>>

VARIABLE subject   \* what a behaviour is about

Asks(a) ==
  Ask(a) \/ LookAtBase(a) \/ LookAtPaths(a) \/ LookAtSymbols(a) \/ LookAtLease(a)

\* A session that does not ask while it merges, and rebases before it asks.
Merges(a) ==
  \/ Acquire(a) \/ (Asks(a) /\ ask[a].phase \notin {"done", "merging"})
  \/ BeginMerge(a) \/ Land(a)
  \/ ask[a].phase = "none" /\ rows[a].base # head /\ Publish(a, Apart[a], head, 0)

\* The statements of one verdict.
NextVerdicts ==
  \/ \E a \in {1, 2, 3} : \E w \in Work[a] : Publish(a, w, head, 0)
  \/ \E a \in {2, 3} : StopAgent(a)
  \/ Heartbeat(2)
  \/ Asks(1)
  \/ Acquire(2) \/ Release(2) \/ Tick

\* The same of a session that need not speak for its checkout.
NextShared ==
  \/ Publish(1, Editing, head, clock)
  \/ \E w \in Work[4] : Publish(4, w, head, clock)
  \/ \E w \in {Editing, Elsewhere} : Publish(2, w, head, clock)
  \/ Asks(1)
  \/ Bury(2) \/ Heartbeat(2) \/ Tick

NextRaces ==
  \/ Merges(1) \/ Merges(2)
  \/ Release(1) \/ Bury(1)
  \/ strays = 0 /\ Approve
  \/ clock = 0 /\ Tick

MCInit == subject \in {"verdicts", "shared", "races"} /\ Init

MCNext ==
  /\ subject' = subject
  /\ \/ subject = "verdicts" /\ NextVerdicts
     \/ subject = "shared" /\ NextShared
     \/ subject = "races" /\ NextRaces

MCSpec == MCInit /\ [][MCNext]_<<subject, vars>>
=============================================================================
