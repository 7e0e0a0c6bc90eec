---------------------------- MODULE LeaseService ----------------------------
(***************************************************************************)
(* What the claims table and the resource_leases table each promise to an  *)
(* agent, with time, rows and requests in flight left out: an agent gets   *)
(* all the things it asks for at once, never one that conflicts with what  *)
(* another agent holds, and what it holds it can lose at any moment (a     *)
(* lease lapses, a session stops) but never directly to a competitor.      *)
(***************************************************************************)
CONSTANTS
  Holders,     \* agents
  Things,      \* task keys, or resource keys
  Conflicts    \* the pairs of Things that two agents may not hold together

VARIABLE held  \* what each agent holds now

Init == held = [a \in Holders |-> {}]

Free(a, S) ==
  \A b \in Holders \ {a} : \A s \in S, t \in held[b] : <<s, t>> \notin Conflicts

Acquire(a, S) ==
  /\ Free(a, S)
  /\ held' = [held EXCEPT ![a] = @ \cup S]

Lapse ==
  /\ held' \in [Holders -> SUBSET Things]
  /\ \A a \in Holders : held'[a] \subseteq held[a]

Next == Lapse \/ \E a \in Holders, S \in SUBSET Things : Acquire(a, S)

Spec == Init /\ [][Next]_held
=============================================================================
