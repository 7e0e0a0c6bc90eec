------------------------------ MODULE MCLeases ------------------------------
(***************************************************************************)
(* Leases for TLC: a directory, a file in it, and a port.                  *)
(***************************************************************************)
EXTENDS Leases

Dir  == [kind |-> "path", key |-> <<"s">>]
File == [kind |-> "path", key |-> <<"s", Slash, "f">>]
Port == [kind |-> "port", key |-> <<"s">>]

NestedAndPort == {Dir, File, Port}

\* One resource, the two that overlap, and each of them with one that does not.
Requests == {{Dir}, {File}, {Dir, File}, {Dir, Port}, {File, Port}}

\* Which table a behaviour is about: both at once is a product of two independent halves.
VARIABLE half

InitClaims == half = "claims" /\ Init

(***************************************************************************)
(* Every session joined and its process alive from the start: the half     *)
(* about reservations spends its states on requests, expiry and deletion.  *)
(***************************************************************************)
InitReservations ==
  /\ half = "reservations"
  /\ clock = 0
  /\ alive = Pids
  /\ agents \in [Agents -> [status : {"running"}, pid : Pids, heartbeat : {0}]]
  /\ claims = [t \in Tasks |-> NoRow]
  /\ leases = [r \in Resources |-> NoRow]
  /\ calls = {}

NextClaims ==
  \/ Host
  \/ \E a \in Agents, p \in Pids : BeginRegister(a, p) \/ BeginUpdatePid(a, p)
  \/ \E a \in Agents : BeginHeartbeat(a)
  \/ \E a \in Agents, t \in Tasks : \E n \in LeaseLengths : BeginClaim(a, t, n)
  \/ BeginCollect
  \/ Commits
  \/ Direct

NextReservations ==
  \/ Tick
  \/ \E a \in Agents, S \in Requests : BeginReserve(a, S, 1)
  \/ BeginCollect
  \/ Commits
  \/ Direct

MCInit == InitClaims \/ InitReservations

MCNext ==
  /\ half' = half
  /\ \/ half = "claims" /\ NextClaims
     \/ half = "reservations" /\ NextReservations

MCSpec == MCInit /\ [][MCNext]_<<half, vars>>

Symmetry == Permutations(Agents) \cup Permutations(Tasks) \cup Permutations(Pids)
=============================================================================
