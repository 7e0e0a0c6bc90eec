------------------------------- MODULE Leases -------------------------------
(***************************************************************************)
(* Sessions, task claims and resource reservations: the rows of agents,    *)
(* claims and resource_leases (src/src/store.rs) and every operation of    *)
(* MeshStore that writes them.                                             *)
(*                                                                         *)
(* Each operation is one immediate SQLite transaction, so its effect is    *)
(* one step.  Most of them read the clock before they queue for the write  *)
(* lock, so an operation is a call that Begins with a timestamp and, any   *)
(* time later, commits with it, or fails (busy retries exhausted, process  *)
(* gone) and leaves no trace.  Operations that use no earlier timestamp    *)
(* are one step.  The event each of them appends is left to the event      *)
(* ledger; nothing here reads it.  All sessions are in one workspace: the  *)
(* workspace id is part of every key.                                      *)
(***************************************************************************)
EXTENDS Integers, FiniteSets, ResourceKeys

CONSTANTS
  Agents,          \* agent ids
  NoAgent,         \* the owner of a row that is not there
  Pids,            \* process ids of the operating system
  Tasks,           \* task keys, "pidmesh:integration" among them
  Resources,       \* normalised resource keys: [kind, key]
  LeaseLengths,    \* the lease_seconds a caller asks for
  StaleAfter,      \* collect_stale's stale_after
  AbandonedAfter,  \* ABANDONED_AFTER_MS
  MaxTime,         \* bound: the clock stops here
  MaxCalls         \* bound: calls between their clock read and their commit

ASSUME LeasesAssumption ==
  /\ NoAgent \notin Agents
  /\ LeaseLengths \subseteq Nat \ {0}
  /\ StaleAfter \in Nat
  /\ AbandonedAfter \in Nat
  /\ MaxTime \in Nat
  /\ MaxCalls \in Nat

VARIABLES
  clock,    \* the host's wall clock, the one every process reads
  alive,    \* the pids process_is_alive answers yes for
  agents,   \* the agents table
  claims,   \* the claims table, keyed by task
  leases,   \* the resource_leases table, keyed by resource
  calls     \* calls that have read the clock and have not committed

vars == <<clock, alive, agents, claims, leases, calls>>

(***************************************************************************)
(* Rows.  heartbeat_at, lease_expires_at and now are times on the clock.   *)
(***************************************************************************)
Status == {"absent", "running", "stopped", "dead"}

Session == [status : Status, pid : Pids, heartbeat : Nat]

Row == [owner : Agents \cup {NoAgent}, expires : Nat]

NoRow == [owner |-> NoAgent, expires |-> 0]

Present(row) == row.owner # NoAgent

\* A row a reader at this instant still honours.
Live(row) == Present(row) /\ row.expires > clock

RegisterCall  == [op : {"register"}, agent : Agents, now : Nat, pid : Pids]
HeartbeatCall == [op : {"heartbeat"}, agent : Agents, now : Nat]
PidCall       == [op : {"update_pid"}, agent : Agents, now : Nat, pid : Pids]
ClaimCall     == [op : {"claim"}, agent : Agents, now : Nat, task : Tasks,
                  lease : LeaseLengths]
ReserveCall   == [op : {"reserve"}, agent : Agents, now : Nat,
                  want : SUBSET Resources, lease : LeaseLengths]
CollectCall   == [op : {"collect"}, now : Nat]

Call == RegisterCall \cup HeartbeatCall \cup PidCall \cup ClaimCall
          \cup ReserveCall \cup CollectCall

Init ==
  /\ clock = 0
  /\ alive \in SUBSET Pids
  /\ agents \in [Agents -> [status : {"absent"}, pid : Pids, heartbeat : {0}]]
  /\ claims = [t \in Tasks |-> NoRow]
  /\ leases = [r \in Resources |-> NoRow]
  /\ calls = {}

(***************************************************************************)
(* A call reads the clock (now_ms()?) and goes to wait for the lock.       *)
(***************************************************************************)
Begin(call) ==
  /\ Cardinality(calls) < MaxCalls
  /\ calls' = calls \cup {call}
  /\ UNCHANGED <<clock, alive, agents, claims, leases>>

BeginRegister(a, p) ==
  /\ p \in alive
  /\ Begin([op |-> "register", agent |-> a, now |-> clock, pid |-> p])

BeginHeartbeat(a) ==
  Begin([op |-> "heartbeat", agent |-> a, now |-> clock])

BeginUpdatePid(a, p) ==
  Begin([op |-> "update_pid", agent |-> a, now |-> clock, pid |-> p])

BeginClaim(a, t, n) ==
  Begin([op |-> "claim", agent |-> a, now |-> clock, task |-> t, lease |-> n])

BeginReserve(a, S, n) ==
  /\ S # {}
  /\ Begin([op |-> "reserve", agent |-> a, now |-> clock, want |-> S, lease |-> n])

BeginCollect == Begin([op |-> "collect", now |-> clock])

\* Returns from the call; every commit and every failure ends with it.
Finish(call) == calls' = calls \ {call}

\* Eight busy attempts, a disk error, or the calling process dies.
Fail(call) ==
  /\ Finish(call)
  /\ UNCHANGED <<clock, alive, agents, claims, leases>>

Registered(a) == agents[a].status # "absent"

\* INSERT INTO agents: an id already there is a constraint error.
Register(call) ==
  /\ call.op = "register"
  /\ Finish(call)
  /\ agents' = IF Registered(call.agent) THEN agents
               ELSE [agents EXCEPT ![call.agent] =
                       [status |-> "running", pid |-> call.pid,
                        heartbeat |-> call.now]]
  /\ UNCHANGED <<clock, alive, claims, leases>>

\* UPDATE agents ... WHERE id = ?: whatever status the row has.
Heartbeat(call) ==
  /\ call.op = "heartbeat"
  /\ Finish(call)
  /\ agents' = IF ~Registered(call.agent) THEN agents
               ELSE [agents EXCEPT ![call.agent].status = "running",
                                   ![call.agent].heartbeat = call.now]
  /\ UNCHANGED <<clock, alive, claims, leases>>

UpdatePid(call) ==
  /\ call.op = "update_pid"
  /\ Finish(call)
  /\ agents' = IF ~Registered(call.agent) THEN agents
               ELSE [agents EXCEPT ![call.agent].pid = call.pid,
                                   ![call.agent].heartbeat = call.now]
  /\ UNCHANGED <<clock, alive, claims, leases>>

(***************************************************************************)
(* The table once a DELETE has taken the rows of these keys.               *)
(***************************************************************************)
Without(table, gone) ==
  [k \in DOMAIN table |-> IF k \in gone THEN NoRow ELSE table[k]]

StopAgent(a) ==
  /\ Registered(a)
  /\ agents' = [agents EXCEPT ![a].status = "stopped"]
  /\ claims' = Without(claims, {t \in Tasks : claims[t].owner = a})
  /\ leases' = Without(leases, {r \in Resources : leases[r].owner = a})
  /\ UNCHANGED <<clock, alive, calls>>

\* lease_expiry; its overflow refusal is beyond any clock reachable here.
Expiry(now, n) == now + n

BugLapsed(row, now) == row.expires <= now + 1

\* lease_expires_at <= now, as every DELETE and takeover has it.
Lapsed(row, now) == row.expires <= now

BugMayTake(row, a, now) == row.expires >= now

\* The WHERE of claim's upsert.
MayTake(row, a, now) ==
  \/ ~Present(row)
  \/ Lapsed(row, now)
  \/ row.owner = a

Claim(call) ==
  /\ call.op = "claim"
  /\ Finish(call)
  /\ claims' =
       IF Registered(call.agent) /\ MayTake(claims[call.task], call.agent, call.now)
       THEN [claims EXCEPT ![call.task] =
               [owner |-> call.agent, expires |-> Expiry(call.now, call.lease)]]
       ELSE claims
  /\ UNCHANGED <<clock, alive, agents, leases>>

Release(a, t) ==
  /\ claims[t].owner = a
  /\ claims' = [claims EXCEPT ![t] = NoRow]
  /\ UNCHANGED <<clock, alive, agents, leases, calls>>

BugConflicting(r, a, now, s) ==
  /\ leases[s].owner \notin {NoAgent, a}
  /\ leases[s].expires > now
  /\ r = s

\* A row resource_conflicts reports for resource r of agent a's request.
Conflicting(r, a, now, s) ==
  /\ leases[s].owner \notin {NoAgent, a}
  /\ leases[s].expires > now
  /\ Overlaps(r, s)

\* Some row stands against some resource of the request.
Refused(call, r) ==
  \E s \in Resources : Conflicting(r, call.agent, call.now, s)

BugGranted(call) == {r \in call.want : ~Refused(call, r)}

\* All of the request, or nothing.
Granted(call) ==
  IF \E r \in call.want : Refused(call, r) THEN {} ELSE call.want

\* Expired rows go first, then the granted resources get their new lease.
Reserve(call) ==
  LET kept  == Without(leases, {r \in Resources : Lapsed(leases[r], call.now)})
      taken == [owner |-> call.agent, expires |-> Expiry(call.now, call.lease)]
  IN  /\ call.op = "reserve"
      /\ Finish(call)
      /\ leases' = IF ~Registered(call.agent) THEN leases
                   ELSE [r \in Resources |-> IF r \in Granted(call) THEN taken ELSE kept[r]]
      /\ UNCHANGED <<clock, alive, agents, claims>>

ReleaseResources(a, S) ==
  /\ \E r \in S : leases[r].owner = a
  /\ leases' = [r \in Resources |-> IF r \in S /\ leases[r].owner = a
                                    THEN NoRow ELSE leases[r]]
  /\ UNCHANGED <<clock, alive, agents, claims, calls>>

BugJudgedDead(a, cutoff) ==
  /\ agents[a].status = "running"
  /\ agents[a].heartbeat < cutoff

(***************************************************************************)
(* The sessions collect_stale buries: silent since before the cutoff, and  *)
(* either without a process or silent past the abandonment ceiling.  The   *)
(* cutoff is from before the lock, the ceiling from inside it.             *)
(***************************************************************************)
JudgedDead(a, cutoff) ==
  /\ agents[a].status = "running"
  /\ agents[a].heartbeat < cutoff
  /\ \/ agents[a].pid \notin alive
     \/ agents[a].heartbeat < clock - AbandonedAfter

CollectStale(call) ==
  LET dead      == {a \in Agents : JudgedDead(a, call.now - StaleAfter)}
      Gone(row) == row.owner \in dead \/ Lapsed(row, clock)
  IN  /\ call.op = "collect"
      /\ Finish(call)
      /\ agents' = [a \in Agents |-> IF a \in dead
                                     THEN [agents[a] EXCEPT !.status = "dead"]
                                     ELSE agents[a]]
      /\ claims' = Without(claims, {t \in Tasks : Gone(claims[t])})
      /\ leases' = Without(leases, {r \in Resources : Gone(leases[r])})
      /\ UNCHANGED <<clock, alive>>

(***************************************************************************)
(* The host: time passes, processes exit, pids are handed out (again).     *)
(***************************************************************************)
Tick ==
  /\ clock < MaxTime
  /\ clock' = clock + 1
  /\ UNCHANGED <<alive, agents, claims, leases, calls>>

ProcessExits(p) ==
  /\ p \in alive
  /\ alive' = alive \ {p}
  /\ UNCHANGED <<clock, agents, claims, leases, calls>>

ProcessStarts(p) ==
  /\ p \notin alive
  /\ alive' = alive \cup {p}
  /\ UNCHANGED <<clock, agents, claims, leases, calls>>

Host == Tick \/ \E p \in Pids : ProcessExits(p) \/ ProcessStarts(p)

Begins ==
  \/ \E a \in Agents, p \in Pids : BeginRegister(a, p) \/ BeginUpdatePid(a, p)
  \/ \E a \in Agents : BeginHeartbeat(a)
  \/ \E a \in Agents, t \in Tasks, n \in LeaseLengths : BeginClaim(a, t, n)
  \/ \E a \in Agents, S \in SUBSET Resources, n \in LeaseLengths : BeginReserve(a, S, n)
  \/ BeginCollect

Commits ==
  \E call \in calls :
    \/ Register(call)
    \/ Heartbeat(call)
    \/ UpdatePid(call)
    \/ Claim(call)
    \/ Reserve(call)
    \/ CollectStale(call)
    \/ Fail(call)

Direct ==
  \/ \E a \in Agents : StopAgent(a)
  \/ \E a \in Agents, t \in Tasks : Release(a, t)
  \/ \E a \in Agents, S \in SUBSET Resources : ReleaseResources(a, S)

Next == Host \/ Begins \/ Commits \/ Direct

Spec == Init /\ [][Next]_vars

-----------------------------------------------------------------------------
(***************************************************************************)
(* Properties                                                              *)
(***************************************************************************)

\* Every row has the columns the schema gives it, every call its arguments.
TypeOK ==
  /\ clock \in Nat
  /\ alive \subseteq Pids
  /\ agents \in [Agents -> Session]
  /\ claims \in [Tasks -> Row]
  /\ leases \in [Resources -> Row]
  /\ calls \subseteq Call

(***************************************************************************)
(* No two agents have rows for overlapping resources, whatever the rows'   *)
(* expiry and however late the requests committed that put them there.     *)
(* Without it a lapsed row could come back to life over a later winner.    *)
(***************************************************************************)
ReservationsDisjoint ==
  \A r, s \in Resources :
    Present(leases[r]) /\ Present(leases[s]) /\ Overlaps(r, s)
      => leases[r].owner = leases[s].owner

\* No timestamp in a table or in flight is ahead of the clock.
StampsArePast ==
  /\ \A a \in Agents : agents[a].heartbeat <= clock
  /\ \A call \in calls : call.now <= clock

(***************************************************************************)
(* "A task claim has exactly one owner until expiry or explicit release"   *)
(* (README.md): whichever timestamp a competing claim carries, an agent    *)
(* loses a claim that is live on the host's clock only by releasing it or  *)
(* by its own session being stopped or buried in that very step.           *)
(***************************************************************************)
Forfeits(a) == agents'[a].status \in {"stopped", "dead"}

ClaimKept ==
  \A t \in Tasks :
    Live(claims[t]) /\ claims'[t].owner # claims[t].owner
      => Release(claims[t].owner, t) \/ Forfeits(claims[t].owner)

ClaimHeldUntilExpiry == [][ClaimKept]_vars

\* The same promise for reservations, which more operations can delete.
ReservationKept ==
  \A r \in Resources :
    Live(leases[r]) /\ leases'[r].owner # leases[r].owner
      => \/ \E S \in SUBSET Resources : ReleaseResources(leases[r].owner, S)
         \/ Forfeits(leases[r].owner)

ReservationHeldUntilExpiry == [][ReservationKept]_vars

(***************************************************************************)
(* "Multi-resource reservations are all-or-nothing" (README.md): a request *)
(* that leaves its agent holding anything it did not hold before leaves it *)
(* holding everything it asked for.                                        *)
(***************************************************************************)
HeldResources ==
  [a \in Agents |-> {r \in Resources : leases[r].owner = a /\ Live(leases[r])}]

AllOrNothing ==
  [][\A call \in calls \ calls' :
       call.op = "reserve" /\ ~(HeldResources'[call.agent] \subseteq HeldResources[call.agent])
         => call.want \subseteq HeldResources'[call.agent]]_vars

(***************************************************************************)
(* A session is buried only on evidence that stands when the burial        *)
(* commits: silent for stale_after on the clock of that moment, and either *)
(* its process is gone or the silence passed the abandonment ceiling.      *)
(***************************************************************************)
BuriedOnEvidence ==
  \A a \in Agents :
    agents[a].status # "dead" /\ agents'[a].status = "dead"
      => /\ agents[a].heartbeat + StaleAfter < clock
         /\ agents[a].pid \in alive => agents[a].heartbeat + AbandonedAfter < clock

BurialNeedsEvidence == [][BuriedOnEvidence]_vars

(***************************************************************************)
(* "Garbage collection marks a stale session dead only when its heartbeat  *)
(* is old and its PID no longer exists" (docs/protocol.md).  The ceiling   *)
(* breaks it: past AbandonedAfter a live session is buried too.            *)
(***************************************************************************)
DeadMeansGone ==
  [][\A a \in Agents :
       agents[a].status # "dead" /\ agents'[a].status = "dead"
         => agents[a].heartbeat + StaleAfter < clock /\ agents[a].pid \notin alive]_vars

-----------------------------------------------------------------------------
(***************************************************************************)
(* What each table promises, as LeaseService states it.                    *)
(***************************************************************************)
HeldClaims ==
  [a \in Agents |-> {t \in Tasks : claims[t].owner = a /\ Live(claims[t])}]

OverlapPairs == {p \in Resources \X Resources : Overlaps(p[1], p[2])}

ClaimService == INSTANCE LeaseService
  WITH Holders <- Agents, Things <- Tasks,
       Conflicts <- {<<t, t>> : t \in Tasks}, held <- HeldClaims

ReservationService == INSTANCE LeaseService
  WITH Holders <- Agents, Things <- Resources,
       Conflicts <- OverlapPairs, held <- HeldResources

\* The claims table is a lease service over task keys.
ClaimsAreALeaseService == ClaimService!Spec

\* The resource_leases table is one over resource keys, with path overlap.
ReservationsAreALeaseService == ReservationService!Spec
=============================================================================
