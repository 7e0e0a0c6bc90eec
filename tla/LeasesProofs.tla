---------------------------- MODULE LeasesProofs ----------------------------
(***************************************************************************)
(* Proofs about Leases, for any agents, tasks, resources, lease lengths    *)
(* and bounds.  The stored rows of two agents never overlap; no timestamp  *)
(* is ahead of the clock, so that what an operation finds lapsed is lapsed *)
(* when it commits; and so both tables are what LeaseService promises.     *)
(***************************************************************************)
EXTENDS Leases, TLAPS

\* A lease expires at a time.
LEMMA ExpiryType ==
  ASSUME LeasesAssumption, NEW now \in Nat, NEW n \in LeaseLengths
  PROVE  Expiry(now, n) \in Nat
BY DEF Expiry, LeasesAssumption

\* Every table and every call in flight keeps its columns and arguments.
THEOREM TypeCorrect == Spec => []TypeOK
<1> USE LeasesAssumption
<1>1. Init => TypeOK
  BY DEF Init, TypeOK, Row, NoRow, Session, Status
<1>2. TypeOK /\ [Next]_vars => TypeOK'
  <2> SUFFICES ASSUME TypeOK, [Next]_vars PROVE TypeOK'
    OBVIOUS
  <2>1. CASE UNCHANGED vars
    BY <2>1 DEF TypeOK, vars
  <2>2. CASE Host
    BY <2>2 DEF Host, Tick, ProcessExits, ProcessStarts, TypeOK
  <2>3. CASE Begins
    <3>1. ASSUME NEW a \in Agents, NEW p \in Pids,
                 BeginRegister(a, p) \/ BeginUpdatePid(a, p)
          PROVE  TypeOK'
      BY <3>1 DEF BeginRegister, BeginUpdatePid, Begin, TypeOK, Call, RegisterCall, PidCall
    <3>2. ASSUME NEW a \in Agents, BeginHeartbeat(a) PROVE TypeOK'
      BY <3>2 DEF BeginHeartbeat, Begin, TypeOK, Call, HeartbeatCall
    <3>3. ASSUME NEW a \in Agents, NEW t \in Tasks, NEW n \in LeaseLengths,
                 BeginClaim(a, t, n)
          PROVE  TypeOK'
      BY <3>3 DEF BeginClaim, Begin, TypeOK, Call, ClaimCall
    <3>4. ASSUME NEW a \in Agents, NEW S \in SUBSET Resources, NEW n \in LeaseLengths,
                 BeginReserve(a, S, n)
          PROVE  TypeOK'
      BY <3>4 DEF BeginReserve, Begin, TypeOK, Call, ReserveCall
    <3>5. CASE BeginCollect
      BY <3>5 DEF BeginCollect, Begin, TypeOK, Call, CollectCall
    <3>6. QED
      BY <2>3, <3>1, <3>2, <3>3, <3>4, <3>5 DEF Begins
  <2>4. CASE Commits
    <3> SUFFICES ASSUME NEW call \in calls,
                        \/ Register(call) \/ Heartbeat(call) \/ UpdatePid(call)
                        \/ Claim(call) \/ Reserve(call) \/ CollectStale(call)
                        \/ Fail(call)
                 PROVE  TypeOK'
      BY <2>4 DEF Commits
    <3> call \in Call /\ calls' \subseteq Call
      BY DEF TypeOK, Finish, Register, Heartbeat, UpdatePid, Claim, Reserve,
             CollectStale, Fail
    <3>1. CASE Register(call)
      <4>1. call \in RegisterCall
        BY <3>1 DEF Register, Call, RegisterCall, HeartbeatCall, PidCall, ClaimCall,
                    ReserveCall, CollectCall
      <4>2. QED
        BY <3>1, <4>1 DEF Register, TypeOK, RegisterCall, Session, Status
    <3>2. CASE Heartbeat(call)
      <4>1. call \in HeartbeatCall
        BY <3>2 DEF Heartbeat, Call, RegisterCall, HeartbeatCall, PidCall, ClaimCall,
                    ReserveCall, CollectCall
      <4>2. QED
        BY <3>2, <4>1 DEF Heartbeat, TypeOK, HeartbeatCall, Session, Status
    <3>3. CASE UpdatePid(call)
      <4>1. call \in PidCall
        BY <3>3 DEF UpdatePid, Call, RegisterCall, HeartbeatCall, PidCall, ClaimCall,
                    ReserveCall, CollectCall
      <4>2. QED
        BY <3>3, <4>1 DEF UpdatePid, TypeOK, PidCall, Session, Status
    <3>4. CASE Claim(call)
      <4>1. call \in ClaimCall
        BY <3>4 DEF Claim, Call, RegisterCall, HeartbeatCall, PidCall, ClaimCall,
                    ReserveCall, CollectCall
      <4>2. Expiry(call.now, call.lease) \in Nat
        BY <4>1, ExpiryType DEF ClaimCall
      <4>3. QED
        BY <3>4, <4>1, <4>2 DEF Claim, TypeOK, ClaimCall, Row
    <3>5. CASE Reserve(call)
      <4>1. call \in ReserveCall
        BY <3>5 DEF Reserve, Call, RegisterCall, HeartbeatCall, PidCall, ClaimCall,
                    ReserveCall, CollectCall
      <4>2. Expiry(call.now, call.lease) \in Nat
        BY <4>1, ExpiryType DEF ReserveCall
      <4>3. leases' \in [Resources -> Row]
        BY <3>5, <4>1, <4>2 DEF Reserve, Without, TypeOK, ReserveCall, Row, NoRow
      <4>4. QED
        BY <3>5, <4>3 DEF Reserve, TypeOK
    <3>6. CASE CollectStale(call)
      <4>1. agents' \in [Agents -> Session]
        BY <3>6 DEF CollectStale, TypeOK, Session, Status
      <4>2. claims' \in [Tasks -> Row] /\ leases' \in [Resources -> Row]
        BY <3>6 DEF CollectStale, Without, TypeOK, Row, NoRow
      <4>3. QED
        BY <3>6, <4>1, <4>2 DEF CollectStale, TypeOK
    <3>7. CASE Fail(call)
      BY <3>7 DEF Fail, TypeOK
    <3>8. QED
      BY <3>1, <3>2, <3>3, <3>4, <3>5, <3>6, <3>7
  <2>5. CASE Direct
    <3>1. ASSUME NEW a \in Agents, StopAgent(a) PROVE TypeOK'
      <4>1. claims' \in [Tasks -> Row] /\ leases' \in [Resources -> Row]
        BY <3>1 DEF StopAgent, Without, TypeOK, Row, NoRow
      <4>2. agents' \in [Agents -> Session]
        BY <3>1 DEF StopAgent, TypeOK, Session, Status
      <4>3. QED
        BY <3>1, <4>1, <4>2 DEF StopAgent, TypeOK
    <3>2. ASSUME NEW a \in Agents, NEW t \in Tasks, Release(a, t) PROVE TypeOK'
      BY <3>2 DEF Release, TypeOK, Row, NoRow
    <3>3. ASSUME NEW a \in Agents, NEW S \in SUBSET Resources, ReleaseResources(a, S)
          PROVE  TypeOK'
      BY <3>3 DEF ReleaseResources, TypeOK, Row, NoRow
    <3>4. QED
      BY <2>5, <3>1, <3>2, <3>3 DEF Direct
  <2>6. QED
    BY <2>1, <2>2, <2>3, <2>4, <2>5 DEF Next
<1>3. QED
  BY <1>1, <1>2, PTL DEF Spec

-----------------------------------------------------------------------------
(***************************************************************************)
(* Reservations.  The table invariant needs no clock: a request deletes    *)
(* the rows that lapsed by its own timestamp and refuses to overlap any    *)
(* row of another agent that did not, so after it every surviving foreign  *)
(* row is disjoint from what it wrote.                                     *)
(***************************************************************************)
LEMMA OverlapsSymmetric ==
  ASSUME NEW r, NEW s
  PROVE  Overlaps(r, s) <=> Overlaps(s, r)
BY DEF Overlaps

\* Dropping rows cannot create an overlap.
LEMMA FewerRowsDisjoint ==
  ASSUME ReservationsDisjoint,
         \A r \in Resources : leases'[r] = leases[r] \/ leases'[r] = NoRow
  PROVE  ReservationsDisjoint'
BY DEF ReservationsDisjoint, Present, NoRow

\* A granted request overlaps no foreign row that survives its deletions.
LEMMA ReserveDisjoint ==
  ASSUME TypeOK, ReservationsDisjoint, NEW call \in ReserveCall, Reserve(call)
  PROVE  ReservationsDisjoint'
<1> DEFINE a    == call.agent
           kept == [r \in Resources |-> IF Lapsed(leases[r], call.now) THEN NoRow ELSE leases[r]]
<1>1. a \in Agents /\ call.now \in Nat /\ call.want \subseteq Resources
  BY DEF ReserveCall
<1>2. CASE ~Registered(a)
  BY <1>2, FewerRowsDisjoint DEF Reserve
<1>3. CASE Registered(a) /\ Granted(call) = {}
  <2>1. leases' = [r \in Resources |-> kept[r]]
    BY <1>3 DEF Reserve, Without, TypeOK
  <2>2. QED
    BY <2>1, FewerRowsDisjoint
<1>4. CASE Registered(a) /\ Granted(call) # {}
  <2>1. /\ Granted(call) = call.want
        /\ \A r \in call.want, s \in Resources : ~Conflicting(r, a, call.now, s)
    BY <1>4 DEF Granted, Refused
  <2>2. \A r \in Resources :
          /\ r \in call.want => leases'[r].owner = a
          /\ r \notin call.want => leases'[r] = kept[r]
    BY <1>4, <2>1 DEF Reserve, Without, TypeOK
  <2>3. ASSUME NEW r \in call.want, NEW s \in Resources \ call.want,
               Present(leases'[s]), Overlaps(r, s)
        PROVE  leases'[s].owner = a
    <3>1. leases'[s] = leases[s] /\ ~Lapsed(leases[s], call.now)
      BY <2>2, <2>3 DEF Present, NoRow
    <3>2. leases[s].expires \in Nat
      BY DEF TypeOK, Row
    <3>3. leases[s].expires > call.now
      BY <1>1, <3>1, <3>2 DEF Lapsed
    <3>4. QED
      BY <1>1, <2>1, <2>3, <3>1, <3>3 DEF Conflicting, Present
  <2>4. ASSUME NEW r \in Resources, NEW s \in Resources,
               Present(leases'[r]), Present(leases'[s]), Overlaps(r, s)
        PROVE  leases'[r].owner = leases'[s].owner
    <3>1. CASE r \in call.want /\ s \in call.want
      BY <2>2, <3>1
    <3>2. CASE r \in call.want /\ s \notin call.want
      BY <2>2, <2>3, <2>4, <3>2
    <3>3. CASE r \notin call.want /\ s \in call.want
      BY <2>2, <2>3, <2>4, <3>3, OverlapsSymmetric
    <3>4. CASE r \notin call.want /\ s \notin call.want
      <4>1. leases'[r] = leases[r] /\ leases'[s] = leases[s]
        BY <2>2, <2>4, <3>4 DEF Present, NoRow
      <4>2. QED
        BY <2>4, <4>1 DEF ReservationsDisjoint
    <3>5. QED
      BY <3>1, <3>2, <3>3, <3>4
  <2>5. QED
    BY <2>4 DEF ReservationsDisjoint
<1>5. QED
  BY <1>2, <1>3, <1>4

(***************************************************************************)
(* No reachable table has overlapping rows of two agents.                  *)
(***************************************************************************)
THEOREM DisjointReservations == Spec => []ReservationsDisjoint
<1>1. Init => ReservationsDisjoint
  BY DEF Init, ReservationsDisjoint, Present, NoRow
<1>2. TypeOK /\ ReservationsDisjoint /\ [Next]_vars => ReservationsDisjoint'
  <2> SUFFICES ASSUME TypeOK, ReservationsDisjoint, [Next]_vars
               PROVE  ReservationsDisjoint'
    OBVIOUS
  <2>1. CASE UNCHANGED leases
    BY <2>1, FewerRowsDisjoint
  <2>2. ASSUME NEW call \in calls, Reserve(call) PROVE ReservationsDisjoint'
    <3>1. call \in ReserveCall
      BY <2>2 DEF Reserve, TypeOK, Call, RegisterCall, HeartbeatCall, PidCall, ClaimCall,
                  ReserveCall, CollectCall
    <3>2. QED
      BY <2>2, <3>1, ReserveDisjoint
  <2>3. ASSUME NEW call \in calls, CollectStale(call) PROVE ReservationsDisjoint'
    BY <2>3, FewerRowsDisjoint DEF CollectStale, Without, TypeOK
  <2>4. ASSUME NEW a \in Agents, StopAgent(a) PROVE ReservationsDisjoint'
    BY <2>4, FewerRowsDisjoint DEF StopAgent, Without, TypeOK
  <2>5. ASSUME NEW a \in Agents, NEW S \in SUBSET Resources, ReleaseResources(a, S)
        PROVE  ReservationsDisjoint'
    BY <2>5, FewerRowsDisjoint DEF ReleaseResources
  <2>6. QED
    BY <2>1, <2>2, <2>3, <2>4, <2>5
       DEF Next, vars, Host, Tick, ProcessExits, ProcessStarts, Begins, BeginRegister,
           BeginUpdatePid, BeginHeartbeat, BeginClaim, BeginReserve, BeginCollect, Begin,
           Commits, Register, Heartbeat, UpdatePid, Claim, Fail, Direct, Release
<1>3. QED
  BY <1>1, <1>2, TypeCorrect, PTL DEF Spec

-----------------------------------------------------------------------------
(***************************************************************************)
(* Timestamps.  A call carries the time at which it began, so what it      *)
(* finds expired by its own timestamp is expired on the clock.             *)
(***************************************************************************)
LEMMA CallNow ==
  ASSUME LeasesAssumption, NEW call \in Call
  PROVE  call.now \in Nat
BY DEF Call, RegisterCall, HeartbeatCall, PidCall, ClaimCall, ReserveCall, CollectCall

LEMMA StampsStep == TypeOK /\ StampsArePast /\ [Next]_vars => StampsArePast'
<1> USE LeasesAssumption
<1> SUFFICES ASSUME TypeOK, StampsArePast, [Next]_vars
             PROVE  StampsArePast'
  OBVIOUS
<1>0. /\ clock \in Nat
      /\ \A a \in Agents : agents[a].heartbeat \in Nat
      /\ \A call \in calls : call.now \in Nat
  BY CallNow DEF TypeOK, Session
<1>1. CASE UNCHANGED vars
  BY <1>1 DEF StampsArePast, vars
<1>2. CASE Host
  BY <1>0, <1>2 DEF Host, Tick, ProcessExits, ProcessStarts, StampsArePast
<1>3. CASE Begins
  <2>1. /\ UNCHANGED <<clock, agents>>
        /\ \A call \in calls' \ calls : call.now = clock
    BY <1>3 DEF Begins, BeginRegister, BeginUpdatePid, BeginHeartbeat, BeginClaim,
                BeginReserve, BeginCollect, Begin
  <2>2. \A call \in calls' : call.now <= clock
    BY <1>0, <2>1 DEF StampsArePast
  <2>3. QED
    BY <2>1, <2>2 DEF StampsArePast
<1>4. CASE Commits
  <2> SUFFICES ASSUME NEW call \in calls,
                      \/ Register(call) \/ Heartbeat(call) \/ UpdatePid(call)
                      \/ Claim(call) \/ Reserve(call) \/ CollectStale(call)
                      \/ Fail(call)
               PROVE  StampsArePast'
    BY <1>4 DEF Commits
  <2>1. clock' = clock /\ calls' \subseteq calls
    BY DEF Finish, Register, Heartbeat, UpdatePid, Claim, Reserve, CollectStale, Fail
  <2>2. \A a \in Agents :
          agents'[a].heartbeat = agents[a].heartbeat \/ agents'[a].heartbeat = call.now
    <3>1. CASE Register(call)
      BY <3>1 DEF Register, TypeOK, Session
    <3>2. CASE Heartbeat(call)
      BY <3>2 DEF Heartbeat, TypeOK, Session
    <3>3. CASE UpdatePid(call)
      BY <3>3 DEF UpdatePid, TypeOK, Session
    <3>4. CASE CollectStale(call)
      BY <3>4 DEF CollectStale, TypeOK, Session
    <3>5. CASE UNCHANGED agents
      BY <3>5
    <3>6. QED
      BY <3>1, <3>2, <3>3, <3>4, <3>5 DEF Claim, Reserve, Fail
  <2>3. QED
    BY <2>1, <2>2 DEF StampsArePast
<1>5. CASE Direct
  <2>1. /\ UNCHANGED <<clock, calls>>
        /\ \A a \in Agents : agents'[a].heartbeat = agents[a].heartbeat
    <3>1. ASSUME NEW a \in Agents, StopAgent(a)
          PROVE  \A b \in Agents : agents'[b].heartbeat = agents[b].heartbeat
      BY <3>1 DEF StopAgent, TypeOK, Session
    <3>2. QED
      BY <1>5, <3>1 DEF Direct, StopAgent, Release, ReleaseResources
  <2>2. QED
    BY <2>1 DEF StampsArePast
<1>6. QED
  BY <1>1, <1>2, <1>3, <1>4, <1>5 DEF Next

\* The clock is monotone and every stamp was read from it.
THEOREM PastStamps == Spec => []StampsArePast
<1>1. Init => StampsArePast
  BY DEF Init, StampsArePast
<1>2. QED
  BY <1>1, StampsStep, TypeCorrect, PTL DEF Spec

(***************************************************************************)
(* A live claim changes hands only by its owner's release or end.          *)
(***************************************************************************)
THEOREM ClaimsHeld == Spec => ClaimHeldUntilExpiry
<1> USE LeasesAssumption
<1>1. TypeOK /\ StampsArePast /\ [Next]_vars => [ClaimKept]_vars
  <2> SUFFICES ASSUME TypeOK, StampsArePast, Next, NEW t \in Tasks,
                      Live(claims[t]), claims'[t].owner # claims[t].owner
               PROVE  Release(claims[t].owner, t) \/ Forfeits(claims[t].owner)
    BY DEF ClaimKept
  <2>0. claims[t].expires \in Nat /\ clock \in Nat /\ claims[t].expires > clock
    BY DEF TypeOK, Row, Live
  <2>1. ASSUME NEW call \in calls, Claim(call) PROVE FALSE
    <3>1. call.now \in Nat /\ call.now <= clock
      BY CallNow DEF TypeOK, StampsArePast
    <3>2. call.task = t /\ MayTake(claims[t], call.agent, call.now) /\ claims'[t].owner = call.agent
      BY <2>1 DEF Claim, TypeOK
    <3>3. ~Lapsed(claims[t], call.now)
      BY <2>0, <3>1 DEF Lapsed
    <3>4. QED
      BY <3>2, <3>3 DEF MayTake, Live
  <2>2. ASSUME NEW call \in calls, CollectStale(call) PROVE Forfeits(claims[t].owner)
    <3>1. ~Lapsed(claims[t], clock)
      BY <2>0 DEF Lapsed
    <3>2. claims[t].owner \in Agents /\ JudgedDead(claims[t].owner, call.now - StaleAfter)
      BY <2>2, <3>1 DEF CollectStale, Without, TypeOK
    <3>3. QED
      BY <2>2, <3>2 DEF CollectStale, Forfeits, TypeOK, Session
  <2>3. ASSUME NEW a \in Agents, StopAgent(a) PROVE Forfeits(claims[t].owner)
    BY <2>3 DEF StopAgent, Without, Forfeits, TypeOK, Session
  <2>4. ASSUME NEW a \in Agents, NEW k \in Tasks, Release(a, k)
        PROVE  Release(claims[t].owner, t)
    <3>1. k = t
      BY <2>4 DEF Release, TypeOK
    <3>2. a = claims[t].owner
      BY <2>4, <3>1 DEF Release
    <3>3. QED
      BY <2>4, <3>1, <3>2
  <2>5. QED
    BY <2>1, <2>2, <2>3, <2>4
       DEF Next, Host, Tick, ProcessExits, ProcessStarts, Begins, BeginRegister,
           BeginUpdatePid, BeginHeartbeat, BeginClaim, BeginReserve, BeginCollect, Begin,
           Commits, Register, Heartbeat, UpdatePid, Reserve, Fail, Direct, ReleaseResources
<1>2. QED
  BY <1>1, TypeCorrect, PastStamps, PTL DEF Spec, ClaimHeldUntilExpiry

(***************************************************************************)
(* A burial stands on evidence that is current when it commits, although   *)
(* its cutoff is older: an old cutoff asks for an older heartbeat.         *)
(***************************************************************************)
THEOREM BurialsStandOnEvidence == Spec => BurialNeedsEvidence
<1> USE LeasesAssumption
<1>1. TypeOK /\ StampsArePast /\ [Next]_vars => [BuriedOnEvidence]_vars
  <2> SUFFICES ASSUME TypeOK, StampsArePast, Next, NEW a \in Agents,
                      agents[a].status # "dead", agents'[a].status = "dead"
               PROVE  /\ agents[a].heartbeat + StaleAfter < clock
                      /\ agents[a].pid \in alive => agents[a].heartbeat + AbandonedAfter < clock
    BY DEF BuriedOnEvidence
  <2>1. PICK call \in calls : CollectStale(call)
    <3>1. ASSUME NEW call \in calls, Register(call) PROVE FALSE
      BY <3>1 DEF Register, TypeOK, Session
    <3>2. ASSUME NEW call \in calls, Heartbeat(call) PROVE FALSE
      BY <3>2 DEF Heartbeat, TypeOK, Session
    <3>3. ASSUME NEW call \in calls, UpdatePid(call) PROVE FALSE
      BY <3>3 DEF UpdatePid, TypeOK, Session
    <3>4. ASSUME NEW b \in Agents, StopAgent(b) PROVE FALSE
      BY <3>4 DEF StopAgent, TypeOK, Session
    <3>5. QED
      BY <3>1, <3>2, <3>3, <3>4
         DEF Next, Host, Tick, ProcessExits, ProcessStarts, Begins, BeginRegister,
             BeginUpdatePid, BeginHeartbeat, BeginClaim, BeginReserve, BeginCollect, Begin,
             Commits, Claim, Reserve, Fail, Direct, Release, ReleaseResources
  <2>2. JudgedDead(a, call.now - StaleAfter)
    BY <2>1 DEF CollectStale, TypeOK, Session
  <2>3. /\ call.now \in Nat /\ call.now <= clock /\ clock \in Nat
        /\ agents[a].heartbeat \in Nat
        /\ StaleAfter \in Nat /\ AbandonedAfter \in Nat
    BY CallNow DEF TypeOK, Session, StampsArePast, LeasesAssumption
  <2>4. QED
    BY <2>2, <2>3 DEF JudgedDead
<1>2. QED
  BY <1>1, TypeCorrect, PastStamps, PTL DEF Spec, BurialNeedsEvidence

(***************************************************************************)
(* A live reservation is lost only by its owner's release or end.          *)
(***************************************************************************)
THEOREM ReservationsHeld == Spec => ReservationHeldUntilExpiry
<1> USE LeasesAssumption
<1>1. TypeOK /\ StampsArePast /\ [Next]_vars => [ReservationKept]_vars
  <2> SUFFICES ASSUME TypeOK, StampsArePast, Next, NEW r \in Resources,
                      Live(leases[r]), leases'[r].owner # leases[r].owner
               PROVE  \/ \E S \in SUBSET Resources : ReleaseResources(leases[r].owner, S)
                      \/ Forfeits(leases[r].owner)
    BY DEF ReservationKept
  <2>0. leases[r].expires \in Nat /\ clock \in Nat /\ leases[r].expires > clock
    BY DEF TypeOK, Row, Live
  <2>1. ASSUME NEW call \in calls, Reserve(call) PROVE FALSE
    <3>1. call.now \in Nat /\ call.now <= clock
      BY CallNow DEF TypeOK, StampsArePast
    <3>2. ~Lapsed(leases[r], call.now) /\ leases[r].expires > call.now
      BY <2>0, <3>1 DEF Lapsed
    <3>3. r \in Granted(call) /\ leases'[r].owner = call.agent
      BY <2>1, <3>2 DEF Reserve, Without, TypeOK
    <3>4. ~Conflicting(r, call.agent, call.now, r)
      BY <3>3 DEF Granted, Refused
    <3>5. QED
      BY <3>2, <3>3, <3>4 DEF Conflicting, Overlaps, Live, Present
  <2>2. ASSUME NEW call \in calls, CollectStale(call) PROVE Forfeits(leases[r].owner)
    <3>1. ~Lapsed(leases[r], clock)
      BY <2>0 DEF Lapsed
    <3>2. leases[r].owner \in Agents /\ JudgedDead(leases[r].owner, call.now - StaleAfter)
      BY <2>2, <3>1 DEF CollectStale, Without, TypeOK
    <3>3. QED
      BY <2>2, <3>2 DEF CollectStale, Forfeits, TypeOK, Session
  <2>3. ASSUME NEW a \in Agents, StopAgent(a) PROVE Forfeits(leases[r].owner)
    BY <2>3 DEF StopAgent, Without, Forfeits, TypeOK, Session
  <2>4. ASSUME NEW a \in Agents, NEW S \in SUBSET Resources, ReleaseResources(a, S)
        PROVE  ReleaseResources(leases[r].owner, S)
    BY <2>4 DEF ReleaseResources, TypeOK
  <2>5. QED
    BY <2>1, <2>2, <2>3, <2>4
       DEF Next, Host, Tick, ProcessExits, ProcessStarts, Begins, BeginRegister,
           BeginUpdatePid, BeginHeartbeat, BeginClaim, BeginReserve, BeginCollect, Begin,
           Commits, Register, Heartbeat, UpdatePid, Claim, Fail, Direct, Release
<1>2. QED
  BY <1>1, TypeCorrect, PastStamps, PTL DEF Spec, ReservationHeldUntilExpiry

-----------------------------------------------------------------------------
\* A step after which every agent's live claims were its live claims before.
LEMMA ClaimsLapse ==
  ASSUME TypeOK, TypeOK', clock' >= clock,
         \A t \in Tasks : claims'[t] = claims[t] \/ claims'[t] = NoRow
  PROVE  ClaimService!Lapse
<1> USE LeasesAssumption
<1>1. HeldClaims' \in [Agents -> SUBSET Tasks]
  BY DEF HeldClaims
<1>2. ASSUME NEW a \in Agents, NEW t \in HeldClaims'[a]
      PROVE  t \in HeldClaims[a]
  BY DEF HeldClaims, Live, Present, TypeOK, Row, NoRow, LeasesAssumption
<1>3. QED
  BY <1>1, <1>2 DEF ClaimService!Lapse

\* No operation turns the clock back.
LEMMA ClockMonotone ==
  ASSUME TypeOK, [Next]_vars
  PROVE  clock' >= clock
<1>0. clock \in Nat
  BY DEF TypeOK
<1>1. CASE Host
  BY <1>0, <1>1 DEF Host, Tick, ProcessExits, ProcessStarts
<1>2. CASE Begins
  BY <1>0, <1>2 DEF Begins, BeginRegister, BeginUpdatePid, BeginHeartbeat, BeginClaim,
                    BeginReserve, BeginCollect, Begin
<1>3. CASE Commits
  <2>1. clock' = clock
    BY <1>3 DEF Commits, Register, Heartbeat, UpdatePid, Claim, Reserve, CollectStale, Fail
  <2>2. QED
    BY <1>0, <2>1
<1>4. CASE Direct
  <2>1. clock' = clock
    BY <1>4 DEF Direct, StopAgent, Release, ReleaseResources
  <2>2. QED
    BY <1>0, <2>1
<1>5. QED
  BY <1>0, <1>1, <1>2, <1>3, <1>4 DEF Next, vars

(***************************************************************************)
(* The claims table, with its stale timestamps and late commits, is a      *)
(* lease service over task keys: a claim that takes a row over finds it    *)
(* dead, and every other step only lets go.                                *)
(***************************************************************************)
THEOREM ClaimsImplementLeaseService == Spec => ClaimsAreALeaseService
<1> USE LeasesAssumption
<1>1. Init => ClaimService!Init
  BY DEF Init, ClaimService!Init, HeldClaims, NoRow, Live, Present
<1>2. TypeOK /\ TypeOK' /\ StampsArePast /\ [Next]_vars
        => [ClaimService!Next]_HeldClaims
  <2> SUFFICES ASSUME TypeOK, TypeOK', StampsArePast, [Next]_vars
               PROVE  ClaimService!Next \/ UNCHANGED HeldClaims
    OBVIOUS
  <2>1. ASSUME NEW call \in calls, Claim(call)
        PROVE  ClaimService!Next
    <3> DEFINE a == call.agent
               k == call.task
    <3>1. call \in ClaimCall
      BY <2>1 DEF Claim, TypeOK, Call, RegisterCall, HeartbeatCall, PidCall, ClaimCall,
                  ReserveCall, CollectCall
    <3>2. a \in Agents /\ k \in Tasks /\ call.now \in Nat /\ call.now <= clock /\ clock' = clock
      BY <2>1, <3>1 DEF ClaimCall, StampsArePast, Claim
    <3>3. CASE UNCHANGED claims
      BY <3>2, <3>3, ClaimsLapse DEF ClaimService!Next, TypeOK
    <3>4. CASE /\ MayTake(claims[k], a, call.now)
               /\ claims' = [claims EXCEPT ![k] =
                               [owner |-> a, expires |-> Expiry(call.now, call.lease)]]
      <4> DEFINE S == IF Expiry(call.now, call.lease) > clock THEN {k} ELSE {}
      <4>1. \A b \in Agents \ {a} : k \notin HeldClaims[b]
        BY <3>2, <3>4 DEF MayTake, Lapsed, HeldClaims, Live, Present, TypeOK, Row
      <4>2. \A b \in Agents : \A t \in Tasks \ {k} : t \in HeldClaims'[b] <=> t \in HeldClaims[b]
        BY <3>2, <3>4 DEF HeldClaims, Live, Present, TypeOK
      <4>3. \A b \in Agents : k \in HeldClaims'[b] <=> b = a /\ Expiry(call.now, call.lease) > clock
        BY <3>2, <3>4 DEF HeldClaims, Live, Present, TypeOK, LeasesAssumption
      <4>4. /\ HeldClaims \in [Agents -> SUBSET Tasks]
            /\ HeldClaims' \in [Agents -> SUBSET Tasks]
        BY DEF HeldClaims
      <4>5. CASE Expiry(call.now, call.lease) > clock
        <5>1. HeldClaims' = [HeldClaims EXCEPT ![a] = @ \cup {k}]
          BY <3>2, <4>1, <4>2, <4>3, <4>4, <4>5
        <5>2. ClaimService!Free(a, {k})
          BY <3>2, <4>1 DEF ClaimService!Free
        <5>3. QED
          BY <3>2, <5>1, <5>2 DEF ClaimService!Next, ClaimService!Acquire
      <4>6. CASE ~(Expiry(call.now, call.lease) > clock)
        <5>1. \A b \in Agents : HeldClaims'[b] \subseteq HeldClaims[b]
          BY <4>2, <4>3, <4>4, <4>6
        <5>2. QED
          BY <4>4, <5>1 DEF ClaimService!Next, ClaimService!Lapse
      <4>7. QED
        BY <4>5, <4>6
    <3>5. QED
      BY <2>1, <3>3, <3>4 DEF Claim
  <2>2. CASE \A t \in Tasks : claims'[t] = claims[t] \/ claims'[t] = NoRow
    <3>1. clock' >= clock
      BY ClockMonotone
    <3>2. QED
      BY <2>2, <3>1, ClaimsLapse DEF ClaimService!Next
  <2>3. CASE UNCHANGED claims
    BY <2>2, <2>3
  <2>4. ASSUME NEW call \in calls, CollectStale(call)
        PROVE  \A t \in Tasks : claims'[t] = claims[t] \/ claims'[t] = NoRow
    BY <2>4 DEF CollectStale, Without, TypeOK
  <2>5. ASSUME NEW a \in Agents, StopAgent(a)
        PROVE  \A t \in Tasks : claims'[t] = claims[t] \/ claims'[t] = NoRow
    BY <2>5 DEF StopAgent, Without, TypeOK
  <2>6. ASSUME NEW a \in Agents, NEW k \in Tasks, Release(a, k)
        PROVE  \A t \in Tasks : claims'[t] = claims[t] \/ claims'[t] = NoRow
    BY <2>6 DEF Release, TypeOK
  <2>7. QED
    BY <2>1, <2>2, <2>3, <2>4, <2>5, <2>6
       DEF Next, vars, Host, Tick, ProcessExits, ProcessStarts, Begins, BeginRegister,
           BeginUpdatePid, BeginHeartbeat, BeginClaim, BeginReserve, BeginCollect, Begin,
           Commits, Register, Heartbeat, UpdatePid, Reserve, Fail, Direct, ReleaseResources
<1>3. QED
  BY <1>1, <1>2, TypeCorrect, PastStamps, PTL
     DEF Spec, ClaimsAreALeaseService, ClaimService!Spec

-----------------------------------------------------------------------------
(***************************************************************************)
(* What a request that commits late does to the live reservations: it adds *)
(* all it asked for, disjoint from what others hold, or it adds nothing.   *)
(***************************************************************************)
LEMMA ReservationTypes == HeldResources \in [Agents -> SUBSET Resources]
BY DEF HeldResources

\* A step that only deletes rows, or lets time pass, takes nothing up.
LEMMA ReservationsLapse ==
  ASSUME TypeOK, TypeOK', clock' >= clock,
         \A r \in Resources : leases'[r] = leases[r] \/ leases'[r] = NoRow
  PROVE  \A a \in Agents : HeldResources'[a] \subseteq HeldResources[a]
<1> USE LeasesAssumption
<1>1. ASSUME NEW a \in Agents, NEW r \in HeldResources'[a]
      PROVE  r \in HeldResources[a]
  BY DEF HeldResources, Live, Present, TypeOK, Row, NoRow, LeasesAssumption
<1>2. QED
  BY <1>1

\* Of a request that is granted and not too late, everything is new property of its agent.
LEMMA ReserveAcquires ==
  ASSUME TypeOK, TypeOK', StampsArePast, NEW call \in ReserveCall, call \in calls, Reserve(call)
  PROVE  \/ \A b \in Agents : HeldResources'[b] \subseteq HeldResources[b]
         \/ /\ HeldResources' = [HeldResources EXCEPT ![call.agent] = @ \cup call.want]
            /\ \A b \in Agents \ {call.agent} :
                 \A r \in call.want, s \in HeldResources[b] : ~Overlaps(r, s)
<1> USE LeasesAssumption
<1> DEFINE a    == call.agent
           kept == [r \in Resources |-> IF Lapsed(leases[r], call.now) THEN NoRow ELSE leases[r]]
           ends == Expiry(call.now, call.lease)
<1>1. /\ a \in Agents /\ call.want \subseteq Resources
      /\ call.now \in Nat /\ clock \in Nat /\ call.now <= clock /\ clock' = clock
  BY DEF ReserveCall, StampsArePast, Reserve, TypeOK
<1>2. CASE ~Registered(a) \/ Granted(call) = {}
  <2>1. \A r \in Resources : leases'[r] = leases[r] \/ leases'[r] = NoRow
    BY <1>2 DEF Reserve, Without, TypeOK
  <2>2. QED
    BY <1>1, <2>1, ReservationsLapse
<1>3. CASE Registered(a) /\ Granted(call) # {}
  <2>1. /\ Granted(call) = call.want
        /\ \A r \in call.want, s \in Resources : ~Conflicting(r, a, call.now, s)
    BY <1>3 DEF Granted, Refused
  <2>2. \A r \in Resources :
          /\ r \in call.want => leases'[r] = [owner |-> a, expires |-> ends]
          /\ r \notin call.want => leases'[r] = kept[r]
    BY <1>3, <2>1 DEF Reserve, Without, TypeOK
  <2>3. ASSUME NEW b \in Agents \ {a}, NEW r \in call.want, NEW s \in HeldResources[b]
        PROVE  ~Overlaps(r, s)
    <3>1. s \in Resources /\ leases[s].owner = b /\ leases[s].expires > clock
          /\ leases[s].expires \in Nat
      BY DEF HeldResources, Live, TypeOK, Row
    <3>2. leases[s].expires > call.now
      BY <1>1, <3>1
    <3>3. QED
      BY <2>1, <3>1, <3>2 DEF Conflicting, LeasesAssumption
  <2>4. ASSUME NEW b \in Agents, NEW r \in Resources \ call.want
        PROVE  r \in HeldResources'[b] <=> r \in HeldResources[b]
    <3>1. leases[r].expires \in Nat /\ leases'[r] = IF Lapsed(leases[r], call.now)
                                                      THEN NoRow ELSE leases[r]
      BY <2>2 DEF TypeOK, Row
    <3>2. Lapsed(leases[r], call.now) => ~Live(leases[r])
      BY <1>1, <3>1 DEF Lapsed, Live
    <3>3. QED
      BY <1>1, <3>1, <3>2 DEF HeldResources, Live, Present, NoRow, LeasesAssumption
  <2>5. ASSUME NEW b \in Agents, NEW r \in call.want
        PROVE  r \in HeldResources'[b] <=> b = a /\ ends > clock
    BY <1>1, <2>2 DEF HeldResources, Live, Present, LeasesAssumption
  <2>6. ASSUME NEW b \in Agents \ {a}, NEW r \in call.want
        PROVE  r \notin HeldResources[b]
    BY <2>3 DEF Overlaps
  <2>7. CASE ends > clock
    <3>1. \A b \in Agents : HeldResources'[b] =
            IF b = a THEN HeldResources[b] \cup call.want ELSE HeldResources[b]
      BY <1>1, <2>4, <2>5, <2>6, <2>7, ReservationTypes DEF HeldResources
    <3>2. HeldResources' = [HeldResources EXCEPT ![a] = @ \cup call.want]
      BY <1>1, <3>1, ReservationTypes DEF HeldResources
    <3>3. QED
      BY <2>3, <3>2
  <2>8. CASE ~(ends > clock)
    BY <1>1, <2>4, <2>5, <2>8 DEF HeldResources
  <2>9. QED
    BY <2>7, <2>8
<1>4. QED
  BY <1>2, <1>3

\* A step is the commit of a request, or it deletes rows and lets time pass.
LEMMA ReservationSteps ==
  ASSUME TypeOK, [Next]_vars
  PROVE  \/ \E call \in calls : call \in ReserveCall /\ Reserve(call)
         \/ \A r \in Resources : leases'[r] = leases[r] \/ leases'[r] = NoRow
<1>1. ASSUME NEW call \in calls, Reserve(call) PROVE call \in ReserveCall
  BY <1>1 DEF Reserve, TypeOK, Call, RegisterCall, HeartbeatCall, PidCall, ClaimCall,
              ReserveCall, CollectCall
<1>2. CASE UNCHANGED leases
  BY <1>2
<1>3. ASSUME NEW call \in calls, CollectStale(call)
      PROVE  \A r \in Resources : leases'[r] = leases[r] \/ leases'[r] = NoRow
  BY <1>3 DEF CollectStale, Without, TypeOK
<1>4. ASSUME NEW a \in Agents, StopAgent(a)
      PROVE  \A r \in Resources : leases'[r] = leases[r] \/ leases'[r] = NoRow
  BY <1>4 DEF StopAgent, Without, TypeOK
<1>5. ASSUME NEW a \in Agents, NEW S \in SUBSET Resources, ReleaseResources(a, S)
      PROVE  \A r \in Resources : leases'[r] = leases[r] \/ leases'[r] = NoRow
  BY <1>5 DEF ReleaseResources
<1>6. QED
  BY <1>1, <1>2, <1>3, <1>4, <1>5
     DEF Next, vars, Host, Tick, ProcessExits, ProcessStarts, Begins, BeginRegister,
         BeginUpdatePid, BeginHeartbeat, BeginClaim, BeginReserve, BeginCollect, Begin,
         Commits, Register, Heartbeat, UpdatePid, Claim, Fail, Direct, Release

\* The calls a step ends: none, or the one that commits or fails.
LEMMA OneCallEnds ==
  ASSUME [Next]_vars, NEW call \in calls \ calls', call.op = "reserve"
  PROVE  Reserve(call) \/ UNCHANGED <<clock, leases>>
<1>1. CASE Commits
  <2>1. PICK done \in calls :
          \/ Register(done) \/ Heartbeat(done) \/ UpdatePid(done)
          \/ Claim(done) \/ Reserve(done) \/ CollectStale(done) \/ Fail(done)
    BY <1>1 DEF Commits
  <2>2. done = call
    BY <2>1 DEF Finish, Register, Heartbeat, UpdatePid, Claim, Reserve, CollectStale, Fail
  <2>3. QED
    BY <2>1, <2>2 DEF Register, Heartbeat, UpdatePid, Claim, CollectStale, Fail
<1>2. CASE ~Commits
  <2>1. calls \subseteq calls'
    BY <1>2 DEF Next, vars, Host, Tick, ProcessExits, ProcessStarts, Begins, BeginRegister,
           BeginUpdatePid, BeginHeartbeat, BeginClaim, BeginReserve, BeginCollect, Begin,
           Direct, StopAgent, Release, ReleaseResources
  <2>2. QED
    BY <2>1
<1>3. QED
  BY <1>1, <1>2

(***************************************************************************)
(* Requests are all or nothing, for any request and any set of requests in *)
(* flight: none leaves its agent with a part of what it asked for.         *)
(***************************************************************************)
THEOREM RequestsAreWhole == Spec => AllOrNothing
<1>1. ASSUME TypeOK, TypeOK', StampsArePast, [Next]_vars,
             NEW call \in calls \ calls', call.op = "reserve",
             ~(HeldResources'[call.agent] \subseteq HeldResources[call.agent])
      PROVE  call.want \subseteq HeldResources'[call.agent]
  <2>1. call \in ReserveCall /\ call.agent \in Agents
    BY <1>1 DEF TypeOK, Call, RegisterCall, HeartbeatCall, PidCall, ClaimCall,
                ReserveCall, CollectCall
  <2>2. CASE Reserve(call)
    <3>1. HeldResources' = [HeldResources EXCEPT ![call.agent] = @ \cup call.want]
      BY <1>1, <2>1, <2>2, ReserveAcquires
    <3>2. HeldResources'[call.agent] = HeldResources[call.agent] \cup call.want
      BY <2>1, <3>1, ReservationTypes
    <3>3. QED
      BY <3>2
  <2>3. CASE UNCHANGED <<clock, leases>>
    BY <1>1, <2>3 DEF HeldResources, Live
  <2>4. QED
    BY <1>1, <2>2, <2>3, OneCallEnds
<1>2. TypeOK /\ TypeOK' /\ StampsArePast /\ [Next]_vars
        => [\A call \in calls \ calls' :
              call.op = "reserve" /\ ~(HeldResources'[call.agent] \subseteq HeldResources[call.agent])
                => call.want \subseteq HeldResources'[call.agent]]_vars
  BY <1>1
<1>3. QED
  BY <1>2, TypeCorrect, PastStamps, PTL DEF Spec, AllOrNothing

(***************************************************************************)
(* The resource_leases table is a lease service over resource keys: with   *)
(* late commits, expiry, garbage collection and partial overlap of paths,  *)
(* every step takes up a whole free request or only lets go.               *)
(***************************************************************************)
THEOREM ReservationsImplementLeaseService == Spec => ReservationsAreALeaseService
<1> USE LeasesAssumption
<1>1. Init => ReservationService!Init
  BY DEF Init, ReservationService!Init, HeldResources, NoRow, Live, Present
<1>2. ASSUME TypeOK, TypeOK', StampsArePast, [Next]_vars
      PROVE  ReservationService!Next
  <2>1. ASSUME \A a \in Agents : HeldResources'[a] \subseteq HeldResources[a]
        PROVE  ReservationService!Next
    <3>1. HeldResources' \in [Agents -> SUBSET Resources]
      BY DEF HeldResources
    <3>2. QED
      BY <2>1, <3>1 DEF ReservationService!Next, ReservationService!Lapse
  <2>2. ASSUME NEW call \in calls, call \in ReserveCall, Reserve(call),
               HeldResources' = [HeldResources EXCEPT ![call.agent] = @ \cup call.want],
               \A b \in Agents \ {call.agent} :
                 \A r \in call.want, s \in HeldResources[b] : ~Overlaps(r, s)
        PROVE  ReservationService!Next
    <3>1. call.agent \in Agents /\ call.want \in SUBSET Resources
      BY <2>2 DEF ReserveCall
    <3>2. ReservationService!Free(call.agent, call.want)
      <4>1. ASSUME NEW b \in Agents \ {call.agent}, NEW r \in call.want,
                   NEW s \in HeldResources[b]
            PROVE  <<r, s>> \notin OverlapPairs
        <5>1. ~Overlaps(r, s)
          BY <2>2
        <5>2. QED
          BY <5>1 DEF OverlapPairs
      <4>2. QED
        BY <4>1 DEF ReservationService!Free
    <3>3. ReservationService!Acquire(call.agent, call.want)
      BY <2>2, <3>2 DEF ReservationService!Acquire
    <3>4. QED
      BY <3>1, <3>3 DEF ReservationService!Next
  <2>3. CASE \A r \in Resources : leases'[r] = leases[r] \/ leases'[r] = NoRow
    BY <1>2, <2>1, <2>3, ClockMonotone, ReservationsLapse
  <2>4. QED
    BY <1>2, <2>1, <2>2, <2>3, ReservationSteps, ReserveAcquires
<1>3. TypeOK /\ TypeOK' /\ StampsArePast /\ [Next]_vars
        => [ReservationService!Next]_HeldResources
  BY <1>2
<1>4. QED
  BY <1>1, <1>3, TypeCorrect, PastStamps, PTL
     DEF Spec, ReservationsAreALeaseService, ReservationService!Spec
=============================================================================
