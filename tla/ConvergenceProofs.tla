-------------------------- MODULE ConvergenceProofs --------------------------
(***************************************************************************)
(* What the derivation of collisions keeps for any set of agents,          *)
(* checkouts, paths and changes: the types of the tables; that a contested *)
(* path is contested between checkouts, however the rows of sessions that  *)
(* share one have aged and wherever sessions have moved; that a conflict   *)
(* holds both sides back where each session speaks for itself; and that    *)
(* the ledger knows the contention while sessions stay where they are.     *)
(***************************************************************************)
EXTENDS Convergence, FiniteSetTheorems, WellFoundedInduction, TLAPS

Rows == [Paths -> Changes \cup {Clean}]

\* What a scan or a fingerprint can hold.
LEMMA BlankTypes ==
  /\ NoChanges \in Rows
  /\ NoFootprint \in Footprint
  /\ NoScan \in Scan
  /\ Idle \in Job
<1>1. NoChanges \in Rows BY DEF NoChanges, Rows
<1>2. NoFootprint \in Footprint BY <1>1 DEF NoFootprint, Footprint, Rows
<1>3. NoScan \in Scan BY <1>1 DEF NoScan, Scan, Rows
<1>4. Idle \in Job BY <1>3 DEF Idle, Job
<1>. QED BY <1>1, <1>2, <1>3, <1>4

\* A verdict is a name, whatever the participants.
LEMMA SeverityIsName == ASSUME NEW ps PROVE Classify(ps) \in Severities
  BY DEF Classify, Severities

\* So a fingerprint has the columns of an event.
LEMMA FingerprintIsEvent ==
  ASSUME NEW fp, NEW ag, NEW p \in Paths
  PROVE  Fingerprint(fp, ag, p) \in Event
<1>1. CASE Contested(fp, ag, p)
  BY <1>1, SeverityIsName DEF Fingerprint, Event, Voices
<1>2. CASE ~Contested(fp, ag, p)
  BY <1>2 DEF Fingerprint, Event, Silent
<1>. QED BY <1>1, <1>2

\* What publishing and withdrawing append are events.
LEMMA ToldIsEvents ==
  ASSUME told \in [Paths -> Event], NEW fp, NEW ag
  PROVE  /\ Announce(Fingerprints(fp, ag)) \in [Paths -> Event]
         /\ AnnounceEnds(Fingerprints(fp, ag)) \in [Paths -> Event]
<1>1. \A p \in Paths : Fingerprints(fp, ag)[p] \in Event
  BY FingerprintIsEvent DEF Fingerprints
<1>2. Silent \in Event BY DEF Silent, Event
<1>3. ASSUME NEW p \in Paths
      PROVE  /\ Announce(Fingerprints(fp, ag))[p] \in Event
             /\ AnnounceEnds(Fingerprints(fp, ag))[p] \in Event
  BY <1>1, <1>2 DEF Announce, AnnounceEnds
<1>. QED BY <1>3 DEF Announce, AnnounceEnds

LEMMA TypeInit == Init => TypeOK
<1>. SUFFICES ASSUME Init PROVE TypeOK OBVIOUS
<1>1. disk \in [Checkouts -> Worktree]
  <2>1. {NoChanges} \subseteq [Paths -> Changes \cup {Clean}] BY BlankTypes DEF Rows
  <2>2. [exists : {TRUE}, base : Bases, tree : {NoChanges}] \subseteq Worktree
    BY <2>1 DEF Worktree
  <2>. QED BY <2>2 DEF Init
<1>2. agents \in [Agents -> Session] BY DEF Init, Session
<1>3. footprints \in [Agents -> Footprint] /\ jobs \in [Jobs -> Job]
  BY BlankTypes DEF Init
<1>4. told \in [Paths -> Event] BY DEF Init, Event
<1>. QED BY <1>1, <1>2, <1>3, <1>4 DEF Init, TypeOK

\* Sessions and their moves touch the agents table alone.
LEMMA TypeSessions == TypeOK /\ (Sessions \/ Moves) => TypeOK'
<1>. SUFFICES ASSUME TypeOK, Sessions \/ Moves PROVE TypeOK' OBVIOUS
<1>. USE DEF TypeOK
<1>1. agents' \in [Agents -> Session] /\ UNCHANGED <<clock, disk, footprints, told, jobs>>
  <2>1. ASSUME NEW a \in Agents, NEW c \in Checkouts, RegisterAgent(a, c)
        PROVE  agents' \in [Agents -> Session] /\ UNCHANGED <<clock, disk, footprints, told, jobs>>
    BY <2>1 DEF RegisterAgent, Session
  <2>3. ASSUME NEW a \in Agents, NEW c \in Checkouts, UpdateAgentCheckout(a, c)
        PROVE  agents' \in [Agents -> Session] /\ UNCHANGED <<clock, disk, footprints, told, jobs>>
    BY <2>3 DEF UpdateAgentCheckout, Session
  <2>2. ASSUME NEW a \in Agents, Heartbeat(a) \/ StopAgent(a) \/ ProcessExits(a)
        PROVE  agents' \in [Agents -> Session] /\ UNCHANGED <<clock, disk, footprints, told, jobs>>
    BY <2>2 DEF Heartbeat, StopAgent, ProcessExits, Session
  <2>. QED BY <2>1, <2>2, <2>3 DEF Sessions, Moves
<1>. QED BY <1>1

\* Whoever works in a checkout changes the disk alone; the clock goes on.
LEMMA TypeWorktrees == TypeOK /\ (Worktrees \/ Tick) => TypeOK'
<1>. SUFFICES ASSUME TypeOK, Worktrees \/ Tick PROVE TypeOK' OBVIOUS
<1>. USE DEF TypeOK
<1>1. CASE Tick BY <1>1 DEF Tick
<1>2. CASE Worktrees
  <2>1. ASSUME NEW c \in Checkouts, NEW p \in Paths, NEW x \in Changes \cup {Clean}, Edit(c, p, x)
        PROVE  TypeOK'
    BY <2>1 DEF Edit, Worktree
  <2>2. ASSUME NEW c \in Checkouts, NEW b \in Bases, Rebase(c, b) PROVE TypeOK'
    BY <2>2 DEF Rebase, Worktree
  <2>3. ASSUME NEW c \in Checkouts, RemoveCheckout(c) PROVE TypeOK'
    BY <2>3, BlankTypes DEF RemoveCheckout, Worktree, Rows
  <2>4. ASSUME NEW c \in Checkouts, CreateCheckout(c) PROVE TypeOK'
    BY <2>4 DEF CreateCheckout, Worktree
  <2>. QED BY <1>2, <2>1, <2>2, <2>3, <2>4 DEF Worktrees
<1>. QED BY <1>1, <1>2

\* A job moves through its phases and fills its columns.
LEMMA TypeJobs ==
  ASSUME TypeOK,
         \/ \E w \in Watchers : StartSweep(w)
         \/ \E s \in Syncs, a \in Agents, c \in Checkouts : StartSync(s, a, c)
         \/ \E j \in Jobs : (\E c \in Checkouts : ScanCheckout(j, c)) \/ Stamp(j) \/ Fail(j)
  PROVE  TypeOK'
<1>. USE DEF TypeOK
<1>1. ASSUME NEW j \in Jobs, NEW ask \in [Agents -> Checkouts \cup {Nowhere}], Start(j, ask)
      PROVE  TypeOK'
  <2>1. [jobs[j] EXCEPT !.phase = "scanning", !.ask = ask] \in Job BY DEF Job
  <2>2. jobs' \in [Jobs -> Job] BY <1>1, <2>1 DEF Start, Job
  <2>. QED BY <1>1, <2>2 DEF Start
<1>2. ASSUME NEW w \in Watchers, StartSweep(w) PROVE TypeOK'
  <2>1. [a \in Agents |-> IF Live(a) THEN agents[a].checkout ELSE Nowhere]
          \in [Agents -> Checkouts \cup {Nowhere}]
    BY DEF Session
  <2>. QED BY <1>1, <1>2, <2>1 DEF StartSweep, Jobs
<1>3. ASSUME NEW s \in Syncs, NEW a \in Agents, NEW c \in Checkouts, StartSync(s, a, c)
      PROVE  TypeOK'
  <2>1. [b \in Agents |-> IF b = a THEN c ELSE Nowhere] \in [Agents -> Checkouts \cup {Nowhere}]
    OBVIOUS
  <2>. QED BY <1>1, <1>3, <2>1 DEF StartSync, Jobs
<1>4. ASSUME NEW j \in Jobs, NEW c \in Checkouts, ScanCheckout(j, c) PROVE TypeOK'
  <2>. DEFINE seen == [base |-> disk[c].base, rows |-> disk[c].tree]
              here == {a \in Agents : jobs[j].ask[a] = c}
              asks == [a \in Agents |-> IF a \in here THEN Nowhere ELSE jobs[j].ask[a]]
              gets == [a \in Agents |-> IF a \in here /\ disk[c].exists THEN seen
                                        ELSE jobs[j].got[a]]
  <2>1. seen \in Scan BY DEF Worktree, Scan
  <2>2. jobs[j] \in Job OBVIOUS
  <2>3. asks \in [Agents -> Checkouts \cup {Nowhere}] BY <2>2 DEF Job
  <2>4. gets \in [Agents -> Scan] BY <2>1, <2>2 DEF Job
  <2>5. jobs' = [jobs EXCEPT ![j].ask = asks, ![j].got = gets] BY <1>4, <2>2 DEF ScanCheckout, Job
  <2>. HIDE DEF seen, here, asks, gets
  <2>6. jobs' \in [Jobs -> Job] BY <2>2, <2>3, <2>4, <2>5 DEF Job
  <2>. QED BY <1>4, <2>6 DEF ScanCheckout
<1>5. ASSUME NEW j \in Jobs, Stamp(j) PROVE TypeOK'
  <2>1. [jobs[j] EXCEPT !.phase = "publishing", !.at = clock] \in Job BY DEF Job
  <2>2. jobs' \in [Jobs -> Job] BY <1>5, <2>1, BlankTypes DEF Stamp
  <2>. QED BY <1>5, <2>2 DEF Stamp
<1>6. ASSUME NEW j \in Jobs, Fail(j) PROVE TypeOK'
  BY <1>6, BlankTypes DEF Fail
<1>. QED BY <1>2, <1>3, <1>4, <1>5, <1>6

\* Publishing writes what a scan saw, withdrawing leaves nothing.
LEMMA TypeFootprints ==
  ASSUME TypeOK, (\E j \in Jobs : Publish(j)) \/ Cleaning
  PROVE  TypeOK'
<1>. USE DEF TypeOK
<1>1. ASSUME NEW j \in Jobs, Publish(j) PROVE TypeOK'
  <2>1. \A a \in Agents : jobs[j].got[a] \in Scan /\ jobs[j].at \in Nat BY DEF Job
  <2>2. \A a \in Agents : Written(jobs[j].got[a], jobs[j].at) \in Footprint
    BY <2>1, BlankTypes DEF Written, Scan, Footprint
  <2>3. footprints' \in [Agents -> Footprint] BY <1>1, <2>2 DEF Publish
  <2>4. told' \in [Paths -> Event] BY <1>1, ToldIsEvents DEF Publish
  <2>5. jobs' \in [Jobs -> Job] BY <1>1, BlankTypes DEF Publish
  <2>. QED BY <1>1, <2>3, <2>4, <2>5 DEF Publish
<1>2. ASSUME NEW a \in Agents, ReleaseFootprint(a) PROVE TypeOK'
  BY <1>2, BlankTypes, ToldIsEvents DEF ReleaseFootprint
<1>3. ASSUME NEW D \in SUBSET Agents, CollectStale(D) PROVE TypeOK'
  <2>1. agents' \in [Agents -> Session] BY <1>3 DEF CollectStale, Session
  <2>2. footprints' \in [Agents -> Footprint] BY <1>3, BlankTypes DEF CollectStale
  <2>3. told' \in [Paths -> Event] BY <1>3, ToldIsEvents DEF CollectStale
  <2>. QED BY <1>3, <2>1, <2>2, <2>3 DEF CollectStale
<1>. QED BY <1>1, <1>2, <1>3 DEF Cleaning

\* Every step keeps the types.
LEMMA TypeNext == TypeOK /\ [Next]_vars => TypeOK'
<1>. SUFFICES ASSUME TypeOK, [Next]_vars PROVE TypeOK' OBVIOUS
<1>1. CASE Sessions \/ Moves BY <1>1, TypeSessions
<1>2. CASE Worktrees \/ Tick BY <1>2, TypeWorktrees
<1>3. CASE Scanning BY <1>3, TypeJobs, TypeFootprints DEF Scanning
<1>4. CASE Cleaning BY <1>4, TypeFootprints
<1>5. CASE UNCHANGED vars BY <1>5 DEF TypeOK, vars
<1>. QED BY <1>1, <1>2, <1>3, <1>4, <1>5 DEF Next, NextInPlace

(***************************************************************************)
(* Types: whatever the sessions, checkouts and scans do, the tables, the   *)
(* events and the jobs keep their columns.                                 *)
(***************************************************************************)
THEOREM TypeCorrect == Spec => []TypeOK
  BY TypeInit, TypeNext, PTL DEF Spec

-----------------------------------------------------------------------------
\* Of two sessions with a row at a path of one checkout, one outranks the other.
LEMMA OneOutranks ==
  ASSUME TypeOK, NEW a \in Agents, NEW b \in Agents, a # b, NEW p \in Paths,
         agents[a].checkout = agents[b].checkout,
         Touches(footprints, a, p), Touches(footprints, b, p)
  PROVE  Outranked(footprints, agents, a, b, p) \/ Outranked(footprints, agents, b, a, p)
<1>1. a \in Nat /\ b \in Nat BY ConvergenceAssumption
<1>2. footprints[a].at \in Nat /\ footprints[b].at \in Nat BY DEF TypeOK, Footprint
<1>. QED BY <1>1, <1>2 DEF Outranked

(***************************************************************************)
(* "Contention is keyed on checkout rather than agent": for any number of  *)
(* sessions to a checkout, in any state of their rows and wherever they    *)
(* moved, a contested path never has two voices of one checkout.           *)
(***************************************************************************)
THEOREM ContentionBetweenCheckouts == Spec => []ContentionIsBetweenCheckouts
<1>1. TypeOK => ContentionIsBetweenCheckouts
  <2>. SUFFICES ASSUME TypeOK, NEW p \in Paths, NEW a \in Voices(footprints, agents, p),
                       NEW b \in Voices(footprints, agents, p), a # b
                PROVE  agents[a].checkout # agents[b].checkout
    BY DEF ContentionIsBetweenCheckouts
  <2>. QED BY OneOutranks DEF Voices
<1>. QED BY <1>1, TypeCorrect, PTL

-----------------------------------------------------------------------------
(***************************************************************************)
(* The gate judges a pair the same from either side.                       *)
(***************************************************************************)
LEMMA PairIsSymmetric ==
  ASSUME NEW x, NEW y
  PROVE  Benign(Classify(<<x, y>>)) <=> Benign(Classify(<<y, x>>))
<1>1. ASSUME NEW u, NEW v
      PROVE  Benign(Classify(<<u, v>>)) <=>
               \/ u.kind = Deleted /\ v.kind = Deleted
               \/ /\ u.kind # Deleted /\ v.kind # Deleted
                  /\ \/ u.digest # None /\ v.digest = u.digest
                     \/ /\ u.ranges # None /\ v.ranges # None
                        /\ \A l \in UNION u.ranges, r \in UNION v.ranges : ~RegionsTouch(l, r)
  <2> DEFINE ps == <<u, v>>
  <2>1. DOMAIN ps = {1, 2} /\ ps[1] = u /\ ps[2] = v
    OBVIOUS
  <2> HIDE DEF ps
  <2>2. SameContent(ps) <=> u.digest # None /\ v.digest = u.digest
    BY <2>1 DEF SameContent
  <2>3. DisjointRegions(ps) <=>
          /\ u.ranges # None /\ v.ranges # None
          /\ \A l \in UNION u.ranges, r \in UNION v.ranges : ~RegionsTouch(l, r)
    BY <2>1 DEF DisjointRegions
  <2>4. Benign(Classify(ps)) <=>
          \/ u.kind = Deleted /\ v.kind = Deleted
          \/ /\ u.kind # Deleted /\ v.kind # Deleted
             /\ SameContent(ps) \/ DisjointRegions(ps)
    BY <2>1 DEF Classify, Benign
  <2>5. QED
    BY <2>2, <2>3, <2>4 DEF ps
<1>2. \A l, r : RegionsTouch(l, r) <=> RegionsTouch(r, l)
  BY DEF RegionsTouch
<1>3. QED
  BY <1>1, <1>2

(***************************************************************************)
(* Where no two sessions share a checkout, a live conflict that both sides *)
(* observed holds both back, for any mesh and any head.                    *)
(***************************************************************************)
THEOREM ConflictsBlockBoth == Spec => []ConflictBlocksBothAlone
<1>1. TypeOK => ConflictBlocksBothAlone
  <2>1. ASSUME TypeOK,
               \A a, b \in Agents : a # b => agents[a].checkout # agents[b].checkout,
               NEW a \in Agents, NEW p \in Paths, Touches(footprints, a, p)
        PROVE  a \in Voices(footprints, agents, p)
    <3>1. a \in Nat
      BY ConvergenceAssumption
    <3>2. footprints[a].at \in Nat
      BY <2>1 DEF TypeOK, Footprint
    <3>3. ~Outranked(footprints, agents, a, a, p)
      BY <3>1, <3>2 DEF Outranked
    <3>4. \A b \in Agents \ {a} : ~Outranked(footprints, agents, a, b, p)
      BY <2>1 DEF Outranked
    <3>5. QED
      BY <2>1, <3>3, <3>4 DEF Voices
  <2>2. ASSUME TypeOK,
               \A a, b \in Agents : a # b => agents[a].checkout # agents[b].checkout,
               NEW a \in Agents, NEW b \in Agents, NEW p \in Paths, Live(b), a # b,
               Touches(footprints, a, p), Touches(footprints, b, p),
               ~Benign(Classify(<<footprints[a].rows[p], footprints[b].rows[p]>>)),
               NEW head
        PROVE  ~Mergeable(a, head)
    <3>1. a \in Voices(footprints, agents, p) /\ b \in Voices(footprints, agents, p)
      BY <2>1, <2>2
    <3>2. b \in ConflictingPeers(a, p)
      BY <2>2, <3>1 DEF ConflictingPeers, Running, Live
    <3>3. QED
      BY <3>2 DEF Mergeable
  <2>3. SUFFICES ASSUME TypeOK,
                        \A a, b \in Agents : a # b => agents[a].checkout # agents[b].checkout,
                        NEW a \in Agents, NEW b \in Agents, NEW p \in Paths,
                        Live(a), Live(b), agents[a].checkout # agents[b].checkout,
                        Touches(footprints, a, p), Touches(footprints, b, p),
                        ~Benign(Classify(<<footprints[a].rows[p], footprints[b].rows[p]>>)),
                        NEW head \in Bases
                 PROVE  ~Mergeable(a, head) /\ ~Mergeable(b, head)
    BY DEF ConflictBlocksBothAlone, LiveConflictBlocksBoth
  <2>4. ~Benign(Classify(<<footprints[b].rows[p], footprints[a].rows[p]>>))
    BY <2>3, PairIsSymmetric
  <2>5. QED
    BY <2>2, <2>3, <2>4
<1>2. QED
  BY <1>1, TypeCorrect, PTL

-----------------------------------------------------------------------------
(***************************************************************************)
(* Which paths are contested, without the ranking: the voice of a checkout *)
(* is one of the sessions that touch the path there, and it exists because *)
(* rows have no time in the future.                                        *)
(***************************************************************************)
Dated(fp, now) == \A a \in Agents : fp[a].at \in 0..now

Opposed(fp, ag, p) ==
  \E a, b \in Agents : /\ Touches(fp, a, p) /\ Touches(fp, b, p)
                       /\ ag[a].checkout # ag[b].checkout

LEMMA LeastNatural ==
  ASSUME NEW T \in SUBSET Nat, T # {}
  PROVE  \E x \in T : \A y \in T : x <= y
<1> DEFINE R == OpToRel(<, Nat)
<1>1. IsWellFoundedOn(R, Nat)
  BY NatLessThanWellFounded
<1>2. \A x, y \in T : x < y <=> <<x, y>> \in R
  BY DEF OpToRel
<1> HIDE DEF R
<1>3. PICK x \in T : \A y \in T : <<y, x>> \notin R
  BY <1>1, WFMin
<1>4. ASSUME NEW y \in T
      PROVE  x <= y
  <2>1. ~(y < x) /\ x \in Nat /\ y \in Nat
    BY <1>2, <1>3
  <2>2. QED
    BY <2>1
<1>5. QED
  BY <1>4

LEMMA CheckoutHasAVoice ==
  ASSUME NEW now \in Nat, NEW fp, Dated(fp, now), NEW ag, NEW p, NEW a \in Agents, Touches(fp, a, p)
  PROVE  \E v \in Voices(fp, ag, p) : ag[v].checkout = ag[a].checkout
<1> DEFINE T == {b \in Agents : Touches(fp, b, p) /\ ag[b].checkout = ag[a].checkout}
           Ages == {now - fp[b].at : b \in T}
<1>1. \A b \in T : fp[b].at \in 0..now
  BY DEF Dated
<1>2. Ages \in SUBSET Nat /\ Ages # {}
  <2>1. a \in T
    OBVIOUS
  <2>2. \A b \in T : now - fp[b].at \in Nat
    BY <1>1
  <2> HIDE DEF T
  <2>3. QED
    BY <2>1, <2>2
<1>3. PICK m \in Ages : \A y \in Ages : m <= y
  BY <1>2, LeastNatural
<1> DEFINE Newest == {b \in T : now - fp[b].at = m}
<1>4. Newest \in SUBSET Nat /\ Newest # {}
  <2>1. \A b \in T : b \in Nat
    BY ConvergenceAssumption
  <2> HIDE DEF T
  <2>2. QED
    BY <1>3, <2>1
<1>5. PICK v \in Newest : \A w \in Newest : v <= w
  BY <1>4, LeastNatural
<1>6. ASSUME NEW b \in T
      PROVE  ~Outranked(fp, ag, v, b, p)
  <2>1. /\ fp[b].at \in Nat /\ fp[v].at \in Nat /\ b \in Nat /\ v \in Nat
        /\ now - fp[v].at = m /\ m \in Nat
    BY <1>1, <1>2, <1>4, <1>5, ConvergenceAssumption
  <2>2. m <= now - fp[b].at
    BY <1>3
  <2>3. fp[b].at = fp[v].at => v <= b
    BY <1>5, <2>1
  <2> HIDE DEF T, Ages, Newest
  <2>4. QED
    BY <2>1, <2>2, <2>3 DEF Outranked
<1>7. v \in T
  BY <1>5
<1>8. \A b \in Agents : ~Outranked(fp, ag, v, b, p)
  BY <1>6, <1>7 DEF Outranked
<1>9. QED
  BY <1>7, <1>8 DEF Voices

LEMMA ContestedIsOpposed ==
  ASSUME NEW now \in Nat, NEW fp, Dated(fp, now), NEW ag, NEW p
  PROVE  Contested(fp, ag, p) <=> Opposed(fp, ag, p)
<1> DEFINE V == Voices(fp, ag, p)
<1>1. IsFiniteSet(V) /\ Cardinality(V) \in Nat
  <2>1. V \subseteq Agents
    BY DEF Voices
  <2>2. QED
    BY <2>1, ConvergenceAssumption, FS_Subset, FS_CardinalityType
<1>2. Cardinality(V) > 1 <=> \E a, b \in V : a # b
  <2>1. Cardinality(V) = 0 <=> V = {}
    BY <1>1, FS_EmptySet
  <2>2. Cardinality(V) = 1 <=> \E x : V = {x}
    BY <1>1, FS_Singleton
  <2> HIDE DEF V
  <2>3. QED
    BY <1>1, <2>1, <2>2
<1>3. ASSUME NEW a \in V, NEW b \in V, a # b
      PROVE  Opposed(fp, ag, p)
  <2>1. /\ a \in Agents /\ b \in Agents /\ Touches(fp, a, p) /\ Touches(fp, b, p)
        /\ ~Outranked(fp, ag, a, b, p) /\ ~Outranked(fp, ag, b, a, p)
    BY DEF Voices
  <2>2. a \in Nat /\ b \in Nat
    BY <2>1, ConvergenceAssumption
  <2>3. fp[a].at \in Nat /\ fp[b].at \in Nat
    BY <2>1 DEF Dated
  <2>4. ag[a].checkout # ag[b].checkout
    BY <1>3, <2>1, <2>2, <2>3 DEF Outranked
  <2>5. QED
    BY <2>1, <2>4 DEF Opposed
<1>4. ASSUME Opposed(fp, ag, p)
      PROVE  \E a, b \in V : a # b
  <2>1. PICK a, b \in Agents : /\ Touches(fp, a, p) /\ Touches(fp, b, p)
                               /\ ag[a].checkout # ag[b].checkout
    BY <1>4 DEF Opposed
  <2>2. PICK v \in V : ag[v].checkout = ag[a].checkout
    BY <2>1, CheckoutHasAVoice
  <2>3. PICK w \in V : ag[w].checkout = ag[b].checkout
    BY <2>1, CheckoutHasAVoice
  <2>4. v # w
    BY <2>1, <2>2, <2>3
  <2>5. QED
    BY <2>2, <2>3, <2>4
<1>5. QED
  BY <1>2, <1>3, <1>4 DEF Contested

LEMMA FingerprintSpeaks ==
  ASSUME NEW fp, NEW ag, NEW p
  PROVE  Fingerprint(fp, ag, p) = Silent <=> ~Contested(fp, ag, p)
<1>1. Classify(Participants(fp, ag, p)) # "none"
  BY SeverityIsName DEF Severities
<1>2. QED
  BY <1>1 DEF Fingerprint, Silent

(***************************************************************************)
(* No row and no scan is of the future, and a session nobody registered    *)
(* has neither rows nor a scan that asks for it.                           *)
(***************************************************************************)
Past ==
  /\ Dated(footprints, clock)
  /\ \A j \in Jobs : jobs[j].at \in 0..clock

Strangers ==
  \A a \in Agents : ~Registered(a) =>
    /\ footprints[a] = NoFootprint
    /\ \A j \in Jobs : jobs[j].ask[a] = Nowhere /\ jobs[j].got[a] = NoScan

ToldInv == TypeOK /\ Past /\ Strangers /\ ContentionIsTold

LEMMA BlankIsDated == NoFootprint.at = 0 /\ Idle.at = 0
BY DEF NoFootprint, Idle

LEMMA PastSteps == TypeOK /\ TypeOK' /\ Past /\ [NextInPlace]_vars => Past'
<1> SUFFICES ASSUME TypeOK, TypeOK', Past, [NextInPlace]_vars
             PROVE  Past'
  OBVIOUS
<1>1. clock \in Nat /\ clock' \in Nat /\ 0 \in 0..clock /\ clock \in 0..clock
  BY DEF TypeOK
<1>2. ASSUME clock' = clock, NEW fp, Dated(fp, clock), footprints' = fp,
             \A j \in Jobs : jobs'[j].at \in 0..clock
      PROVE  Past'
  BY <1>2 DEF Past, Dated
<1>3. CASE UNCHANGED <<clock, footprints, jobs>>
  BY <1>3 DEF Past, Dated
<1>4. CASE Tick
  BY <1>1, <1>4 DEF Tick, Past, Dated
<1>5. ASSUME NEW j \in Jobs, NEW job, job.at \in 0..clock,
             jobs' = [jobs EXCEPT ![j] = job], UNCHANGED <<clock, footprints>>
      PROVE  Past'
  BY <1>5 DEF Past, Dated, TypeOK
<1>6. ASSUME NEW j \in Jobs, NEW ask, Start(j, ask) \/ (\E c \in Checkouts : ScanCheckout(j, c))
      PROVE  Past'
  <2>1. UNCHANGED <<clock, footprints>>
    BY <1>6 DEF Start, ScanCheckout
  <2>2. \A i \in Jobs : jobs'[i].at = jobs[i].at
    <3>1. jobs[j] \in Job /\ DOMAIN jobs = Jobs
      BY DEF TypeOK
    <3>2. CASE Start(j, ask)
      BY <3>1, <3>2 DEF Start, Job
    <3>3. ASSUME NEW c \in Checkouts, ScanCheckout(j, c)
          PROVE  \A i \in Jobs : jobs'[i].at = jobs[i].at
      <4>1. PICK asks, gets : jobs' = [jobs EXCEPT ![j].ask = asks, ![j].got = gets]
        BY <3>1, <3>3 DEF ScanCheckout
      <4>2. QED
        BY <3>1, <4>1 DEF Job
    <3>4. QED
      BY <1>6, <3>2, <3>3
  <2>3. QED
    BY <2>1, <2>2 DEF Past, Dated
<1>7. ASSUME NEW j \in Jobs, Stamp(j)
      PROVE  Past'
  <2>1. jobs[j] \in Job
    BY DEF TypeOK
  <2>2. [jobs[j] EXCEPT !.phase = "publishing", !.at = clock].at = clock
    BY <2>1 DEF Job
  <2>3. QED
    BY <1>1, <1>5, <1>7, <2>2, BlankIsDated DEF Stamp, TypeOK
<1>8. ASSUME NEW j \in Jobs, Fail(j)
      PROVE  Past'
  BY <1>1, <1>5, <1>8, BlankIsDated DEF Fail
<1>9. ASSUME NEW j \in Jobs, Publish(j)
      PROVE  Past'
  <2>1. \A a \in Agents : footprints'[a] = footprints[a]
                            \/ footprints'[a] = Written(jobs[j].got[a], jobs[j].at)
    BY <1>9 DEF Publish
  <2>2. jobs[j].at \in 0..clock /\ Dated(footprints, clock)
    BY DEF Past
  <2>3. \A a \in Agents : footprints'[a].at \in 0..clock
    <3>1. \A scan, at : Written(scan, at).at \in {0, at}
      BY BlankIsDated DEF Written
    <3>2. QED
      BY <1>1, <2>1, <2>2, <3>1 DEF Dated
  <2>4. clock' = clock /\ \A i \in Jobs : jobs'[i].at \in 0..clock
    BY <1>1, <1>9, BlankIsDated DEF Publish, Past, TypeOK
  <2>5. QED
    BY <2>3, <2>4 DEF Past, Dated
<1>10. ASSUME NEW D, CollectStale(D) \/ (\E a \in Agents : ReleaseFootprint(a))
       PROVE  Past'
  <2>1. \A a \in Agents : footprints'[a] \in {footprints[a], NoFootprint}
    BY <1>10 DEF CollectStale, ReleaseFootprint, TypeOK
  <2>2. UNCHANGED <<clock, jobs>>
    BY <1>10 DEF CollectStale, ReleaseFootprint
  <2>3. \A a \in Agents : footprints'[a].at \in 0..clock
    BY <1>1, <2>1, BlankIsDated DEF Past, Dated
  <2>4. QED
    BY <2>2, <2>3 DEF Past, Dated
<1>11. CASE Sessions \/ Worktrees
  BY <1>3, <1>11 DEF Sessions, RegisterAgent, Heartbeat, StopAgent, ProcessExits,
                     Worktrees, Edit, Rebase, RemoveCheckout, CreateCheckout
<1>12. CASE Scanning
  BY <1>6, <1>7, <1>8, <1>9, <1>12 DEF Scanning, StartSweep, StartSync, Jobs
<1>13. CASE UNCHANGED vars
  BY <1>3, <1>13 DEF vars
<1>14. QED
  BY <1>4, <1>10, <1>11, <1>12, <1>13 DEF NextInPlace, Cleaning

\* Nobody asks for, scans for or writes rows of a session that is not there.
LEMMA StrangersSteps == TypeOK /\ Strangers /\ [NextInPlace]_vars => Strangers'
<1> SUFFICES ASSUME TypeOK, Strangers, [NextInPlace]_vars
             PROVE  Strangers'
  OBVIOUS
<1>1. ASSUME \A a \in Agents : Registered(a) => agents'[a].status # "absent",
             \A a \in Agents : ~Registered(a) =>
               /\ footprints'[a] = footprints[a]
               /\ \A j \in Jobs : /\ jobs'[j].ask[a] \in {jobs[j].ask[a], Nowhere}
                                  /\ jobs'[j].got[a] \in {jobs[j].got[a], NoScan}
      PROVE  Strangers'
  BY <1>1 DEF Strangers, Registered
<1>2. \A a \in Agents : Idle.ask[a] = Nowhere /\ Idle.got[a] = NoScan
  BY DEF Idle
<1>3. ASSUME UNCHANGED <<footprints, jobs>>,
             \A a \in Agents : Registered(a) => agents'[a].status # "absent"
      PROVE  Strangers'
  BY <1>1, <1>3
<1>4. CASE Sessions
  <2>1. UNCHANGED <<footprints, jobs>>
    BY <1>4 DEF Sessions, RegisterAgent, Heartbeat, StopAgent, ProcessExits
  <2>2. ASSUME NEW a \in Agents, Registered(a)
        PROVE  agents'[a].status # "absent"
    <3>1. ASSUME NEW b \in Agents, NEW c \in Checkouts, RegisterAgent(b, c)
          PROVE  agents'[a].status # "absent"
      BY <2>2, <3>1 DEF RegisterAgent, Registered, TypeOK
    <3>2. ASSUME NEW b \in Agents, Heartbeat(b) \/ StopAgent(b) \/ ProcessExits(b)
          PROVE  agents'[a].status # "absent"
      BY <2>2, <3>2 DEF Heartbeat, StopAgent, ProcessExits, Registered, TypeOK, Session
    <3>3. QED
      BY <1>4, <3>1, <3>2 DEF Sessions
  <2>3. QED
    BY <1>3, <2>1, <2>2
<1>5. CASE Worktrees \/ Tick
  BY <1>3, <1>5 DEF Worktrees, Edit, Rebase, RemoveCheckout, CreateCheckout, Tick, Registered
<1>6. ASSUME NEW j \in Jobs, NEW ask, Start(j, ask),
             \A a \in Agents : ~Registered(a) => ask[a] = Nowhere
      PROVE  Strangers'
  <2>1. jobs[j] \in Job /\ UNCHANGED <<agents, footprints>>
    BY <1>6 DEF Start, TypeOK
  <2>2. \A i \in Jobs : jobs'[i].got = jobs[i].got /\ jobs'[i].ask \in {jobs[i].ask, ask}
    BY <1>6, <2>1 DEF Start, TypeOK, Job
  <2>3. \A a \in Agents, i \in Jobs : ~Registered(a) =>
          jobs'[i].got[a] = jobs[i].got[a] /\ jobs'[i].ask[a] \in {jobs[i].ask[a], Nowhere}
    BY <1>6, <2>2
  <2>4. QED
    BY <1>1, <2>1, <2>3 DEF Registered
<1>7. ASSUME NEW j \in Jobs, NEW c \in Checkouts, ScanCheckout(j, c)
      PROVE  Strangers'
  <2>. DEFINE here == {a \in Agents : jobs[j].ask[a] = c}
              asks == [a \in Agents |-> IF a \in here THEN Nowhere ELSE jobs[j].ask[a]]
              gets == [a \in Agents |-> IF a \in here /\ disk[c].exists
                                          THEN [base |-> disk[c].base, rows |-> disk[c].tree]
                                          ELSE jobs[j].got[a]]
  <2>1. jobs[j] \in Job /\ UNCHANGED <<agents, footprints>>
    BY <1>7 DEF ScanCheckout, TypeOK
  <2>2. jobs' = [jobs EXCEPT ![j].ask = asks, ![j].got = gets]
    BY <1>7, <2>1 DEF ScanCheckout, Job
  <2>3. \A a \in Agents : ~Registered(a) => asks[a] = Nowhere /\ gets[a] = NoScan
    BY ConvergenceAssumption DEF Strangers
  <2> HIDE DEF asks, gets, here
  <2>4. \A i \in Jobs : /\ i # j => jobs'[i] = jobs[i]
                        /\ i = j => jobs'[i].ask = asks /\ jobs'[i].got = gets
    BY <2>1, <2>2 DEF TypeOK, Job
  <2>5. QED
    BY <1>1, <2>1, <2>3, <2>4 DEF Registered
<1>8. ASSUME NEW j \in Jobs, Stamp(j) \/ Fail(j)
      PROVE  Strangers'
  <2>1. jobs[j] \in Job /\ UNCHANGED <<agents, footprints>>
    BY <1>8 DEF Stamp, Fail, TypeOK
  <2>2. PICK job \in {Idle, [jobs[j] EXCEPT !.phase = "publishing", !.at = clock]} :
          jobs' = [jobs EXCEPT ![j] = job]
    BY <1>8 DEF Stamp, Fail, TypeOK
  <2>3. job.ask \in {Idle.ask, jobs[j].ask} /\ job.got \in {Idle.got, jobs[j].got}
    BY <2>1, <2>2 DEF Job
  <2>4. \A i \in Jobs : jobs'[i] = IF i = j THEN job ELSE jobs[i]
    BY <2>2 DEF TypeOK
  <2> HIDE DEF Idle
  <2>5. \A i \in Jobs : /\ jobs'[i].ask \in {jobs[i].ask, Idle.ask}
                        /\ jobs'[i].got \in {jobs[i].got, Idle.got}
    BY <2>3, <2>4
  <2>6. QED
    BY <1>1, <1>2, <2>1, <2>5 DEF Registered
<1>9. ASSUME NEW j \in Jobs, Publish(j)
      PROVE  Strangers'
  <2>1. \A a \in Agents : ~Registered(a) => footprints'[a] = footprints[a]
    BY <1>9 DEF Publish, Batch, Strangers
  <2>2. \A i \in Jobs : jobs'[i] \in {jobs[i], Idle}
    BY <1>9 DEF Publish, TypeOK
  <2>3. QED
    BY <1>1, <1>2, <1>9, <2>1, <2>2 DEF Publish, Registered
<1>10. ASSUME NEW a \in Agents, ReleaseFootprint(a)
       PROVE  Strangers'
  BY <1>1, <1>10 DEF ReleaseFootprint, Registered, TypeOK
<1>11. ASSUME NEW D \in SUBSET Agents, CollectStale(D)
       PROVE  Strangers'
  <2>1. UNCHANGED jobs
    BY <1>11 DEF CollectStale
  <2>2. \A a \in Agents : ~Registered(a) => footprints'[a] = footprints[a]
    BY <1>11 DEF CollectStale, Strangers
  <2>3. \A a \in Agents : Registered(a) => agents'[a].status # "absent"
    BY <1>11 DEF CollectStale, Registered, TypeOK, Session
  <2>4. QED
    BY <1>1, <2>1, <2>2, <2>3
<1>12. CASE Scanning
  <2>1. ASSUME NEW w \in Watchers, StartSweep(w)
        PROVE  Strangers'
    BY <1>6, <2>1 DEF StartSweep, Live, Registered, Jobs
  <2>2. ASSUME NEW s \in Syncs, NEW a \in Agents, NEW c \in Checkouts, StartSync(s, a, c)
        PROVE  Strangers'
    <3>1. \A b \in Agents : ~Registered(b) =>
            [x \in Agents |-> IF x = a THEN c ELSE Nowhere][b] = Nowhere
      BY <2>2 DEF StartSync
    <3>2. QED
      BY <1>6, <2>2, <3>1 DEF StartSync, Jobs
  <2>3. QED
    BY <1>7, <1>8, <1>9, <1>12, <2>1, <2>2 DEF Scanning
<1>13. CASE UNCHANGED vars
  BY <1>3, <1>13 DEF vars, Registered
<1>14. QED
  BY <1>4, <1>5, <1>10, <1>11, <1>12, <1>13 DEF NextInPlace, Cleaning

\* Which paths are opposed depends on who touches them and where they sit.
LEMMA OpposedAlike ==
  ASSUME NEW fp, NEW gp, NEW ag, NEW bg, NEW p,
         \A a \in Agents : Touches(fp, a, p) =>
           Touches(gp, a, p) /\ bg[a].checkout = ag[a].checkout
  PROVE  Opposed(fp, ag, p) => Opposed(gp, bg, p)
  BY DEF Opposed

\* So the ledger stays right as long as the rows and the checkouts of their owners do.
LEMMA SameRowsSameTold ==
  ASSUME ToldInv, TypeOK', Past', UNCHANGED <<footprints, told>>,
         \A a \in Agents : Registered(a) => agents'[a].checkout = agents[a].checkout
  PROVE  ContentionIsTold'
<1>1. \A a \in Agents, p \in Paths : Touches(footprints, a, p) => Registered(a)
  BY DEF ToldInv, Strangers, Touches, NoFootprint, NoChanges
<1>2. ASSUME NEW p \in Paths
      PROVE  Opposed(footprints', agents', p) <=> Opposed(footprints, agents, p)
  <2>1. \A a \in Agents : Touches(footprints, a, p) => agents'[a].checkout = agents[a].checkout
    BY <1>1
  <2>2. QED
    BY <2>1, OpposedAlike
<1>3. clock \in Nat /\ clock' \in Nat /\ Dated(footprints, clock) /\ Dated(footprints', clock')
  BY DEF ToldInv, TypeOK, Past, Dated
<1>4. \A p \in Paths :
        Contested(footprints', agents', p) <=> Contested(footprints, agents, p)
  BY <1>2, <1>3, ContestedIsOpposed
<1>5. QED
  BY <1>4 DEF ToldInv, ContentionIsTold

\* Publishing says what it brings about.
LEMMA PublishTells ==
  ASSUME ToldInv, NEW j \in Jobs, Publish(j)
  PROVE  ContentionIsTold'
<1>1. told' = Announce(Fingerprints(footprints', agents')) /\ agents' = agents
  BY DEF Publish
<1>2. ASSUME NEW p \in Paths
      PROVE  told'[p] # Silent <=> Contested(footprints', agents', p)
  <2>1. told'[p] = IF Fingerprint(footprints', agents', p) # Fingerprint(footprints, agents, p)
                     THEN Fingerprint(footprints', agents', p) ELSE told[p]
    BY <1>1 DEF Announce, Fingerprints
  <2>2. told[p] # Silent <=> Contested(footprints, agents, p)
    BY DEF ToldInv, ContentionIsTold
  <2>3. /\ Fingerprint(footprints, agents, p) = Silent <=> ~Contested(footprints, agents, p)
        /\ Fingerprint(footprints', agents', p) = Silent <=> ~Contested(footprints', agents', p)
    BY FingerprintSpeaks
  <2>4. QED
    BY <2>1, <2>2, <2>3
<1>3. QED
  BY <1>2 DEF ContentionIsTold

\* Withdrawing rows can end contention but not begin it, so the ends are all there is to say.
LEMMA WithdrawalTells ==
  ASSUME ToldInv, Past', TypeOK', clock' = clock,
         \A a \in Agents : /\ footprints'[a] \in {footprints[a], NoFootprint}
                           /\ agents'[a].checkout = agents[a].checkout,
         NEW ag, ag \in {agents, agents'},
         told' = AnnounceEnds(Fingerprints(footprints', ag))
  PROVE  ContentionIsTold'
<1>1. clock \in Nat /\ Dated(footprints, clock) /\ Dated(footprints', clock)
  BY DEF ToldInv, TypeOK, Past, Dated
<1>2. ASSUME NEW p \in Paths
      PROVE  told'[p] # Silent <=> Contested(footprints', agents', p)
  <2>1. \A a \in Agents : Touches(footprints', a, p) => Touches(footprints, a, p)
    BY DEF Touches, NoFootprint, NoChanges
  <2>2. Opposed(footprints', agents', p) => Opposed(footprints, agents, p)
    BY <2>1, OpposedAlike
  <2>3. Opposed(footprints', ag, p) <=> Opposed(footprints', agents', p)
    BY OpposedAlike
  <2>4. /\ Contested(footprints, agents, p) <=> Opposed(footprints, agents, p)
        /\ Contested(footprints', agents', p) <=> Opposed(footprints', agents', p)
        /\ Contested(footprints', ag, p) <=> Opposed(footprints', ag, p)
    BY <1>1, ContestedIsOpposed
  <2>5. told'[p] = IF Fingerprint(footprints', ag, p) = Silent /\ Contested(footprints, agents, p)
                     THEN Silent ELSE told[p]
    BY DEF AnnounceEnds, Fingerprints
  <2>6. Fingerprint(footprints', ag, p) = Silent <=> ~Contested(footprints', ag, p)
    BY FingerprintSpeaks
  <2>7. told[p] # Silent <=> Contested(footprints, agents, p)
    BY DEF ToldInv, ContentionIsTold
  <2>8. QED
    BY <2>2, <2>3, <2>4, <2>5, <2>6, <2>7
<1>3. QED
  BY <1>2 DEF ContentionIsTold

LEMMA ToldInit == Init => ToldInv
<1> SUFFICES ASSUME Init
             PROVE  ToldInv
  OBVIOUS
<1>1. TypeOK
  BY TypeInit
<1>2. Past
  BY BlankIsDated DEF Init, Past, Dated
<1>3. Strangers
  BY DEF Init, Strangers, Idle
<1>4. \A p \in Paths : ~Opposed(footprints, agents, p)
  BY DEF Init, Opposed, Touches, NoFootprint, NoChanges
<1>5. \A p \in Paths : ~Contested(footprints, agents, p)
  BY <1>1, <1>2, <1>4, ContestedIsOpposed DEF TypeOK, Past
<1>6. ContentionIsTold
  BY <1>5 DEF Init, ContentionIsTold, Silent
<1>7. QED
  BY <1>1, <1>2, <1>3, <1>6 DEF ToldInv

LEMMA ToldNext == ToldInv /\ [NextInPlace]_vars => ToldInv'
<1> SUFFICES ASSUME ToldInv, [NextInPlace]_vars
             PROVE  ToldInv'
  OBVIOUS
<1>1. TypeOK /\ TypeOK'
  BY TypeNext DEF ToldInv, Next
<1>2. Past' /\ Strangers'
  BY <1>1, PastSteps, StrangersSteps DEF ToldInv
<1> SUFFICES ContentionIsTold'
  BY <1>1, <1>2 DEF ToldInv
<1>3. ASSUME UNCHANGED <<agents, footprints, told>>
      PROVE  ContentionIsTold'
  BY <1>1, <1>2, <1>3, SameRowsSameTold
<1>4. CASE Sessions
  <2>1. UNCHANGED <<footprints, told>>
    BY <1>4 DEF Sessions, RegisterAgent, Heartbeat, StopAgent, ProcessExits
  <2>2. \A a \in Agents : Registered(a) => agents'[a].checkout = agents[a].checkout
    <3>1. ASSUME NEW b \in Agents, NEW c \in Checkouts, RegisterAgent(b, c), NEW a \in Agents,
                 Registered(a)
          PROVE  agents'[a].checkout = agents[a].checkout
      BY <1>1, <3>1 DEF RegisterAgent, Registered, TypeOK
    <3>2. ASSUME NEW b \in Agents, Heartbeat(b) \/ StopAgent(b) \/ ProcessExits(b),
                 NEW a \in Agents
          PROVE  agents'[a].checkout = agents[a].checkout
      BY <1>1, <3>2 DEF Heartbeat, StopAgent, ProcessExits, TypeOK, Session
    <3>3. QED
      BY <1>4, <3>1, <3>2 DEF Sessions
  <2>3. QED
    BY <1>1, <1>2, <2>1, <2>2, SameRowsSameTold
<1>5. CASE Worktrees \/ Tick \/ UNCHANGED vars
  BY <1>3, <1>5 DEF Worktrees, Edit, Rebase, RemoveCheckout, CreateCheckout, Tick, vars
<1>6. CASE Scanning
  BY <1>3, <1>6, PublishTells DEF Scanning, StartSweep, StartSync, Start, ScanCheckout, Stamp, Fail
<1>7. ASSUME NEW a \in Agents, ReleaseFootprint(a)
      PROVE  ContentionIsTold'
  <2>1. \A b \in Agents : footprints'[b] \in {footprints[b], NoFootprint}
    BY <1>1, <1>7 DEF ReleaseFootprint, TypeOK
  <2>2. told' = AnnounceEnds(Fingerprints(footprints', agents)) /\ UNCHANGED <<clock, agents>>
    BY <1>7 DEF ReleaseFootprint
  <2>3. QED
    BY <1>1, <1>2, <2>1, <2>2, WithdrawalTells
<1>8. ASSUME NEW D \in SUBSET Agents, CollectStale(D)
      PROVE  ContentionIsTold'
  <2>1. \A b \in Agents : footprints'[b] \in {footprints[b], NoFootprint}
    BY <1>8 DEF CollectStale
  <2>2. \A b \in Agents : agents'[b].checkout = agents[b].checkout
    BY <1>1, <1>8 DEF CollectStale, TypeOK, Session
  <2>3. told' = AnnounceEnds(Fingerprints(footprints', agents)) /\ clock' = clock
    BY <1>8 DEF CollectStale
  <2>4. QED
    BY <1>1, <1>2, <2>1, <2>2, <2>3, WithdrawalTells
<1>9. QED
  BY <1>4, <1>5, <1>6, <1>7, <1>8 DEF NextInPlace, Cleaning

(***************************************************************************)
(* The ledger knows the contention: in any mesh whose sessions stay in     *)
(* their checkouts, the last collision event of a path is a detection      *)
(* exactly while the path is contested, whatever mix of publishing,        *)
(* releasing and garbage collection brought it there.                      *)
(***************************************************************************)
THEOREM ContentionTold == SpecInPlace => []ContentionIsTold
<1>1. ToldInv => ContentionIsTold
  BY DEF ToldInv
<1>2. QED
  BY <1>1, ToldInit, ToldNext, PTL DEF SpecInPlace
=============================================================================
