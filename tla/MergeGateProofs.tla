--------------------------- MODULE MergeGateProofs ---------------------------
(***************************************************************************)
(* Proofs about MergeGate, for any agents, checkouts, changes, cap and     *)
(* lease length.  A verdict asked for under the lease stays about today's  *)
(* head, but for what is merged without the lease, because there is one    *)
(* owner, and a session that was told it is the owner is, unless it was    *)
(* taken for dead since.  A verdict forgets nothing: what stood in the way *)
(* of all its statements so far is among its blockers or will be read by a *)
(* statement to come.                                                      *)
(***************************************************************************)
EXTENDS MergeGate, FiniteSetTheorems, WellFoundedInduction, TLAPS

IInv == TypeOK /\ OwnerKnows /\ InsideIsCurrent

Verdicts == [Agents -> Verdict]

\* Narrowing a verdict changes nothing else of it.
LEMMA RecallingKeeps ==
  ASSUME NEW changed \in Verdicts, Recalling(changed)
  PROVE  /\ ask' \in Verdicts
         /\ \A a \in Agents : /\ ask'[a].inside => changed[a].inside /\ Holding(a)
                              /\ ask'[a].head = changed[a].head
                              /\ ask'[a].strays = changed[a].strays
                              /\ ask'[a].phase = changed[a].phase
                              /\ ask'[a].now = changed[a].now
                              /\ ask'[a].blocked = changed[a].blocked
                              /\ ask'[a].lasting \subseteq changed[a].lasting
                              /\ Asking(a) => ask'[a].lasting \subseteq InTheWay(a, ask[a].head)
<1> DEFINE i(a) == changed[a].inside /\ Holding(a)
           l(a) == IF Asking(a) THEN changed[a].lasting \cap InTheWay(a, ask[a].head)
                   ELSE changed[a].lasting
           f(a) == [changed[a] EXCEPT !.inside = i(a), !.lasting = l(a)]
<1>1. ask' = [a \in Agents |-> f(a)]
  BY DEF Recalling
<1>2. ASSUME NEW a \in Agents
      PROVE  /\ f(a) \in Verdict
             /\ f(a).inside = i(a) /\ f(a).lasting = l(a)
             /\ f(a).head = changed[a].head /\ f(a).strays = changed[a].strays
             /\ f(a).phase = changed[a].phase /\ f(a).now = changed[a].now
             /\ f(a).blocked = changed[a].blocked
  <2>1. changed[a] \in Verdict
    BY DEF Verdicts
  <2>2. l(a) \in SUBSET Obstacles
    BY <2>1 DEF Verdict
  <2>3. i(a) \in BOOLEAN
    OBVIOUS
  <2> HIDE DEF l, i
  <2>4. QED
    BY <2>1, <2>2, <2>3 DEF Verdict
<1>3. \A a \in Agents : /\ l(a) \subseteq changed[a].lasting
                        /\ Asking(a) => l(a) \subseteq InTheWay(a, ask[a].head)
  OBVIOUS
<1>4. \A a \in Agents : i(a) => changed[a].inside /\ Holding(a)
  OBVIOUS
<1> HIDE DEF f, l, i
<1>5. QED
  BY <1>1, <1>2, <1>3, <1>4 DEF Verdicts

LEMMA NoAskIsVerdict == NoAsk \in Verdict /\ ~NoAsk.inside
BY DEF NoAsk, Verdict, Obstacles

LEMMA InitHolds == Init => IInv
<1> SUFFICES ASSUME Init PROVE IInv
  OBVIOUS
<1> USE MergeGateAssumption, NoAskIsVerdict DEF Init
<1>1. Nothing \in Changes
  BY DEF Nothing, Changes
<1>2. TypeOK
  BY <1>1 DEF TypeOK, NoLease, NoBase
<1>3. OwnerKnows /\ InsideIsCurrent
  BY DEF OwnerKnows, InsideIsCurrent, NoLease
<1>4. QED
  BY <1>2, <1>3 DEF IInv

-----------------------------------------------------------------------------
(***************************************************************************)
(* A verdict stays inside through a step that leaves it as it is, leaves   *)
(* its owner the lease, and merges only together with a stray.             *)
(***************************************************************************)
LEMMA InsideStays ==
  ASSUME IInv, TypeOK', NEW changed \in Verdicts, Recalling(changed),
         \A b \in Agents : changed[b].inside =>
           /\ ask[b].inside /\ changed[b].head = ask[b].head /\ changed[b].strays = ask[b].strays,
         \A b \in Agents : changed[b].inside /\ Holding(b) /\ Holding(b)' /\ lease.holder = b =>
           /\ lease'.holder = b
           /\ head' - head = strays' - strays
  PROVE  InsideIsCurrent'
<1> SUFFICES ASSUME NEW b \in Agents, ask'[b].inside, Holding(b)'
             PROVE  lease'.holder = b /\ head' - ask'[b].head = strays' - ask'[b].strays
  BY DEF InsideIsCurrent
<1>1. changed[b].inside /\ Holding(b) /\ ask'[b].head = changed[b].head
        /\ ask'[b].strays = changed[b].strays
  BY RecallingKeeps
<1>2. ask[b].inside /\ ask'[b].head = ask[b].head /\ ask'[b].strays = ask[b].strays
  BY <1>1
<1>3. lease.holder = b /\ head - ask[b].head = strays - ask[b].strays
  BY <1>1, <1>2 DEF IInv, InsideIsCurrent
<1>4. lease'.holder = b /\ head' - head = strays' - strays
  BY <1>1, <1>3
<1>5. /\ head \in Nat /\ head' \in Nat /\ strays \in Nat /\ strays' \in Nat
      /\ ask[b].head \in Nat /\ ask[b].strays \in Nat
  BY DEF IInv, TypeOK, Verdict
<1>6. QED
  BY <1>2, <1>3, <1>4, <1>5

LEMMA PublishKeeps ==
  ASSUME IInv, NEW a \in Agents, NEW w \in Work[a], NEW base \in 0..head, NEW at \in 0..clock,
         Publish(a, w, base, at)
  PROVE  IInv'
<1> USE MergeGateAssumption
<1>1. ask \in Verdicts /\ Recalling(ask)
  BY DEF Publish, IInv, TypeOK, Verdicts
<1>2. TypeOK'
  <2>1. base \in Nat /\ at \in Nat /\ w \in Changes
    BY DEF IInv, TypeOK
  <2>2. rows' \in [Agents -> [base : Nat \cup {NoBase}, work : Changes, at : Nat]]
    BY <2>1 DEF Publish, IInv, TypeOK
  <2>3. QED
    BY <1>1, <2>2, RecallingKeeps DEF Publish, IInv, TypeOK, Verdicts
<1>3. OwnerKnows'
  BY DEF Publish, IInv, OwnerKnows
<1>4. InsideIsCurrent'
  <2>1. lease' = lease /\ head' = head /\ strays' = strays /\ head \in Nat /\ strays \in Nat
    BY DEF Publish, IInv, TypeOK
  <2>2. QED
    BY <1>1, <1>2, <2>1, InsideStays
<1>5. QED
  BY <1>2, <1>3, <1>4 DEF IInv

\* A row that ends: nobody else's lease goes with it, told or not.
LEMMA EndKeeps ==
  ASSUME IInv, NEW a \in Agents, EndRow(a),
         NEW v \in Verdict, ~v.inside, Recalling([ask EXCEPT ![a] = v]),
         UNCHANGED <<clock, rows, head, strays>>,
         hold' \in [Agents -> Nat],
         \A b \in Agents \ {a} : hold'[b] = hold[b]
  PROVE  IInv'
<1> USE MergeGateAssumption
<1> DEFINE changed == [ask EXCEPT ![a] = v]
<1>1. /\ changed \in Verdicts
      /\ ~changed[a].inside
      /\ \A b \in Agents \ {a} : changed[b] = ask[b]
  BY DEF IInv, TypeOK, Verdicts
<1>2. Recalling(changed)
  OBVIOUS
<1> HIDE DEF changed
<1>3. running' \subseteq running /\ lease' = IF lease.holder = a THEN NoLease ELSE lease
  BY DEF EndRow
<1>4. TypeOK'
  BY <1>1, <1>2, <1>3, RecallingKeeps DEF IInv, TypeOK, Verdicts, NoLease
<1>5. OwnerKnows'
  BY <1>3 DEF IInv, TypeOK, OwnerKnows, NoLease
<1>6. InsideIsCurrent'
  <2>1. \A b \in Agents : changed[b].inside => b # a /\ changed[b] = ask[b]
    BY <1>1
  <2>2. head' = head /\ strays' = strays /\ head \in Nat /\ strays \in Nat
    BY DEF IInv, TypeOK
  <2>3. QED
    BY <1>1, <1>2, <1>3, <1>4, <2>1, <2>2, InsideStays
<1>7. QED
  BY <1>4, <1>5, <1>6 DEF IInv

LEMMA StopKeeps ==
  ASSUME IInv, NEW a \in Agents, StopAgent(a)
  PROVE  IInv'
<1>1. hold' \in [Agents -> Nat] /\ \A b \in Agents \ {a} : hold'[b] = hold[b]
  BY DEF StopAgent, IInv, TypeOK
<1>2. EndRow(a) /\ UNCHANGED <<clock, rows, head, strays>> /\ Recalling([ask EXCEPT ![a] = NoAsk])
  BY DEF StopAgent
<1>3. QED
  BY <1>1, <1>2, NoAskIsVerdict, EndKeeps

LEMMA BuryKeeps ==
  ASSUME IInv, NEW a \in Agents, Bury(a)
  PROVE  IInv'
<1> DEFINE v == [ask[a] EXCEPT !.inside = FALSE]
<1>1. ask \in Verdicts /\ ask[a] \in Verdict
  BY DEF IInv, TypeOK, Verdicts
<1>2. v \in Verdict /\ ~v.inside
  BY <1>1 DEF Verdict
<1>3. [ask EXCEPT ![a].inside = FALSE] = [ask EXCEPT ![a] = v]
  OBVIOUS
<1> HIDE DEF v
<1>4. EndRow(a) /\ UNCHANGED <<clock, rows, head, strays, hold>> /\ Recalling([ask EXCEPT ![a] = v])
  BY <1>3 DEF Bury
<1>5. hold' \in [Agents -> Nat] /\ \A b \in Agents \ {a} : hold'[b] = hold[b]
  BY <1>4 DEF IInv, TypeOK
<1>6. QED
  BY <1>2, <1>4, <1>5, EndKeeps

LEMMA HeartbeatKeeps ==
  ASSUME IInv, NEW a \in Agents, Heartbeat(a)
  PROVE  IInv'
<1>1. ask \in Verdicts /\ Recalling(ask)
  BY DEF Heartbeat, IInv, TypeOK, Verdicts
<1>2. TypeOK'
  BY <1>1, RecallingKeeps DEF Heartbeat, IInv, TypeOK, Verdicts
<1>3. OwnerKnows'
  BY DEF Heartbeat, IInv, OwnerKnows
<1>4. InsideIsCurrent'
  <2>1. lease' = lease /\ head' = head /\ strays' = strays /\ head \in Nat /\ strays \in Nat
    BY DEF Heartbeat, IInv, TypeOK
  <2>2. QED
    BY <1>1, <1>2, <2>1, InsideStays
<1>5. QED
  BY <1>2, <1>3, <1>4 DEF IInv

\* Nobody takes the lease of an owner who may still count on it.
LEMMA AcquireKeeps ==
  ASSUME IInv, NEW a \in Agents, Acquire(a)
  PROVE  IInv'
<1> USE MergeGateAssumption
<1>1. ask \in Verdicts /\ Recalling(ask)
  BY DEF Acquire, IInv, TypeOK, Verdicts
<1>2. TypeOK'
  BY <1>1, RecallingKeeps DEF Acquire, IInv, TypeOK, Verdicts
<1>3. OwnerKnows'
  BY DEF Acquire, IInv, TypeOK, OwnerKnows
<1>4. ASSUME NEW b \in Agents, b # a, lease.holder = b PROVE ~Holding(b)
  BY <1>4 DEF Acquire, MayTake, HeldByOther, LeaseLive, IInv, TypeOK, OwnerKnows, Holding
<1>5. InsideIsCurrent'
  <2>1. lease'.holder = a /\ head' = head /\ strays' = strays /\ head \in Nat /\ strays \in Nat
    BY DEF Acquire, IInv, TypeOK
  <2>2. QED
    BY <1>1, <1>2, <1>4, <2>1, InsideStays
<1>6. QED
  BY <1>2, <1>3, <1>5 DEF IInv

LEMMA ReleaseKeeps ==
  ASSUME IInv, NEW a \in Agents, Release(a)
  PROVE  IInv'
<1> USE MergeGateAssumption
<1>1. ask \in Verdicts /\ Recalling(ask)
  BY DEF Release, IInv, TypeOK, Verdicts
<1>2. TypeOK'
  BY <1>1, RecallingKeeps DEF Release, IInv, TypeOK, Verdicts, NoLease
<1>3. OwnerKnows'
  BY DEF Release, IInv, TypeOK, OwnerKnows, NoLease
<1>4. ~Holding(a)'
  BY DEF Release, IInv, TypeOK, Holding
<1>5. InsideIsCurrent'
  <2>1. /\ lease' = IF lease.holder = a THEN NoLease ELSE lease
        /\ head' = head /\ strays' = strays /\ head \in Nat /\ strays \in Nat
    BY DEF Release, IInv, TypeOK
  <2>2. \A b \in Agents : Holding(b)' /\ lease.holder = b => lease'.holder = b
    BY <1>4, <2>1
  <2>3. QED
    BY <1>1, <1>2, <2>1, <2>2, InsideStays
<1>6. QED
  BY <1>2, <1>3, <1>5 DEF IInv

LEMMA TickKeeps ==
  ASSUME IInv, Tick
  PROVE  IInv'
<1>1. ask \in Verdicts /\ Recalling(ask)
  BY DEF Tick, IInv, TypeOK, Verdicts
<1>2. TypeOK'
  BY <1>1, RecallingKeeps DEF Tick, IInv, TypeOK, Verdicts
<1>3. OwnerKnows'
  BY DEF Tick, IInv, OwnerKnows
<1>4. InsideIsCurrent'
  <2>1. lease' = lease /\ head' = head /\ strays' = strays /\ head \in Nat /\ strays \in Nat
    BY DEF Tick, IInv, TypeOK
  <2>2. QED
    BY <1>1, <1>2, <2>1, InsideStays
<1>5. QED
  BY <1>2, <1>3, <1>4 DEF IInv

\* A verdict that begins inside is the owner's, and about today's head.
LEMMA AskKeeps ==
  ASSUME IInv, NEW a \in Agents, Ask(a)
  PROVE  IInv'
<1> DEFINE v == [phase |-> "base", now |-> clock, head |-> head, blocked |-> FALSE,
                 lasting |-> InTheWay(a, head), inside |-> Owns(a), strays |-> strays]
           changed == [ask EXCEPT ![a] = v]
<1>1. v \in Verdict
  <2>1. InTheWay(a, head) \in SUBSET Obstacles
    BY DEF InTheWay
  <2>2. Owns(a) \in BOOLEAN
    BY DEF Owns
  <2>3. QED
    BY <2>1, <2>2 DEF Verdict, IInv, TypeOK
<1>2. v.inside = Owns(a) /\ v.head = head /\ v.strays = strays
  OBVIOUS
<1>3. Recalling(changed)
  BY DEF Ask
<1> HIDE DEF v
<1>4. /\ changed \in Verdicts
      /\ \A b \in Agents : changed[b] = IF b = a THEN v ELSE ask[b]
  BY <1>1 DEF IInv, TypeOK, Verdicts
<1> HIDE DEF changed
<1>5. TypeOK'
  BY <1>3, <1>4, RecallingKeeps DEF Ask, IInv, TypeOK, Verdicts
<1>6. OwnerKnows'
  BY DEF Ask, IInv, OwnerKnows
<1>7. InsideIsCurrent'
  <2> SUFFICES ASSUME NEW b \in Agents, ask'[b].inside, Holding(b)'
               PROVE  lease'.holder = b /\ head' - ask'[b].head = strays' - ask'[b].strays
    BY DEF InsideIsCurrent
  <2>1. /\ changed[b].inside /\ Holding(b)
        /\ ask'[b].head = changed[b].head /\ ask'[b].strays = changed[b].strays
    BY <1>3, <1>4, RecallingKeeps
  <2>2. lease' = lease /\ head' = head /\ strays' = strays /\ head \in Nat /\ strays \in Nat
    BY DEF Ask, IInv, TypeOK
  <2>3. CASE b = a
    <3>1. changed[b] = v
      BY <1>4, <2>3
    <3>2. Owns(a) /\ ask'[b].head = head /\ ask'[b].strays = strays
      BY <1>2, <2>1, <3>1
    <3>3. QED
      BY <2>2, <2>3, <3>2 DEF Owns
  <2>4. CASE b # a
    BY <1>4, <2>1, <2>2, <2>4 DEF IInv, InsideIsCurrent
  <2>5. QED
    BY <2>3, <2>4
<1>8. QED
  BY <1>5, <1>6, <1>7 DEF IInv

\* A statement of the verdict, or the begin of the merge, changes the phase and
\* what was found.
LEMMA PhaseKeeps ==
  ASSUME IInv, NEW a \in Agents, NEW next \in {"paths", "symbols", "lease", "done", "merging"},
         NEW blocked \in BOOLEAN,
         Recalling([ask EXCEPT ![a].phase = next, ![a].blocked = blocked]),
         UNCHANGED <<clock, running, rows, head, strays, lease, hold>>
  PROVE  IInv'
<1> DEFINE v == [ask[a] EXCEPT !.phase = next, !.blocked = blocked]
           changed == [ask EXCEPT ![a] = v]
<1>1. ask[a] \in Verdict /\ ask \in Verdicts
  BY DEF IInv, TypeOK, Verdicts
<1>2. Recalling(changed)
  <2>1. changed = [ask EXCEPT ![a].phase = next, ![a].blocked = blocked]
    BY <1>1 DEF Verdicts
  <2> HIDE DEF changed
  <2>2. QED
    BY <2>1
<1>3. /\ changed \in Verdicts
      /\ \A b \in Agents : /\ changed[b].inside = ask[b].inside
                           /\ changed[b].head = ask[b].head
                           /\ changed[b].strays = ask[b].strays
  <2>1. /\ v \in Verdict
        /\ v.inside = ask[a].inside /\ v.head = ask[a].head /\ v.strays = ask[a].strays
    BY <1>1 DEF Verdict
  <2> HIDE DEF v
  <2>2. QED
    BY <1>1, <2>1 DEF Verdicts
<1> HIDE DEF changed
<1>4. TypeOK'
  BY <1>2, <1>3, RecallingKeeps DEF IInv, TypeOK, Verdicts
<1>5. OwnerKnows'
  BY DEF IInv, OwnerKnows
<1>6. InsideIsCurrent'
  <2>1. head \in Nat /\ strays \in Nat
    BY DEF IInv, TypeOK
  <2>2. QED
    BY <1>2, <1>3, <1>4, <2>1, InsideStays
<1>7. QED
  BY <1>4, <1>5, <1>6 DEF IInv

LEMMA LooksKeeps ==
  ASSUME IInv, NEW a \in Agents, NEW phase,
         NEW next \in {"paths", "symbols", "lease", "done"}, NEW blocks \in BOOLEAN,
         Looks(a, phase, next, blocks)
  PROVE  IInv'
<1> DEFINE seen == ask[a].blocked \/ blocks
<1>1. Recalling([ask EXCEPT ![a].phase = next, ![a].blocked = seen])
  BY DEF Looks, IInv, TypeOK, Verdict
<1>2. UNCHANGED <<clock, running, rows, head, strays, lease, hold>>
  BY DEF Looks
<1>3. seen \in BOOLEAN
  OBVIOUS
<1> HIDE DEF seen
<1>4. QED
  BY <1>1, <1>2, <1>3, PhaseKeeps

LEMMA BeginKeeps ==
  ASSUME IInv, NEW a \in Agents, BeginMerge(a)
  PROVE  IInv'
<1>1. Recalling([ask EXCEPT ![a].phase = "merging", ![a].blocked = ask[a].blocked])
  <2>1. ask[a] \in Verdict
    BY DEF IInv, TypeOK
  <2>2. [ask[a] EXCEPT !.phase = "merging"]
          = [ask[a] EXCEPT !.phase = "merging", !.blocked = ask[a].blocked]
    BY <2>1 DEF Verdict
  <2>3. [ask EXCEPT ![a].phase = "merging"]
          = [ask EXCEPT ![a].phase = "merging", ![a].blocked = ask[a].blocked]
    BY <2>2 DEF IInv, TypeOK
  <2>4. QED
    BY <2>3 DEF BeginMerge
<1>2. UNCHANGED <<clock, running, rows, head, strays, lease, hold>>
  BY DEF BeginMerge
<1>3. ask[a].blocked \in BOOLEAN
  BY DEF IInv, TypeOK, Verdict
<1>4. QED
  BY <1>1, <1>2, <1>3, PhaseKeeps

\* Who lands without owning the lease is a stray to its owner.
LEMMA LandKeeps ==
  ASSUME IInv, NEW a \in Agents, Land(a)
  PROVE  IInv'
<1> DEFINE changed == [ask EXCEPT ![a] = NoAsk]
<1>1. changed \in Verdicts /\ Recalling(changed)
  BY NoAskIsVerdict DEF Land, IInv, TypeOK, Verdicts
<1>2. \A b \in Agents : changed[b] = IF b = a THEN NoAsk ELSE ask[b]
  BY DEF IInv, TypeOK
<1> HIDE DEF changed
<1>3. TypeOK'
  BY <1>1, RecallingKeeps DEF Land, IInv, TypeOK, Verdicts
<1>4. OwnerKnows'
  BY DEF Land, IInv, OwnerKnows
<1>5. InsideIsCurrent'
  <2>1. \A b \in Agents : changed[b].inside => b # a /\ changed[b] = ask[b]
    BY <1>2, NoAskIsVerdict
  <2>2. \A b \in Agents : b # a /\ lease.holder = b => ~Owns(a)
    BY DEF Owns
  <2>3. /\ lease' = lease /\ head' = head + 1 /\ head \in Nat /\ strays \in Nat
        /\ ~Owns(a) => strays' = strays + 1
    BY DEF Land, IInv, TypeOK
  <2>4. \A b \in Agents : changed[b].inside /\ lease.holder = b =>
           lease'.holder = b /\ head' - head = strays' - strays
    BY <2>1, <2>2, <2>3
  <2>5. QED
    BY <1>1, <1>3, <2>1, <2>4, InsideStays
<1>6. QED
  BY <1>3, <1>4, <1>5 DEF IInv

LEMMA ApproveKeeps ==
  ASSUME IInv, Approve
  PROVE  IInv'
<1>1. ask \in Verdicts /\ Recalling(ask)
  BY DEF Approve, IInv, TypeOK, Verdicts
<1>2. TypeOK'
  BY <1>1, RecallingKeeps DEF Approve, IInv, TypeOK, Verdicts
<1>3. OwnerKnows'
  BY DEF Approve, IInv, OwnerKnows
<1>4. InsideIsCurrent'
  <2>1. lease' = lease /\ head' - head = strays' - strays
    BY DEF Approve, IInv, TypeOK
  <2>2. QED
    BY <1>1, <1>2, <2>1, InsideStays
<1>5. QED
  BY <1>2, <1>3, <1>4 DEF IInv

LEMMA StepKeeps == IInv /\ [Next]_vars => IInv'
<1> SUFFICES ASSUME IInv, [Next]_vars PROVE IInv'
  OBVIOUS
<1>1. CASE UNCHANGED vars
  BY <1>1 DEF IInv, TypeOK, OwnerKnows, InsideIsCurrent, Holding, vars
<1>2. CASE Tick \/ Approve
  BY <1>2, TickKeeps, ApproveKeeps
<1>3. ASSUME NEW a \in Agents,
             \/ \E w \in Work[a], base \in 0..head, at \in 0..clock : Publish(a, w, base, at)
             \/ StopAgent(a) \/ Bury(a) \/ Heartbeat(a)
      PROVE  IInv'
  BY <1>3, PublishKeeps, StopKeeps, BuryKeeps, HeartbeatKeeps
<1>4. ASSUME NEW a \in Askers,
             \/ Acquire(a) \/ Release(a)
             \/ Ask(a) \/ LookAtBase(a) \/ LookAtPaths(a) \/ LookAtSymbols(a) \/ LookAtLease(a)
             \/ BeginMerge(a) \/ Land(a)
      PROVE  IInv'
  <2>1. a \in Agents
    BY MergeGateAssumption
  <2>2. CASE Acquire(a) \/ Release(a)
    BY <2>1, <2>2, AcquireKeeps, ReleaseKeeps
  <2>3. CASE Ask(a) \/ BeginMerge(a) \/ Land(a)
    BY <2>1, <2>3, AskKeeps, BeginKeeps, LandKeeps
  <2>4. CASE LookAtBase(a)
    <3>1. BaseBlocks(a) \in BOOLEAN
      BY DEF BaseBlocks, Unsynced, Stale
    <3>2. QED
      BY <2>1, <2>4, <3>1, LooksKeeps DEF LookAtBase
  <2>5. CASE LookAtPaths(a)
    BY <2>1, <2>5, LooksKeeps DEF LookAtPaths
  <2>6. CASE LookAtSymbols(a)
    BY <2>1, <2>6, LooksKeeps DEF LookAtSymbols
  <2>7. CASE LookAtLease(a)
    <3>1. HeldByOther(a, ask[a].now) \in BOOLEAN
      BY DEF HeldByOther
    <3>2. QED
      BY <2>1, <2>7, <3>1, LooksKeeps DEF LookAtLease
  <2>8. QED
    BY <1>4, <2>2, <2>3, <2>4, <2>5, <2>6, <2>7
<1>5. QED
  BY <1>1, <1>2, <1>3, <1>4 DEF Next

LEMMA Inductive == Spec => []IInv
<1>1. Init => IInv
  BY InitHolds
<1>2. IInv /\ [Next]_vars => IInv'
  BY StepKeeps
<1>3. QED
  BY <1>1, <1>2, PTL DEF Spec

\* The tables keep their columns and a verdict goes through its statements.
THEOREM TypeCorrect == Spec => []TypeOK
<1>1. IInv => TypeOK
  BY DEF IInv
<1>2. QED
  BY <1>1, Inductive, PTL

(***************************************************************************)
(* Between the verdict its owner asks for under the integration lease and  *)
(* the landing under it, all that is merged is merged without owning the   *)
(* lease, however leases lapse, are renewed, released, freed or taken.     *)
(***************************************************************************)
THEOREM MergesJudged == Spec => MergesLandWhereJudged
<1>1. IInv /\ [Next]_vars =>
        [\A a \in Agents : Land(a) /\ ask[a].inside /\ Holding(a)
            => head - ask[a].head = strays - ask[a].strays]_vars
  BY DEF IInv, InsideIsCurrent
<1>2. QED
  BY <1>1, Inductive, PTL DEF Spec, MergesLandWhereJudged

(***************************************************************************)
(* The verdict and the cap.  A capped list is empty only when there was    *)
(* nothing to list: what sorts first is before any cut.                    *)
(***************************************************************************)
LEMMA LeastNatural ==
  ASSUME NEW T \in SUBSET Nat, T # {}
  PROVE  \E x \in T : \A y \in T : x <= y
<1> DEFINE R == OpToRel(<, Nat)
<1>1. IsWellFoundedOn(R, Nat)
  BY NatLessThanWellFounded
<1>2. \A x, y \in T : x < y <=> <<x, y>> \in R
  BY DEF OpToRel
<1> HIDE DEF R
<1>3. PICK x \in T : \A y \in T : <<y, x>> \notin R
  BY <1>1, WFMin
<1>4. ASSUME NEW y \in T PROVE x <= y
  <2>1. ~(y < x)
    BY <1>2, <1>3
  <2>2. x \in Nat /\ y \in Nat
    OBVIOUS
  <2>3. QED
    BY <2>1, <2>2
<1>5. QED
  BY <1>4

LEMMA FirstBreak ==
  ASSUME NEW found \in SUBSET (Symbols \X Agents \X Agents), found # {}
  PROVE  \E k \in found : \A l \in found : ~Before(l, k)
<1>1. \A k \in found : k[1] \in Nat /\ k[2] \in Nat /\ k[3] \in Nat
  BY MergeGateAssumption
<1> DEFINE Ones == {k[1] : k \in found}
<1>2. PICK x \in Ones : \A y \in Ones : x <= y
  <2>1. Ones \in SUBSET Nat /\ Ones # {}
    BY <1>1
  <2>2. QED
    BY <2>1, LeastNatural
<1> DEFINE Twos == {k[2] : k \in {l \in found : l[1] = x}}
<1>3. PICK y \in Twos : \A z \in Twos : y <= z
  <2>1. Twos \in SUBSET Nat /\ Twos # {}
    BY <1>1
  <2>2. QED
    BY <2>1, LeastNatural
<1> DEFINE Threes == {k[3] : k \in {l \in found : l[1] = x /\ l[2] = y}}
<1>4. PICK z \in Threes : \A t \in Threes : z <= t
  <2>1. Threes \in SUBSET Nat /\ Threes # {}
    BY <1>1
  <2>2. QED
    BY <2>1, LeastNatural
<1>5. PICK k \in found : k[1] = x /\ k[2] = y /\ k[3] = z
  OBVIOUS
<1>6. ASSUME NEW l \in found PROVE ~Before(l, k)
  <2>1. x <= l[1]
    BY <1>2
  <2>2. l[1] = x => y <= l[2]
    BY <1>3
  <2>3. l[1] = x /\ l[2] = y => z <= l[3]
    BY <1>4
  <2>4. l[1] \in Nat /\ l[2] \in Nat /\ l[3] \in Nat /\ k[1] \in Nat /\ k[2] \in Nat /\ k[3] \in Nat
    BY <1>1
  <2> HIDE DEF Ones, Twos, Threes
  <2>5. QED
    BY <1>5, <2>1, <2>2, <2>3, <2>4 DEF Before
<1>7. QED
  BY <1>6

LEMMA CapKeepsOne ==
  ASSUME NEW found \in SUBSET (Symbols \X Agents \X Agents), found # {}
  PROVE  Capped(found) # {}
<1>1. PICK k \in found : \A l \in found : ~Before(l, k)
  BY FirstBreak
<1>2. {l \in found : Before(l, k)} = {}
  BY <1>1
<1>3. Cardinality({l \in found : Before(l, k)}) < MAX_SYMBOL_BREAKS
  BY <1>2, FS_EmptySet, MergeGateAssumption
<1>4. QED
  BY <1>3 DEF Capped

LEMMA BreaksAreFinite == IsFiniteSet(Breaks)
<1> DEFINE Pairs == Symbols \X (Agents \X Agents)
           f == [k \in Breaks |-> <<k[1], <<k[2], k[3]>> >>]
<1>1. IsFiniteSet(Pairs)
  <2>1. IsFiniteSet(Agents \X Agents)
    BY FS_Product, MergeGateAssumption
  <2>2. QED
    BY <2>1, FS_Product, MergeGateAssumption
<1>2. f \in [Breaks -> Pairs]
  BY DEF Breaks
<1>3. \A k, l \in Breaks : f[k] = f[l] => k = l
  BY DEF Breaks
<1> HIDE DEF f, Pairs
<1>4. f \in Injection(Breaks, Pairs)
  BY <1>2, <1>3 DEF Injection, IsInjective
<1>5. QED
  BY <1>1, <1>4, FS_Injection

\* What is not cut is all of it.
LEMMA UncutIsWhole ==
  ASSUME ~Truncated(Breaks)
  PROVE  Capped(Breaks) = Breaks
<1> SUFFICES ASSUME NEW k \in Breaks
             PROVE  Cardinality({l \in Breaks : Before(l, k)}) < MAX_SYMBOL_BREAKS
  BY DEF Capped
<1> DEFINE earlier == {l \in Breaks : Before(l, k)}
<1>1. k \notin earlier
  <2>1. k[1] \in Nat /\ k[2] \in Nat /\ k[3] \in Nat
    BY MergeGateAssumption DEF Breaks
  <2>2. QED
    BY <2>1 DEF Before
<1>2. /\ IsFiniteSet(earlier)
      /\ Cardinality(earlier) <= Cardinality(Breaks)
      /\ Cardinality(Breaks) = Cardinality(earlier) => Breaks = earlier
  BY BreaksAreFinite, FS_Subset
<1>3. Cardinality(earlier) \in Nat /\ Cardinality(Breaks) \in Nat
  BY <1>2, BreaksAreFinite, FS_CardinalityType
<1> HIDE DEF earlier
<1>4. Cardinality(earlier) < MAX_SYMBOL_BREAKS
  BY <1>1, <1>2, <1>3, MergeGateAssumption DEF Truncated
<1>5. QED
  BY <1>4 DEF earlier

\* The gate finds a break in use iff there is one, however many others there are.
LEMMA SymbolVerdict ==
  ASSUME NEW a \in Agents
  PROVE  SymbolBlockers(a) # {} <=> \E k \in Breaks : k[3] = a /\ k[2] \in running
<1> DEFINE mine == {k \in Breaks : k[3] = a /\ k[2] \in running}
<1>1. mine \in SUBSET (Symbols \X Agents \X Agents)
  BY DEF Breaks
<1>2. mine # {} => Capped(mine) # {}
  BY <1>1, CapKeepsOne
<1>3. Capped(mine) \subseteq mine
  BY DEF Capped
<1>4. SymbolBlockers(a) = Capped(mine)
  BY DEF SymbolBlockers
<1>5. mine # {} <=> \E k \in Breaks : k[3] = a /\ k[2] \in running
  OBVIOUS
<1> HIDE DEF mine
<1>6. QED
  BY <1>2, <1>3, <1>4, <1>5

(***************************************************************************)
(* As long as its list of breaks is not cut, the dashboard blocks exactly  *)
(* those live sessions the gate would turn away for a path or a symbol.    *)
(***************************************************************************)
THEOREM DashboardIsRight == Spec => []DashboardAgrees
<1>1. TypeOK => DashboardAgrees
  <2> SUFFICES ASSUME TypeOK, ~Truncated(Breaks), NEW a \in running
               PROVE  a \in Blocked <=> ContestingPeers(a) # {} \/ SymbolBlockers(a) # {}
    BY DEF DashboardAgrees
  <2>1. a \in Agents
    BY DEF TypeOK
  <2>2. a \in Blocked <=>
          ContestingPeers(a) # {} \/ \E k \in Breaks : k[3] = a /\ k[2] \in running
    BY UncutIsWhole DEF Blocked
  <2>3. QED
    BY <2>1, <2>2, SymbolVerdict
<1>2. QED
  BY <1>1, TypeCorrect, PTL

(***************************************************************************)
(* What a verdict in the making has not looked at yet, by its next         *)
(* statement; and that, unless it found a blocker, only that has lasted.   *)
(***************************************************************************)
Ahead(phase) ==
  (IF phase = "base" THEN {"unsynced", "stale"} ELSE {})
    \cup (IF phase \in {"base", "paths"} THEN {"contested"} ELSE {})
    \cup (IF phase \in {"base", "paths", "symbols"} THEN {"in use"} ELSE {})
    \cup (IF phase \in {"base", "paths", "symbols", "lease"} THEN {"held"} ELSE {})

Remembers(v) == v.blocked \/ \A k \in v.lasting : k[1] \in Ahead(v.phase)

NothingForgotten == \A a \in Agents : ask[a].now <= clock /\ Remembers(ask[a])

LEMMA NoAskRemembers == Remembers(NoAsk) /\ NoAsk.now = 0
BY DEF Remembers, NoAsk

\* A step forgets nothing whose change of the verdicts does not.
LEMMA ChangeForgetsNothing ==
  ASSUME TypeOK, NEW changed \in Verdicts, Recalling(changed),
         \A b \in Agents : changed[b].now <= clock' /\ Remembers(changed[b])
  PROVE  NothingForgotten'
<1> SUFFICES ASSUME NEW b \in Agents
             PROVE  ask'[b].now <= clock' /\ Remembers(ask'[b])
  BY DEF NothingForgotten, Remembers, Ahead
<1>1. /\ ask'[b].phase = changed[b].phase
      /\ ask'[b].now = changed[b].now
      /\ ask'[b].blocked = changed[b].blocked
      /\ ask'[b].lasting \subseteq changed[b].lasting
  BY RecallingKeeps
<1>2. QED
  BY <1>1 DEF Remembers

\* So with one that leaves the verdicts be, or drops one.
LEMMA UnaskedForgetsNothing ==
  ASSUME TypeOK, NothingForgotten, NEW changed \in Verdicts, Recalling(changed),
         clock' \in Nat, clock <= clock',
         \A b \in Agents : \/ changed[b] = NoAsk
                           \/ /\ Ahead(changed[b].phase) = Ahead(ask[b].phase)
                              /\ changed[b].now = ask[b].now
                              /\ changed[b].blocked = ask[b].blocked
                              /\ changed[b].lasting = ask[b].lasting
  PROVE  NothingForgotten'
<1>1. ASSUME NEW b \in Agents PROVE changed[b].now <= clock' /\ Remembers(changed[b])
  <2>1. ask[b].now \in Nat /\ clock \in Nat
    BY DEF Verdict, TypeOK
  <2>2. CASE changed[b] = NoAsk
    BY <2>2, NoAskRemembers
  <2>3. CASE changed[b] # NoAsk
    BY <2>1, <2>3 DEF NothingForgotten, Remembers
  <2>4. QED
    BY <2>2, <2>3
<1>2. QED
  BY <1>1, ChangeForgetsNothing

\* A statement that finds nothing found nothing of what had lasted either.
LEMMA LooksForgetNothing ==
  ASSUME TypeOK, NothingForgotten, NEW a \in Agents,
         NEW phase \in {"base", "paths", "symbols", "lease"},
         NEW next \in {"paths", "symbols", "lease", "done"}, NEW blocks \in BOOLEAN,
         Looks(a, phase, next, blocks),
         ~blocks => \A k \in InTheWay(a, ask[a].head) : k[1] \in Ahead(phase) => k[1] \in Ahead(next)
  PROVE  NothingForgotten'
<1> DEFINE changed == [ask EXCEPT ![a].phase = next, ![a].blocked = @ \/ blocks]
<1>1. Recalling(changed) /\ ask[a].phase = phase /\ clock' = clock
  BY DEF Looks
<1>2. ask[a] \in Verdict /\ ask \in Verdicts
  BY DEF TypeOK, Verdicts
<1>3. /\ changed \in Verdicts
      /\ changed[a].phase = next
      /\ changed[a].blocked = (ask[a].blocked \/ blocks)
      /\ changed[a].now = ask[a].now
      /\ changed[a].lasting = ask[a].lasting
      /\ \A b \in Agents \ {a} : changed[b] = ask[b]
  <2> DEFINE seen == ask[a].blocked \/ blocks
             v == [ask[a] EXCEPT !.phase = next, !.blocked = seen]
  <2>1. seen \in BOOLEAN
    OBVIOUS
  <2>2. changed = [ask EXCEPT ![a] = v]
    BY <1>2 DEF Verdicts
  <2> HIDE DEF seen
  <2>3. /\ v \in Verdict /\ v.phase = next /\ v.blocked = seen
        /\ v.now = ask[a].now /\ v.lasting = ask[a].lasting
    BY <1>2, <2>1 DEF Verdict
  <2> HIDE DEF v, changed
  <2>4. QED
    BY <1>2, <2>2, <2>3 DEF Verdicts, seen
<1> HIDE DEF changed
<1>4. \A b \in Agents : /\ ask'[b].phase = changed[b].phase
                        /\ ask'[b].now = changed[b].now
                        /\ ask'[b].blocked = changed[b].blocked
                        /\ ask'[b].lasting \subseteq changed[b].lasting
                        /\ Asking(b) => ask'[b].lasting \subseteq InTheWay(b, ask[b].head)
  BY <1>1, <1>3, RecallingKeeps
<1>5. ASSUME NEW b \in Agents, b # a PROVE ask'[b].now <= clock' /\ Remembers(ask'[b])
  BY <1>1, <1>3, <1>4, <1>5 DEF NothingForgotten, Remembers
<1>6. ask'[a].now <= clock'
  BY <1>1, <1>3, <1>4 DEF NothingForgotten
<1>7. Remembers(ask'[a])
  <2> SUFFICES ASSUME ~ask'[a].blocked, NEW k \in ask'[a].lasting
               PROVE  k[1] \in Ahead(next)
    BY <1>3, <1>4 DEF Remembers
  <2>1. ~ask[a].blocked /\ ~blocks
    BY <1>3, <1>4
  <2>2. k[1] \in Ahead(phase)
    BY <1>1, <1>3, <1>4, <2>1 DEF NothingForgotten, Remembers
  <2>3. k \in InTheWay(a, ask[a].head)
    BY <1>1, <1>4 DEF Asking
  <2>4. QED
    BY <2>1, <2>2, <2>3
<1>8. QED
  BY <1>5, <1>6, <1>7 DEF NothingForgotten, Remembers, Ahead

\* The statements, each of which answers for what it looks at.
LEMMA StatementsForgetNothing ==
  ASSUME TypeOK, NothingForgotten, NEW a \in Agents,
         LookAtBase(a) \/ LookAtPaths(a) \/ LookAtSymbols(a) \/ LookAtLease(a)
  PROVE  NothingForgotten'
<1> DEFINE way == InTheWay(a, ask[a].head)
<1>1. CASE LookAtBase(a)
  <2>1. BaseBlocks(a) \in BOOLEAN
    BY DEF BaseBlocks, Unsynced, Stale
  <2>2. ~BaseBlocks(a) => \A k \in way : k[1] \in Ahead("base") => k[1] \in Ahead("paths")
    BY DEF BaseBlocks, InTheWay, Ahead
  <2>3. QED
    BY <1>1, <2>1, <2>2, LooksForgetNothing DEF LookAtBase
<1>2. CASE LookAtPaths(a)
  <2>1. ContestingPeers(a) = {} =>
          \A k \in way : k[1] \in Ahead("paths") => k[1] \in Ahead("symbols")
    BY DEF InTheWay, Ahead
  <2>2. QED
    BY <1>2, <2>1, LooksForgetNothing DEF LookAtPaths
<1>3. CASE LookAtSymbols(a)
  <2>1. SymbolBlockers(a) = {} =>
          \A k \in way : k[1] \in Ahead("symbols") => k[1] \in Ahead("lease")
    BY SymbolVerdict DEF InTheWay, Ahead
  <2>2. QED
    BY <1>3, <2>1, LooksForgetNothing DEF LookAtSymbols
<1>4. CASE LookAtLease(a)
  <2>1. HeldByOther(a, ask[a].now) \in BOOLEAN
    BY DEF HeldByOther
  <2>2. HeldByOther(a, clock) => HeldByOther(a, ask[a].now)
    <3>1. ask[a].now <= clock
      BY DEF NothingForgotten
    <3>2. ask[a].now \in Nat /\ clock \in Nat /\ lease.expires \in Nat
      BY DEF TypeOK, Verdict
    <3>3. QED
      BY <3>1, <3>2 DEF HeldByOther, LeaseLive
  <2>3. ~HeldByOther(a, ask[a].now) =>
          \A k \in way : k[1] \in Ahead("lease") => k[1] \in Ahead("done")
    BY <2>2 DEF InTheWay, Ahead
  <2>4. QED
    BY <1>4, <2>1, <2>3, LooksForgetNothing DEF LookAtLease
<1>5. QED
  BY <1>1, <1>2, <1>3, <1>4

LEMMA AskForgetsNothing ==
  ASSUME TypeOK, NothingForgotten, NEW a \in Agents, Ask(a)
  PROVE  NothingForgotten'
<1> DEFINE v == [phase |-> "base", now |-> clock, head |-> head, blocked |-> FALSE,
                 lasting |-> InTheWay(a, head), inside |-> Owns(a), strays |-> strays]
           changed == [ask EXCEPT ![a] = v]
<1>1. \A k \in v.lasting : k[1] \in Ahead(v.phase)
  BY DEF InTheWay, Obstacles, Ahead
<1>2. Remembers(v) /\ v.now = clock /\ v \in Verdict
  <2>1. InTheWay(a, head) \in SUBSET Obstacles
    BY DEF InTheWay
  <2>2. Owns(a) \in BOOLEAN
    BY DEF Owns
  <2>3. v \in Verdict
    BY <2>1, <2>2 DEF Verdict, TypeOK
  <2>4. QED
    BY <1>1, <2>3 DEF Remembers
<1>3. Recalling(changed) /\ clock' = clock /\ clock \in Nat
  BY DEF Ask, TypeOK
<1> HIDE DEF v
<1>4. /\ changed \in Verdicts
      /\ \A b \in Agents : changed[b] = IF b = a THEN v ELSE ask[b]
  BY <1>2 DEF TypeOK, Verdicts
<1>5. ASSUME NEW b \in Agents PROVE changed[b].now <= clock' /\ Remembers(changed[b])
  BY <1>2, <1>3, <1>4 DEF NothingForgotten
<1> HIDE DEF changed
<1>6. QED
  BY <1>3, <1>4, <1>5, ChangeForgetsNothing

LEMMA StepForgetsNothing == TypeOK /\ NothingForgotten /\ [Next]_vars => NothingForgotten'
<1> SUFFICES ASSUME TypeOK, NothingForgotten, [Next]_vars PROVE NothingForgotten'
  OBVIOUS
<1>1. ask \in Verdicts /\ clock \in Nat
  BY DEF TypeOK, Verdicts
<1>2. CASE UNCHANGED vars
  BY <1>2 DEF NothingForgotten, Remembers, Ahead, vars
<1>3. CASE Tick
  <2>1. Recalling(ask) /\ clock' = clock + 1
    BY <1>3 DEF Tick
  <2>2. QED
    BY <1>1, <2>1, UnaskedForgetsNothing
<1>4. ASSUME NEW a \in Agents, NEW w, NEW base, NEW at, Publish(a, w, base, at)
      PROVE  NothingForgotten'
  BY <1>1, <1>4, UnaskedForgetsNothing DEF Publish
<1>5. ASSUME NEW a \in Agents, Heartbeat(a) \/ Acquire(a) \/ Release(a) PROVE NothingForgotten'
  BY <1>1, <1>5, UnaskedForgetsNothing DEF Heartbeat, Acquire, Release
<1>6. CASE Approve
  BY <1>1, <1>6, UnaskedForgetsNothing DEF Approve
<1>7. ASSUME NEW a \in Agents, StopAgent(a) \/ Land(a) PROVE NothingForgotten'
  <2> DEFINE changed == [ask EXCEPT ![a] = NoAsk]
  <2>1. Recalling(changed) /\ clock' = clock
    BY <1>7 DEF StopAgent, Land
  <2>2. changed \in Verdicts /\ \A b \in Agents : changed[b] = IF b = a THEN NoAsk ELSE ask[b]
    BY <1>1, NoAskIsVerdict DEF Verdicts
  <2> HIDE DEF changed
  <2>3. QED
    BY <1>1, <2>1, <2>2, UnaskedForgetsNothing
<1>8. ASSUME NEW a \in Agents, Bury(a) PROVE NothingForgotten'
  <2> DEFINE v == [ask[a] EXCEPT !.inside = FALSE]
             changed == [ask EXCEPT ![a] = v]
  <2>1. /\ v \in Verdict /\ v.phase = ask[a].phase /\ v.now = ask[a].now
        /\ v.blocked = ask[a].blocked /\ v.lasting = ask[a].lasting
    BY DEF TypeOK, Verdict
  <2>2. Recalling(changed) /\ clock' = clock
    BY <1>8 DEF Bury, TypeOK
  <2> HIDE DEF v
  <2>3. changed \in Verdicts /\ \A b \in Agents : changed[b] = IF b = a THEN v ELSE ask[b]
    BY <1>1, <2>1 DEF Verdicts
  <2> HIDE DEF changed
  <2>4. QED
    BY <1>1, <2>1, <2>2, <2>3, UnaskedForgetsNothing
<1>9. ASSUME NEW a \in Agents, BeginMerge(a) PROVE NothingForgotten'
  <2> DEFINE v == [ask[a] EXCEPT !.phase = "merging"]
             changed == [ask EXCEPT ![a] = v]
  <2>1. /\ v \in Verdict /\ v.phase = "merging" /\ v.now = ask[a].now
        /\ v.blocked = ask[a].blocked /\ v.lasting = ask[a].lasting
    BY DEF TypeOK, Verdict
  <2>2. Recalling(changed) /\ clock' = clock /\ ask[a].phase = "done"
    BY <1>9 DEF BeginMerge, TypeOK
  <2>3. Ahead("merging") = Ahead("done")
    BY DEF Ahead
  <2> HIDE DEF v
  <2>4. changed \in Verdicts /\ \A b \in Agents : changed[b] = IF b = a THEN v ELSE ask[b]
    BY <1>1, <2>1 DEF Verdicts
  <2> HIDE DEF changed
  <2>5. QED
    BY <1>1, <2>1, <2>2, <2>3, <2>4, UnaskedForgetsNothing
<1>10. Askers \subseteq Agents
  BY MergeGateAssumption
<1>11. QED
  BY <1>2, <1>3, <1>4, <1>5, <1>6, <1>7, <1>8, <1>9, <1>10, AskForgetsNothing,
     StatementsForgetNothing DEF Next

(***************************************************************************)
(* No verdict of mergeable passes over what stood in the way throughout    *)
(* its asking, for any peers, changes, cap and interleaving of its         *)
(* statements with theirs (merge_readiness).                               *)
(***************************************************************************)
THEOREM VerdictsHold == Spec => []LastingBlockersBlock
<1>1. Init => NothingForgotten
  BY NoAskRemembers DEF Init, NothingForgotten
<1>2. TypeOK /\ NothingForgotten /\ [Next]_vars => NothingForgotten'
  BY StepForgetsNothing
<1>3. NothingForgotten => LastingBlockersBlock
  BY DEF NothingForgotten, Remembers, Ahead, LastingBlockersBlock
<1>4. QED
  BY <1>1, <1>2, <1>3, TypeCorrect, PTL DEF Spec
=============================================================================
