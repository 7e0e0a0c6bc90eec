---------------------------- MODULE ServicesProofs ----------------------------
(***************************************************************************)
(* What the smaller services promise for every value of their constants:   *)
(* the event ledger for any number of consumers, events and trims; the     *)
(* inbox for any number of sessions; the terminal for any clients and any  *)
(* ring and channel; the swarm for any number of workers; the supervised   *)
(* run, which has no parameters.                                           *)
(***************************************************************************)
EXTENDS EventLedger, Mailbox, Terminal, Swarm, SupervisedRun,
        FiniteSetTheorems, WellFoundedInduction, TLAPS

-----------------------------------------------------------------------------
(***************************************************************************)
(* Bounded sets of numbers have a largest one, and Max is it.              *)
(***************************************************************************)
LEMMA LeastNatural ==
  ASSUME NEW T \in SUBSET Nat, T # {}
  PROVE  \E x \in T : \A y \in T : x <= y
<1> DEFINE R == OpToRel(<, Nat)
<1>1. IsWellFoundedOn(R, Nat)
  BY NatLessThanWellFounded
<1>2. \A x, y \in T : x < y <=> <<x, y>> \in R
  BY DEF OpToRel
<1> HIDE DEF R
<1>3. PICK x \in T : \A y \in T : <<y, x>> \notin R
  BY <1>1, WFMin
<1>4. ASSUME NEW y \in T
      PROVE  x <= y
  <2>1. ~(y < x) /\ x \in Nat /\ y \in Nat
    BY <1>2, <1>3
  <2>2. QED
    BY <2>1
<1>5. QED
  BY <1>4

LEMMA LargestOf ==
  ASSUME NEW n \in Nat, NEW S \in SUBSET (0..n), S # {}
  PROVE  Max(S) \in S /\ \A y \in S : y <= Max(S)
<1> DEFINE T == {k \in 0..n : n - k \in S}
<1>1. ASSUME NEW y \in S
      PROVE  n - y \in T
  <2>1. y \in 0..n /\ n - (n - y) = y /\ n - y \in 0..n
    OBVIOUS
  <2>2. QED
    BY <2>1
<1>2. T \in SUBSET Nat
  OBVIOUS
<1>3. T # {}
  BY <1>1
<1>4. PICK k \in T : \A l \in T : k <= l
  BY <1>2, <1>3, LeastNatural
<1>5. ASSUME NEW y \in S
      PROVE  y <= n - k
  <2>1. k <= n - y /\ y \in Nat /\ k \in Nat
    BY <1>1, <1>4
  <2>2. QED
    BY <2>1
<1>6. \E x \in S : \A y \in S : x >= y
  BY <1>4, <1>5
<1>7. QED
  BY <1>6 DEF Max

-----------------------------------------------------------------------------
(***************************************************************************)
(* The event ledger.                                                       *)
(***************************************************************************)
LedgerType ==
  /\ last \in Nat
  /\ events \subseteq 1..last
  /\ after \in [Consumers -> 0..last]
  /\ read \in [Consumers -> SUBSET (1..last)]

LedgerInv == LedgerType /\ NothingSkipped

\* A page is the lowest of what is to come: it leaves nothing out below its end.
LEMMA PageHasNoGap ==
  ASSUME LedgerType, NEW c \in Consumers, Answer(c) # {}
  PROVE  /\ Max(Answer(c)) \in Answer(c)
         /\ \A e \in events : after[c] < e /\ e <= Max(Answer(c)) => e \in Answer(c)
<1> DEFINE m == Max(Answer(c))
           Between(e) == {f \in events : after[c] < f /\ f < e}
<1>1. Answer(c) \subseteq events /\ events \subseteq 1..last /\ last \in Nat
  BY DEF Answer, LedgerType
<1>2. last \in Nat /\ Answer(c) \in SUBSET (0..last)
  <2>1. ASSUME NEW e \in Answer(c)
        PROVE  e \in 0..last
    <3>1. e \in 1..last /\ last \in Nat
      BY <1>1
    <3>2. QED
      BY <3>1
  <2>2. QED
    BY <1>1, <2>1
<1>3. m \in Answer(c)
  BY <1>1, <1>2, LargestOf
<1>4. Cardinality(Between(m)) < Limit
  BY <1>3 DEF Answer
<1>5. ASSUME NEW e \in events, after[c] < e, e <= m
      PROVE  e \in Answer(c)
  <2>1. events \in SUBSET Nat /\ m \in Nat /\ after[c] \in Nat
    BY <1>1, <1>2, <1>3 DEF LedgerType
  <2>2. ASSUME NEW f \in Between(e)
        PROVE  f \in Between(m)
    <3>1. f \in Nat /\ e \in Nat /\ m \in Nat /\ f < e /\ e <= m
      BY <1>5, <2>1
    <3>2. f < m
      BY <3>1
    <3>3. QED
      BY <3>2
  <2>3. IsFiniteSet(Between(m))
    <3>1. IsFiniteSet(1..last)
      BY <1>2, FS_Interval
    <3>2. Between(m) \subseteq 1..last
      BY DEF LedgerType
    <3>3. QED
      BY <3>1, <3>2, FS_Subset
  <2>4. /\ Cardinality(Between(e)) <= Cardinality(Between(m))
        /\ Cardinality(Between(e)) \in Nat /\ Cardinality(Between(m)) \in Nat
    <3>1. Between(e) \subseteq Between(m)
      BY <2>2
    <3>2. QED
      BY <3>1, <2>3, FS_Subset, FS_CardinalityType
  <2>5. Limit \in Nat
    BY EventLedgerAssumption
  <2>6. Cardinality(Between(e)) < Limit
    BY <1>4, <2>4, <2>5
  <2>7. QED
    BY <1>5, <2>6 DEF Answer
<1>6. QED
  BY <1>3, <1>5

\* What a look does, of whichever call.
LEMMA GivenKeeps ==
  ASSUME LedgerInv, NEW c \in Consumers, Given(c)
  PROVE  LedgerInv'
<1>1. last' = last /\ events' = events /\ last \in Nat
  BY DEF Given, LedgerInv, LedgerType
<1>2. CASE Answer(c) = {}
  <2>1. after' = after /\ read' = read
    BY <1>2 DEF Given, LedgerInv, LedgerType
  <2>2. QED
    BY <1>1, <2>1 DEF LedgerInv, LedgerType, NothingSkipped
<1>3. CASE Answer(c) # {}
  <2> DEFINE m == Max(Answer(c))
  <2>1. Answer(c) \subseteq events
    BY DEF Answer
  <2>2. m \in Answer(c) /\ \A e \in events : after[c] < e /\ e <= m => e \in Answer(c)
    BY <1>3, PageHasNoGap DEF LedgerInv
  <2>3. m \in 1..last
    BY <2>1, <2>2 DEF LedgerInv, LedgerType
  <2> HIDE DEF m
  <2>4. /\ after' = [after EXCEPT ![c] = m]
        /\ read' = [read EXCEPT ![c] = @ \cup Answer(c)]
    BY <1>3 DEF Given, m
  <2>5. LedgerType'
    <3>1. after' \in [Consumers -> 0..last]
      BY <2>3, <2>4 DEF LedgerInv, LedgerType
    <3>2. read' \in [Consumers -> SUBSET (1..last)]
      <4>1. Answer(c) \in SUBSET (1..last)
        BY <2>1 DEF LedgerInv, LedgerType
      <4>2. read[c] \cup Answer(c) \in SUBSET (1..last)
        BY <4>1 DEF LedgerInv, LedgerType
      <4>3. QED
        BY <2>4, <4>2 DEF LedgerInv, LedgerType
    <3>3. QED
      BY <1>1, <3>1, <3>2 DEF LedgerInv, LedgerType
  <2>6. ASSUME NEW d \in Consumers, NEW e \in events, e <= after'[d]
        PROVE  e \in read'[d]
    <3>1. e \in Nat /\ after[c] \in Nat /\ m \in Nat
      BY <1>1, <2>3 DEF LedgerInv, LedgerType
    <3>2. CASE d = c
      <4>1. after'[d] = m /\ read'[d] = read[c] \cup Answer(c)
        BY <2>4, <3>2 DEF LedgerInv, LedgerType
      <4>2. QED
        BY <2>2, <2>6, <3>1, <4>1 DEF LedgerInv, NothingSkipped
    <3>3. CASE d # c
      <4>1. after'[d] = after[d] /\ read'[d] = read[d]
        BY <2>4, <3>3 DEF LedgerInv, LedgerType
      <4>2. QED
        BY <2>6, <4>1 DEF LedgerInv, NothingSkipped
    <3>4. QED
      BY <3>2, <3>3
  <2>7. QED
    BY <1>1, <2>5, <2>6 DEF LedgerInv, NothingSkipped
<1>4. QED
  BY <1>2, <1>3

(***************************************************************************)
(* Nothing is skipped, for any number of consumers, any page and retention *)
(* size, and however appends, trims and looks fall together.               *)
(***************************************************************************)
THEOREM LedgerSkipsNothing == SpecLedger => []NothingSkipped
<1>1. InitLedger => LedgerInv
  BY DEF InitLedger, LedgerInv, LedgerType, NothingSkipped
<1>2. LedgerInv /\ [NextLedger]_ledgerVars => LedgerInv'
  <2> SUFFICES ASSUME LedgerInv, [NextLedger]_ledgerVars
               PROVE  LedgerInv'
    OBVIOUS
  <2>1. CASE AppendEvent
    <3>1. LedgerType'
      BY <2>1 DEF AppendEvent, LedgerInv, LedgerType
    <3>2. \A c \in Consumers : {e \in events' : e <= after'[c]} = {e \in events : e <= after[c]}
      BY <2>1 DEF AppendEvent, LedgerInv, LedgerType
    <3>3. QED
      BY <2>1, <3>1, <3>2 DEF AppendEvent, LedgerInv, NothingSkipped
  <2>2. CASE Trim
    <3>1. events' \subseteq events /\ UNCHANGED <<last, after, read>>
      BY <2>2 DEF Trim
    <3>2. QED
      BY <3>1 DEF LedgerInv, LedgerType, NothingSkipped
  <2>3. CASE UNCHANGED <<last, events, after, read>>
    BY <2>3 DEF LedgerInv, LedgerType, NothingSkipped
  <2>4. ASSUME NEW c \in Consumers, Events(c) \/ Look(c)
        PROVE  LedgerInv'
    BY <2>4, GivenKeeps DEF Events, Look
  <2>5. QED
    BY <2>1, <2>2, <2>3, <2>4
    DEF NextLedger, Pass, Wait, Waiter, Check, Wake, ledgerVars
<1>3. LedgerInv => NothingSkipped
  BY DEF LedgerInv
<1>4. QED
  BY <1>1, <1>2, <1>3, PTL DEF SpecLedger

-----------------------------------------------------------------------------
(***************************************************************************)
(* The inbox: what a call is about to acknowledge, its listing showed.     *)
(***************************************************************************)
MailInv ==
  /\ DOMAIN calls = Agents
  /\ \A a \in Agents : calls[a].ids \X {a} \subseteq listed
  /\ AcknowledgedWasListed

(***************************************************************************)
(* What is acknowledged was listed, for any number of sessions, messages   *)
(* and messages to a listing.                                              *)
(***************************************************************************)
THEOREM InboxLosesNothing == SpecMail => []AcknowledgedWasListed
<1>1. InitMail => MailInv
  BY DEF InitMail, MailInv, NoCall, AcknowledgedWasListed
<1>2. MailInv /\ [NextMail]_mailVars => MailInv'
  <2> SUFFICES ASSUME MailInv, [NextMail]_mailVars
               PROVE  MailInv'
    OBVIOUS
  <2>1. CASE UNCHANGED <<receipts, calls, listed>>
    BY <2>1 DEF MailInv, AcknowledgedWasListed
  <2>2. ASSUME NEW a \in Agents, List(a)
        PROVE  MailInv'
    <3>1. /\ calls' = [calls EXCEPT ![a] = [phase |-> "listed", ids |-> FirstOf(Unread(a))]]
          /\ listed' = listed \cup (FirstOf(Unread(a)) \X {a})
          /\ receipts' = receipts
      BY <2>2 DEF List
    <3>2. ASSUME NEW b \in Agents
          PROVE  calls'[b].ids \X {b} \subseteq listed'
      <4>1. CASE b = a
        BY <3>1, <4>1 DEF MailInv
      <4>2. CASE b # a
        BY <3>1, <4>2 DEF MailInv
      <4>3. QED
        BY <4>1, <4>2
    <3>3. QED
      BY <3>1, <3>2 DEF MailInv, AcknowledgedWasListed
  <2>3. ASSUME NEW a \in Agents, Acknowledge(a)
        PROVE  MailInv'
    <3>1. /\ calls' = [calls EXCEPT ![a] = NoCall]
          /\ receipts' = receipts \cup (Acknowledged(a, calls[a].ids) \X {a})
          /\ listed' = listed
      BY <2>3 DEF Acknowledge
    <3>2. Acknowledged(a, calls[a].ids) \X {a} \subseteq listed
      BY DEF Acknowledged, MailInv
    <3>3. QED
      BY <3>1, <3>2 DEF MailInv, AcknowledgedWasListed, NoCall
  <2>4. ASSUME NEW a \in Agents, Drop(a)
        PROVE  MailInv'
    BY <2>4 DEF Drop, MailInv, AcknowledgedWasListed, NoCall
  <2>5. QED
    BY <2>1, <2>2, <2>3, <2>4
    DEF NextMail, PassTime, BeginJoin, Join, Leave, Send, mailVars
<1>3. MailInv => AcknowledgedWasListed
  BY DEF MailInv
<1>4. QED
  BY <1>1, <1>2, <1>3, PTL DEF SpecMail

-----------------------------------------------------------------------------
(***************************************************************************)
(* The swarm.  An exit code is known of a process that is gone, and of no  *)
(* other; while workers are started the later ones have nothing yet; once  *)
(* the loop runs, a known exit code means a stopped row, but for the one   *)
(* whose row is about to be; the forced stop has waited for those behind.  *)
(***************************************************************************)
Starting == {"register", "spawn", "record"}

Looping == {"request", "kill", "poll", "stop row", "beat", "round"}

SwarmType ==
  /\ at \in [step : Starting \cup Looping \cup {"force", "finished", "forced", "abandoned"},
             worker : Workers]
  /\ rows \in [Workers -> {"none", "running", "stopped"}]
  /\ procs \in [Workers -> [state : {"none", "live", "killed", "gone"}, code : {0, 1}]]
  /\ codes \in [Workers -> {Unknown, 0, 1}]

KnownIsGone == \A w \in Workers : codes[w] # Unknown => procs[w].state = "gone"

NothingYet ==
  /\ at.step \in Starting => \A w \in Workers : codes[w] = Unknown
  /\ at.step \in {"register", "spawn"} =>
       \A w \in Workers : w >= at.worker => procs[w].state = "none"
  /\ at.step = "record" => \A w \in Workers : w > at.worker => procs[w].state = "none"

RowsFollow ==
  /\ at.step \in Looping =>
       \A w \in Workers : codes[w] # Unknown /\ ~(at.step = "stop row" /\ w = at.worker)
                            => rows[w] = "stopped"
  /\ at.step = "stop row" => codes[at.worker] # Unknown
  /\ at.step = "finished" =>
       \A w \in Workers : codes[w] # Unknown /\ rows[w] = "stopped"

ForcedBehind ==
  /\ at.step = "force" =>
       \A w \in Workers : w < at.worker =>
         /\ procs[w].state \in {"gone", "none"}
         /\ ~options.faulty => rows[w] # "running"
  /\ at.step = "forced" =>
       \A w \in Workers : /\ procs[w].state \in {"gone", "none"}
                          /\ ~options.faulty => rows[w] # "running"

SwarmInv == SwarmType /\ KnownIsGone /\ NothingYet /\ RowsFollow /\ ForcedBehind

LEMMA WorkersAre ==
  /\ 0 \in Workers /\ Unknown \notin {0, 1}
  /\ \A w \in Workers : w + 1 < N => w + 1 \in Workers
BY SwarmAssumption DEF Workers, Unknown

LEMMA WorkersInOrder ==
  ASSUME NEW w \in Workers
  PROVE  /\ ~(w < 0)
         /\ \A v \in Workers : /\ v < w + 1 <=> v < w \/ v = w
                               /\ v >= w + 1 <=> v > w
                               /\ v >= w <=> v > w \/ v = w
                               /\ ~(w + 1 < N) => v < w \/ v = w
         /\ ~(w > w)
BY SwarmAssumption DEF Workers

LEMMA AfterPollGoes ==
  ASSUME SwarmType, AfterPoll
  PROVE  at'.step \in {"poll", "beat"} /\ at' \in [step : {"poll", "beat"}, worker : Workers]
BY WorkersAre DEF SwarmType, AfterPoll, Goes

LEMMA NextWorker ==
  ASSUME NEW step, NEW rest, SwarmType,
         (IF at.worker + 1 < N THEN Goes(step, at.worker + 1) ELSE Goes(rest, 0))
  PROVE  /\ \/ /\ at.worker + 1 < N
               /\ at' = [step |-> step, worker |-> at.worker + 1]
               /\ at'.step = step /\ at'.worker = at.worker + 1
            \/ /\ ~(at.worker + 1 < N)
               /\ at' = [step |-> rest, worker |-> 0]
               /\ at'.step = rest /\ at'.worker = 0
         /\ at' \in [step : {step, rest}, worker : Workers]
BY WorkersAre DEF SwarmType, Goes

LEMMA RowForced ==
  ASSUME SwarmType, ForceStop
  PROVE  /\ rows' \in [Workers -> {"none", "running", "stopped"}]
         /\ ~options.faulty => rows'[at.worker] # "running"
         /\ \A v \in Workers : v # at.worker => rows'[v] = rows[v]
<1>1. CASE rows' = [rows EXCEPT ![at.worker] = IF @ = "none" THEN @ ELSE "stopped"]
  BY <1>1 DEF SwarmType
<1>2. CASE options.faulty /\ rows' = rows
  BY <1>2 DEF SwarmType
<1>3. QED
  BY <1>1, <1>2 DEF ForceStop

LEMMA KillKeeps ==
  ASSUME SwarmType, NEW S
  PROVE  /\ Kill(S) \in [Workers -> [state : {"none", "live", "killed", "gone"}, code : {0, 1}]]
         /\ \A w \in Workers : /\ Kill(S)[w].state = "gone" <=> procs[w].state = "gone"
                               /\ Kill(S)[w].state = "none" <=> procs[w].state = "none"
<1>1. ASSUME NEW w \in Workers
      PROVE  /\ Kill(S)[w] \in [state : {"none", "live", "killed", "gone"}, code : {0, 1}]
             /\ Kill(S)[w].state = "gone" <=> procs[w].state = "gone"
             /\ Kill(S)[w].state = "none" <=> procs[w].state = "none"
  BY DEF Kill, SwarmType
<1>2. DOMAIN Kill(S) = Workers
  BY DEF Kill
<1>3. Kill(S) = [w \in Workers |-> Kill(S)[w]]
  BY DEF Kill
<1>4. QED
  BY <1>1, <1>3

LEMMA SwarmBegins == InitSwarm => SwarmInv
BY WorkersAre
DEF InitSwarm, SwarmInv, SwarmType, KnownIsGone, NothingYet, RowsFollow, ForcedBehind,
    Starting, Looping

LEMMA SwarmSteps == SwarmInv /\ [NextSwarm]_swarmVars => SwarmInv'
<1> SUFFICES ASSUME SwarmInv, [NextSwarm]_swarmVars
             PROVE  SwarmInv'
  OBVIOUS
<1> USE DEF SwarmInv
<1>1. CASE UNCHANGED <<at, rows, procs, codes, options>>
  BY <1>1 DEF SwarmType, KnownIsGone, NothingYet, RowsFollow, ForcedBehind
<1>2. ASSUME NEW w \in Workers, NEW code \in {0, 1}, Exit(w, code)
      PROVE  SwarmInv'
  <2>1. /\ procs[w].state \in {"live", "killed"} /\ procs'[w].state = "gone"
        /\ procs' \in [Workers -> [state : {"none", "live", "killed", "gone"}, code : {0, 1}]]
        /\ \A v \in Workers : v # w => procs'[v] = procs[v]
        /\ UNCHANGED <<at, rows, codes, options>>
    BY <1>2 DEF Exit, SwarmType
  <2>2. SwarmType'
    BY <2>1, WorkersAre
    DEF SwarmType, Starting, Looping
  <2>3. KnownIsGone'
    BY <2>1, WorkersAre
    DEF KnownIsGone, SwarmType
  <2>4. NothingYet'
    BY <2>1, WorkersAre
    DEF NothingYet, SwarmType, Starting
  <2>5. RowsFollow'
    BY <2>1, WorkersAre
    DEF RowsFollow, SwarmType, Looping
  <2>6. ForcedBehind'
    BY <2>1, WorkersAre
    DEF ForcedBehind, SwarmType
  <2>7. QED
    BY <2>2, <2>3, <2>4, <2>5, <2>6
<1>3. CASE Register
  <2>1. /\ at.step = "register" /\ rows' = [rows EXCEPT ![at.worker] = "running"]
        /\ at' = [step |-> "spawn", worker |-> at.worker] /\ at'.step = "spawn" /\ at'.worker = at.worker
        /\ UNCHANGED <<procs, codes, options>>
    BY <1>3 DEF Register, Goes
  <2>2. SwarmType'
    BY <2>1, WorkersAre
    DEF SwarmType, Starting, Looping
  <2>3. KnownIsGone'
    BY <2>1, WorkersAre
    DEF KnownIsGone, SwarmType
  <2>4. NothingYet'
    BY <2>1, WorkersAre, WorkersInOrder
    DEF NothingYet, SwarmType, Starting
  <2>5. RowsFollow'
    BY <2>1, WorkersAre
    DEF RowsFollow, SwarmType, Looping
  <2>6. ForcedBehind'
    BY <2>1, WorkersAre
    DEF ForcedBehind, SwarmType
  <2>7. QED
    BY <2>2, <2>3, <2>4, <2>5, <2>6
<1>4. CASE Spawn
  <2>1. /\ at.step = "spawn" /\ procs'[at.worker].state = "live"
        /\ procs' \in [Workers -> [state : {"none", "live", "killed", "gone"}, code : {0, 1}]]
        /\ \A v \in Workers : v # at.worker => procs'[v] = procs[v]
        /\ at' = [step |-> "record", worker |-> at.worker] /\ at'.step = "record" /\ at'.worker = at.worker
        /\ UNCHANGED <<rows, codes, options>>
    BY <1>4 DEF Spawn, Goes, SwarmType
  <2>2. SwarmType'
    BY <2>1, WorkersAre
    DEF SwarmType, Starting, Looping
  <2>3. KnownIsGone'
    BY <2>1, WorkersAre
    DEF KnownIsGone, SwarmType, NothingYet, Starting
  <2>4. NothingYet'
    BY <2>1, WorkersAre, WorkersInOrder
    DEF NothingYet, SwarmType, Starting
  <2>5. RowsFollow'
    BY <2>1, WorkersAre
    DEF RowsFollow, SwarmType, Looping
  <2>6. ForcedBehind'
    BY <2>1, WorkersAre
    DEF ForcedBehind, SwarmType
  <2>7. QED
    BY <2>2, <2>3, <2>4, <2>5, <2>6
<1>5. CASE Record
  <2>1. /\ at.step = "record"
        /\ \/ at.worker + 1 < N /\ at' = [step |-> "register", worker |-> at.worker + 1] /\ at'.step = "register" /\ at'.worker = at.worker + 1
           \/ ~(at.worker + 1 < N) /\ at' = [step |-> "request", worker |-> 0] /\ at'.step = "request" /\ at'.worker = 0
        /\ at' \in [step : {"register", "request"}, worker : Workers]
        /\ UNCHANGED <<rows, procs, codes, options>>
    BY <1>5, NextWorker DEF Record
  <2>2. SwarmType'
    BY <2>1, WorkersAre
    DEF SwarmType, Starting, Looping
  <2>3. KnownIsGone'
    BY <2>1, WorkersAre
    DEF KnownIsGone, SwarmType
  <2>4. NothingYet'
    BY <2>1, WorkersAre, WorkersInOrder
    DEF NothingYet, SwarmType, Starting
  <2>5. RowsFollow'
    BY <2>1, WorkersAre
    DEF RowsFollow, SwarmType, Looping, NothingYet, Starting
  <2>6. ForcedBehind'
    BY <2>1, WorkersAre
    DEF ForcedBehind, SwarmType
  <2>7. QED
    BY <2>2, <2>3, <2>4, <2>5, <2>6
<1>6. CASE SpawnFails \/ RecordFails
  <2>1. /\ at.step \in {"spawn", "record"} /\ procs' = Kill(Workers)
        /\ rows' \in [Workers -> {"none", "running", "stopped"}]
        /\ at' = [step |-> "force", worker |-> 0] /\ at'.step = "force" /\ at'.worker = 0
        /\ UNCHANGED <<codes, options>>
    BY <1>6 DEF SpawnFails, RecordFails, Goes, SwarmType
  <2>2. SwarmType'
    BY <2>1, WorkersAre, KillKeeps
    DEF SwarmType, Starting, Looping
  <2>3. KnownIsGone'
    BY <2>1, WorkersAre, KillKeeps
    DEF KnownIsGone, SwarmType
  <2>4. NothingYet'
    BY <2>1, WorkersAre, KillKeeps
    DEF NothingYet, SwarmType, Starting
  <2>5. RowsFollow'
    BY <2>1, WorkersAre, KillKeeps
    DEF RowsFollow, SwarmType, Looping
  <2>6. ForcedBehind'
    BY <2>1, WorkersAre, WorkersInOrder, KillKeeps
    DEF ForcedBehind, SwarmType
  <2>7. QED
    BY <2>2, <2>3, <2>4, <2>5, <2>6
<1>7. CASE ForceStop
  <2>1. /\ at.step = "force" /\ procs[at.worker].state \in {"gone", "none"}
        /\ rows' \in [Workers -> {"none", "running", "stopped"}]
        /\ ~options.faulty => rows'[at.worker] # "running"
        /\ \A v \in Workers : v # at.worker => rows'[v] = rows[v]
        /\ \/ at.worker + 1 < N /\ at' = [step |-> "force", worker |-> at.worker + 1] /\ at'.step = "force" /\ at'.worker = at.worker + 1
           \/ ~(at.worker + 1 < N) /\ at' = [step |-> "forced", worker |-> 0] /\ at'.step = "forced" /\ at'.worker = 0
        /\ at' \in [step : {"force", "forced"}, worker : Workers]
        /\ UNCHANGED <<procs, codes, options>>
    BY <1>7, NextWorker, RowForced DEF ForceStop
  <2>2. SwarmType'
    BY <2>1, WorkersAre
    DEF SwarmType, Starting, Looping
  <2>3. KnownIsGone'
    BY <2>1, WorkersAre
    DEF KnownIsGone, SwarmType
  <2>4. NothingYet'
    BY <2>1, WorkersAre
    DEF NothingYet, SwarmType, Starting
  <2>5. RowsFollow'
    BY <2>1, WorkersAre
    DEF RowsFollow, SwarmType, Looping
  <2>6. ForcedBehind'
    BY <2>1, WorkersAre, WorkersInOrder
    DEF ForcedBehind, SwarmType
  <2>7. QED
    BY <2>2, <2>3, <2>4, <2>5, <2>6
<1>8. CASE Request
  <2>1. /\ at.step = "request"
        /\ at' = [step |-> "kill", worker |-> 0] /\ at'.step = "kill" /\ at'.worker = 0
        /\ UNCHANGED <<rows, procs, codes, options>>
    BY <1>8 DEF Request, Goes
  <2>2. SwarmType'
    BY <2>1, WorkersAre
    DEF SwarmType, Starting, Looping
  <2>3. KnownIsGone'
    BY <2>1, WorkersAre
    DEF KnownIsGone, SwarmType
  <2>4. NothingYet'
    BY <2>1, WorkersAre
    DEF NothingYet, SwarmType, Starting
  <2>5. RowsFollow'
    BY <2>1, WorkersAre
    DEF RowsFollow, SwarmType, Looping
  <2>6. ForcedBehind'
    BY <2>1, WorkersAre
    DEF ForcedBehind, SwarmType
  <2>7. QED
    BY <2>2, <2>3, <2>4, <2>5, <2>6
<1>9. CASE KillStragglers
  <2>1. /\ at.step = "kill" /\ procs' = Kill(Stragglers)
        /\ at' = [step |-> "poll", worker |-> 0] /\ at'.step = "poll" /\ at'.worker = 0
        /\ UNCHANGED <<rows, codes, options>>
    BY <1>9 DEF KillStragglers, Goes
  <2>2. SwarmType'
    BY <2>1, WorkersAre, KillKeeps
    DEF SwarmType, Starting, Looping
  <2>3. KnownIsGone'
    BY <2>1, WorkersAre, KillKeeps
    DEF KnownIsGone, SwarmType
  <2>4. NothingYet'
    BY <2>1, WorkersAre, KillKeeps
    DEF NothingYet, SwarmType, Starting
  <2>5. RowsFollow'
    BY <2>1, WorkersAre, KillKeeps
    DEF RowsFollow, SwarmType, Looping
  <2>6. ForcedBehind'
    BY <2>1, WorkersAre, WorkersInOrder, KillKeeps
    DEF ForcedBehind, SwarmType
  <2>7. QED
    BY <2>2, <2>3, <2>4, <2>5, <2>6
<1>10. CASE PollNothing
  <2>1. /\ at.step = "poll"
        /\ at'.step \in {"poll", "beat"} /\ at' \in [step : {"poll", "beat"}, worker : Workers]
        /\ UNCHANGED <<rows, procs, codes, options>>
    BY <1>10, AfterPollGoes DEF PollNothing
  <2>2. SwarmType'
    BY <2>1, WorkersAre
    DEF SwarmType, Starting, Looping
  <2>3. KnownIsGone'
    BY <2>1, WorkersAre
    DEF KnownIsGone, SwarmType
  <2>4. NothingYet'
    BY <2>1, WorkersAre
    DEF NothingYet, SwarmType, Starting
  <2>5. RowsFollow'
    BY <2>1, WorkersAre
    DEF RowsFollow, SwarmType, Looping
  <2>6. ForcedBehind'
    BY <2>1, WorkersAre
    DEF ForcedBehind, SwarmType
  <2>7. QED
    BY <2>2, <2>3, <2>4, <2>5, <2>6
<1>11. CASE Poll
  <2>1. /\ at.step = "poll" /\ procs[at.worker].state = "gone"
        /\ codes' = [codes EXCEPT ![at.worker] = procs[at.worker].code]
        /\ codes'[at.worker] \in {0, 1} /\ \A v \in Workers : v # at.worker => codes'[v] = codes[v]
        /\ at' = [step |-> "stop row", worker |-> at.worker] /\ at'.step = "stop row" /\ at'.worker = at.worker
        /\ UNCHANGED <<rows, procs, options>>
    BY <1>11 DEF Poll, Goes, SwarmType
  <2>2. SwarmType'
    BY <2>1, WorkersAre
    DEF SwarmType, Starting, Looping
  <2>3. KnownIsGone'
    BY <2>1, WorkersAre
    DEF KnownIsGone, SwarmType
  <2>4. NothingYet'
    BY <2>1, WorkersAre
    DEF NothingYet, SwarmType, Starting
  <2>5. RowsFollow'
    BY <2>1, WorkersAre
    DEF RowsFollow, SwarmType, Looping
  <2>6. ForcedBehind'
    BY <2>1, WorkersAre
    DEF ForcedBehind, SwarmType
  <2>7. QED
    BY <2>2, <2>3, <2>4, <2>5, <2>6
<1>12. CASE StopRow
  <2>1. /\ at.step = "stop row" /\ rows' = [rows EXCEPT ![at.worker] = "stopped"]
        /\ at'.step \in {"poll", "beat"} /\ at' \in [step : {"poll", "beat"}, worker : Workers]
        /\ UNCHANGED <<procs, codes, options>>
    BY <1>12, AfterPollGoes DEF StopRow
  <2>2. SwarmType'
    BY <2>1, WorkersAre
    DEF SwarmType, Starting, Looping
  <2>3. KnownIsGone'
    BY <2>1, WorkersAre
    DEF KnownIsGone, SwarmType
  <2>4. NothingYet'
    BY <2>1, WorkersAre
    DEF NothingYet, SwarmType, Starting
  <2>5. RowsFollow'
    BY <2>1, WorkersAre
    DEF RowsFollow, SwarmType, Looping
  <2>6. ForcedBehind'
    BY <2>1, WorkersAre
    DEF ForcedBehind, SwarmType
  <2>7. QED
    BY <2>2, <2>3, <2>4, <2>5, <2>6
<1>13. CASE Beat
  <2>1. /\ at.step = "beat" /\ rows' = [rows EXCEPT ![at.worker] = IF at.worker \in Remaining THEN "running" ELSE @]
        /\ at'.step \in {"beat", "round"} /\ at' \in [step : {"beat", "round"}, worker : Workers]
        /\ UNCHANGED <<procs, codes, options>>
    BY <1>13, WorkersAre DEF Beat, Beaten, Goes, SwarmType
  <2>2. SwarmType'
    BY <2>1, WorkersAre
    DEF SwarmType, Starting, Looping
  <2>3. KnownIsGone'
    BY <2>1, WorkersAre
    DEF KnownIsGone, SwarmType
  <2>4. NothingYet'
    BY <2>1, WorkersAre
    DEF NothingYet, SwarmType, Starting
  <2>5. RowsFollow'
    BY <2>1, WorkersAre
    DEF RowsFollow, SwarmType, Looping, Remaining
  <2>6. ForcedBehind'
    BY <2>1, WorkersAre
    DEF ForcedBehind, SwarmType
  <2>7. QED
    BY <2>2, <2>3, <2>4, <2>5, <2>6
<1>14. CASE SkipBeat
  <2>1. /\ at.step = "beat"
        /\ at' = [step |-> "round", worker |-> 0] /\ at'.step = "round" /\ at'.worker = 0
        /\ UNCHANGED <<rows, procs, codes, options>>
    BY <1>14 DEF SkipBeat, Goes
  <2>2. SwarmType'
    BY <2>1, WorkersAre
    DEF SwarmType, Starting, Looping
  <2>3. KnownIsGone'
    BY <2>1, WorkersAre
    DEF KnownIsGone, SwarmType
  <2>4. NothingYet'
    BY <2>1, WorkersAre
    DEF NothingYet, SwarmType, Starting
  <2>5. RowsFollow'
    BY <2>1, WorkersAre
    DEF RowsFollow, SwarmType, Looping
  <2>6. ForcedBehind'
    BY <2>1, WorkersAre
    DEF ForcedBehind, SwarmType
  <2>7. QED
    BY <2>2, <2>3, <2>4, <2>5, <2>6
<1>15. CASE Round
  <2>1. /\ at.step = "round"
        /\ \/ Remaining = {} /\ at' = [step |-> "finished", worker |-> 0] /\ at'.step = "finished" /\ at'.worker = 0
           \/ TRUE /\ at' = [step |-> "request", worker |-> 0] /\ at'.step = "request" /\ at'.worker = 0
        /\ UNCHANGED <<rows, procs, codes, options>>
    BY <1>15 DEF Round, Goes
  <2>2. SwarmType'
    BY <2>1, WorkersAre
    DEF SwarmType, Starting, Looping
  <2>3. KnownIsGone'
    BY <2>1, WorkersAre
    DEF KnownIsGone, SwarmType
  <2>4. NothingYet'
    BY <2>1, WorkersAre
    DEF NothingYet, SwarmType, Starting
  <2>5. RowsFollow'
    BY <2>1, WorkersAre
    DEF RowsFollow, SwarmType, Looping, Remaining
  <2>6. ForcedBehind'
    BY <2>1, WorkersAre
    DEF ForcedBehind, SwarmType
  <2>7. QED
    BY <2>2, <2>3, <2>4, <2>5, <2>6
<1>16. ASSUME NEW step, StoreError(step)
       PROVE  SwarmInv'
  <2>1. /\ at' = [step |-> "abandoned", worker |-> 0] /\ at'.step = "abandoned" /\ at'.worker = 0
        /\ UNCHANGED <<rows, procs, codes, options>>
    BY <1>16 DEF StoreError, Goes
  <2>2. SwarmType'
    BY <2>1, WorkersAre
    DEF SwarmType, Starting, Looping
  <2>3. KnownIsGone'
    BY <2>1, WorkersAre
    DEF KnownIsGone, SwarmType
  <2>4. NothingYet'
    BY <2>1, WorkersAre
    DEF NothingYet, SwarmType, Starting
  <2>5. RowsFollow'
    BY <2>1, WorkersAre
    DEF RowsFollow, SwarmType, Looping
  <2>6. ForcedBehind'
    BY <2>1, WorkersAre
    DEF ForcedBehind, SwarmType
  <2>7. QED
    BY <2>2, <2>3, <2>4, <2>5, <2>6
<1>17. QED
  BY <1>1, <1>2, <1>3, <1>4, <1>5, <1>6, <1>7, <1>8, <1>9,
     <1>10, <1>11, <1>12, <1>13, <1>14, <1>15, <1>16
  DEF NextSwarm, Supervisor, Interrupt, GraceEnds, swarmVars

(***************************************************************************)
(* A supervisor that ended left no process and no row to be cleaned up,    *)
(* for any number of workers, however they end and are interrupted.        *)
(***************************************************************************)
THEOREM SwarmEndsClean == SpecSwarm => []EndLeavesNothing
<1>1. SwarmInv => EndLeavesNothing
  BY DEF SwarmInv, KnownIsGone, RowsFollow, ForcedBehind, EndLeavesNothing, NoProcess
<1>2. QED
  BY <1>1, SwarmBegins, SwarmSteps, PTL DEF SpecSwarm

-----------------------------------------------------------------------------
(***************************************************************************)
(* The supervised run: the join puts the thread's last step before the     *)
(* supervisor's.                                                           *)
(***************************************************************************)
RunInv ==
  /\ main \in {"stop", "ended"} => thread = "over"
  /\ EndedRunStaysStopped

(***************************************************************************)
(* The row of a command that ended stays stopped, wherever the thread was. *)
(***************************************************************************)
THEOREM RunStaysStopped == SpecRun => []EndedRunStaysStopped
<1>1. InitRun => RunInv
  BY DEF InitRun, RunInv, EndedRunStaysStopped
<1>2. RunInv /\ [NextRun]_runVars => RunInv'
  <2> SUFFICES ASSUME RunInv, [NextRun]_runVars
               PROVE  RunInv'
    OBVIOUS
  <2>1. CASE UNCHANGED runVars
    BY <2>1 DEF runVars, RunInv, EndedRunStaysStopped
  <2>2. CASE Thread
    BY <2>2 DEF Thread, Unpark, BeatRun, LookAgain, RunInv, EndedRunStaysStopped
  <2>3. CASE Main
    BY <2>3 DEF Main, RegisterRun, SpawnRun, SpawnRunFails, RecordRun, WaitRun, JoinRun,
                StopRun, Step, Joined, RunInv, EndedRunStaysStopped
  <2>4. CASE RunFails \/ CommandEnds
    BY <2>4 DEF RunFails, CommandEnds, RunInv, EndedRunStaysStopped
  <2>5. QED
    BY <2>1, <2>2, <2>3, <2>4 DEF NextRun
<1>3. RunInv => EndedRunStaysStopped
  BY DEF RunInv
<1>4. QED
  BY <1>1, <1>2, <1>3, PTL DEF SpecRun

-----------------------------------------------------------------------------
(***************************************************************************)
(* The terminal.                                                           *)
(***************************************************************************)
LEMMA NothingHasNoBytes == Bytes(<< >>) = 0
<1> DEFINE Fold(iter) ==
             iter = [s \in SUBSET {} |->
                       IF s = {} THEN 0
                       ELSE << >>[CHOOSE x \in s : TRUE].size + iter[s \ {CHOOSE x \in s : TRUE}]]
<1>1. DOMAIN << >> = {}
  OBVIOUS
<1>2. Bytes(<< >>) = (CHOOSE iter : Fold(iter))[{}]
  BY <1>1 DEF Bytes, FoldSeq, FoldFunction, FoldFunctionOnSet, MapThenFoldSet
<1>3. Fold([s \in SUBSET {} |-> 0])
  OBVIOUS
<1>4. \A iter : Fold(iter) => iter[{}] = 0
  OBVIOUS
<1>5. QED
  BY <1>2, <1>3, <1>4

Chunk == [seq : Nat, size : Nat]

\* Chunks without a gap, the last of which is number n.
Contiguous(chunks, n) ==
  /\ chunks \in Seq(Chunk)
  /\ Len(chunks) <= n
  /\ \A i \in 1..Len(chunks) : chunks[i].seq = n - Len(chunks) + i

LEMMA KeptIsSuffix ==
  ASSUME NEW chunks \in Seq(Chunk)
  PROVE  \E i \in 1..Len(chunks) + 1 : Kept(chunks) = SubSeq(chunks, i, Len(chunks))
<1> DEFINE fits == {i \in 1..Len(chunks) + 1 :
                      Bytes(SubSeq(chunks, i, Len(chunks))) <= MAX_OUTPUT_BYTES}
<1>1. Len(chunks) \in Nat
  OBVIOUS
<1>2. SubSeq(chunks, Len(chunks) + 1, Len(chunks)) = << >>
  BY <1>1
<1>3. Len(chunks) + 1 \in fits
  <2>1. Bytes(SubSeq(chunks, Len(chunks) + 1, Len(chunks))) <= MAX_OUTPUT_BYTES
    <3>1. Bytes(SubSeq(chunks, Len(chunks) + 1, Len(chunks))) = 0
      BY <1>2, NothingHasNoBytes
    <3>2. 0 <= MAX_OUTPUT_BYTES
      BY TerminalAssumption
    <3>3. QED
      BY <3>1, <3>2
  <2>2. QED
    BY <1>1, <2>1
<1>4. fits \in SUBSET Nat
  BY <1>1
<1>5. PICK i \in fits : \A j \in fits : i <= j
  BY <1>3, <1>4, LeastNatural
<1>6. (CHOOSE k \in fits : \A j \in fits : k <= j) \in fits
  BY <1>5
<1>7. QED
  BY <1>6 DEF Kept

LEMMA SuffixIsContiguous ==
  ASSUME NEW chunks, NEW n \in Nat, Contiguous(chunks, n), NEW i \in 1..Len(chunks) + 1
  PROVE  Contiguous(SubSeq(chunks, i, Len(chunks)), n)
<1> DEFINE t == SubSeq(chunks, i, Len(chunks))
<1>1. chunks \in Seq(Chunk) /\ Len(chunks) \in Nat /\ Len(chunks) <= n
  BY DEF Contiguous
<1>2. t \in Seq(Chunk) /\ Len(t) = Len(chunks) - i + 1
  BY <1>1
<1>3. \A j \in 1..Len(t) : t[j] = chunks[j + i - 1] /\ j + i - 1 \in 1..Len(chunks)
  BY <1>1, <1>2
<1>4. \A j \in 1..Len(t) : t[j].seq = n - Len(chunks) + (j + i - 1)
  BY <1>3 DEF Contiguous
<1>5. \A j \in 1..Len(t) : t[j].seq = n - Len(t) + j
  BY <1>1, <1>2, <1>4
<1>6. QED
  BY <1>1, <1>2, <1>5 DEF Contiguous

LEMMA RingGrowsWhole ==
  ASSUME NEW n \in Nat, Contiguous(ring, n), NEW size \in Nat
  PROVE  Contiguous(Kept(Append(ring, [seq |-> n + 1, size |-> size])), n + 1)
<1> DEFINE more == Append(ring, [seq |-> n + 1, size |-> size])
<1>1. ring \in Seq(Chunk) /\ Len(ring) \in Nat /\ Len(ring) <= n
  BY DEF Contiguous
<1>2. more \in Seq(Chunk) /\ Len(more) = Len(ring) + 1
  BY <1>1 DEF Chunk
<1>3. ASSUME NEW j \in 1..Len(more)
      PROVE  more[j].seq = n + 1 - Len(more) + j
  <2>1. CASE j = Len(ring) + 1
    BY <1>1, <1>2, <2>1
  <2>2. CASE j # Len(ring) + 1
    <3>1. j \in 1..Len(ring) /\ more[j] = ring[j]
      BY <1>1, <1>2, <2>2
    <3>2. ring[j].seq = n - Len(ring) + j
      BY <3>1 DEF Contiguous
    <3>3. QED
      BY <1>1, <1>2, <3>1, <3>2
  <2>3. QED
    BY <2>1, <2>2
<1>4. Contiguous(more, n + 1)
  BY <1>1, <1>2, <1>3 DEF Contiguous
<1> HIDE DEF more
<1>5. PICK i \in 1..Len(more) + 1 : Kept(more) = SubSeq(more, i, Len(more))
  BY <1>2, KeptIsSuffix
<1>6. n + 1 \in Nat
  OBVIOUS
<1>7. Contiguous(Kept(more), n + 1)
  BY <1>4, <1>5, <1>6, SuffixIsContiguous
<1>8. QED
  BY <1>7 DEF more

LEMMA RestIsContiguous ==
  ASSUME NEW chunks, NEW n \in Nat, Contiguous(chunks, n), chunks # << >>
  PROVE  /\ Head(chunks).seq = n - Len(chunks) + 1
         /\ Contiguous(Tail(chunks), n)
         /\ Len(Tail(chunks)) = Len(chunks) - 1
         /\ Len(chunks) \in 1..n
<1>1. /\ chunks \in Seq(Chunk) /\ Len(chunks) \in 1..n
      /\ Tail(chunks) \in Seq(Chunk) /\ Len(Tail(chunks)) = Len(chunks) - 1
      /\ \A j \in 1..Len(Tail(chunks)) : Tail(chunks)[j] = chunks[j + 1]
      /\ Head(chunks) = chunks[1]
  BY DEF Contiguous
<1>2. \A j \in 1..Len(Tail(chunks)) : chunks[j + 1].seq = n - Len(chunks) + (j + 1)
  BY <1>1 DEF Contiguous
<1>3. \A j \in 1..Len(Tail(chunks)) : Tail(chunks)[j].seq = n - Len(Tail(chunks)) + j
  BY <1>1, <1>2
<1>4. Head(chunks).seq = n - Len(chunks) + 1
  BY <1>1 DEF Contiguous
<1>5. Len(Tail(chunks)) <= n
  BY <1>1
<1>6. Contiguous(Tail(chunks), n)
  BY <1>1, <1>3, <1>5 DEF Contiguous
<1>7. QED
  BY <1>1, <1>4, <1>6

(***************************************************************************)
(* Where a pane is in the stream: before it was sent anything, right       *)
(* behind what is still to come, or further behind with a gap told.        *)
(***************************************************************************)
Pane ==
  [phase : {"none", "ticket", "backlog", "open"}, backlog : Seq(Chunk),
   wants : Nat, shown : Nat, gap : BOOLEAN]

Detached(p) == p.shown = 0

ReadingBacklog(p) ==
  /\ Contiguous(p.backlog, p.wants - 1)
  /\ p.wants \in 1..written + 1
  /\ p.shown = 0 \/ p.shown = p.wants - 1 - Len(p.backlog)

Following(p) ==
  /\ p.wants \in 1..written + 1
  /\ p.shown = 0 \/ p.shown = p.wants - 1 \/ (p.gap /\ p.shown < p.wants)

PaneInv(p) ==
  /\ p \in Pane
  /\ p.phase \in {"none", "ticket"} => Detached(p)
  /\ p.phase = "backlog" => ReadingBacklog(p)
  /\ p.phase = "open" => Following(p)

TermInv ==
  /\ written \in Nat
  /\ Contiguous(ring, written)
  /\ DOMAIN panes = Clients
  /\ \A c \in Clients : PaneInv(panes[c])

\* What one action may do to one pane.
Follows(p, q) ==
  p.shown # 0 /\ q.shown \notin {0, p.shown}
    => \/ q.shown = p.shown + 1
       \/ p.gap /\ q.shown > p.shown

LEMMA NoPaneIs ==
  NoPane \in Pane /\ NoPane.phase = "none" /\ NoPane.shown = 0 /\ NoPane.gap = FALSE
<1>1. << >> \in Seq(Chunk)
  OBVIOUS
<1>2. QED
  BY <1>1 DEF NoPane, Pane

LEMMA NoPaneHolds == PaneInv(NoPane) /\ \A p : Follows(p, NoPane)
BY NoPaneIs DEF PaneInv, Detached, Follows

\* The panes that a send and a lag leave behind.
LEMMA SentIs ==
  ASSUME NEW p \in Pane, NEW n \in Nat
  PROVE  /\ Sent(p, n) \in Pane /\ Sent(p, n).phase = p.phase /\ Sent(p, n).shown = n
         /\ Sent(p, n).wants = p.wants /\ Sent(p, n).backlog = p.backlog
BY DEF Pane, Sent

LEMMA LaggedIs ==
  ASSUME NEW p \in Pane, written \in Nat
  PROVE  /\ AfterLag(p) \in Pane /\ AfterLag(p).phase = p.phase
         /\ AfterLag(p).wants = Oldest /\ AfterLag(p).shown = p.shown /\ AfterLag(p).gap
<1>1. Oldest \in Nat
  BY TerminalAssumption DEF Oldest
<1>2. QED
  BY <1>1 DEF Pane, AfterLag

\* A pane that changes on its own.
LEMMA OnePane ==
  ASSUME TermInv, NEW c \in Clients, NEW q, Becomes(c, q), PaneInv(q), Follows(panes[c], q)
  PROVE  TermInv' /\ \A d \in Clients : Follows(panes[d], panes'[d])
<1>1. /\ panes' = [panes EXCEPT ![c] = q]
      /\ UNCHANGED <<ring, written>> /\ DOMAIN panes = Clients
  BY DEF Becomes, TermInv
<1>2. ASSUME NEW d \in Clients
      PROVE  PaneInv(panes'[d]) /\ Follows(panes[d], panes'[d])
  BY <1>1 DEF TermInv, Follows
<1>3. QED
  BY <1>1, <1>2 DEF TermInv, Contiguous, PaneInv, Detached, ReadingBacklog, Following

LEMMA OldestIs ==
  ASSUME written \in Nat
  PROVE  Oldest \in 1..written + 1
BY TerminalAssumption DEF Oldest

LEMMA TermSteps ==
  ASSUME TermInv, NextTerminal
  PROVE  TermInv' /\ \A c \in Clients : Follows(panes[c], panes'[c])
<1>1. ASSUME NEW size \in Sizes, Pump(size)
      PROVE  TermInv' /\ \A c \in Clients : Follows(panes[c], panes'[c])
  <2>1. written \in Nat /\ written' = written + 1 /\ panes' = panes /\ size \in Nat
    BY <1>1, TerminalAssumption DEF Pump, TermInv
  <2>2. Contiguous(ring', written')
    BY <1>1, <2>1, RingGrowsWhole DEF Pump, TermInv
  <2>3. ASSUME NEW p, PaneInv(p)
        PROVE  PaneInv(p)'
    BY <2>1, <2>3 DEF PaneInv, ReadingBacklog, Following
  <2>4. QED
    BY <2>1, <2>2, <2>3 DEF TermInv, Follows
<1>2. CASE Stop \/ RunEnds
  BY <1>2 DEF Stop, RunEnds, TermInv, PaneInv, Detached, ReadingBacklog, Following, Follows
<1>3. ASSUME NEW c \in Clients, IssueTicket(c)
      PROVE  TermInv' /\ \A d \in Clients : Follows(panes[d], panes'[d])
  <2> DEFINE q == [NoPane EXCEPT !.phase = "ticket"]
  <2>1. PaneInv(q) /\ Follows(panes[c], q)
    <3>1. q \in Pane /\ q.phase = "ticket" /\ q.shown = 0
      BY NoPaneIs DEF Pane
    <3>2. QED
      BY <3>1 DEF PaneInv, Detached, Follows
  <2>2. QED
    BY <1>3, <2>1, OnePane DEF IssueTicket
<1>4. ASSUME NEW c \in Clients,
             RefuseAttach(c) \/ Type(c) \/ LifecycleTick(c) \/ Detach(c)
      PROVE  TermInv' /\ \A d \in Clients : Follows(panes[d], panes'[d])
  <2>1. Becomes(c, NoPane)
    BY <1>4 DEF RefuseAttach, Type, LifecycleTick, Detach
  <2>2. QED
    BY <2>1, NoPaneHolds, OnePane
<1>5. ASSUME NEW c \in Clients, Attach(c)
      PROVE  TermInv' /\ \A d \in Clients : Follows(panes[d], panes'[d])
  <2> DEFINE q == [NoPane EXCEPT !.phase = "backlog", !.backlog = ring,
                                 !.wants = Subscription(written)]
  <2>1. written \in Nat /\ Contiguous(ring, written) /\ ring \in Seq(Chunk)
    BY DEF TermInv, Contiguous
  <2>2. /\ q \in Pane /\ q.phase = "backlog" /\ q.backlog = ring
        /\ q.wants = written + 1 /\ q.shown = 0
    <3>1. Subscription(written) = written + 1 /\ Subscription(written) \in Nat
      BY <2>1 DEF Subscription
    <3>2. QED
      BY <2>1, <3>1, NoPaneIs DEF Pane
  <2>3. written + 1 - 1 = written /\ written + 1 \in 1..written + 1
    BY <2>1
  <2>4. PaneInv(q)
    BY <2>1, <2>2, <2>3 DEF PaneInv, ReadingBacklog
  <2>5. Follows(panes[c], q)
    BY <2>2 DEF Follows
  <2>6. Becomes(c, q)
    BY <1>5 DEF Attach
  <2> HIDE DEF q
  <2>7. QED
    BY <2>4, <2>5, <2>6, OnePane
<1>6. ASSUME NEW c \in Clients, SendBacklog(c)
      PROVE  TermInv' /\ \A d \in Clients : Follows(panes[d], panes'[d])
  <2> DEFINE p == panes[c]
  <2>1. p \in Pane /\ p.phase = "backlog" /\ ReadingBacklog(p)
    BY <1>6 DEF SendBacklog, TermInv, PaneInv
  <2>2. /\ p.wants \in 1..written + 1 /\ p.wants - 1 \in Nat /\ p.shown \in Nat
        /\ Contiguous(p.backlog, p.wants - 1)
        /\ p.shown = 0 \/ p.shown = p.wants - 1 - Len(p.backlog)
    BY <2>1 DEF ReadingBacklog, TermInv, Pane
  <2>3. CASE p.backlog = << >>
    <3> DEFINE q == [p EXCEPT !.phase = "open"]
    <3>1. q \in Pane /\ q.phase = "open" /\ q.wants = p.wants /\ q.shown = p.shown
      BY <2>1 DEF Pane
    <3>2. p.shown = 0 \/ p.shown = p.wants - 1
      BY <2>2, <2>3
    <3>3. PaneInv(q)
      BY <2>2, <3>1, <3>2 DEF PaneInv, Following
    <3>4. Follows(p, q)
      BY <3>1 DEF Follows
    <3>5. Becomes(c, q)
      BY <1>6, <2>3 DEF SendBacklog
    <3> HIDE DEF q
    <3>6. QED
      BY <3>3, <3>4, <3>5, OnePane
  <2>4. CASE p.backlog # << >>
    <3> DEFINE n == Head(p.backlog).seq
               q == [Sent(p, n) EXCEPT !.backlog = Tail(@)]
    <3>1. /\ n = p.wants - 1 - Len(p.backlog) + 1
          /\ Contiguous(Tail(p.backlog), p.wants - 1)
          /\ Len(Tail(p.backlog)) = Len(p.backlog) - 1
          /\ Len(p.backlog) \in 1..p.wants - 1
      BY <2>2, <2>4, RestIsContiguous
    <3>2. Tail(p.backlog) \in Seq(Chunk)
      BY <3>1 DEF Contiguous
    <3>3. p.wants \in Nat /\ Len(p.backlog) \in Nat
      BY <2>1, <2>2 DEF Pane, Contiguous
    <3> HIDE DEF n
    <3>4. n \in Nat /\ n = p.wants - 1 - Len(Tail(p.backlog))
      BY <3>1, <3>3
    <3>5. /\ q \in Pane /\ q.phase = "backlog" /\ q.backlog = Tail(p.backlog)
          /\ q.wants = p.wants /\ q.shown = n
      BY <2>1, <3>2, <3>4 DEF Sent, Pane
    <3>6. PaneInv(q)
      BY <2>2, <3>1, <3>4, <3>5 DEF PaneInv, ReadingBacklog
    <3>7. Follows(p, q)
      BY <2>2, <3>1, <3>3, <3>5 DEF Follows, n
    <3>8. Becomes(c, q)
      BY <1>6, <2>4 DEF SendBacklog, n
    <3> HIDE DEF q
    <3>9. QED
      BY <3>6, <3>7, <3>8, OnePane
  <2>5. QED
    BY <2>3, <2>4
<1>7. ASSUME NEW c \in Clients, Receive(c)
      PROVE  TermInv' /\ \A d \in Clients : Follows(panes[d], panes'[d])
  <2> DEFINE p == panes[c]
             t == Sent(p, p.wants)
             q == [t EXCEPT !.wants = @ + 1]
  <2>1. p \in Pane /\ p.phase = "open" /\ Following(p) /\ written \in Nat
    BY <1>7 DEF Receive, TermInv, PaneInv
  <2>2. /\ p.wants \in 1..written /\ p.shown \in Nat
        /\ p.shown = 0 \/ p.shown = p.wants - 1 \/ (p.gap /\ p.shown < p.wants)
    BY <1>7, <2>1 DEF Receive, Following, Pane
  <2>3. /\ q \in Pane /\ q.phase = "open" /\ q.wants = p.wants + 1
        /\ q.shown = p.wants
    <3>1. p.wants \in Nat
      BY <2>1 DEF Pane
    <3>2. t \in Pane /\ t.phase = "open" /\ t.wants = p.wants /\ t.shown = p.wants
      BY <2>1, <3>1, SentIs
    <3> HIDE DEF t
    <3>3. QED
      BY <3>1, <3>2 DEF Pane
  <2>4. PaneInv(q)
    BY <2>1, <2>2, <2>3 DEF PaneInv, Following
  <2>5. Follows(p, q)
    BY <2>2, <2>3 DEF Follows
  <2>6. Becomes(c, q)
    BY <1>7 DEF Receive
  <2> HIDE DEF q
  <2>7. QED
    BY <2>4, <2>5, <2>6, OnePane
<1>8. ASSUME NEW c \in Clients, Lag(c)
      PROVE  TermInv' /\ \A d \in Clients : Follows(panes[d], panes'[d])
  <2> DEFINE p == panes[c]
             q == AfterLag(p)
  <2>1. p \in Pane /\ p.phase = "open" /\ Following(p) /\ written \in Nat /\ p.wants < Oldest
    BY <1>8 DEF Lag, TermInv, PaneInv
  <2>2. /\ q \in Pane /\ q.phase = "open" /\ q.wants = Oldest
        /\ q.shown = p.shown /\ q.gap = TRUE
    BY <2>1, LaggedIs
  <2>3. Oldest \in 1..written + 1 /\ p.shown < Oldest /\ p.shown \in Nat
    <3>1. Oldest \in 1..written + 1
      BY <2>1, OldestIs
    <3>2. p.shown < p.wants \/ p.shown = 0
      BY <2>1 DEF Following, Pane
    <3>3. QED
      BY <2>1, <3>1, <3>2 DEF Pane
  <2>4. PaneInv(q)
    BY <2>1, <2>2, <2>3 DEF PaneInv, Following
  <2>5. Follows(p, q)
    BY <2>2 DEF Follows
  <2>6. Becomes(c, q)
    BY <1>8 DEF Lag
  <2> HIDE DEF q
  <2>7. QED
    BY <2>4, <2>5, <2>6, OnePane
<1>9. QED
  BY <1>1, <1>2, <1>3, <1>4, <1>5, <1>6, <1>7, <1>8 DEF NextTerminal

(***************************************************************************)
(* Every client gets every chunk once and in order, or is told of a gap,   *)
(* for a ring and a channel of any size and any number of clients that     *)
(* attach, lag and leave as they like.                                     *)
(***************************************************************************)
THEOREM StreamsAreWhole == SpecTerminal => StreamIsWhole
<1> DEFINE Whole == \A c \in Clients : Follows(panes[c], panes'[c])
<1>1. InitTerminal => TermInv
  BY NoPaneHolds DEF InitTerminal, TermInv, Contiguous
<1>2. TermInv /\ [NextTerminal]_termVars => TermInv'
  <2>1. TermInv /\ UNCHANGED termVars => TermInv'
    BY DEF termVars, TermInv, PaneInv, Detached, ReadingBacklog, Following
  <2>2. QED
    BY <2>1, TermSteps
<1>3. TermInv /\ [NextTerminal]_termVars => [Whole]_termVars
  BY TermSteps
<1>4. [Whole]_termVars =>
        [\A c \in Clients :
           panes[c].shown # 0 /\ panes'[c].shown \notin {0, panes[c].shown}
             => \/ panes'[c].shown = panes[c].shown + 1
                \/ panes[c].gap /\ panes'[c].shown > panes[c].shown]_termVars
  BY DEF Follows
<1> HIDE DEF Whole
<1>5. QED
  BY <1>1, <1>2, <1>3, <1>4, PTL DEF SpecTerminal, StreamIsWhole
=============================================================================
