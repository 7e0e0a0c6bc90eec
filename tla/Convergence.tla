----------------------------- MODULE Convergence -----------------------------
(***************************************************************************)
(* Observed convergence: checkouts that people and agents edit, scans of   *)
(* them that publish footprints, the collisions the mesh derives, the      *)
(* collision events it appends and the merge verdict it gives (the         *)
(* footprint half of src/src/store.rs, and watch_pass of src/src/main.rs). *)
(*                                                                         *)
(* A scan is git and file I/O outside any transaction: a job picks its     *)
(* targets, scans their checkouts one by one, reads the clock, and later   *)
(* commits everything it saw in one transaction.  A sweep of the watcher   *)
(* is a job over every live session; sync is a job over one.  Claims,      *)
(* reservations and the evidence for a burial are the business of Leases;  *)
(* symbol footprints are left out.                                         *)
(***************************************************************************)
EXTENDS Integers, FiniteSets, SequencesExt, Severity

CONSTANTS
  Agents,       \* agent ids, in the order the database sorts them
  Checkouts,    \* checkout directories
  Nowhere,      \* no checkout
  Bases,        \* commits of the integration branch
  NoBase,       \* the base_commit of an agent without footprint rows
  Paths,        \* repository paths
  Changes,      \* what a checkout can hold at a path: [kind, digest, ranges]
  Watchers,     \* processes that sweep
  Syncs,        \* processes that publish for one session
  MaxTime       \* bound: the clock stops here

\* No row for a path: the checkout holds what the base holds.
Clean == [kind |-> "clean", digest |-> None, ranges |-> None]

Jobs == Watchers \cup Syncs

ASSUME ConvergenceAssumption ==
  /\ Agents \subseteq Nat /\ IsFiniteSet(Agents)
  /\ Nowhere \notin Checkouts
  /\ NoBase \notin Bases
  /\ Clean \notin Changes
  /\ MaxTime \in Nat

VARIABLES
  clock,       \* the clock observed_at is read from
  disk,        \* the checkouts as they are
  agents,      \* the agents table, and whether the process is still there
  footprints,  \* the footprints rows of each agent
  told,        \* the last collision event of each path, as its fingerprint
  jobs         \* scans under way

vars == <<clock, disk, agents, footprints, told, jobs>>

NoChanges == [p \in Paths |-> Clean]

Worktree == [exists : BOOLEAN, base : Bases, tree : [Paths -> Changes \cup {Clean}]]

(***************************************************************************)
(* lost: the row says running and the process is gone.  ended: the row     *)
(* says stopped or dead, which nothing here tells apart.                   *)
(***************************************************************************)
Session == [status : {"absent", "running", "lost", "ended"},
            checkout : Checkouts \cup {Nowhere}]

Footprint == [base : Bases \cup {NoBase}, at : Nat,
              rows : [Paths -> Changes \cup {Clean}]]

NoFootprint == [base |-> NoBase, at |-> 0, rows |-> NoChanges]

Scan == [base : Bases \cup {NoBase}, rows : [Paths -> Changes \cup {Clean}]]

NoScan == [base |-> NoBase, rows |-> NoChanges]

Job == [phase : {"idle", "scanning", "publishing"}, at : Nat,
        ask : [Agents -> Checkouts \cup {Nowhere}], got : [Agents -> Scan]]

Idle == [phase |-> "idle", at |-> 0, ask |-> [a \in Agents |-> Nowhere],
         got |-> [a \in Agents |-> NoScan]]

Registered(a) == agents[a].status # "absent"

\* status = 'running' in the agents table
Running(a) == agents[a].status \in {"running", "lost"}

Live(a) == agents[a].status = "running"

Init ==
  /\ clock = 0
  /\ disk \in [Checkouts -> [exists : {TRUE}, base : Bases, tree : {NoChanges}]]
  /\ agents = [a \in Agents |-> [status |-> "absent", checkout |-> Nowhere]]
  /\ footprints = [a \in Agents |-> NoFootprint]
  /\ told = [p \in Paths |-> [severity |-> "none", agents |-> {}]]
  /\ jobs = [j \in Jobs |-> Idle]

-----------------------------------------------------------------------------
(***************************************************************************)
(* workspace_collisions: at each path every checkout has one voice, the    *)
(* row observed last there (the smaller agent id on a tie), and the path   *)
(* is contested when two checkouts have one.                               *)
(***************************************************************************)
Touches(fp, a, p) == fp[a].rows[p] # Clean

BugOutranked(fp, ag, a, b, p) == FALSE

BugOneVoice(fp, ag, a, b, p) ==
  /\ Touches(fp, b, p)
  /\ fp[b].at > fp[a].at \/ (fp[b].at = fp[a].at /\ b < a)

\* Session b of the same checkout speaks for it at p, so a does not.
Outranked(fp, ag, a, b, p) ==
  /\ ag[a].checkout = ag[b].checkout
  /\ Touches(fp, b, p)
  /\ \/ fp[b].at > fp[a].at
     \/ fp[b].at = fp[a].at /\ b < a

Voices(fp, ag, p) ==
  {a \in Agents : Touches(fp, a, p) /\ \A b \in Agents : ~Outranked(fp, ag, a, b, p)}

Contested(fp, ag, p) == Cardinality(Voices(fp, ag, p)) > 1

\* ORDER BY path, agent_id
Participants(fp, ag, p) ==
  LET inOrder == SetToSortSeq(Voices(fp, ag, p), <)
  IN  [i \in DOMAIN inOrder |-> fp[inOrder[i]].rows[p]]

\* The payload of the last collision event; "none" stands for collision.cleared or none yet.
Event == [severity : Severities \cup {"none"}, agents : SUBSET Agents]

Silent == [severity |-> "none", agents |-> {}]

\* signatures_of: the fingerprint of a contested path.
Fingerprint(fp, ag, p) ==
  IF Contested(fp, ag, p)
  THEN [severity |-> Classify(Participants(fp, ag, p)), agents |-> Voices(fp, ag, p)]
  ELSE Silent

\* publish: an event for a fingerprint that appears, changes or disappears.
Announce(after) ==
  [p \in Paths |-> IF after[p] # Fingerprint(footprints, agents, p) THEN after[p] ELSE told[p]]

BugAnnounceEnds(after) == told

\* release and the orphan sweep: an event only for one that disappears.
AnnounceEnds(after) ==
  [p \in Paths |->
     IF after[p] = Silent /\ Contested(footprints, agents, p) THEN Silent ELSE told[p]]

Fingerprints(fp, ag) == [p \in Paths |-> Fingerprint(fp, ag, p)]

-----------------------------------------------------------------------------
(***************************************************************************)
(* Sessions.                                                               *)
(***************************************************************************)
RegisterAgent(a, c) ==
  /\ agents[a].status = "absent"
  /\ agents' = [agents EXCEPT ![a] = [status |-> "running", checkout |-> c]]
  /\ UNCHANGED <<clock, disk, footprints, told, jobs>>

\* From the session's own process, which may have outlived its row.
Heartbeat(a) ==
  /\ agents[a].status = "ended"
  /\ agents' = [agents EXCEPT ![a].status = "running"]
  /\ UNCHANGED <<clock, disk, footprints, told, jobs>>

StopAgent(a) ==
  /\ Registered(a)
  /\ agents' = [agents EXCEPT ![a].status = "ended"]
  /\ UNCHANGED <<clock, disk, footprints, told, jobs>>

\* No event: the rows already published move with the session.
UpdateAgentCheckout(a, c) ==
  /\ Registered(a)
  /\ agents' = [agents EXCEPT ![a].checkout = c]
  /\ UNCHANGED <<clock, disk, footprints, told, jobs>>

ProcessExits(a) ==
  /\ Live(a)
  /\ agents' = [agents EXCEPT ![a].status = "lost"]
  /\ UNCHANGED <<clock, disk, footprints, told, jobs>>

-----------------------------------------------------------------------------
(***************************************************************************)
(* Checkouts, edited without asking the mesh.                              *)
(***************************************************************************)
Edit(c, p, x) ==
  /\ disk[c].exists
  /\ x # disk[c].tree[p]
  /\ disk' = [disk EXCEPT ![c].tree[p] = x]
  /\ UNCHANGED <<clock, agents, footprints, told, jobs>>

Rebase(c, b) ==
  /\ disk[c].exists
  /\ b # disk[c].base
  /\ disk' = [disk EXCEPT ![c].base = b]
  /\ UNCHANGED <<clock, agents, footprints, told, jobs>>

RemoveCheckout(c) ==
  /\ disk[c].exists
  /\ disk' = [disk EXCEPT ![c].exists = FALSE, ![c].tree = NoChanges]
  /\ UNCHANGED <<clock, agents, footprints, told, jobs>>

CreateCheckout(c) ==
  /\ ~disk[c].exists
  /\ disk' = [disk EXCEPT ![c].exists = TRUE]
  /\ UNCHANGED <<clock, agents, footprints, told, jobs>>

Tick ==
  /\ clock < MaxTime
  /\ clock' = clock + 1
  /\ UNCHANGED <<disk, agents, footprints, told, jobs>>

-----------------------------------------------------------------------------
(***************************************************************************)
(* Scanning and publishing.                                                *)
(***************************************************************************)
Start(j, ask) ==
  /\ jobs[j].phase = "idle"
  /\ jobs' = [jobs EXCEPT ![j].phase = "scanning", ![j].ask = ask]
  /\ UNCHANGED <<clock, disk, agents, footprints, told>>

\* live_checkouts: every running session whose process is there.
StartSweep(j) ==
  Start(j, [a \in Agents |-> IF Live(a) THEN agents[a].checkout ELSE Nowhere])

\* sync, from directory c for the session it was told it is, whatever its status.
StartSync(j, a, c) ==
  Registered(a) /\ Start(j, [b \in Agents |-> IF b = a THEN c ELSE Nowhere])

\* One scan answers for every asking session of the checkout; a missing one is skipped.
ScanCheckout(j, c) ==
  LET here == {a \in Agents : jobs[j].ask[a] = c}
      seen == [base |-> disk[c].base, rows |-> disk[c].tree]
  IN  /\ jobs[j].phase = "scanning"
      /\ here # {}
      /\ jobs' = [jobs EXCEPT
           ![j].ask = [a \in Agents |-> IF a \in here THEN Nowhere ELSE @[a]],
           ![j].got = [a \in Agents |-> IF a \in here /\ disk[c].exists THEN seen ELSE @[a]]]
      /\ UNCHANGED <<clock, disk, agents, footprints, told>>

Batch(j) == {a \in Agents : jobs[j].got[a] # NoScan}

\* Everything scanned: nothing to publish, or now_ms() and off to the lock.
Stamp(j) ==
  /\ jobs[j].phase = "scanning"
  /\ \A a \in Agents : jobs[j].ask[a] = Nowhere
  /\ jobs' = [jobs EXCEPT ![j] =
       IF Batch(j) = {} THEN Idle ELSE [@ EXCEPT !.phase = "publishing", !.at = clock]]
  /\ UNCHANGED <<clock, disk, agents, footprints, told>>

BugCurrent(fp, scan) == fp.rows = scan.rows

\* footprint_is_current: the same rows, and on every row the same base.
Current(fp, scan) ==
  fp.rows = scan.rows /\ (fp.rows = NoChanges \/ fp.base = scan.base)

\* write_footprint_rows: a clean scan leaves no row to carry base or time.
Written(scan, now) ==
  IF scan.rows = NoChanges THEN NoFootprint
  ELSE [base |-> scan.base, at |-> now, rows |-> scan.rows]

\* publish_footprints; publish_footprint is the batch of one.
Publish(j) ==
  LET moved == {a \in Batch(j) : ~Current(footprints[a], jobs[j].got[a])}
      after == [a \in Agents |-> IF a \in moved THEN Written(jobs[j].got[a], jobs[j].at)
                                 ELSE footprints[a]]
  IN  /\ jobs[j].phase = "publishing"
      /\ footprints' = after
      /\ told' = Announce(Fingerprints(after, agents))
      /\ jobs' = [jobs EXCEPT ![j] = Idle]
      /\ UNCHANGED <<clock, disk, agents>>

\* The scan, the transaction or the scanning process fails.
Fail(j) ==
  /\ jobs[j].phase # "idle"
  /\ jobs' = [jobs EXCEPT ![j] = Idle]
  /\ UNCHANGED <<clock, disk, agents, footprints, told>>

ReleaseFootprint(a) ==
  LET after == [footprints EXCEPT ![a] = NoFootprint]
  IN  /\ Registered(a)
      /\ footprints' = after
      /\ told' = AnnounceEnds(Fingerprints(after, agents))
      /\ UNCHANGED <<clock, disk, agents, jobs>>

BugOrphaned(a, D) ==
  a \in D /\ footprints[a] # NoFootprint /\ ~disk[agents[a].checkout].exists

\* sweep_orphan_footprints: rows of a session not running any more, whose checkout is gone.
Orphaned(a, D) ==
  /\ footprints[a] # NoFootprint
  /\ ~Running(a) \/ a \in D
  /\ ~disk[agents[a].checkout].exists

\* The footprint half of collect_stale, D being the sessions it buries.
CollectStale(D) ==
  LET after == [a \in Agents |-> IF Orphaned(a, D) THEN NoFootprint ELSE footprints[a]]
  IN  /\ \A a \in D : Running(a)
      /\ agents' = [a \in Agents |-> IF a \in D THEN [agents[a] EXCEPT !.status = "ended"]
                                     ELSE agents[a]]
      /\ footprints' = after
      /\ told' = AnnounceEnds(Fingerprints(after, agents))
      /\ UNCHANGED <<clock, disk, jobs>>

Sessions ==
  \E a \in Agents :
    \/ \E c \in Checkouts : RegisterAgent(a, c)
    \/ Heartbeat(a)
    \/ StopAgent(a)
    \/ ProcessExits(a)

Moves == \E a \in Agents, c \in Checkouts : UpdateAgentCheckout(a, c)

Worktrees ==
  \E c \in Checkouts :
    \/ \E p \in Paths, x \in Changes \cup {Clean} : Edit(c, p, x)
    \/ \E b \in Bases : Rebase(c, b)
    \/ RemoveCheckout(c)
    \/ CreateCheckout(c)

Scanning ==
  \/ \E w \in Watchers : StartSweep(w)
  \/ \E s \in Syncs, a \in Agents, c \in Checkouts : StartSync(s, a, c)
  \/ \E j \in Jobs :
       \/ \E c \in Checkouts : ScanCheckout(j, c)
       \/ Stamp(j)
       \/ Publish(j)
       \/ Fail(j)

Cleaning ==
  \/ \E a \in Agents : ReleaseFootprint(a)
  \/ \E D \in SUBSET Agents : CollectStale(D)

\* The mesh once every session is in the checkout it will stay in.
NextInPlace == Sessions \/ Worktrees \/ Tick \/ Scanning \/ Cleaning

Next == NextInPlace \/ Moves

Spec == Init /\ [][Next]_vars

SpecInPlace == Init /\ [][NextInPlace]_vars

(***************************************************************************)
(* A mesh with a watcher: its loop sweeps and reaps at every interval, and *)
(* a scan or a transaction tried at every interval does not fail each time.*)
(* No session has to die: a reap, whoever it buries, takes the rows that   *)
(* one burying nobody would take.                                          *)
(***************************************************************************)
Watched ==
  /\ \A w \in Watchers :
       /\ WF_vars(StartSweep(w))
       /\ \A c \in Checkouts : SF_vars(ScanCheckout(w, c))
       /\ SF_vars(Stamp(w))
       /\ SF_vars(Publish(w))
  /\ WF_vars(CollectStale({}))

SpecWatched == Spec /\ Watched

-----------------------------------------------------------------------------
(***************************************************************************)
(* merge_readiness, without symbols and the integration lease.             *)
(***************************************************************************)
NeverSynced(a) == footprints[a].base = NoBase

StaleBase(a, head) == footprints[a].base \notin {NoBase, head}

\* The live peers a contested_path blocker names, judged pair by pair.
ConflictingPeers(a, p) ==
  {b \in Voices(footprints, agents, p) \ {a} :
     /\ Running(b)
     /\ a \in Voices(footprints, agents, p)
     /\ ~Benign(Classify(<<footprints[a].rows[p], footprints[b].rows[p]>>))}

Mergeable(a, head) ==
  /\ ~NeverSynced(a)
  /\ ~StaleBase(a, head)
  /\ \A p \in Paths : ConflictingPeers(a, p) = {}

-----------------------------------------------------------------------------
(***************************************************************************)
(* Properties                                                              *)
(***************************************************************************)

\* Rows, jobs and events have the columns the schema and the code give them.
TypeOK ==
  /\ clock \in Nat
  /\ disk \in [Checkouts -> Worktree]
  /\ agents \in [Agents -> Session]
  /\ footprints \in [Agents -> Footprint]
  /\ told \in [Paths -> Event]
  /\ jobs \in [Jobs -> Job]

(***************************************************************************)
(* "Contention is keyed on checkout rather than agent" (docs/protocol.md): *)
(* however many sessions share a worktree and however old their rows, a    *)
(* contested path has voices of two checkouts, and never two of one.       *)
(***************************************************************************)
ContentionIsBetweenCheckouts ==
  \A p \in Paths : Contested(footprints, agents, p) =>
    \A a, b \in Voices(footprints, agents, p) :
      a # b => agents[a].checkout # agents[b].checkout

(***************************************************************************)
(* While sessions stay in their checkouts, the event ledger knows which    *)
(* paths are contested: whatever mix of publishing, releasing and garbage  *)
(* collection, a path's last event is a detection iff it is contested.     *)
(***************************************************************************)
ContentionIsTold ==
  \A p \in Paths : told[p] # Silent <=> Contested(footprints, agents, p)

\* What the mesh knows of a session is what its checkout holds now.
Observed(a) ==
  /\ disk[agents[a].checkout].exists
  /\ footprints[a].rows = disk[agents[a].checkout].tree
  /\ footprints[a].rows # NoChanges => footprints[a].base = disk[agents[a].checkout].base

(***************************************************************************)
(* "A contested path means another live checkout rewrote an overlapping    *)
(* region of a path this one changed" (docs/protocol.md): when two live    *)
(* sessions in different checkouts are observed as they are and their      *)
(* changes conflict, the gate lets neither merge, whatever the head.       *)
(***************************************************************************)
LiveConflictBlocksBoth ==
  \A a, b \in Agents, p \in Paths :
    /\ Live(a) /\ Live(b)
    /\ agents[a].checkout # agents[b].checkout
    /\ Observed(a) /\ Observed(b)
    /\ Touches(footprints, a, p) /\ Touches(footprints, b, p)
    /\ ~Benign(Classify(<<footprints[a].rows[p], footprints[b].rows[p]>>))
    => \A head \in Bases : ~Mergeable(a, head) /\ ~Mergeable(b, head)

\* The same while no two sessions share a checkout, so that each speaks for its own.
ConflictBlocksBothAlone ==
  (\A a, b \in Agents : a # b => agents[a].checkout # agents[b].checkout)
    => LiveConflictBlocksBoth

\* No edit, no session change, no withdrawal, no sync from a foreign checkout.
QuietStep ==
  /\ UNCHANGED <<disk, agents>>
  /\ \A a \in Agents :
       /\ ~ReleaseFootprint(a)
       /\ \A s \in Syncs, c \in Checkouts \ {agents[a].checkout} : ~StartSync(s, a, c)

Settled ==
  \A a \in Agents : Live(a) /\ disk[agents[a].checkout].exists => Observed(a)

(***************************************************************************)
(* Once checkouts and sessions come to rest, a watched mesh comes to know  *)
(* every live checkout as it is and stays so, in spite of scans that began *)
(* before the rest and commit after it, and of skipped writes.             *)
(***************************************************************************)
ConvergesAfterQuiet == <>[][QuietStep]_vars => <>[]Settled

(***************************************************************************)
(* The phantom contention collect_stale's comment describes ends: a        *)
(* session that is not running and whose checkout is gone, whenever it     *)
(* went, loses its rows unless one of the two comes back.                  *)
(***************************************************************************)
Phantom(a) ==
  /\ footprints[a] # NoFootprint
  /\ ~Running(a)
  /\ ~disk[agents[a].checkout].exists

PhantomsAreForgotten == \A a \in Agents : Phantom(a) ~> ~Phantom(a)

=============================================================================
