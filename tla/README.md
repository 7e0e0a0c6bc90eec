# pidmesh in TLA+

A formal model of pidmesh: TLA+ modules translated from the Rust source under `src/src/`, TLC runs
that check them on small instances, and theorems that the TLA+ proof system (TLAPS) checks for
every instance. pidmesh coordinates coding agents that work on one repository: sessions register in
a shared SQLite mesh, claim tasks, reserve paths and ports, publish what their checkouts have
changed, learn where they collide, ask whether they may merge; a dashboard launches agents in
worktrees of their own and merges what they produce.

    tlc -workers 2 -config Services.cfg MCServices.tla      # one run
    tlapm LeasesProofs.tla                                   # one module's proofs

`PROJECT.json` lists the runs, the source lines behind every definition, the mutated definition
that breaks each property, the findings and the hazards.

## Inventory

| component | state | operations | hard behaviour | what makes it correct |
|---|---|---|---|---|
| sessions, claims, reservations (`store.rs`) | tables `agents`, `claims`, `resource_leases` | `register_agent`, `heartbeat`, `update_agent_pid`, `stop_agent`, `claim`, `release`, `reserve_resources`, `release_resources`, `collect_stale` | the clock is read before the write lock; leases expire; pids are reused; a late heartbeat | a live lease has one owner; a request is all or nothing; a burial has evidence |
| resource keys (`store.rs`) | none | `normalize_resource_path`, `resource_conflicts` | a prefix test on strings | keys conflict iff the paths share a file |
| collision severity (`converge.rs`) | none | `hunk_header`, `classify`, `disjoint_regions`, `regions_touch` | insertions, adjacency, unreadable files | a benign verdict means a clean merge |
| footprints and collisions (`store.rs`, `converge.rs`) | table `footprints`, collision events | `publish_footprint(s)`, `release_footprint`, `update_agent_checkout`, the orphan sweep | scans are older than their commits; sessions share worktrees; writes are skipped when nothing changed | contention is between checkouts, is told, converges and is forgotten |
| merge gate (`store.rs`, `main.rs`, `mcp.rs`) | the integration claim | `merge_readiness`, `integrate`, the dashboard's blocked list | a verdict is several statements of different moments; the lease is taken afterwards | a live conflict blocks both sides; what stood in the way throughout blocks; owners of the lease merge where they were judged |
| watch loop (`main.rs`) | a sweep | `watch_pass`, `scan_in_parallel`, `coverage_gap` | scans fail or never report back, checkouts vanish | what it reports becomes what is there; what it did not see it says |
| git scanning, diff parsing (`converge.rs`) | none | `scan_worktree`, `read_diff`, `status_only_changes`, `referenced_symbols`, the attribute query | lines that look like headers; edits between two git calls | a path left alone is seen as it is; a torn scan is corrected |
| managed runs (`ide.rs`) | session map, run status, worktrees | `launch`, `stop`, `stop_all`, monitor, terminator, `review`, `approve`, `reject` | threads and requests around one status field; a crash | work is kept; scopes hold; stops end |
| worktree reclamation (`ide.rs`) | git's worktrees | `worktrees`, `reclaim` | judged first, removed later | nothing unmerged or uncommitted is deleted |
| terminal (`ide.rs`, `dashboard.rs`) | output ring, tickets | pump, `issue_ticket`, `attach`, socket | subscribe against publish; lag | every chunk once, or a gap that is told |
| event ledger (`store.rs`) | table `events` | `events`, `wait_for_events`, `trim_event_ledgers` | a deadline against a late event; trimming under a consumer | what a checkpoint passes was read or trimmed |
| mailbox (`store.rs`) | tables `messages`, `message_receipts` | `send`, `inbox`, `acknowledge` | which broadcasts a session may see | delivered once, to those who existed |
| symbol footprints (`store.rs`, `converge.rs`) | tables of exports and references | publishing, `symbol_breaks`, `symbol_blockers` | a cap on the breaks | a break blocks whom it concerns |
| swarm, supervised runs (`main.rs`) | child processes | `run_swarm`, `run_supervised` | partial start, fail-fast, grace | no child is left behind |
| memory, HTTP server, MCP server, command line, rendering, browser client, installer | - | - | - | not state the others depend on |

All interaction goes through the SQLite file: one process per session (MCP server, CLI, dashboard),
every write an immediate transaction (`MeshStore::write`) that queues for the lock and retries when
busy. There are no messages between processes; what one learns of another it reads. Git is the
other shared state: checkouts change under the mesh's feet, and scans are file I/O outside any
transaction.

## Modules

| module | models | state and actions |
|---|---|---|
| `ResourceKeys` | path normalisation, overlap | operators; a path is a sequence of parts |
| `LeaseService` | *abstract*: things that no two hold against each other | `held`; `Acquire` (all of a free request at once), `Lapse` |
| `Leases` | sessions, claims, reservations, garbage collection | `agents`, `claims`, `leases`, `clock`, `alive`, and `calls`: an operation that read the clock *Begins*, and commits (or fails) any time later |
| `Severity` | the verdict on a contested path | operators |
| `DiffReader` | `read_diff`: the one pass over a unified diff | operators; a line is what it would be read as between hunks, with its marker and what it declares; the parser's locals are a record, folded over the lines |
| `WorktreeScan` | one checkout and the scans of it | `tree` (base, head, index, work of each path), `whole` (the paths attribute rules apply to) and `probed` (those of rules the scan looks for), `scan` (how far, and what it holds so far), `stored` (the rows); one action per git call and per file read, edits between any two |
| `Convergence` | checkouts, footprints, collisions, events, the gate | `disk`, `agents`, `footprints`, `told` (last event of each path), `jobs` (a sweep or sync between its reading of targets, its scans, its clock read and its commit) |
| `SweepReport` | what a sweep says of coverage | operators over the rows, git's list of checkouts and the outcome of each scan |
| `MergeGate` | verdict, symbol breaks, integration lease, merge | `rows` (what each checkout publishes, its base, when), `head`, `strays` (merges made by whoever did not own the lease then), `lease`, `hold` (until when a session was told it holds it), `ask` (a verdict between its statements, or the merge on it, and what has stood in its way throughout) |
| `ManagedRuns` | the dashboard's runs | `launch` (how far `launch_resolved` got), `rows` (session map), `status`, `child`, `terminator`, `held` (leases), `tree`/`dirty`/`ahead` (worktree, branch, uncommitted and unmerged changes), `base`/`head`/`ready` (primary checkout), `approval`, `reclaim`, `closing` |
| `Terminal` | output of one run and its clients | `ring`, `written`, `panes` (ticket, backlog, place in the channel, what was shown) |
| `EventLedger` | a ledger and its consumers | `events`, `last`, `waits`, `after`, `read` |
| `Mailbox` | messages and the inbox tool | `roster`, `messages`, `receipts`, `calls` |
| `Swarm` | `run_swarm` | `at` (the step of the supervisor), `rows`, `procs`, `codes`, `stopping`, `grace` |
| `SupervisedRun` | `run_supervised` and its heartbeat thread | `main`, `thread`, `command`, `row`, `flag` |
| `*Proofs` | theorems: `Leases`, `Convergence`, `MergeGate`, `ManagedRuns`, `WorktreeScan`; `ServicesProofs` those of `MCServices`, `ResourceKeysProofs` of `ResourceKeys`, `AlgorithmsProofs` of the other pure parts | |
| `MC*` | instances for TLC, and the references the pure parts are held against | constants, narrower initial states and next-state relations |

`Convergence`, `DiffReader` and `WorktreeScan` EXTEND `Severity`; `Leases`
EXTENDS `ResourceKeys` and INSTANTIATEs `LeaseService` twice, for claims and for reservations.
Parts that share no state are run together, one of them per behaviour (`MCAlgorithms`, with the tables of `MCLeases`;
`MCServices`). Definitions named `Bug...` are mutated forms of the definition that follows them; no
behaviour of a module uses them. They are what shows that a property can fail.

What is abstracted everywhere: text, JSON, reasons, labels, branch names, the workspace id (all
sessions are in one workspace, and the id is part of every key) and the SQL. A transaction is a
step. What is external: git, the clock, the processes of the operating system, the people.

### Correspondence worth knowing

- *Late commits.* `claim`, `reserve_resources`, `heartbeat`, `register_agent` and others call
  `now_ms()` before `write`. `Leases` splits exactly these into `Begin...` and the commit. An
  operation that reads the clock inside, or not at all, is one step.
- *Ended sessions.* `Convergence` folds `stopped` and `dead` into `ended`: no decision there tells
  them apart. `lost` is a row that says running while the process is gone, which is what
  `live_checkouts` checks and `merge_readiness` does not.
- *A clean scan leaves no row* (`Written`), so it carries neither base nor time.
- *One voice per checkout and path* (`Outranked`): the latest row, then the smaller agent id, as the
  `NOT EXISTS` of `workspace_collisions` has it.
- *The status check of `approve` is read together with the review* (`Review`): a run that is not
  running never runs again, so the check cannot go stale.
- *SIGTERM changes nothing in the model*: a provider may exit at any time and is free to ignore it.
- *A scan is torn.* `WorktreeScan` has a step for the diff, the status, each fingerprint, the
  attribute query and each file read for symbols; a path is *steady* while nobody has touched it
  since the scan began. `Convergence` then takes a scan as one reading of each checkout and is about
  its age.
- *A verdict is torn.* `merge_readiness` runs its statements on one connection without a
  transaction, on a head resolved and a clock read before. `MergeGate` has a step per statement, and
  its rows are what the checkouts published. The client's part is as the server's instructions have it:
  it begins to merge after a verdict without a blocker, before the expiry the claim told it, and the
  merge takes its time (`BeginMerge`, `Land`). `hold` is what a session was told, `lease` what is:
  garbage collection frees a lease and tells nobody (`Bury`), and the dashboard merges without one
  (`Approve`). `inside` marks a verdict asked for by the owner of the lease, while the expiry it was
  told has not come and nobody took it for dead.
- *The asker need not speak.* `Speaks` of `MergeGate` and `Outranked` of `Convergence` are the same
  rule: a session that another one of its checkout outranks at a path has no peer there, as
  `merge_readiness` skips a path whose participants do not include the asker (finding 1).
- *A launch fails early or late.* `LaunchFails` of `ManagedRuns` undoes a launch before the provider
  exists; `AttachFails` kills one that has started and been at work (`spawn_provider`), and
  `RollbackWorktree` then removes worktree and branch by force, each of which may fail by itself. A
  `Stop` whose signal fails returns before a terminator is started (`Reached`).
- *Whether git is asked about attributes.* `attributes_reachable` looks for attribute files in a few
  places and is believed: `AttributesReachable` of `WorktreeScan` is TRUE only with a rule in one of
  them, and without it the regions stay. A rule that only `core.attributesFile` names is the limit the
  comment at `src/src/converge.rs:459` admits (the one at 453 promises that the probe only errs the
  other way). The properties about unmergeable regions are about the rules that are looked for. That
  the probe is cached for the life of a process is left out.
- *What does not read as text* (`src/src/converge.rs:980`) gives no names and sets no flag (`Garbled`
  versions of `WorktreeScan`); the properties about symbols are about text, and the rest is described under the findings.
- *A broadcast channel* keeps the newest `CHANNEL` chunks for every receiver; one that has fallen
  behind is told so and goes on with the oldest kept (`Receive`, `Lag`).
- *A supervisor that returns an error* stands still for ever (`abandoned`, `failed`): nothing runs
  after `?`.
- *`stop_all`* stops all runs in one step and then meets every live one in two
  (`KillLeft`, `EndLeft`), since a decision may land between its check and its write.

## Runs

| run | instance | shows |
|---|---|---|
| `algorithms_leases` | pairs of raw paths of up to two parts over names, a name that continues another, `.`, `..` and empty parts; diffs of two paths with changes of up to two hunks and a line a side, legible or not (`SmallForms`); pairs of edits of up to two hunks, and triples of one hunk (`FewHunks`), in files of three lines; sweeps of three sessions over three checkouts. And two agents, one pid; one task and leases of 1 or 2 ticks, or a directory, a file in it and a port (`Requests`) and leases of 1; clock to 2, two calls in flight | keys mean what paths mean; a diff is read whole or given up without losing a path; verdicts stand against three-way merging; a sweep's report leaves nothing unsaid; a live claim and a live reservation have one owner, both are lease services, requests are all or nothing, burials have evidence when they commit |
| `worktree_scan` | a file in the base and one not, up to three edits between the steps of scans, with fairness | paths left alone are seen as they are, a calm scan knows the symbols, rows settle |
| `convergence` | two sessions that share and end in two checkouts, a watcher and a sync, one scan at a time (the action constraint `OneScan`) | contention is between checkouts and is told, sessions alone in their checkouts are blocked by a live conflict |
| `convergence_watched` | one session, two checkouts, two bases, a watcher and a sync that overtake each other, the clock at rest, with fairness | the mesh converges and forgets phantoms |
| `merge_gate` | one asker among two peers with a cap of one break; or one that shares its checkout, with a peer taken for dead and back; or two sessions that race to merge twice, one of them taken for dead, one approval in between | no verdict passes over what stood in the way throughout; the dashboard agrees with the gate; between an owner's verdict and its landing only strays land |
| `managed_runs` | one run, two areas, one foreign commit, with fairness | no work is deleted but by the rollback of a late failure (below), scopes cover processes, stops end |
| `services` | a ledger of four events of which three are kept; two sessions, two messages and a window of one; a ring and a channel of two chunks and five chunks written; a swarm of three; a supervised command; with fairness | what a checkpoint passes was read or trimmed, and waiters return; nothing is acknowledged unlisted and messages arrive; streams are whole or say where not, and go on; a swarm that ends leaves nothing; an ended command stays stopped |
| `convergence_shared_gate` | three sessions in two checkouts, a watcher | *violated*: finding 1 |
| `managed_runs_scope` | as `managed_runs` | *violated*: finding 2 |
| `worktree_scan_symbols` | one file, two edits | *violated*: finding 3 |
| `swarm_leak` | a swarm of two | *violated*: finding 4 |
| `leases_burial` | the leases of `algorithms_leases` | *violated*: finding 5 |

**Bounds.** The clocks of `Leases` and `MergeGate` stop at 2 (`MaxTime`): enough for a lease taken with an
old timestamp to be over when it commits, for one to expire and be taken by another, and for a session
to fall silent past both thresholds, one after the other (`StaleAfter` 0, `AbandonedAfter` 1). The clock of `Convergence` stops at 1, which tells a row seen
before another from one seen with it. Two calls in flight
(`MaxCalls`) is the smallest number that interleaves; more only adds committers whose order is
already free. Two checkouts are the smallest contention; the third session appears where one must
not speak for its checkout. One pid is enough for reuse: the pid outlives its session and serves the
next. Three edits tear one scan and leave one for the next; the two versions that differ only in
what they declare (`trimmed`, `other`) are what a skipped write can hide. A cap of one break and a
channel of two chunks are the smallest that overflow; three workers are the smallest swarm with one
started, one starting and one to come. Two merges are a judgement and the merge that outdates it.
Two areas separate a run's scope from the rest. `managed_runs` has one run: runs interact through
`head`, which `PrimaryCommit` also moves, and through the leases, for which the theorem
`ScopesKeptApart` covers any number of runs. `MCLeases` and `MCMergeGate` split their behaviours in
parts that would otherwise multiply. The runs that say `CHECK_DEADLOCK FALSE` really stop: inputs
are enumerated once, merges, messages and chunks are bounded, a swarm ends. Symmetry is used in runs
without liveness only.

**Fairness.** `SpecWatched`: the watch loop starts a sweep at every interval (weak fairness of
`StartSweep`). A scan that meets a git error and a publication that meets a busy database are reported
and tried again at the next interval, and do not fail every time (strong fairness of `ScanCheckout`,
`Stamp` and `Publish` of the watcher; without it a `Fail` in each sweep would keep the mesh ignorant for
ever). An error in the rest of a sweep, its reads and its reap, is not tried again: it is returned with
`?` (`src/src/main.rs:1425`, `1204`) and ends the watcher, and nothing in the code starts another. So
`ConvergesAfterQuiet` and `PhantomsAreForgotten` are about a watcher that stays up: its reads and
`collect_stale` never fail. A reap is weakly fair as `CollectStale({})`: no session is made to die by it, and a reap that
does bury some takes the same orphaned rows. Syncs, edits and sessions have none. `Watched` of
`WorktreeScan` is the same assumption for the steps of one checkout's scans. `FairSpec` of
`ManagedRuns`: the monitor and terminator threads of a dashboard that stays up go on (weak fairness);
the provider, the people and the requests have none, so a provider may ignore SIGTERM for ever.
`Fairness` of `MCServices`: the clock and a waiting consumer go on; a session lists its inbox again
and again, and its acknowledgement, tried each time, does not fail each time (strong fairness, as a
listing that fails to acknowledge offers the same messages again); a socket loop that has something
to send sends it; the swarm's supervisor goes round, its grace ends and a process sent SIGKILL
dies. Publishers, senders, providers, workers that are only asked to stop, and signals have none.

## Findings

In each the repository says one thing and the code does another; the property in brackets is what it says, and the run
of that property has the trace.

1. *A session that does not speak for its shared checkout is told it may merge over a live conflict*
   (`LiveConflictBlocksBoth`): `merge_readiness` looks for the asking session among the participants,
   of which each checkout has one. `ConflictBlocksBothAlone` is what does hold.
2. *A merge may bring along changes outside the scope* (`MergedStaysInScope`): `approve` lets a run
   pass that is still stopping, its provider writing between the review and `git add -A`; and the
   review compares `git status`, not the branch, so what the provider committed itself is not seen.
3. *Symbols misread by a torn scan are never corrected* (`SymbolsSettle`): `footprint_is_current`
   compares paths, kinds, digests, ranges and the base. An edit between the diff and the hashing
   leaves withdrawn exports of one version beside the digest of the next, and every later scan looks
   the same, so the write is skipped for ever.
4. *An interrupted swarm may leave workers running* (`InterruptEndsWorkers`): an error of the store in
   `run_swarm` is returned with `?`, and the workers started so far run on without a supervisor.
5. *A live session is marked dead* (`DeadMeansGone`): past the ceiling silence is enough, which
   `docs/protocol.md` rules out and the comment in the code explains. Its claims are freed with it, the
   integration lease among them. `BurialNeedsEvidence` is what does hold.

The models also show, without a run of their own (where a property of a passing run makes an exception
for one of these, it is named):

- *A launch that fails late deletes work.* `spawn_provider` may fail after the provider has started
  (`src/src/ide.rs:741`); it is killed, and the worktree goes with `--force`, the branch with `-D`,
  whatever is in them, although `src/README.md:275` has worktrees "deliberately preserved after stop or
  failure". `WorkIsKept` excepts the two rollback steps after `AttachFails` and nothing else.
- *The integration lease neither "admits one merge at a time" nor has "exactly one owner until expiry"*
  (`src/README.md:575`). `approve` of the dashboard merges into the same branch without a look at it;
  `collect_stale` frees the claims of a session it takes for dead and does not tell it, so it goes on
  to merge. And in the order the server instructs (`src/src/mcp.rs:420`), verdict first and lease
  afterwards, another owner may land between the two, so a stale base does not block the merge
  (`src/README.md:574`). `MergesLandWhereJudged` counts the first two as `strays` and speaks of
  verdicts asked for under the lease.
- *A scan that could not read a file calls its names complete.* `referenced_symbols` skips a file that is
  not UTF-8 or not readable without setting `truncated` (`src/src/converge.rs:980`), so a break
  against it is missed, not assumed. `CalmScanKnowsSymbols` speaks of files that read as text.
- `agent_row` ignores the status, so a session that was stopped or declared dead, or a call of it
  that was under way, claims and reserves again.
- A collision whose fingerprint changes because a footprint is withdrawn, or whose rows move with
  `update_agent_checkout`, changes without an event. `ContentionIsTold` is what does hold, for
  sessions that stay in their checkouts.
- An untracked file committed between the diff and the status of one scan is in neither: the scan
  misses a path that was changed throughout. The next one has it.
- A heartbeat that was under way when its session was stopped or buried sets the row running again; the
  leases it had are gone.
- What is trimmed under a consumer is missed without a word: the sequence is shared by all workspaces,
  so a gap in it is no sign.
- The dashboard's blocked list is "every live agent that cannot merge" (`src/src/store.rs:3100`), but
  is drawn from a list of breaks that may be cut (it says when), and never names a session that is
  `never_synced`.
- "Broadcasts are visible only to sessions that existed when the message was sent"
  (`src/docs/protocol.md:56`): the start of a session is read before its transaction, so one that was
  registered after a broadcast, in the same millisecond or while it waited for the lock, sees it.
- The inbox tool acknowledges before its answer is delivered; a client that loses the answer does
  not see the messages again.
- A terminal socket is closed once the run is over, with chunks that may not have been sent yet.
- The monitor writes the outcome of the exit over a decision made while the run was stopping;
  rejecting a run in its grace period takes it out of the terminator's reach; a stopping run and a
  launch under way do not count against `MAX_LIVE_SESSIONS`; a reclaim may remove the clean worktree
  of a launch that is not in the session map yet; two approvals may both pass the base check before
  either merges; after a failed merge the work is committed, so approving again is refused for
  having no changes.
- A sync of a clean checkout leaves the gate at `never_synced`.
- A `stop` whose signal fails returns with the status `stopping` and no terminator. The signal of an own
  child is taken to fail only when the child is gone, so the monitor still ends such a run.

## Proofs

The type invariants (`TypeOK`) are proved rather than run. Every theorem holds for all values of the
constants that satisfy the module's assumption, so for any number of agents, tasks, resources,
checkouts, paths, workers and runs and any bound. Where an argument counts, or looks for a latest
row or a first break, the assumption says that agents and symbols are finitely many and numbered in
the order the database sorts them (`Convergence`, `MergeGate`), checkouts finitely many
(`SweepReport`): they are rows of a table, and directories. Caps are at least one
(`MAX_SYMBOL_BREAKS`), as the constants of the code are.

**`LeasesProofs`.** `TypeCorrect`, then `DisjointReservations`: `ReservationsDisjoint` is inductive
with the types because `Conflicting` looks at rows that stand, not at rows that are live, and a
reservation deletes only expired rows and rows of its own before it inserts. `PastStamps` is the
strengthening for everything about time: no heartbeat and no timestamp in flight is ahead of the
clock. With it a row judged expired by an old time is expired now, which gives `ClaimsHeld` and
`ReservationsHeld` (a live lease changes hands only by its owner's release, stop or burial),
`BurialsStandOnEvidence`, `RequestsAreWhole` (`AllOrNothing`: by `ReserveAcquires` a request that
commits adds all it asked for, or, refused or already over by then, nothing) and both refinements,
`ClaimsImplementLeaseService` and `ReservationsImplementLeaseService`: a step of `Leases` acquires
what nobody holds against it, or only lets go, or stutters. A request that lapsed while it waited for
the lock is a `Lapse`.

**`ConvergenceProofs`.** `TypeCorrect`; `ContentionBetweenCheckouts` follows from
`OneOutranks`: agent ids are totally ordered, so of two rows of one checkout at a path one gives way.
It needs the types only (times and ids are numbers), and holds for sessions that move.
`ConflictsBlockBoth` needs that the gate judges a pair the same from either side (`PairIsSymmetric`).
`ContentionTold` (the ledger knows the contention, under `SpecInPlace`) rests on the inductive
`ToldInv`: with the types, `Past` (no row and no scan is of the future) and `Strangers` (a session
nobody registered has no rows and no scan asks for it, so that `RegisterAgent` puts no old row into a
checkout). `ContentionIsTold` alone is not inductive: withdrawing a row must not start a contention
between others. That it cannot is `ContestedIsOpposed`: the ranking of rows decides who speaks, never
whether a path is contested, because every checkout that touches the path has a voice
(`CheckoutHasAVoice`, which takes the latest of finitely many rows, then the smallest id).

**`ManagedRunsProofs`.** `TypeCorrect`; `ProcessCovered` from the inductive invariant `IInv`: before
the spawn there is no process, the spawn has the scope, the session map and the runs `stop_all` is
about to end are launched ones, and scopes that have not lapsed are disjoint. `ProcessIsCovered`
alone is not inductive: `LaunchFails` frees a scope and `EndLeft` writes after a check. `ScopesKeptApart`
follows for any number of runs. `WorkKept` adds `NothingYet`: nothing is written before the provider
runs, so the rollback of an early failure has nothing to lose, and a removal deletes what git finds
spent. The rollback of a launch whose provider has started is excepted by name (see above).

**`MergeGateProofs`.** `TypeCorrect`; `MergesJudged` from `IInv`, which adds to the types `OwnerKnows`
(whoever the claims table has as owner was told so, and until when, though not everybody who was told
is the owner still) and `InsideIsCurrent` (a verdict asked for by the owner, and since, is about
today's head but for the `strays`). `MergesLandWhereJudged` is not inductive by itself, as a merge of
another session would move the head between; with `IInv` that session either is no owner, so its merge
is a stray, or took the lease, which `MayTake` allows only where the owner's time is over. `IInv` was
checked by TLC first. `RecallingKeeps` says once what every step does to the verdicts.
`VerdictsHold` (`LastingBlockersBlock`) adds `NothingForgotten`: unless a verdict has found a blocker,
all that has stood in its way throughout is what a statement still `Ahead` reads. The cap is where it
could go wrong: a list cut at `MAX_SYMBOL_BREAKS` breaks still has one, if there is any. What no
statement reads, the conflicts of an asker that does not speak for its checkout, does not count as in
its way (finding 1).
`DashboardIsRight` is about the same cap on the list over all sessions: uncut, it is complete.

**`WorktreeScanProofs`.** `TornScansAreTrue` and `CalmScansKnowSymbols` from `ScanInv`: the entry of
every path left alone since the scan began (`RowSoFar`), and, while all are, the symbols collected so
far (`SymbolsSoFar`), are after each git call and each file read what that statement makes of the
checkout. Both are about rules the scan looks for and files that read as text (see above). The properties speak of the end of a scan only, so neither is inductive.

**`ServicesProofs`.** `LedgerSkipsNothing` with the types of the ledger: a page is the lowest of what
is to come, so nothing below its end is left out (`PageHasNoGap`). `InboxLosesNothing`: the ids a call
is about to acknowledge were listed. `StreamsAreWhole` (an action property) from `TermInv`: the ring
is the end of the stream without a gap (`Contiguous`; trimming by bytes drops a beginning, never a
middle), and a client is in front of its backlog, right behind the stream, or further behind with the
gap told. `SwarmEndsClean` from `SwarmInv`: in the loop a known exit code means a process that is gone
and a stopped row, but for the one whose row is about to be written; the forced stop has waited for all
behind it. `RunStaysStopped`: by the join the heartbeat thread is over before the row is stopped.

**`AlgorithmsProofs`.** The other pure parts, for inputs of any size: a benign verdict is
a clean merge between every two checkouts and a clean merge of rewrites is benign (`NoFalseSafe`,
`NoFalseAlarm`: `ClashTouches` and `TouchingClash` translate shared lines and seams into the gap the
code measures), the verdict over a path agrees with those over its pairs (`PathsAndPairs`), and a sweep
accounts for every checkout (`SweepsAccount`). `DiffsAreReadWhole` and `GivingUpIsConservative` are about every diff git can
print: any number of changed paths, hunks and lines, whatever they look like. `FoldReads` turns the
fold over the lines into one step per line, and `ReadsAll` takes a flattened diff apart again, into
entries and hunks. Each then has its invariant: in a body every line is counted off and none is taken
for a header (`MarksRead`, since the counts of the hunk header are owed exactly); between hunks the
paths in hand have the regions so far (`HunksRead`); between entries the locals are what the paths
read so far left (`Exactly`), or the reader has given up, and no kind is wrong (`NeverWrong`). That
nothing stays unnamed is counting (`NamedOrAsked`): named paths are among the announced ones, so equal
numbers are equal sets. This takes a repository of finitely many paths. What the runs enumerate is a
step of `SpecSides`, `SpecSweep` and `SpecChange`.

**`ResourceKeysProofs`.** `KeysAreIdentities` and `ConflictsAreSharedFiles`, for raw paths of any length
over any names of any characters but the slash. Normalising and joining are folds; a fold of the
community modules is a `CHOOSE` of a recursive function, so `FoldExists` builds that function set by
set and `FoldWalks` turns the fold into one step per part (`KeptIsKept`, `JoinedIsSpelled`). Induction
over the parts is a least counterexample (`Walk`), since the library's induction theorems cannot be
instantiated. `CoversFromKept`: the files a path covers go on from its kept parts. `PrefixesAgree`:
closed by a slash, the text of one path begins another's exactly when its names do, because what
follows a text up to the next slash is one name (`NameStops`). At least two names must exist: with
one, the file tree of the reference could not tell a path from a longer one.

**Only model-checked.** Liveness (`ConvergesAfterQuiet`, `PhantomsAreForgotten`, `StoppingEnds`,
`RowsSettle`, `WaitersReturn`, `MessagesArrive`, `OutputReachesClients`, `StopEndsWorkers`) is beyond
the prover. Every safety property of a passing run is a theorem.

## Not modelled, and why

Memory and full-text recall (single statements nothing depends on); `doctor`, which only reads (where git
cannot list the worktrees, its `unwatched_worktrees` takes the failure for an empty list, and a mesh that
watches nothing reads as healthy, against the comment at `src/src/store.rs:2316`); the HTTP server's routing,
authorisation and validation (stateless per request); the command line, rendering, browser client,
site, installer and benchmarks; discovery of the workspace and of git, decoding and hashing of
files, how a line declares a name; a change of type, which git prints as two entries of one path; `compact` and file permissions; SQLite's busy retries (a write
that waits is a late commit, one that gives up is a failed call). A resize of a terminal is passed on
and kept nowhere.

## Plan

1. Two runs in `ManagedRuns` with a reduced repository, for concurrent approvals and the session cap.
2. An abstract log whose readers see a prefix or are told of a gap, implemented by `EventLedger` and
   by `Terminal`.

Order of the work so far: leases first (every other part stands on them), then convergence and
managed runs, then scanning, the gate and the services; then the plan above.
