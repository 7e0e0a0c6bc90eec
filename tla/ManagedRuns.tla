----------------------------- MODULE ManagedRuns -----------------------------
(***************************************************************************)
(* The dashboard's managed agent runs (src/src/ide.rs): a run is launched  *)
(* in a worktree and a branch of its own, watched, stopped, and approved   *)
(* (committed and merged into the primary checkout) or rejected; spent     *)
(* worktrees are reclaimed.  HTTP handlers run on a thread pool with a     *)
(* lock around single fields only, beside a monitor thread per run and a   *)
(* terminator thread per stop, so every git command, transaction and       *)
(* status change is a step of its own.                                     *)
(*                                                                         *)
(* A change is the area of the repository it is in.  A run is launched     *)
(* once.  The terminal, the file browser and the views are left out.       *)
(***************************************************************************)
EXTENDS Integers, FiniteSets

CONSTANTS
  Runs,        \* managed runs, each a worktree, a branch, an agent, a child
  Areas,       \* where a change can be
  Scope,       \* the areas a run reserves
  Task,        \* the task a run claims
  MaxLive,     \* MAX_LIVE_SESSIONS
  MaxHead      \* bound: commits the primary checkout gains

ASSUME ManagedRunsAssumption ==
  /\ Scope \in [Runs -> SUBSET Areas]
  /\ MaxLive \in Nat
  /\ MaxHead \in Nat

VARIABLES
  launch,      \* how far launch_resolved got
  rows,        \* the session map
  status,      \* runtime.status
  child,       \* the provider process
  terminator,  \* terminator threads still asleep
  held,        \* what the run's agent holds in the mesh
  tree,        \* the worktree and the branch
  dirty,       \* areas with changes no commit holds
  ahead,       \* areas with changes in commits the primary checkout lacks
  base,        \* base_commit
  head,        \* the primary checkout's HEAD
  ready,       \* the primary checkout is clean and on its branch
  approval,    \* how far approve got
  merged,      \* areas whose changes a merge of the run brought along
  reclaim,     \* the reclaim request under way
  closing,     \* stop_all is past the stops
  doomed       \* the runs stop_all found still live

repository == <<tree, dirty, ahead, head, ready, merged>>
threads    == <<child, terminator, held>>
shutdown   == <<closing, doomed>>
vars == <<repository, launch, rows, status, threads, base, approval, reclaim, shutdown>>

Stages   == {"idle", "cleared", "created", "registered", "claimed", "scoped",
             "started", "spawned", "unattached", "done", "failed"}
Decided  == {"merged", "rejected"}
Statuses == {"none", "running", "stopping", "stopped", "ready_for_review", "failed"} \cup Decided

NoReclaim == [on |-> FALSE, open |-> {}, todo |-> {}, spent |-> {}, closed |-> {}]

Init ==
  /\ launch = [r \in Runs |-> "idle"]
  /\ rows = {}
  /\ status = [r \in Runs |-> "none"]
  /\ child = [r \in Runs |-> "none"]
  /\ terminator = [r \in Runs |-> FALSE]
  /\ held = [r \in Runs |-> "nothing"]
  /\ tree = [r \in Runs |-> "none"]
  /\ dirty = [r \in Runs |-> {}]
  /\ ahead = [r \in Runs |-> {}]
  /\ base = [r \in Runs |-> 0]
  /\ head = 0
  /\ ready = TRUE
  /\ approval = [r \in Runs |-> "idle"]
  /\ merged = [r \in Runs |-> {}]
  /\ reclaim = NoReclaim
  /\ closing = FALSE
  /\ doomed = {}

Up(r) == child[r] = "up"

Exited(r) == child[r] \in {"succeeded", "failed"}

-----------------------------------------------------------------------------
(***************************************************************************)
(* launch_resolved, step by step.                                          *)
(***************************************************************************)
Advance(r, from, to) ==
  /\ launch[r] = from
  /\ launch' = [launch EXCEPT ![r] = to]

\* live_session_count: a run that is stopping does not count, nor one in launch.
LiveSessions == {r \in rows : status[r] = "running"}

LaunchCleared(r) ==
  /\ Cardinality(LiveSessions) < MaxLive
  /\ Advance(r, "idle", "cleared")
  /\ UNCHANGED <<repository, rows, status, threads, base, approval, reclaim, shutdown>>

CreateWorktree(r) ==
  /\ Advance(r, "cleared", "created")
  /\ base' = [base EXCEPT ![r] = head]
  /\ tree' = [tree EXCEPT ![r] = "both"]
  /\ UNCHANGED <<dirty, ahead, head, ready, merged, rows, status, threads, approval, reclaim,
                 shutdown>>

RegisterAgent(r) ==
  /\ Advance(r, "created", "registered")
  /\ UNCHANGED <<repository, rows, status, threads, base, approval, reclaim, shutdown>>

\* Rows that have not expired stand in the way of another run's.
Holding(r) == held[r] \in {"task", "scope"}

TaskTaken(r)  == \E o \in Runs \ {r} : Holding(o) /\ Task[o] = Task[r]
ScopeTaken(r) == \E o \in Runs \ {r} : held[o] = "scope" /\ Scope[o] \cap Scope[r] # {}

ClaimTask(r) ==
  /\ ~TaskTaken(r)
  /\ Advance(r, "registered", "claimed")
  /\ held' = [held EXCEPT ![r] = "task"]
  /\ UNCHANGED <<repository, rows, status, child, terminator, base, approval, reclaim, shutdown>>

ReserveScope(r) ==
  /\ ~ScopeTaken(r)
  /\ Advance(r, "claimed", "scoped")
  /\ held' = [held EXCEPT ![r] = "scope"]
  /\ UNCHANGED <<repository, rows, status, child, terminator, base, approval, reclaim, shutdown>>

SpawnProvider(r) ==
  /\ tree[r] = "both"                       \* its working directory
  /\ Advance(r, "scoped", "started")
  /\ child' = [child EXCEPT ![r] = "up"]
  /\ UNCHANGED <<repository, rows, status, terminator, held, base, approval, reclaim, shutdown>>

\* The terminal's reader and writer, of a provider that is already at work.
AttachTerminal(r) ==
  /\ Advance(r, "started", "spawned")
  /\ UNCHANGED <<repository, rows, status, threads, base, approval, reclaim, shutdown>>

\* spawn_provider kills the process and waits for its end.
AttachFails(r) ==
  /\ Advance(r, "started", "unattached")
  /\ child' = [child EXCEPT ![r] = "reaped"]
  /\ UNCHANGED <<repository, rows, status, terminator, held, base, approval, reclaim, shutdown>>

\* update_agent_pid, and the run enters the session map with its threads.
EnterRun(r) ==
  /\ Advance(r, "spawned", "done")
  /\ rows' = rows \cup {r}
  /\ status' = [status EXCEPT ![r] = "running"]
  /\ UNCHANGED <<repository, threads, base, approval, reclaim, shutdown>>

\* stop_agent, where an error is passed over.
StopAgent(r) == \E left \in {"nothing", held[r]} : held' = [held EXCEPT ![r] = left]

\* git worktree remove --force, git branch -D: each may fail, and a branch that
\* is checked out stays.
RollbackWorktree(r) ==
  \E left \in {tree[r], "none"} \cup (IF tree[r] = "none" THEN {} ELSE {"branch"}) :
    /\ tree' = [tree EXCEPT ![r] = left]
    /\ dirty' = [dirty EXCEPT ![r] = IF left = tree[r] THEN @ ELSE {}]
    /\ ahead' = [ahead EXCEPT ![r] = IF left = "none" THEN {} ELSE @]

\* A refusal or an error up to the spawn, or in it.
LaunchFails(r) ==
  /\ launch[r] \in {"cleared", "created", "registered", "claimed", "scoped", "unattached"}
  /\ launch' = [launch EXCEPT ![r] = "failed"]
  /\ StopAgent(r)
  /\ RollbackWorktree(r)
  /\ UNCHANGED <<head, ready, merged, rows, status, child, terminator, base, approval, reclaim,
                 shutdown>>

\* update_agent_checkout or update_agent_pid fails: launch returns and undoes nothing.
LaunchBreaks(r) ==
  /\ launch[r] \in {"registered", "spawned"}
  /\ launch' = [launch EXCEPT ![r] = "failed"]
  /\ UNCHANGED <<repository, rows, status, threads, base, approval, reclaim, shutdown>>

Launching(r) ==
  \/ LaunchCleared(r) \/ CreateWorktree(r) \/ RegisterAgent(r) \/ ClaimTask(r) \/ ReserveScope(r)
  \/ SpawnProvider(r) \/ AttachTerminal(r) \/ AttachFails(r) \/ EnterRun(r)
  \/ LaunchFails(r) \/ LaunchBreaks(r)

-----------------------------------------------------------------------------
(***************************************************************************)
(* The provider and what it writes; people at their checkouts.             *)
(***************************************************************************)
Write(r, x) ==
  /\ Up(r) /\ tree[r] = "both"
  /\ dirty' = [dirty EXCEPT ![r] = @ \cup {x}]
  /\ UNCHANGED <<tree, ahead, head, ready, merged, launch, rows, status, threads, base, approval,
                 reclaim, shutdown>>

\* The agent, or its operator, takes its changes back.
Discard(r) ==
  /\ tree[r] = "both"
  /\ dirty[r] # {}
  /\ dirty' = [dirty EXCEPT ![r] = {}]
  /\ UNCHANGED <<tree, ahead, head, ready, merged, launch, rows, status, threads, base, approval,
                 reclaim, shutdown>>

AgentCommits(r) ==
  /\ Up(r) /\ tree[r] = "both"
  /\ dirty[r] # {}
  /\ ahead' = [ahead EXCEPT ![r] = @ \cup dirty[r]]
  /\ dirty' = [dirty EXCEPT ![r] = {}]
  /\ UNCHANGED <<tree, head, ready, merged, launch, rows, status, threads, base, approval, reclaim,
                 shutdown>>

ChildExits(r, how) ==
  /\ Up(r)
  /\ child' = [child EXCEPT ![r] = how]
  /\ UNCHANGED <<repository, launch, rows, status, terminator, held, base, approval, reclaim,
                 shutdown>>

\* Somebody deletes the directory; git keeps its record of it.
DirectoryDeleted(r) ==
  /\ tree[r] = "both"
  /\ tree' = [tree EXCEPT ![r] = "record"]
  /\ dirty' = [dirty EXCEPT ![r] = {}]
  /\ UNCHANGED <<ahead, head, ready, merged, launch, rows, status, threads, base, approval, reclaim,
                 shutdown>>

PrimaryCommit ==
  /\ head < MaxHead
  /\ head' = head + 1
  /\ UNCHANGED <<tree, dirty, ahead, ready, merged, launch, rows, status, threads, base, approval,
                 reclaim, shutdown>>

PrimaryTouched ==
  /\ ready' = ~ready
  /\ UNCHANGED <<tree, dirty, ahead, head, merged, launch, rows, status, threads, base, approval,
                 reclaim, shutdown>>

People ==
  \/ \E r \in Runs : Discard(r) \/ DirectoryDeleted(r)
  \/ PrimaryCommit
  \/ PrimaryTouched

Provider(r) ==
  \/ \E x \in Areas : Write(r, x)
  \/ AgentCommits(r)
  \/ \E how \in {"succeeded", "failed"} : ChildExits(r, how)

-----------------------------------------------------------------------------
(***************************************************************************)
(* Stopping.  SIGTERM forces nothing: a provider is free to ignore it.     *)
(***************************************************************************)
Killed(r) == IF Up(r) THEN "failed" ELSE child[r]

MayStop(r) == r \in rows /\ status[r] = "running"

\* signal_session finds the process group; of a process that is gone it may not.
Reached(r) == IF Up(r) THEN {TRUE} ELSE BOOLEAN

\* Where the signal fails, stop returns before it starts the terminator.
Stop(r) ==
  /\ MayStop(r)
  /\ status' = [status EXCEPT ![r] = "stopping"]
  /\ \E reached \in Reached(r) : terminator' = [terminator EXCEPT ![r] = @ \/ reached]
  /\ UNCHANGED <<repository, launch, rows, child, held, base, approval, reclaim, shutdown>>

BugInsists(r) == status[r] = "running"

Insists(r) == status[r] = "stopping"

\* start_terminator, once the grace is over.
Terminate(r) ==
  /\ terminator[r]
  /\ terminator' = [terminator EXCEPT ![r] = FALSE]
  /\ child' = [child EXCEPT ![r] = IF Insists(r) THEN Killed(r) ELSE @]
  /\ UNCHANGED <<repository, launch, rows, status, held, base, approval, reclaim, shutdown>>

BugExitSeen(r) == Exited(r) \/ (Up(r) /\ status[r] = "stopping")

ExitSeen(r) == Exited(r)

Outcome(r) ==
  IF status[r] = "stopping" THEN "stopped"
  ELSE IF child[r] = "succeeded" THEN "ready_for_review" ELSE "failed"

\* start_monitor: the exit and, by stop_agent, the end of what the agent held.
MonitorSeesExit(r) ==
  /\ launch[r] = "done"
  /\ ExitSeen(r)
  /\ status' = [status EXCEPT ![r] = Outcome(r)]
  /\ child' = [child EXCEPT ![r] = IF Up(r) THEN @ ELSE "reaped"]
  /\ StopAgent(r)
  /\ UNCHANGED <<repository, launch, rows, terminator, base, approval, reclaim, shutdown>>

\* stop_all stops every run and waits; runs launched meanwhile are met below.
StopAll ==
  /\ ~closing
  /\ closing' = TRUE
  /\ status' = [r \in Runs |-> IF MayStop(r) THEN "stopping" ELSE status[r]]
  /\ \E reached \in {f \in [Runs -> BOOLEAN] : \A r \in Runs : f[r] \in Reached(r)} :
       terminator' = [r \in Runs |-> terminator[r] \/ (MayStop(r) /\ reached[r])]
  /\ UNCHANGED <<repository, launch, rows, child, held, base, approval, reclaim, doomed>>

KillLeft(r) ==
  /\ closing /\ r \in rows
  /\ status[r] \in {"running", "stopping"}
  /\ child' = [child EXCEPT ![r] = Killed(r)]
  /\ doomed' = doomed \cup {r}
  /\ UNCHANGED <<repository, launch, rows, status, terminator, held, base, approval, reclaim,
                 closing>>

EndLeft(r) ==
  /\ r \in doomed
  /\ doomed' = doomed \ {r}
  /\ status' = [status EXCEPT ![r] = "stopped"]
  /\ StopAgent(r)
  /\ UNCHANGED <<repository, launch, rows, child, terminator, base, approval, reclaim, closing>>

\* The dashboard is gone, in good order or not: runs, threads and requests with it.
DashboardEnds ==
  /\ launch' = [r \in Runs |-> IF launch[r] = "idle" THEN "idle" ELSE "failed"]
  /\ rows' = {}
  /\ status' = [r \in Runs |-> "none"]
  /\ terminator' = [r \in Runs |-> FALSE]
  /\ approval' = [r \in Runs |-> "idle"]
  /\ reclaim' = NoReclaim
  /\ closing' = FALSE
  /\ doomed' = {}
  /\ UNCHANGED <<repository, base, child, held>>

\* The 24 hours of acquire_scope are over, or gc ended an agent nobody beats for.
HoldLapses(r) ==
  /\ Holding(r)
  /\ held' = [held EXCEPT ![r] = "lapsed"]
  /\ UNCHANGED <<repository, launch, rows, status, child, terminator, base, approval, reclaim,
                 shutdown>>

Watching(r) ==
  Stop(r) \/ Terminate(r) \/ MonitorSeesExit(r) \/ KillLeft(r) \/ EndLeft(r) \/ HoldLapses(r)

-----------------------------------------------------------------------------
(***************************************************************************)
(* approve and reject.  A run that is not running never runs again, so the *)
(* status read at the start is read with the review here.                  *)
(***************************************************************************)
Approving(r, from, to) ==
  /\ approval[r] = from
  /\ approval' = [approval EXCEPT ![r] = to]

\* git status: what no commit holds, and nothing else.
ChangedFiles(r) == dirty[r]

OutsideScope(r) == ChangedFiles(r) \ Scope[r]

Review(r) ==
  /\ r \in rows /\ status[r] # "running"
  /\ tree[r] = "both"
  /\ ChangedFiles(r) # {}
  /\ OutsideScope(r) = {}
  /\ Approving(r, "idle", "reviewed")
  /\ UNCHANGED <<repository, launch, rows, status, threads, base, reclaim, shutdown>>

CheckPrimary(r) ==
  /\ ready
  /\ head = base[r]
  /\ Approving(r, "reviewed", "cleared")
  /\ UNCHANGED <<repository, launch, rows, status, threads, base, reclaim, shutdown>>

\* git add -A, git commit
CommitWork(r) ==
  /\ tree[r] = "both"
  /\ dirty[r] # {}
  /\ Approving(r, "cleared", "committed")
  /\ ahead' = [ahead EXCEPT ![r] = @ \cup dirty[r]]
  /\ dirty' = [dirty EXCEPT ![r] = {}]
  /\ UNCHANGED <<tree, head, ready, merged, launch, rows, status, threads, base, reclaim, shutdown>>

\* git merge --no-ff of what the branch holds by now, onto what HEAD is by now
MergeBranch(r) ==
  /\ tree[r] # "none"
  /\ Approving(r, "committed", "landed")
  /\ head' = head + 1
  /\ merged' = [merged EXCEPT ![r] = @ \cup ahead[r]]
  /\ ahead' = [ahead EXCEPT ![r] = {}]
  /\ UNCHANGED <<tree, dirty, ready, launch, rows, status, threads, base, reclaim, shutdown>>

RecordMerge(r) ==
  /\ Approving(r, "landed", "idle")
  /\ status' = [status EXCEPT ![r] = "merged"]
  /\ UNCHANGED <<repository, launch, rows, threads, base, reclaim, shutdown>>

\* A refusal or a failed command; a merge that stopped half-way is aborted.
ApproveFails(r) ==
  /\ approval[r] \in {"reviewed", "cleared", "committed"}
  /\ approval' = [approval EXCEPT ![r] = "idle"]
  /\ UNCHANGED <<repository, launch, rows, status, threads, base, reclaim, shutdown>>

Reject(r) ==
  /\ r \in rows /\ status[r] # "running"
  /\ status' = [status EXCEPT ![r] = "rejected"]
  /\ UNCHANGED <<repository, launch, rows, threads, base, approval, reclaim, shutdown>>

Deciding(r) ==
  \/ Review(r) \/ CheckPrimary(r) \/ CommitWork(r) \/ MergeBranch(r) \/ RecordMerge(r)
  \/ ApproveFails(r) \/ Reject(r)

-----------------------------------------------------------------------------
(***************************************************************************)
(* reclaim: the statuses and git's list of worktrees are read once, every  *)
(* worktree is judged and, if spent, removed; then the runs of the removed *)
(* ones are dropped.                                                       *)
(***************************************************************************)
Listed == {r \in Runs : tree[r] \in {"both", "record"}}

\* managed_runs and managed_worktree_entries
StartReclaim ==
  /\ ~reclaim.on
  /\ Listed # {}
  /\ reclaim' = [NoReclaim EXCEPT !.on = TRUE, !.todo = Listed,
                                  !.open = {r \in rows : status[r] \notin Decided}]
  /\ UNCHANGED <<repository, launch, rows, status, threads, base, approval, shutdown>>

\* git merge-base --is-ancestor of the branch and the primary checkout's HEAD
IsAncestorOfHead(r) == ahead[r] = {}

\* describe_worktree and classify_worktree
Spent(r) ==
  /\ r \notin reclaim.open
  /\ tree[r] = "both" => ChangedFiles(r) = {} /\ IsAncestorOfHead(r)

Judge(r) ==
  /\ reclaim.spent = {}
  /\ r \in reclaim.todo
  /\ reclaim' = [reclaim EXCEPT !.todo = @ \ {r}, !.spent = IF Spent(r) THEN {r} ELSE {}]
  /\ UNCHANGED <<repository, launch, rows, status, threads, base, approval, shutdown>>

BugRemovable(r) == TRUE

\* git worktree remove without --force; git worktree prune for a mere record
Removable(r) == tree[r] = "both" => dirty[r] = {}

\* git branch -d, never -D
Deletable(r) == ahead[r] = {}

\* remove_managed_worktree
Remove(r) ==
  /\ r \in reclaim.spent
  /\ Removable(r)
  /\ tree' = [tree EXCEPT ![r] = IF Deletable(r) THEN "none" ELSE "branch"]
  /\ reclaim' = [reclaim EXCEPT !.spent = {}, !.closed = IF Deletable(r) THEN @ \cup {r} ELSE @]
  /\ dirty' = [dirty EXCEPT ![r] = {}]
  /\ ahead' = [ahead EXCEPT ![r] = IF Deletable(r) THEN {} ELSE @]
  /\ UNCHANGED <<head, ready, merged, launch, rows, status, threads, base, approval, shutdown>>

RemoveFails(r) ==
  /\ r \in reclaim.spent
  /\ reclaim' = [reclaim EXCEPT !.spent = {}]
  /\ UNCHANGED <<repository, launch, rows, status, threads, base, approval, shutdown>>

\* close_runs
EndReclaim ==
  /\ reclaim.on /\ reclaim.todo = {} /\ reclaim.spent = {}
  /\ rows' = rows \ reclaim.closed
  /\ reclaim' = NoReclaim
  /\ UNCHANGED <<repository, launch, status, threads, base, approval, shutdown>>

Reclaiming ==
  \/ StartReclaim
  \/ \E r \in Runs : Judge(r) \/ Remove(r) \/ RemoveFails(r)
  \/ EndReclaim

Next ==
  \/ \E r \in Runs : Launching(r) \/ Provider(r) \/ Watching(r) \/ Deciding(r)
  \/ People
  \/ StopAll
  \/ DashboardEnds
  \/ Reclaiming

Spec == Init /\ [][Next]_vars

(***************************************************************************)
(* The threads of a dashboard that stays up go on; the provider need not.  *)
(***************************************************************************)
Threads == \A r \in Runs : WF_vars(Terminate(r)) /\ WF_vars(MonitorSeesExit(r))

FairSpec == Spec /\ Threads

-----------------------------------------------------------------------------
(***************************************************************************)
(* Properties                                                              *)
(***************************************************************************)

\* Every run, thread and request is in one of the states the code gives it.
TypeOK ==
  /\ launch \in [Runs -> Stages]
  /\ rows \subseteq Runs
  /\ status \in [Runs -> Statuses]
  /\ child \in [Runs -> {"none", "up", "succeeded", "failed", "reaped"}]
  /\ terminator \in [Runs -> BOOLEAN]
  /\ held \in [Runs -> {"nothing", "task", "scope", "lapsed"}]
  /\ tree \in [Runs -> {"none", "both", "record", "branch"}]
  /\ dirty \in [Runs -> SUBSET Areas]
  /\ ahead \in [Runs -> SUBSET Areas]
  /\ base \in [Runs -> Nat]
  /\ head \in Nat
  /\ ready \in BOOLEAN
  /\ approval \in [Runs -> {"idle", "reviewed", "cleared", "committed", "landed"}]
  /\ merged \in [Runs -> SUBSET Areas]
  /\ reclaim \in [on : BOOLEAN, open : SUBSET Runs, todo : SUBSET Runs, spent : SUBSET Runs,
                  closed : SUBSET Runs]
  /\ closing \in BOOLEAN
  /\ doomed \subseteq Runs

\* A step that deletes changes no commit holds, or commits the primary
\* checkout lacks.
DeletesWork(r) ==
  \/ tree[r] = "both" /\ tree'[r] \in {"none", "branch"} /\ dirty[r] # {}
  \/ tree[r] # "none" /\ tree'[r] = "none" /\ ahead[r] # {}

(***************************************************************************)
(* "Git ... refuses anything that still holds work" (docs/protocol.md): no *)
(* step of the dashboard deletes work, although a run may write, commit or *)
(* be approved between the judgement and the removal; and no rollback by   *)
(* force does, but that of a launch whose provider had started and could   *)
(* not be attached.                                                        *)
(***************************************************************************)
WorkIsKept == [][\A r \in Runs : DeletesWork(r) => launch[r] = "unattached"]_vars

(***************************************************************************)
(* A provider process is covered by its run's task and scope from its      *)
(* start to its end, unless they lapse: a failed launch, stopping, killing *)
(* and the end of the dashboard free nothing before the process is gone.   *)
(***************************************************************************)
ProcessIsCovered == \A r \in Runs : Up(r) => held[r] \in {"scope", "lapsed"}

(***************************************************************************)
(* So two providers work in one area only after a lease of one of them has *)
(* lapsed.                                                                 *)
(***************************************************************************)
ScopesApart ==
  \A r, o \in Runs :
    r # o /\ Up(r) /\ Up(o) /\ Scope[r] \cap Scope[o] # {}
      => held[r] = "lapsed" \/ held[o] = "lapsed"

(***************************************************************************)
(* start_terminator's comment: without it "the run sits in `stopping`      *)
(* forever".  A run told to stop leaves that state, whatever its process   *)
(* makes of SIGTERM.                                                       *)
(***************************************************************************)
StoppingEnds == \A r \in Runs : status[r] = "stopping" ~> status[r] # "stopping"

-----------------------------------------------------------------------------
(***************************************************************************)
(* What the documents say and the code does not do.                        *)
(***************************************************************************)

(***************************************************************************)
(* README.md: "PidMesh refuses approval while changes exist outside the    *)
(* reserved paths": what a run brings into the primary checkout is in its  *)
(* scope.                                                                  *)
(***************************************************************************)
MergedStaysInScope == \A r \in Runs : merged[r] \subseteq Scope[r]
=============================================================================
