-------------------------- MODULE ManagedRunsProofs --------------------------
(***************************************************************************)
(* What managed runs keep for any number of runs, areas and scopes: their  *)
(* types, that a provider is covered by its scope as long as it lives, and *)
(* that two providers therefore stay out of each other's areas.            *)
(***************************************************************************)
EXTENDS ManagedRuns, TLAPS

Before == {"idle", "cleared", "created", "registered", "claimed", "scoped"}

\* Before the spawn there is no process, and the spawn has the scope; what could
\* not be attached is gone.
LaunchInOrder ==
  \A r \in Runs :
    /\ launch[r] \in Before => child[r] = "none"
    /\ launch[r] = "scoped" => held[r] \in {"scope", "lapsed"}
    /\ launch[r] = "unattached" => ~Up(r)

\* The session map and stop_all know only runs whose launch came through.
RowsAreLaunched ==
  /\ \A r \in rows : launch[r] = "done"
  /\ \A r \in doomed : launch[r] = "done" /\ ~Up(r)

\* reserve_resources: rows that have not lapsed are disjoint.
HoldsApart ==
  \A r, o \in Runs :
    r # o /\ held[r] = "scope" /\ held[o] = "scope" => Scope[r] \cap Scope[o] = {}

IInv == TypeOK /\ LaunchInOrder /\ RowsAreLaunched /\ ProcessIsCovered /\ HoldsApart

\* The empty dashboard has the types.
LEMMA TypeInit == Init => TypeOK
<1>. SUFFICES ASSUME Init PROVE TypeOK OBVIOUS
<1>. USE DEF Init
<1>1. /\ launch \in [Runs -> Stages]
      /\ status \in [Runs -> Statuses]
      /\ approval \in [Runs -> {"idle", "reviewed", "cleared", "committed", "landed"}]
  BY DEF Stages, Statuses, Decided
<1>2. /\ child \in [Runs -> {"none", "up", "succeeded", "failed", "reaped"}]
      /\ held \in [Runs -> {"nothing", "task", "scope", "lapsed"}]
      /\ tree \in [Runs -> {"none", "both", "record", "branch"}]
      /\ terminator \in [Runs -> BOOLEAN]
  OBVIOUS
<1>3. /\ dirty \in [Runs -> SUBSET Areas]
      /\ ahead \in [Runs -> SUBSET Areas]
      /\ merged \in [Runs -> SUBSET Areas]
      /\ base \in [Runs -> Nat]
      /\ head \in Nat
  OBVIOUS
<1>4. reclaim \in [on : BOOLEAN, open : SUBSET Runs, todo : SUBSET Runs, spent : SUBSET Runs,
                   closed : SUBSET Runs]
  BY DEF NoReclaim
<1>. QED BY <1>1, <1>2, <1>3, <1>4 DEF TypeOK

\* A launch keeps every variable in its type.
LEMMA TypeLaunching ==
  ASSUME TypeOK, NEW r \in Runs, Launching(r)
  PROVE  TypeOK'
<1>. USE DEF TypeOK, Stages, Statuses, Decided, repository, threads, shutdown, Advance
<1>1. CASE LaunchCleared(r) BY <1>1 DEF LaunchCleared
<1>2. CASE CreateWorktree(r) BY <1>2 DEF CreateWorktree
<1>3. CASE RegisterAgent(r) BY <1>3 DEF RegisterAgent
<1>4. CASE ClaimTask(r) BY <1>4 DEF ClaimTask
<1>5. CASE ReserveScope(r) BY <1>5 DEF ReserveScope
<1>6. CASE SpawnProvider(r) BY <1>6 DEF SpawnProvider
<1>7. CASE EnterRun(r) BY <1>7 DEF EnterRun
<1>8. CASE LaunchFails(r)
  <2>1. held' \in [Runs -> {"nothing", "task", "scope", "lapsed"}]
    BY <1>8 DEF LaunchFails, StopAgent
  <2>2. /\ tree' \in [Runs -> {"none", "both", "record", "branch"}]
        /\ dirty' \in [Runs -> SUBSET Areas]
        /\ ahead' \in [Runs -> SUBSET Areas]
    BY <1>8 DEF LaunchFails, RollbackWorktree
  <2>. QED BY <1>8, <2>1, <2>2 DEF LaunchFails
<1>9. CASE LaunchBreaks(r) BY <1>9 DEF LaunchBreaks
<1>10. CASE AttachTerminal(r) BY <1>10 DEF AttachTerminal
<1>11. CASE AttachFails(r) BY <1>11 DEF AttachFails
<1>. QED BY <1>1, <1>2, <1>3, <1>4, <1>5, <1>6, <1>7, <1>8, <1>9, <1>10, <1>11 DEF Launching

\* So do the provider and the people.
LEMMA TypeProvider ==
  ASSUME TypeOK, (\E r \in Runs : Provider(r)) \/ People
  PROVE  TypeOK'
<1>. USE DEF TypeOK, Stages, Statuses, Decided, repository, threads, shutdown
<1>1. CASE \E r \in Runs, x \in Areas : Write(r, x) BY <1>1 DEF Write
<1>2. CASE \E r \in Runs : AgentCommits(r) BY <1>2 DEF AgentCommits
<1>3. CASE \E r \in Runs, how \in {"succeeded", "failed"} : ChildExits(r, how)
  BY <1>3 DEF ChildExits
<1>4. CASE \E r \in Runs : Discard(r) BY <1>4 DEF Discard
<1>5. CASE \E r \in Runs : DirectoryDeleted(r) BY <1>5 DEF DirectoryDeleted
<1>6. CASE PrimaryCommit BY <1>6 DEF PrimaryCommit
<1>7. CASE PrimaryTouched BY <1>7 DEF PrimaryTouched
<1>. QED BY <1>1, <1>2, <1>3, <1>4, <1>5, <1>6, <1>7 DEF Provider, People

\* So do stopping, the monitor and the end of the dashboard.
LEMMA TypeWatching ==
  ASSUME TypeOK, (\E r \in Runs : Watching(r)) \/ StopAll \/ DashboardEnds
  PROVE  TypeOK'
<1>. USE DEF TypeOK, Stages, Statuses, Decided, repository, threads, shutdown
<1>1. CASE \E r \in Runs : Stop(r) BY <1>1 DEF Stop
<1>2. CASE \E r \in Runs : Terminate(r) BY <1>2 DEF Terminate, Killed
<1>3. CASE \E r \in Runs : MonitorSeesExit(r) BY <1>3 DEF MonitorSeesExit, StopAgent, Outcome
<1>4. CASE \E r \in Runs : KillLeft(r) BY <1>4 DEF KillLeft, Killed
<1>5. CASE \E r \in Runs : EndLeft(r) BY <1>5 DEF EndLeft, StopAgent
<1>6. CASE \E r \in Runs : HoldLapses(r) BY <1>6 DEF HoldLapses
<1>7. CASE StopAll
  <2>1. status' \in [Runs -> Statuses] BY <1>7 DEF StopAll, MayStop
  <2>2. terminator' \in [Runs -> BOOLEAN] BY <1>7 DEF StopAll, MayStop
  <2>. QED BY <1>7, <2>1, <2>2 DEF StopAll
<1>8. CASE DashboardEnds BY <1>8 DEF DashboardEnds, NoReclaim
<1>. QED BY <1>1, <1>2, <1>3, <1>4, <1>5, <1>6, <1>7, <1>8 DEF Watching

\* So do approving and rejecting.
LEMMA TypeDeciding ==
  ASSUME TypeOK, NEW r \in Runs, Deciding(r)
  PROVE  TypeOK'
<1>. USE DEF TypeOK, Stages, Statuses, Decided, repository, threads, shutdown, Approving
<1>1. CASE Review(r) BY <1>1 DEF Review
<1>2. CASE CheckPrimary(r) BY <1>2 DEF CheckPrimary
<1>3. CASE CommitWork(r) BY <1>3 DEF CommitWork
<1>4. CASE MergeBranch(r) BY <1>4 DEF MergeBranch
<1>5. CASE RecordMerge(r) BY <1>5 DEF RecordMerge
<1>6. CASE ApproveFails(r) BY <1>6 DEF ApproveFails
<1>7. CASE Reject(r) BY <1>7 DEF Reject
<1>. QED BY <1>1, <1>2, <1>3, <1>4, <1>5, <1>6, <1>7 DEF Deciding

\* So does reclaiming.
LEMMA TypeReclaiming ==
  ASSUME TypeOK, Reclaiming
  PROVE  TypeOK'
<1>. USE DEF TypeOK, Stages, Statuses, Decided, repository, threads, shutdown, NoReclaim
<1>1. CASE StartReclaim BY <1>1 DEF StartReclaim, Listed
<1>2. ASSUME NEW r \in Runs, Judge(r) PROVE TypeOK'
  <2>1. CASE Spent(r)
    <3>1. reclaim' = [reclaim EXCEPT !.todo = @ \ {r}, !.spent = {r}] BY <1>2, <2>1 DEF Judge
    <3>2. reclaim' \in [on : BOOLEAN, open : SUBSET Runs, todo : SUBSET Runs,
                        spent : SUBSET Runs, closed : SUBSET Runs]
      <4>1. {r} \in SUBSET Runs /\ reclaim.todo \ {r} \in SUBSET Runs OBVIOUS
      <4>. QED BY <3>1, <4>1
    <3>. QED BY <1>2, <3>2 DEF Judge
  <2>2. CASE ~Spent(r)
    <3>1. reclaim' = [reclaim EXCEPT !.todo = @ \ {r}, !.spent = {}] BY <1>2, <2>2 DEF Judge
    <3>2. reclaim' \in [on : BOOLEAN, open : SUBSET Runs, todo : SUBSET Runs,
                        spent : SUBSET Runs, closed : SUBSET Runs]
      BY <3>1
    <3>. QED BY <1>2, <3>2 DEF Judge
  <2>. QED BY <2>1, <2>2
<1>3. ASSUME NEW r \in Runs, Remove(r) PROVE TypeOK'
  <2>1. reclaim' \in [on : BOOLEAN, open : SUBSET Runs, todo : SUBSET Runs,
                      spent : SUBSET Runs, closed : SUBSET Runs]
    <3>1. CASE Deletable(r) BY <1>3, <3>1 DEF Remove
    <3>2. CASE ~Deletable(r) BY <1>3, <3>2 DEF Remove
    <3>. QED BY <3>1, <3>2
  <2>2. tree' \in [Runs -> {"none", "both", "record", "branch"}] BY <1>3 DEF Remove
  <2>3. /\ dirty' \in [Runs -> SUBSET Areas]
        /\ ahead' \in [Runs -> SUBSET Areas]
    BY <1>3 DEF Remove
  <2>. QED BY <1>3, <2>1, <2>2, <2>3 DEF Remove
<1>4. CASE \E r \in Runs : RemoveFails(r) BY <1>4 DEF RemoveFails
<1>5. CASE EndReclaim BY <1>5 DEF EndReclaim
<1>. QED BY <1>1, <1>2, <1>3, <1>4, <1>5 DEF Reclaiming

\* And so does every step.
LEMMA TypeNext == TypeOK /\ [Next]_vars => TypeOK'
<1>. SUFFICES ASSUME TypeOK, [Next]_vars PROVE TypeOK' OBVIOUS
<1>1. CASE Next
  BY <1>1, TypeLaunching, TypeProvider, TypeWatching, TypeDeciding, TypeReclaiming DEF Next
<1>2. CASE UNCHANGED vars
  BY <1>2 DEF TypeOK, vars, repository, threads, shutdown
<1>. QED BY <1>1, <1>2

(***************************************************************************)
(* Types: every run, thread and request stays in the states the code gives *)
(* it, for any set of runs and areas.                                      *)
(***************************************************************************)
THEOREM TypeCorrect == Spec => []TypeOK
  BY TypeInit, TypeNext, PTL DEF Spec

-----------------------------------------------------------------------------
\* No run, process or lease: nothing to order or to keep apart.
LEMMA CoverInit == Init => LaunchInOrder /\ RowsAreLaunched /\ ProcessIsCovered /\ HoldsApart
  BY DEF Init, LaunchInOrder, RowsAreLaunched, ProcessIsCovered, HoldsApart, Before, Up

(***************************************************************************)
(* Steps that leave launches, processes, leases and the session map alone. *)
(***************************************************************************)
LEMMA CoverUntouched ==
  ASSUME IInv, UNCHANGED <<launch, child, held, doomed>>, rows' \subseteq rows
  PROVE  LaunchInOrder' /\ RowsAreLaunched' /\ ProcessIsCovered' /\ HoldsApart'
  BY DEF IInv, LaunchInOrder, RowsAreLaunched, ProcessIsCovered, HoldsApart, Before, Up

\* The launch: a lease is taken before the spawn and given back only without one.
LEMMA CoverLaunching ==
  ASSUME IInv, NEW r \in Runs, Launching(r)
  PROVE  LaunchInOrder' /\ RowsAreLaunched' /\ ProcessIsCovered' /\ HoldsApart'
<1>. USE DEF IInv, TypeOK, LaunchInOrder, RowsAreLaunched, ProcessIsCovered, HoldsApart, Before,
             Up, threads, shutdown, Advance
<1>1. CASE LaunchCleared(r) BY <1>1 DEF LaunchCleared
<1>2. CASE CreateWorktree(r) BY <1>2 DEF CreateWorktree
<1>3. CASE RegisterAgent(r) BY <1>3 DEF RegisterAgent
<1>4. CASE ClaimTask(r) BY <1>4 DEF ClaimTask
<1>5. CASE ReserveScope(r) BY <1>5 DEF ReserveScope, ScopeTaken
<1>6. CASE SpawnProvider(r) BY <1>6 DEF SpawnProvider
<1>7. CASE EnterRun(r) BY <1>7 DEF EnterRun
<1>8. CASE LaunchFails(r) BY <1>8 DEF LaunchFails, StopAgent
<1>9. CASE LaunchBreaks(r) BY <1>9 DEF LaunchBreaks
<1>10. CASE AttachTerminal(r) BY <1>10 DEF AttachTerminal
<1>11. CASE AttachFails(r) BY <1>11 DEF AttachFails
<1>. QED BY <1>1, <1>2, <1>3, <1>4, <1>5, <1>6, <1>7, <1>8, <1>9, <1>10, <1>11 DEF Launching

\* The provider and people end processes at most; holds stay.
LEMMA CoverProvider ==
  ASSUME IInv, (\E r \in Runs : Provider(r)) \/ People
  PROVE  LaunchInOrder' /\ RowsAreLaunched' /\ ProcessIsCovered' /\ HoldsApart'
<1>1. CASE \E r \in Runs, how \in {"succeeded", "failed"} : ChildExits(r, how)
  BY <1>1 DEF ChildExits, IInv, TypeOK, LaunchInOrder, RowsAreLaunched, ProcessIsCovered,
              HoldsApart, Before, Up, shutdown
<1>2. CASE (\E r \in Runs : (\E x \in Areas : Write(r, x)) \/ AgentCommits(r)) \/ People
  <2>1. UNCHANGED <<launch, rows, child, held, doomed>>
    BY <1>2 DEF Write, AgentCommits, People, Discard, DirectoryDeleted, PrimaryCommit,
                PrimaryTouched, threads, shutdown
  <2>. QED BY <2>1, CoverUntouched
<1>. QED BY <1>1, <1>2 DEF Provider

\* Stopping: what a run held goes only when its process is seen gone.
LEMMA CoverWatching ==
  ASSUME IInv, (\E r \in Runs : Watching(r)) \/ StopAll \/ DashboardEnds
  PROVE  LaunchInOrder' /\ RowsAreLaunched' /\ ProcessIsCovered' /\ HoldsApart'
<1>. USE DEF IInv, TypeOK, LaunchInOrder, RowsAreLaunched, ProcessIsCovered, HoldsApart, Before, Up
<1>1. CASE \E r \in Runs : Stop(r) BY <1>1 DEF Stop, shutdown
<1>2. CASE \E r \in Runs : Terminate(r) BY <1>2 DEF Terminate, Killed, shutdown
<1>3. CASE \E r \in Runs : MonitorSeesExit(r)
  BY <1>3 DEF MonitorSeesExit, ExitSeen, Exited, StopAgent, shutdown
<1>4. CASE \E r \in Runs : KillLeft(r) BY <1>4 DEF KillLeft, Killed
<1>5. CASE \E r \in Runs : EndLeft(r) BY <1>5 DEF EndLeft, StopAgent
<1>6. CASE \E r \in Runs : HoldLapses(r) BY <1>6 DEF HoldLapses, shutdown
<1>7. CASE StopAll BY <1>7 DEF StopAll
<1>8. CASE DashboardEnds BY <1>8 DEF DashboardEnds
<1>. QED BY <1>1, <1>2, <1>3, <1>4, <1>5, <1>6, <1>7, <1>8 DEF Watching

\* Decisions touch git and the status.
LEMMA CoverDeciding ==
  ASSUME IInv, (\E r \in Runs : Deciding(r)) \/ Reclaiming
  PROVE  LaunchInOrder' /\ RowsAreLaunched' /\ ProcessIsCovered' /\ HoldsApart'
<1>1. UNCHANGED <<launch, child, held, doomed>> /\ rows' \subseteq rows
  <2>1. CASE \E r \in Runs : Deciding(r)
    BY <2>1 DEF Deciding, Review, CheckPrimary, CommitWork, MergeBranch, RecordMerge,
                ApproveFails, Reject, threads, shutdown
  <2>2. CASE Reclaiming
    BY <2>2 DEF Reclaiming, StartReclaim, Judge, Remove, RemoveFails, EndReclaim, threads, shutdown
  <2>. QED BY <2>1, <2>2
<1>. QED BY <1>1, CoverUntouched

LEMMA CoverNext == IInv /\ [Next]_vars => IInv'
<1>. SUFFICES ASSUME IInv, [Next]_vars PROVE IInv' OBVIOUS
<1>1. TypeOK' BY TypeNext DEF IInv
<1>2. LaunchInOrder' /\ RowsAreLaunched' /\ ProcessIsCovered' /\ HoldsApart'
  <2>1. CASE Next
    BY <2>1, CoverLaunching, CoverProvider, CoverWatching, CoverDeciding DEF Next
  <2>2. CASE UNCHANGED vars
    BY <2>2, CoverUntouched DEF vars, threads, shutdown
  <2>. QED BY <2>1, <2>2
<1>. QED BY <1>1, <1>2 DEF IInv

\* The inductive invariant holds of every run.
LEMMA Inductive == Spec => []IInv
<1>1. Init => IInv BY TypeInit, CoverInit DEF IInv
<1>. QED BY <1>1, CoverNext, PTL DEF Spec

(***************************************************************************)
(* A provider process is covered by its scope from its spawn to its end,   *)
(* or the scope has lapsed.                                                *)
(***************************************************************************)
THEOREM ProcessCovered == Spec => []ProcessIsCovered
<1>1. IInv => ProcessIsCovered BY DEF IInv
<1>. QED BY <1>1, Inductive, PTL

(***************************************************************************)
(* However many runs there are, two providers whose scopes overlap are up  *)
(* together only after a lease of one of them has lapsed.                  *)
(***************************************************************************)
THEOREM ScopesKeptApart == Spec => []ScopesApart
<1>1. IInv => ScopesApart
  BY DEF IInv, ProcessIsCovered, HoldsApart, ScopesApart
<1>. QED BY <1>1, Inductive, PTL
-----------------------------------------------------------------------------
\* Nothing is written before the provider runs, so a rollback before it has
\* nothing to lose.
NothingYet == \A r \in Runs : launch[r] \in Before => dirty[r] = {} /\ ahead[r] = {}

LEMMA NothingYetInit == Init => NothingYet
  BY DEF Init, NothingYet

\* Only a provider that is up writes, and it came after its launch.
LEMMA NothingYetNext == IInv /\ NothingYet /\ [Next]_vars => NothingYet'
<1>. SUFFICES ASSUME IInv, NothingYet, [Next]_vars PROVE NothingYet' OBVIOUS
<1>. USE DEF NothingYet, Before, IInv, TypeOK, repository
<1>1. ASSUME NEW r \in Runs, Launching(r) PROVE NothingYet'
  <2>1. CASE LaunchFails(r) BY <2>1 DEF LaunchFails, RollbackWorktree
  <2>2. CASE ~LaunchFails(r)
    BY <1>1, <2>2 DEF Launching, LaunchCleared, CreateWorktree, RegisterAgent, ClaimTask,
              ReserveScope, SpawnProvider, AttachTerminal, AttachFails, EnterRun, LaunchBreaks,
              Advance
  <2>. QED BY <2>1, <2>2
<1>2. ASSUME NEW r \in Runs, Provider(r) PROVE NothingYet'
  BY <1>2 DEF Provider, Write, AgentCommits, ChildExits, LaunchInOrder, Up
<1>3. CASE People BY <1>3 DEF People, Discard, DirectoryDeleted, PrimaryCommit, PrimaryTouched
<1>4. ASSUME NEW r \in Runs, Watching(r) PROVE NothingYet'
  BY <1>4 DEF Watching, Stop, Terminate, MonitorSeesExit, KillLeft, EndLeft, HoldLapses
<1>5. ASSUME NEW r \in Runs, Deciding(r) PROVE NothingYet'
  BY <1>5 DEF Deciding, Review, CheckPrimary, CommitWork, MergeBranch, RecordMerge, ApproveFails,
              Reject
<1>6. CASE StopAll BY <1>6 DEF StopAll
<1>7. CASE DashboardEnds BY <1>7 DEF DashboardEnds
<1>8. CASE Reclaiming
  <2>1. ASSUME NEW r \in Runs, Remove(r) PROVE NothingYet'
    <3>1. \A o \in Runs : dirty'[o] \subseteq dirty[o] /\ ahead'[o] \subseteq ahead[o]
      BY <2>1 DEF Remove
    <3>. QED BY <2>1, <3>1 DEF Remove
  <2>. QED BY <1>8, <2>1 DEF Reclaiming, StartReclaim, Judge, RemoveFails, EndReclaim
<1>9. CASE UNCHANGED vars BY <1>9 DEF vars
<1>. QED BY <1>1, <1>2, <1>3, <1>4, <1>5, <1>6, <1>7, <1>8, <1>9 DEF Next

\* What a step of the dashboard may delete.
Kept == \A r \in Runs : DeletesWork(r) => launch[r] = "unattached"

\* A removal deletes what git finds spent; every other step but a rollback leaves trees standing.
LEMMA StepKeeps == IInv /\ NothingYet /\ [Next]_vars => Kept
<1>. SUFFICES ASSUME IInv, NothingYet, [Next]_vars PROVE Kept OBVIOUS
<1>. USE DEF Kept, DeletesWork, IInv, TypeOK, repository
<1>1. ASSUME NEW r \in Runs, LaunchFails(r) PROVE Kept
  <2>1. \A o \in Runs \ {r} : tree'[o] = tree[o]
    BY <1>1 DEF LaunchFails, RollbackWorktree
  <2>2. launch[r] = "unattached" \/ (dirty[r] = {} /\ ahead[r] = {})
    BY <1>1 DEF LaunchFails, NothingYet, Before
  <2>. QED BY <2>1, <2>2
<1>2. ASSUME NEW r \in Runs, Remove(r) PROVE Kept
  <2>1. /\ tree[r] = "both" => dirty[r] = {}
        /\ tree'[r] = IF ahead[r] = {} THEN "none" ELSE "branch"
        /\ \A o \in Runs \ {r} : tree'[o] = tree[o]
    BY <1>2 DEF Remove, Removable, Deletable
  <2>. QED BY <2>1
<1>3. ASSUME NEW r \in Runs, CreateWorktree(r) PROVE Kept
  BY <1>3 DEF CreateWorktree
<1>4. ASSUME NEW r \in Runs, DirectoryDeleted(r) PROVE Kept
  BY <1>4 DEF DirectoryDeleted
<1>5. CASE tree' = tree BY <1>5
<1>6. ASSUME NEW r \in Runs, Launching(r) PROVE Kept
  BY <1>1, <1>3, <1>5, <1>6 DEF Launching, LaunchCleared, RegisterAgent, ClaimTask, ReserveScope,
              SpawnProvider, AttachTerminal, AttachFails, EnterRun, LaunchBreaks
<1>7. ASSUME NEW r \in Runs, Provider(r) PROVE Kept
  BY <1>5, <1>7 DEF Provider, Write, AgentCommits, ChildExits
<1>8. CASE People
  BY <1>4, <1>5, <1>8 DEF People, Discard, PrimaryCommit, PrimaryTouched
<1>9. ASSUME NEW r \in Runs, Watching(r) PROVE Kept
  BY <1>5, <1>9 DEF Watching, Stop, Terminate, MonitorSeesExit, KillLeft, EndLeft, HoldLapses
<1>10. ASSUME NEW r \in Runs, Deciding(r) PROVE Kept
  BY <1>5, <1>10 DEF Deciding, Review, CheckPrimary, CommitWork, MergeBranch, RecordMerge,
              ApproveFails, Reject
<1>11. CASE StopAll \/ DashboardEnds BY <1>5, <1>11 DEF StopAll, DashboardEnds
<1>12. CASE Reclaiming
  BY <1>2, <1>5, <1>12 DEF Reclaiming, StartReclaim, Judge, RemoveFails, EndReclaim
<1>13. CASE UNCHANGED vars BY <1>5, <1>13 DEF vars
<1>. QED BY <1>6, <1>7, <1>8, <1>9, <1>10, <1>11, <1>12, <1>13 DEF Next

(***************************************************************************)
(* However many runs there are, no step of the dashboard deletes work that *)
(* only a run's worktree or branch holds, but the rollback of a launch     *)
(* whose provider had started and could not be attached.                   *)
(***************************************************************************)
THEOREM WorkKept == Spec => WorkIsKept
<1>1. Spec => [](IInv /\ NothingYet)
  BY Inductive, NothingYetInit, NothingYetNext, PTL DEF Spec
<1>2. IInv /\ NothingYet /\ [Next]_vars => [Kept]_vars BY StepKeeps
<1>3. Spec => [][Kept]_vars BY <1>1, <1>2, PTL DEF Spec
<1>. QED BY <1>3 DEF WorkIsKept, Kept

=============================================================================
