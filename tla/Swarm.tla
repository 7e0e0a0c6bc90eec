-------------------------------- MODULE Swarm --------------------------------
(***************************************************************************)
(* The swarm supervisor (run_swarm of src/src/main.rs): it registers and   *)
(* starts its workers one after the other, then goes round a loop that     *)
(* passes on a request to stop, kills stragglers after a grace period,     *)
(* polls every worker and heartbeats the live ones, until none is left.    *)
(*                                                                         *)
(* An exit code is 0 or 1.  Worker processes may end at any time, and may  *)
(* ignore SIGTERM.  A transaction of the store fails only where faulty     *)
(* says so; an error that ? returns ends the supervisor where it stands.   *)
(***************************************************************************)
EXTENDS Integers, FiniteSets

CONSTANT N   \* worker_count

ASSUME SwarmAssumption == N \in Nat \ {0}

Workers == 0..N-1

VARIABLES
  at,           \* where the supervisor is: a step, and the worker it is at
  rows,         \* the worker's row in the agents table
  procs,        \* the worker's process: none, live, killed (SIGKILL is sent) or gone
  codes,        \* exit_code as the supervisor knows it
  stopping,     \* the flag a signal or the first failure raises
  interrupted,  \* a signal came
  grace,        \* the shutdown deadline: none, ahead or past
  options       \* fail_fast, and whether the store may fail

swarmVars == <<at, rows, procs, codes, stopping, interrupted, grace, options>>

Unknown == -1

InitSwarm ==
  /\ at = [step |-> "register", worker |-> 0]
  /\ rows = [w \in Workers |-> "none"]
  /\ procs = [w \in Workers |-> [state |-> "none", code |-> 0]]
  /\ codes = [w \in Workers |-> Unknown]
  /\ stopping = FALSE
  /\ interrupted = FALSE
  /\ grace = "none"
  /\ options \in [failFast : BOOLEAN, faulty : BOOLEAN]

Over == at.step \in {"finished", "forced", "abandoned"}

Goes(step, w) == at' = [step |-> step, worker |-> w]

\* ? returns the error of a store operation to the caller of run_swarm.
StoreError(step) ==
  /\ at.step = step
  /\ options.faulty
  /\ Goes("abandoned", 0)
  /\ UNCHANGED <<rows, procs, codes, stopping, interrupted, grace, options>>

-----------------------------------------------------------------------------
(***************************************************************************)
(* The processes, and the signals to the supervisor.                       *)
(***************************************************************************)
Exit(w, code) ==
  /\ procs[w].state \in {"live", "killed"}
  /\ procs' = [procs EXCEPT ![w].state = "gone", ![w].code = code]
  /\ UNCHANGED <<at, rows, codes, stopping, interrupted, grace, options>>

Interrupt ==
  /\ ~Over
  /\ ~interrupted
  /\ interrupted' = TRUE
  /\ stopping' = TRUE
  /\ UNCHANGED <<at, rows, procs, codes, grace, options>>

GraceEnds ==
  /\ grace = "ahead"
  /\ grace' = "past"
  /\ UNCHANGED <<at, rows, procs, codes, stopping, interrupted, options>>

-----------------------------------------------------------------------------
(***************************************************************************)
(* Starting the workers.                                                   *)
(***************************************************************************)
Register ==
  /\ at.step = "register"
  /\ rows' = [rows EXCEPT ![at.worker] = "running"]
  /\ Goes("spawn", at.worker)
  /\ UNCHANGED <<procs, codes, stopping, interrupted, grace, options>>

Spawn ==
  /\ at.step = "spawn"
  /\ procs' = [procs EXCEPT ![at.worker].state = "live"]
  /\ Goes("record", at.worker)
  /\ UNCHANGED <<rows, codes, stopping, interrupted, grace, options>>

\* update_agent_pid and remember
Record ==
  /\ at.step = "record"
  /\ IF at.worker + 1 < N THEN Goes("register", at.worker + 1) ELSE Goes("request", 0)
  /\ UNCHANGED <<rows, procs, codes, stopping, interrupted, grace, options>>

Kill(S) == [w \in Workers |-> IF w \in S /\ procs[w].state = "live"
                              THEN [procs[w] EXCEPT !.state = "killed"] ELSE procs[w]]

\* The command does not start: its row is stopped, or the error of that is returned.
SpawnFails ==
  /\ at.step = "spawn"
  /\ rows' = [rows EXCEPT ![at.worker] = "stopped"]
  /\ procs' = Kill(Workers)
  /\ Goes("force", 0)
  /\ UNCHANGED <<codes, stopping, interrupted, grace, options>>

RecordFails ==
  /\ at.step = "record"
  /\ options.faulty
  /\ procs' = Kill(Workers)
  /\ Goes("force", 0)
  /\ UNCHANGED <<rows, codes, stopping, interrupted, grace, options>>

\* force_stop_workers: wait for each, whatever the store then says to stop_agent.
ForceStop ==
  /\ at.step = "force"
  /\ procs[at.worker].state \in {"gone", "none"}
  /\ \/ rows' = [rows EXCEPT ![at.worker] = IF @ = "none" THEN @ ELSE "stopped"]
     \/ options.faulty /\ UNCHANGED rows
  /\ IF at.worker + 1 < N THEN Goes("force", at.worker + 1) ELSE Goes("forced", 0)
  /\ UNCHANGED <<procs, codes, stopping, interrupted, grace, options>>

-----------------------------------------------------------------------------
(***************************************************************************)
(* The loop.                                                               *)
(***************************************************************************)
Remaining == {w \in Workers : codes[w] = Unknown}

\* request_worker_shutdown: SIGTERM, once; a process may end at any time without it.
Request ==
  /\ at.step = "request"
  /\ IF stopping /\ grace = "none"
     THEN grace' = "ahead"
     ELSE UNCHANGED grace
  /\ Goes("kill", 0)
  /\ UNCHANGED <<rows, procs, codes, stopping, interrupted, options>>

BugStragglers == {}

\* force_kill_running, on every round from the deadline on.
Stragglers == IF grace = "past" THEN Remaining ELSE {}

KillStragglers ==
  /\ at.step = "kill"
  /\ procs' = Kill(Stragglers)
  /\ Goes("poll", 0)
  /\ UNCHANGED <<rows, codes, stopping, interrupted, grace, options>>

AfterPoll == IF at.worker + 1 < N THEN Goes("poll", at.worker + 1) ELSE Goes("beat", 0)

PollNothing ==
  /\ at.step = "poll"
  /\ at.worker \notin Remaining \/ procs[at.worker].state # "gone"
  /\ AfterPoll
  /\ UNCHANGED <<rows, procs, codes, stopping, interrupted, grace, options>>

\* try_wait answers: the code is noted, and the row follows it.
Poll ==
  /\ at.step = "poll"
  /\ at.worker \in Remaining
  /\ procs[at.worker].state = "gone"
  /\ codes' = [codes EXCEPT ![at.worker] = procs[at.worker].code]
  /\ Goes("stop row", at.worker)
  /\ UNCHANGED <<rows, procs, stopping, interrupted, grace, options>>

\* stop_agent; the first failure of a fail-fast swarm stops the others.
StopRow ==
  /\ at.step = "stop row"
  /\ rows' = [rows EXCEPT ![at.worker] = "stopped"]
  /\ stopping' = (stopping \/ (options.failFast /\ codes[at.worker] # 0))
  /\ AfterPoll
  /\ UNCHANGED <<procs, codes, interrupted, grace, options>>

BugBeaten == Workers

\* Those a heartbeat is sent for.
Beaten == Remaining

\* A heartbeat makes a row running, whatever it said; one transaction each.
Beat ==
  /\ at.step = "beat"
  /\ rows' = [rows EXCEPT ![at.worker] = IF at.worker \in Beaten THEN "running" ELSE @]
  /\ IF at.worker + 1 < N THEN Goes("beat", at.worker + 1) ELSE Goes("round", 0)
  /\ UNCHANGED <<procs, codes, stopping, interrupted, grace, options>>

\* Too early for a heartbeat.
SkipBeat ==
  /\ at = [step |-> "beat", worker |-> 0]
  /\ Goes("round", 0)
  /\ UNCHANGED <<rows, procs, codes, stopping, interrupted, grace, options>>

Round ==
  /\ at.step = "round"
  /\ Goes(IF Remaining = {} THEN "finished" ELSE "request", 0)
  /\ UNCHANGED <<rows, procs, codes, stopping, interrupted, grace, options>>

Supervisor ==
  \/ Register \/ Spawn \/ SpawnFails \/ Record \/ RecordFails \/ ForceStop
  \/ Request \/ KillStragglers \/ PollNothing \/ Poll \/ StopRow
  \/ Beat \/ SkipBeat \/ Round
  \/ \E step \in {"register", "spawn", "stop row", "beat"} : StoreError(step)

NextSwarm ==
  \/ Supervisor \/ Interrupt \/ GraceEnds
  \/ \E w \in Workers, code \in {0, 1} : Exit(w, code)

(***************************************************************************)
(* The supervisor runs, time passes, and a killed process ends: nothing    *)
(* is assumed of a process that is only asked to.                          *)
(***************************************************************************)
FairSwarm ==
  /\ WF_swarmVars(Supervisor)
  /\ WF_swarmVars(GraceEnds)
  /\ \A w \in Workers : WF_swarmVars(procs[w].state = "killed" /\ Exit(w, 1))

SpecSwarm == InitSwarm /\ [][NextSwarm]_swarmVars /\ FairSwarm

-----------------------------------------------------------------------------
NoProcess == \A w \in Workers : procs[w].state \in {"none", "gone"}

(***************************************************************************)
(* A supervisor that ends by itself "marks sessions stopped when they      *)
(* finish" (README): no process is left, and no row of a worker that ended *)
(* was brought back by a heartbeat.  One that gives up at the start kills  *)
(* what it started, though the store may not hear of it.                   *)
(***************************************************************************)
EndLeavesNothing ==
  /\ at.step \in {"finished", "forced"} => NoProcess
  /\ at.step = "finished" => \A w \in Workers : rows[w] = "stopped"
  /\ at.step = "forced" /\ ~options.faulty => \A w \in Workers : rows[w] # "running"

(***************************************************************************)
(* "A supervisor interruption sends a termination request to every live    *)
(* child, waits for the configured grace period, then forces remaining     *)
(* processes to exit" (docs/protocol.md).                                  *)
(***************************************************************************)
InterruptEndsWorkers == interrupted ~> NoProcess

\* The same, and the end of a fail-fast swarm, for a store that does not fail.
StopEndsWorkers == stopping /\ ~options.faulty ~> NoProcess
=============================================================================
