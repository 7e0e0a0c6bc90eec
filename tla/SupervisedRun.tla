---------------------------- MODULE SupervisedRun ----------------------------
(***************************************************************************)
(* pidmesh run: one supervised command with a thread that heartbeats for   *)
(* it (run_supervised of src/src/main.rs).  A heartbeat makes the row      *)
(* running whatever it said, so the order in which the thread and the      *)
(* supervisor end matters.  Store errors end the supervisor where it is;   *)
(* the thread ignores its own.                                             *)
(***************************************************************************)
EXTENDS Integers

VARIABLES
  main,     \* where the supervisor is
  command,  \* the child process
  row,      \* the session's row
  flag,     \* running: what the thread looks at
  thread    \* where the thread is

runVars == <<main, command, row, flag, thread>>

InitRun ==
  /\ main = "register"
  /\ command = "none"
  /\ row = "none"
  /\ flag = TRUE
  /\ thread = "none"

Step(from, to) == main = from /\ main' = to

RegisterRun ==
  /\ Step("register", "spawn")
  /\ row' = "running"
  /\ UNCHANGED <<command, flag, thread>>

SpawnRun ==
  /\ Step("spawn", "record")
  /\ command' = "live"
  /\ UNCHANGED <<row, flag, thread>>

SpawnRunFails ==
  /\ Step("spawn", "failed")
  /\ row' = "stopped"
  /\ UNCHANGED <<command, flag, thread>>

\* update_agent_pid and remember, and the thread starts.
RecordRun ==
  /\ Step("record", "wait")
  /\ thread' = "park"
  /\ UNCHANGED <<command, row, flag>>

CommandEnds ==
  /\ command = "live"
  /\ command' = "gone"
  /\ UNCHANGED <<main, row, flag, thread>>

\* wait returns; the flag goes down and the thread is unparked.
WaitRun ==
  /\ Step("wait", "join")
  /\ command = "gone"
  /\ flag' = FALSE
  /\ UNCHANGED <<command, row, thread>>

BugJoined == TRUE

Joined == thread = "over"

JoinRun ==
  /\ Step("join", "stop")
  /\ Joined
  /\ UNCHANGED <<command, row, flag, thread>>

StopRun ==
  /\ Step("stop", "ended")
  /\ row' = "stopped"
  /\ UNCHANGED <<command, flag, thread>>

\* An error of the store, returned to the caller; the thread dies with the process.
RunFails ==
  /\ main \in {"register", "spawn", "record", "stop"}
  /\ main' = "failed"
  /\ UNCHANGED <<command, row, flag, thread>>

\* The interval is over, or it was unparked: it looks at the flag, and then beats.
Unpark ==
  /\ thread = "park"
  /\ thread' = IF flag THEN "beat" ELSE "over"
  /\ UNCHANGED <<main, command, row, flag>>

BeatRun ==
  /\ thread = "beat"
  /\ \/ row' = "running"
     \/ UNCHANGED row
  /\ thread' = "look"
  /\ UNCHANGED <<main, command, flag>>

LookAgain ==
  /\ thread = "look"
  /\ thread' = IF flag THEN "park" ELSE "over"
  /\ UNCHANGED <<main, command, row, flag>>

Thread == main # "failed" /\ (Unpark \/ BeatRun \/ LookAgain)

Main ==
  RegisterRun \/ SpawnRun \/ SpawnRunFails \/ RecordRun \/ WaitRun \/ JoinRun \/ StopRun

NextRun == Main \/ RunFails \/ Thread \/ CommandEnds

SpecRun == InitRun /\ [][NextRun]_runVars

-----------------------------------------------------------------------------
(***************************************************************************)
(* The session of a command that ended is stopped and stays so, although   *)
(* the thread decides to beat before the flag goes down and beats after it *)
(* (the join comes before stop_agent).                                     *)
(***************************************************************************)
EndedRunStaysStopped == main = "ended" => row = "stopped"
=============================================================================
