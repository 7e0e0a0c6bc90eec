----------------------------- MODULE EventLedger -----------------------------
(***************************************************************************)
(* The event ledger of a workspace and the consumers that follow it by     *)
(* checkpoint (event, events, wait_for_events and trim_event_ledgers of    *)
(* src/src/store.rs; event_stream and wait_for_events of src/src/mcp.rs).  *)
(*                                                                         *)
(* Every other operation of the store appends inside its own transaction,  *)
(* which the database admits one at a time; which events they append is    *)
(* the business of their modules.  An event is its sequence number.        *)
(***************************************************************************)
EXTENDS Integers, FiniteSetsExt

CONSTANTS
  Consumers,        \* those who follow the ledger
  EVENT_RETENTION,  \* events kept by a trim
  Limit,            \* events one answer holds
  Timeout,          \* how long a waiter waits, in ticks
  PollInterval,     \* how long it sleeps between two looks
  MaxEvents         \* bound: events appended

ASSUME EventLedgerAssumption ==
  /\ EVENT_RETENTION \in Nat \ {0}
  /\ Limit \in Nat \ {0}
  /\ Timeout \in Nat
  /\ PollInterval \in Nat \ {0}
  /\ MaxEvents \in Nat

VARIABLES
  last,    \* the last sequence number given
  events,  \* the rows of the ledger
  waits,   \* what each consumer is doing: how long until its deadline and its next look
  after,   \* the checkpoint of each consumer
  read     \* what it was given

ledgerVars == <<last, events, waits, after, read>>

NoWait == [phase |-> "none", left |-> 0, nap |-> 0]

InitLedger ==
  /\ last = 0
  /\ events = {}
  /\ waits = [c \in Consumers |-> NoWait]
  /\ after = [c \in Consumers |-> 0]
  /\ read = [c \in Consumers |-> {}]

\* AUTOINCREMENT: above every number ever given, also after the newest row went.
AppendEvent ==
  /\ last < MaxEvents
  /\ last' = last + 1
  /\ events' = events \cup {last + 1}
  /\ UNCHANGED <<waits, after, read>>

\* The cutoff is the last of the newest EVENT_RETENTION rows, and stays.
Trim ==
  /\ Cardinality(events) > EVENT_RETENTION
  /\ \E cutoff \in events :
       /\ Cardinality({e \in events : e >= cutoff}) = EVENT_RETENTION
       /\ events' = {e \in events : e >= cutoff}
  /\ UNCHANGED <<last, waits, after, read>>

-----------------------------------------------------------------------------
BugAnswer(c) ==
  {e \in events : e > after[c] /\ Cardinality({f \in events : f > e}) < Limit}

\* ORDER BY sequence LIMIT
Answer(c) ==
  {e \in events : e > after[c] /\ Cardinality({f \in events : after[c] < f /\ f < e}) < Limit}

\* The consumer goes on from the last event it was given.
Given(c) ==
  /\ after' = [after EXCEPT ![c] = IF Answer(c) = {} THEN @ ELSE Max(Answer(c))]
  /\ read' = [read EXCEPT ![c] = @ \cup Answer(c)]
  /\ UNCHANGED <<last, events>>

\* events: one look, whatever it finds.
Events(c) ==
  /\ waits[c].phase = "none"
  /\ Answer(c) # {}
  /\ Given(c)
  /\ UNCHANGED waits

Wait(c) ==
  /\ waits[c].phase = "none"
  /\ waits' = [waits EXCEPT ![c] = [phase |-> "look", left |-> Timeout, nap |-> 0]]
  /\ UNCHANGED <<last, events, after, read>>

\* The ledger first, the clock after it.
Look(c) ==
  /\ waits[c].phase = "look"
  /\ waits' = [waits EXCEPT ![c] = IF Answer(c) # {} THEN NoWait ELSE [@ EXCEPT !.phase = "check"]]
  /\ Given(c)

BugSleep(w) == [phase |-> "sleep", left |-> Timeout, nap |-> PollInterval]

\* Not past the deadline.
Sleep(w) == [w EXCEPT !.phase = "sleep", !.nap = Min({PollInterval, w.left})]

Check(c) ==
  /\ waits[c].phase = "check"
  /\ waits' = [waits EXCEPT ![c] = IF @.left = 0 THEN NoWait ELSE Sleep(@)]
  /\ UNCHANGED <<last, events, after, read>>

Wake(c) ==
  /\ waits[c].phase = "sleep"
  /\ waits[c].nap = 0
  /\ waits' = [waits EXCEPT ![c].phase = "look"]
  /\ UNCHANGED <<last, events, after, read>>

Less(n) == IF n = 0 THEN 0 ELSE n - 1

\* Time passes for everybody who waits.
Pass ==
  /\ \E c \in Consumers : waits[c].left + waits[c].nap > 0
  /\ waits' = [c \in Consumers |->
                 [waits[c] EXCEPT !.left = Less(@), !.nap = Less(@)]]
  /\ UNCHANGED <<last, events, after, read>>

Waiter(c) == Look(c) \/ Check(c) \/ Wake(c)

NextLedger ==
  \/ AppendEvent \/ Trim \/ Pass
  \/ \E c \in Consumers : Events(c) \/ Wait(c) \/ Waiter(c)

\* Time passes and threads run.
FairLedger ==
  /\ WF_ledgerVars(Pass)
  /\ \A c \in Consumers : WF_ledgerVars(Waiter(c))

SpecLedger == InitLedger /\ [][NextLedger]_ledgerVars /\ FairLedger

-----------------------------------------------------------------------------
(***************************************************************************)
(* "Consumers can checkpoint a sequence and request only later events"     *)
(* (docs/protocol.md): whatever is appended and trimmed meanwhile, what a  *)
(* consumer has gone past it was given, or a trim took it.                 *)
(***************************************************************************)
NothingSkipped == \A c \in Consumers : {e \in events : e <= after[c]} \subseteq read[c]

\* A waiter comes back, however often it looks in vain.
WaitersReturn == \A c \in Consumers : waits[c].phase # "none" ~> waits[c].phase = "none"

=============================================================================
