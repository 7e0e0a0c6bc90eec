------------------------------- MODULE Mailbox -------------------------------
(***************************************************************************)
(* Messages between the sessions of a workspace: send, inbox and           *)
(* acknowledge (src/src/store.rs), and the inbox tool that lists and       *)
(* acknowledges in two transactions (src/src/mcp.rs).                      *)
(*                                                                         *)
(* A session's start time is read before the transaction that registers it *)
(* and a message's inside the one that stores it.  A message is its        *)
(* position in the table.  A recipient's name stands for the session it    *)
(* resolves to; the events these operations append are left out.           *)
(***************************************************************************)
EXTENDS Integers, FiniteSets, Sequences

CONSTANTS
  Agents,       \* session ids
  Everyone,     \* the recipient "*"
  Window,       \* messages one listing holds
  MaxMessages,  \* bound: messages sent
  MaxTime       \* bound: the clock stops here

ASSUME MailboxAssumption ==
  /\ Everyone \notin Agents
  /\ Window \in Nat \ {0}
  /\ MaxMessages \in Nat
  /\ MaxTime \in Nat

VARIABLES
  time,      \* the clock
  roster,    \* the agents table: who is there, and since when
  messages,  \* the messages table
  receipts,  \* the message_receipts table: <<message, agent>>
  calls,     \* the inbox call of each session
  listed     \* everything a listing ever held: <<message, agent>>

mailVars == <<time, roster, messages, receipts, calls, listed>>

NoCall == [phase |-> "none", ids |-> {}]

InitMail ==
  /\ time = 0
  /\ roster = [a \in Agents |-> [status |-> "absent", started |-> 0]]
  /\ messages = << >>
  /\ receipts = {}
  /\ calls = [a \in Agents |-> NoCall]
  /\ listed = {}

Known(a) == roster[a].status \in {"running", "stopped"}

\* register_agent: now_ms, and later the row.
BeginJoin(a) ==
  /\ roster[a].status = "absent"
  /\ roster' = [roster EXCEPT ![a] = [status |-> "joining", started |-> time]]
  /\ UNCHANGED <<time, messages, receipts, calls, listed>>

Join(a) ==
  /\ roster[a].status = "joining"
  /\ roster' = [roster EXCEPT ![a].status = "running"]
  /\ UNCHANGED <<time, messages, receipts, calls, listed>>

Leave(a) ==
  /\ roster[a].status = "running"
  /\ roster' = [roster EXCEPT ![a].status = "stopped"]
  /\ UNCHANGED <<time, messages, receipts, calls, listed>>

PassTime ==
  /\ time < MaxTime
  /\ time' = time + 1
  /\ UNCHANGED <<roster, messages, receipts, calls, listed>>

\* A recipient has to be running; there: who could have been meant.
Send(a, to) ==
  /\ Known(a)
  /\ to \in Agents => roster[to].status = "running"
  /\ Len(messages) < MaxMessages
  /\ messages' = Append(messages, [sender |-> a, to |-> to, at |-> time,
                                   there |-> {b \in Agents : Known(b)}])
  /\ UNCHANGED <<time, roster, receipts, calls, listed>>

-----------------------------------------------------------------------------
BugVisible(a, i) ==
  /\ messages[i].sender # a
  /\ \/ messages[i].to = a
     \/ messages[i].to = Everyone /\ messages[i].at > roster[a].started

Visible(a, i) ==
  /\ messages[i].sender # a
  /\ \/ messages[i].to = a
     \/ messages[i].to = Everyone /\ messages[i].at >= roster[a].started

Unread(a) == {i \in DOMAIN messages : Visible(a, i) /\ <<i, a>> \notin receipts}

\* ORDER BY created_at, id LIMIT: both grow from row to row.
FirstOf(found) == {i \in found : Cardinality({j \in found : j < i}) < Window}

\* inbox, of unread messages; the command line lists and stops here.
List(a) ==
  /\ Known(a)
  /\ calls[a].phase = "none"
  /\ Unread(a) # {}
  /\ calls' = [calls EXCEPT ![a] = [phase |-> "listed", ids |-> FirstOf(Unread(a))]]
  /\ listed' = listed \cup (FirstOf(Unread(a)) \X {a})
  /\ UNCHANGED <<time, roster, messages, receipts>>

BugAcknowledged(a, ids) == Unread(a)

\* acknowledge: whatever the caller names, if it is to him or to everyone.
Acknowledged(a, ids) == {i \in ids : messages[i].to \in {a, Everyone}}

\* INSERT OR IGNORE
Acknowledge(a) ==
  /\ calls[a].phase = "listed"
  /\ receipts' = receipts \cup (Acknowledged(a, calls[a].ids) \X {a})
  /\ calls' = [calls EXCEPT ![a] = NoCall]
  /\ UNCHANGED <<time, roster, messages, listed>>

\* The call ends before: acknowledge was not asked for, or it failed, or the process did.
Drop(a) ==
  /\ calls[a].phase = "listed"
  /\ calls' = [calls EXCEPT ![a] = NoCall]
  /\ UNCHANGED <<time, roster, messages, receipts, listed>>

NextMail ==
  \/ PassTime
  \/ \E a \in Agents :
       \/ BeginJoin(a) \/ Join(a) \/ Leave(a)
       \/ \E to \in Agents \cup {Everyone} : Send(a, to)
       \/ List(a) \/ Acknowledge(a) \/ Drop(a)

\* A session that keeps reading its inbox, and is not dropped every time.
FairMail ==
  \A a \in Agents : WF_mailVars(List(a)) /\ SF_mailVars(Acknowledge(a))

SpecMail == InitMail /\ [][NextMail]_mailVars /\ FairMail

-----------------------------------------------------------------------------
(***************************************************************************)
(* A message is acknowledged for a session only after a listing showed it  *)
(* to that session: what arrives between the two transactions of the inbox *)
(* tool stays unread.                                                      *)
(***************************************************************************)
AcknowledgedWasListed == receipts \subseteq listed

(***************************************************************************)
(* A message to a session, and a broadcast to every session whose row was  *)
(* there when it was stored, comes to be acknowledged by all of them: no   *)
(* start time hides it and no full listing keeps it out.                   *)
(***************************************************************************)
MessagesArrive ==
  \A a \in Agents, i \in 1..MaxMessages :
    i \in DOMAIN messages /\ a \in messages[i].there \ {messages[i].sender}
        /\ messages[i].to \in {a, Everyone}
      ~> <<i, a>> \in receipts
=============================================================================
