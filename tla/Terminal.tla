------------------------------- MODULE Terminal -------------------------------
(***************************************************************************)
(* The terminal of one managed run: the pump that reads the provider's     *)
(* output, the ring that keeps the newest of it, and the clients that      *)
(* attach with a ticket and follow it over a socket (start_output_pump,    *)
(* output, input, issue_ticket and attach of src/src/ide.rs;               *)
(* terminal_socket of src/src/dashboard.rs).                               *)
(*                                                                         *)
(* A chunk is its sequence number and its size.  What ends the run is the  *)
(* business of ManagedRuns.  A broadcast channel keeps the newest CHANNEL  *)
(* chunks for every receiver; one that wants an older chunk is told that   *)
(* it lags and goes on with the oldest that is kept.                       *)
(***************************************************************************)
EXTENDS Integers, SequencesExt

CONSTANTS
  Clients,           \* browser panes
  Sizes,             \* chunk sizes, up to MAX_OUTPUT_CHUNK
  MAX_OUTPUT_BYTES,  \* the ring
  CHANNEL,           \* capacity of the broadcast channel
  MaxChunks          \* bound: chunks the provider writes

ASSUME TerminalAssumption ==
  /\ MAX_OUTPUT_BYTES \in Nat
  /\ Sizes \subseteq 1..MAX_OUTPUT_BYTES
  /\ CHANNEL \in Nat \ {0}
  /\ MaxChunks \in Nat

VARIABLES
  state,    \* running, stopping or over, as the session's status has it
  ring,     \* the chunks kept
  written,  \* next_sequence: the last sequence number given
  panes     \* the clients and their sockets

termVars == <<state, ring, written, panes>>

\* backlog and wants: what is still to come from the snapshot and from the
\* channel; shown: the last chunk sent, and gap: whether a gap was told since.
NoPane == [phase |-> "none", backlog |-> << >>, wants |-> 0, shown |-> 0, gap |-> FALSE]

InitTerminal ==
  /\ state = "running"
  /\ ring = << >>
  /\ written = 0
  /\ panes = [c \in Clients |-> NoPane]

Live == state \in {"running", "stopping"}

Bytes(chunks) == FoldSeq(LAMBDA k, sum : k.size + sum, 0, chunks)

\* The longest newest part that fits.
Kept(chunks) ==
  LET fits == {i \in 1..Len(chunks) + 1 :
                 Bytes(SubSeq(chunks, i, Len(chunks))) <= MAX_OUTPUT_BYTES}
  IN  SubSeq(chunks, CHOOSE i \in fits : \A j \in fits : i <= j, Len(chunks))

\* Appended and sent under the ring's lock; the pump outlives the status.
Pump(size) ==
  /\ written < MaxChunks
  /\ written' = written + 1
  /\ ring' = Kept(Append(ring, [seq |-> written + 1, size |-> size]))
  /\ UNCHANGED <<state, panes>>

Stop ==
  /\ state = "running"
  /\ state' = "stopping"
  /\ UNCHANGED <<ring, written, panes>>

RunEnds ==
  /\ Live
  /\ state' = "over"
  /\ UNCHANGED <<ring, written, panes>>

-----------------------------------------------------------------------------
Becomes(c, pane) ==
  /\ panes' = [panes EXCEPT ![c] = pane]
  /\ UNCHANGED <<state, ring, written>>

\* A ticket names its session and can be asked for whatever the state.
IssueTicket(c) ==
  /\ panes[c].phase = "none"
  /\ Becomes(c, [NoPane EXCEPT !.phase = "ticket"])

\* Its time to live is over, or it was for another session: it is spent all the same.
RefuseAttach(c) ==
  /\ panes[c].phase = "ticket"
  /\ Becomes(c, NoPane)

BugSubscription(last) == last + 2

\* A subscription taken under the ring's lock begins with the next chunk.
Subscription(last) == last + 1

Attach(c) ==
  /\ panes[c].phase = "ticket"
  /\ Becomes(c, [NoPane EXCEPT !.phase = "backlog", !.backlog = ring,
                               !.wants = Subscription(written)])

Sent(pane, seq) == [pane EXCEPT !.shown = seq, !.gap = FALSE]

\* The snapshot, and a status message after it.
SendBacklog(c) ==
  /\ panes[c].phase = "backlog"
  /\ Becomes(c, IF panes[c].backlog = << >> THEN [panes[c] EXCEPT !.phase = "open"]
                ELSE [Sent(panes[c], Head(panes[c].backlog).seq) EXCEPT !.backlog = Tail(@)])

\* The oldest chunk the channel still has.
Oldest == IF written < CHANNEL THEN 1 ELSE written - CHANNEL + 1

Receive(c) ==
  /\ panes[c].phase = "open"
  /\ Oldest <= panes[c].wants /\ panes[c].wants <= written
  /\ Becomes(c, [Sent(panes[c], panes[c].wants) EXCEPT !.wants = @ + 1])

BugAfterLag(pane) == [pane EXCEPT !.wants = written + 1, !.gap = TRUE]

AfterLag(pane) == [pane EXCEPT !.wants = Oldest, !.gap = TRUE]

\* RecvError::Lagged: the client is told of a gap, not how wide it is.
Lag(c) ==
  /\ panes[c].phase = "open"
  /\ panes[c].wants < Oldest
  /\ Becomes(c, AfterLag(panes[c]))

\* A keystroke: input is refused unless the run is running, and the socket goes with it.
Type(c) ==
  /\ panes[c].phase = "open"
  /\ state # "running"
  /\ Becomes(c, NoPane)

\* The lifecycle tick, at most a second late, whatever the channel still holds.
LifecycleTick(c) ==
  /\ panes[c].phase = "open"
  /\ ~Live
  /\ Becomes(c, NoPane)

\* The client closes, or a send to it fails.
Detach(c) ==
  /\ panes[c].phase \in {"backlog", "open"}
  /\ Becomes(c, NoPane)

NextTerminal ==
  \/ \E size \in Sizes : Pump(size)
  \/ Stop \/ RunEnds
  \/ \E c \in Clients :
       \/ IssueTicket(c) \/ RefuseAttach(c) \/ Attach(c) \/ SendBacklog(c)
       \/ Receive(c) \/ Lag(c) \/ Type(c) \/ LifecycleTick(c) \/ Detach(c)

\* A socket's task runs, and its client reads.
FairTerminal ==
  \A c \in Clients :
    WF_termVars(SendBacklog(c)) /\ WF_termVars(Receive(c) \/ Lag(c))

SpecTerminal == InitTerminal /\ [][NextTerminal]_termVars /\ FairTerminal

-----------------------------------------------------------------------------
(***************************************************************************)
(* A client gets every chunk once and in order: after the first it is sent *)
(* the next comes the one that follows, unless a gap was told in between   *)
(* (attach: "already in the backlog and will arrive on the subscription    *)
(* are exactly exclusive").                                                *)
(***************************************************************************)
StreamIsWhole ==
  [][\A c \in Clients :
       panes[c].shown # 0 /\ panes'[c].shown \notin {0, panes[c].shown}
         => \/ panes'[c].shown = panes[c].shown + 1
            \/ panes[c].gap /\ panes'[c].shown > panes[c].shown]_termVars

(***************************************************************************)
(* A client that stays attached to a live run sees its newest output, with *)
(* a gap behind it at worst, however far it fell behind.                   *)
(***************************************************************************)
OutputReachesClients ==
  \A c \in Clients, n \in 1..MaxChunks :
    panes[c].phase = "open" /\ written = n
      ~> panes[c].shown >= n \/ panes[c].phase # "open"
=============================================================================
