------------------------------- MODULE MergeGate -------------------------------
(***************************************************************************)
(* Landing work: the merge verdict a session asks for, the integration     *)
(* lease it takes, the merge it then makes, and what the dashboard says of *)
(* the queue (merge_readiness, symbol_breaks and workspace_convergence of  *)
(* src/src/store.rs; the mergeable and integrate commands and tools).      *)
(*                                                                         *)
(* A verdict is put together from statements outside any transaction, each *)
(* of which sees the database of its own moment, against a head resolved   *)
(* before the first.  How rows come to be what a checkout holds is         *)
(* Convergence's subject; here a row is what was published last, and two   *)
(* checkouts contest a file when they rewrite one region of it.            *)
(*                                                                         *)
(* A session is not its row: it goes on when its row is stopped or taken   *)
(* for dead, and a session that crashed is one that takes no more steps.   *)
(***************************************************************************)
EXTENDS Integers, FiniteSets, SequencesExt

CONSTANTS
  Agents,             \* agent ids, in the order the database sorts them
  NoAgent,            \* the holder of a lease nobody took
  Home,               \* the checkout of each session
  Regions,            \* regions of repository files
  File,               \* the file each region is in
  Symbols,            \* exported names, in the order the database sorts them
  Work,               \* what each checkout may have changed
  Askers,             \* the sessions that merge
  MAX_SYMBOL_BREAKS,  \* the cap on a break report
  LeaseLength,        \* lease_seconds
  MaxTime,            \* bound: the clock stops here
  MaxMerges           \* bound: merges made, approvals included

\* Regions rewritten, exports withdrawn, names used, and whether those are all of them.
Changes == [edits : SUBSET Regions, removed : SUBSET Symbols,
            uses : SUBSET Symbols, truncated : BOOLEAN]

Nothing == [edits |-> {}, removed |-> {}, uses |-> {}, truncated |-> FALSE]

ASSUME MergeGateAssumption ==
  /\ Agents \subseteq Nat /\ IsFiniteSet(Agents)
  /\ NoAgent \notin Agents
  /\ Symbols \subseteq Nat /\ IsFiniteSet(Symbols)
  /\ Work \in [Agents -> SUBSET Changes]
  /\ Askers \subseteq Agents
  /\ MAX_SYMBOL_BREAKS \in Nat \ {0}
  /\ LeaseLength \in Nat \ {0}
  /\ MaxTime \in Nat
  /\ MaxMerges \in Nat

VARIABLES
  clock,    \* the clock lease times are read from
  running,  \* sessions whose row says running
  rows,     \* footprint and symbol rows, and the commit they are against
  head,     \* the integration branch, as the number of merges in it
  strays,   \* those made by somebody who was not the lease's owner then
  lease,    \* the claim on INTEGRATION_TASK_KEY
  hold,     \* until when a session was told it holds the lease
  ask       \* the verdict each session is being given, or was given last

vars == <<clock, running, rows, head, strays, lease, hold, ask>>

NoBase == -1

\* phase: the next statement to run, or the merge on a verdict; blocked: a
\* blocker was found; lasting: what has stood in the way at every moment since
\* the first statement; inside: asked for by the lease's owner, who has neither
\* lost it nor been taken for dead since; strays: those there were then.
NoAsk == [phase |-> "none", now |-> 0, head |-> 0, blocked |-> FALSE,
          lasting |-> {}, inside |-> FALSE, strays |-> 0]

NoLease == [holder |-> NoAgent, expires |-> 0]

Init ==
  /\ clock = 0
  /\ running = Agents
  /\ rows = [a \in Agents |-> [base |-> NoBase, work |-> Nothing, at |-> 0]]
  /\ head = 0
  /\ strays = 0
  /\ lease = NoLease
  /\ hold = [a \in Agents |-> 0]
  /\ ask = [a \in Agents |-> NoAsk]

-----------------------------------------------------------------------------
(***************************************************************************)
(* symbol_breaks: <<symbol, user, remover>> for a name one checkout        *)
(* withdraws and another mentions, or may mention as its list was cut.     *)
(***************************************************************************)
Uses(a, s) == s \in rows[a].work.uses \/ rows[a].work.truncated

Breaks ==
  {k \in Symbols \X Agents \X Agents :
     /\ k[1] \in rows[k[3]].work.removed
     /\ Uses(k[2], k[1])
     /\ Home[k[2]] # Home[k[3]]}

\* ORDER BY symbol, user LIMIT
Before(k, l) ==
  \/ k[1] < l[1]
  \/ k[1] = l[1] /\ k[2] < l[2]
  \/ k[1] = l[1] /\ k[2] = l[2] /\ k[3] < l[3]

Capped(found) ==
  {k \in found : Cardinality({l \in found : Before(l, k)}) < MAX_SYMBOL_BREAKS}

Truncated(found) == Cardinality(found) > MAX_SYMBOL_BREAKS

BugSymbolBlockers(a) == {k \in Capped({l \in Breaks : l[3] = a}) : k[2] \in running}

\* The asker's own breaks of live peers: narrowed inside the query, so before the cap.
SymbolBlockers(a) == Capped({k \in Breaks : k[3] = a /\ k[2] \in running})

-----------------------------------------------------------------------------
(***************************************************************************)
(* The other statements of merge_readiness.                                *)
(***************************************************************************)
Touches(a, f) == \E r \in rows[a].work.edits : File[r] = f

\* workspace_collisions: one voice per checkout and file, the row observed last.
Speaks(a, f) ==
  \A b \in Agents \ {a} : Home[b] = Home[a] /\ Touches(b, f) =>
    rows[b].at < rows[a].at \/ (rows[b].at = rows[a].at /\ a < b)

Contest(a, b) ==
  \E r \in rows[a].work.edits \cap rows[b].work.edits : Speaks(a, File[r]) /\ Speaks(b, File[r])

\* Pairs, not paths; live peers only; an asker that does not speak has no peer.
ContestingPeers(a) == {b \in running \ {a} : Contest(a, b)}

LeaseLive(now) == lease.holder # NoAgent /\ lease.expires > now

HeldByOther(a, now) == LeaseLive(now) /\ lease.holder # a

Unsynced(a) == rows[a].base = NoBase

Owns(a) == LeaseLive(clock) /\ lease.holder = a

Stale(a, seen) == rows[a].base \notin {NoBase, seen}

-----------------------------------------------------------------------------
(***************************************************************************)
(* What stands in the way of a at this moment, with no cap: the reference  *)
(* the verdicts are held against.                                          *)
(***************************************************************************)
Obstacles == {"unsynced", "stale", "contested", "in use", "held"} \X (Agents \cup {NoAgent})

InTheWay(a, seen) ==
  {k \in Obstacles :
     CASE k[1] = "unsynced"  -> k[2] = NoAgent /\ Unsynced(a)
       [] k[1] = "stale"     -> k[2] = NoAgent /\ Stale(a, seen)
       [] k[1] = "contested" -> k[2] \in ContestingPeers(a)
       [] k[1] = "in use"    -> \E l \in Breaks : l[3] = a /\ l[2] = k[2] /\ k[2] \in running
       [] k[1] = "held"      -> k[2] = lease.holder /\ HeldByOther(a, clock)}

Asking(a) == ask[a].phase \in {"base", "paths", "symbols", "lease"}

Holding(a) == hold[a] > clock

\* ask' is the change of the step, narrowed by the state it leaves: what lasted
\* to what stands in the way, and inside to a lease that still runs.
Recalling(changed) ==
  ask' = [a \in Agents |->
            [changed[a] EXCEPT
               !.inside = @ /\ Holding(a),
               !.lasting = IF Asking(a) THEN @ \cap InTheWay(a, ask[a].head) ELSE @]]

-----------------------------------------------------------------------------
(***************************************************************************)
(* Sessions, their checkouts and the lease.                                *)
(***************************************************************************)
Publish(a, w, base, at) ==
  /\ rows' = [rows EXCEPT ![a] = [base |-> IF w = Nothing THEN NoBase ELSE base,
                                  work |-> w, at |-> at]]
  /\ UNCHANGED <<clock, running, head, strays, lease, hold>>
  /\ Recalling(ask)

\* The row ends, and its claims with it.
EndRow(a) ==
  /\ a \in running
  /\ running' = running \ {a}
  /\ lease' = IF lease.holder = a THEN NoLease ELSE lease

\* A session that ends in good order.
StopAgent(a) ==
  /\ EndRow(a)
  /\ hold' = [hold EXCEPT ![a] = 0]
  /\ UNCHANGED <<clock, rows, head, strays>>
  /\ Recalling([ask EXCEPT ![a] = NoAsk])

\* collect_stale takes a session for dead (its pid is gone or not its own, or
\* it was silent past ABANDONED_AFTER_MS), or somebody stops it: it is not told.
Bury(a) ==
  /\ EndRow(a)
  /\ UNCHANGED <<clock, rows, head, strays, hold>>
  /\ Recalling([ask EXCEPT ![a].inside = FALSE])

\* A heartbeat sets any row running again.
Heartbeat(a) ==
  /\ a \notin running
  /\ running' = running \cup {a}
  /\ UNCHANGED <<clock, rows, head, strays, lease, hold>>
  /\ Recalling(ask)

BugMayTake(a) == TRUE

\* claim: a live lease is its holder's only, and renewed by him.
MayTake(a) == ~HeldByOther(a, clock)

\* It asks for the row of the session, not for its status.
Acquire(a) ==
  /\ MayTake(a)
  /\ lease' = [holder |-> a, expires |-> clock + LeaseLength]
  /\ hold' = [hold EXCEPT ![a] = clock + LeaseLength]
  /\ UNCHANGED <<clock, running, rows, head, strays>>
  /\ Recalling(ask)

\* release deletes the caller's row, if it is still the caller's.
Release(a) ==
  /\ hold[a] # 0
  /\ lease' = IF lease.holder = a THEN NoLease ELSE lease
  /\ hold' = [hold EXCEPT ![a] = 0]
  /\ UNCHANGED <<clock, running, rows, head, strays>>
  /\ Recalling(ask)

Tick ==
  /\ clock < MaxTime
  /\ clock' = clock + 1
  /\ UNCHANGED <<running, rows, head, strays, lease, hold>>
  /\ Recalling(ask)

-----------------------------------------------------------------------------
(***************************************************************************)
(* Asking for the verdict: the head is resolved and the clock read, then   *)
(* four statements.                                                        *)
(***************************************************************************)
Ask(a) ==
  /\ ~Asking(a)
  /\ Recalling([ask EXCEPT ![a] =
       [phase |-> "base", now |-> clock, head |-> head, blocked |-> FALSE,
        lasting |-> InTheWay(a, head), inside |-> Owns(a), strays |-> strays]])
  /\ UNCHANGED <<clock, running, rows, head, strays, lease, hold>>

Looks(a, phase, next, blocks) ==
  /\ ask[a].phase = phase
  /\ Recalling([ask EXCEPT ![a].phase = next, ![a].blocked = @ \/ blocks])
  /\ UNCHANGED <<clock, running, rows, head, strays, lease, hold>>

\* never_synced and stale_base; a checkout without a change has no row to tell it from one.
BaseBlocks(a) == Unsynced(a) \/ Stale(a, ask[a].head)

LookAtBase(a) == Looks(a, "base", "paths", BaseBlocks(a))

LookAtPaths(a) == Looks(a, "paths", "symbols", ContestingPeers(a) # {})

LookAtSymbols(a) == Looks(a, "symbols", "lease", SymbolBlockers(a) # {})

LookAtLease(a) == Looks(a, "lease", "done", HeldByOther(a, ask[a].now))

(***************************************************************************)
(* The client's part: "call mergeable and resolve every blocker, then hold *)
(* the integration lease for the merge itself" (src/src/mcp.rs).  It does  *)
(* not begin to merge past the expiry the claim told it; a merge takes its *)
(* time, and one that fails is asked about again.                          *)
(***************************************************************************)
BeginMerge(a) ==
  /\ ask[a].phase = "done"
  /\ ~ask[a].blocked
  /\ Holding(a)
  /\ Recalling([ask EXCEPT ![a].phase = "merging"])
  /\ UNCHANGED <<clock, running, rows, head, strays, lease, hold>>

Land(a) ==
  /\ ask[a].phase = "merging"
  /\ head < MaxMerges
  /\ head' = head + 1
  /\ strays' = IF Owns(a) THEN strays ELSE strays + 1
  /\ UNCHANGED <<clock, running, rows, lease, hold>>
  /\ Recalling([ask EXCEPT ![a] = NoAsk])

\* The dashboard's approve merges into the same branch without a look at the lease.
Approve ==
  /\ head < MaxMerges
  /\ head' = head + 1
  /\ strays' = strays + 1
  /\ UNCHANGED <<clock, running, rows, lease, hold>>
  /\ Recalling(ask)

Next ==
  \/ Tick
  \/ Approve
  \/ \E a \in Agents :
       \/ \E w \in Work[a], base \in 0..head, at \in 0..clock : Publish(a, w, base, at)
       \/ StopAgent(a) \/ Bury(a) \/ Heartbeat(a)
  \/ \E a \in Askers :
       \/ Acquire(a) \/ Release(a)
       \/ Ask(a) \/ LookAtBase(a) \/ LookAtPaths(a) \/ LookAtSymbols(a) \/ LookAtLease(a)
       \/ BeginMerge(a) \/ Land(a)

Spec == Init /\ [][Next]_vars

-----------------------------------------------------------------------------
(***************************************************************************)
(* convergence_blocked: who cannot merge, as the dashboard shows it, from  *)
(* the workspace's capped breaks.                                          *)
(***************************************************************************)
BugBlocked ==
  {a \in running : ContestingPeers(a) # {}} \cup {k[2] : k \in Capped(Breaks)}

Blocked ==
  {a \in running : ContestingPeers(a) # {}}
    \cup {k[3] : k \in {l \in Capped(Breaks) : {l[2], l[3]} \subseteq running}}

-----------------------------------------------------------------------------
(***************************************************************************)
(* Properties                                                              *)
(***************************************************************************)

Verdict == [phase : {"none", "base", "paths", "symbols", "lease", "done", "merging"}, now : Nat,
            head : Nat, blocked : BOOLEAN, lasting : SUBSET Obstacles, inside : BOOLEAN,
            strays : Nat]

\* The tables keep their columns and a verdict goes through its statements.
TypeOK ==
  /\ clock \in Nat
  /\ head \in Nat
  /\ strays \in Nat
  /\ running \subseteq Agents
  /\ rows \in [Agents -> [base : Nat \cup {NoBase}, work : Changes, at : Nat]]
  /\ lease \in [holder : Agents \cup {NoAgent}, expires : Nat]
  /\ hold \in [Agents -> Nat]
  /\ ask \in [Agents -> Verdict]

\* The owner of the lease was told so, and how long.
OwnerKnows == lease.holder # NoAgent => hold[lease.holder] = lease.expires

\* A verdict that counts as asked for under the lease is its owner's still, and
\* about today's head but for the merges made without the lease.
InsideIsCurrent ==
  \A a \in Agents : ask[a].inside /\ Holding(a) =>
    /\ lease.holder = a
    /\ head - ask[a].head = strays - ask[a].strays

(***************************************************************************)
(* A verdict of mergeable is never given over something that was in the    *)
(* way at every moment of the asking, whatever happened between its        *)
(* statements and however many breaks others have: "a peer with many       *)
(* breaks of its own cannot push a real blocker out of the window"         *)
(* (docs/protocol.md).                                                     *)
(***************************************************************************)
LastingBlockersBlock ==
  \A a \in Agents : ask[a].phase = "done" /\ ask[a].lasting # {} => ask[a].blocked

(***************************************************************************)
(* What the integration lease gives its owner: when he asks for a verdict, *)
(* merges and lands in the time he was told, and no garbage collection     *)
(* takes him for dead, then all that came onto the branch since the head   *)
(* he was judged against was merged without owning the lease: approved in  *)
(* the dashboard, or landed by a session that lost it while merging.       *)
(***************************************************************************)
MergesLandWhereJudged ==
  [][\A a \in Agents : Land(a) /\ ask[a].inside /\ Holding(a)
        => head - ask[a].head = strays - ask[a].strays]_vars

(***************************************************************************)
(* The dashboard blocks exactly the live sessions the gate would turn away *)
(* for a path or a symbol, as long as no break was left out of its list.   *)
(***************************************************************************)
DashboardAgrees ==
  ~Truncated(Breaks) =>
    \A a \in running : a \in Blocked <=> ContestingPeers(a) # {} \/ SymbolBlockers(a) # {}
=============================================================================
