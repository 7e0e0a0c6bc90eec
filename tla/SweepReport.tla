----------------------------- MODULE SweepReport -----------------------------
(***************************************************************************)
(* What one sweep of the watcher says of the repository: live_checkouts    *)
(* (src/src/store.rs), watch_pass, Observation and coverage_gap            *)
(* (src/src/main.rs).  What a sweep does to the store is in Convergence;   *)
(* here is what its answer leaves out.                                     *)
(***************************************************************************)
EXTENDS Naturals, FiniteSets

CONSTANTS
  Sessions,    \* rows of the agents table
  Checkouts,   \* working copies
  Primary      \* the main worktree, which git lists first

ASSUME SweepReportAssumption == Primary \in Checkouts /\ IsFiniteSet(Checkouts)

NoSession == [at |-> {}, alive |-> FALSE]

\* A running row: its checkout, and whether its pid still is.
SessionRow == {NoSession} \cup [at : {{c} : c \in Checkouts}, alive : BOOLEAN]

\* What a sweep meets: rows, the checkouts there are, git's answers, the scans.
Sweep ==
  [rows  : [Sessions -> SessionRow],
   known : {k \in SUBSET Checkouts : Primary \in k},
   lists : BOOLEAN,                                        \* git worktree list works
   scans : [Checkouts -> {"scanned", "failed", "lost"}]]

LiveSessions(s) == {a \in Sessions : s.rows[a].alive}

Grouped(s) == UNION {s.rows[a].at : a \in LiveSessions(s)}

Scanned(s) == {c \in Grouped(s) : s.scans[c] = "scanned"}

\* The sessions whose footprints the sweep publishes.
SweptSessions(s) == {a \in LiveSessions(s) : s.rows[a].at \subseteq Scanned(s)}

BugObservedCheckouts(s) == Cardinality(SweptSessions(s))

ObservedCheckouts(s) == Cardinality(Scanned(s))

\* Observation::of
Observation(checkouts, observed) ==
  CASE checkouts = 0         -> "idle"
    [] checkouts > 0 /\ observed = 0 -> "blind"
    [] checkouts > 0 /\ observed >= checkouts -> "complete"
    [] OTHER                 -> "partial"

BugSkipped(s) == {c \in Grouped(s) : s.scans[c] = "failed"}

\* A scan that failed, and one whose worker never reported back.
Skipped(s) == Grouped(s) \ Scanned(s)

\* The main worktree is where a watcher runs: no gap, once anything is watched.
Gap(known, watched, anything) ==
  {c \in known \ watched : ~(anything /\ c = Primary)}

Known(s) == IF s.lists THEN s.known ELSE {}

\* coverage_gap
Unwatched(s) == Gap(Known(s), Grouped(s), Grouped(s) # {})

\* watch_pass: whether the stored rows are asked, and dated when nothing was seen.
Report(s) ==
  [observation |-> Observation(Cardinality(Grouped(s)), ObservedCheckouts(s)),
   skipped     |-> Skipped(s),
   uncovered   |-> ~s.lists,
   unwatched   |-> Unwatched(s),
   asked       |-> LiveSessions(s) # {}]
=============================================================================
