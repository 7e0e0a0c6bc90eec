---------------------------- MODULE MCSweepReport ----------------------------
(***************************************************************************)
(* The report of one sweep over every small fleet: shared checkouts, dead  *)
(* sessions, checkouts nobody joined, checkouts git does not list, and     *)
(* every outcome of every scan.                                            *)
(***************************************************************************)
EXTENDS SweepReport

VARIABLE sweep   \* the sweep under test, one at most

InitSweep == sweep = {}

AskSweep ==
  /\ sweep = {}
  /\ \E s \in Sweep : sweep' = {s}

SpecSweep == InitSweep /\ [][AskSweep]_sweep

Mentioned(r) == r.skipped \cup r.unwatched

(***************************************************************************)
(* "Account for every checkout or say why not" (watch_pass): each checkout *)
(* of the repository or of a live session is scanned by the sweep, named   *)
(* in its report, or covered by the note that git could not list them; the *)
(* main worktree alone may go unnamed, and not when nothing is watched.    *)
(* And a report labelled complete or idle skipped nothing, so recalled     *)
(* rows are never handed over as observed ones.                            *)
(***************************************************************************)
NothingGoesUnsaid ==
  \A s \in sweep :
    LET r == Report(s)
    IN  /\ \A c \in s.known \cup Grouped(s) :
             \/ c \in Scanned(s) \cup Mentioned(r)
             \/ r.uncovered
             \/ c = Primary /\ r.asked
        /\ r.observation \in {"complete", "idle"} => r.skipped = {}
        /\ r.observation \in {"partial", "blind"} => r.skipped # {} /\ r.asked
=============================================================================
