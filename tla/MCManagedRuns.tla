---------------------------- MODULE MCManagedRuns ----------------------------
(***************************************************************************)
(* Instances of ManagedRuns: runs reserve src, and can stray into docs.    *)
(***************************************************************************)
EXTENDS ManagedRuns

CONSTANTS src, docs

AllInSrc == [r \in Runs |-> {src}]
OwnTask  == [r \in Runs |-> r]
=============================================================================
