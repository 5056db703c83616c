-------------------------- MODULE MCBuildLifecycle --------------------------
(* Small instances of BuildLifecycle; the configurations give the constants. *)
EXTENDS BuildLifecycleInv, TLC

\* Deliveries and configurations are interchangeable (not under liveness).
Interchangeable == Permutations(Runs) \cup Permutations(Names)

\* Enough deliveries for every message: one for the submission, one for each
\* touch of the fleet command, one for each crash.
ASSUME Cardinality(Runs) >= Cardinality(Builds) + MaxFleetOps + MaxCrashes

=============================================================================
