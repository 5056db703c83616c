-------------------------- MODULE MCUpstreamMirror --------------------------
(* Small instances of UpstreamMirror. *)
EXTENDS UpstreamMirror, FiniteSets

\* Two rows with objects of their own, or with a common one.
OwnKeys == [i \in Images |-> i]
CommonKey == [i \in Images |-> "common"]

\* Enough jobs for every message and command, one killed job included.
ASSUME Cardinality(Jobs) >= MaxSyncs + MaxCommands + MaxCrashes

=============================================================================
