--------------------------- MODULE MCProvisioning ---------------------------
(* Small instances of Provisioning. *)
EXTENDS Provisioning, TLC

Interchangeable ==
  Permutations(Bakes) \cup Permutations(Processes) \cup Permutations(Devices)

=============================================================================
