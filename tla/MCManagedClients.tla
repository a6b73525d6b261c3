--------------------------- MODULE MCManagedClients ---------------------------
(* Instances of ManagedClients for TLC. *)
EXTENDS ManagedClients, TLC

Symmetry == Permutations(Client) \cup Permutations(Slot) \cup Permutations(Conn)
=============================================================================
