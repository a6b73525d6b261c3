-------------------------- MODULE MCConnectionPool --------------------------
(* Instances of ConnectionPool for TLC. *)
EXTENDS ConnectionPool

Symmetry == Permutations(Client) \cup Permutations(Slot) \cup Permutations(Conn)
=============================================================================
