--------------------- MODULE MCSharedTransportConnection ---------------------
(* Instances of SharedTransportConnection for TLC: tasks, slots and names of *)
(* connections are interchangeable.                                          *)
EXTENDS SharedTransportConnection

Symmetry == Permutations(Client) \cup Permutations(Slot) \cup Permutations(Conn)
=============================================================================
