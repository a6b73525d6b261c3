---------------------- MODULE MCCosmosConnectionManager ----------------------
(* Instances of CosmosConnectionManager for TLC. *)
EXTENDS CosmosConnectionManager, TLC

\* Tasks that close and tasks that do not are not interchangeable.
Symmetry ==
    {f \in Permutations(Task) : \A t \in Task : t \in Closer <=> f[t] \in Closer}
    \cup Permutations(Name)
=============================================================================
