----------------------------- MODULE PoolPromise -----------------------------
(***************************************************************************)
(* The slots of SharedTransportConnection implement PooledConnections when *)
(* the pool creates one connection at a time.                              *)
(***************************************************************************)
EXTENDS SharedTransportConnection

\* A slot shows its connection once the readiness event is set.
Shown(s) == IF slot[s].ready THEN slot[s].connection ELSE None

\* Until then, and after it was withdrawn, a connection is closed to callers.
ShownStatus(k) ==
    CASE transport[k] = "probed" -> "open"
      [] transport[k] = "closing" /\ (\E s \in Slot : Shown(s) = k) -> "closing"
      [] OTHER -> "closed"

Promise == INSTANCE PooledConnections WITH
    current <- [s \in Slot |-> Shown(s)],
    holder  <- got,
    status  <- [k \in Conn |-> ShownStatus(k)]

\* The slots keep the promise: whatever the interleaving of openings, probes,
\* closes, deadlines and cancellations, callers see what PooledConnections allows.
KeepsPromise == Promise!PooledSpec

Symmetry == Permutations(Client) \cup Permutations(Slot) \cup Permutations(Conn)
=============================================================================
