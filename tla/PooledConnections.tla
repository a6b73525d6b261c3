-------------------------- MODULE PooledConnections --------------------------
(***************************************************************************)
(* What the pool promises to its callers, without locks, events, permits   *)
(* or deadlines: a slot shows at most one connection at a time, one that   *)
(* has passed its readiness probe; callers are handed what a slot shows;   *)
(* a slot shows another connection only when the former one is closed.     *)
(* A connection may be closed while callers hold it (expire_conn() and     *)
(* closeall() do that), and may be handed out while its close() runs.      *)
(***************************************************************************)
EXTENDS Naturals, FiniteSets

CONSTANTS
    Client,  \* tasks that call the pool
    Slot,    \* slots of the pool
    Conn,    \* names of underlying connections
    None     \* Python's None

VARIABLES
    current,  \* the connection a slot shows
    holder,   \* the connection a caller has been handed
    status    \* what has become of a connection

poolState == <<current, holder, status>>

Status == {"closed", "open", "closing"}

PooledTypeOK ==
    /\ current \in [Slot -> Conn \cup {None}]
    /\ holder \in [Client -> Conn \cup {None}]
    /\ status \in [Conn -> Status]

PooledInit ==
    /\ current = [s \in Slot |-> None]
    /\ holder = [c \in Client |-> None]
    /\ status = [k \in Conn |-> "closed"]

\* No slot shows k and no caller holds it: a new connection may take the name.
Unused(k) ==
    /\ status[k] = "closed"
    /\ \A s \in Slot : current[s] # k
    /\ \A c \in Client : holder[c] # k

\* A connection passes its probe, possibly one whose close() was cancelled before.
Open(s, k) ==
    /\ current[s] = None
    /\ Unused(k)
    /\ current' = [current EXCEPT ![s] = k]
    /\ \E st \in {"open", "closing"} : status' = [status EXCEPT ![k] = st]
    /\ UNCHANGED holder

\* checkout() returns the slot's connection to c.
Take(c, s) ==
    /\ holder[c] = None
    /\ current[s] # None
    /\ holder' = [holder EXCEPT ![c] = current[s]]
    /\ UNCHANGED <<current, status>>

GiveBack(c) ==
    /\ holder[c] # None
    /\ holder' = [holder EXCEPT ![c] = None]
    /\ UNCHANGED <<current, status>>

StartClose(s) ==
    /\ current[s] # None
    /\ status' = [status EXCEPT ![current[s]] = "closing"]
    /\ UNCHANGED <<current, holder>>

\* The close of a slot's connection ends; who asked for it may leave with it.
EndClose(s) ==
    /\ current[s] # None
    /\ status[current[s]] = "closing"
    /\ status' = [status EXCEPT ![current[s]] = "closed"]
    /\ current' = [current EXCEPT ![s] = None]
    /\ \/ UNCHANGED holder
       \/ \E c \in Client : holder' = [holder EXCEPT ![c] = None]

PooledNext ==
    \/ \E s \in Slot : StartClose(s) \/ EndClose(s)
    \/ \E s \in Slot, k \in Conn : Open(s, k)
    \/ \E c \in Client : GiveBack(c) \/ \E s \in Slot : Take(c, s)

PooledSpec == PooledInit /\ [][PooledNext]_poolState
=============================================================================
