------------------------------- MODULE Eventhub -------------------------------
(***************************************************************************)
(* Eventhub (clients/eventhub.py): a producer client that is created with  *)
(* the object, shared by its callers, closed by close() and, by the client *)
(* property, created again when somebody asks for it.  An action is what a *)
(* task does from one await to the next.                                   *)
(***************************************************************************)
EXTENDS Tasks

CONSTANT Producer  \* names of EventHubProducerClient objects

ASSUME EventhubAssumption == None \notin Producer

VARIABLES
    pooled,     \* callers reach the client by __getattr__, as the managed client does
    client,      \* _client
    producer,    \* what has become of a producer client
    credential,  \* the credential is not closed
    closeFailed, \* history: a close() of a producer client raised or was cancelled
    pc,          \* the await a task is suspended at
    mine         \* the producer client a task's call is about

vars == <<pooled, client, producer, credential, closeFailed, pc, mine>>

\*   idle      not in a call         batch    create_batch() runs
\*   send      send_batch() runs     closing  the producer's close() runs
\*   credential  the credential's close() runs
PC == {"idle", "batch", "send", "closing", "credential"}

TypeOK ==
    /\ pooled \in BOOLEAN
    /\ client \in Producer \cup {None}
    /\ producer \in [Producer -> {"none", "open", "closed"}]
    /\ credential \in BOOLEAN
    /\ closeFailed \in BOOLEAN
    /\ pc \in [Task -> PC]
    /\ mine \in [Task -> Producer \cup {None}]
    /\ \A t \in Task : mine[t] # None <=> pc[t] \in {"batch", "send", "closing"}

\* __init__() creates the first client.
Init ==
    /\ pooled \in BOOLEAN
    /\ client \in Producer
    /\ producer = [p \in Producer |-> IF p = client THEN "open" ELSE "none"]
    /\ credential = TRUE
    /\ closeFailed = FALSE
    /\ pc = [t \in Task |-> "idle"]
    /\ mine = [t \in Task |-> None]

-----------------------------------------------------------------------------
\* What is left alone by every call: how the object is used.
Goto(t, l, p) ==
    /\ UNCHANGED pooled
    /\ pc' = [pc EXCEPT ![t] = l]
    /\ mine' = [mine EXCEPT ![t] = p]

\* The client property: the client, a new one if there is none.
Property(p) ==
    \/ p = client /\ p # None /\ UNCHANGED <<client, producer>>
    \/ /\ client = None
       /\ p \in Producer /\ producer[p] = "none"
       /\ client' = p
       /\ producer' = [producer EXCEPT ![p] = "open"]

\* Mutant: the managed client goes through the property too.
AttributeOrNew(p) == Property(p)

\* An attribute of the object by __getattr__: None has none of the methods.
Attribute(p) == p = client /\ p # None /\ UNCHANGED <<client, producer>>

Reach(p) == IF pooled THEN Attribute(p) ELSE Property(p)

\* send_event() and its like: create_batch() on the client.
SendEvent(t) ==
    /\ pc[t] = "idle"
    /\ \E p \in Producer : Reach(p) /\ Goto(t, "batch", p)
    /\ UNCHANGED <<credential, closeFailed>>

\* ... and send_batch() on what is the client by then.
BatchCreated(t) ==
    /\ pc[t] = "batch"
    /\ \E p \in Producer : Reach(p) /\ Goto(t, "send", p)
    /\ UNCHANGED <<credential, closeFailed>>

\* send_events_data_batch() has a batch already.
SendBatch(t) ==
    /\ pc[t] = "idle"
    /\ \E p \in Producer : Reach(p) /\ Goto(t, "send", p)
    /\ UNCHANGED <<credential, closeFailed>>

\* The call returns, or raises what the client or an attribute of None raised.
SendOver(t) ==
    /\ pc[t] \in {"batch", "send"}
    /\ Goto(t, "idle", None)
    /\ UNCHANGED <<client, producer, credential, closeFailed>>

\* Mutant: close() begins with the credential.
CloseCredentialFirst(t) ==
    /\ pc[t] = "idle"
    /\ Goto(t, "credential", None)
    /\ UNCHANGED <<client, producer, credential, closeFailed>>

\* close(): first the client, then the credential.
Close(t) ==
    /\ pc[t] = "idle"
    /\ \/ client # None /\ Goto(t, "closing", client)
       \/ client = None /\ Goto(t, "credential", None)
    /\ UNCHANGED <<client, producer, credential, closeFailed>>

\* Mutant: the object keeps its closed client.
ClientKept(t) ==
    /\ pc[t] = "closing"
    /\ producer' = [producer EXCEPT ![mine[t]] = "closed"]
    /\ Goto(t, "credential", None)
    /\ UNCHANGED <<client, credential, closeFailed>>

\* The client is closed, and the object forgets the client it has by now.
ClientClosed(t) ==
    /\ pc[t] = "closing"
    /\ producer' = [producer EXCEPT ![mine[t]] = "closed"]
    /\ client' = None
    /\ Goto(t, "credential", None)
    /\ UNCHANGED <<credential, closeFailed>>

\* The client's close() raises, or the task is cancelled, with the client open still or
\* closed already: the object keeps it, and nothing else is done.
CloseRaises(t) ==
    /\ pc[t] = "closing"
    /\ \/ UNCHANGED producer
       \/ producer' = [producer EXCEPT ![mine[t]] = "closed"]
    /\ closeFailed' = TRUE
    /\ Goto(t, "idle", None)
    /\ UNCHANGED <<client, credential>>

\* Whatever the credential's close() does, the error is only logged.
CredentialClosed(t) ==
    /\ pc[t] = "credential"
    /\ credential' = FALSE
    /\ Goto(t, "idle", None)
    /\ UNCHANGED <<client, producer, closeFailed>>

Next ==
    \E t \in Task :
        \/ SendEvent(t) \/ BatchCreated(t) \/ SendBatch(t) \/ SendOver(t)
        \/ Close(t) \/ ClientClosed(t) \/ CloseRaises(t) \/ CredentialClosed(t)

Spec == Init /\ [][Next]_vars

-----------------------------------------------------------------------------
(* Properties *)

\* The client that callers reach is not closed: whichever of several close() calls
\* ends last, and whatever was created between them, no closed client is kept.  Once
\* a close() raised or was cancelled the object may well keep one (eventhub.py:113-115).
ClientIsOpen == ~closeFailed /\ client # None => producer[client] = "open"

\* In the pool, an open producer client is the client of the object or one that a
\* task closes: two close() calls and the sends between them leave no client open
\* that nobody can close.
NoClientLeak ==
    pooled => \A p \in Producer : producer[p] = "open"
                  => client = p \/ \E t \in Task : pc[t] = "closing" /\ mine[t] = p

\* In the pool, the credential is closed after the client that uses it.
CredentialOutlivesClient ==
    pooled /\ ~credential => \A p \in Producer : producer[p] # "open"
=============================================================================
