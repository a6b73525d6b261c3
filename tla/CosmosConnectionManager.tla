----------------------- MODULE CosmosConnectionManager -----------------------
(***************************************************************************)
(* ConnectionManager (clients/cosmos.py): one Cosmos client with its       *)
(* credential, created for the first task that enters, shared by all and   *)
(* recycled when it is past its lifespan or by Cosmos.close().  An action  *)
(* is what a task does from one await to the next; nothing is locked.      *)
(***************************************************************************)
EXTENDS Tasks

VARIABLES
    cosmosClient,      \* _client, and with it _database and _container
    cosmosCredential,  \* _credential
    lifespan,          \* lifespan_enabled
    fails,             \* whether CosmosClient() may raise, fixed from the start
    age,               \* _client_lifespan_started: not set, recent, too long ago
    clients,           \* what has become of a client
    credentials,       \* what has become of its credential
    place,             \* the await a task is suspended at
    goal,              \* what a task recycles for
    victim,            \* the client or credential whose close() it awaits
    held               \* the client whose container a task uses

settings   == <<lifespan, fails>>
manager    == <<cosmosClient, cosmosCredential, settings, age>>
remotes    == <<clients, credentials>>
tasks      == <<place, goal, victim, held>>
cosmosVars == <<manager, remotes, tasks>>

\*   out   not in the manager   closeClient, closeCredential  in recycle_container()
\*   inside  in the body of `async with`
Place       == {"out", "closeClient", "closeCredential", "inside"}
Goal        == {"enter", "exit", "close"}
RemoteState == {"closed", "open", "closing"}

CosmosTypeOK ==
    /\ cosmosClient \in Name \cup {None}
    /\ cosmosCredential \in Name \cup {None}
    /\ lifespan \in BOOLEAN /\ fails \in BOOLEAN
    /\ age \in {"none", "within", "over"}
    /\ clients \in [Name -> RemoteState]
    /\ credentials \in [Name -> RemoteState]
    /\ place \in [Task -> Place]
    /\ goal \in [Task -> Goal \cup {None}]
    /\ victim \in [Task -> Name \cup {None}]
    /\ held \in [Task -> Name \cup {None}]
    /\ \A t \in Task : /\ place[t] = "inside" => held[t] # None
                       /\ place[t] \in {"closeClient", "closeCredential"} => victim[t] # None

CosmosInit ==
    /\ cosmosClient = None /\ cosmosCredential = None /\ age = "none"
    /\ lifespan \in BOOLEAN /\ fails \in BOOLEAN
    /\ clients = [k \in Name |-> "closed"]
    /\ credentials = [k \in Name |-> "closed"]
    /\ place = [t \in Task |-> "out"]
    /\ goal = [t \in Task |-> None]
    /\ victim = [t \in Task |-> None]
    /\ held = [t \in Task |-> None]

-----------------------------------------------------------------------------
IsContainerClosed == cosmosClient = None

ShouldRecycle == IsContainerClosed \/ (lifespan /\ age = "over")

\* Nothing refers to the name k: a new client may take it.
FreshClient(k) ==
    /\ cosmosClient # k /\ cosmosCredential # k
    /\ \A t \in Task : victim[t] # k /\ held[t] # k

\* Task t awaits at l the close() of v, on behalf of g.
Await(t, l, v, g) ==
    /\ place' = [place EXCEPT ![t] = l]
    /\ victim' = [victim EXCEPT ![t] = v]
    /\ goal' = [goal EXCEPT ![t] = g]

\* The last lines of get_container_client() after a recycling: t is handed the
\* container of a new client, or CosmosClient() raises and leaves a credential.
Create(t, cl, cr) ==
    \E k \in Name :
        /\ FreshClient(k)
        /\ cosmosCredential' = k
        /\ credentials' = [cr EXCEPT ![k] = "open"]
        /\ UNCHANGED settings
        /\ \/ /\ cosmosClient' = k
              /\ clients' = [cl EXCEPT ![k] = "open"]
              /\ age' = "within"
              /\ held' = [held EXCEPT ![t] = k]
              /\ Await(t, "inside", None, None)
           \/ /\ fails
              /\ cosmosClient' = None
              /\ clients' = cl
              /\ Await(t, "out", None, None)
              /\ UNCHANGED <<age, held>>

\* Mutant: recycle_container() does not reset the client.
AfterRecycleKept(t, g, cl, cr) ==
    IF g = "enter" /\ cosmosClient = None THEN Create(t, cl, cr)
    ELSE /\ Await(t, IF g = "enter" THEN "inside" ELSE "out", None, None)
         /\ held' = [held EXCEPT ![t] = IF g = "enter" THEN cosmosClient ELSE None]
         /\ clients' = cl /\ credentials' = cr
         /\ UNCHANGED manager

\* recycle_container() resets the manager, and its caller goes on: the remote ends
\* are as cl and cr say by then.
AfterRecycle(t, g, cl, cr) ==
    \/ g = "enter" /\ Create(t, cl, cr)
    \/ /\ g # "enter"
       /\ cosmosClient' = None /\ cosmosCredential' = None
       /\ clients' = cl /\ credentials' = cr
       /\ Await(t, "out", None, None)
       /\ held' = [held EXCEPT ![t] = None]
       /\ UNCHANGED <<settings, age>>

\* Mutant: the client is reset before the credential's close() is awaited.
RecycleResetsFirst(t, g, cl) ==
    \/ /\ cosmosCredential # None
       /\ credentials' = [credentials EXCEPT ![cosmosCredential] = "closing"]
       /\ clients' = cl
       /\ cosmosClient' = None
       /\ Await(t, "closeCredential", cosmosCredential, g)
       /\ UNCHANGED <<cosmosCredential, settings, age, held>>
    \/ /\ cosmosCredential = None
       /\ AfterRecycle(t, g, cl, credentials)

\* recycle_container() from the credential on: what the manager has by now.
RecycleCredential(t, g, cl) ==
    \/ /\ cosmosCredential # None
       /\ credentials' = [credentials EXCEPT ![cosmosCredential] = "closing"]
       /\ clients' = cl
       /\ Await(t, "closeCredential", cosmosCredential, g)
       /\ UNCHANGED <<manager, held>>
    \/ /\ cosmosCredential = None
       /\ AfterRecycle(t, g, cl, credentials)

\* Mutant: the credential is closed before the client.
RecycleCredentialFirst(t, g) == RecycleCredential(t, g, clients)

\* recycle_container() up to its first await.
Recycle(t, g) ==
    \/ /\ cosmosClient # None
       /\ clients' = [clients EXCEPT ![cosmosClient] = "closing"]
       /\ Await(t, "closeClient", cosmosClient, g)
       /\ UNCHANGED <<manager, credentials, held>>
    \/ /\ cosmosClient = None
       /\ RecycleCredential(t, g, clients)

\* __aenter__(): get_container_client().
Enter(t) ==
    /\ place[t] = "out"
    /\ \/ ShouldRecycle /\ Recycle(t, "enter")
       \/ /\ ~ShouldRecycle
          /\ held' = [held EXCEPT ![t] = cosmosClient]
          /\ place' = [place EXCEPT ![t] = "inside"]
          /\ UNCHANGED <<manager, remotes, goal, victim>>

\* __aexit__()
Exit(t) ==
    /\ place[t] = "inside"
    /\ \/ ShouldRecycle /\ Recycle(t, "exit")
       \/ /\ ~ShouldRecycle
          /\ place' = [place EXCEPT ![t] = "out"]
          /\ held' = [held EXCEPT ![t] = None]
          /\ UNCHANGED <<manager, remotes, goal, victim>>

\* Cosmos.close(); a Cosmos object has a manager without a lifespan.
CosmosClose(t) ==
    /\ t \in Closer
    /\ ~lifespan
    /\ place[t] = "out"
    /\ Recycle(t, "close")

\* The client's close() returns, and recycle_container() goes on.
CosmosClientClosed(t) ==
    /\ place[t] = "closeClient"
    /\ RecycleCredential(t, goal[t], [clients EXCEPT ![victim[t]] = "closed"])

\* The credential's close() returns, or raises, which is logged.
CosmosCredentialClosed(t) ==
    /\ place[t] = "closeCredential"
    /\ AfterRecycle(t, goal[t], clients, [credentials EXCEPT ![victim[t]] = "closed"])

\* The client's close() raises or t is cancelled: the manager is not reset.
RecycleAborts(t) ==
    /\ place[t] \in {"closeClient", "closeCredential"}
    /\ Await(t, "out", None, None)
    /\ held' = [held EXCEPT ![t] = None]
    /\ UNCHANGED <<manager, remotes>>

\* The client grows older than client_lifespan_seconds.
AgePasses ==
    /\ age = "within"
    /\ age' = "over"
    /\ UNCHANGED <<cosmosClient, cosmosCredential, settings, remotes, tasks>>

CosmosNext ==
    \/ \E t \in Task : \/ Enter(t) \/ Exit(t) \/ CosmosClose(t)
                       \/ CosmosClientClosed(t) \/ CosmosCredentialClosed(t) \/ RecycleAborts(t)
    \/ AgePasses

CosmosSpec == CosmosInit /\ [][CosmosNext]_cosmosVars

-----------------------------------------------------------------------------
(* Properties *)

\* How Cosmos uses the manager, with one task that closes, and CosmosClient() does not
\* raise.
Steady == ~lifespan /\ ~fails /\ \A t, u \in Closer : t = u

\* A client or a credential that is not closed is the manager's, or a task closes
\* it: closing while others enter and leave strands neither.  With more than one task
\* that closes, with a lifespan, or when CosmosClient() raises, this is not so.
NothingLeaks ==
    Steady => \A k \in Name :
        /\ clients[k] # "closed" =>
             cosmosClient = k \/ \E t \in Task : place[t] = "closeClient" /\ victim[t] = k
        /\ credentials[k] # "closed" =>
             cosmosCredential = k \/ \E t \in Task : place[t] = "closeCredential" /\ victim[t] = k

\* There too, a client is closed before the credential it authenticates with.
CosmosCredentialOutlives ==
    Steady => \A k \in Name : clients[k] = "open" => credentials[k] = "open"

\* With a lifespan, nobody is handed a client that is closed or overdue, though any
\* number of tasks recycle the manager at the same time.
HandedClientIsOpen ==
    [][\A t \in Task : lifespan /\ place[t] # "inside" /\ place'[t] = "inside"
         => clients'[held'[t]] = "open" /\ age' = "within"]_cosmosVars

-----------------------------------------------------------------------------
(* What the repository says of the program and a run refutes *)

\* clients/cosmos.py:161 "if still alive, we return": who enters is handed a client that
\* can be used, its credential not closed.
HandedIsAlive ==
    [][\A t \in Task : place[t] # "inside" /\ place'[t] = "inside"
         => credentials'[held'[t]] = "open"]_cosmosVars
=============================================================================
