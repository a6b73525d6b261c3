-------------------- MODULE CosmosConnectionManager_proofs --------------------
(***************************************************************************)
(* Theorems about CosmosConnectionManager, for every number of tasks and   *)
(* of clients.                                                             *)
(***************************************************************************)
EXTENDS CosmosConnectionManager, TLAPS

Closing == {"closeClient", "closeCredential"}

-----------------------------------------------------------------------------
(* Type correctness *)

LEMMA CreateType ==
    ASSUME CosmosTypeOK, NEW t \in Task, NEW cl \in [Name -> RemoteState],
           NEW cr \in [Name -> RemoteState], Create(t, cl, cr)
    PROVE  CosmosTypeOK'
<1> USE TasksAssumption DEF CosmosTypeOK, RemoteState, Place, Goal, settings
<1>1. PICK k \in Name :
        /\ FreshClient(k)
        /\ cosmosCredential' = k
        /\ credentials' = [cr EXCEPT ![k] = "open"]
        /\ UNCHANGED settings
        /\ \/ /\ cosmosClient' = k
              /\ clients' = [cl EXCEPT ![k] = "open"]
              /\ age' = "within"
              /\ held' = [held EXCEPT ![t] = k]
              /\ Await(t, "inside", None, None)
           \/ /\ fails
              /\ cosmosClient' = None
              /\ clients' = cl
              /\ Await(t, "out", None, None)
              /\ UNCHANGED <<age, held>>
  BY DEF Create
<1>2. CASE /\ cosmosClient' = k
           /\ clients' = [cl EXCEPT ![k] = "open"]
           /\ age' = "within"
           /\ held' = [held EXCEPT ![t] = k]
           /\ Await(t, "inside", None, None)
  BY <1>1, <1>2 DEF Await
<1>3. CASE /\ cosmosClient' = None
           /\ clients' = cl
           /\ Await(t, "out", None, None)
           /\ UNCHANGED <<age, held>>
  BY <1>1, <1>3 DEF Await
<1> QED BY <1>1, <1>2, <1>3

LEMMA AfterRecycleType ==
    ASSUME CosmosTypeOK, NEW t \in Task, NEW g, NEW cl \in [Name -> RemoteState],
           NEW cr \in [Name -> RemoteState], AfterRecycle(t, g, cl, cr)
    PROVE  CosmosTypeOK'
<1>1. CASE Create(t, cl, cr)
  BY <1>1, CreateType
<1>2. CASE ~Create(t, cl, cr)
  BY <1>2, TasksAssumption
     DEF AfterRecycle, Await, CosmosTypeOK, RemoteState, Place, Goal, settings
<1> QED BY <1>1, <1>2

LEMMA RecycleCredentialType ==
    ASSUME CosmosTypeOK, NEW t \in Task, NEW g \in Goal \cup {None},
           NEW cl \in [Name -> RemoteState], RecycleCredential(t, g, cl)
    PROVE  CosmosTypeOK'
<1>1. CASE cosmosCredential = None
  BY <1>1, AfterRecycleType DEF RecycleCredential, CosmosTypeOK
<1>2. CASE cosmosCredential # None
  BY <1>2, TasksAssumption
     DEF RecycleCredential, Await, CosmosTypeOK, RemoteState, Place, Goal, manager, settings
<1> QED BY <1>1, <1>2

LEMMA RecycleType ==
    ASSUME CosmosTypeOK, NEW t \in Task, NEW g \in Goal, Recycle(t, g)
    PROVE  CosmosTypeOK'
<1>1. CASE cosmosClient = None
  BY <1>1, RecycleCredentialType DEF Recycle, CosmosTypeOK
<1>2. CASE cosmosClient # None
  BY <1>2, TasksAssumption
     DEF Recycle, Await, CosmosTypeOK, RemoteState, Place, Goal, manager, settings
<1> QED BY <1>1, <1>2

LEMMA CosmosStepKeepsType == CosmosTypeOK /\ [CosmosNext]_cosmosVars => CosmosTypeOK'
<1> SUFFICES ASSUME CosmosTypeOK, [CosmosNext]_cosmosVars PROVE CosmosTypeOK'
  OBVIOUS
<1>1. ASSUME NEW t \in Task, Enter(t) PROVE CosmosTypeOK'
  <2>1. CASE ShouldRecycle /\ Recycle(t, "enter")
    BY <2>1, RecycleType DEF Goal
  <2>2. CASE ~ShouldRecycle
    BY <1>1, <2>2, TasksAssumption
       DEF Enter, ShouldRecycle, IsContainerClosed, CosmosTypeOK, Place, manager, settings, remotes
  <2> QED BY <1>1, <2>1, <2>2 DEF Enter
<1>2. ASSUME NEW t \in Task, Exit(t) PROVE CosmosTypeOK'
  <2>1. CASE ShouldRecycle /\ Recycle(t, "exit")
    BY <2>1, RecycleType DEF Goal
  <2>2. CASE ~ShouldRecycle
    BY <1>2, <2>2 DEF Exit, CosmosTypeOK, Place, manager, settings, remotes
  <2> QED BY <1>2, <2>1, <2>2 DEF Exit
<1>3. ASSUME NEW t \in Task, CosmosClose(t) PROVE CosmosTypeOK'
  BY <1>3, RecycleType DEF CosmosClose, Goal
<1>4. ASSUME NEW t \in Task, CosmosClientClosed(t) PROVE CosmosTypeOK'
  <2>1. [clients EXCEPT ![victim[t]] = "closed"] \in [Name -> RemoteState]
    BY DEF CosmosTypeOK, RemoteState
  <2> QED BY <1>4, <2>1, RecycleCredentialType DEF CosmosClientClosed, CosmosTypeOK
<1>5. ASSUME NEW t \in Task, CosmosCredentialClosed(t) PROVE CosmosTypeOK'
  <2>1. [credentials EXCEPT ![victim[t]] = "closed"] \in [Name -> RemoteState]
    BY DEF CosmosTypeOK, RemoteState
  <2> QED BY <1>5, <2>1, AfterRecycleType DEF CosmosCredentialClosed, CosmosTypeOK
<1>6. ASSUME NEW t \in Task, RecycleAborts(t) PROVE CosmosTypeOK'
  BY <1>6 DEF RecycleAborts, Await, CosmosTypeOK, Place, manager, settings, remotes
<1>7. CASE AgePasses
  BY <1>7 DEF AgePasses, CosmosTypeOK, settings, remotes, tasks
<1>8. CASE UNCHANGED cosmosVars
  BY <1>8 DEF cosmosVars, CosmosTypeOK, manager, settings, remotes, tasks
<1> QED BY <1>1, <1>2, <1>3, <1>4, <1>5, <1>6, <1>7, <1>8 DEF CosmosNext

\* cosmos.py:96-206: the attributes of the manager are of the types its methods rely on; a
\* task in the body of `async with` has a container, and one that awaits a close() has
\* something to close.
THEOREM CosmosTypeCorrect == CosmosSpec => []CosmosTypeOK
<1>1. CosmosInit => CosmosTypeOK
  BY TasksAssumption DEF CosmosInit, CosmosTypeOK, RemoteState, Place
<1> QED BY <1>1, CosmosStepKeepsType, PTL DEF CosmosSpec

-----------------------------------------------------------------------------
(* One task that closes, no lifespan *)

\* The manager has a client and its credential or neither; a task that closes is closing
\* what the manager has; and what is not closed is the manager's.
SteadyManager ==
    /\ cosmosClient = cosmosCredential
    /\ \A t \in Task : place[t] \in Closing =>
         /\ t \in Closer /\ goal[t] = "close"
         /\ cosmosClient # None /\ victim[t] = cosmosClient
         /\ place[t] = "closeCredential" => clients[victim[t]] = "closed"
    /\ \A k \in Name : /\ clients[k] # "closed" => cosmosClient = k
                       /\ credentials[k] # "closed" => cosmosClient = k
                       /\ clients[k] = "open" => credentials[k] = "open"

\* The places of the other tasks are left alone.
OthersStay(t) ==
    \A u \in Task \ {t} : place'[u] = place[u] /\ goal'[u] = goal[u] /\ victim'[u] = victim[u]

LEMMA AwaitMoves ==
    ASSUME CosmosTypeOK, NEW t \in Task, NEW l, NEW v, NEW g, Await(t, l, v, g)
    PROVE  /\ OthersStay(t)
           /\ place'[t] = l /\ victim'[t] = v /\ goal'[t] = g
BY DEF Await, CosmosTypeOK, OthersStay

LEMMA StepKeepsSteady ==
    ASSUME Steady, CosmosTypeOK, SteadyManager, [CosmosNext]_cosmosVars
    PROVE  SteadyManager'
<1>a. /\ cosmosClient \in Name \cup {None} /\ None \notin Name
      /\ clients \in [Name -> RemoteState] /\ credentials \in [Name -> RemoteState]
      /\ ~lifespan /\ ~fails /\ Closer \subseteq Task
      /\ (ShouldRecycle <=> cosmosClient = None)
  BY TasksAssumption DEF CosmosTypeOK, Steady, ShouldRecycle, IsContainerClosed
<1>b. ASSUME cosmosClient = None
      PROVE  /\ \A u \in Task : place[u] \notin Closing
             /\ \A k \in Name : clients[k] = "closed" /\ credentials[k] = "closed"
  BY <1>a, <1>b DEF SteadyManager, RemoteState
\* A client is created only when there is none.
<1>c. ASSUME NEW t \in Task, cosmosClient = None, Create(t, clients, credentials)
      PROVE  SteadyManager'
  <2>1. PICK k \in Name :
          /\ cosmosCredential' = k /\ cosmosClient' = k
          /\ credentials' = [credentials EXCEPT ![k] = "open"]
          /\ clients' = [clients EXCEPT ![k] = "open"]
          /\ Await(t, "inside", None, None)
    BY <1>a, <1>c DEF Create
  <2>2. \A u \in Task : place'[u] \notin Closing
    BY <1>b, <1>c, <2>1, AwaitMoves DEF Closing, OthersStay
  <2> QED BY <1>a, <1>b, <1>c, <2>1, <2>2 DEF SteadyManager
\* The manager is reset when nothing is left open.
<1>d. ASSUME NEW t \in Task, NEW cl, NEW cr, NEW g, g # "enter", AfterRecycle(t, g, cl, cr),
             \A k \in Name : cl[k] = "closed" /\ cr[k] = "closed",
             \A u \in Task \ {t} : place[u] \notin Closing
      PROVE  SteadyManager'
  <2>1. /\ cosmosClient' = None /\ cosmosCredential' = None /\ clients' = cl /\ credentials' = cr
        /\ Await(t, "out", None, None)
    BY <1>d DEF AfterRecycle
  <2>2. \A u \in Task : place'[u] \notin Closing
    BY <1>d, <2>1, AwaitMoves DEF Closing, OthersStay
  <2> QED BY <1>d, <2>1, <2>2 DEF SteadyManager
\* While one task closes, no other does.
<1>e. ASSUME NEW t \in Task, place[t] \in Closing
      PROVE  /\ \A u \in Task \ {t} : place[u] \notin Closing
             /\ cosmosClient \in Name /\ victim[t] = cosmosClient /\ cosmosCredential = cosmosClient
             /\ goal[t] = "close"
  BY <1>a, <1>e DEF SteadyManager, Steady
<1>1. ASSUME NEW t \in Task, Enter(t) PROVE SteadyManager'
  <2>1. CASE cosmosClient = None
    <3>1. Create(t, clients, credentials)
      BY <1>1, <1>a, <2>1 DEF Enter, Recycle, RecycleCredential, AfterRecycle, SteadyManager
    <3> QED BY <1>c, <2>1, <3>1
  <2>2. CASE cosmosClient # None
    <3>1. /\ UNCHANGED <<cosmosClient, cosmosCredential, clients, credentials, goal, victim>>
          /\ place' = [place EXCEPT ![t] = "inside"] /\ place[t] = "out"
      BY <1>1, <1>a, <2>2 DEF Enter, manager, remotes
    <3>2. \A u \in Task : place'[u] \in Closing => place[u] = place'[u]
      BY <3>1 DEF CosmosTypeOK, Closing
    <3> QED BY <3>1, <3>2 DEF SteadyManager
  <2> QED BY <2>1, <2>2
<1>2. ASSUME NEW t \in Task, Exit(t) PROVE SteadyManager'
  <2>1. CASE cosmosClient = None
    <3>1. AfterRecycle(t, "exit", clients, credentials)
      BY <1>2, <1>a, <2>1 DEF Exit, Recycle, RecycleCredential, SteadyManager
    <3> QED BY <1>b, <1>d, <2>1, <3>1
  <2>2. CASE cosmosClient # None
    <3>1. /\ UNCHANGED <<cosmosClient, cosmosCredential, clients, credentials, goal, victim>>
          /\ place' = [place EXCEPT ![t] = "out"] /\ place[t] = "inside"
      BY <1>2, <1>a, <2>2 DEF Exit, manager, remotes
    <3>2. \A u \in Task : place'[u] \in Closing => place[u] = place'[u]
      BY <3>1 DEF CosmosTypeOK, Closing
    <3> QED BY <3>1, <3>2 DEF SteadyManager
  <2> QED BY <2>1, <2>2
<1>3. ASSUME NEW t \in Task, CosmosClose(t) PROVE SteadyManager'
  <2>1. CASE cosmosClient = None
    <3>1. AfterRecycle(t, "close", clients, credentials)
      BY <1>3, <2>1 DEF CosmosClose, Recycle, RecycleCredential, SteadyManager
    <3> QED BY <1>b, <1>d, <2>1, <3>1
  <2>2. CASE cosmosClient # None
    <3>1. /\ t \in Closer
          /\ clients' = [clients EXCEPT ![cosmosClient] = "closing"]
          /\ Await(t, "closeClient", cosmosClient, "close")
          /\ UNCHANGED <<cosmosClient, cosmosCredential, credentials>>
      BY <1>3, <2>2 DEF CosmosClose, Recycle, manager
    <3>2. \A u \in Task \ {t} : place[u] \notin Closing
      BY <1>a, <3>1 DEF SteadyManager, Steady
    <3>3. \A u \in Task \ {t} : place'[u] \notin Closing
      BY <3>1, <3>2, AwaitMoves DEF OthersStay
    <3>4. place'[t] = "closeClient" /\ goal'[t] = "close" /\ victim'[t] = cosmosClient
      BY <3>1, AwaitMoves
    <3>5. \A k \in Name : /\ clients'[k] # "closed" => cosmosClient = k
                          /\ clients'[k] = "open" => clients[k] = "open"
      BY <1>a, <3>1 DEF SteadyManager
    <3> QED BY <1>a, <2>2, <3>1, <3>3, <3>4, <3>5 DEF SteadyManager
  <2> QED BY <2>1, <2>2
<1>4. ASSUME NEW t \in Task, CosmosClientClosed(t) PROVE SteadyManager'
  <2>0. PICK v : v = cosmosClient
    OBVIOUS
  <2>1. /\ place[t] = "closeClient"
        /\ RecycleCredential(t, goal[t], [clients EXCEPT ![victim[t]] = "closed"])
    BY <1>4 DEF CosmosClientClosed
  <2>2. /\ \A u \in Task \ {t} : place[u] \notin Closing
        /\ v \in Name /\ victim[t] = v /\ cosmosCredential = v /\ goal[t] = "close"
        /\ t \in Closer
    BY <1>e, <2>0, <2>1 DEF Closing, SteadyManager
  <2>3. /\ credentials' = [credentials EXCEPT ![v] = "closing"]
        /\ clients' = [clients EXCEPT ![v] = "closed"]
        /\ Await(t, "closeCredential", v, "close")
        /\ UNCHANGED <<cosmosClient, cosmosCredential>>
    BY <1>a, <2>1, <2>2 DEF RecycleCredential, manager
  <2>4. /\ \A u \in Task \ {t} : place'[u] \notin Closing
        /\ goal'[t] = "close" /\ victim'[t] = v
    BY <2>2, <2>3, AwaitMoves DEF OthersStay
  <2>5. clients'[v] = "closed"
    BY <1>a, <2>2, <2>3
  <2>6. \A k \in Name : /\ clients'[k] # "closed" => v = k
                        /\ credentials'[k] # "closed" => v = k
                        /\ clients'[k] # "open"
    BY <1>a, <2>0, <2>2, <2>3 DEF SteadyManager, RemoteState
  <2>7. /\ cosmosClient' = v /\ cosmosCredential' = v
        /\ v # None
    BY <1>a, <2>0, <2>2, <2>3
  <2>8. \A u \in Task : place'[u] \in Closing =>
          /\ u \in Closer /\ goal'[u] = "close"
          /\ v # None /\ victim'[u] = v
          /\ clients'[victim'[u]] = "closed"
    BY <2>2, <2>4, <2>5, <2>7
  <2> QED BY <2>6, <2>7, <2>8 DEF SteadyManager
<1>5. ASSUME NEW t \in Task, CosmosCredentialClosed(t) PROVE SteadyManager'
  <2>1. /\ place[t] = "closeCredential"
        /\ AfterRecycle(t, goal[t], clients, [credentials EXCEPT ![victim[t]] = "closed"])
    BY <1>5 DEF CosmosCredentialClosed
  <2>2. /\ \A u \in Task \ {t} : place[u] \notin Closing
        /\ victim[t] = cosmosClient /\ cosmosClient \in Name /\ goal[t] = "close"
    BY <1>e, <2>1 DEF Closing
  <2> DEFINE cr == [credentials EXCEPT ![victim[t]] = "closed"]
  <2>3. clients[cosmosClient] = "closed"
    BY <1>a, <2>1, <2>2 DEF SteadyManager, Closing
  <2>4. \A k \in Name : clients[k] = "closed" /\ cr[k] = "closed"
    BY <1>a, <2>2, <2>3 DEF SteadyManager, RemoteState
  <2>5. goal[t] # "enter" /\ AfterRecycle(t, goal[t], clients, cr)
    BY <2>1, <2>2
  <2> HIDE DEF cr
  <2> QED BY <1>d, <2>2, <2>4, <2>5
<1>6. ASSUME NEW t \in Task, RecycleAborts(t) PROVE SteadyManager'
  <2>1. /\ Await(t, "out", None, None)
        /\ UNCHANGED <<cosmosClient, cosmosCredential, clients, credentials>>
    BY <1>6 DEF RecycleAborts, manager, remotes
  <2> QED BY <2>1, AwaitMoves DEF SteadyManager, OthersStay, Closing
<1>7. CASE AgePasses
  BY <1>7 DEF AgePasses, SteadyManager, remotes, tasks
<1>8. CASE UNCHANGED cosmosVars
  BY <1>8 DEF cosmosVars, SteadyManager, manager, remotes, tasks
<1> QED BY <1>1, <1>2, <1>3, <1>4, <1>5, <1>6, <1>7, <1>8 DEF CosmosNext

LEMMA SettingsStay == [CosmosNext]_cosmosVars => UNCHANGED settings
BY DEF CosmosNext, cosmosVars, Enter, Exit, CosmosClose, CosmosClientClosed,
       CosmosCredentialClosed, RecycleAborts, AgePasses, Recycle, RecycleCredential,
       AfterRecycle, Create, manager, settings

\* What holds of every state: the manager's types, and its integrity when it is steady.
SteadyInvariant == CosmosTypeOK /\ (Steady => SteadyManager)

LEMMA StaysSteady == CosmosSpec => []SteadyInvariant
<1>1. CosmosInit => SteadyInvariant
  <2>1. CosmosInit => CosmosTypeOK
    BY TasksAssumption DEF CosmosInit, CosmosTypeOK, RemoteState, Place
  <2>2. CosmosInit => SteadyManager
    BY DEF CosmosInit, SteadyManager, Closing
  <2> QED BY <2>1, <2>2 DEF SteadyInvariant
<1>2. SteadyInvariant /\ [CosmosNext]_cosmosVars => SteadyInvariant'
  <2> SUFFICES ASSUME SteadyInvariant, [CosmosNext]_cosmosVars PROVE SteadyInvariant'
    OBVIOUS
  <2>1. CosmosTypeOK'
    BY CosmosStepKeepsType DEF SteadyInvariant
  <2>2. UNCHANGED settings
    BY SettingsStay
  <2>3. Steady' => Steady
    BY <2>2 DEF Steady, settings
  <2>4. Steady => SteadyManager'
    BY StepKeepsSteady DEF SteadyInvariant
  <2> QED BY <2>1, <2>3, <2>4 DEF SteadyInvariant
<1> QED BY <1>1, <1>2, PTL DEF CosmosSpec

\* cosmos.py:113-133, 201-206: while tasks enter and leave and one closes, every client and
\* every credential that is not closed is the manager's, or the task that closes has it in
\* hand.
THEOREM NothingIsLeaked == CosmosSpec => []NothingLeaks
<1>1. SteadyInvariant => NothingLeaks
  BY DEF SteadyInvariant, SteadyManager, NothingLeaks
<1> QED BY <1>1, StaysSteady, PTL

\* cosmos.py:113-133: recycle_container() closes the client before its credential, whoever
\* enters in between.
THEOREM CredentialOutlivesManager == CosmosSpec => []CosmosCredentialOutlives
<1>1. SteadyInvariant => CosmosCredentialOutlives
  BY DEF SteadyInvariant, SteadyManager, CosmosCredentialOutlives
<1> QED BY <1>1, StaysSteady, PTL

-----------------------------------------------------------------------------
(* With a lifespan *)

\* Unless its time is over the client is open, and nobody closes it.
YoungIsOpen ==
    lifespan /\ age # "over" =>
      /\ cosmosClient # None => clients[cosmosClient] = "open" /\ age = "within"
      /\ \A t \in Task : place[t] = "closeClient" => victim[t] # cosmosClient

\* Who is let into the body of `async with` is handed an open client.
HandsOpen ==
    \A t \in Task : lifespan /\ place[t] # "inside" /\ place'[t] = "inside"
      => clients'[held'[t]] = "open" /\ age' = "within"

LEMMA CreateIsYoung ==
    ASSUME CosmosTypeOK, NEW t \in Task, NEW cl \in [Name -> RemoteState],
           NEW cr \in [Name -> RemoteState], Create(t, cl, cr)
    PROVE  YoungIsOpen' /\ HandsOpen
<1>1. PICK k \in Name :
        /\ FreshClient(k)
        /\ \/ /\ cosmosClient' = k
              /\ clients' = [cl EXCEPT ![k] = "open"]
              /\ age' = "within"
              /\ held' = [held EXCEPT ![t] = k]
              /\ Await(t, "inside", None, None)
           \/ /\ cosmosClient' = None
              /\ Await(t, "out", None, None)
  BY DEF Create
<1>2. None \notin Name
  BY TasksAssumption
<1>3. \A u \in Task : u # t => place'[u] = place[u] /\ victim'[u] = victim[u]
  BY <1>1, AwaitMoves DEF OthersStay
<1>4. CASE /\ cosmosClient' = k
           /\ clients' = [cl EXCEPT ![k] = "open"]
           /\ age' = "within"
           /\ held' = [held EXCEPT ![t] = k]
           /\ Await(t, "inside", None, None)
  <2>1. clients'[k] = "open" /\ held'[t] = k
    BY <1>4 DEF CosmosTypeOK
  <2>2. place'[t] = "inside"
    BY <1>4, AwaitMoves
  <2>3. \A u \in Task : place'[u] = "closeClient" => victim'[u] # k
    BY <1>1, <1>3, <2>2 DEF FreshClient
  <2>4. HandsOpen
    BY <1>3, <1>4, <2>1 DEF HandsOpen
  <2> QED BY <1>4, <2>1, <2>3, <2>4 DEF YoungIsOpen
<1>5. CASE cosmosClient' = None /\ Await(t, "out", None, None)
  <2>1. place'[t] = "out"
    BY <1>5, AwaitMoves
  <2>2. \A u \in Task : place'[u] = "closeClient" => victim'[u] # None
    BY <1>3, <2>1 DEF CosmosTypeOK
  <2> QED BY <1>3, <1>5, <2>1, <2>2 DEF YoungIsOpen, HandsOpen
<1> QED BY <1>1, <1>4, <1>5

LEMMA AfterRecycleIsYoung ==
    ASSUME CosmosTypeOK, NEW t \in Task, NEW g, NEW cl \in [Name -> RemoteState],
           NEW cr \in [Name -> RemoteState], AfterRecycle(t, g, cl, cr)
    PROVE  YoungIsOpen' /\ HandsOpen
<1>1. CASE Create(t, cl, cr)
  BY <1>1, CreateIsYoung
<1>2. CASE cosmosClient' = None /\ Await(t, "out", None, None)
  <2>1. place'[t] = "out"
    BY <1>2, AwaitMoves
  <2>2. \A u \in Task : u # t => place'[u] = place[u] /\ victim'[u] = victim[u]
    BY <1>2, AwaitMoves DEF OthersStay
  <2>3. \A u \in Task : place'[u] = "closeClient" => victim'[u] # None
    BY <2>1, <2>2 DEF CosmosTypeOK
  <2> QED BY <1>2, <2>1, <2>2, <2>3 DEF YoungIsOpen, HandsOpen
<1> QED BY <1>1, <1>2 DEF AfterRecycle

\* recycle_container() from the credential on, once the client's close() took place in cl.
LEMMA RecycleCredentialIsYoung ==
    ASSUME CosmosTypeOK, YoungIsOpen, NEW t \in Task, NEW g,
           NEW cl \in [Name -> RemoteState], RecycleCredential(t, g, cl),
           lifespan /\ age # "over" /\ cosmosClient # None => cl[cosmosClient] = "open"
    PROVE  YoungIsOpen' /\ HandsOpen
<1>1. CASE cosmosCredential = None
  <2>1. AfterRecycle(t, g, cl, credentials) /\ credentials \in [Name -> RemoteState]
    BY <1>1 DEF RecycleCredential, CosmosTypeOK
  <2> QED BY <2>1, AfterRecycleIsYoung
<1>2. CASE cosmosCredential # None
  <2>1. /\ clients' = cl
        /\ Await(t, "closeCredential", cosmosCredential, g)
        /\ UNCHANGED <<cosmosClient, lifespan, age>>
    BY <1>2 DEF RecycleCredential, manager, settings
  <2>2. /\ place'[t] = "closeCredential"
        /\ \A u \in Task : u # t => place'[u] = place[u] /\ victim'[u] = victim[u]
    BY <2>1, AwaitMoves DEF OthersStay
  <2> QED BY <2>1, <2>2 DEF YoungIsOpen, HandsOpen
<1> QED BY <1>1, <1>2

\* Enter and Exit recycle only what is overdue.
LEMMA RecycleIsYoung ==
    ASSUME CosmosTypeOK, YoungIsOpen, NEW t \in Task, NEW g, Recycle(t, g),
           lifespan => ShouldRecycle
    PROVE  YoungIsOpen' /\ HandsOpen
<1>1. CASE cosmosClient = None
  <2>1. RecycleCredential(t, g, clients) /\ clients \in [Name -> RemoteState]
    BY <1>1 DEF Recycle, CosmosTypeOK
  <2> QED BY <1>1, <2>1, RecycleCredentialIsYoung
<1>2. CASE cosmosClient # None
  <2>1. /\ Await(t, "closeClient", cosmosClient, g)
        /\ UNCHANGED <<lifespan, age>>
        /\ lifespan => age = "over"
    BY <1>2 DEF Recycle, manager, settings, ShouldRecycle, IsContainerClosed
  <2>2. /\ place'[t] = "closeClient"
        /\ \A u \in Task : u # t => place'[u] = place[u]
    BY <2>1, AwaitMoves DEF OthersStay
  <2> QED BY <2>1, <2>2 DEF YoungIsOpen, HandsOpen
<1> QED BY <1>1, <1>2

LEMMA StepIsYoung ==
    ASSUME CosmosTypeOK, YoungIsOpen, [CosmosNext]_cosmosVars
    PROVE  YoungIsOpen' /\ HandsOpen
<1>1. ASSUME NEW t \in Task, Enter(t) PROVE YoungIsOpen' /\ HandsOpen
  <2>1. CASE ShouldRecycle /\ Recycle(t, "enter")
    BY <2>1, RecycleIsYoung
  <2>2. CASE ~ShouldRecycle
    <3>1. /\ held' = [held EXCEPT ![t] = cosmosClient]
          /\ place' = [place EXCEPT ![t] = "inside"]
          /\ UNCHANGED <<cosmosClient, lifespan, age, clients, victim>>
          /\ cosmosClient # None /\ (lifespan => age # "over")
      BY <1>1, <2>2 DEF Enter, manager, settings, remotes, ShouldRecycle, IsContainerClosed
    <3> QED BY <3>1 DEF YoungIsOpen, HandsOpen, CosmosTypeOK
  <2> QED BY <1>1, <2>1, <2>2 DEF Enter
<1>2. ASSUME NEW t \in Task, Exit(t) PROVE YoungIsOpen' /\ HandsOpen
  <2>1. CASE ShouldRecycle /\ Recycle(t, "exit")
    BY <2>1, RecycleIsYoung
  <2>2. CASE ~ShouldRecycle
    <3>1. /\ place' = [place EXCEPT ![t] = "out"]
          /\ UNCHANGED <<cosmosClient, lifespan, age, clients, victim>>
      BY <1>2, <2>2 DEF Exit, manager, settings, remotes
    <3> QED BY <3>1 DEF YoungIsOpen, HandsOpen, CosmosTypeOK
  <2> QED BY <1>2, <2>1, <2>2 DEF Exit
<1>3. ASSUME NEW t \in Task, CosmosClose(t) PROVE YoungIsOpen' /\ HandsOpen
  BY <1>3, RecycleIsYoung DEF CosmosClose
<1>4. ASSUME NEW t \in Task, CosmosClientClosed(t) PROVE YoungIsOpen' /\ HandsOpen
  <2> DEFINE cl == [clients EXCEPT ![victim[t]] = "closed"]
  <2>1. cl \in [Name -> RemoteState]
    BY DEF CosmosTypeOK, RemoteState
  <2>2. lifespan /\ age # "over" /\ cosmosClient # None => cl[cosmosClient] = "open"
    BY <1>4 DEF CosmosClientClosed, YoungIsOpen, CosmosTypeOK
  <2>3. RecycleCredential(t, goal[t], cl)
    BY <1>4 DEF CosmosClientClosed
  <2> HIDE DEF cl
  <2> QED BY <2>1, <2>2, <2>3, RecycleCredentialIsYoung
<1>5. ASSUME NEW t \in Task, CosmosCredentialClosed(t) PROVE YoungIsOpen' /\ HandsOpen
  <2>1. [credentials EXCEPT ![victim[t]] = "closed"] \in [Name -> RemoteState]
    BY DEF CosmosTypeOK, RemoteState
  <2> QED BY <1>5, <2>1, AfterRecycleIsYoung DEF CosmosCredentialClosed, CosmosTypeOK
<1>6. ASSUME NEW t \in Task, RecycleAborts(t) PROVE YoungIsOpen' /\ HandsOpen
  <2>1. /\ Await(t, "out", None, None)
        /\ UNCHANGED <<cosmosClient, lifespan, age, clients>>
    BY <1>6 DEF RecycleAborts, manager, settings, remotes
  <2>2. /\ place'[t] = "out"
        /\ \A u \in Task : u # t => place'[u] = place[u] /\ victim'[u] = victim[u]
    BY <2>1, AwaitMoves DEF OthersStay
  <2> QED BY <2>1, <2>2 DEF YoungIsOpen, HandsOpen
<1>7. CASE AgePasses
  BY <1>7 DEF AgePasses, YoungIsOpen, HandsOpen, tasks
<1>8. CASE UNCHANGED cosmosVars
  BY <1>8 DEF cosmosVars, YoungIsOpen, HandsOpen, manager, settings, remotes, tasks
<1> QED BY <1>1, <1>2, <1>3, <1>4, <1>5, <1>6, <1>7, <1>8 DEF CosmosNext

\* cosmos.py:111-121, 144-156: with a lifespan, however the recyclings of any number of tasks
\* overlap, a task is handed an open client that is not overdue.
THEOREM HandedClientsAreOpen == CosmosSpec => HandedClientIsOpen
<1> DEFINE Inv == CosmosTypeOK /\ YoungIsOpen
<1>1. CosmosInit => Inv
  BY TasksAssumption
     DEF CosmosInit, CosmosTypeOK, RemoteState, Place, YoungIsOpen
<1>2. Inv /\ [CosmosNext]_cosmosVars => Inv'
  BY CosmosStepKeepsType, StepIsYoung
<1>3. Inv /\ [CosmosNext]_cosmosVars => [HandsOpen]_cosmosVars
  BY StepIsYoung
<1>4. [][HandsOpen]_cosmosVars => HandedClientIsOpen
  <2>1. [HandsOpen]_cosmosVars =>
          [\A t \in Task : lifespan /\ place[t] # "inside" /\ place'[t] = "inside"
             => clients'[held'[t]] = "open" /\ age' = "within"]_cosmosVars
    BY DEF HandsOpen
  <2> QED BY <2>1, PTL DEF HandedClientIsOpen
<1> HIDE DEF Inv
<1> QED BY <1>1, <1>2, <1>3, <1>4, PTL DEF CosmosSpec

-----------------------------------------------------------------------------
(* When recyclings do not overlap *)

\* At most one task at a time is inside recycle_container().
LoneRecycler == \A t, u \in Task : place[t] \in Closing /\ place[u] \in Closing => t = u

\* A client that nobody has to recycle has its credential and nobody is about to close
\* it; who recycles has something to close.
LoneManager ==
    /\ ~ShouldRecycle => /\ cosmosCredential = cosmosClient /\ credentials[cosmosClient] = "open"
                         /\ \A t \in Task : place[t] \notin Closing
    /\ cosmosClient = None /\ cosmosCredential = None => \A t \in Task : place[t] \notin Closing

\* Who is let into the body of `async with` is handed a client with an open credential.
HandsAlive ==
    \A t \in Task : place[t] # "inside" /\ place'[t] = "inside" => credentials'[held'[t]] = "open"

\* The reset at the end of recycle_container(), when nobody else is in it.
LEMMA LoneAfterRecycle ==
    ASSUME CosmosTypeOK, NEW t \in Task, NEW g, NEW cl \in [Name -> RemoteState],
           NEW cr \in [Name -> RemoteState], AfterRecycle(t, g, cl, cr),
           \A u \in Task \ {t} : place[u] \notin Closing
    PROVE  LoneManager' /\ HandsAlive
<1>0. None \notin Name
  BY TasksAssumption
<1>1. CASE Create(t, cl, cr)
  <2>1. PICK k \in Name :
          /\ cosmosCredential' = k
          /\ credentials' = [cr EXCEPT ![k] = "open"]
          /\ \/ /\ cosmosClient' = k
                /\ held' = [held EXCEPT ![t] = k]
                /\ Await(t, "inside", None, None)
             \/ /\ cosmosClient' = None
                /\ Await(t, "out", None, None)
    BY <1>1 DEF Create
  <2>2. credentials'[k] = "open" /\ (held' = [held EXCEPT ![t] = k] => held'[t] = k)
    BY <2>1 DEF CosmosTypeOK
  <2>3. \A u \in Task : place'[u] \notin Closing
    BY <2>1, AwaitMoves DEF OthersStay, Closing
  <2>4. HandsAlive
    BY <2>1, <2>2, AwaitMoves DEF HandsAlive, OthersStay
  <2> QED
    BY <1>0, <2>1, <2>2, <2>3, <2>4 DEF LoneManager, ShouldRecycle, IsContainerClosed
<1>2. CASE cosmosClient' = None /\ Await(t, "out", None, None)
  <2>1. \A u \in Task : place'[u] \notin Closing
    BY <1>2, AwaitMoves DEF OthersStay, Closing
  <2>2. HandsAlive
    BY <1>2, AwaitMoves DEF HandsAlive, OthersStay
  <2> QED
    BY <1>2, <2>1, <2>2 DEF LoneManager, ShouldRecycle, IsContainerClosed
<1> QED
  BY <1>1, <1>2 DEF AfterRecycle

\* recycle_container() from the credential on.
LEMMA LoneRecycleCredential ==
    ASSUME CosmosTypeOK, LoneManager, LoneRecycler, LoneRecycler', ShouldRecycle,
           NEW t \in Task, NEW g, NEW cl \in [Name -> RemoteState], RecycleCredential(t, g, cl),
           place[t] \in Closing \/ cosmosClient = None
    PROVE  LoneManager' /\ HandsAlive
<1>1. CASE cosmosCredential = None
  <2>1. AfterRecycle(t, g, cl, credentials) /\ credentials \in [Name -> RemoteState]
    BY <1>1 DEF RecycleCredential, CosmosTypeOK
  <2>2. \A u \in Task \ {t} : place[u] \notin Closing
    BY <1>1 DEF LoneManager, LoneRecycler
  <2> QED
    BY <2>1, <2>2, LoneAfterRecycle
<1>2. CASE cosmosCredential # None
  <2>1. /\ Await(t, "closeCredential", cosmosCredential, g)
        /\ UNCHANGED <<cosmosClient, cosmosCredential, lifespan, age>>
    BY <1>2 DEF RecycleCredential, manager, settings
  <2>2. HandsAlive
    BY <2>1, AwaitMoves DEF HandsAlive, OthersStay
  <2> QED
    BY <1>2, <2>1, <2>2 DEF LoneManager, ShouldRecycle, IsContainerClosed
<1> QED
  BY <1>1, <1>2

LEMMA LoneRecycle ==
    ASSUME CosmosTypeOK, LoneManager, LoneRecycler, LoneRecycler', ShouldRecycle,
           NEW t \in Task, NEW g, Recycle(t, g)
    PROVE  LoneManager' /\ HandsAlive
<1>1. CASE cosmosClient = None
  <2>1. RecycleCredential(t, g, clients) /\ clients \in [Name -> RemoteState]
    BY <1>1 DEF Recycle, CosmosTypeOK
  <2> QED
    BY <1>1, <2>1, LoneRecycleCredential
<1>2. CASE cosmosClient # None
  <2>1. /\ Await(t, "closeClient", cosmosClient, g)
        /\ UNCHANGED <<cosmosClient, cosmosCredential, lifespan, age>>
    BY <1>2 DEF Recycle, manager, settings
  <2>2. HandsAlive
    BY <2>1, AwaitMoves DEF HandsAlive, OthersStay
  <2> QED
    BY <1>2, <2>1, <2>2 DEF LoneManager, ShouldRecycle, IsContainerClosed
<1> QED
  BY <1>1, <1>2

LEMMA LoneStep ==
    ASSUME Closer = {}, CosmosTypeOK, LoneManager, LoneRecycler, LoneRecycler', [CosmosNext]_cosmosVars
    PROVE  LoneManager' /\ HandsAlive
<1>1. ASSUME NEW t \in Task, Enter(t) PROVE LoneManager' /\ HandsAlive
  <2>1. CASE ShouldRecycle /\ Recycle(t, "enter")
    BY <2>1, LoneRecycle
  <2>2. CASE ~ShouldRecycle
    <3>1. /\ held' = [held EXCEPT ![t] = cosmosClient]
          /\ place' = [place EXCEPT ![t] = "inside"]
          /\ UNCHANGED <<cosmosClient, cosmosCredential, lifespan, age, credentials>>
      BY <1>1, <2>2 DEF Enter, manager, settings, remotes
    <3>2. held'[t] = cosmosClient /\ credentials'[cosmosClient] = "open"
      BY <2>2, <3>1 DEF LoneManager, CosmosTypeOK
    <3>3. \A u \in Task : place'[u] = IF u = t THEN "inside" ELSE place[u]
      BY <3>1 DEF CosmosTypeOK
    <3> QED
      BY <2>2, <3>1, <3>2, <3>3 DEF LoneManager, HandsAlive, ShouldRecycle, IsContainerClosed, Closing
  <2> QED
    BY <1>1, <2>1, <2>2 DEF Enter
<1>2. ASSUME NEW t \in Task, Exit(t) PROVE LoneManager' /\ HandsAlive
  <2>1. CASE ShouldRecycle /\ Recycle(t, "exit")
    BY <2>1, LoneRecycle
  <2>2. CASE ~ShouldRecycle
    <3>1. /\ place' = [place EXCEPT ![t] = "out"]
          /\ UNCHANGED <<cosmosClient, cosmosCredential, lifespan, age, credentials>>
      BY <1>2, <2>2 DEF Exit, manager, settings, remotes
    <3>2. \A u \in Task : place'[u] = IF u = t THEN "out" ELSE place[u]
      BY <3>1 DEF CosmosTypeOK
    <3> QED
      BY <2>2, <3>1, <3>2 DEF LoneManager, HandsAlive, ShouldRecycle, IsContainerClosed, Closing
  <2> QED
    BY <1>2, <2>1, <2>2 DEF Exit
<1>3. ASSUME NEW t \in Task, CosmosClientClosed(t) PROVE LoneManager' /\ HandsAlive
  <2> DEFINE cl == [clients EXCEPT ![victim[t]] = "closed"]
  <2>1. cl \in [Name -> RemoteState]
    BY DEF CosmosTypeOK, RemoteState
  <2>2. place[t] \in Closing /\ RecycleCredential(t, goal[t], cl)
    BY <1>3 DEF CosmosClientClosed, Closing
  <2>3. ShouldRecycle
    BY <2>2 DEF LoneManager
  <2> HIDE DEF cl
  <2> QED
    BY <2>1, <2>2, <2>3, LoneRecycleCredential
<1>4. ASSUME NEW t \in Task, CosmosCredentialClosed(t) PROVE LoneManager' /\ HandsAlive
  <2>1. [credentials EXCEPT ![victim[t]] = "closed"] \in [Name -> RemoteState]
    BY DEF CosmosTypeOK, RemoteState
  <2>2. \A u \in Task \ {t} : place[u] \notin Closing
    BY <1>4 DEF CosmosCredentialClosed, LoneRecycler, Closing
  <2> QED
    BY <1>4, <2>1, <2>2, LoneAfterRecycle DEF CosmosCredentialClosed, CosmosTypeOK
<1>5. ASSUME NEW t \in Task, RecycleAborts(t) PROVE LoneManager' /\ HandsAlive
  <2>1. /\ Await(t, "out", None, None)
        /\ UNCHANGED <<cosmosClient, cosmosCredential, lifespan, age, credentials>>
    BY <1>5 DEF RecycleAborts, manager, settings, remotes
  <2>2. /\ place'[t] = "out"
        /\ \A u \in Task : u # t => place'[u] = place[u]
    BY <2>1, AwaitMoves DEF OthersStay
  <2> QED
    BY <2>1, <2>2 DEF LoneManager, HandsAlive, ShouldRecycle, IsContainerClosed, Closing
<1>6. CASE AgePasses
  BY <1>6 DEF AgePasses, LoneManager, HandsAlive, ShouldRecycle, IsContainerClosed, settings, remotes, tasks
<1>7. CASE UNCHANGED cosmosVars
  BY <1>7 DEF cosmosVars, LoneManager, HandsAlive, ShouldRecycle, IsContainerClosed, manager, settings, remotes, tasks
<1> QED
  BY <1>1, <1>2, <1>3, <1>4, <1>5, <1>6, <1>7 DEF CosmosNext, CosmosClose

\* cosmos.py:161 "if still alive, we return" is true of a manager that nobody closes, when
\* no two tasks recycle it at the same time: only their overlap, which the run cosmos_alive
\* finds, hands out a client whose credential is being closed.
THEOREM LoneRecyclersHandAlive ==
    ASSUME Closer = {}
    PROVE  CosmosSpec /\ []LoneRecycler => HandedIsAlive
<1> DEFINE Inv == CosmosTypeOK /\ LoneManager
<1>1. CosmosInit => Inv
  BY TasksAssumption
     DEF CosmosInit, CosmosTypeOK, RemoteState, Place, LoneManager, ShouldRecycle, IsContainerClosed, Closing
<1>2. Inv /\ LoneRecycler /\ LoneRecycler' /\ [CosmosNext]_cosmosVars => Inv'
  BY CosmosStepKeepsType, LoneStep
<1>3. Inv /\ LoneRecycler /\ LoneRecycler' /\ [CosmosNext]_cosmosVars => [HandsAlive]_cosmosVars
  BY LoneStep
<1>4. [][HandsAlive]_cosmosVars => HandedIsAlive
  <2>1. [HandsAlive]_cosmosVars =>
          [\A t \in Task : place[t] # "inside" /\ place'[t] = "inside"
             => credentials'[held'[t]] = "open"]_cosmosVars
    BY DEF HandsAlive
  <2> QED
    BY <2>1, PTL DEF HandedIsAlive
<1> HIDE DEF Inv
<1> QED
  BY <1>1, <1>2, <1>3, <1>4, PTL DEF CosmosSpec
=============================================================================
