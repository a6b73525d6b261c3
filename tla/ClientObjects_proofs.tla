------------------------- MODULE ClientObjects_proofs -------------------------
(***************************************************************************)
(* Theorems about the client objects: Eventhub, the SDK clients and        *)
(* credentials of a pooled connection, and downloads of blobs; at the end  *)
(* the type correctness of all objects of MCClientObjects together.        *)
(***************************************************************************)
EXTENDS MCClientObjects, CosmosConnectionManager_proofs, ServiceBus_proofs, SequenceTheorems

(***************************************************************************)
(* Eventhub                                                                *)
(***************************************************************************)
(* Type correctness *)

LEMMA EventhubStepKeepsType == TypeOK /\ [Next]_vars => TypeOK'
<1> SUFFICES ASSUME TypeOK, [Next]_vars PROVE TypeOK'
  OBVIOUS
<1> USE EventhubAssumption DEF TypeOK, PC
<1>1. ASSUME NEW t \in Task, SendEvent(t) PROVE TypeOK'
  BY <1>1 DEF SendEvent, Reach, Property, Attribute, Goto
<1>2. ASSUME NEW t \in Task, BatchCreated(t) PROVE TypeOK'
  BY <1>2 DEF BatchCreated, Reach, Property, Attribute, Goto
<1>3. ASSUME NEW t \in Task, SendBatch(t) PROVE TypeOK'
  BY <1>3 DEF SendBatch, Reach, Property, Attribute, Goto
<1>4. ASSUME NEW t \in Task, SendOver(t) PROVE TypeOK'
  BY <1>4 DEF SendOver, Goto
<1>5. ASSUME NEW t \in Task, Close(t) PROVE TypeOK'
  BY <1>5 DEF Close, Goto
<1>6. ASSUME NEW t \in Task, ClientClosed(t) PROVE TypeOK'
  BY <1>6 DEF ClientClosed, Goto
<1>7. ASSUME NEW t \in Task, CloseRaises(t) PROVE TypeOK'
  BY <1>7 DEF CloseRaises, Goto
<1>8. ASSUME NEW t \in Task, CredentialClosed(t) PROVE TypeOK'
  BY <1>8 DEF CredentialClosed, Goto
<1>9. CASE UNCHANGED vars
  BY <1>9 DEF vars
<1> QED BY <1>1, <1>2, <1>3, <1>4, <1>5, <1>6, <1>7, <1>8, <1>9 DEF Next

\* clients/eventhub.py:86-120: _client and what is done to it are of the types the methods
\* rely on; a task that awaits a producer's close() has a producer to close.
THEOREM EventhubTypeCorrect == Spec => []TypeOK
<1>1. Init => TypeOK
  BY EventhubAssumption DEF Init, TypeOK, PC
<1> QED BY <1>1, EventhubStepKeepsType, PTL DEF Spec

-----------------------------------------------------------------------------
(* The client that callers reach *)

LEMMA StepKeepsClientOpen == TypeOK /\ ClientIsOpen /\ [Next]_vars => ClientIsOpen'
<1> SUFFICES ASSUME TypeOK, ClientIsOpen, [Next]_vars PROVE ClientIsOpen'
  OBVIOUS
<1> USE EventhubAssumption DEF ClientIsOpen, TypeOK
<1>1. ASSUME NEW p \in Producer, Reach(p), UNCHANGED closeFailed PROVE ClientIsOpen'
  BY <1>1 DEF Reach, Property, Attribute
<1>2. ASSUME NEW t \in Task, SendEvent(t) \/ BatchCreated(t) \/ SendBatch(t) PROVE ClientIsOpen'
  BY <1>1, <1>2 DEF SendEvent, BatchCreated, SendBatch
<1>3. ASSUME NEW t \in Task, ClientClosed(t) PROVE ClientIsOpen'
  BY <1>3 DEF ClientClosed
<1>4. ASSUME NEW t \in Task, SendOver(t) \/ Close(t) \/ CloseRaises(t) \/ CredentialClosed(t)
      PROVE  ClientIsOpen'
  BY <1>4 DEF SendOver, Close, CloseRaises, CredentialClosed
<1>5. CASE UNCHANGED vars
  BY <1>5 DEF vars
<1> QED BY <1>2, <1>3, <1>4, <1>5 DEF Next

\* clients/eventhub.py:107-115: whatever calls overlap, an object never keeps a
\* producer client that has been closed, as long as no close() of one raised or was
\* cancelled.
THEOREM ClientStaysOpen == Spec => []ClientIsOpen
<1>1. Init => ClientIsOpen
  BY EventhubAssumption DEF Init, ClientIsOpen
<1> QED BY <1>1, EventhubTypeCorrect, StepKeepsClientOpen, PTL DEF Spec

-----------------------------------------------------------------------------
(* The object in a slot of the pool *)

\* In the pool no second client is ever made: an open one is the client of the object,
\* the tasks' calls are about that one while there is one, and the credential's close()
\* is not reached before it is gone.
OneClient ==
    pooled =>
        /\ \A p \in Producer : producer[p] = "open" => client = p
        /\ \A t \in Task : mine[t] # None /\ client # None => mine[t] = client
        /\ \A t \in Task : pc[t] = "credential" => client = None
        /\ ~credential => client = None

LEMMA StepKeepsOneClient == TypeOK /\ OneClient /\ [Next]_vars => OneClient'
<1> SUFFICES ASSUME TypeOK, OneClient, [Next]_vars PROVE OneClient'
  OBVIOUS
<1> USE EventhubAssumption DEF OneClient, TypeOK, PC
<1>1. ASSUME NEW t \in Task, SendEvent(t) PROVE OneClient'
  BY <1>1 DEF SendEvent, Reach, Attribute, Goto
<1>2. ASSUME NEW t \in Task, BatchCreated(t) PROVE OneClient'
  BY <1>2 DEF BatchCreated, Reach, Attribute, Goto
<1>3. ASSUME NEW t \in Task, SendBatch(t) PROVE OneClient'
  BY <1>3 DEF SendBatch, Reach, Attribute, Goto
<1>4. ASSUME NEW t \in Task, SendOver(t) PROVE OneClient'
  BY <1>4 DEF SendOver, Goto
<1>5. ASSUME NEW t \in Task, Close(t) PROVE OneClient'
  BY <1>5 DEF Close, Goto
<1>6. ASSUME NEW t \in Task, ClientClosed(t) PROVE OneClient'
  <2>1. \A p \in Producer : pooled /\ producer'[p] = "open" => FALSE
    BY <1>6 DEF ClientClosed
  <2> QED BY <1>6, <2>1 DEF ClientClosed, Goto
<1>7. ASSUME NEW t \in Task, CloseRaises(t) PROVE OneClient'
  BY <1>7 DEF CloseRaises, Goto
<1>8. ASSUME NEW t \in Task, CredentialClosed(t) PROVE OneClient'
  BY <1>8 DEF CredentialClosed, Goto
<1>9. CASE UNCHANGED vars
  BY <1>9 DEF vars
<1> QED BY <1>1, <1>2, <1>3, <1>4, <1>5, <1>6, <1>7, <1>8, <1>9 DEF Next

LEMMA OneClientAlways == Spec => []OneClient
<1>1. Init => OneClient
  BY EventhubAssumption DEF Init, OneClient
<1> QED BY <1>1, EventhubTypeCorrect, StepKeepsOneClient, PTL DEF Spec

\* clients/eventhub.py:88-115, as the pool uses it: resets of the slot that overlap, with
\* calls among them, leave no producer client open that nobody can close.
THEOREM NoClientLeaks == Spec => []NoClientLeak
<1>1. OneClient => NoClientLeak
  BY DEF OneClient, NoClientLeak
<1> QED BY <1>1, OneClientAlways, PTL

\* clients/eventhub.py:112-120, as the pool uses it: whatever close() calls overlap and
\* raise, no producer client is open any more when the credential is closed.
THEOREM CredentialOutlives == Spec => []CredentialOutlivesClient
<1>1. TypeOK /\ OneClient => CredentialOutlivesClient
  BY EventhubAssumption DEF TypeOK, OneClient, CredentialOutlivesClient
<1> QED BY <1>1, EventhubTypeCorrect, OneClientAlways, PTL

(***************************************************************************)
(* PooledTransports                                                        *)
(***************************************************************************)
(* Type correctness *)

LEMMA TransportStepKeepsType == TransportTypeOK /\ [TransportNext]_transportVars => TransportTypeOK'
<1> SUFFICES ASSUME TransportTypeOK, [TransportNext]_transportVars PROVE TransportTypeOK'
  OBVIOUS
<1> USE DEF TransportTypeOK, Step, Family, connection, probe
<1>1. ASSUME Connect \/ ConnectRaises PROVE TransportTypeOK'
  <2>1. keyed' \in BOOLEAN /\ kept' \in BOOLEAN /\ bound' \in BOOLEAN /\ raised' \in BOOLEAN
    BY <1>1, Zenon DEF Connect, ConnectRaises
  <2>2. /\ transport' \in {"none", "open", "closed"}
        /\ secret' \in {"none", "open", "closed"}
        /\ kept' => transport' # "none" /\ (keyed' => secret' # "none")
    BY <1>1 DEF Connect, ConnectRaises, Vacant
  <2> QED BY <1>1, <2>1, <2>2 DEF Connect, ConnectRaises
<1>2. ASSUME NEW t \in Task, Ready(t) PROVE TransportTypeOK'
  BY <1>2 DEF Ready, Request
<1>3. ASSUME NEW t \in Task, BatchMade(t) PROVE TransportTypeOK'
  BY <1>3 DEF BatchMade, Request
<1>4. ASSUME NEW t \in Task, SaysYes(t) PROVE TransportTypeOK'
  BY <1>4 DEF SaysYes, Over
<1>5. ASSUME NEW t \in Task, Reset(t) PROVE TransportTypeOK'
  BY <1>5 DEF Reset, CloseStarts
<1>6. ASSUME NEW t \in Task, TransportClosed(t) PROVE TransportTypeOK'
  <2>1. keyed' \in BOOLEAN /\ kept' \in BOOLEAN /\ bound' \in BOOLEAN /\ raised' \in BOOLEAN
    BY <1>6, Zenon DEF TransportClosed, Drops
  <2>2. kept' => kept
    BY <1>6, Zenon DEF TransportClosed, Drops
  <2>3. kept' => transport' # "none" /\ (keyed' => secret' # "none")
    BY <1>6, <2>2 DEF TransportClosed
  <2> QED BY <1>6, <2>1, <2>3 DEF TransportClosed, Drops
<1>7. ASSUME NEW t \in Task, SecretClosed(t) PROVE TransportTypeOK'
  BY <1>7 DEF SecretClosed, Drops
<1>8. ASSUME NEW t \in Task, NEW a \in Answer, AsksAgain(t, a) PROVE TransportTypeOK'
  BY <1>8 DEF AsksAgain, Request, Answer
<1>9. ASSUME NEW t \in Task, NEW a \in Answer, SaysNo(t, a) PROVE TransportTypeOK'
  BY <1>9 DEF SaysNo, Over, CloseStarts
<1>10. ASSUME NEW t \in Task, NEW s \in {"open", "closed"}, CloseFails(t, s)
       PROVE  TransportTypeOK'
  BY <1>10 DEF CloseFails, CutShort, Drops
<1>11. ASSUME NEW t \in Task, NEW s \in {"open", "closed"}, CloseCancelled(t, s)
       PROVE  TransportTypeOK'
  BY <1>11 DEF CloseCancelled, CutShort
<1>12. CASE UNCHANGED transportVars
  BY <1>12 DEF transportVars
<1> QED BY <1>1, <1>2, <1>3, <1>4, <1>5, <1>6, <1>7, <1>8, <1>9, <1>10, <1>11, <1>12
        DEF TransportNext

\* connection_pooling.py:383-411 with create() and close() of the managed clients: a
\* connection that the slot refers to has an SDK client, and a credential if it needs one.
THEOREM TransportTypeCorrect == TransportSpec => []TransportTypeOK
<1>1. ASSUME TransportInit PROVE TransportTypeOK
  <2> USE <1>1 DEF TransportInit, Step, Family
  <2>1. keyed \in BOOLEAN /\ kept \in BOOLEAN /\ bound \in BOOLEAN /\ raised \in BOOLEAN
    BY Zenon
  <2>2. kept => transport # "none" /\ (keyed => secret # "none")
    BY Zenon
  <2> QED BY <2>1, <2>2 DEF TransportTypeOK
<1> QED BY <1>1, TransportStepKeepsType, PTL DEF TransportSpec

-----------------------------------------------------------------------------
(* Credentials and what is left open *)

\* A credential's close() is only reached behind that of the SDK client, also where the
\* object has forgotten its SDK client and close() goes to the credential at once.
ResetIsOrdered ==
    /\ secret = "closed" => transport = "closed"
    /\ \A t \in Task : /\ step[t] = "credential" => keyed /\ transport = "closed"
                       /\ step[t] = "client" => transport # "none"
    /\ kept /\ ~bound => transport = "closed"
    /\ ~keyed => secret = "none"
    /\ ~kept /\ ~raised /\ transport # "none" => transport = "closed" /\ secret # "open"

LEMMA StepKeepsReset ==
    TransportTypeOK /\ ResetIsOrdered /\ [TransportNext]_transportVars => ResetIsOrdered'
<1> SUFFICES ASSUME TransportTypeOK, ResetIsOrdered, [TransportNext]_transportVars
             PROVE  ResetIsOrdered'
  OBVIOUS
<1> USE DEF TransportTypeOK, ResetIsOrdered, Step, Family, connection, probe
<1>1. ASSUME Connect \/ ConnectRaises PROVE ResetIsOrdered'
  BY <1>1 DEF Connect, ConnectRaises, Vacant
<1>2. ASSUME NEW t \in Task, Ready(t) PROVE ResetIsOrdered'
  BY <1>2 DEF Ready, Request
<1>3. ASSUME NEW t \in Task, BatchMade(t) PROVE ResetIsOrdered'
  BY <1>3 DEF BatchMade, Request
<1>4. ASSUME NEW t \in Task, SaysYes(t) PROVE ResetIsOrdered'
  BY <1>4 DEF SaysYes
<1>5. ASSUME NEW t \in Task, Reset(t) PROVE ResetIsOrdered'
  BY <1>5 DEF Reset, CloseStarts
<1>6. ASSUME NEW t \in Task, TransportClosed(t) PROVE ResetIsOrdered'
  <2>1. /\ transport' = "closed" /\ step[t] = "client"
        /\ \/ keyed /\ step' = [step EXCEPT ![t] = "credential"]
           \/ ~keyed /\ step' = [step EXCEPT ![t] = "idle"]
    BY <1>6, Zenon DEF TransportClosed, Drops
  <2>2. keyed' = keyed /\ secret' = secret /\ raised' = raised /\ (kept' = kept \/ ~keyed)
    BY <1>6, Zenon DEF TransportClosed, Drops
  <2> QED BY <2>1, <2>2
<1>7. ASSUME NEW t \in Task, SecretClosed(t) PROVE ResetIsOrdered'
  BY <1>7 DEF SecretClosed, Drops
<1>8. ASSUME NEW t \in Task, NEW a \in Answer, AsksAgain(t, a) PROVE ResetIsOrdered'
  BY <1>8 DEF AsksAgain, Request
<1>9. ASSUME NEW t \in Task, NEW a \in Answer, SaysNo(t, a) PROVE ResetIsOrdered'
  BY <1>9 DEF SaysNo, CloseStarts
<1>10. ASSUME NEW t \in Task, NEW s \in {"open", "closed"}, CloseFails(t, s)
       PROVE  ResetIsOrdered'
  BY <1>10 DEF CloseFails, CutShort, Drops
<1>11. ASSUME NEW t \in Task, NEW s \in {"open", "closed"}, CloseCancelled(t, s)
       PROVE  ResetIsOrdered'
  <2>1. /\ keyed' = keyed /\ raised' = raised /\ kept' = kept /\ bound' = bound
        /\ step' = [step EXCEPT ![t] = "idle"]
    BY <1>11, Zenon DEF CloseCancelled
  <2>2. /\ transport = "closed" => transport' = "closed"
        /\ transport = "none" <=> transport' = "none"
        /\ secret' = secret \/ (step[t] = "credential" /\ secret' = "closed")
    BY <1>11 DEF CloseCancelled, CutShort
  <2> QED BY <2>1, <2>2
<1>12. CASE UNCHANGED transportVars
  BY <1>12 DEF transportVars
<1> QED BY <1>1, <1>2, <1>3, <1>4, <1>5, <1>6, <1>7, <1>8, <1>9, <1>10, <1>11, <1>12
        DEF TransportNext

LEMMA ResetAlways == TransportSpec => []ResetIsOrdered
<1>1. TransportInit => ResetIsOrdered
  BY DEF TransportInit, ResetIsOrdered
<1> QED BY <1>1, TransportTypeCorrect, StepKeepsReset, PTL DEF TransportSpec

\* service_bus.py:52, eventhub.py:112, cosmos.py:251: no credential is closed before the SDK
\* client that authenticates with it, however many tasks reset the slot at once.
THEOREM SecretOutlives == TransportSpec => []SecretOutlivesTransport
<1>1. ResetIsOrdered => SecretOutlivesTransport
  BY DEF ResetIsOrdered, SecretOutlivesTransport
<1> QED BY <1>1, ResetAlways, PTL

\* connection_pooling.py:405-411: a dropped connection has left nothing open, unless a
\* close() of it raised.
THEOREM DroppedLeavesNothing == TransportSpec => []DroppedIsClosed
<1>1. ResetIsOrdered => DroppedIsClosed
  BY DEF ResetIsOrdered, DroppedIsClosed
<1> QED BY <1>1, ResetAlways, PTL

-----------------------------------------------------------------------------
(* The requests of ready() *)

\* Each request but the first costs an attempt, and the last attempt is never spent.
ProbesAreCounted ==
    \A t \in Task :
        /\ step[t] \in {"ready", "missing"} => attempts[t] >= 1 /\ asked[t] + attempts[t] <= 3
        /\ step[t] = "batch" => attempts[t] = 2 /\ asked[t] = 0
        /\ step[t] \notin {"batch", "ready", "missing"} => attempts[t] = 0 /\ asked[t] = 0
        /\ refused[t] => family = "cosmos"

LEMMA StepKeepsCount ==
    TransportTypeOK /\ ProbesAreCounted /\ [TransportNext]_transportVars => ProbesAreCounted'
<1> SUFFICES ASSUME TransportTypeOK, ProbesAreCounted, [TransportNext]_transportVars
             PROVE  ProbesAreCounted'
  OBVIOUS
<1> USE DEF TransportTypeOK, ProbesAreCounted, Step, Family, connection, probe
<1>1. ASSUME Connect \/ ConnectRaises PROVE ProbesAreCounted'
  BY <1>1 DEF Connect, ConnectRaises
<1>2. ASSUME NEW t \in Task, Ready(t) PROVE ProbesAreCounted'
  <2>1. asked[t] = 0 /\ refused' = refused /\ family' = family
    BY <1>2 DEF Ready
  <2>2. /\ attempts' = [attempts EXCEPT ![t] = 2]
        /\ \/ /\ step' = [step EXCEPT ![t] = "batch"]
              /\ asked' = asked
           \/ /\ step' = [step EXCEPT ![t] = "missing"]
              /\ asked' = asked
           \/ /\ \E l \in {"ready", "missing"} : step' = [step EXCEPT ![t] = l]
              /\ asked' = [asked EXCEPT ![t] = @ + 1]
    BY <1>2 DEF Ready, Request
  <2> QED BY <2>1, <2>2
<1>3. ASSUME NEW t \in Task, BatchMade(t) PROVE ProbesAreCounted'
  BY <1>3 DEF BatchMade, Request
<1>4. ASSUME NEW t \in Task, SaysYes(t) PROVE ProbesAreCounted'
  BY <1>4 DEF SaysYes, Over
<1>5. ASSUME NEW t \in Task, Reset(t) PROVE ProbesAreCounted'
  BY <1>5 DEF Reset, CloseStarts
<1>6. ASSUME NEW t \in Task, TransportClosed(t) PROVE ProbesAreCounted'
  BY <1>6 DEF TransportClosed, Drops
<1>7. ASSUME NEW t \in Task, SecretClosed(t) PROVE ProbesAreCounted'
  BY <1>7 DEF SecretClosed, Drops
<1>8. ASSUME NEW t \in Task, NEW a \in Answer, AsksAgain(t, a) PROVE ProbesAreCounted'
  <2>1. step[t] \in {"ready", "missing"} /\ (a = "auth" => family = "cosmos")
    BY <1>8 DEF AsksAgain, Answers, Answer, Verdict, ServiceBusVerdict, EventhubVerdict
  <2> QED BY <1>8, <2>1 DEF AsksAgain, Request
<1>9. ASSUME NEW t \in Task, NEW a \in Answer, SaysNo(t, a) PROVE ProbesAreCounted'
  BY <1>9 DEF SaysNo, Over, CloseStarts
<1>10. ASSUME NEW t \in Task, NEW s \in {"open", "closed"}, CloseFails(t, s)
       PROVE  ProbesAreCounted'
  BY <1>10 DEF CloseFails, CutShort, Drops
<1>11. ASSUME NEW t \in Task, NEW s \in {"open", "closed"}, CloseCancelled(t, s)
       PROVE  ProbesAreCounted'
  BY <1>11 DEF CloseCancelled, CutShort
<1>12. CASE UNCHANGED transportVars
  BY <1>12 DEF transportVars
<1> QED BY <1>1, <1>2, <1>3, <1>4, <1>5, <1>6, <1>7, <1>8, <1>9, <1>10, <1>11, <1>12
        DEF TransportNext

\* service_bus.py:305, eventhub.py:314, cosmos.py:349: ready() makes two requests at most,
\* and one if it meets an authentication error it can tell apart.
THEOREM ProbesStayBounded == TransportSpec => []ProbesAreBounded
<1>1. TransportInit => ProbesAreCounted
  BY DEF TransportInit, ProbesAreCounted
<1>2. ASSUME TransportTypeOK, ProbesAreCounted PROVE ProbesAreBounded
  <2>1. \A t \in Task : refused[t] => family = "cosmos"
    BY <1>2, Zenon DEF ProbesAreCounted
  <2>2. ASSUME NEW t \in Task PROVE asked[t] <= 2
    <3>1. asked[t] \in Nat /\ attempts[t] \in 0..2
      BY <1>2 DEF TransportTypeOK
    <3>2. \/ attempts[t] >= 1 /\ asked[t] + attempts[t] <= 3
          \/ asked[t] = 0
      BY <1>2, Zenon DEF ProbesAreCounted
    <3> QED BY <3>1, <3>2
  <2> QED BY <2>1, <2>2 DEF ProbesAreBounded
<1> QED BY <1>1, <1>2, TransportTypeCorrect, StepKeepsCount, PTL DEF TransportSpec

(***************************************************************************)
(* BlobStorage                                                             *)
(***************************************************************************)
(* Files *)

\* A function on 1..n is a sequence of length n.
LEMMA SequenceOn ==
    ASSUME NEW S, NEW n \in Nat, NEW f \in [1..n -> S]
    PROVE  f \in Seq(S) /\ Len(f) = n
<1>1. f \in Seq(S)
  BY SeqDef
<1>2. DOMAIN f = 1..Len(f) /\ Len(f) \in Nat
  BY <1>1, LenProperties
<1> QED BY <1>1, <1>2

\* A write inside or behind a file leaves a file.
LEMMA WriteAtType ==
    ASSUME NEW S, None \in S, NEW f \in Seq(S), NEW i \in Nat \ {0}, NEW c \in S
    PROVE  WriteAt(f, i, c) \in Seq(S)
<1> DEFINE n == IF i > Len(f) THEN i ELSE Len(f)
<1>1. Len(f) \in Nat /\ \A j \in 1..Len(f) : f[j] \in S
  BY LenProperties, ElementOfSeq
<1>2. n \in Nat
  BY <1>1
<1>3. WriteAt(f, i, c) = [j \in 1..n |-> IF j = i THEN c ELSE IF j <= Len(f) THEN f[j] ELSE None]
  BY DEF WriteAt
<1>4. \A j \in 1..n : (IF j = i THEN c ELSE IF j <= Len(f) THEN f[j] ELSE None) \in S
  BY <1>1, <1>2
<1> HIDE DEF n
<1>5. WriteAt(f, i, c) \in [1..n -> S]
  BY <1>3, <1>4
<1> QED BY <1>2, <1>5, SequenceOn

\* The chunk that follows the first k of a file is appended to them.
LEMMA WriteAtEnd ==
    ASSUME NEW k \in Nat, NEW b, NEW n, NEW f, f = [i \in 1..k |-> <<b, n, i>>]
    PROVE  WriteAt(f, k + 1, <<b, n, k + 1>>) = [i \in 1..(k + 1) |-> <<b, n, i>>]
<1> DEFINE S == {<<b, n, i>> : i \in 1..k}
<1>1. f \in [1..k -> S]
  OBVIOUS
<1> HIDE DEF S
<1>2. Len(f) = k
  BY <1>1, SequenceOn
<1>3. WriteAt(f, k + 1, <<b, n, k + 1>>)
        = [j \in 1..(k + 1) |->
             IF j = k + 1 THEN <<b, n, k + 1>> ELSE IF j <= k THEN f[j] ELSE None]
  BY <1>2 DEF WriteAt
<1>4. \A j \in 1..(k + 1) :
        (IF j = k + 1 THEN <<b, n, k + 1>> ELSE IF j <= k THEN f[j] ELSE None) = <<b, n, j>>
  OBVIOUS
<1> QED BY <1>3, <1>4

-----------------------------------------------------------------------------
(* Type correctness *)

LEMMA ContentType ==
    ASSUME NEW b \in Blob, NEW n \in 0..MaxChunks, NEW i \in 1..n
    PROVE  Content(b, n)[i] = <<b, n, i>> /\ <<b, n, i>> \in Chunk
BY BlobAssumption DEF Content, Chunk

LEMMA FlushType ==
    ASSUME BlobTypeOK, NEW t \in Downloader, Flush(t)
    PROVE  files' \in [Base -> Seq(Chunk)]
<1> DEFINE b == source[t]
           i == written[t] + 1
           c == Content(b, length[t])[i]
<1>1. b \in Blob /\ Path(b) \in Base
  BY BlobAssumption DEF BlobTypeOK, Flush, HasFile, Blob, Path
<1>2. length[t] \in 0..MaxChunks /\ i \in 1..length[t] /\ i \in Nat \ {0}
  BY BlobAssumption DEF BlobTypeOK, Flush
<1>3. c \in Chunk
  BY <1>1, <1>2, ContentType
<1>4. files[Path(b)] \in Seq(Chunk)
  BY <1>1 DEF BlobTypeOK
<1>5. None \in Chunk
  BY DEF Chunk
<1>6. files' = [files EXCEPT ![Path(b)] = WriteAt(files[Path(b)], i, c)]
  BY DEF Flush
<1> HIDE DEF b, i, c
<1>7. WriteAt(files[Path(b)], i, c) \in Seq(Chunk)
  BY <1>2, <1>3, <1>4, <1>5, WriteAtType
<1> QED BY <1>6, <1>7 DEF BlobTypeOK

LEMMA BlobStepKeepsType == BlobTypeOK /\ [BlobNext]_blobVars => BlobTypeOK'
<1> SUFFICES ASSUME BlobTypeOK, [BlobNext]_blobVars PROVE BlobTypeOK'
  OBVIOUS
<1> USE BlobAssumption DEF BlobTypeOK, Phase, downloads
<1>1. ASSUME NEW b \in Blob, NEW n \in 1..MaxChunks, Upload(b, n) PROVE BlobTypeOK'
  BY <1>1 DEF Upload
<1>2. ASSUME NEW b \in Blob, DeleteBlob(b) PROVE BlobTypeOK'
  BY <1>2 DEF DeleteBlob
<1>3. ASSUME NEW t \in Downloader, NEW b \in Blob, OpenFile(t, b) PROVE BlobTypeOK'
  <2>1. << >> \in Seq(Chunk) /\ b # None
    BY DEF Blob
  <2>2. lone' \in [Downloader -> BOOLEAN]
    BY <1>3, Zenon DEF OpenFile
  <2>3. files' \in [Base -> Seq(Chunk)]
    BY <1>3, <2>1 DEF OpenFile, Truncated
  <2>4. /\ source' = [source EXCEPT ![t] = b]
        /\ phase' = [phase EXCEPT ![t] = "opened"]
        /\ length' = [length EXCEPT ![t] = 0]
        /\ received' = [received EXCEPT ![t] = 0]
        /\ written' = [written EXCEPT ![t] = 0]
        /\ store' = store
    BY <1>3 DEF OpenFile, InPhase
  <2>5. 0 \in 0..MaxChunks
    OBVIOUS
  <2>6. \A u \in Downloader :
          /\ phase'[u] # "idle" => source'[u] # None
          /\ phase'[u] \in {"idle", "opened"} => length'[u] = 0
          /\ written'[u] <= received'[u] /\ received'[u] <= length'[u]
    BY <2>1, <2>4
  <2>7. /\ source' \in [Downloader -> Blob \cup {None}]
        /\ phase' \in [Downloader -> Phase]
        /\ length' \in [Downloader -> 0..MaxChunks]
        /\ received' \in [Downloader -> 0..MaxChunks]
        /\ written' \in [Downloader -> 0..MaxChunks]
    BY <2>4, <2>5
  <2> QED BY <2>2, <2>3, <2>4, <2>6, <2>7
<1>4. ASSUME NEW t \in Downloader, StreamBegins(t) PROVE BlobTypeOK'
  <2>1. source[t] \in Blob /\ store[source[t]] \in 0..MaxChunks
    BY <1>4 DEF StreamBegins
  <2>2. received[t] = 0 /\ written[t] = 0
    BY <1>4 DEF StreamBegins
  <2> QED BY <1>4, <2>1, <2>2 DEF StreamBegins, InPhase
<1>5. ASSUME NEW t \in Downloader, ChunkArrives(t) PROVE BlobTypeOK'
  BY <1>5 DEF ChunkArrives
<1>6. ASSUME NEW t \in Downloader, Flush(t) PROVE BlobTypeOK'
  <2>1. files' \in [Base -> Seq(Chunk)]
    BY <1>6, FlushType
  <2> QED BY <1>6, <2>1 DEF Flush
<1>7. ASSUME NEW t \in Downloader, StreamEnds(t) \/ StreamRaises(t) \/ FileClosed(t)
      PROVE  BlobTypeOK'
  BY <1>7 DEF StreamEnds, StreamRaises, FileClosed, InPhase
<1>8. CASE UNCHANGED blobVars
  BY <1>8 DEF blobVars
<1> QED BY <1>1, <1>2, <1>3, <1>4, <1>5, <1>6, <1>7, <1>8 DEF BlobNext

\* azure_blobs.py:165-194: a download writes no more than it has received and receives no
\* more than the blob had when its stream began.
THEOREM BlobTypeCorrect == BlobSpec => []BlobTypeOK
<1>1. BlobInit => BlobTypeOK
  BY BlobAssumption DEF BlobInit, BlobTypeOK, Phase
<1> QED BY <1>1, BlobStepKeepsType, PTL DEF BlobSpec

-----------------------------------------------------------------------------
(* What a path leads to *)

\* While t has its path to itself, nobody else's file is at that path.
LoneIsAlone ==
    \A t \in Downloader : lone[t] =>
        /\ phase[t] # "idle"
        /\ \A u \in Downloader \ {t} : phase[u] \in HasFile => ~SamePath(u, source[t])

\* A stream is saved when all of it has been received and written.
SavedIsWritten ==
    \A t \in Downloader :
        /\ phase[t] \in {"streaming", "saving", "saved"} => length[t] > 0
        /\ phase[t] \in {"saving", "saved"} => received[t] = length[t]
        /\ phase[t] = "saved" => written[t] = received[t]

LEMMA StepKeepsLone ==
    BlobTypeOK /\ LoneIsAlone /\ [BlobNext]_blobVars => LoneIsAlone'
<1> SUFFICES ASSUME BlobTypeOK, LoneIsAlone, [BlobNext]_blobVars PROVE LoneIsAlone'
  OBVIOUS
<1> USE DEF LoneIsAlone, SamePath, HasFile, downloads
<1>1. ASSUME NEW b \in Blob, NEW n \in 1..MaxChunks, Upload(b, n) PROVE LoneIsAlone'
  BY <1>1 DEF Upload
<1>2. ASSUME NEW b \in Blob, DeleteBlob(b) PROVE LoneIsAlone'
  BY <1>2 DEF DeleteBlob
<1>3. ASSUME NEW t \in Downloader, NEW b \in Blob, OpenFile(t, b) PROVE LoneIsAlone'
  <2>1. /\ source' = [source EXCEPT ![t] = b]
        /\ phase' = [phase EXCEPT ![t] = "opened"]
        /\ source \in [Downloader -> Blob \cup {None}]
        /\ phase \in [Downloader -> Phase]
        /\ b # None
    BY <1>3, BlobAssumption DEF OpenFile, InPhase, BlobTypeOK, Blob
  <2>2. lone'[t] => \A u \in Downloader \ {t} : ~(phase[u] \in HasFile /\ SamePath(u, b))
    BY <1>3 DEF OpenFile
  <2>3. \A u \in Downloader \ {t} : lone'[u] => lone[u] /\ ~SamePath(u, b)
    BY <1>3 DEF OpenFile
  <2>4. ASSUME NEW u \in Downloader, lone'[u], NEW v \in Downloader \ {u}, phase'[v] \in HasFile
        PROVE  phase'[u] # "idle" /\ ~SamePath(v, source[u])'
    <3>1. CASE u = t
      BY <2>1, <2>2, <2>4, <3>1
    <3>2. CASE u # t /\ v = t
      <4>1. source[u] # None
        BY <2>3, <2>4, <3>2 DEF BlobTypeOK
      <4> QED BY <2>1, <2>3, <2>4, <3>2, <4>1
    <3>3. CASE u # t /\ v # t
      BY <2>1, <2>3, <2>4, <3>3
    <3> QED BY <3>1, <3>2, <3>3
  <2>5. ASSUME NEW u \in Downloader, lone'[u] PROVE phase'[u] # "idle"
    BY <2>1, <2>3, <2>5
  <2> QED BY <2>4, <2>5
<1>4. ASSUME NEW t \in Downloader, StreamBegins(t) PROVE LoneIsAlone'
  BY <1>4 DEF StreamBegins, InPhase, BlobTypeOK
<1>5. ASSUME NEW t \in Downloader, ChunkArrives(t) PROVE LoneIsAlone'
  BY <1>5 DEF ChunkArrives
<1>6. ASSUME NEW t \in Downloader, Flush(t) PROVE LoneIsAlone'
  BY <1>6 DEF Flush
<1>7. ASSUME NEW t \in Downloader, StreamEnds(t) \/ StreamRaises(t) PROVE LoneIsAlone'
  BY <1>7 DEF StreamEnds, StreamRaises, InPhase, BlobTypeOK
<1>8. ASSUME NEW t \in Downloader, FileClosed(t) PROVE LoneIsAlone'
  BY <1>8 DEF FileClosed, InPhase, BlobTypeOK
<1>9. CASE UNCHANGED blobVars
  BY <1>9 DEF blobVars
<1> QED BY <1>1, <1>2, <1>3, <1>4, <1>5, <1>6, <1>7, <1>8, <1>9 DEF BlobNext

LEMMA StepKeepsWritten ==
    BlobTypeOK /\ SavedIsWritten /\ [BlobNext]_blobVars => SavedIsWritten'
<1> SUFFICES ASSUME BlobTypeOK, SavedIsWritten, [BlobNext]_blobVars PROVE SavedIsWritten'
  OBVIOUS
<1> USE BlobAssumption DEF SavedIsWritten, BlobTypeOK, Phase, downloads
<1>1. ASSUME NEW b \in Blob, NEW n \in 1..MaxChunks, Upload(b, n) PROVE SavedIsWritten'
  BY <1>1 DEF Upload
<1>2. ASSUME NEW b \in Blob, DeleteBlob(b) PROVE SavedIsWritten'
  BY <1>2 DEF DeleteBlob
<1>3. ASSUME NEW t \in Downloader, NEW b \in Blob, OpenFile(t, b) PROVE SavedIsWritten'
  BY <1>3 DEF OpenFile, InPhase
<1>4. ASSUME NEW t \in Downloader, StreamBegins(t) PROVE SavedIsWritten'
  BY <1>4 DEF StreamBegins, InPhase
<1>5. ASSUME NEW t \in Downloader, ChunkArrives(t) PROVE SavedIsWritten'
  BY <1>5 DEF ChunkArrives
<1>6. ASSUME NEW t \in Downloader, Flush(t) PROVE SavedIsWritten'
  BY <1>6 DEF Flush, HasFile
<1>7. ASSUME NEW t \in Downloader, StreamEnds(t) \/ StreamRaises(t) PROVE SavedIsWritten'
  BY <1>7 DEF StreamEnds, StreamRaises, InPhase
<1>8. ASSUME NEW t \in Downloader, FileClosed(t) PROVE SavedIsWritten'
  BY <1>8 DEF FileClosed, InPhase
<1>9. CASE UNCHANGED blobVars
  BY <1>9 DEF blobVars
<1> QED BY <1>1, <1>2, <1>3, <1>4, <1>5, <1>6, <1>7, <1>8, <1>9 DEF BlobNext

LEMMA StepKeepsPrefix ==
    BlobTypeOK /\ LoneIsAlone /\ LoneFileIsPrefix /\ [BlobNext]_blobVars => LoneFileIsPrefix'
<1> SUFFICES ASSUME BlobTypeOK, LoneIsAlone, LoneFileIsPrefix, [BlobNext]_blobVars
             PROVE  LoneFileIsPrefix'
  OBVIOUS
<1> USE DEF LoneFileIsPrefix
<1>a. \A u \in Downloader : lone[u] => source[u] \in Blob /\ source[u] # None /\ Path(source[u]) \in Base
  BY BlobAssumption DEF BlobTypeOK, LoneIsAlone, Blob, Path
<1>1. ASSUME NEW b \in Blob, NEW n \in 1..MaxChunks, Upload(b, n) PROVE LoneFileIsPrefix'
  BY <1>1 DEF Upload, downloads
<1>2. ASSUME NEW b \in Blob, DeleteBlob(b) PROVE LoneFileIsPrefix'
  BY <1>2 DEF DeleteBlob, downloads
<1>3. ASSUME NEW t \in Downloader, NEW b \in Blob, OpenFile(t, b) PROVE LoneFileIsPrefix'
  <2>1. /\ source' = [source EXCEPT ![t] = b]
        /\ length' = [length EXCEPT ![t] = 0]
        /\ written' = [written EXCEPT ![t] = 0]
        /\ files' = [files EXCEPT ![Path(b)] = << >>]
        /\ Path(b) \in Base
    BY <1>3 DEF OpenFile, Truncated, Blob, Path
  <2>2. \A u \in Downloader \ {t} : lone'[u] => lone[u] /\ ~SamePath(u, b)
    BY <1>3 DEF OpenFile
  <2>3. files'[Path(source'[t])] = [i \in 1..written'[t] |-> <<source'[t], length'[t], i>>]
    <3>1. files'[Path(b)] = << >> /\ source'[t] = b /\ written'[t] = 0
      BY <2>1 DEF BlobTypeOK
    <3> QED BY <3>1
  <2>4. ASSUME NEW u \in Downloader \ {t}, lone'[u]
        PROVE  files'[Path(source'[u])] = [i \in 1..written'[u] |-> <<source'[u], length'[u], i>>]
    <3>1. source'[u] = source[u] /\ written'[u] = written[u] /\ length'[u] = length[u]
      BY <2>1 DEF BlobTypeOK
    <3>2. files'[Path(source[u])] = files[Path(source[u])]
      BY <1>a, <2>1, <2>2, <2>4 DEF SamePath, BlobTypeOK
    <3> QED BY <2>2, <2>4, <3>1, <3>2
  <2> QED BY <2>3, <2>4
<1>4. ASSUME NEW t \in Downloader, StreamBegins(t) PROVE LoneFileIsPrefix'
  <2>1. written[t] = 0
    BY <1>4, BlobAssumption DEF StreamBegins, BlobTypeOK
  <2>2. /\ files' = files /\ source' = source /\ written' = written /\ lone' = lone
        /\ \A u \in Downloader \ {t} : length'[u] = length[u]
    BY <1>4 DEF StreamBegins, BlobTypeOK
  <2> QED BY <2>1, <2>2
<1>5. ASSUME NEW t \in Downloader, ChunkArrives(t) PROVE LoneFileIsPrefix'
  BY <1>5 DEF ChunkArrives
<1>6. ASSUME NEW t \in Downloader, Flush(t) PROVE LoneFileIsPrefix'
  <2> DEFINE b == source[t]
             n == length[t]
             k == written[t]
  <2>1. b \in Blob /\ Path(b) \in Base /\ b # None
    BY <1>6, BlobAssumption DEF BlobTypeOK, Flush, HasFile, Blob, Path
  <2>2. n \in 0..MaxChunks /\ k \in Nat /\ k + 1 \in 1..n
    BY <1>6, BlobAssumption DEF BlobTypeOK, Flush
  <2>3. /\ files' = [files EXCEPT ![Path(b)] = WriteAt(files[Path(b)], k + 1, <<b, n, k + 1>>)]
        /\ written' = [written EXCEPT ![t] = k + 1]
        /\ source' = source /\ length' = length /\ lone' = lone
    BY <1>6, <2>1, <2>2, ContentType DEF Flush
  <2>4. ASSUME lone[t]
        PROVE  files'[Path(b)] = [i \in 1..(k + 1) |-> <<b, n, i>>]
    <3>1. files[Path(b)] = [i \in 1..k |-> <<b, n, i>>]
      BY <2>4
    <3> HIDE DEF b, n, k
    <3>2. WriteAt(files[Path(b)], k + 1, <<b, n, k + 1>>) = [i \in 1..(k + 1) |-> <<b, n, i>>]
      BY <2>2, <3>1, WriteAtEnd
    <3> QED BY <2>1, <2>3, <3>2 DEF BlobTypeOK
  <2>5. ASSUME NEW u \in Downloader \ {t}, lone[u]
        PROVE  Path(source[u]) # Path(b)
    BY <1>6, <2>1, <2>5 DEF LoneIsAlone, SamePath, Flush
  <2>6. ASSUME NEW u \in Downloader \ {t}, lone[u]
        PROVE  files'[Path(source[u])] = [i \in 1..written'[u] |-> <<source[u], length[u], i>>]
    <3>1. files'[Path(source[u])] = files[Path(source[u])] /\ written'[u] = written[u]
      BY <1>a, <2>1, <2>3, <2>5, <2>6 DEF BlobTypeOK
    <3> QED BY <2>6, <3>1
  <2>7. written'[t] = k + 1
    BY <2>3 DEF BlobTypeOK
  <2>8. ASSUME NEW u \in Downloader, lone'[u]
        PROVE  files'[Path(source'[u])] = [i \in 1..written'[u] |-> <<source'[u], length'[u], i>>]
    <3>1. CASE u = t
      BY <2>3, <2>4, <2>7, <2>8, <3>1
    <3>2. CASE u # t
      BY <2>3, <2>6, <2>8, <3>2
    <3> QED BY <3>1, <3>2
  <2> QED BY <2>8
<1>7. ASSUME NEW t \in Downloader, StreamEnds(t) \/ StreamRaises(t) \/ FileClosed(t)
      PROVE  LoneFileIsPrefix'
  BY <1>7 DEF StreamEnds, StreamRaises, FileClosed
<1>8. CASE UNCHANGED blobVars
  BY <1>8 DEF blobVars, downloads
<1> QED BY <1>1, <1>2, <1>3, <1>4, <1>5, <1>6, <1>7, <1>8 DEF BlobNext

LEMMA InitialDownloads ==
    BlobInit => LoneIsAlone /\ SavedIsWritten /\ LoneFileIsPrefix
BY DEF BlobInit, LoneIsAlone, SavedIsWritten, LoneFileIsPrefix

\* azure_blobs.py:184-194: a download that has its path to itself finds there what it has
\* written and nothing else, however many others run and however buffers are flushed.
THEOREM LoneFilesArePrefixes == BlobSpec => []LoneFileIsPrefix
<1>1. BlobSpec => [](LoneIsAlone /\ LoneFileIsPrefix)
  BY InitialDownloads, BlobTypeCorrect, StepKeepsLone, StepKeepsPrefix, PTL DEF BlobSpec
<1> QED BY <1>1, PTL

\* azure_blobs.py:194: the path that download_blob_to_dir() returns leads to the whole blob
\* as it was when its stream began, unless another download has opened that path.
THEOREM SavedFilesAreWhole == BlobSpec => []SavedIsWhole
<1>1. BlobSpec => [](BlobTypeOK /\ SavedIsWritten)
  BY InitialDownloads, BlobTypeCorrect, StepKeepsWritten, PTL DEF BlobSpec
<1>2. BlobTypeOK /\ SavedIsWritten /\ LoneFileIsPrefix => SavedIsWhole
  BY DEF BlobTypeOK, SavedIsWritten, LoneFileIsPrefix, SavedIsWhole, Content
<1> QED BY <1>1, <1>2, LoneFilesArePrefixes, PTL

(***************************************************************************)
(* All objects together                                                    *)
(***************************************************************************)

\* A step is one of the object that is looked at, and the others stay as they are: what
\* holds of an object by itself holds of it among the others.
LEMMA ObjectsRun == ObjectSpec => Spec /\ CosmosSpec /\ BusSpec /\ TransportSpec /\ BlobSpec
<1>1. ObjectInit => Init /\ CosmosInit /\ BusInit /\ TransportInit /\ BlobInit
  BY Zenon DEF ObjectInit, PlainEventhub, PlainCosmos, PlainBus, PlainSlot, PlainBlobs
<1>2. [ObjectNext]_objectVars =>
        /\ [Next]_vars /\ [CosmosNext]_cosmosVars /\ [BusNext]_busVars
        /\ [TransportNext]_transportVars /\ [BlobNext]_blobVars
  BY Zenon DEF ObjectNext, objectVars
<1> QED
  BY <1>1, <1>2, PTL DEF ObjectSpec, Spec, CosmosSpec, BusSpec, TransportSpec, BlobSpec

\* The attributes of the client objects keep their types, and a task awaits the close() of
\* an object and never of None, for any number of tasks and clients.
THEOREM ObjectsAreTyped == ObjectSpec => []ObjectTypeOK
<1>1. TypeOK /\ CosmosTypeOK /\ BusTypeOK /\ TransportTypeOK /\ BlobTypeOK => ObjectTypeOK
  BY DEF ObjectTypeOK
<1> QED
  BY <1>1, ObjectsRun, EventhubTypeCorrect, CosmosTypeCorrect, BusTypeCorrect,
     TransportTypeCorrect, BlobTypeCorrect, PTL
=============================================================================
