--------------------------- MODULE ServiceBus_proofs ---------------------------
(***************************************************************************)
(* Theorems about ServiceBus, for every number of tasks and of SDK objects *)
(* and every usage.                                                        *)
(***************************************************************************)
EXTENDS ServiceBus, TLAPS

BusRecord == [receiver   : Name \cup {None},
              credential : Name \cup {None},
              sender     : Name \cup {None}]

-----------------------------------------------------------------------------
(* What close() does next *)

\* GoOn, written out for the three parts of an object.
LEMMA GoOnCases ==
    ASSUME NEW t, NEW o, NEW n \in 0..3, NEW b, GoOn(t, o, n, b)
    PROVE  \/ /\ At(t, "idle", None, None)
              /\ proxied' = IF Managed THEN None ELSE proxied
           \/ /\ proxied' = proxied
              /\ \/ /\ n = 0
                    /\ b[o].receiver # None
                    /\ At(t, "receiver", o, b[o].receiver)
                 \/ /\ n <= 1 /\ (n = 0 => b[o].receiver = None)
                    /\ b[o].credential # None
                    /\ At(t, "credential", o, b[o].credential)
                 \/ /\ n <= 2
                    /\ b[o].sender # None
                    /\ At(t, "sender", o, b[o].sender)
<1> DEFINE left == {i \in n+1..3 : b[o][CloseOrder[i]] # None}
<1>1. CASE left = {} /\ At(t, "idle", None, None) /\ proxied' = IF Managed THEN None ELSE proxied
  BY <1>1
<1>2. ASSUME NEW i \in left, \A j \in left : i <= j,
             At(t, CloseOrder[i], o, b[o][CloseOrder[i]]), UNCHANGED proxied
      PROVE  \/ n = 0 /\ b[o].receiver # None /\ At(t, "receiver", o, b[o].receiver)
             \/ /\ n <= 1 /\ (n = 0 => b[o].receiver = None)
                /\ b[o].credential # None /\ At(t, "credential", o, b[o].credential)
             \/ n <= 2 /\ b[o].sender # None /\ At(t, "sender", o, b[o].sender)
  <2>1. i \in n+1..3 /\ b[o][CloseOrder[i]] # None
    OBVIOUS
  <2>2. n = 0 /\ i # 1 => b[o][CloseOrder[1]] = None
    BY <1>2, <2>1
  <2> HIDE DEF left
  <2>3. CASE i = 1
    BY <1>2, <2>1, <2>3 DEF CloseOrder
  <2>4. CASE i = 2
    BY <1>2, <2>1, <2>2, <2>4 DEF CloseOrder
  <2>5. CASE i = 3
    BY <1>2, <2>1, <2>5 DEF CloseOrder
  <2> QED BY <2>1, <2>3, <2>4, <2>5
<1> QED BY <1>1, <1>2, Zenon DEF GoOn

\* PartClosed, written out likewise.
LEMMA PartClosedCases ==
    ASSUME NEW t, PartClosed(t)
    PROVE  \/ /\ stage[t] = "receiver"
              /\ sdk' = [sdk EXCEPT !["receiver"][hold[t]] = "closed"]
              /\ bus' = [bus EXCEPT ![object[t]].receiver = None]
              /\ GoOn(t, object[t], 1, bus')
           \/ /\ stage[t] = "credential"
              /\ sdk' = [sdk EXCEPT !["credential"][hold[t]] = "closed"]
              /\ bus' = [bus EXCEPT ![object[t]].credential = None]
              /\ GoOn(t, object[t], 2, bus')
           \/ /\ stage[t] = "sender" /\ ~Factory
              /\ sdk' = [sdk EXCEPT !["sender"][hold[t]] = "closed"]
              /\ bus' = [bus EXCEPT ![object[t]].sender = None]
              /\ GoOn(t, object[t], 3, bus')
<1>1. PICK n \in 1..3 :
        /\ stage[t] = CloseOrder[n] /\ (stage[t] = "sender" => ~Factory)
        /\ sdk' = [sdk EXCEPT ![stage[t]][hold[t]] = "closed"]
        /\ bus' = [bus EXCEPT ![object[t]][CloseOrder[n]] = None]
        /\ GoOn(t, object[t], n, bus')
  BY DEF PartClosed
<1>2. CASE n = 1
  BY <1>1, <1>2 DEF CloseOrder
<1>3. CASE n = 2
  BY <1>1, <1>3 DEF CloseOrder
<1>4. CASE n = 3
  BY <1>1, <1>4 DEF CloseOrder
<1> QED BY <1>2, <1>3, <1>4

-----------------------------------------------------------------------------
(* Type correctness *)

\* Where close() goes next is well typed, and so is who closes what.
LEMMA GoOnType ==
    ASSUME BusTypeOK, NEW t \in Task, NEW o \in Object, NEW n \in 0..3,
           NEW b \in [Object -> BusRecord], GoOn(t, o, n, b)
    PROVE  /\ proxied' \in Object \cup {None}
           /\ stage' \in [Task -> Part \cup {"idle", "using"}]
           /\ object' \in [Task -> Object \cup {None}]
           /\ hold' \in [Task -> Name \cup {None}]
           /\ \A u \in Task : /\ stage'[u] \in Part => object'[u] # None
                              /\ stage'[u] # "idle" <=> hold'[u] # None
<1>1. o # None
  BY TasksAssumption DEF Object
<1>2. /\ b[o].receiver \in Name \cup {None}
      /\ b[o].credential \in Name \cup {None}
      /\ b[o].sender \in Name \cup {None}
  BY DEF BusRecord
<1>3. CASE At(t, "idle", None, None) /\ proxied' = IF Managed THEN None ELSE proxied
  BY <1>3 DEF At, BusTypeOK, Part
<1>4. ASSUME proxied' = proxied, NEW l \in Part, NEW k \in Name \cup {None}, k # None, At(t, l, o, k)
      PROVE  /\ proxied' \in Object \cup {None}
             /\ stage' \in [Task -> Part \cup {"idle", "using"}]
             /\ object' \in [Task -> Object \cup {None}]
             /\ hold' \in [Task -> Name \cup {None}]
             /\ \A u \in Task : /\ stage'[u] \in Part => object'[u] # None
                                /\ stage'[u] # "idle" <=> hold'[u] # None
  BY <1>1, <1>4 DEF At, BusTypeOK, Part
<1> QED BY <1>2, <1>3, <1>4, GoOnCases DEF Part

LEMMA BusStepKeepsType == BusTypeOK /\ [BusNext]_busVars => BusTypeOK'
<1> SUFFICES ASSUME BusTypeOK, [BusNext]_busVars PROVE BusTypeOK'
  OBVIOUS
<1>a. "direct" \in Object /\ Name \subseteq Object /\ None \notin Name /\ None # "direct"
  BY TasksAssumption DEF Object
<1>b. bus \in [Object -> BusRecord]
  BY DEF BusTypeOK, BusRecord
<1>c. sdk \in [Part -> [Name -> {"closed", "open"}]]
  BY DEF BusTypeOK
<1>d. ASSUME NEW o \in Object, NEW k \in Name, NewReceiver(o, k)
      PROVE  bus' \in [Object -> BusRecord] /\ sdk' \in [Part -> [Name -> {"closed", "open"}]]
  BY <1>b, <1>c, <1>d DEF NewReceiver, Opened, BusRecord, Part
<1>e. ASSUME NEW t \in Task, stage[t] \in Part
      PROVE  object[t] \in Object /\ hold[t] \in Name
  BY <1>a, <1>e DEF BusTypeOK, Part
<1>1. ASSUME NEW t \in Task, GetReceiver(t) PROVE BusTypeOK'
  <2>1. PICK k \in Name :
          /\ \/ bus["direct"].receiver = k /\ UNCHANGED <<bus, sdk>>
             \/ bus["direct"].receiver = None /\ NewReceiver("direct", k)
          /\ At(t, "using", None, k)
    BY <1>1 DEF GetReceiver
  <2>2. bus' \in [Object -> BusRecord] /\ sdk' \in [Part -> [Name -> {"closed", "open"}]]
    BY <1>a, <1>b, <1>c, <1>d, <2>1
  <2> QED BY <1>1, <1>a, <2>1, <2>2 DEF GetReceiver, At, BusTypeOK, BusRecord, Part
<1>2. ASSUME NEW t \in Task, ManagedGetReceiver(t) PROVE BusTypeOK'
  <2>1. PICK k \in Name : NewReceiver(k, k) /\ proxied' = k /\ At(t, "using", None, k)
    BY <1>2 DEF ManagedGetReceiver
  <2>2. bus' \in [Object -> BusRecord] /\ sdk' \in [Part -> [Name -> {"closed", "open"}]]
    BY <1>a, <1>d, <2>1
  <2> QED BY <1>2, <1>a, <2>1, <2>2 DEF ManagedGetReceiver, At, BusTypeOK, BusRecord, Part
<1>3. ASSUME NEW t \in Task, ReceiverUsed(t) PROVE BusTypeOK'
  <2>1. sdk' \in [Part -> [Name -> {"closed", "open"}]]
    BY <1>3, <1>c DEF ReceiverUsed, Part
  <2> QED BY <1>3, <2>1 DEF ReceiverUsed, At, BusTypeOK, Part
<1>4. ASSUME NEW t \in Task, GetSender(t) PROVE BusTypeOK'
  <2>1. bus' \in [Object -> BusRecord] /\ sdk' \in [Part -> [Name -> {"closed", "open"}]]
    BY <1>4, <1>a, <1>b, <1>c DEF GetSender, Opened, BusRecord, Part
  <2> QED BY <1>4, <2>1 DEF GetSender, BusTypeOK, BusRecord, busTasks
<1>5. ASSUME NEW t \in Task, CloseBus(t) PROVE BusTypeOK'
  <2>1. proxied \in Object /\ GoOn(t, proxied, 0, bus)
    BY <1>5 DEF CloseBus, BusTypeOK
  <2> QED BY <1>5, <1>b, <2>1, GoOnType DEF CloseBus, BusTypeOK
<1>6. ASSUME NEW t \in Task, PartClosed(t) PROVE BusTypeOK'
  <2>1. stage[t] \in Part
    BY <1>6, PartClosedCases DEF Part
  <2>2. /\ \E p \in Part : sdk' = [sdk EXCEPT ![p][hold[t]] = "closed"]
        /\ \/ bus' = [bus EXCEPT ![object[t]].receiver = None]
           \/ bus' = [bus EXCEPT ![object[t]].credential = None]
           \/ bus' = [bus EXCEPT ![object[t]].sender = None]
    BY <1>6, PartClosedCases DEF Part
  <2>4. bus' \in [Object -> BusRecord] /\ sdk' \in [Part -> [Name -> {"closed", "open"}]]
    <3>1. object[t] \in Object /\ hold[t] \in Name
      BY <1>e, <2>1
    <3>2. bus' \in [Object -> BusRecord]
      BY <1>b, <2>2, <3>1 DEF BusRecord
    <3>3. sdk' \in [Part -> [Name -> {"closed", "open"}]]
      BY <1>c, <2>2, <3>1
    <3> QED BY <3>2, <3>3
  <2>3. PICK n \in 0..3 : GoOn(t, object[t], n, bus')
    <3>1. 1 \in 0..3 /\ 2 \in 0..3 /\ 3 \in 0..3
      OBVIOUS
    <3> QED BY <1>6, <3>1, PartClosedCases, Zenon
  <2> QED BY <1>6, <1>e, <2>1, <2>4, <2>3, GoOnType DEF PartClosed, BusTypeOK, BusRecord
<1>7. ASSUME NEW t \in Task, SenderClosed(t) PROVE BusTypeOK'
  <2>1. stage[t] \in Part
    BY <1>7 DEF SenderClosed, Part
  <2>2. sdk' \in [Part -> [Name -> {"closed", "open"}]]
    BY <1>7, <1>c, <1>e, <2>1 DEF SenderClosed, Part
  <2> QED BY <1>7, <1>a, <1>e, <2>1, <2>2 DEF SenderClosed, At, BusTypeOK, Part
<1>8. ASSUME NEW t \in Task, SenderCredentialClosed(t) PROVE BusTypeOK'
  <2>1. stage[t] \in Part
    BY <1>8 DEF SenderCredentialClosed, Part
  <2>2. bus' \in [Object -> BusRecord] /\ sdk' \in [Part -> [Name -> {"closed", "open"}]]
    BY <1>8, <1>b, <1>c, <1>e, <2>1 DEF SenderCredentialClosed, BusRecord, Part
  <2>3. PICK n \in 0..3 : GoOn(t, object[t], n, bus')
    <3>1. 3 \in 0..3
      OBVIOUS
    <3> QED BY <1>8, <3>1, Zenon DEF SenderCredentialClosed
  <2> QED BY <1>8, <1>e, <2>1, <2>2, <2>3, GoOnType
          DEF SenderCredentialClosed, BusTypeOK, BusRecord
<1>9. ASSUME NEW t \in Task, BusCloseRaises(t) PROVE BusTypeOK'
  <2>1. sdk' \in [Part -> [Name -> {"closed", "open"}]]
    BY <1>9, <1>c, <1>e DEF BusCloseRaises
  <2> QED BY <1>9, <2>1 DEF BusCloseRaises, At, BusTypeOK, Part
<1>10. CASE UNCHANGED busVars
  BY <1>10 DEF busVars, busTasks, BusTypeOK
<1> QED BY <1>1, <1>2, <1>3, <1>4, <1>5, <1>6, <1>7, <1>8, <1>9, <1>10 DEF BusNext

\* service_bus.py:86-160: the attributes of the objects are of the types the methods rely on,
\* and a task that awaits a close() awaits that of something, in some object.
THEOREM BusTypeCorrect == BusSpec => []BusTypeOK
<1>1. BusInit => BusTypeOK
  <2> SUFFICES ASSUME BusInit PROVE BusTypeOK
    OBVIOUS
  <2>1. bus \in [Object -> BusRecord]
    BY DEF BusInit, NewObject, BusRecord
  <2>2. proxied \in Object \cup {None}
    BY DEF BusInit, Object
  <2>3. sdk \in [Part -> [Name -> {"closed", "open"}]]
    BY DEF BusInit
  <2>4. \A t \in Task : stage[t] = "idle" /\ hold[t] = None
    BY DEF BusInit
  <2> QED BY <2>1, <2>2, <2>3, <2>4 DEF BusInit, BusTypeOK, BusRecord, Part
<1> QED BY <1>1, BusStepKeepsType, PTL DEF BusSpec

-----------------------------------------------------------------------------
(* What an object keeps *)

\* The objects of the managed client have the one receiver they are named after and no
\* sender; there is one object without it.  A task closes parts of such an object.
OneObject ==
    /\ \A o \in Object : /\ bus[o].receiver = None \/ (IF Managed THEN bus[o].receiver = o ELSE o = "direct")
                         /\ bus[o].credential = None \/ (IF Managed THEN bus[o].credential = o ELSE o = "direct")
                         /\ bus[o].sender = None \/ (~Managed /\ o = "direct")
    /\ \A t \in Task : stage[t] \in Part =>
         IF Managed THEN object[t] = hold[t] ELSE object[t] = "direct"
    /\ proxied # None => (~Managed <=> proxied = "direct")

LEMMA GoOnKeepsOne ==
    ASSUME BusTypeOK, OneObject, NEW t \in Task, NEW o \in Object, NEW n \in 0..3,
           GoOn(t, o, n, bus'), usage' = usage, bus' \in [Object -> BusRecord],
           \A p \in Object : /\ bus'[p].receiver \in {None, bus[p].receiver}
                             /\ bus'[p].credential \in {None, bus[p].credential}
                             /\ bus'[p].sender \in {None, bus[p].sender}
    PROVE  OneObject'
<1>1. Managed' = Managed
  BY DEF Managed
<1>2. \A p \in Object :
        /\ bus'[p].receiver = None \/ (IF Managed THEN bus'[p].receiver = p ELSE p = "direct")
        /\ bus'[p].credential = None \/ (IF Managed THEN bus'[p].credential = p ELSE p = "direct")
        /\ bus'[p].sender = None \/ (~Managed /\ p = "direct")
  BY DEF OneObject
<1>3. CASE At(t, "idle", None, None) /\ proxied' = IF Managed THEN None ELSE proxied
  BY <1>1, <1>2, <1>3 DEF OneObject, At, BusTypeOK, Part
<1>4. ASSUME proxied' = proxied, NEW l \in Part, NEW k, At(t, l, o, k),
             k # None, k \in {bus'[o].receiver, bus'[o].credential, bus'[o].sender}
      PROVE  OneObject'
  <2>1. IF Managed THEN o = k ELSE o = "direct"
    BY <1>2, <1>4
  <2> QED BY <1>1, <1>2, <1>4, <2>1 DEF OneObject, At, BusTypeOK
<1> QED BY <1>3, <1>4, GoOnCases DEF Part

LEMMA StepKeepsOne == BusTypeOK /\ OneObject /\ [BusNext]_busVars => OneObject'
<1> SUFFICES ASSUME BusTypeOK, BusTypeOK', OneObject, [BusNext]_busVars PROVE OneObject'
  BY BusStepKeepsType
<1>a. bus \in [Object -> BusRecord] /\ bus' \in [Object -> BusRecord]
  BY DEF BusTypeOK, BusRecord
<1>b. "direct" \in Object /\ Name \subseteq Object /\ None \notin Name /\ None # "direct"
      /\ "direct" \notin Name
  BY TasksAssumption DEF Object
<1>1. ASSUME NEW t \in Task, GetReceiver(t) PROVE OneObject'
  <2>1. PICK k \in Name :
          /\ \/ bus' = bus
             \/ bus' = [bus EXCEPT !["direct"].receiver = k,
                                   !["direct"].credential = IF Factory THEN k ELSE @]
          /\ At(t, "using", None, k)
    BY <1>1 DEF GetReceiver, NewReceiver
  <2>2. ~Managed /\ Managed' = Managed /\ proxied' = proxied
    BY <1>1 DEF GetReceiver, Managed
  <2> QED BY <1>a, <1>b, <2>1, <2>2 DEF OneObject, At, BusTypeOK, BusRecord, Part
<1>2. ASSUME NEW t \in Task, ManagedGetReceiver(t) PROVE OneObject'
  <2>1. PICK k \in Name :
          /\ bus' = [bus EXCEPT ![k].receiver = k,
                                ![k].credential = IF Factory THEN k ELSE @]
          /\ proxied' = k
          /\ At(t, "using", None, k)
    BY <1>2 DEF ManagedGetReceiver, NewReceiver
  <2>2. Managed /\ Managed'
    BY <1>2 DEF ManagedGetReceiver, Managed
  <2> QED BY <1>a, <1>b, <2>1, <2>2 DEF OneObject, At, BusTypeOK, BusRecord, Part
<1>3. ASSUME NEW t \in Task, ReceiverUsed(t) PROVE OneObject'
  BY <1>3 DEF ReceiverUsed, OneObject, At, BusTypeOK, Part, Managed
<1>4. ASSUME NEW t \in Task, GetSender(t) PROVE OneObject'
  <2>1. PICK k \in Name : bus' = [bus EXCEPT !["direct"].sender = k]
    BY <1>4 DEF GetSender
  <2>2. ~Managed /\ Managed' = Managed /\ proxied' = proxied
    BY <1>4 DEF GetSender, Managed
  <2> QED BY <1>4, <1>a, <1>b, <2>1, <2>2 DEF OneObject, GetSender, busTasks, BusRecord
<1>5. ASSUME NEW t \in Task, CloseBus(t) PROVE OneObject'
  <2>1. proxied \in Object /\ GoOn(t, proxied, 0, bus) /\ bus' = bus /\ usage' = usage
    BY <1>5 DEF CloseBus, BusTypeOK
  <2>2. GoOn(t, proxied, 0, bus')
    BY <2>1
  <2> QED BY <1>a, <2>1, <2>2, GoOnKeepsOne
<1>6. ASSUME NEW t \in Task, PartClosed(t) PROVE OneObject'
  <2>1. stage[t] \in Part /\ usage' = usage
    BY <1>6, PartClosedCases DEF Part, PartClosed
  <2>2. object[t] \in Object
    BY <1>b, <2>1 DEF BusTypeOK
  <2>3. \/ bus' = [bus EXCEPT ![object[t]].receiver = None]
        \/ bus' = [bus EXCEPT ![object[t]].credential = None]
        \/ bus' = [bus EXCEPT ![object[t]].sender = None]
    BY <1>6, PartClosedCases
  <2>4. PICK n \in 0..3 : GoOn(t, object[t], n, bus')
    <3>1. 1 \in 0..3 /\ 2 \in 0..3 /\ 3 \in 0..3
      OBVIOUS
    <3> QED BY <1>6, <3>1, PartClosedCases, Zenon
  <2>5. \A p \in Object : /\ bus'[p].receiver \in {None, bus[p].receiver}
                          /\ bus'[p].credential \in {None, bus[p].credential}
                          /\ bus'[p].sender \in {None, bus[p].sender}
    BY <1>a, <2>2, <2>3 DEF BusRecord
  <2> QED BY <1>a, <2>1, <2>2, <2>4, <2>5, GoOnKeepsOne
<1>7. ASSUME NEW t \in Task, SenderClosed(t) PROVE OneObject'
  BY <1>7 DEF SenderClosed, OneObject, At, BusTypeOK, Part, Managed
<1>8. ASSUME NEW t \in Task, SenderCredentialClosed(t) PROVE OneObject'
  <2>1. stage[t] \in Part /\ usage' = usage
    BY <1>8 DEF Part, SenderCredentialClosed
  <2>2. object[t] \in Object
    BY <1>b, <2>1 DEF BusTypeOK
  <2>3. bus' = [bus EXCEPT ![object[t]].sender = None]
    BY <1>8 DEF SenderCredentialClosed
  <2>4. PICK n \in 0..3 : GoOn(t, object[t], n, bus')
    <3>1. 3 \in 0..3
      OBVIOUS
    <3> QED BY <1>8, <3>1, Zenon DEF SenderCredentialClosed
  <2>5. \A p \in Object : /\ bus'[p].receiver \in {None, bus[p].receiver}
                          /\ bus'[p].credential \in {None, bus[p].credential}
                          /\ bus'[p].sender \in {None, bus[p].sender}
    BY <1>a, <2>2, <2>3 DEF BusRecord
  <2> QED BY <1>a, <2>1, <2>2, <2>4, <2>5, GoOnKeepsOne
<1>9. ASSUME NEW t \in Task, BusCloseRaises(t) PROVE OneObject'
  BY <1>9 DEF BusCloseRaises, OneObject, At, BusTypeOK, Part, Managed
<1>10. CASE UNCHANGED busVars
  BY <1>10 DEF busVars, busTasks, OneObject, Managed
<1> QED BY <1>1, <1>2, <1>3, <1>4, <1>5, <1>6, <1>7, <1>8, <1>9, <1>10 DEF BusNext

\* A step of close() that is not the end of SenderClosed() leaves every other task where
\* it is, and no task at senderCredential.
LEMMA GoOnLeavesOthers ==
    ASSUME BusTypeOK, NEW t \in Task, NEW o, NEW n \in 0..3, NEW b, GoOn(t, o, n, b)
    PROVE  /\ \A u \in Task \ {t} : /\ stage'[u] = stage[u]
                                    /\ object'[u] = object[u]
                                    /\ hold'[u] = hold[u]
           /\ stage'[t] # "senderCredential"
<1>1. ASSUME NEW l, NEW q, NEW k, At(t, l, q, k), l # "senderCredential"
      PROVE  /\ \A u \in Task \ {t} : /\ stage'[u] = stage[u]
                                      /\ object'[u] = object[u]
                                      /\ hold'[u] = hold[u]
             /\ stage'[t] # "senderCredential"
  BY <1>1 DEF At, BusTypeOK
<1>2. CASE At(t, "idle", None, None)
  BY <1>1, <1>2
<1>3. CASE At(t, "receiver", o, b[o].receiver)
  BY <1>1, <1>3
<1>4. CASE At(t, "credential", o, b[o].credential)
  BY <1>1, <1>4
<1>5. CASE At(t, "sender", o, b[o].sender)
  BY <1>1, <1>5
<1> QED BY <1>2, <1>3, <1>4, <1>5, GoOnCases

LEMMA StepKeepsKept ==
    BusTypeOK /\ OneObject /\ KeptIsOpen /\ [BusNext]_busVars => KeptIsOpen'
<1> SUFFICES ASSUME BusTypeOK, OneObject, KeptIsOpen, [BusNext]_busVars, Undisturbed'
             PROVE  (\A o \in Object : \A k \in Name :
                       /\ bus[o].receiver = k => sdk["receiver"][k] = "open"
                       /\ bus[o].sender = k =>
                            \/ sdk["sender"][k] = "open"
                            \/ \E t \in Task : Closes(t, "senderCredential", k) /\ object[t] = o)'
  BY DEF KeptIsOpen
<1>a. bus \in [Object -> BusRecord] /\ sdk \in [Part -> [Name -> {"closed", "open"}]]
  BY DEF BusTypeOK, BusRecord
<1>b. "direct" \in Object /\ Name \subseteq Object /\ None \notin Name /\ None # "direct"
      /\ "direct" \notin Name
  BY TasksAssumption DEF Object
<1>c. usage' = usage
  BY DEF BusNext, GetReceiver, ManagedGetReceiver, ReceiverUsed, GetSender, CloseBus,
         PartClosed, SenderClosed, SenderCredentialClosed, BusCloseRaises, busVars
<1>d. Undisturbed /\ "fails" \notin usage /\ "exits" \notin usage
  BY <1>c DEF Undisturbed
<1>e. \A o \in Object : \A k \in Name :
        /\ bus[o].receiver = k => sdk["receiver"][k] = "open"
        /\ bus[o].sender = k =>
             \/ sdk["sender"][k] = "open"
             \/ \E t \in Task : Closes(t, "senderCredential", k) /\ object[t] = o
  BY <1>d DEF KeptIsOpen
<1> DEFINE Kept == (\A o \in Object : \A k \in Name :
                      /\ bus[o].receiver = k => sdk["receiver"][k] = "open"
                      /\ bus[o].sender = k =>
                           \/ sdk["sender"][k] = "open"
                           \/ \E t \in Task : Closes(t, "senderCredential", k) /\ object[t] = o)'
<1>f. ASSUME NEW o \in Object, NEW k \in Name, NewReceiver(o, k), NEW t \in Task,
             NEW l, stage[t] = "idle", At(t, l, None, k)
      PROVE  Kept
  <2>1. /\ bus' \in [Object -> BusRecord]
        /\ \A p \in Object : /\ bus'[p].receiver = bus[p].receiver \/ bus'[p].receiver = k
                             /\ bus'[p].sender = bus[p].sender
    BY <1>a, <1>f DEF NewReceiver, BusRecord
  <2>2. /\ sdk'["sender"] = sdk["sender"]
        /\ sdk'["receiver"] = [sdk["receiver"] EXCEPT ![k] = "open"]
    BY <1>a, <1>f DEF NewReceiver, Opened, Part
  <2>3. \A u \in Task : stage[u] = "senderCredential" =>
          stage'[u] = stage[u] /\ object'[u] = object[u] /\ hold'[u] = hold[u]
    BY <1>f DEF At, BusTypeOK
  <2>4. sdk["receiver"] \in [Name -> {"closed", "open"}]
    BY <1>a DEF Part
  <2> QED BY <1>e, <2>1, <2>2, <2>3, <2>4 DEF Closes
<1>1. ASSUME NEW t \in Task, GetReceiver(t) PROVE Kept
  <2>1. PICK k \in Name :
          /\ \/ bus["direct"].receiver = k /\ UNCHANGED <<bus, sdk>>
             \/ bus["direct"].receiver = None /\ NewReceiver("direct", k)
          /\ At(t, "using", None, k)
    BY <1>1 DEF GetReceiver
  <2>2. stage[t] = "idle"
    BY <1>1 DEF GetReceiver
  <2>3. CASE UNCHANGED <<bus, sdk>>
    <3>1. \A u \in Task : stage[u] = "senderCredential" =>
            stage'[u] = stage[u] /\ object'[u] = object[u] /\ hold'[u] = hold[u]
      BY <2>1, <2>2 DEF At, BusTypeOK
    <3> QED BY <1>e, <2>3, <3>1 DEF Closes
  <2> QED BY <1>b, <1>f, <2>1, <2>2, <2>3
<1>2. ASSUME NEW t \in Task, ManagedGetReceiver(t) PROVE Kept
  BY <1>2, <1>b, <1>f DEF ManagedGetReceiver
<1>3. ASSUME NEW t \in Task, ReceiverUsed(t) PROVE Kept
  <2>1. bus' = bus /\ sdk' = sdk
    BY <1>3, <1>d DEF ReceiverUsed
  <2>2. \A u \in Task : stage[u] = "senderCredential" =>
          stage'[u] = stage[u] /\ object'[u] = object[u] /\ hold'[u] = hold[u]
    BY <1>3 DEF ReceiverUsed, At, BusTypeOK
  <2> QED BY <1>e, <2>1, <2>2 DEF Closes
<1>4. ASSUME NEW t \in Task, GetSender(t) PROVE Kept
  <2>1. PICK k \in Name : /\ bus' = [bus EXCEPT !["direct"].sender = k]
                          /\ sdk' = Opened("sender", "senderCredential", k)
    BY <1>4 DEF GetSender
  <2>2. \A p \in Object : /\ bus'[p].receiver = bus[p].receiver
                          /\ bus'[p].sender = bus[p].sender \/ bus'[p].sender = k
    BY <1>a, <1>b, <2>1 DEF BusRecord
  <2>3. /\ sdk'["receiver"] = sdk["receiver"]
        /\ sdk'["sender"] = [sdk["sender"] EXCEPT ![k] = "open"]
    BY <1>a, <2>1 DEF Opened, Part
  <2>4. sdk["sender"] \in [Name -> {"closed", "open"}]
    BY <1>a DEF Part
  <2> QED BY <1>4, <1>e, <2>2, <2>3, <2>4 DEF GetSender, busTasks, Closes
<1>5. ASSUME NEW t \in Task, CloseBus(t) PROVE Kept
  <2>1. bus' = bus /\ sdk' = sdk /\ stage[t] = "idle"
    BY <1>5 DEF CloseBus
  <2>2. \A u \in Task \ {t} : stage'[u] = stage[u] /\ object'[u] = object[u] /\ hold'[u] = hold[u]
    <3>1. 0 \in 0..3 /\ GoOn(t, proxied, 0, bus)
      BY <1>5 DEF CloseBus
    <3> QED BY <3>1, GoOnLeavesOthers
  <2> QED BY <1>e, <2>1, <2>2 DEF Closes
<1>6. ASSUME NEW t \in Task, PartClosed(t) PROVE Kept
  <2> DEFINE h == hold[t]
             q == object[t]
  <2>1. h \in Name /\ q \in Object /\ (IF Managed THEN q = h ELSE q = "direct")
    <3>1. stage[t] \in Part
      BY <1>6, PartClosedCases DEF Part
    <3>2. object[t] \in Object /\ hold[t] \in Name
      BY <3>1, <1>b DEF BusTypeOK, Part
    <3> QED BY <3>1, <3>2 DEF OneObject
  <2>2. \A u \in Task : stage[u] = "senderCredential" =>
          stage'[u] = stage[u] /\ object'[u] = object[u] /\ hold'[u] = hold[u]
    <3>1. 1 \in 0..3 /\ 2 \in 0..3 /\ 3 \in 0..3
      OBVIOUS
    <3>2. PICK n \in 0..3 : GoOn(t, object[t], n, bus')
      BY <1>6, <3>1, PartClosedCases, Zenon
    <3>3. stage[t] # "senderCredential"
      BY <1>6, PartClosedCases
    <3> QED BY <3>2, <3>3, GoOnLeavesOthers
  <2>3. CASE /\ sdk' = [sdk EXCEPT !["receiver"][h] = "closed"]
             /\ bus' = [bus EXCEPT ![q].receiver = None]
    <3>1. \A p \in Object \ {q} : bus[p].receiver # h
      BY <1>a, <1>b, <2>1 DEF OneObject
    <3>2. \A p \in Object : /\ bus'[p].sender = bus[p].sender
                            /\ bus'[p].receiver = IF p = q THEN None ELSE bus[p].receiver
      BY <1>a, <2>1, <2>3 DEF BusRecord
    <3>3. /\ sdk'["receiver"] = [sdk["receiver"] EXCEPT ![h] = "closed"]
          /\ sdk'["sender"] = sdk["sender"]
      BY <1>a, <2>3 DEF Part
    <3>4. sdk["receiver"] \in [Name -> {"closed", "open"}]
      BY <1>a DEF Part
    <3> HIDE DEF h, q
    <3> QED BY <1>b, <1>e, <2>2, <3>1, <3>2, <3>3, <3>4 DEF Closes
  <2>4. CASE /\ sdk' = [sdk EXCEPT !["credential"][h] = "closed"]
             /\ bus' = [bus EXCEPT ![q].credential = None]
    <3>1. \A p \in Object : /\ bus'[p].sender = bus[p].sender
                            /\ bus'[p].receiver = bus[p].receiver
      BY <1>a, <2>1, <2>4 DEF BusRecord
    <3>2. sdk'["receiver"] = sdk["receiver"] /\ sdk'["sender"] = sdk["sender"]
      BY <1>a, <2>4 DEF Part
    <3> QED BY <1>e, <2>2, <3>1, <3>2 DEF Closes
  <2>5. CASE /\ sdk' = [sdk EXCEPT !["sender"][h] = "closed"]
             /\ bus' = [bus EXCEPT ![q].sender = None]
    <3>1. \A p \in Object \ {q} : bus[p].sender # h
      BY <1>a, <1>b, <2>1 DEF OneObject
    <3>2. \A p \in Object : /\ bus'[p].receiver = bus[p].receiver
                            /\ bus'[p].sender = IF p = q THEN None ELSE bus[p].sender
      BY <1>a, <2>1, <2>5 DEF BusRecord
    <3>3. /\ sdk'["sender"] = [sdk["sender"] EXCEPT ![h] = "closed"]
          /\ sdk'["receiver"] = sdk["receiver"]
      BY <1>a, <2>5 DEF Part
    <3>4. sdk["sender"] \in [Name -> {"closed", "open"}]
      BY <1>a DEF Part
    <3> HIDE DEF h, q
    <3> QED BY <1>b, <1>e, <2>2, <3>1, <3>2, <3>3, <3>4 DEF Closes
  <2> QED BY <1>6, <2>3, <2>4, <2>5, PartClosedCases
<1>7. ASSUME NEW t \in Task, SenderClosed(t) PROVE Kept
  <2> DEFINE h == hold[t]
             q == object[t]
  <2>1. h \in Name /\ q \in Object /\ (IF Managed THEN q = h ELSE q = "direct")
    BY <1>7, <1>b DEF SenderClosed, BusTypeOK, OneObject, Part
  <2>2. /\ sdk'["sender"] = [sdk["sender"] EXCEPT ![h] = "closed"]
        /\ sdk'["receiver"] = sdk["receiver"]
    BY <1>7, <1>a DEF SenderClosed, Part
  <2>3. bus' = bus /\ stage'[t] = "senderCredential" /\ hold'[t] = h /\ object'[t] = q
    BY <1>7 DEF SenderClosed, At, BusTypeOK
  <2>4. \A u \in Task : stage[u] = "senderCredential" =>
          stage'[u] = stage[u] /\ object'[u] = object[u] /\ hold'[u] = hold[u]
    BY <1>7 DEF SenderClosed, At, BusTypeOK
  <2>5. \A p \in Object \ {q} : bus[p].sender # h
    BY <1>a, <1>b, <2>1 DEF OneObject
  <2>6. sdk["sender"] \in [Name -> {"closed", "open"}]
    BY <1>a DEF Part
  <2> HIDE DEF h, q
  <2>7. ASSUME NEW o \in Object, NEW k \in Name, bus[o].sender = k
        PROVE  \/ sdk'["sender"][k] = "open"
               \/ \E u \in Task : Closes(u, "senderCredential", k)' /\ object'[u] = o
    <3>1. CASE k = h
      <4>1. o = q
        BY <2>5, <2>7, <3>1
      <4> QED BY <2>3, <3>1, <4>1 DEF Closes
    <3>2. CASE k # h
      <4>1. sdk["sender"][k] = "open" => sdk'["sender"][k] = "open"
        BY <2>2, <2>6, <3>2
      <4>2. ASSUME NEW u \in Task, Closes(u, "senderCredential", k), object[u] = o
            PROVE  Closes(u, "senderCredential", k)' /\ object'[u] = o
        BY <2>4, <4>2 DEF Closes
      <4> QED BY <1>e, <2>7, <4>1, <4>2
    <3> QED BY <3>1, <3>2
  <2> QED BY <1>e, <2>2, <2>3, <2>7
<1>8. ASSUME NEW t \in Task, SenderCredentialClosed(t) PROVE Kept
  <2> DEFINE q == object[t]
  <2>1. q \in Object /\ (IF Managed THEN q = hold[t] ELSE q = "direct")
    BY <1>8, <1>b DEF SenderCredentialClosed, BusTypeOK, OneObject, Part
  <2>2. \A u \in Task \ {t} : stage'[u] = stage[u] /\ object'[u] = object[u] /\ hold'[u] = hold[u]
    <3>1. 3 \in 0..3 /\ GoOn(t, object[t], 3, bus')
      BY <1>8 DEF SenderCredentialClosed
    <3> QED BY <3>1, GoOnLeavesOthers
  <2>3. sdk'["receiver"] = sdk["receiver"] /\ sdk'["sender"] = sdk["sender"]
    BY <1>8, <1>a DEF SenderCredentialClosed, Part
  <2>4. \A p \in Object : /\ bus'[p].receiver = bus[p].receiver
                          /\ bus'[p].sender = IF p = q THEN None ELSE bus[p].sender
    BY <1>8, <1>a, <2>1 DEF SenderCredentialClosed, BusRecord
  <2> HIDE DEF q
  <2>5. ASSUME NEW o \in Object, NEW k \in Name, bus'[o].sender = k
        PROVE  \/ sdk'["sender"][k] = "open"
               \/ \E u \in Task : Closes(u, "senderCredential", k)' /\ object'[u] = o
    <3>1. o # q /\ bus[o].sender = k
      BY <1>b, <2>4, <2>5
    <3>2. CASE sdk["sender"][k] = "open"
      BY <2>3, <3>2
    <3>3. ASSUME NEW u \in Task, Closes(u, "senderCredential", k), object[u] = o
          PROVE  Closes(u, "senderCredential", k)' /\ object'[u] = o
      <4>1. u # t
        BY <3>1, <3>3 DEF q
      <4> QED BY <2>2, <3>3, <4>1 DEF Closes
    <3> QED BY <1>e, <3>1, <3>2, <3>3
  <2>6. \A o \in Object : \A k \in Name : bus'[o].receiver = k => sdk'["receiver"][k] = "open"
    BY <1>e, <2>3, <2>4
  <2> QED BY <2>5, <2>6
<1>9. ASSUME NEW t \in Task, BusCloseRaises(t) PROVE FALSE
  BY <1>9, <1>d DEF BusCloseRaises
<1>10. CASE UNCHANGED busVars
  BY <1>10, <1>e DEF busVars, busTasks, Closes
<1> QED BY <1>1, <1>2, <1>3, <1>4, <1>5, <1>6, <1>7, <1>8, <1>9, <1>10 DEF BusNext

\* service_bus.py:142-151: whatever get_receiver(), get_sender() and close() calls overlap,
\* an object keeps no closed receiver and, but for the moment in which the credential of
\* its sender is closed, no closed sender.
THEOREM KeptStaysOpen == BusSpec => []KeptIsOpen
<1>1. BusInit => OneObject /\ KeptIsOpen
  BY TasksAssumption DEF BusInit, OneObject, KeptIsOpen, NewObject, Object, Managed, Part
<1> QED BY <1>1, BusTypeCorrect, StepKeepsOne, StepKeepsKept, PTL DEF BusSpec

-----------------------------------------------------------------------------
(* One task that closes *)

\* The part that is being closed is the one the object keeps, what is open is kept, and
\* a credential is closed behind its client.
CloseIsOrdered ==
    /\ \A t \in Task :
         /\ stage[t] \in Part => t \in Closer
         /\ stage[t] = "receiver" => bus["direct"].receiver = hold[t]
         /\ stage[t] \in {"sender", "senderCredential"} => bus["direct"].sender = hold[t]
         /\ stage[t] = "senderCredential" => Factory /\ sdk["sender"][hold[t]] # "open"
         /\ Factory /\ stage[t] = "credential" => sdk["receiver"][hold[t]] # "open"
    /\ \A k \in Name :
         /\ sdk["receiver"][k] = "open" => bus["direct"].receiver = k
         /\ sdk["sender"][k] = "open" => bus["direct"].sender = k
         /\ Factory /\ sdk["receiver"][k] = "open" => sdk["credential"][k] = "open"
         /\ Factory /\ sdk["sender"][k] = "open" => sdk["senderCredential"][k] = "open"

\* After a step of close() the next part is one the object keeps.
LEMMA GoOnIsOrdered ==
    ASSUME BusTypeOK, BusTypeOK', NEW t \in Closer, NEW n \in 0..3, GoOn(t, "direct", n, bus'),
           \A u \in Task \ {t} : stage[u] \notin Part,
           Factory' = Factory,
           \A k \in Name :
             /\ sdk'["receiver"][k] = "open" => bus'["direct"].receiver = k
             /\ sdk'["sender"][k] = "open" => bus'["direct"].sender = k
             /\ Factory /\ sdk'["receiver"][k] = "open" => sdk'["credential"][k] = "open"
             /\ Factory /\ sdk'["sender"][k] = "open" => sdk'["senderCredential"][k] = "open",
           n = 1 /\ Factory => \A k \in Name : sdk'["receiver"][k] # "open"
    PROVE  CloseIsOrdered'
<1>a. t \in Task /\ None \notin Name
  BY TasksAssumption
<1>b. bus'["direct"] \in BusRecord
  BY DEF BusTypeOK, BusRecord, Object
<1>1. \A u \in Task \ {t} : stage'[u] \notin Part
  BY <1>a, GoOnLeavesOthers
<1>2. CASE At(t, "idle", None, None)
  BY <1>a, <1>1, <1>2 DEF CloseIsOrdered, At, BusTypeOK, Part
<1>3. CASE /\ bus'["direct"].receiver # None
           /\ At(t, "receiver", "direct", bus'["direct"].receiver)
  BY <1>a, <1>1, <1>3 DEF CloseIsOrdered, At, BusTypeOK, Part
<1>4. CASE /\ n <= 1 /\ (n = 0 => bus'["direct"].receiver = None)
           /\ bus'["direct"].credential # None
           /\ At(t, "credential", "direct", bus'["direct"].credential)
  <2>1. bus'["direct"].credential \in Name
    BY <1>b, <1>4 DEF BusRecord
  <2>2. Factory => sdk'["receiver"][bus'["direct"].credential] # "open"
    BY <1>a, <1>4, <2>1
  <2> QED BY <1>a, <1>1, <1>4, <2>1, <2>2 DEF CloseIsOrdered, At, BusTypeOK, Part
<1>5. CASE /\ bus'["direct"].sender # None
           /\ At(t, "sender", "direct", bus'["direct"].sender)
  BY <1>a, <1>1, <1>5 DEF CloseIsOrdered, At, BusTypeOK, Part
<1> QED BY <1>2, <1>3, <1>4, <1>5, GoOnCases

LEMMA StepKeepsOrder ==
    ASSUME Orderly, BusTypeOK, OneObject, CloseIsOrdered, [BusNext]_busVars
    PROVE  CloseIsOrdered'
<1>a. BusTypeOK' /\ OneObject'
  BY BusStepKeepsType, StepKeepsOne
<1>b. /\ bus \in [Object -> BusRecord] /\ sdk \in [Part -> [Name -> {"closed", "open"}]]
      /\ \A p \in Part : sdk[p] \in [Name -> {"closed", "open"}]
  BY DEF BusTypeOK, BusRecord
<1>c. "direct" \in Object /\ Name \subseteq Object /\ None \notin Name /\ Closer \subseteq Task
  BY TasksAssumption DEF Object
<1>d. usage' = usage /\ Factory' = Factory /\ ~Managed /\ "fails" \notin usage /\ "crowd" \notin usage
  BY DEF BusNext, GetReceiver, ManagedGetReceiver, ReceiverUsed, GetSender, CloseBus, Orderly,
         PartClosed, SenderClosed, SenderCredentialClosed, BusCloseRaises, busVars, Managed, Factory
<1>e. ASSUME NEW t \in Task, stage[t] \in Part
      PROVE  /\ t \in Closer /\ object[t] = "direct" /\ hold[t] \in Name
             /\ \A u \in Task \ {t} : stage[u] \notin Part
  BY <1>c, <1>d, <1>e DEF CloseIsOrdered, OneObject, BusTypeOK, Orderly, Part
<1>1. ASSUME NEW t \in Task, GetReceiver(t) PROVE CloseIsOrdered'
  <2>1. PICK k \in Name :
          /\ \/ bus["direct"].receiver = k /\ UNCHANGED <<bus, sdk>>
             \/ bus["direct"].receiver = None /\ NewReceiver("direct", k)
          /\ At(t, "using", None, k)
    BY <1>1 DEF GetReceiver
  <2>2. /\ stage'[t] = "using"
        /\ \A u \in Task \ {t} : stage'[u] = stage[u] /\ hold'[u] = hold[u]
    BY <2>1 DEF At, BusTypeOK
  <2>3. CASE UNCHANGED <<bus, sdk>>
    BY <1>d, <2>2, <2>3 DEF CloseIsOrdered, Part
  <2>4. CASE bus["direct"].receiver = None /\ NewReceiver("direct", k)
    <3>1. /\ bus'["direct"].receiver = k
          /\ bus'["direct"].sender = bus["direct"].sender
      BY <1>b, <1>c, <2>4 DEF NewReceiver, BusRecord
    <3>2. /\ sdk'["receiver"] = [sdk["receiver"] EXCEPT ![k] = "open"]
          /\ sdk'["credential"] = [sdk["credential"] EXCEPT ![k] = IF Factory THEN "open" ELSE @]
          /\ sdk'["sender"] = sdk["sender"]
          /\ sdk'["senderCredential"] = sdk["senderCredential"]
      BY <1>b, <2>4 DEF NewReceiver, Opened, Part
    <3>3. /\ \A u \in Task : hold[u] # k
          /\ \A j \in Name : sdk["receiver"][j] # "open"
      BY <1>c, <2>4 DEF NewReceiver, FreshName, CloseIsOrdered
    <3>4. \A u \in Task : stage[u] # "receiver"
      BY <1>c, <1>e, <2>4 DEF CloseIsOrdered, Part
    <3>5. /\ sdk["receiver"] \in [Name -> {"closed", "open"}]
          /\ sdk["credential"] \in [Name -> {"closed", "open"}]
      BY <1>b DEF Part
    <3>6. \A u \in Task : stage'[u] \in Part =>
            u # t /\ stage'[u] = stage[u] /\ hold'[u] = hold[u]
      BY <2>2 DEF Part
    <3>7. \A u \in Task :
            /\ stage'[u] \in Part => u \in Closer
            /\ stage'[u] = "receiver" => bus'["direct"].receiver = hold'[u]
            /\ stage'[u] \in {"sender", "senderCredential"} => bus'["direct"].sender = hold'[u]
            /\ stage'[u] = "senderCredential" => Factory /\ sdk'["sender"][hold'[u]] # "open"
            /\ Factory /\ stage'[u] = "credential" => sdk'["receiver"][hold'[u]] # "open"
      BY <1>e, <3>1, <3>2, <3>3, <3>4, <3>5, <3>6 DEF CloseIsOrdered, Part
    <3>8. \A j \in Name :
            /\ sdk'["receiver"][j] = "open" => bus'["direct"].receiver = j
            /\ sdk'["sender"][j] = "open" => bus'["direct"].sender = j
            /\ Factory /\ sdk'["receiver"][j] = "open" => sdk'["credential"][j] = "open"
            /\ Factory /\ sdk'["sender"][j] = "open" => sdk'["senderCredential"][j] = "open"
      BY <3>1, <3>2, <3>3, <3>5 DEF CloseIsOrdered
    <3> QED BY <1>d, <3>7, <3>8 DEF CloseIsOrdered
  <2> QED BY <2>1, <2>3, <2>4
<1>2. ASSUME NEW t \in Task, ManagedGetReceiver(t) PROVE FALSE
  BY <1>2, <1>d DEF ManagedGetReceiver
<1>3. ASSUME NEW t \in Task, ReceiverUsed(t) PROVE CloseIsOrdered'
  <2>1. /\ bus' = bus /\ stage'[t] = "idle"
        /\ \A u \in Task \ {t} : stage'[u] = stage[u] /\ hold'[u] = hold[u]
    BY <1>3 DEF ReceiverUsed, At, BusTypeOK
  <2>2. /\ \A p \in {"credential", "sender", "senderCredential"} : sdk'[p] = sdk[p]
        /\ \A k \in Name : sdk'["receiver"][k] = "open" => sdk["receiver"][k] = "open"
    BY <1>3, <1>b DEF ReceiverUsed, Part
  <2>3. \A u \in Task : Factory /\ stage'[u] = "credential" => sdk'["receiver"][hold'[u]] # "open"
    BY <1>e, <2>1, <2>2 DEF CloseIsOrdered, Part
  <2> QED BY <1>d, <2>1, <2>2, <2>3 DEF CloseIsOrdered, Part
<1>4. ASSUME NEW t \in Task, GetSender(t) PROVE CloseIsOrdered'
  <2>1. PICK k \in Name : /\ FreshName(k)
                          /\ bus' = [bus EXCEPT !["direct"].sender = k]
                          /\ sdk' = Opened("sender", "senderCredential", k)
    BY <1>4 DEF GetSender
  <2>2. /\ bus'["direct"].receiver = bus["direct"].receiver
        /\ bus'["direct"].sender = k
    BY <1>b, <1>c, <2>1 DEF BusRecord
  <2>3. /\ sdk'["sender"] = [sdk["sender"] EXCEPT ![k] = "open"]
        /\ sdk'["senderCredential"]
             = [sdk["senderCredential"] EXCEPT ![k] = IF Factory THEN "open" ELSE @]
        /\ sdk'["receiver"] = sdk["receiver"]
        /\ sdk'["credential"] = sdk["credential"]
    BY <1>b, <2>1 DEF Opened, Part
  <2>4. \A u \in Task : stage[u] \notin {"sender", "senderCredential"}
    BY <1>4, <1>c, <1>e DEF GetSender, CloseIsOrdered, Part
  <2>5. /\ sdk["sender"] \in [Name -> {"closed", "open"}]
        /\ sdk["senderCredential"] \in [Name -> {"closed", "open"}]
    BY <1>b DEF Part
  <2>6. \A j \in Name : sdk["sender"][j] # "open"
    BY <1>4, <1>c DEF GetSender, CloseIsOrdered
  <2> QED BY <1>4, <1>d, <2>2, <2>3, <2>4, <2>5, <2>6 DEF GetSender, busTasks, CloseIsOrdered
<1>5. ASSUME NEW t \in Task, CloseBus(t) PROVE CloseIsOrdered'
  <2>1. t \in Closer /\ bus' = bus /\ sdk' = sdk /\ proxied = "direct" /\ stage[t] = "idle"
    BY <1>5, <1>d DEF CloseBus, OneObject
  <2>2. 0 \in 0..3 /\ GoOn(t, "direct", 0, bus')
    BY <1>5, <2>1 DEF CloseBus
  <2>3. \A u \in Task \ {t} : stage[u] \notin Part
    BY <1>c, <2>1 DEF CloseIsOrdered, Orderly
  <2> QED BY <1>a, <1>d, <2>1, <2>2, <2>3, GoOnIsOrdered DEF CloseIsOrdered
<1>6. ASSUME NEW t \in Task, PartClosed(t) PROVE CloseIsOrdered'
  <2> DEFINE h == hold[t]
  <2>1. stage[t] \in Part
    BY <1>6, PartClosedCases DEF Part
  <2>2. /\ t \in Closer /\ object[t] = "direct" /\ h \in Name
        /\ \A u \in Task \ {t} : stage[u] \notin Part
    BY <1>e, <2>1
  <2>3. CASE /\ stage[t] = "receiver"
             /\ sdk' = [sdk EXCEPT !["receiver"][h] = "closed"]
             /\ bus' = [bus EXCEPT !["direct"].receiver = None]
             /\ GoOn(t, "direct", 1, bus')
    <3>1. /\ sdk'["receiver"] = [sdk["receiver"] EXCEPT ![h] = "closed"]
          /\ \A p \in {"credential", "sender", "senderCredential"} : sdk'[p] = sdk[p]
      BY <1>b, <2>3 DEF Part
    <3>2. bus'["direct"].sender = bus["direct"].sender
      BY <1>b, <1>c, <2>3 DEF BusRecord
    <3>3. \A k \in Name : sdk'["receiver"][k] # "open"
      BY <1>b, <2>2, <2>3, <3>1 DEF CloseIsOrdered, Part
    <3>4. \A k \in Name :
            /\ sdk'["sender"][k] = "open" => bus'["direct"].sender = k
            /\ Factory /\ sdk'["sender"][k] = "open" => sdk'["senderCredential"][k] = "open"
      BY <3>1, <3>2 DEF CloseIsOrdered
    <3>5. 1 \in 0..3
      OBVIOUS
    <3> QED BY <1>a, <1>d, <2>2, <2>3, <3>3, <3>4, <3>5, GoOnIsOrdered
  <2>4. CASE /\ stage[t] = "credential"
             /\ sdk' = [sdk EXCEPT !["credential"][h] = "closed"]
             /\ bus' = [bus EXCEPT !["direct"].credential = None]
             /\ GoOn(t, "direct", 2, bus')
    <3>1. /\ sdk'["credential"] = [sdk["credential"] EXCEPT ![h] = "closed"]
          /\ \A p \in {"receiver", "sender", "senderCredential"} : sdk'[p] = sdk[p]
      BY <1>b, <2>4 DEF Part
    <3>2. /\ bus'["direct"].sender = bus["direct"].sender
          /\ bus'["direct"].receiver = bus["direct"].receiver
      BY <1>b, <1>c, <2>4 DEF BusRecord
    <3>3. Factory => sdk["receiver"][h] # "open"
      BY <2>4 DEF CloseIsOrdered
    <3>4. sdk["credential"] \in [Name -> {"closed", "open"}]
      BY <1>b DEF Part
    <3>5. \A k \in Name :
            /\ sdk'["receiver"][k] = "open" => bus'["direct"].receiver = k
            /\ sdk'["sender"][k] = "open" => bus'["direct"].sender = k
            /\ Factory /\ sdk'["receiver"][k] = "open" => sdk'["credential"][k] = "open"
            /\ Factory /\ sdk'["sender"][k] = "open" => sdk'["senderCredential"][k] = "open"
      <4> HIDE DEF h
      <4> QED BY <3>1, <3>2, <3>3, <3>4 DEF CloseIsOrdered
    <3>6. 2 \in 0..3 /\ ~(2 = 1)
      OBVIOUS
    <3> QED BY <1>a, <1>d, <2>2, <2>4, <3>5, <3>6, GoOnIsOrdered
  <2>5. CASE /\ stage[t] = "sender" /\ ~Factory
             /\ sdk' = [sdk EXCEPT !["sender"][h] = "closed"]
             /\ bus' = [bus EXCEPT !["direct"].sender = None]
             /\ GoOn(t, "direct", 3, bus')
    <3>1. /\ sdk'["sender"] = [sdk["sender"] EXCEPT ![h] = "closed"]
          /\ sdk'["receiver"] = sdk["receiver"]
      BY <1>b, <2>5 DEF Part
    <3>2. bus'["direct"].receiver = bus["direct"].receiver
      BY <1>b, <1>c, <2>5 DEF BusRecord
    <3>3. \A k \in Name : sdk'["sender"][k] # "open"
      BY <1>b, <2>2, <2>5, <3>1 DEF CloseIsOrdered, Part
    <3>4. \A k \in Name :
            /\ sdk'["receiver"][k] = "open" => bus'["direct"].receiver = k
            /\ sdk'["sender"][k] = "open" => bus'["direct"].sender = k
      BY <3>1, <3>2, <3>3 DEF CloseIsOrdered
    <3>5. 3 \in 0..3 /\ ~(3 = 1)
      OBVIOUS
    <3> QED BY <1>a, <1>d, <2>2, <2>5, <3>4, <3>5, GoOnIsOrdered
  <2> QED BY <1>6, <2>2, <2>3, <2>4, <2>5, PartClosedCases
<1>7. ASSUME NEW t \in Task, SenderClosed(t) PROVE CloseIsOrdered'
  <2> DEFINE h == hold[t]
  <2>1. stage[t] = "sender" /\ Factory /\ bus' = bus
    BY <1>7 DEF SenderClosed
  <2>2. /\ t \in Closer /\ h \in Name
        /\ \A u \in Task \ {t} : stage[u] \notin Part
    BY <1>e, <2>1 DEF Part
  <2>3. /\ sdk'["sender"] = [sdk["sender"] EXCEPT ![h] = "closed"]
        /\ \A p \in {"receiver", "credential", "senderCredential"} : sdk'[p] = sdk[p]
    BY <1>7, <1>b DEF SenderClosed, Part
  <2>4. /\ stage'[t] = "senderCredential" /\ hold'[t] = h
        /\ \A u \in Task \ {t} : stage'[u] = stage[u] /\ hold'[u] = hold[u]
    BY <1>7 DEF SenderClosed, At, BusTypeOK
  <2>5. sdk["sender"] \in [Name -> {"closed", "open"}]
    BY <1>b DEF Part
  <2>6. bus["direct"].sender = h
    BY <2>1 DEF CloseIsOrdered
  <2> HIDE DEF h
  <2>7. \A u \in Task :
          /\ stage'[u] \in Part => u \in Closer
          /\ stage'[u] = "receiver" => bus'["direct"].receiver = hold'[u]
          /\ stage'[u] \in {"sender", "senderCredential"} => bus'["direct"].sender = hold'[u]
          /\ stage'[u] = "senderCredential" => Factory /\ sdk'["sender"][hold'[u]] # "open"
          /\ Factory /\ stage'[u] = "credential" => sdk'["receiver"][hold'[u]] # "open"
    BY <2>1, <2>2, <2>3, <2>4, <2>5, <2>6 DEF Part
  <2>8. \A k \in Name :
          /\ sdk'["receiver"][k] = "open" => bus'["direct"].receiver = k
          /\ sdk'["sender"][k] = "open" => bus'["direct"].sender = k
          /\ sdk'["receiver"][k] = "open" => sdk'["credential"][k] = "open"
          /\ sdk'["sender"][k] = "open" => sdk'["senderCredential"][k] = "open"
    BY <2>1, <2>3, <2>5 DEF CloseIsOrdered
  <2> QED BY <1>d, <2>7, <2>8 DEF CloseIsOrdered
<1>8. ASSUME NEW t \in Task, SenderCredentialClosed(t) PROVE CloseIsOrdered'
  <2> DEFINE h == hold[t]
  <2>1. stage[t] = "senderCredential"
    BY <1>8 DEF SenderCredentialClosed
  <2>2. /\ t \in Closer /\ object[t] = "direct" /\ h \in Name
        /\ \A u \in Task \ {t} : stage[u] \notin Part
    BY <1>e, <2>1 DEF Part
  <2>3. /\ bus' = [bus EXCEPT !["direct"].sender = None]
        /\ GoOn(t, "direct", 3, bus')
    BY <1>8, <2>2 DEF SenderCredentialClosed
  <2>4. /\ sdk'["receiver"] = sdk["receiver"]
        /\ sdk'["credential"] = sdk["credential"]
        /\ sdk'["sender"] = sdk["sender"]
    BY <1>8, <1>b DEF SenderCredentialClosed, Part
  <2>5. bus'["direct"].receiver = bus["direct"].receiver
    BY <1>b, <1>c, <2>3 DEF BusRecord
  <2>6. \A k \in Name : sdk["sender"][k] # "open"
    BY <2>1 DEF CloseIsOrdered
  <2>7. \A k \in Name :
          /\ sdk'["receiver"][k] = "open" => bus'["direct"].receiver = k
          /\ sdk'["sender"][k] # "open"
          /\ Factory /\ sdk'["receiver"][k] = "open" => sdk'["credential"][k] = "open"
    BY <2>4, <2>5, <2>6 DEF CloseIsOrdered
  <2>8. 3 \in 0..3 /\ ~(3 = 1)
    OBVIOUS
  <2> QED BY <1>a, <1>d, <2>2, <2>3, <2>7, <2>8, GoOnIsOrdered
<1>9. ASSUME NEW t \in Task, BusCloseRaises(t) PROVE FALSE
  BY <1>9, <1>d DEF BusCloseRaises
<1>10. CASE UNCHANGED busVars
  BY <1>10, <1>d DEF busVars, busTasks, CloseIsOrdered
<1> QED BY <1>1, <1>2, <1>3, <1>4, <1>5, <1>6, <1>7, <1>8, <1>9, <1>10 DEF BusNext

LEMMA OrderAlways == BusSpec => [](Orderly => CloseIsOrdered)
<1>1. BusInit => (Orderly => CloseIsOrdered) /\ OneObject
  BY TasksAssumption DEF BusInit, OneObject, CloseIsOrdered, NewObject, Object, Managed, Part
<1>2. BusTypeOK /\ OneObject /\ (Orderly => CloseIsOrdered) /\ [BusNext]_busVars
        => (Orderly => CloseIsOrdered)'
  <2> SUFFICES ASSUME BusTypeOK, OneObject, Orderly => CloseIsOrdered, [BusNext]_busVars, Orderly'
               PROVE  CloseIsOrdered'
    OBVIOUS
  <2>1. usage' = usage
    BY DEF BusNext, GetReceiver, ManagedGetReceiver, ReceiverUsed, GetSender, CloseBus,
           PartClosed, SenderClosed, SenderCredentialClosed, BusCloseRaises, busVars
  <2>2. Orderly
    BY <2>1 DEF Orderly
  <2> QED BY <2>2, StepKeepsOrder
<1> QED BY <1>1, <1>2, BusTypeCorrect, StepKeepsOne, PTL DEF BusSpec

\* service_bus.py:141-151: with one task that closes and no close() that raises,
\* get_receiver() and get_sender() while it closes strand no receiver and no sender.
THEOREM NothingIsStranded == BusSpec => []NothingStranded
<1>1. (Orderly => CloseIsOrdered) => NothingStranded
  BY DEF CloseIsOrdered, NothingStranded
<1> QED BY <1>1, OrderAlways, PTL

\* service_bus.py:45-54 and 142-147: there too, the credential of an open receiver or
\* sender is open.
THEOREM CredentialsAreOutlived == BusSpec => []CredentialsOutlive
<1>1. (Orderly => CloseIsOrdered) => CredentialsOutlive
  BY DEF CloseIsOrdered, CredentialsOutlive
<1> QED BY <1>1, OrderAlways, PTL
=============================================================================
