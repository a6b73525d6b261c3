------------------------------ MODULE ServiceBus ------------------------------
(***************************************************************************)
(* AzureServiceBus (clients/service_bus.py): a receiver and a sender that  *)
(* are created when somebody asks for them, kept, and closed by close();   *)
(* and ManagedAzureServiceBusSender.get_receiver(), which makes a new      *)
(* AzureServiceBus object at each call.  get_receiver() and get_sender()   *)
(* do not await, so they are atomic; close() is one action per await.      *)
(***************************************************************************)
EXTENDS Tasks, Naturals, Sequences

VARIABLES
    usage,    \* how the objects are used, fixed from the start
    bus,      \* the attributes of each AzureServiceBus object
    proxied,  \* _receiver_client of the managed client; "direct" without one
    sdk,      \* what has become of the SDK objects
    stage,    \* the await a task is suspended at
    object,   \* the AzureServiceBus object whose close() it runs
    hold      \* the SDK object it uses or closes

busTasks == <<stage, object, hold>>
busVars  == <<usage, bus, proxied, sdk, busTasks>>

\*   managed  by ManagedAzureServiceBusSender   factory  with a credential factory
\*   crowd    any task may call close()         fails    a close() may raise
\*   exits    receivers are used in `async with`, which closes them
Usage == {"managed", "factory", "crowd", "fails", "exits"}

Managed == "managed" \in usage
Factory == "factory" \in usage

\* An object of the managed client has the name of the one receiver it creates.
Object == Name \cup {"direct"}
Part   == {"receiver", "credential", "sender", "senderCredential"}

NewObject == [receiver |-> None, credential |-> None, sender |-> None]

BusTypeOK ==
    /\ usage \in SUBSET Usage
    /\ bus \in [Object -> [receiver   : Name \cup {None},
                           credential : Name \cup {None},
                           sender     : Name \cup {None}]]
    /\ proxied \in Object \cup {None}
    /\ sdk \in [Part -> [Name -> {"closed", "open"}]]
    /\ stage \in [Task -> Part \cup {"idle", "using"}]
    /\ object \in [Task -> Object \cup {None}]
    /\ hold \in [Task -> Name \cup {None}]
    /\ \A t \in Task : /\ stage[t] \in Part => object[t] # None
                       /\ stage[t] # "idle" <=> hold[t] # None

\* __init__() creates no SDK object.
BusInit ==
    /\ usage \in SUBSET Usage
    /\ bus = [o \in Object |-> NewObject]
    /\ proxied = IF Managed THEN None ELSE "direct"
    /\ sdk = [p \in Part |-> [k \in Name |-> "closed"]]
    /\ stage = [t \in Task |-> "idle"]
    /\ object = [t \in Task |-> None]
    /\ hold = [t \in Task |-> None]

-----------------------------------------------------------------------------
\* The name k may be used again: nothing refers to it and nothing of it is open.
FreshName(k) ==
    /\ \A p \in Part : sdk[p][k] = "closed"
    /\ \A o \in Object : \A a \in DOMAIN NewObject : bus[o][a] # k
    /\ proxied # k
    /\ \A t \in Task : hold[t] # k /\ object[t] # k

At(t, l, o, k) ==
    /\ stage' = [stage EXCEPT ![t] = l]
    /\ object' = [object EXCEPT ![t] = o]
    /\ hold' = [hold EXCEPT ![t] = k]

Opened(p, q, k) ==
    [sdk EXCEPT ![p][k] = "open", ![q][k] = IF Factory THEN "open" ELSE @]

\* get_receiver() of object o, which has none: a receiver k, with a credential of
\* its own if there is a factory.
NewReceiver(o, k) ==
    /\ FreshName(k)
    /\ bus' = [bus EXCEPT ![o].receiver = k,
                          ![o].credential = IF Factory THEN k ELSE @]
    /\ sdk' = Opened("receiver", "credential", k)

GetReceiver(t) ==
    /\ ~Managed
    /\ stage[t] = "idle"
    /\ \E k \in Name :
         /\ \/ bus["direct"].receiver = k /\ UNCHANGED <<bus, sdk>>
            \/ bus["direct"].receiver = None /\ NewReceiver("direct", k)
         /\ At(t, "using", None, k)
    /\ UNCHANGED <<usage, proxied>>

\* The same of the managed client: the object made before is forgotten.
ManagedGetReceiver(t) ==
    /\ Managed
    /\ stage[t] = "idle"
    /\ \E k \in Name : NewReceiver(k, k) /\ proxied' = k /\ At(t, "using", None, k)
    /\ UNCHANGED usage

\* The caller is done with the receiver: `async with` closes it.
ReceiverUsed(t) ==
    /\ stage[t] = "using"
    /\ sdk' = IF "exits" \in usage
              THEN [sdk EXCEPT !["receiver"][hold[t]] = "closed"] ELSE sdk
    /\ At(t, "idle", None, None)
    /\ UNCHANGED <<usage, bus, proxied>>

\* get_sender(), which send_message() begins with, when there is none.  The request that
\* follows touches nothing here.
GetSender(t) ==
    /\ ~Managed
    /\ stage[t] = "idle"
    /\ bus["direct"].sender = None
    /\ \E k \in Name :
         /\ FreshName(k)
         /\ bus' = [bus EXCEPT !["direct"].sender = k]
         /\ sdk' = Opened("sender", "senderCredential", k)
    /\ UNCHANGED <<usage, proxied, busTasks>>

-----------------------------------------------------------------------------
(* close() *)

\* Mutant: the credential of the receiver is closed first.
CredentialFirst == <<"credential", "receiver", "sender">>

CloseOrder == <<"receiver", "credential", "sender">>

\* Mutant: close() does not look whether there is anything to close.
GoOnUntested(t, o, n, b) ==
    \/ n = 3 /\ At(t, "idle", None, None) /\ proxied' = IF Managed THEN None ELSE proxied
    \/ n < 3 /\ At(t, CloseOrder[n+1], o, b[o][CloseOrder[n+1]]) /\ UNCHANGED proxied

\* What close() of object o does after its first n tests, its attributes being as
\* b says: it awaits the next close(), or returns.
GoOn(t, o, n, b) ==
    LET left == {i \in n+1..3 : b[o][CloseOrder[i]] # None}
    IN  \/ /\ left = {}
           /\ At(t, "idle", None, None)
           /\ proxied' = IF Managed THEN None ELSE proxied
        \/ \E i \in left :
             /\ \A j \in left : i <= j
             /\ At(t, CloseOrder[i], o, b[o][CloseOrder[i]])
             /\ UNCHANGED proxied

CloseBus(t) ==
    /\ t \in Closer \/ "crowd" \in usage
    /\ stage[t] = "idle"
    /\ proxied # None
    /\ GoOn(t, proxied, 0, bus)
    /\ UNCHANGED <<usage, bus, sdk>>

\* Mutant: the attribute is not reset.
PartClosedKept(t) ==
    \E n \in 1..3 :
        /\ stage[t] = CloseOrder[n] /\ (stage[t] = "sender" => ~Factory)
        /\ sdk' = [sdk EXCEPT ![stage[t]][hold[t]] = "closed"]
        /\ GoOn(t, object[t], n, bus)
        /\ UNCHANGED <<usage, bus>>

\* Mutant: all attributes are reset at once.
PartClosedForgetsAll(t) ==
    \E n \in 1..3 :
        /\ stage[t] = CloseOrder[n] /\ (stage[t] = "sender" => ~Factory)
        /\ sdk' = [sdk EXCEPT ![stage[t]][hold[t]] = "closed"]
        /\ bus' = [bus EXCEPT ![object[t]] = NewObject]
        /\ GoOn(t, object[t], n, bus')
        /\ UNCHANGED usage

\* A close() returns, its attribute is reset, and the next one is awaited.
PartClosed(t) ==
    \E n \in 1..3 :
        /\ stage[t] = CloseOrder[n] /\ (stage[t] = "sender" => ~Factory)
        /\ sdk' = [sdk EXCEPT ![stage[t]][hold[t]] = "closed"]
        /\ bus' = [bus EXCEPT ![object[t]][CloseOrder[n]] = None]
        /\ GoOn(t, object[t], n, bus')
        /\ UNCHANGED usage

\* SendClientCloseWrapper.close(): the sender, then its credential.
SenderClosed(t) ==
    /\ stage[t] = "sender" /\ Factory
    /\ sdk' = [sdk EXCEPT !["sender"][hold[t]] = "closed"]
    /\ At(t, "senderCredential", object[t], hold[t])
    /\ UNCHANGED <<usage, bus, proxied>>

SenderCredentialClosed(t) ==
    /\ stage[t] = "senderCredential"
    /\ sdk' = [sdk EXCEPT !["senderCredential"][hold[t]] = "closed"]
    /\ bus' = [bus EXCEPT ![object[t]].sender = None]
    /\ GoOn(t, object[t], 3, bus')
    /\ UNCHANGED usage

\* A close() raises, perhaps when it has closed what it should: the rest of
\* AzureServiceBus.close() is not done.
BusCloseRaises(t) ==
    /\ "fails" \in usage
    /\ stage[t] \in Part
    /\ \E s \in {"closed", sdk[stage[t]][hold[t]]} :
         sdk' = [sdk EXCEPT ![stage[t]][hold[t]] = s]
    /\ At(t, "idle", None, None)
    /\ UNCHANGED <<usage, bus, proxied>>

BusNext ==
    \E t \in Task :
        \/ GetReceiver(t) \/ ManagedGetReceiver(t) \/ ReceiverUsed(t)
        \/ GetSender(t) \/ CloseBus(t)
        \/ PartClosed(t) \/ SenderClosed(t) \/ SenderCredentialClosed(t) \/ BusCloseRaises(t)

BusSpec == BusInit /\ [][BusNext]_busVars

-----------------------------------------------------------------------------
(* Properties *)

\* No close() raises or is cancelled, and receivers are not used in `async with`.
Undisturbed == usage \cap {"fails", "exits"} = {}

\* One task closes and no close() raises.
Orderly ==
    /\ usage \cap {"managed", "fails", "crowd"} = {}
    /\ \A t, u \in Closer : t = u

Closes(t, p, k) == stage[t] = p /\ hold[t] = k

\* service_bus.py:142-151: whatever overlaps, also several close() calls, an object
\* keeps no closed receiver and, but for the moment in which the sender's credential
\* is closed, no closed sender: get_receiver() and get_sender() return what they keep.
KeptIsOpen ==
    Undisturbed => \A o \in Object : \A k \in Name :
        /\ bus[o].receiver = k => sdk["receiver"][k] = "open"
        /\ bus[o].sender = k =>
             \/ sdk["sender"][k] = "open"
             \/ \E t \in Task : Closes(t, "senderCredential", k) /\ object[t] = o

\* service_bus.py:141-151: with one task that closes, get_receiver() and get_sender()
\* during the close strand no receiver and no sender.  (They may strand a receiver's
\* credential, and two tasks that close may strand anything.)
NothingStranded ==
    Orderly => \A k \in Name :
        /\ sdk["receiver"][k] = "open" => bus["direct"].receiver = k
        /\ sdk["sender"][k] = "open" => bus["direct"].sender = k

\* service_bus.py:45-54 and 142-147: there too, the credential of an open receiver or
\* sender is open.
CredentialsOutlive ==
    Orderly /\ Factory => \A k \in Name :
        /\ sdk["receiver"][k] = "open" => sdk["credential"][k] = "open"
        /\ sdk["sender"][k] = "open" => sdk["senderCredential"][k] = "open"

-----------------------------------------------------------------------------
(* What the repository says of the program and a run refutes *)

\* tests/clients/test_service_bus.py:66 "assert managed_sbus.get_receiver() is receiver"
ReceiverIsKept ==
    [][\A k \in Name : Managed /\ proxied = k => proxied' \in {k, None}]_busVars
=============================================================================
