--------------------------- MODULE PooledTransports ---------------------------
(***************************************************************************)
(* The connection of a slot, from the inside: what create(), ready() and   *)
(* close() of the managed clients do with an SDK client and its credential *)
(* (SendClientCloseWrapper, Eventhub, SimpleCosmos).  The slot makes one   *)
(* object and drops it after a close; one task at a time probes it, and    *)
(* tasks that reset the slot without its lock may close it meanwhile.      *)
(***************************************************************************)
EXTENDS Tasks, Naturals

VARIABLES
    family,     \* the managed client the connection is made by
    keyed,      \* it has a credential, not a connection string
    kept,       \* the slot refers to the connection
    transport,  \* what has become of the SDK client
    secret,     \* and of its credential
    bound,      \* the object refers to its SDK client (_client, _container, _sender)
    raised,     \* a close() of the SDK client or the credential raised (history)
    step,       \* the await a task is suspended at
    attempts,   \* attempts of its ready(), counted down
    asked,      \* requests that ready() has made (history)
    refused     \* one of them met an authentication error (history)

connection    == <<kept, transport, secret, bound, raised>>
probe         == <<attempts, asked, refused>>
transportVars == <<family, keyed, connection, step, probe>>

Family == {"servicebus", "eventhub", "cosmos"}

\*   batch  create_batch() runs    ready  the request of ready() runs
\*   missing  the connection has no such method
\*   client, credential  their close() runs
Step == {"idle", "batch", "ready", "missing", "client", "credential"}

\* As ready() tells the answers apart: ok, an authentication error, an error of the
\* service, an attribute the connection has not, anything else.
Answer == {"ok", "auth", "service", "attribute", "other"}

TransportTypeOK ==
    /\ family \in Family
    /\ keyed \in BOOLEAN /\ kept \in BOOLEAN
    /\ bound \in BOOLEAN /\ raised \in BOOLEAN
    /\ transport \in {"none", "open", "closed"}
    /\ secret \in {"none", "open", "closed"}
    /\ step \in [Task -> Step]
    /\ attempts \in [Task -> 0..2]
    /\ asked \in [Task -> Nat]
    /\ refused \in [Task -> BOOLEAN]
    /\ kept => transport # "none" /\ (keyed => secret # "none")

TransportInit ==
    /\ family \in Family
    /\ keyed \in BOOLEAN /\ (family = "cosmos" => keyed)
    /\ kept = FALSE /\ bound = FALSE /\ raised = FALSE
    /\ transport = "none" /\ secret = "none"
    /\ step = [t \in Task |-> "idle"]
    /\ attempts = [t \in Task |-> 0]
    /\ asked = [t \in Task |-> 0]
    /\ refused = [t \in Task |-> FALSE]

-----------------------------------------------------------------------------
\* The slot has no connection, and the model is done with the last one.
Vacant == ~kept /\ \A t \in Task : step[t] = "idle"

\* create(): the credential, and the SDK client with it.
Connect ==
    /\ Vacant
    /\ kept' = TRUE /\ bound' = TRUE /\ raised' = FALSE
    /\ transport' = "open"
    /\ secret' = IF keyed THEN "open" ELSE "none"
    /\ UNCHANGED <<family, keyed, step, probe>>

\* The SDK client's constructor raises: the slot has no connection, and nothing refers
\* to the credential.
ConnectRaises ==
    /\ Vacant
    /\ bound' = FALSE /\ raised' = FALSE
    /\ transport' = "none"
    /\ secret' = IF keyed THEN "open" ELSE "none"
    /\ UNCHANGED <<family, keyed, kept, step, probe>>

-----------------------------------------------------------------------------
(* ready() *)

ServiceBusVerdict(a) ==
    CASE a = "ok" -> "yes"
      [] a = "auth" -> "raise"
      [] a \in {"attribute", "service"} -> "again"
      [] OTHER -> "raise"

EventhubVerdict(a) ==
    CASE a = "ok" -> "yes"
      [] a = "auth" -> "no"
      [] a = "service" -> "again"
      [] OTHER -> "raise"

\* An authentication error is a CosmosHttpResponseError like others.
CosmosVerdict(a) ==
    CASE a = "ok" -> "yes"
      [] a \in {"auth", "service"} -> "again"
      [] OTHER -> "raise"

Verdict(a) ==
    CASE family = "servicebus" -> ServiceBusVerdict(a)
      [] family = "eventhub"   -> EventhubVerdict(a)
      [] family = "cosmos"     -> CosmosVerdict(a)

\* A request of ready(); an object without its SDK client has no such method.
Request(t) ==
    /\ step' = [step EXCEPT ![t] = IF bound THEN "ready" ELSE "missing"]
    /\ asked' = [asked EXCEPT ![t] = @ + 1]

\* ready() of the connection the slot has, under the lock of the slot.
Ready(t) ==
    /\ kept
    /\ step[t] = "idle"
    /\ \A u \in Task : step[u] \notin {"batch", "ready", "missing"}
    /\ attempts' = [attempts EXCEPT ![t] = 2]
    /\ \/ /\ family = "eventhub"
          /\ step' = [step EXCEPT ![t] = IF bound THEN "batch" ELSE "missing"]
          /\ UNCHANGED asked
       \/ family # "eventhub" /\ Request(t)
    /\ UNCHANGED <<family, keyed, connection, refused>>

\* create_batch() returns: the Event Hubs client makes its first request.
BatchMade(t) ==
    /\ step[t] = "batch"
    /\ Request(t)
    /\ UNCHANGED <<family, keyed, connection, attempts, refused>>

Answers(t, a) ==
    \/ step[t] = "ready" /\ a \in Answer \ {"attribute"}
    \/ step[t] = "missing" /\ a = "attribute"

\* ready() is over.
Over(t) ==
    /\ attempts' = [attempts EXCEPT ![t] = 0]
    /\ asked' = [asked EXCEPT ![t] = 0]
    /\ refused' = [refused EXCEPT ![t] = FALSE]

\* ready() says yes.
SaysYes(t) ==
    /\ Answers(t, "ok")
    /\ step' = [step EXCEPT ![t] = "idle"]
    /\ Over(t)
    /\ UNCHANGED <<family, keyed, connection>>

\* Mutant: an attempt that failed is not counted.
AsksAgainUncounted(t, a) ==
    /\ Answers(t, a) /\ Verdict(a) = "again" /\ attempts[t] > 1
    /\ Request(t)
    /\ refused' = [refused EXCEPT ![t] = @ \/ a = "auth"]
    /\ UNCHANGED <<family, keyed, connection, attempts>>

\* The answer a is one to try again after.
AsksAgain(t, a) ==
    /\ Answers(t, a) /\ Verdict(a) = "again" /\ attempts[t] > 1
    /\ attempts' = [attempts EXCEPT ![t] = @ - 1]
    /\ Request(t)
    /\ refused' = [refused EXCEPT ![t] = @ \/ a = "auth"]
    /\ UNCHANGED <<family, keyed, connection>>

-----------------------------------------------------------------------------
(* close() and the reset of the slot *)

\* Mutant: the credential is closed before the SDK client.
CloseStartsCredential(t) ==
    step' = [step EXCEPT ![t] = IF keyed THEN "credential" ELSE "client"]

\* close() of the connection up to its first await; an Eventhub or SimpleCosmos that
\* has no SDK client any more goes to its credential.
CloseStarts(t) ==
    step' = [step EXCEPT ![t] = IF bound \/ ~keyed THEN "client" ELSE "credential"]

\* ready() says no or raises, or its deadline passes, and its caller resets the slot.
SaysNo(t, a) ==
    /\ \/ step[t] = "batch" /\ a = "other"
       \/ Answers(t, a) /\ Verdict(a) \in {"no", "raise"}
       \/ Answers(t, a) /\ Verdict(a) = "again" /\ attempts[t] = 1
    /\ Over(t)
    /\ \/ kept /\ CloseStarts(t)
       \/ ~kept /\ step' = [step EXCEPT ![t] = "idle"]
    /\ UNCHANGED <<family, keyed, connection>>

\* The slot is reset for another reason: an expiry, a sweep, closeall(), a clean-up.
Reset(t) ==
    /\ kept
    /\ step[t] = "idle"
    /\ CloseStarts(t)
    /\ UNCHANGED <<family, keyed, connection, probe>>

\* The slot forgets the connection, whatever became of the close().
Drops(t) ==
    /\ kept' = FALSE
    /\ step' = [step EXCEPT ![t] = "idle"]

\* The SDK client is closed; an Eventhub forgets it now.
TransportClosed(t) ==
    /\ step[t] = "client"
    /\ transport' = "closed"
    /\ bound' = (bound /\ family # "eventhub")
    /\ \/ keyed /\ step' = [step EXCEPT ![t] = "credential"] /\ UNCHANGED kept
       \/ ~keyed /\ Drops(t)
    /\ UNCHANGED <<family, keyed, secret, raised, probe>>

\* The credential is closed; a SimpleCosmos forgets its SDK client now.
SecretClosed(t) ==
    /\ step[t] = "credential"
    /\ secret' = "closed"
    /\ bound' = (bound /\ family = "servicebus")
    /\ Drops(t)
    /\ UNCHANGED <<family, keyed, transport, raised, probe>>

\* The state s of what a close() was about when it raises or is cut short.
CutShort(t, s) ==
    \/ /\ step[t] = "client"
       /\ s \in {transport, "closed"}
       /\ transport' = s /\ UNCHANGED secret
    \/ /\ step[t] = "credential"
       /\ s \in {secret, "closed"}
       /\ secret' = s /\ UNCHANGED transport

\* One of the two close() calls raises.  Eventhub and SimpleCosmos log what the
\* credential raises, so a SimpleCosmos goes on; anything else ends the connection's
\* close(), and the slot ignores it.
CloseFails(t, s) ==
    /\ CutShort(t, s)
    /\ raised' = TRUE
    /\ bound' = (bound /\ ~(family = "cosmos" /\ step[t] = "credential"))
    /\ Drops(t)
    /\ UNCHANGED <<family, keyed, probe>>

\* Mutant: the slot forgets the connection when its close() is cancelled.
CloseCancelledDrops(t, s) ==
    /\ CutShort(t, s)
    /\ Drops(t)
    /\ UNCHANGED <<family, keyed, bound, raised, probe>>

\* t is cancelled, or its deadline passes: the slot keeps the connection as it is.
CloseCancelled(t, s) ==
    /\ CutShort(t, s)
    /\ step' = [step EXCEPT ![t] = "idle"]
    /\ UNCHANGED <<family, keyed, kept, bound, raised, probe>>

TransportNext ==
    \/ Connect \/ ConnectRaises
    \/ \E t \in Task :
         \/ Ready(t) \/ BatchMade(t) \/ SaysYes(t) \/ Reset(t)
         \/ TransportClosed(t) \/ SecretClosed(t)
         \/ \E a \in Answer : AsksAgain(t, a) \/ SaysNo(t, a)
         \/ \E s \in {"open", "closed"} : CloseFails(t, s) \/ CloseCancelled(t, s)

TransportSpec == TransportInit /\ [][TransportNext]_transportVars

-----------------------------------------------------------------------------
(* Properties *)

\* service_bus.py:52, eventhub.py:112, cosmos.py:251: a credential is closed after the
\* SDK client that authenticates with it, also when several tasks reset the slot at
\* once and when a close() raised or was cancelled before.
SecretOutlivesTransport == secret = "closed" => transport = "closed"

\* connection_pooling.py:405-411 with the three close() methods: a connection the slot
\* has dropped has left nothing open, however its resets overlapped or were
\* cancelled, unless a close() raised, which nobody hears of.
DroppedIsClosed ==
    ~kept /\ ~raised /\ transport # "none"
        => transport = "closed" /\ secret # "open"

\* The loops of ready() (service_bus.py:305, eventhub.py:314, cosmos.py:349): two requests
\* at most, also when the connection is closed between them, and none after an
\* authentication error where the client tells it apart.
ProbesAreBounded ==
    \A t \in Task : /\ asked[t] <= 2
                    /\ refused[t] => family = "cosmos"
=============================================================================
