---------------------------- MODULE ManagedClients ----------------------------
(***************************************************************************)
(* What the managed clients do with the connections the pool hands them:   *)
(* ManagedAzureServiceBusSender.send_message(), the send methods of        *)
(* ManagedAzureEventhubProducer and the with block of ManagedCosmos.       *)
(* A task makes one call; the pool behaves as PooledConnections promises.  *)
(* An operation stands for one call of the SDK, with the retries the SDK   *)
(* makes inside of it, and ends by an answer or by an error.               *)
(* Which client it is and its send_attempts are chosen in the first state. *)
(***************************************************************************)
EXTENDS PooledConnections

CONSTANT MaxSendAttempts  \* bound of send_attempts

ASSUME ManagedAssumption ==
    /\ MaxSendAttempts \in Nat \ {0}
    /\ None \notin Client \cup Slot \cup Conn

VARIABLES
    kind,          \* which of the clients owns the pool
    sendAttempts,  \* send_attempts, one for a client that does not retry
    call,          \* where a task is in its call
    attempt        \* number of its current attempt, 0 before the first

settings    == <<kind, sendAttempts>>
calls       == <<call, attempt>>
managedVars == <<poolState, settings, calls>>

Kind == {"servicebus", "eventhub", "cosmos"}

Call == {"new", "get", "busy", "expiring", "returned", "raised"}

\* As the except clauses tell them apart: the answer is late, the link or the
\* authentication failed, the client object is closed, anything else.
Error == {"timeout", "link", "auth", "closed", "other"}

ManagedTypeOK ==
    /\ PooledTypeOK
    /\ kind \in Kind
    /\ sendAttempts \in 1..MaxSendAttempts
    /\ call \in [Client -> Call]
    /\ attempt \in [Client -> 0..sendAttempts]
    /\ \A c \in Client : call[c] \in {"busy", "expiring"} <=> holder[c] # None

ManagedInit ==
    /\ PooledInit
    /\ kind \in Kind
    /\ sendAttempts \in 1..(IF kind = "servicebus" THEN MaxSendAttempts ELSE 1)
    /\ call = [c \in Client |-> "new"]
    /\ attempt = [c \in Client |-> 0]

-----------------------------------------------------------------------------
(* What a client does about an error of the operation *)

ServiceBusReaction(e) ==
    CASE e = "timeout" -> "retry"
      [] e \in {"link", "auth"} -> "expire"
      [] OTHER -> "raise"

EventhubReaction(e) == IF e \in {"link", "auth", "closed"} THEN "expire" ELSE "raise"

\* A closed session is a RuntimeError of aiohttp.
CosmosReaction(e) == IF e = "closed" THEN "expire" ELSE "raise"

Reaction(e) ==
    CASE kind = "servicebus" -> ServiceBusReaction(e)
      [] kind = "eventhub"   -> EventhubReaction(e)
      [] kind = "cosmos"     -> CosmosReaction(e)

\* Mutant: one attempt too many.
LastAttemptOffByOne(c) == attempt[c] > sendAttempts

LastAttempt(c) == attempt[c] = sendAttempts

-----------------------------------------------------------------------------
(* A call *)

Goto(c, l) == call' = [call EXCEPT ![c] = l]

Begin(c) ==
    /\ call[c] = "new"
    /\ Goto(c, "get")
    /\ attempt' = [attempt EXCEPT ![c] = 1]
    /\ UNCHANGED <<settings, poolState>>

\* pool.get() hands a connection, and the operation starts on it.
Send(c) ==
    /\ call[c] = "get"
    /\ \E s \in Slot : Take(c, s)
    /\ Goto(c, "busy")
    /\ UNCHANGED <<settings, attempt>>

\* pool.get() raises ConnectionsExhausted, or what create() or ready() raised.
GetRaises(c) ==
    /\ call[c] = "get"
    /\ Goto(c, "raised")
    /\ UNCHANGED <<settings, poolState, attempt>>

\* The answer arrives and the call returns it.
Answered(c) ==
    /\ call[c] = "busy"
    /\ status[holder[c]] # "closed"
    /\ GiveBack(c)
    /\ Goto(c, "returned")
    /\ UNCHANGED <<settings, attempt>>

\* Mutant: a retry is not counted.
RetryUncounted(c, e) ==
    /\ call[c] = "busy"
    /\ Reaction(e) = "retry" /\ ~LastAttempt(c)
    /\ GiveBack(c)
    /\ Goto(c, "get")
    /\ UNCHANGED <<settings, attempt>>

\* The operation raises e and the client tries again, with whatever connection
\* pool.get() hands it next.
Retry(c, e) ==
    /\ call[c] = "busy"
    /\ Reaction(e) = "retry" /\ ~LastAttempt(c)
    /\ GiveBack(c)
    /\ Goto(c, "get")
    /\ attempt' = [attempt EXCEPT ![c] = @ + 1]
    /\ UNCHANGED settings

\* It passes e on.
Raise(c, e) ==
    /\ call[c] = "busy"
    /\ \/ Reaction(e) = "raise"
       \/ Reaction(e) = "retry" /\ LastAttempt(c)
    /\ GiveBack(c)
    /\ Goto(c, "raised")
    /\ UNCHANGED <<settings, attempt>>

\* It expires the connection, for every caller that holds it, before it does.
Expire(c, e) ==
    /\ call[c] = "busy"
    /\ Reaction(e) = "expire"
    /\ Goto(c, "expiring")
    /\ UNCHANGED <<settings, poolState, attempt>>

\* expire_conn() is over: no slot has the connection (ExpiryTakesEffect of
\* SharedTransportConnection).
Expired(c) == call[c] = "expiring" /\ \A s \in Slot : current[s] # holder[c]

ExpireReturns(c) ==
    /\ Expired(c)
    /\ GiveBack(c)
    /\ Goto(c, "raised")
    /\ UNCHANGED <<settings, attempt>>

-----------------------------------------------------------------------------
(* The pool *)

\* A slot may be closed at any time, under callers at work too: by an expiry, by
\* closeall(), by the failed probe of another task.
SlotCloses(s) ==
    /\ StartClose(s)
    /\ UNCHANGED <<settings, calls>>

SlotClosed(s) ==
    /\ EndClose(s)
    /\ UNCHANGED <<settings, holder, calls>>

SlotOpens(s, k) ==
    /\ Open(s, k)
    /\ UNCHANGED <<settings, calls>>

CallStep(c) ==
    \/ Begin(c) \/ Send(c) \/ GetRaises(c) \/ Answered(c) \/ ExpireReturns(c)
    \/ \E e \in Error : Retry(c, e) \/ Raise(c, e) \/ Expire(c, e)

ManagedNext ==
    \/ \E c \in Client : CallStep(c)
    \/ \E s \in Slot : SlotCloses(s) \/ SlotClosed(s)
    \/ \E s \in Slot, k \in Conn : SlotOpens(s, k)

ManagedSpec == ManagedInit /\ [][ManagedNext]_managedVars

\* A slot whose connection a caller expires.
Asked(s) == \E c \in Client : call[c] = "expiring" /\ holder[c] = current[s]

\* get() ends, every operation is answered or fails, and the pool closes what it
\* was asked to close.
FairManagedSpec ==
    /\ ManagedSpec
    /\ \A c \in Client :
         /\ WF_managedVars(Send(c) \/ GetRaises(c))
         /\ WF_managedVars(Answered(c) \/ \E e \in Error : Retry(c, e) \/ Raise(c, e))
         /\ WF_managedVars(ExpireReturns(c))
    /\ \A s \in Slot :
         /\ WF_managedVars(Asked(s) /\ status[current[s]] = "open" /\ SlotCloses(s))
         /\ WF_managedVars(SlotClosed(s))

-----------------------------------------------------------------------------
(* Properties *)

\* Every call ends: it returns an answer or raises, however often send_message()
\* tries again and whatever becomes of its connections meanwhile.
EveryCallEnds == \A c \in Client : call[c] = "get" ~> call[c] \in {"returned", "raised"}
=============================================================================
