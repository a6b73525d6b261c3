------------------------- MODULE ManagedClients_proofs -------------------------
(***************************************************************************)
(* Theorems about ManagedClients, for every number of callers, slots,      *)
(* connections and attempts.                                               *)
(***************************************************************************)
EXTENDS ManagedClients, TLAPS

-----------------------------------------------------------------------------
(* Type correctness, with the counting of attempts *)

LEMMA PoolKeepsType ==
    ASSUME PooledTypeOK,
           \/ \E s \in Slot : StartClose(s) \/ EndClose(s)
           \/ \E s \in Slot, k \in Conn : Open(s, k)
           \/ \E c \in Client : GiveBack(c) \/ \E s \in Slot : Take(c, s)
           \/ UNCHANGED poolState
    PROVE  PooledTypeOK'
<1> USE DEF PooledTypeOK, Status
<1>1. ASSUME NEW s \in Slot, StartClose(s) PROVE PooledTypeOK'
  BY <1>1 DEF StartClose
<1>2. ASSUME NEW s \in Slot, EndClose(s) PROVE PooledTypeOK'
  <2>1. holder' \in [Client -> Conn \cup {None}]
    BY <1>2 DEF EndClose
  <2> QED BY <1>2, <2>1 DEF EndClose
<1>3. ASSUME NEW s \in Slot, NEW k \in Conn, Open(s, k) PROVE PooledTypeOK'
  BY <1>3 DEF Open
<1>4. ASSUME NEW c \in Client, GiveBack(c) PROVE PooledTypeOK'
  BY <1>4 DEF GiveBack
<1>5. ASSUME NEW c \in Client, NEW s \in Slot, Take(c, s) PROVE PooledTypeOK'
  BY <1>5 DEF Take
<1>6. CASE UNCHANGED poolState
  BY <1>6 DEF poolState
<1> QED BY <1>1, <1>2, <1>3, <1>4, <1>5, <1>6

\* A step on behalf of a call: what it does to the places and numbers of the calls.
LEMMA CallSteps ==
    ASSUME ManagedTypeOK, NEW c \in Client, CallStep(c)
    PROVE  /\ UNCHANGED settings
           /\ \/ /\ call[c] = "new" /\ UNCHANGED holder
                 /\ call' = [call EXCEPT ![c] = "get"] /\ attempt' = [attempt EXCEPT ![c] = 1]
              \/ /\ call[c] = "get" /\ (\E s \in Slot : Take(c, s))
                 /\ call' = [call EXCEPT ![c] = "busy"] /\ UNCHANGED attempt
              \/ /\ call[c] = "get" /\ UNCHANGED holder
                 /\ call' = [call EXCEPT ![c] = "raised"] /\ UNCHANGED attempt
              \/ /\ call[c] = "busy" /\ UNCHANGED holder
                 /\ call' = [call EXCEPT ![c] = "expiring"] /\ UNCHANGED attempt
              \/ /\ GiveBack(c) /\ UNCHANGED attempt
                 /\ \E l \in {"returned", "raised"} : call' = [call EXCEPT ![c] = l]
              \/ /\ GiveBack(c) /\ attempt[c] # sendAttempts
                 /\ call' = [call EXCEPT ![c] = "get"] /\ attempt' = [attempt EXCEPT ![c] = @ + 1]
<1>1. CASE Begin(c) \/ GetRaises(c)
  BY <1>1 DEF Begin, GetRaises, Goto, poolState
<1>2. CASE Send(c)
  BY <1>2 DEF Send, Goto
<1>3. CASE Answered(c) \/ ExpireReturns(c)
  BY <1>3 DEF Answered, ExpireReturns, Goto
<1>4. ASSUME NEW e \in Error, Retry(c, e)
      PROVE  /\ UNCHANGED settings
             /\ GiveBack(c) /\ attempt[c] # sendAttempts
             /\ call' = [call EXCEPT ![c] = "get"] /\ attempt' = [attempt EXCEPT ![c] = @ + 1]
  BY <1>4 DEF Retry, LastAttempt, Goto
<1>5. ASSUME NEW e \in Error, Raise(c, e)
      PROVE  /\ UNCHANGED <<settings, attempt>>
             /\ GiveBack(c) /\ call' = [call EXCEPT ![c] = "raised"]
  BY <1>5 DEF Raise, Goto
<1>6. ASSUME NEW e \in Error, Expire(c, e)
      PROVE  /\ UNCHANGED <<settings, attempt, holder>>
             /\ call[c] = "busy" /\ call' = [call EXCEPT ![c] = "expiring"]
  BY <1>6 DEF Expire, Goto, poolState
<1> QED
  BY <1>1, <1>2, <1>3, <1>4, <1>5, <1>6 DEF CallStep

LEMMA TypeStep == ManagedTypeOK /\ [ManagedNext]_managedVars => ManagedTypeOK'
<1> SUFFICES ASSUME ManagedTypeOK, [ManagedNext]_managedVars PROVE ManagedTypeOK'
  OBVIOUS
<1>1. PooledTypeOK /\ None \notin Conn
  BY ManagedAssumption DEF ManagedTypeOK
<1>2. ASSUME NEW c \in Client, CallStep(c) PROVE ManagedTypeOK'
  <2>1. PooledTypeOK'
    <3>1. GiveBack(c) \/ (\E s \in Slot : Take(c, s)) \/ UNCHANGED poolState
      BY <1>2 DEF CallStep, Begin, Send, GetRaises, Answered, ExpireReturns, Retry, Raise, Expire
    <3> QED BY <1>1, <3>1, PoolKeepsType
  <2>2. UNCHANGED settings
    BY <1>2, CallSteps
  <2>3. sendAttempts \in Nat \ {0} /\ kind' \in Kind /\ sendAttempts' \in 1..MaxSendAttempts
    BY <2>2, ManagedAssumption DEF settings, ManagedTypeOK
  <2>4. call' \in [Client -> Call]
    BY <1>2, CallSteps DEF ManagedTypeOK, Call
  <2>5. attempt' \in [Client -> 0..sendAttempts]
    BY <1>2, <2>3, CallSteps DEF ManagedTypeOK
  <2>6. \A d \in Client : call'[d] \in {"busy", "expiring"} <=> holder'[d] # None
    BY <1>1, <1>2, CallSteps DEF ManagedTypeOK, PooledTypeOK, Take, GiveBack
  <2> QED
    BY <2>1, <2>2, <2>3, <2>4, <2>5, <2>6 DEF ManagedTypeOK, settings
<1>3. ASSUME \/ \E s \in Slot : SlotCloses(s)
             \/ \E s \in Slot, k \in Conn : SlotOpens(s, k)
             \/ UNCHANGED managedVars
      PROVE  ManagedTypeOK'
  <2>1. UNCHANGED <<settings, calls, holder>>
    BY <1>3 DEF SlotCloses, StartClose, SlotOpens, Open, managedVars, poolState
  <2>2. PooledTypeOK'
    BY <1>1, <1>3, PoolKeepsType DEF SlotCloses, SlotOpens, managedVars
  <2> QED
    BY <2>1, <2>2 DEF ManagedTypeOK, settings, calls
<1>4. ASSUME NEW s \in Slot, SlotClosed(s) PROVE ManagedTypeOK'
  <2>1. PooledTypeOK'
    BY <1>1, <1>4, PoolKeepsType DEF SlotClosed
  <2> QED
    BY <1>4, <2>1 DEF SlotClosed, ManagedTypeOK, settings, calls
<1> QED
  BY <1>2, <1>3, <1>4 DEF ManagedNext

\* service_bus.py:327-380, eventhub.py:334-459, cosmos.py:370-383: a call makes at most
\* send_attempts attempts, and holds a connection exactly while its operation is at work
\* or expires it, whichever way the operation ends.
THEOREM TypeCorrect == ManagedSpec => []ManagedTypeOK
<1>1. ManagedInit => ManagedTypeOK
  <2> SUFFICES ASSUME ManagedInit PROVE ManagedTypeOK
    OBVIOUS
  <2>1. PooledTypeOK
    BY DEF ManagedInit, PooledInit, PooledTypeOK, Status
  <2>2. sendAttempts \in 1..MaxSendAttempts
    BY ManagedAssumption DEF ManagedInit
  <2> QED
    BY <2>1, <2>2, ManagedAssumption DEF ManagedInit, PooledInit, ManagedTypeOK, Call
<1> QED
  BY <1>1, TypeStep, PTL DEF ManagedSpec

-----------------------------------------------------------------------------
(* What callers may rely on                                                *)

\* A connection that is not closed is shown by a slot, and by one only.
ShownByOneSlot ==
    /\ \A s, t \in Slot : current[s] # None /\ current[s] = current[t] => s = t
    /\ \A k \in Conn : status[k] # "closed" <=> \E s \in Slot : current[s] = k

LEMMA StepKeepsShown == PooledTypeOK /\ ShownByOneSlot /\ [PooledNext]_poolState => ShownByOneSlot'
<1> SUFFICES ASSUME PooledTypeOK, ShownByOneSlot, [PooledNext]_poolState PROVE ShownByOneSlot'
  OBVIOUS
<1> USE ManagedAssumption DEF PooledTypeOK, ShownByOneSlot
<1>1. ASSUME NEW s \in Slot, StartClose(s) PROVE ShownByOneSlot'
  BY <1>1 DEF StartClose
<1>2. ASSUME NEW s \in Slot, EndClose(s) PROVE ShownByOneSlot'
  <2>1. PICK k \in Conn : /\ current[s] = k /\ status' = [status EXCEPT ![k] = "closed"]
                          /\ current' = [current EXCEPT ![s] = None]
    BY <1>2 DEF EndClose
  <2> QED
    BY <2>1
<1>3. ASSUME NEW s \in Slot, NEW k \in Conn, Open(s, k) PROVE ShownByOneSlot'
  BY <1>3 DEF Open, Unused
<1>4. ASSUME \E c \in Client : GiveBack(c) \/ \E s \in Slot : Take(c, s)
      PROVE  ShownByOneSlot'
  BY <1>4 DEF GiveBack, Take
<1>5. CASE UNCHANGED poolState
  BY <1>5 DEF poolState
<1> QED
  BY <1>1, <1>2, <1>3, <1>4, <1>5 DEF PooledNext

\* What PooledConnections promises is enough to tell slots apart: no two slots show one
\* connection, and none shows a closed one or forgets one that is not.
THEOREM PromisedByOneSlot == PooledSpec => []ShownByOneSlot
<1>1. PooledInit => PooledTypeOK /\ ShownByOneSlot
  BY ManagedAssumption DEF PooledInit, PooledTypeOK, Status, ShownByOneSlot
<1>2. PooledTypeOK /\ ShownByOneSlot /\ [PooledNext]_poolState => PooledTypeOK' /\ ShownByOneSlot'
  BY PoolKeepsType, StepKeepsShown DEF PooledNext
<1> QED
  BY <1>1, <1>2, PTL DEF PooledSpec
=============================================================================
