------------------ MODULE SharedTransportConnection_proofs ------------------
(***************************************************************************)
(* Theorems about SharedTransportConnection, for every number of tasks,    *)
(* slots, permits and tokens: its types, and what the fields of a slot     *)
(* promise (a marked slot has a connection, no waiting task is missed).    *)
(***************************************************************************)
EXTENDS SharedTransportConnection, SequenceTheorems, TLAPS

-----------------------------------------------------------------------------
(* Queues *)

\* Leaving a queue leaves a queue of the same elements.
LEMMA WithoutType ==
    ASSUME NEW S, NEW q \in Seq(S), NEW e
    PROVE  Without(q, e) \in Seq(S)
<1>1. CASE e \in ToSet(q)
  <2> DEFINE i == CHOOSE i \in DOMAIN q : q[i] = e
  <2>1. i \in 1..Len(q)
    BY <1>1, LenProperties DEF ToSet
  <2> HIDE DEF i
  <2>2. \A j \in 1..Len(q) : q[j] \in S
    BY ElementOfSeq
  <2>3. Len(q) \in Nat
    BY LenProperties
  <2>4. SubSeq(q, 1, i - 1) \in Seq(S)
    BY <2>1, <2>2, <2>3, SubSeqProperties
  <2>5. SubSeq(q, i + 1, Len(q)) \in Seq(S)
    BY <2>1, <2>2, <2>3, SubSeqProperties
  <2> QED
    BY <1>1, <2>4, <2>5, ConcatProperties DEF Without, RemoveAt, i
<1>2. CASE e \notin ToSet(q)
  BY <1>2 DEF Without
<1> QED BY <1>1, <1>2

-----------------------------------------------------------------------------
(* Type correctness *)

\* The fields of a slot after _reset_connection() and after checkin().
LEMMA EmptySlotType == EmptySlot \in SlotState
BY DEF EmptySlot, SlotState, Elapsed

LEMMA CheckedInType ==
    ASSUME NEW r \in SlotState, NEW alone, NEW k
    PROVE  CheckedIn(r, alone, k) \in SlotState
BY DEF CheckedIn, SlotState, Elapsed

LEMMA FieldTypes ==
    ASSUME NEW r \in SlotState
    PROVE  /\ \A e \in Elapsed : [r EXCEPT !.idle = e] \in SlotState
           /\ \A e \in Elapsed : [r EXCEPT !.age = e] \in SlotState
           /\ \A b \in BOOLEAN : [r EXCEPT !.ready = b] \in SlotState
           /\ \A b \in BOOLEAN : [r EXCEPT !.shouldClose = b] \in SlotState
           /\ \A k \in Conn : [r EXCEPT !.connection = k] \in SlotState
BY DEF SlotState

LEMMA SlotTypes ==
    ASSUME TypeOK, NEW s \in Slot
    PROVE  /\ slot[s] \in SlotState
           /\ \A r \in SlotState : [slot EXCEPT ![s] = r] \in [Slot -> SlotState]
           /\ \A e \in Elapsed : [slot EXCEPT ![s].idle = e] \in [Slot -> SlotState]
           /\ \A e \in Elapsed : [slot EXCEPT ![s].age = e] \in [Slot -> SlotState]
           /\ \A b \in BOOLEAN : [slot EXCEPT ![s].shouldClose = b] \in [Slot -> SlotState]
BY FieldTypes DEF TypeOK

\* The conjunct of TypeOK that each helper re-establishes.
LEMMA QueueType ==
    ASSUME TypeOK, NEW c \in Client, NEW s \in Slot
    PROVE  /\ JoinLock(c, s) => lockq' \in [Slot -> Seq(Client)]
           /\ LeaveLock(c, s) => lockq' \in [Slot -> Seq(Client)]
           /\ LeaveSem(c) => semq' \in Seq(Client)
           /\ semq' = Append(semq, c) => semq' \in Seq(Client)
<1>1. lockq[s] \in Seq(Client) /\ semq \in Seq(Client)
  BY DEF TypeOK
<1>2. Append(lockq[s], c) \in Seq(Client) /\ Without(lockq[s], c) \in Seq(Client)
  BY <1>1, AppendProperties, WithoutType
<1>3. Append(semq, c) \in Seq(Client) /\ Without(semq, c) \in Seq(Client)
  BY <1>1, AppendProperties, WithoutType
<1> QED
  BY <1>2, <1>3 DEF TypeOK, JoinLock, LeaveLock, LeaveSem

LEMMA PcType ==
    ASSUME TypeOK, NEW c \in Client, NEW s, NEW l \in PC, pc[c] # "idle", l # "idle"
    PROVE  /\ Goto(c, l) => pc' \in [Client -> PC] /\ \A d \in Client : pc'[d] = "idle" <=> pc[d] = "idle"
           /\ NewEvent(c, s, l) => pc' \in [Client -> PC] /\ \A d \in Client : pc'[d] = "idle" <=> pc[d] = "idle"
           /\ WakeWaiters(c, s) => pc' \in [Client -> PC] /\ \A d \in Client : pc'[d] = "idle" <=> pc[d] = "idle"
BY DEF TypeOK, Goto, NewEvent, WakeWaiters, PC

LEMMA ResetSlotType ==
    ASSUME TypeOK, NEW c \in Client, NEW s \in Slot, NEW l \in PC, ResetSlot(c, s, l)
    PROVE  slot' \in [Slot -> SlotState]
BY EmptySlotType DEF TypeOK, ResetSlot

LEMMA ReleaseType ==
    ASSUME TypeOK, NEW c \in Client, NEW s \in Slot, Release(c, s),
           Goto(c, "idle") \/ NewEvent(c, s, "idle")
    PROVE  /\ borrowers' \in [Slot -> SUBSET Client]
           /\ pc' \in [Client -> PC]
           /\ at' \in [Client -> Slot \cup {None}]
           /\ why' \in [Client -> Reason \cup {None}]
           /\ got' \in [Client -> Conn \cup {None}]
           /\ \A d \in Client : at'[d] = None <=> pc'[d] = "idle"
<1> USE DEF TypeOK, Release, PC
<1>1. CASE Goto(c, "idle")
  BY <1>1 DEF Goto
<1>2. CASE NewEvent(c, s, "idle")
  BY <1>2 DEF NewEvent
<1> QED BY <1>1, <1>2

\* A task that is in the pool works on a slot.
LEMMA AtSlot ==
    ASSUME TypeOK, NEW c \in Client, pc[c] # "idle"
    PROVE  at[c] \in Slot
BY DEF TypeOK

LEMMA SlotStepType ==
    ASSUME TypeOK, NEW s \in Slot,
           \/ UNCHANGED slot
           \/ slot' = [slot EXCEPT ![s].shouldClose = TRUE]
           \/ slot' = [slot EXCEPT ![s].idle = "none"]
    PROVE  slot' \in [Slot -> SlotState]
<1>1. CASE UNCHANGED slot
  BY <1>1 DEF TypeOK
<1>2. CASE slot' = [slot EXCEPT ![s].shouldClose = TRUE]
  BY <1>2, SlotTypes
<1>3. CASE slot' = [slot EXCEPT ![s].idle = "none"]
  BY <1>3, SlotTypes DEF Elapsed
<1> QED BY <1>1, <1>2, <1>3

LEMMA FinishCloseType ==
    ASSUME TypeOK, NEW c \in Client, pc[c] # "idle", FinishClose(c)
    PROVE  /\ slot' \in [Slot -> SlotState]
           /\ lockq' \in [Slot -> Seq(Client)]
           /\ semq' \in Seq(Client)
           /\ borrowers' \in [Slot -> SUBSET Client]
           /\ pc' \in [Client -> PC]
           /\ at' \in [Client -> Slot \cup {None}]
           /\ why' \in [Client -> Reason \cup {None}]
           /\ got' \in [Client -> Conn \cup {None}]
           /\ \A d \in Client : at'[d] = None <=> pc'[d] = "idle"
<1> DEFINE s == at[c]
<1>1. s \in Slot
  BY AtSlot
<1>2. lockq' \in [Slot -> Seq(Client)]
  BY <1>1, QueueType DEF FinishClose
<1>3. CASE why[c] = "retire"
  <2>1. ResetSlot(c, s, "sem") /\ semq' = Append(semq, c)
    BY <1>3 DEF FinishClose
  <2>2. "sem" \in PC /\ "sem" # "idle"
    BY DEF PC, Creating
  <2>3. slot' \in [Slot -> SlotState]
    BY <1>1, <2>1, <2>2, ResetSlotType
  <2>4. pc' \in [Client -> PC] /\ \A d \in Client : pc'[d] = "idle" <=> pc[d] = "idle"
    BY <1>1, <2>1, <2>2, PcType DEF ResetSlot
  <2>5. semq' \in Seq(Client)
    BY <1>1, <2>1, QueueType
  <2> QED
    BY <1>2, <1>3, <2>3, <2>4, <2>5 DEF FinishClose, TypeOK
<1>4. CASE why[c] = "expire"
  <2>1. slot' \in [Slot -> SlotState]
    BY <1>1, <1>4, EmptySlotType, CheckedInType, SlotTypes DEF FinishClose
  <2>2. Release(c, s) /\ NewEvent(c, s, "idle") /\ UNCHANGED semq
    BY <1>4 DEF FinishClose
  <2> QED
    BY <1>1, <1>2, <2>1, <2>2, ReleaseType DEF TypeOK
<1>5. CASE why[c] \in {"sweep", "closeall"}
  <2>1. ResetSlot(c, s, "idle") /\ Release(c, s) /\ UNCHANGED semq
    BY <1>5 DEF FinishClose
  <2>2. slot' \in [Slot -> SlotState]
    BY <1>1, <2>1, ResetSlotType DEF PC
  <2> QED
    BY <1>1, <1>2, <2>1, <2>2, ReleaseType DEF TypeOK, ResetSlot
<1> QED
  BY <1>3, <1>4, <1>5 DEF FinishClose

LEMMA LeaveTypeOK ==
    ASSUME TypeOK, NEW c \in Client, pc[c] # "idle", Leave(c)
    PROVE  TypeOK'
<1>1. at[c] \in Slot
  BY AtSlot
<1>2. slot' \in [Slot -> SlotState]
  BY <1>1, CheckedInType DEF Leave, TypeOK
<1> QED
  BY <1>1, <1>2, ReleaseType DEF Leave, TypeOK

LEMMA BeginCloseTypeOK ==
    ASSUME TypeOK, NEW c \in Client, NEW s \in Slot, NEW r \in Reason, BeginClose(c, s, r)
    PROVE  TypeOK'
<1>1. lockq' \in [Slot -> Seq(Client)]
  BY QueueType DEF BeginClose
<1> QED
  BY <1>1, SharedAssumption DEF BeginClose, TypeOK, Goto, PC, Locking

\* Every step preserves TypeOK.
LEMMA TypeStep == TypeOK /\ [Next]_vars => TypeOK'
<1> SUFFICES ASSUME TypeOK, [Next]_vars PROVE TypeOK'
  OBVIOUS
<1>1. ASSUME NEW c \in Client, NEW s \in Slot, Acquire(c, s) PROVE TypeOK'
  BY <1>1, SharedAssumption DEF Acquire, TypeOK, Goto, PC
<1>2. ASSUME NEW c \in Client, CheckoutStart(c) PROVE TypeOK'
  <2>1. at[c] \in Slot /\ pc[c] # "idle"
    BY <1>2, AtSlot DEF CheckoutStart
  <2>2. slot' \in [Slot -> SlotState]
    <3>1. \/ UNCHANGED slot
          \/ slot' = [slot EXCEPT ![at[c]].shouldClose = TRUE]
          \/ slot' = [slot EXCEPT ![at[c]].idle = "none"]
      BY <1>2 DEF CheckoutStart, StopIdleAndWait
    <3> QED
      BY <2>1, <3>1, SlotStepType
  <2>3. lockq' \in [Slot -> Seq(Client)] /\ semq' \in Seq(Client)
    BY <1>2, <2>1, QueueType DEF CheckoutStart, TypeOK
  <2>4. pc' \in [Client -> PC] /\ \A d \in Client : pc'[d] = "idle" <=> pc[d] = "idle"
    BY <1>2, <2>1, PcType DEF CheckoutStart, PC, Locking, Creating, StopIdleAndWait
  <2>5. why' \in [Client -> Reason \cup {None}]
    BY <1>2 DEF CheckoutStart, TypeOK, Reason
  <2> QED
    BY <1>2, <2>2, <2>3, <2>4, <2>5 DEF CheckoutStart, TypeOK
<1>3. ASSUME NEW c \in Client, SemGranted(c) PROVE TypeOK'
  <2>1. at[c] \in Slot /\ pc[c] # "idle"
    BY <1>3, AtSlot DEF SemGranted
  <2>2. slot' \in [Slot -> SlotState]
    <3>1. UNCHANGED slot \/ slot' = [slot EXCEPT ![at[c]].idle = "none"]
      BY <1>3 DEF SemGranted, StopIdleAndWait
    <3> QED
      BY <2>1, <3>1, SlotStepType
  <2>3. lockq' \in [Slot -> Seq(Client)] /\ semq' \in Seq(Client)
    BY <1>3, <2>1, QueueType DEF SemGranted, TypeOK
  <2>4. pc' \in [Client -> PC] /\ \A d \in Client : pc'[d] = "idle" <=> pc[d] = "idle"
    BY <1>3, <2>1, PcType DEF SemGranted, PC, Locking, Creating, StopIdleAndWait
  <2> QED
    BY <1>3, <2>2, <2>3, <2>4 DEF SemGranted, TypeOK
<1>4. ASSUME NEW c \in Client, NEW k \in Conn, CreateDone(c, k) PROVE TypeOK'
  <2> DEFINE s == at[c]
             r == [slot[s] EXCEPT !.connection = k,
                                  !.age = IF LifespanEnabled THEN "within" ELSE @]
  <2>1. s \in Slot /\ pc[c] # "idle"
    BY <1>4, AtSlot DEF CreateDone
  <2>2. r \in SlotState /\ [r EXCEPT !.idle = "none"] \in SlotState
    <3>1. slot[s] \in SlotState
      BY <2>1 DEF TypeOK
    <3> QED
      BY <3>1 DEF SlotState, Elapsed
  <2>3. slot' = [slot EXCEPT ![s] = r] \/ slot' = [slot EXCEPT ![s] = [r EXCEPT !.idle = "none"]]
    BY <1>4 DEF CreateDone
  <2> HIDE DEF r
  <2>4. slot' \in [Slot -> SlotState]
    BY <2>1, <2>2, <2>3, SlotTypes
  <2>5. Append(Without(lockq[s], c), c) \in Seq(Client)
    <3>1. lockq[s] \in Seq(Client)
      BY <2>1 DEF TypeOK
    <3> QED
      BY <3>1, WithoutType, AppendProperties
  <2>6. lockq' \in [Slot -> Seq(Client)] /\ semq' \in Seq(Client)
    BY <1>4, <2>1, <2>5, QueueType DEF CreateDone, TypeOK
  <2>7. pc' \in [Client -> PC] /\ \A d \in Client : pc'[d] = "idle" <=> pc[d] = "idle"
    BY <1>4, <2>1, PcType DEF CreateDone, PC, Locking
  <2>8. transport' \in [Conn -> Transport]
    BY <1>4 DEF CreateDone, TypeOK, Transport
  <2> QED
    BY <1>4, <2>4, <2>6, <2>7, <2>8 DEF CreateDone, TypeOK
<1>5. ASSUME NEW c \in Client, CreateFails(c) PROVE TypeOK'
  <2>1. at[c] \in Slot /\ pc[c] # "idle"
    BY <1>5, AtSlot DEF CreateFails
  <2>2. lockq' \in [Slot -> Seq(Client)] /\ semq' \in Seq(Client)
    BY <1>5, <2>1, QueueType DEF CreateFails, TypeOK
  <2>3. pc' \in [Client -> PC] /\ \A d \in Client : pc'[d] = "idle" <=> pc[d] = "idle"
    BY <1>5, <2>1, PcType DEF CreateFails, PC, Locking, Creating
  <2> QED
    BY <1>5, <2>2, <2>3 DEF CreateFails, TypeOK
<1>6. ASSUME NEW c \in Client, ProbeCall(c) PROVE TypeOK'
  <2>1. at[c] \in Slot /\ pc[c] # "idle"
    BY <1>6, AtSlot DEF ProbeCall
  <2>2. pc' \in [Client -> PC] /\ \A d \in Client : pc'[d] = "idle" <=> pc[d] = "idle"
    BY <1>6, <2>1, PcType DEF ProbeCall, PC, Locking, Creating
  <2>3. victim' \in [Client -> Conn \cup {None}]
    BY <1>6, <2>1 DEF ProbeCall, TypeOK, SlotState
  <2> QED
    BY <1>6, <2>2, <2>3 DEF ProbeCall, TypeOK, queues
<1>7. ASSUME NEW c \in Client, ProbeOk(c) PROVE TypeOK'
  <2> DEFINE s == at[c]
             r == [slot[s] EXCEPT !.ready = TRUE, !.idle = "none"]
  <2>1. s \in Slot /\ pc[c] # "idle"
    BY <1>7, AtSlot DEF ProbeOk
  <2>2. r \in SlotState
    BY <2>1, SlotTypes DEF SlotState, Elapsed
  <2>3. slot' = [slot EXCEPT ![s] = r]
    BY <1>7, <2>1 DEF ProbeOk, TypeOK
  <2> HIDE DEF r
  <2>4. slot' \in [Slot -> SlotState]
    BY <2>1, <2>2, <2>3, SlotTypes
  <2>5. lockq' \in [Slot -> Seq(Client)] /\ semq' \in Seq(Client)
    BY <1>7, <2>1, QueueType DEF ProbeOk
  <2>6. pc' \in [Client -> PC] /\ \A d \in Client : pc'[d] = "idle" <=> pc[d] = "idle"
    BY <1>7, <2>1, PcType DEF ProbeOk, PC
  <2>7. victim' \in [Client -> Conn \cup {None}] /\ transport' \in [Conn -> Transport]
    BY <1>7 DEF ProbeOk, TypeOK, Transport
  <2> QED
    BY <1>7, <2>4, <2>5, <2>6, <2>7 DEF ProbeOk, TypeOK
<1>8. ASSUME NEW c \in Client, ProbeFalse(c) PROVE TypeOK'
  <2>1. at[c] \in Slot /\ pc[c] # "idle"
    BY <1>8, AtSlot DEF ProbeFalse
  <2>2. slot' \in [Slot -> SlotState]
    BY <1>8, <2>1, ResetSlotType DEF ProbeFalse, PC, TypeOK
  <2>3. lockq' \in [Slot -> Seq(Client)] /\ semq' \in Seq(Client)
    BY <1>8, <2>1, QueueType DEF ProbeFalse, TypeOK
  <2>4. pc' \in [Client -> PC] /\ \A d \in Client : pc'[d] = "idle" <=> pc[d] = "idle"
    BY <1>8, <2>1, PcType DEF ProbeFalse, PC, Locking, Creating, ResetSlot
  <2>5. victim' \in [Client -> Conn \cup {None}]
    BY <1>8, <2>1 DEF ProbeFalse, TypeOK, SlotState
  <2>6. transport' \in [Conn -> Transport]
    BY <1>8 DEF ProbeFalse, TypeOK, Transport
  <2> QED
    BY <1>8, <2>2, <2>3, <2>4, <2>5, <2>6 DEF ProbeFalse, TypeOK
<1>9. ASSUME NEW c \in Client, ProbeRaises(c) PROVE TypeOK'
  <2>1. at[c] \in Slot /\ pc[c] # "idle"
    BY <1>9, AtSlot DEF ProbeRaises
  <2>2. lockq' \in [Slot -> Seq(Client)] /\ semq' \in Seq(Client)
    BY <1>9, <2>1, QueueType DEF ProbeRaises, TypeOK
  <2>3. pc' \in [Client -> PC] /\ \A d \in Client : pc'[d] = "idle" <=> pc[d] = "idle"
    BY <1>9, <2>1, PcType DEF ProbeRaises, PC, Locking, Creating
  <2>4. victim' \in [Client -> Conn \cup {None}]
    BY <1>9, <2>1 DEF ProbeRaises, TypeOK, SlotState
  <2>5. transport' \in [Conn -> Transport]
    BY <1>9 DEF ProbeRaises, TypeOK, Transport
  <2> QED
    BY <1>9, <2>2, <2>3, <2>4, <2>5 DEF ProbeRaises, TypeOK
<1>10. ASSUME NEW c \in Client, ProbeResetDone(c) PROVE TypeOK'
  <2>1. at[c] \in Slot /\ pc[c] # "idle"
    BY <1>10, AtSlot DEF ProbeResetDone
  <2>2. slot' \in [Slot -> SlotState]
    BY <1>10, <2>1, ResetSlotType DEF ProbeResetDone, PC, TypeOK
  <2>3. lockq' \in [Slot -> Seq(Client)] /\ semq' \in Seq(Client)
    BY <1>10, <2>1, QueueType DEF ProbeResetDone, TypeOK
  <2>4. pc' \in [Client -> PC] /\ \A d \in Client : pc'[d] = "idle" <=> pc[d] = "idle"
    BY <1>10, <2>1, PcType DEF ProbeResetDone, PC, Locking, Creating, ResetSlot
  <2>5. victim' \in [Client -> Conn \cup {None}]
    BY <1>10, <2>1 DEF ProbeResetDone, TypeOK, SlotState
  <2>6. transport' \in [Conn -> Transport]
    BY <1>10 DEF ProbeResetDone, TypeOK, Transport
  <2> QED
    BY <1>10, <2>2, <2>3, <2>4, <2>5, <2>6 DEF ProbeResetDone, TypeOK
<1>11. ASSUME NEW c \in Client, CleanupDone(c) PROVE TypeOK'
  <2>1. at[c] \in Slot /\ pc[c] # "idle"
    BY <1>11, AtSlot DEF CleanupDone
  <2>2. slot' \in [Slot -> SlotState]
    BY <1>11, <2>1, ResetSlotType DEF CleanupDone, PC, TypeOK
  <2>3. lockq' \in [Slot -> Seq(Client)] /\ semq' \in Seq(Client)
    BY <1>11, <2>1, QueueType DEF CleanupDone, TypeOK
  <2>4. pc' \in [Client -> PC] /\ \A d \in Client : pc'[d] = "idle" <=> pc[d] = "idle"
    BY <1>11, <2>1, PcType DEF CleanupDone, PC, Locking, Creating, ResetSlot
  <2>5. victim' \in [Client -> Conn \cup {None}]
    BY <1>11, <2>1 DEF CleanupDone, TypeOK, SlotState
  <2>6. transport' \in [Conn -> Transport]
    BY <1>11 DEF CleanupDone, TypeOK, Transport
  <2> QED
    BY <1>11, <2>2, <2>3, <2>4, <2>5, <2>6 DEF CleanupDone, TypeOK
<1>12. ASSUME NEW c \in Client, CloseCall(c) PROVE TypeOK'
  <2>1. at[c] \in Slot /\ pc[c] # "idle"
    BY <1>12, AtSlot DEF CloseCall
  <2>2. pc' \in [Client -> PC] /\ \A d \in Client : pc'[d] = "idle" <=> pc[d] = "idle"
    BY <1>12, <2>1, PcType DEF CloseCall, PC, Locking, Creating
  <2>3. victim' \in [Client -> Conn \cup {None}]
    BY <1>12, <2>1 DEF CloseCall, TypeOK, SlotState
  <2>4. transport' \in [Conn -> Transport]
    BY <1>12 DEF CloseCall, TypeOK, Transport
  <2> QED
    BY <1>12, <2>2, <2>3, <2>4 DEF CloseCall, TypeOK, queues
<1>13. ASSUME NEW c \in Client, CloseDone(c) PROVE TypeOK'
  <2>1. pc[c] # "idle" /\ FinishClose(c)
    BY <1>13 DEF CloseDone
  <2>2. transport' \in [Conn -> Transport] /\ victim' \in [Client -> Conn \cup {None}]
    BY <1>13 DEF CloseDone, TypeOK, Transport
  <2> QED
    BY <2>1, <2>2, FinishCloseType DEF TypeOK
<1>14. ASSUME NEW c \in Client, CloseNothing(c) PROVE TypeOK'
  <2>1. pc[c] # "idle" /\ FinishClose(c) /\ UNCHANGED <<victim, transport>>
    BY <1>14 DEF CloseNothing
  <2> QED
    BY <2>1, FinishCloseType DEF TypeOK
<1>15. ASSUME NEW c \in Client, NEW s \in Slot, Sweep(c, s) PROVE TypeOK'
  BY <1>15, BeginCloseTypeOK DEF Sweep, Reason
<1>16. ASSUME NEW c \in Client, NEW s \in Slot, CloseAll(c, s) PROVE TypeOK'
  BY <1>16, BeginCloseTypeOK DEF CloseAll, Reason
<1>17. ASSUME NEW c \in Client, Resume(c) PROVE TypeOK'
  <2>1. at[c] \in Slot /\ pc[c] # "idle"
    BY <1>17, AtSlot DEF Resume
  <2>2. pc' \in [Client -> PC] /\ \A d \in Client : pc'[d] = "idle" <=> pc[d] = "idle"
    BY <1>17, <2>1, PcType DEF Resume, PC, Locking, Creating
  <2>3. got' \in [Client -> Conn \cup {None}]
    BY <1>17, <2>1 DEF Resume, TypeOK, SlotState
  <2> QED
    BY <1>17, <2>2, <2>3 DEF Resume, TypeOK, queues
<1>18. ASSUME NEW c \in Client, Hand(c) PROVE TypeOK'
  <2>1. at[c] \in Slot /\ pc[c] # "idle"
    BY <1>18, AtSlot DEF Hand
  <2>2. pc' \in [Client -> PC] /\ \A d \in Client : pc'[d] = "idle" <=> pc[d] = "idle"
    BY <1>18, <2>1, PcType DEF Hand, PC, Locking, Creating
  <2> QED
    BY <1>18, <2>2 DEF Hand, TypeOK, queues
<1>19. ASSUME NEW c \in Client, Skip(c) PROVE TypeOK'
  BY <1>19, LeaveTypeOK DEF Skip
<1>20. ASSUME NEW c \in Client, UserDone(c) PROVE TypeOK'
  BY <1>20, LeaveTypeOK DEF UserDone
<1>21. ASSUME NEW c \in Client, ExpireConn(c) PROVE TypeOK'
  BY <1>21, LeaveTypeOK, BeginCloseTypeOK DEF ExpireConn, Reason
<1>22. ASSUME NEW c \in Client, LeaveFailed(c) PROVE TypeOK'
  BY <1>22, AtSlot, ReleaseType DEF LeaveFailed, TypeOK
<1>23. ASSUME NEW c \in Client, Timeout(c) PROVE TypeOK'
  <2>1. at[c] \in Slot /\ pc[c] # "idle"
    BY <1>23, AtSlot DEF Timeout, Interruptible
  <2>2. lockq' \in [Slot -> Seq(Client)] /\ semq' \in Seq(Client)
    BY <1>23, <2>1, QueueType DEF Timeout
  <2>3. PICK l \in Cancelled : Goto(c, l)
    BY <1>23 DEF Timeout
  <2>4. pc' \in [Client -> PC] /\ \A d \in Client : pc'[d] = "idle" <=> pc[d] = "idle"
    BY <2>1, <2>3, PcType DEF Cancelled, PC
  <2> QED
    BY <1>23, <2>2, <2>4 DEF Timeout, TypeOK
<1>24. ASSUME NEW c \in Client, TimeoutProbe(c) PROVE TypeOK'
  <2>1. at[c] \in Slot /\ pc[c] # "idle"
    BY <1>24, AtSlot DEF TimeoutProbe
  <2>2. lockq' \in [Slot -> Seq(Client)] /\ semq' \in Seq(Client)
    BY <1>24, <2>1, QueueType DEF TimeoutProbe
  <2>3. PICK l \in Cancelled : \/ Goto(c, l) /\ UNCHANGED slot
                               \/ ResetSlot(c, at[c], l)
    BY <1>24 DEF TimeoutProbe
  <2>4. l \in PC /\ l # "idle"
    BY DEF Cancelled, PC
  <2>5. slot' \in [Slot -> SlotState]
    BY <2>1, <2>3, <2>4, ResetSlotType DEF TypeOK
  <2>6. pc' \in [Client -> PC] /\ \A d \in Client : pc'[d] = "idle" <=> pc[d] = "idle"
    BY <2>1, <2>3, <2>4, PcType DEF ResetSlot
  <2>7. transport' \in [Conn -> Transport] /\ victim' \in [Client -> Conn \cup {None}]
    BY <1>24 DEF TimeoutProbe, TypeOK, Transport
  <2> QED
    BY <1>24, <2>2, <2>5, <2>6, <2>7 DEF TimeoutProbe, TypeOK
<1>25. ASSUME NEW s \in Slot, IdlePasses(s) PROVE TypeOK'
  <2>1. slot' \in [Slot -> SlotState]
    BY <1>25, SlotTypes DEF IdlePasses, Elapsed
  <2> QED
    BY <1>25, <2>1 DEF IdlePasses, TypeOK, queues, tasks
<1>26. ASSUME NEW s \in Slot, AgePasses(s) PROVE TypeOK'
  <2>1. slot' \in [Slot -> SlotState]
    BY <1>26, SlotTypes DEF AgePasses, Elapsed
  <2> QED
    BY <1>26, <2>1 DEF AgePasses, TypeOK, queues, tasks
<1>27. CASE UNCHANGED vars
  BY <1>27 DEF TypeOK, vars, queues, tasks
<1> QED
  BY <1>1, <1>2, <1>3, <1>4, <1>5, <1>6, <1>7, <1>8, <1>9, <1>10, <1>11, <1>12, <1>13,
     <1>14, <1>15, <1>16, <1>17, <1>18, <1>19, <1>20, <1>21, <1>22, <1>23, <1>24, <1>25, <1>26, <1>27
     DEF Next, Proceed, CreateAnswers, ProbeAnswers, CloseReturns, Deadline, Uses, Gets

\* The variables keep their types, and a task works on a slot from the token it
\* takes, or the close() it starts, until it is out of the pool.
THEOREM TypeCorrect == Spec => []TypeOK
<1>1. Init => TypeOK
  BY EmptySlotType DEF Init, TypeOK, PC, Transport
<1>2. TypeOK /\ [Next]_vars => TypeOK'
  BY TypeStep
<1> QED
  BY <1>1, <1>2, PTL DEF Spec

-----------------------------------------------------------------------------
(* The mark *)

\* One slot after a step: a mark that was not there before needs a connection.
MarkKept(r, q) ==
    q.shouldClose => q.connection # None \/ (r.shouldClose /\ q.connection = r.connection)

LEMMA CheckedInMark ==
    ASSUME NEW r \in SlotState, NEW alone, NEW k
    PROVE  MarkKept(r, CheckedIn(r, alone, k))
BY DEF MarkKept, CheckedIn, Expired, SlotState

LEMMA MarkedStep == TypeOK /\ MarkedHasConnection /\ [Next]_vars => MarkedHasConnection'
<1> SUFFICES ASSUME TypeOK, MarkedHasConnection, [Next]_vars, NEW s \in Slot
             PROVE  MarkKept(slot[s], slot'[s])
  BY DEF MarkedHasConnection, MarkKept
<1> slot[s] \in SlotState
  BY DEF TypeOK
<1>1. ASSUME NEW c \in Client, NEW l, pc[c] # "idle", ResetSlot(c, at[c], l)
      PROVE  MarkKept(slot[s], slot'[s])
  BY <1>1, AtSlot DEF ResetSlot, EmptySlot, TypeOK, MarkKept
<1>3. ASSUME NEW c \in Client, pc[c] # "idle", Leave(c) PROVE MarkKept(slot[s], slot'[s])
  <2>1. at[c] \in Slot /\ slot[at[c]] \in SlotState
    BY <1>3, AtSlot DEF TypeOK
  <2>2. slot' = [slot EXCEPT ![at[c]] = CheckedIn(@, borrowers[at[c]] = {c}, got[c])]
    BY <1>3 DEF Leave
  <2>3. MarkKept(slot[at[c]], CheckedIn(slot[at[c]], borrowers[at[c]] = {c}, got[c]))
    BY <2>1, CheckedInMark
  <2> QED
    BY <2>1, <2>2, <2>3 DEF TypeOK, MarkKept
<1>4. ASSUME NEW c \in Client, pc[c] # "idle", FinishClose(c) PROVE MarkKept(slot[s], slot'[s])
  <2>1. at[c] \in Slot
    BY <1>4, AtSlot
  <2>2. CASE why[c] = "expire"
    <3>1. slot' = [slot EXCEPT ![at[c]] = CheckedIn(EmptySlot, borrowers[at[c]] = {c}, got[c])]
      BY <1>4, <2>2 DEF FinishClose
    <3>2. MarkKept(EmptySlot, CheckedIn(EmptySlot, borrowers[at[c]] = {c}, got[c]))
      BY EmptySlotType, CheckedInMark
    <3> QED
      BY <2>1, <3>1, <3>2 DEF TypeOK, MarkKept, EmptySlot
  <2>3. CASE why[c] # "expire"
    <3>1. ResetSlot(c, at[c], "sem") \/ ResetSlot(c, at[c], "idle")
      BY <1>4, <2>3 DEF FinishClose
    <3> QED
      BY <1>1, <1>4, <3>1
  <2> QED
    BY <2>2, <2>3
<1>2. ASSUME NEW c \in Client, pc[c] # "idle",
             \/ UNCHANGED slot
             \/ slot' = [slot EXCEPT ![at[c]].idle = "none"]
             \/ slot' = [slot EXCEPT ![at[c]].shouldClose = TRUE] /\ Expired(slot[at[c]])
      PROVE  MarkKept(slot[s], slot'[s])
  <2>1. at[c] \in Slot /\ slot[at[c]] \in SlotState
    BY <1>2, AtSlot DEF TypeOK
  <2>2. CASE slot' = [slot EXCEPT ![at[c]].idle = "none"]
    <3>1. MarkKept(slot[at[c]], [slot[at[c]] EXCEPT !.idle = "none"])
      BY <2>1 DEF MarkKept, SlotState
    <3> QED
      BY <2>1, <2>2, <3>1 DEF TypeOK, MarkKept
  <2>3. CASE slot' = [slot EXCEPT ![at[c]].shouldClose = TRUE] /\ Expired(slot[at[c]])
    <3>1. MarkKept(slot[at[c]], [slot[at[c]] EXCEPT !.shouldClose = TRUE])
      BY <2>1, <2>3 DEF MarkKept, Expired, SlotState
    <3> QED
      BY <2>1, <2>3, <3>1 DEF TypeOK, MarkKept
  <2> QED
    BY <1>2, <2>2, <2>3 DEF MarkKept
<1>5. ASSUME NEW c \in Client, CheckoutStart(c) PROVE MarkKept(slot[s], slot'[s])
  BY <1>2, <1>5 DEF CheckoutStart, StopIdleAndWait
<1>6. ASSUME NEW c \in Client, SemGranted(c) PROVE MarkKept(slot[s], slot'[s])
  BY <1>2, <1>6 DEF SemGranted, StopIdleAndWait
<1>7. ASSUME NEW c \in Client, NEW k \in Conn, CreateDone(c, k) PROVE MarkKept(slot[s], slot'[s])
  <2> DEFINE r == [slot[at[c]] EXCEPT !.connection = k,
                                      !.age = IF LifespanEnabled THEN "within" ELSE @]
  <2>1. at[c] \in Slot
    BY <1>7, AtSlot DEF CreateDone
  <2>2. slot[at[c]] \in SlotState
    BY <2>1 DEF TypeOK
  <2>3. r.connection = k /\ [r EXCEPT !.idle = "none"].connection = k
    BY <2>2 DEF SlotState
  <2>4. slot' = [slot EXCEPT ![at[c]] = r] \/ slot' = [slot EXCEPT ![at[c]] = [r EXCEPT !.idle = "none"]]
    BY <1>7 DEF CreateDone
  <2> HIDE DEF r
  <2>5. s = at[c] => slot'[s].connection = k
    BY <2>1, <2>3, <2>4 DEF TypeOK
  <2>6. s # at[c] => slot'[s] = slot[s]
    BY <2>1, <2>4 DEF TypeOK
  <2> QED
    BY <2>5, <2>6, SharedAssumption DEF MarkKept
<1>8. ASSUME NEW c \in Client, ProbeOk(c) PROVE MarkKept(slot[s], slot'[s])
  BY <1>8, AtSlot DEF MarkKept, ProbeOk, TypeOK, SlotState
<1>9. ASSUME NEW c \in Client, ProbeFalse(c) PROVE MarkKept(slot[s], slot'[s])
  BY <1>1, <1>9 DEF ProbeFalse, MarkKept
<1>10. ASSUME NEW c \in Client, ProbeResetDone(c) \/ CleanupDone(c) PROVE MarkKept(slot[s], slot'[s])
  BY <1>1, <1>10 DEF ProbeResetDone, CleanupDone
<1>11. ASSUME NEW c \in Client, CloseDone(c) \/ CloseNothing(c) PROVE MarkKept(slot[s], slot'[s])
  BY <1>4, <1>11 DEF CloseDone, CloseNothing
<1>12. ASSUME NEW c \in Client, Skip(c) \/ UserDone(c) PROVE MarkKept(slot[s], slot'[s])
  BY <1>3, <1>12 DEF Skip, UserDone
<1>13. ASSUME NEW c \in Client, ExpireConn(c) PROVE MarkKept(slot[s], slot'[s])
  BY <1>3, <1>13 DEF ExpireConn, BeginClose, MarkKept
<1>14. ASSUME NEW c \in Client, TimeoutProbe(c) PROVE MarkKept(slot[s], slot'[s])
  BY <1>1, <1>14 DEF TimeoutProbe, MarkKept
<1>15. ASSUME NEW t \in Slot, IdlePasses(t) \/ AgePasses(t) PROVE MarkKept(slot[s], slot'[s])
  <2>1. slot[t] \in SlotState
    BY DEF TypeOK
  <2>2. \A e : MarkKept(slot[t], [slot[t] EXCEPT !.idle = e]) /\ MarkKept(slot[t], [slot[t] EXCEPT !.age = e])
    BY <2>1 DEF MarkKept, SlotState
  <2>3. CASE slot' = [slot EXCEPT ![t].idle = "over"]
    BY <2>1, <2>2, <2>3 DEF MarkKept, TypeOK
  <2>4. CASE slot' = [slot EXCEPT ![t].age = "over"]
    BY <2>1, <2>2, <2>4 DEF MarkKept, TypeOK
  <2> QED
    BY <1>15, <2>3, <2>4 DEF IdlePasses, AgePasses
<1>16. CASE UNCHANGED slot
  BY <1>16 DEF MarkKept
<1>17. ASSUME NEW c \in Client,
              \/ ProbeCall(c) \/ CloseCall(c) \/ Resume(c) \/ Hand(c) \/ LeaveFailed(c)
              \/ CreateFails(c) \/ ProbeRaises(c) \/ Timeout(c)
              \/ \E t \in Slot : Acquire(c, t) \/ Sweep(c, t) \/ CloseAll(c, t)
       PROVE  UNCHANGED slot
  BY <1>17 DEF ProbeCall, CloseCall, Resume, Hand, LeaveFailed, CreateFails, ProbeRaises, Timeout,
               Acquire, Sweep, CloseAll, BeginClose
<1> QED
  BY <1>5, <1>6, <1>7, <1>8, <1>9, <1>10, <1>11, <1>12, <1>13, <1>14, <1>15, <1>16, <1>17
     DEF Next, Proceed, CreateAnswers, ProbeAnswers, CloseReturns, Deadline, Uses, Gets, vars

\* A slot that was withdrawn from service (_should_close) still holds the connection to
\* close: close(), which returns early without one, can bring it back.
THEOREM MarkedSlotsHaveConnections == Spec => []MarkedHasConnection
<1>1. Init => MarkedHasConnection
  BY DEF Init, MarkedHasConnection, EmptySlot
<1>2. TypeOK /\ MarkedHasConnection /\ [Next]_vars => MarkedHasConnection'
  BY MarkedStep
<1> QED
  BY <1>1, <1>2, TypeCorrect, PTL DEF Spec

-----------------------------------------------------------------------------
(* The readiness event *)

\* What the waiters of a slot rely on.
Opening(r) == r.connection # None /\ ~r.ready

\* Stopping or starting a clock, marking and checking in do not disturb that.
LEMMA OpeningKept ==
    ASSUME NEW r \in SlotState
    PROVE  /\ \A e : Opening([r EXCEPT !.idle = e]) <=> Opening(r)
           /\ \A e : Opening([r EXCEPT !.age = e]) <=> Opening(r)
           /\ \A e : Opening([r EXCEPT !.shouldClose = e]) <=> Opening(r)
BY DEF Opening, SlotState

LEMMA CheckedInOpening ==
    ASSUME NEW r \in SlotState, NEW alone, NEW k
    PROVE  Opening(CheckedIn(r, alone, k)) <=> Opening(r)
BY DEF Opening, CheckedIn, SlotState

\* When the event of a slot is replaced, nobody waits for the slot any more.
LEMMA NobodyWaits ==
    ASSUME TypeOK, NEW c \in Client, NEW s \in Slot, NEW l, l # "wait",
           NewEvent(c, s, l),
           NEW d \in Client, pc'[d] = "wait"
    PROVE  d # c /\ pc[d] = "wait" /\ at[d] # s
BY DEF TypeOK, NewEvent

LEMMA WaitStep == TypeOK /\ SetReachesWaiters /\ [Next]_vars => SetReachesWaiters'
<1> SUFFICES ASSUME TypeOK, SetReachesWaiters, [Next]_vars,
                    NEW d \in Client, pc'[d] = "wait"
             PROVE  Opening(slot'[at'[d]])
  BY DEF SetReachesWaiters, Opening
<1>0. pc[d] = "wait" => at[d] \in Slot /\ slot[at[d]] \in SlotState /\ Opening(slot[at[d]])
  BY AtSlot DEF TypeOK, SetReachesWaiters, Opening
\* d waited before the step, and its slot is as good as it was.
<1> DEFINE StillOpening == pc[d] = "wait" /\ at'[d] = at[d] /\ Opening(slot'[at[d]])
<1>1. ASSUME NEW c \in Client, NEW l, l # "wait", pc[c] # "idle", ResetSlot(c, at[c], l),
             \A e \in Client : e # c => at'[e] = at[e]
      PROVE  StillOpening
  BY <1>0, <1>1, AtSlot, NobodyWaits DEF ResetSlot, TypeOK
<1>2. ASSUME NEW c \in Client, NEW l, l # "wait", Goto(c, l), UNCHANGED slot,
             \A e \in Client : e # c => at'[e] = at[e]
      PROVE  StillOpening
  BY <1>0, <1>2 DEF Goto, TypeOK
<1>3. ASSUME NEW c \in Client, pc[c] # "idle", Leave(c) PROVE StillOpening
  <2>1. at[c] \in Slot /\ slot[at[c]] \in SlotState
    BY <1>3, AtSlot DEF TypeOK
  <2>2. slot' = [slot EXCEPT ![at[c]] = CheckedIn(@, borrowers[at[c]] = {c}, got[c])]
    BY <1>3 DEF Leave
  <2>3. Opening(CheckedIn(slot[at[c]], borrowers[at[c]] = {c}, got[c])) <=> Opening(slot[at[c]])
    BY <2>1, CheckedInOpening
  <2>4. pc[d] = "wait" /\ at'[d] = at[d]
    BY <1>3 DEF Leave, Goto, Release, TypeOK
  <2> QED
    BY <1>0, <2>1, <2>2, <2>3, <2>4 DEF TypeOK
<1>4. ASSUME NEW c \in Client, pc[c] # "idle", FinishClose(c) PROVE StillOpening
  <2>1. at[c] \in Slot
    BY <1>4, AtSlot
  <2>2. CASE why[c] = "expire"
    <3>1. NewEvent(c, at[c], "idle") /\ Release(c, at[c])
      BY <1>4, <2>2 DEF FinishClose
    <3>2. d # c /\ pc[d] = "wait" /\ at[d] # at[c]
      BY <2>1, <3>1, NobodyWaits
    <3>3. slot'[at[d]] = slot[at[d]] /\ at'[d] = at[d]
      BY <1>4, <2>1, <2>2, <3>1, <3>2 DEF FinishClose, Release, TypeOK
    <3> QED
      BY <1>0, <3>2, <3>3
  <2>3. CASE why[c] # "expire"
    <3>1. ResetSlot(c, at[c], "sem") \/ ResetSlot(c, at[c], "idle")
      BY <1>4, <2>3 DEF FinishClose
    <3>2. \A e \in Client : e # c => at'[e] = at[e]
      BY <1>4, <2>3 DEF FinishClose, Release, TypeOK
    <3> QED
      BY <1>1, <1>4, <3>1, <3>2
  <2> QED
    BY <2>2, <2>3
\* What checkout() does to the slot before it waits or queues.
<1>5. ASSUME NEW c \in Client, NEW l, pc[c] # "idle", Goto(c, l), UNCHANGED at,
             l = "wait" => Opening(slot[at[c]]),
             \/ UNCHANGED slot
             \/ slot' = [slot EXCEPT ![at[c]].idle = "none"]
             \/ slot' = [slot EXCEPT ![at[c]].shouldClose = TRUE]
      PROVE  Opening(slot'[at'[d]])
  <2>1. at[c] \in Slot /\ slot[at[c]] \in SlotState
    BY <1>5, AtSlot DEF TypeOK
  <2>2. pc[d] = "wait" \/ (d = c /\ l = "wait")
    BY <1>5 DEF Goto, TypeOK
  <2>3. Opening(slot[at[d]]) /\ at[d] \in Slot
    BY <1>0, <1>5, <2>1, <2>2
  <2>4. Opening(slot[at[c]]) => Opening(slot'[at[c]])
    <3>1. /\ Opening([slot[at[c]] EXCEPT !.idle = "none"]) <=> Opening(slot[at[c]])
          /\ Opening([slot[at[c]] EXCEPT !.shouldClose = TRUE]) <=> Opening(slot[at[c]])
      BY <2>1, OpeningKept
    <3>2. CASE UNCHANGED slot
      BY <3>2
    <3>3. CASE slot' = [slot EXCEPT ![at[c]].idle = "none"]
      <4>1. slot'[at[c]] = [slot[at[c]] EXCEPT !.idle = "none"]
        BY <2>1, <3>3 DEF TypeOK
      <4> QED
        BY <3>1, <4>1
    <3>4. CASE slot' = [slot EXCEPT ![at[c]].shouldClose = TRUE]
      <4>1. slot'[at[c]] = [slot[at[c]] EXCEPT !.shouldClose = TRUE]
        BY <2>1, <3>4 DEF TypeOK
      <4> QED
        BY <3>1, <4>1
    <3> QED
      BY <1>5, <3>2, <3>3, <3>4
  <2>5. at[d] # at[c] => slot'[at[d]] = slot[at[d]]
    BY <1>5, <2>1, <2>3 DEF TypeOK
  <2> QED
    BY <1>5, <2>3, <2>4, <2>5
<1>6. ASSUME NEW c \in Client, CheckoutStart(c) PROVE Opening(slot'[at'[d]])
  <2>1. pc[c] # "idle" /\ UNCHANGED at
    BY <1>6 DEF CheckoutStart
  <2>2. CASE slot' = [slot EXCEPT ![at[c]].shouldClose = TRUE] /\ Goto(c, "closeLock")
    BY <1>5, <2>1, <2>2
  <2>3. CASE UNCHANGED slot /\ Goto(c, "sem")
    BY <1>5, <2>1, <2>3
  <2>4. CASE slot[at[c]].connection # None /\ StopIdleAndWait(c, at[c])
    BY <1>5, <2>1, <2>4 DEF StopIdleAndWait, Opening
  <2> QED
    BY <1>6, <2>2, <2>3, <2>4 DEF CheckoutStart
<1>7. ASSUME NEW c \in Client, SemGranted(c) PROVE Opening(slot'[at'[d]])
  <2>1. pc[c] # "idle" /\ UNCHANGED at
    BY <1>7 DEF SemGranted
  <2>2. CASE UNCHANGED slot /\ (Goto(c, "create") \/ Goto(c, "probeLock"))
    BY <1>5, <2>1, <2>2
  <2>3. CASE slot[at[c]].connection # None /\ StopIdleAndWait(c, at[c])
    BY <1>5, <2>1, <2>3 DEF StopIdleAndWait, Opening
  <2> QED
    BY <1>7, <2>2, <2>3 DEF SemGranted
<1>8. ASSUME NEW c \in Client, NEW k \in Conn, CreateDone(c, k) PROVE Opening(slot'[at'[d]])
  <2> DEFINE r == [slot[at[c]] EXCEPT !.connection = k,
                                      !.age = IF LifespanEnabled THEN "within" ELSE @]
  <2>1. at[c] \in Slot /\ slot[at[c]] \in SlotState
    BY <1>8, AtSlot DEF CreateDone, TypeOK
  <2>2. pc[d] = "wait" /\ at'[d] = at[d]
    BY <1>8 DEF CreateDone, Goto, TypeOK
  <2>3. r \in SlotState
    BY <2>1 DEF SlotState, Elapsed
  <2>4. Opening(slot[at[c]]) => Opening(r)
    BY <2>1, SharedAssumption DEF SlotState, Opening
  <2>5. slot' = [slot EXCEPT ![at[c]] = r] \/ slot' = [slot EXCEPT ![at[c]] = [r EXCEPT !.idle = "none"]]
    BY <1>8 DEF CreateDone
  <2> HIDE DEF r
  <2>6. Opening(slot[at[c]]) => Opening(slot'[at[c]])
    <3>1. Opening([r EXCEPT !.idle = "none"]) <=> Opening(r)
      BY <2>3, OpeningKept
    <3>2. slot'[at[c]] = r \/ slot'[at[c]] = [r EXCEPT !.idle = "none"]
      BY <2>1, <2>5 DEF TypeOK
    <3> QED
      BY <2>4, <3>1, <3>2
  <2>7. at[d] # at[c] => slot'[at[d]] = slot[at[d]]
    BY <1>0, <2>1, <2>2, <2>5 DEF TypeOK
  <2> QED
    BY <1>0, <2>2, <2>6, <2>7
<1>9. ASSUME NEW c \in Client, ProbeOk(c) PROVE Opening(slot'[at'[d]])
  <2>1. at[c] \in Slot /\ WakeWaiters(c, at[c]) /\ UNCHANGED at
    BY <1>9, AtSlot DEF ProbeOk
  <2>2. d # c /\ pc[d] = "wait" /\ at[d] # at[c]
    BY <2>1 DEF WakeWaiters, TypeOK
  <2>3. slot'[at[d]] = slot[at[d]]
    BY <1>0, <1>9, <2>1, <2>2 DEF ProbeOk, TypeOK
  <2> QED
    BY <1>0, <2>1, <2>2, <2>3
<1>10. ASSUME NEW c \in Client,
              ProbeFalse(c) \/ ProbeResetDone(c) \/ CleanupDone(c) \/ TimeoutProbe(c)
       PROVE  Opening(slot'[at'[d]])
  <2>1. pc[c] # "idle" /\ UNCHANGED at
    BY <1>10 DEF ProbeFalse, ProbeResetDone, CleanupDone, TimeoutProbe
  <2>2. PICK l \in {"probeReset"} \cup Cancelled :
          ResetSlot(c, at[c], l) \/ (UNCHANGED slot /\ Goto(c, l))
    BY <1>10 DEF ProbeFalse, ProbeResetDone, CleanupDone, TimeoutProbe, Cancelled
  <2> QED
    BY <1>1, <1>2, <2>1, <2>2 DEF Cancelled
<1>11. ASSUME NEW c \in Client, CloseDone(c) \/ CloseNothing(c) PROVE Opening(slot'[at'[d]])
  BY <1>4, <1>11 DEF CloseDone, CloseNothing
<1>12. ASSUME NEW c \in Client, Skip(c) \/ UserDone(c) PROVE Opening(slot'[at'[d]])
  BY <1>3, <1>12 DEF Skip, UserDone
<1>13. ASSUME NEW c \in Client, NEW s \in Slot, NEW r, BeginClose(c, s, r)
       PROVE  Opening(slot'[at'[d]])
  BY <1>2, <1>13 DEF BeginClose, TypeOK
<1>14. ASSUME NEW c \in Client, ExpireConn(c) PROVE Opening(slot'[at'[d]])
  BY <1>3, <1>13, <1>14 DEF ExpireConn
<1>15. ASSUME NEW c \in Client,
              \/ ProbeCall(c) \/ CloseCall(c) \/ Resume(c) \/ Hand(c) \/ LeaveFailed(c)
              \/ CreateFails(c) \/ ProbeRaises(c) \/ Timeout(c)
              \/ \E s \in Slot : Acquire(c, s)
       PROVE  Opening(slot'[at'[d]])
  <2>1. PICK l \in PC \ {"wait"} : Goto(c, l) /\ UNCHANGED slot
    BY <1>15 DEF ProbeCall, CloseCall, Resume, Hand, LeaveFailed, CreateFails, ProbeRaises, Timeout,
                 Acquire, Cancelled, PC, Locking, Creating
  <2>2. \A e \in Client : e # c => at'[e] = at[e]
    BY <1>15 DEF ProbeCall, CloseCall, Resume, Hand, LeaveFailed, CreateFails, ProbeRaises, Timeout,
                 Acquire, Release, TypeOK
  <2> QED
    BY <1>2, <2>1, <2>2
<1>16. ASSUME NEW t \in Slot, IdlePasses(t) \/ AgePasses(t) PROVE Opening(slot'[at'[d]])
  <2>1. slot[t] \in SlotState /\ pc[d] = "wait" /\ at'[d] = at[d]
    BY <1>16 DEF IdlePasses, AgePasses, tasks, TypeOK
  <2>2. Opening(slot[t]) => Opening(slot'[t])
    <3>1. /\ Opening([slot[t] EXCEPT !.idle = "over"]) <=> Opening(slot[t])
          /\ Opening([slot[t] EXCEPT !.age = "over"]) <=> Opening(slot[t])
      BY <2>1, OpeningKept
    <3>2. \/ slot'[t] = [slot[t] EXCEPT !.idle = "over"]
          \/ slot'[t] = [slot[t] EXCEPT !.age = "over"]
      BY <1>16 DEF IdlePasses, AgePasses, TypeOK
    <3> QED
      BY <3>1, <3>2
  <2>3. at[d] # t => slot'[at[d]] = slot[at[d]]
    BY <1>0, <1>16, <2>1 DEF IdlePasses, AgePasses, TypeOK
  <2> QED
    BY <1>0, <2>1, <2>2, <2>3
<1>17. CASE UNCHANGED vars
  BY <1>0, <1>17 DEF vars, tasks
<1> QED
  BY <1>6, <1>7, <1>8, <1>9, <1>10, <1>11, <1>12, <1>13, <1>14, <1>15, <1>16, <1>17
     DEF Next, Proceed, CreateAnswers, ProbeAnswers, CloseReturns, Deadline, Uses, Gets, Sweep, CloseAll

\* Nobody waits for the slot's present event once it is set or the slot is empty: set()
\* reaches every waiter of that event.  Those whose event was replaced are orphans, which
\* OrphansAreClosed and LoneOpenersLeaveClosed are about.
THEOREM EverySetReachesWaiters == Spec => []SetReachesWaiters
<1>1. Init => SetReachesWaiters
  BY DEF Init, SetReachesWaiters
<1>2. TypeOK /\ SetReachesWaiters /\ [Next]_vars => SetReachesWaiters'
  BY WaitStep
<1> QED
  BY <1>1, <1>2, TypeCorrect, PTL DEF Spec
=============================================================================
