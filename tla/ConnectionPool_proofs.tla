------------------------ MODULE ConnectionPool_proofs ------------------------
(***************************************************************************)
(* Theorems about ConnectionPool.get(), for every number of tasks and      *)
(* slots and every timeout: its loop works the slots as                    *)
(* SharedTransportConnection says, so that what is proved of the slots     *)
(* holds of the pool; it leaves nothing behind and spreads its callers.    *)
(***************************************************************************)
EXTENDS ConnectionPool, SharedTransportPermit_proofs, SequenceTheorems

-----------------------------------------------------------------------------
(* The loop over the slots *)

LEMMA CandidatesType ==
    /\ ConnCheckN \in Nat
    /\ \A q \in Smallest : q \in Seq(Slot) /\ DOMAIN q = 1..ConnCheckN
<1>1. Cardinality(Slot) \in Nat
  BY PoolAssumption, FS_CardinalityType
<1>2. (4 * Cardinality(Slot)) \div 5 \in Nat
  BY <1>1
<1>3. ConnCheckN \in Nat
  BY <1>2 DEF ConnCheckN
<1> QED
  BY <1>3 DEF Smallest

LEMMA RestType ==
    ASSUME NEW q \in Seq(Slot), NEW i \in DOMAIN q
    PROVE  SubSeq(q, i + 1, Len(q)) \in Seq(Slot)
<1>1. i + 1 \in Int /\ Len(q) \in Int /\ \A j \in (i + 1)..Len(q) : q[j] \in Slot
  OBVIOUS
<1> QED
  BY <1>1, SubSeqProperties, Zenon

LoopTypeOK ==
    /\ stage \in [Client -> Stage]
    /\ todo \in [Client -> Seq(Slot)]
    /\ waited \in [Client -> 0..GetTimeout]
    /\ total \in [Client -> 0..GetTimeout]

\* What the for loop does up to its next await: nothing to a slot, or the step of a slot.
LEMMA VisitStep ==
    ASSUME LoopTypeOK, NEW c \in Client, NEW q \in Seq(Slot), Visit(c, q)
    PROVE  /\ Gets(c) \/ UNCHANGED vars
           /\ stage' \in [Client -> Stage] /\ todo' \in [Client -> Seq(Slot)]
           /\ \A d \in Client \ {c} : stage'[d] = stage[d]
           /\ stage'[c] = "sleep" => pc[c] = "idle" /\ UNCHANGED vars
           /\ stage'[c] \in {"sleep", "round"}
<1>1. CASE pc[c] = "idle" /\ stage' = [stage EXCEPT ![c] = "sleep"] /\ todo' = [todo EXCEPT ![c] = << >>] /\ UNCHANGED vars
  BY <1>1 DEF LoopTypeOK, Stage
<1>2. ASSUME NEW i \in DOMAIN q, Acquire(c, q[i]) \/ Sweep(c, q[i]), stage' = [stage EXCEPT ![c] = "round"],
             todo' = [todo EXCEPT ![c] = SubSeq(q, i + 1, Len(q))]
      PROVE  /\ Gets(c)
             /\ stage' \in [Client -> Stage] /\ todo' \in [Client -> Seq(Slot)]
             /\ \A d \in Client \ {c} : stage'[d] = stage[d]
             /\ stage'[c] = "round"
  <2>1. q[i] \in Slot /\ SubSeq(q, i + 1, Len(q)) \in Seq(Slot)
    BY RestType
  <2> QED
    BY <1>2, <2>1 DEF LoopTypeOK, Stage, Gets
<1> QED
  BY <1>1, <1>2 DEF Visit

\* The parts of a step of the pool: one of get(), or of the slots.
LEMMA PoolStepCases ==
    ASSUME LoopTypeOK, [PoolNext]_poolVars
    PROVE  \/ \E c \in Client, q \in Seq(Slot) : GetStep(c) /\ Visit(c, q)
           \/ \E c \in Client : Return(c) /\ stage[c] = "sleep" /\ UNCHANGED vars
           \/ \E c \in Client : SlotStep(c)
           \/ \E c \in Client : PoolCloseAll(c)
           \/ TimeStep /\ UNCHANGED loop
           \/ UNCHANGED poolVars
<1>1. ASSUME NEW c \in Client, GetBegin(c) PROVE \E q \in Seq(Slot) : GetStep(c) /\ Visit(c, q)
  BY <1>1, CandidatesType DEF GetBegin, GetStep
<1>2. ASSUME NEW c \in Client, GetContinue(c) PROVE \E q \in Seq(Slot) : GetStep(c) /\ Visit(c, q)
  BY <1>2 DEF GetContinue, GetStep, LoopTypeOK
<1>3. ASSUME NEW c \in Client, NEW d \in 1..MaxRound, GetAgain(c, d)
      PROVE  \E q \in Seq(Slot) : GetStep(c) /\ Visit(c, q)
  BY <1>3, CandidatesType DEF GetAgain, GetStep
<1>4. ASSUME NEW c \in Client, NEW d \in 1..MaxRound, Exhausted(c, d)
      PROVE  Return(c) /\ stage[c] = "sleep" /\ UNCHANGED vars
  BY <1>4 DEF Exhausted
<1> QED
  BY <1>1, <1>2, <1>3, <1>4 DEF PoolNext, GetStep, TimeStep

LEMMA LoopStep ==
    ASSUME LoopTypeOK, [PoolNext]_poolVars
    PROVE  LoopTypeOK' /\ [Next]_vars
<1>0. 0 \in 0..GetTimeout /\ << >> \in Seq(Slot)
  BY PoolAssumption
<1>1. ASSUME NEW c \in Client, Return(c) PROVE LoopTypeOK'
  BY <1>0, <1>1 DEF Return, LoopTypeOK, Stage
<1>2. ASSUME NEW c \in Client, NEW q \in Seq(Slot), GetStep(c), Visit(c, q)
      PROVE  LoopTypeOK' /\ [Next]_vars
  <2>1. Gets(c) \/ UNCHANGED vars
    BY <1>2, VisitStep
  <2>2. stage' \in [Client -> Stage] /\ todo' \in [Client -> Seq(Slot)]
    BY <1>2, VisitStep
  <2>3. waited' \in [Client -> 0..GetTimeout] /\ total' \in [Client -> 0..GetTimeout]
    <3>1. CASE UNCHANGED <<waited, total>>
      BY <3>1 DEF LoopTypeOK
    <3>2. CASE \E d \in 1..MaxRound : Exhausted(c, d)
      BY <1>1, <3>2 DEF Exhausted, LoopTypeOK
    <3>3. ASSUME NEW d \in 1..MaxRound, GetAgain(c, d)
          PROVE  waited' \in [Client -> 0..GetTimeout] /\ total' \in [Client -> 0..GetTimeout]
      <4>1. total[c] \in 0..GetTimeout /\ waited[c] \in 0..GetTimeout
        BY DEF LoopTypeOK
      <4>2. waited[c] + d \in 0..GetTimeout /\ TotalAfter(c, d) \in 0..GetTimeout
        BY <3>3, <4>1, PoolAssumption DEF GetAgain, TotalAfter
      <4> QED
        BY <3>3, <4>2 DEF GetAgain, LoopTypeOK
    <3> QED
      BY <1>2, <3>1, <3>2, <3>3 DEF GetStep, GetBegin, GetContinue
  <2> QED
    BY <2>1, <2>2, <2>3 DEF LoopTypeOK, Next
<1>3. ASSUME NEW c \in Client, SlotStep(c) PROVE LoopTypeOK' /\ [Next]_vars
  <2>1. LoopTypeOK'
    BY <1>1, <1>3 DEF SlotStep, loop, LoopTypeOK
  <2> QED
    BY <1>3, <2>1 DEF SlotStep, Next
<1>4. ASSUME NEW c \in Client, PoolCloseAll(c) PROVE LoopTypeOK' /\ [Next]_vars
  BY <1>4 DEF PoolCloseAll, loop, LoopTypeOK, Next
<1>5. CASE TimeStep /\ UNCHANGED loop
  BY <1>5 DEF TimeStep, loop, LoopTypeOK, Next
<1>6. CASE UNCHANGED poolVars
  BY <1>6 DEF poolVars, loop, LoopTypeOK
<1> QED
  BY <1>1, <1>2, <1>3, <1>4, <1>5, <1>6, PoolStepCases

LEMMA LoopAlways == PoolSpec => []LoopTypeOK
<1>1. PoolInit => LoopTypeOK
  BY PoolAssumption DEF PoolInit, LoopTypeOK, Stage
<1> QED
  BY <1>1, LoopStep, PTL DEF PoolSpec

\* get() works its slots only as SharedTransportConnection says: every theorem about the
\* slots, whatever tasks do with them, holds of the slots of a pool.
THEOREM PoolRunsItsSlots == PoolSpec => Spec
<1>1. PoolInit => Init
  BY DEF PoolInit
<1> QED
  BY <1>1, LoopStep, LoopAlways, PTL DEF PoolSpec, Spec

\* The locals of get() and the state of the slots have their types; total_time, which the
\* code adds up anew in every round, stays below the timeout while the loop goes on.
THEOREM PoolTypeCorrect == PoolSpec => []PoolTypeOK
<1>1. TypeOK /\ LoopTypeOK => PoolTypeOK
  BY DEF PoolTypeOK, LoopTypeOK
<1> QED
  BY <1>1, LoopAlways, PoolRunsItsSlots, TypeCorrect, PTL

\* The time that passed by the last round is part of the sum, which is short of the timeout.
InTime == \A c \in Client : waited[c] <= total[c] /\ total[c] < GetTimeout

\* connection_pooling.py:536, :572: a get() begins no round after its timeout.  That the code
\* adds up the time since the call in every round makes it give up too early, as the run
\* timeout_honoured finds, but never too late.
THEOREM RoundsBeginInTime == PoolSpec => []InTime
<1>1. PoolInit => InTime
  BY PoolAssumption DEF PoolInit, InTime
<1>2. LoopTypeOK /\ InTime /\ [PoolNext]_poolVars => InTime'
  <2> SUFFICES ASSUME LoopTypeOK, InTime, [PoolNext]_poolVars PROVE InTime'
    OBVIOUS
  <2>1. CASE UNCHANGED <<waited, total>>
    BY <2>1 DEF InTime
  <2>2. ASSUME NEW c \in Client, Return(c) PROVE InTime'
    BY <2>2, PoolAssumption DEF Return, InTime, LoopTypeOK
  <2>3. ASSUME NEW c \in Client, NEW d \in 1..MaxRound, GetAgain(c, d) PROVE InTime'
    <3>1. /\ waited[c] \in Nat /\ total[c] \in Nat /\ d \in Nat /\ GetTimeout \in Nat
          /\ waited[c] + d <= TotalAfter(c, d)
      BY PoolAssumption DEF LoopTypeOK, TotalAfter
    <3>2. \A b \in Client : /\ waited'[b] = IF b = c THEN waited[b] + d ELSE waited[b]
                            /\ total'[b] = IF b = c THEN TotalAfter(c, d) ELSE total[b]
      BY <2>3 DEF GetAgain, LoopTypeOK
    <3> QED
      BY <2>3, <3>1, <3>2 DEF GetAgain, InTime
  <2> QED
    BY <2>1, <2>2, <2>3 DEF PoolNext, GetStep, GetBegin, GetContinue, Exhausted, SlotStep, PoolCloseAll, loop, poolVars
<1> QED
  BY <1>1, <1>2, LoopAlways, PTL DEF PoolSpec

\* connection_pooling.py:558-567, in the state it is tested in: what the branch for stuck
\* connections asks for is available or closeable, and one of the branches before takes it.
THEOREM StuckIsTakenBefore == PoolSpec => [](\A s \in Slot : Stuck(s) => Available(s) \/ Closeable(s))
<1>1. TypeOK => \A s \in Slot : Stuck(s) => Available(s) \/ Closeable(s)
  BY SharedAssumption, FS_EmptySet DEF TypeOK, SlotState, Stuck, Available, Closeable, Count
<1> QED
  BY <1>1, PoolTypeCorrect, PTL DEF PoolTypeOK

-----------------------------------------------------------------------------
(* What get() leaves behind *)

\* What the slots do for c when it is not in the loop is a closeall(), which ends at "idle".
LEMMA OutsideStep ==
    ASSUME TypeOK, ReasonsFit, NEW c \in Client, SlotStep(c), pc[c] = "idle" \/ why[c] = "closeall"
    PROVE  pc'[c] = "idle" \/ why'[c] = "closeall"
<1>0. why[c] \in IF pc[c] \in {"closeLock", "closing"} THEN Reason ELSE {None}
  BY DEF ReasonsFit, InClose
<1>1. pc[c] = "idle" \/ pc[c] \in {"closeLock", "closing"}
  BY <1>0, SharedAssumption DEF Reason, ReasonsFit
<1>2. at[c] \in Slot \/ pc[c] = "idle"
  BY AtSlot
<1> USE <1>1, <1>2
<1>3. CASE Proceed(c)
  BY <1>3 DEF Proceed, CheckoutStart, SemGranted, ProbeCall, CloseCall, CloseNothing, FinishClose, NewEvent, ResetSlot,
              Resume, Hand, Skip, LeaveFailed, TypeOK
<1>4. CASE CreateAnswers(c) \/ ProbeAnswers(c) \/ Uses(c)
  BY <1>4 DEF CreateAnswers, CreateDone, CreateFails, ProbeAnswers, ProbeOk, ProbeFalse, ProbeRaises, Uses, UserDone, ExpireConn
<1>5. CASE CloseReturns(c)
  BY <1>5 DEF CloseReturns, CloseDone, ProbeResetDone, CleanupDone, FinishClose, NewEvent, ResetSlot, TypeOK
<1>6. CASE Deadline(c)
  BY <1>6 DEF Deadline, Timeout, TimeoutProbe, Interruptible
<1> QED
  BY <1>3, <1>4, <1>5, <1>6 DEF SlotStep

LEMMA OutsideStays ==
    ASSUME TypeOK, ReasonsFit, LoopTypeOK, NothingOutlivesGet, [PoolNext]_poolVars
    PROVE  NothingOutlivesGet'
<1>0. \A c \in Client : why[c] = "closeall" => pc[c] # "wait"
  BY SharedAssumption DEF ReasonsFit, InClose, Reason
<1>1. CASE UNCHANGED vars /\ \A c \in Client : /\ stage'[c] \in {"out", "sleep"}
                                              => stage[c] \in {"out", "sleep"} \/ pc[c] = "idle"
  BY <1>1 DEF NothingOutlivesGet, vars, tasks
<1>2. ASSUME NEW c \in Client, TaskStep(c), \A d \in Client \ {c} : stage'[d] = stage[d],
             stage'[c] \in {"out", "sleep"} => pc'[c] = "idle" \/ why'[c] = "closeall"
      PROVE  NothingOutlivesGet'
  BY <1>0, <1>2, OthersStep DEF OthersStay, NothingOutlivesGet
<1>3. ASSUME NEW c \in Client, NEW q \in Seq(Slot), Visit(c, q) PROVE NothingOutlivesGet'
  <2>1. CASE UNCHANGED vars
    BY <1>1, <1>3, <2>1, VisitStep
  <2>2. CASE Gets(c)
    BY <1>2, <1>3, <2>2, VisitStep DEF TaskStep, NothingOutlivesGet, vars, tasks
  <2> QED
    BY <1>3, <2>1, <2>2, VisitStep
<1>4. ASSUME NEW c \in Client, SlotStep(c) PROVE NothingOutlivesGet'
  <2>1. TaskStep(c)
    BY <1>4 DEF SlotStep, TaskStep
  <2>2. CASE LeavesGet(c)
    BY <1>2, <1>4, <2>1, <2>2 DEF SlotStep, LeavesGet, Return, LoopTypeOK
  <2>3. CASE ~LeavesGet(c)
    <3>1. UNCHANGED stage
      BY <1>4, <2>3 DEF SlotStep, loop
    <3> QED
      BY <1>2, <1>4, <2>1, <3>1, OutsideStep DEF NothingOutlivesGet
  <2> QED
    BY <2>2, <2>3
<1>5. ASSUME NEW c \in Client, PoolCloseAll(c) PROVE NothingOutlivesGet'
  <2>1. TaskStep(c) /\ UNCHANGED stage /\ why'[c] = "closeall"
    BY <1>5 DEF PoolCloseAll, TaskStep, loop, CloseAll, BeginClose, TypeOK
  <2> QED
    BY <1>2, <2>1
<1>6. CASE TimeStep /\ UNCHANGED loop
  BY <1>6, TimeStepSlots DEF loop, tasks, NothingOutlivesGet
<1>7. ASSUME NEW c \in Client, Return(c), stage[c] = "sleep", UNCHANGED vars PROVE NothingOutlivesGet'
  BY <1>1, <1>7 DEF Return, LoopTypeOK
<1>8. CASE UNCHANGED poolVars
  BY <1>1, <1>8 DEF poolVars, loop
<1> QED
  BY <1>3, <1>4, <1>5, <1>6, <1>7, <1>8, PoolStepCases

\* A task whose loop sleeps, or that is outside of get(), is in no slot, closeall() apart:
\* no token, lock or permit outlives the get() it was taken for.
THEOREM GetLeavesNothing == PoolSpec => []NothingOutlivesGet
<1>1. PoolInit => NothingOutlivesGet
  BY DEF PoolInit, Init, NothingOutlivesGet
<1>2. Accounted => ReasonsFit
  BY DEF Accounted, Identified
<1> QED
  BY <1>1, <1>2, OutsideStays, LoopAlways, PoolRunsItsSlots, TypeCorrect, AccountedAlways, PTL DEF PoolSpec

-----------------------------------------------------------------------------
(* Whom get() joins *)

\* A task is at the start of checkout() because get() took a token for it.
LEMMA EntersByAcquire ==
    ASSUME TypeOK, NEW c \in Client, TaskStep(c), pc'[c] = "enter", pc[c] # "enter"
    PROVE  ~SlotStep(c) /\ ~\E s \in Slot : CloseAll(c, s)
<1>1. at[c] \in Slot \/ pc[c] = "idle"
  BY AtSlot
<1>2. ASSUME NEW l \in PC, Goto(c, l) \/ NewEvent(c, at[c], l) \/ (WakeWaiters(c, at[c]) /\ l = "resume")
      PROVE  l = "enter"
  BY <1>2 DEF Goto, NewEvent, WakeWaiters, TypeOK
<1> USE <1>1, <1>2 DEF PC, Locking, Creating
<1>3. ~Proceed(c)
  BY DEF Proceed, CheckoutStart, SemGranted, ProbeCall, CloseCall, CloseNothing, FinishClose, ResetSlot, Resume, Hand, Skip,
         Leave, LeaveFailed, StopIdleAndWait
<1>4. ~CreateAnswers(c) /\ ~ProbeAnswers(c)
  BY DEF CreateAnswers, CreateDone, CreateFails, ProbeAnswers, ProbeOk, ProbeFalse, ProbeRaises, ResetSlot
<1>5. ~CloseReturns(c)
  BY DEF CloseReturns, CloseDone, ProbeResetDone, CleanupDone, FinishClose, ResetSlot
<1>6. ~Deadline(c)
  BY DEF Deadline, Timeout, TimeoutProbe, ResetSlot, Cancelled
<1>7. ~Uses(c) /\ ~\E s \in Slot : CloseAll(c, s)
  BY DEF Uses, UserDone, ExpireConn, Leave, CloseAll, BeginClose
<1> QED
  BY <1>3, <1>4, <1>5, <1>6, <1>7 DEF SlotStep

\* The first of the candidates get() can do something with has other callers only when no
\* slot without callers is available.
LEMMA FirstIsFree ==
    ASSUME NEW q \in Smallest, NEW i \in DOMAIN q, \A j \in 1..(i - 1) : ~Actionable(q[j]),
           Count(q[i]) > 0, NEW t \in Slot
    PROVE  ~(Available(t) /\ Count(t) = 0)
<1> SUFFICES ASSUME Available(t), Count(t) = 0 PROVE FALSE
  OBVIOUS
<1>1. Fresher(t, q[i])
  BY DEF Fresher
<1>2. t \in Range(q)
  BY <1>1, CandidatesType DEF Smallest
<1>3. PICK j \in DOMAIN q : q[j] = t
  BY <1>2 DEF Range
<1>4. i \in 1..ConnCheckN /\ j \in 1..ConnCheckN /\ i \in Int /\ j \in Int
  BY CandidatesType
<1>5. ~(j < i)
  BY <1>3, <1>4 DEF Actionable
<1>6. ~(i < j)
  BY <1>1, <1>3, <1>4 DEF Smallest
<1> QED
  BY <1>3, <1>4, <1>5, <1>6

\* A caller that begins joins the connection of other callers only when no slot without
\* callers can take it.
THEOREM CallersAreSpread == PoolSpec => SharesLast
<1> DEFINE Joins(c, s) == stage[c] = "out" /\ pc'[c] = "enter" /\ at'[c] = s /\ Count(s) > 0
           NoneFree == \A t \in Slot : ~(Available(t) /\ Count(t) = 0)
<1>1. TypeOK /\ ReasonsFit /\ LoopTypeOK /\ NothingOutlivesGet /\ [PoolNext]_poolVars
      => \A c \in Client, s \in Slot : Joins(c, s) => NoneFree
  <2> SUFFICES ASSUME TypeOK, ReasonsFit, LoopTypeOK, NothingOutlivesGet, [PoolNext]_poolVars,
                      NEW c \in Client, NEW s \in Slot, Joins(c, s)
               PROVE  NoneFree
    OBVIOUS
  <2>0. pc[c] \notin {"enter", "wait"}
    BY SharedAssumption DEF NothingOutlivesGet, ReasonsFit, InClose, Reason
  <2>1. ASSUME NEW d \in Client, TaskStep(d) PROVE d = c /\ ~SlotStep(c) /\ ~\E t \in Slot : CloseAll(c, t)
    BY <2>0, <2>1, OthersStep, EntersByAcquire DEF OthersStay
  <2>2. ~UNCHANGED tasks
    BY <2>0 DEF tasks
  <2>3. PICK d \in Client : GetStep(d) /\ ~UNCHANGED vars
    <3>1. ~\E d \in Client : SlotStep(d) \/ PoolCloseAll(d)
      BY <2>1 DEF SlotStep, PoolCloseAll, TaskStep
    <3>2. ~TimeStep
      BY <2>2, TimeStepSlots
    <3> QED
      BY <2>2, <3>1, <3>2 DEF PoolNext, TimeStep, poolVars, vars
  <2>4. \E q \in Seq(Slot) : Visit(d, q)
    BY <2>3, CandidatesType DEF GetStep, GetBegin, GetContinue, GetAgain, Exhausted, LoopTypeOK
  <2>5. d = c
    BY <2>1, <2>3, <2>4, VisitStep DEF TaskStep
  <2>6. PICK q \in Smallest : Visit(c, q)
    BY <2>3, <2>5 DEF GetStep, GetBegin, GetContinue, GetAgain, Exhausted
  <2>7. PICK i \in DOMAIN q : /\ \A j \in 1..(i - 1) : ~Actionable(q[j])
                              /\ Acquire(c, q[i]) \/ Sweep(c, q[i])
    BY <2>3, <2>5, <2>6 DEF Visit
  <2>8. q[i] = s
    BY <2>7 DEF Acquire, Sweep, BeginClose, Goto, TypeOK
  <2> QED
    BY <2>7, <2>8, FirstIsFree
<1>2. Accounted => ReasonsFit
  BY DEF Accounted, Identified
<1> QED
  BY <1>1, <1>2, LoopAlways, PoolRunsItsSlots, GetLeavesNothing, TypeCorrect, AccountedAlways, PTL DEF PoolSpec, SharesLast

-----------------------------------------------------------------------------
(* What callers of get() see *)

\* Whatever get() tries, gives up and tries again, the pool opens no more connections at a
\* time than it has permits and hands no connection to more callers than it has tokens.
THEOREM PoolKeepsLimits == PoolSpec => []LimitsAreKept
BY PoolRunsItsSlots, LimitsHold, PTL

\* get() and its slots together implement PooledConnections, with any number of permits, as
\* long as no two openers meet in a slot: callers are handed what a slot shows, one probed
\* connection per slot until that is closed, however get() goes from slot to slot.
THEOREM LoneOpenersKeepPoolPromise == PoolSpec /\ []LoneOpeners => KeepsPromise
BY PoolRunsItsSlots, LoneOpenersKeepPromise, PTL

\* The same without that premise, when the pool creates one connection at a time.
THEOREM PoolKeepsPromise == ASSUME MaxConcurrentCreates = 1 PROVE PoolSpec => KeepsPromise
BY PoolRunsItsSlots, SlotsKeepPromise, PTL
=============================================================================
