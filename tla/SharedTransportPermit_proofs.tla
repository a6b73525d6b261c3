--------------------- MODULE SharedTransportPermit_proofs ---------------------
(***************************************************************************)
(* Theorems about slots that one task at a time opens, for every number of *)
(* tasks, slots, connections, permits and tokens: what is handed out has   *)
(* passed its probe, what is open can be closed, and the slots implement   *)
(* PooledConnections.  A pool with one creation permit has only such slots *)
(* and so has all of this; a pool with more has it as long as no two tasks *)
(* with a permit meet in one slot.                                         *)
(***************************************************************************)
EXTENDS PoolPromise, SharedTransportQueues_proofs

-----------------------------------------------------------------------------
(* What a step does to connections                                         *)

\* Who waits for a connection's close().
Closers == {"closing", "probeReset", "cleanup"}

Kept(s)    == slot'[s].connection = slot[s].connection /\ slot'[s].ready = slot[s].ready
Emptied(s) == slot'[s].connection = None /\ ~slot'[s].ready

Calm(c) ==
    /\ \A s \in Slot : Kept(s)
    /\ pc'[c] \notin Closers
    /\ UNCHANGED transport

Opens(c) ==
    LET s == at[c] IN
    /\ pc[c] = "create" /\ OwnsLock(c, s) /\ (EmptiedLately(s) => NobodyResumes(s))
    /\ \E k \in Conn : /\ Fresh(k) /\ slot'[s].connection = k
                       /\ transport' = [transport EXCEPT ![k] = "open"]
    /\ slot'[s].ready = slot[s].ready
    /\ pc'[c] = IF slot[s].ready THEN "resume" ELSE "probeLock"
    /\ UNCHANGED <<at, got>>

Readies(c) ==
    LET k == victim[c] IN
    /\ pc[c] = "probe" /\ pc'[c] = "resume"
    /\ k \in Conn /\ transport[k] # "closed"
    /\ transport' = [transport EXCEPT ![k] = IF @ = "open" THEN "probed" ELSE @]
    /\ slot'[at[c]].connection = slot[at[c]].connection /\ slot'[at[c]].ready
    /\ UNCHANGED <<at, got>>

\* A close() begins and is waited for, or is cancelled at once.
StartsClose(c) ==
    LET k == slot[at[c]].connection IN
    /\ k \in Conn /\ transport' = [transport EXCEPT ![k] = "closing"]
    /\ \/ /\ victim'[c] = k
          /\ \/ pc[c] = "closeLock" /\ OwnsLock(c, at[c]) /\ pc'[c] = "closing"
             \/ pc[c] = "probe" /\ pc'[c] \in {"probeReset", "cleanup"}
       \/ pc[c] \in Admitted \ {"create", "cleanup"} /\ ~slot[at[c]].ready /\ pc'[c] \in Cancelled
    /\ UNCHANGED <<slot, at, got, why>>

FinishesClose(c) ==
    /\ pc[c] \in Closers /\ victim[c] \in Conn \cup {None} /\ pc'[c] \in {"failed", "sem", "idle"}
    /\ transport' = [transport EXCEPT ![victim[c]] = "closed"]
    /\ Emptied(at[c])

\* The connection of a failed opening is closed without a suspension.
Drops(c) ==
    LET k == slot[at[c]].connection IN
    /\ pc[c] \in Admitted \ {"create", "cleanup"} /\ pc'[c] \in Cancelled
    /\ k \in Conn /\ ~slot[at[c]].ready
    /\ transport' = [transport EXCEPT ![k] = "closed"]
    /\ Emptied(at[c])
    /\ UNCHANGED <<at, got>>

FindsEmpty(c) ==
    /\ pc[c] \in {"closeLock", "probe"}
    /\ slot[at[c]].connection = None /\ Emptied(at[c])
    /\ pc'[c] \in {"failed", "sem", "idle"}
    /\ UNCHANGED transport

LEMMA KeptAlways ==
    ASSUME TypeOK, NEW s, NEW k,
           \/ UNCHANGED slot
           \/ slot' = [slot EXCEPT ![s].idle = "none"]
           \/ slot' = [slot EXCEPT ![s].shouldClose = TRUE]
           \/ slot' = [slot EXCEPT ![s] = CheckedIn(@, borrowers[s] = {k}, got[k])]
    PROVE  \A t \in Slot : Kept(t)
<1> SUFFICES ASSUME NEW t \in Slot PROVE Kept(t)
  OBVIOUS
<1>1. slot[t] \in SlotState
  BY DEF TypeOK
<1>2. CASE t # s \/ UNCHANGED slot
  BY <1>2 DEF Kept, TypeOK
<1>3. CASE t = s /\ ~UNCHANGED slot
  <2>1. slot'[t] \in {[slot[t] EXCEPT !.idle = "none"], [slot[t] EXCEPT !.shouldClose = TRUE],
                      CheckedIn(slot[t], borrowers[s] = {k}, got[k])}
    BY <1>3 DEF TypeOK
  <2> QED
    BY <1>1, <2>1 DEF CheckedIn, SlotState, Kept
<1> QED
  BY <1>2, <1>3

LEMMA CreateOpens ==
    ASSUME TypeOK, NEW c \in Client, NEW k \in Conn, CreateDone(c, k)
    PROVE  Opens(c)
<1>0. at[c] \in Slot /\ slot[at[c]] \in SlotState
  BY AtSlot DEF TypeOK, CreateDone
<1> DEFINE r == [slot[at[c]] EXCEPT !.connection = k, !.age = IF LifespanEnabled THEN "within" ELSE @]
<1>1. /\ slot'[at[c]] \in {r, [r EXCEPT !.idle = "none"]}
      /\ r.ready = slot[at[c]].ready
  BY <1>0 DEF CreateDone, TypeOK, SlotState
<1>2. slot'[at[c]].connection = k /\ slot'[at[c]].ready = slot[at[c]].ready
  BY <1>0, <1>1 DEF CreateDone, SlotState
<1>3. pc'[c] = IF slot[at[c]].ready THEN "resume" ELSE "probeLock"
  BY <1>1 DEF CreateDone, Goto, TypeOK
<1> QED
  BY <1>2, <1>3 DEF CreateDone, Opens

LEMMA ProbeReadies ==
    ASSUME TypeOK, NEW c \in Client, ProbeOk(c)
    PROVE  Readies(c)
<1>0. at[c] \in Slot /\ slot[at[c]] \in SlotState /\ victim[c] \in Conn \cup {None}
  BY AtSlot DEF TypeOK, ProbeOk
<1>1. slot' = [slot EXCEPT ![at[c]] = [slot[at[c]] EXCEPT !.ready = TRUE, !.idle = "none"]]
  BY <1>0 DEF ProbeOk, TypeOK
<1>2. slot'[at[c]].connection = slot[at[c]].connection /\ slot'[at[c]].ready
  BY <1>0, <1>1 DEF ProbeOk, TypeOK, SlotState
<1>3. pc'[c] = "resume"
  BY DEF ProbeOk, WakeWaiters, TypeOK
<1> QED
  BY <1>0, <1>2, <1>3 DEF ProbeOk, Readies

LEMMA EffectStep ==
    ASSUME TypeOK, NEW c \in Client, TaskStep(c)
    PROVE  \/ Calm(c) \/ Opens(c) \/ Readies(c) \/ StartsClose(c)
           \/ FinishesClose(c) \/ Drops(c) \/ FindsEmpty(c)
<1>0. /\ pc[c] # "idle" => at[c] \in Slot /\ slot[at[c]] \in SlotState
      /\ victim[c] \in Conn \cup {None}
  BY AtSlot DEF TypeOK
<1>1. ASSUME NEW l \in PC, Goto(c, l) \/ NewEvent(c, at[c], l) \/ (WakeWaiters(c, at[c]) /\ l = "resume")
      PROVE  pc'[c] = l
  BY <1>1 DEF Goto, NewEvent, WakeWaiters, TypeOK
<1>2. ASSUME at[c] \in Slot, slot' = [slot EXCEPT ![at[c]] = EmptySlot] PROVE Emptied(at[c])
  BY <1>2 DEF Emptied, EmptySlot, TypeOK
<1> USE <1>1 DEF PC, Locking, Creating, Admitted, Closers
<1>3. CASE CheckoutStart(c) \/ SemGranted(c) \/ ProbeCall(c) \/ Resume(c) \/ Hand(c) \/ Skip(c) \/ LeaveFailed(c)
  <2>1. \A s \in Slot : Kept(s)
    BY <1>3, KeptAlways DEF CheckoutStart, SemGranted, ProbeCall, Resume, Hand, Skip, LeaveFailed, Leave, StopIdleAndWait
  <2> QED
    BY <1>3, <2>1 DEF CheckoutStart, SemGranted, ProbeCall, Resume, Hand, Skip, LeaveFailed, Leave, StopIdleAndWait, Calm
<1>4. CASE Timeout(c) \/ CreateFails(c) \/ Uses(c) \/ Gets(c) \/ \E s \in Slot : CloseAll(c, s)
  <2>1. \A s \in Slot : Kept(s)
    BY <1>4, KeptAlways DEF Timeout, CreateFails, Uses, Gets, CloseAll, Sweep, Acquire, UserDone, ExpireConn, Leave, BeginClose
  <2> QED
    BY <1>4, <2>1 DEF Timeout, CreateFails, Uses, Gets, CloseAll, Sweep, Acquire, UserDone, ExpireConn, Leave, BeginClose,
                      Cancelled, Calm
<1>5. ASSUME NEW k \in Conn, CreateDone(c, k) PROVE Opens(c)
  BY <1>5, CreateOpens
<1>6. CASE ProbeOk(c)
  BY <1>6, ProbeReadies
<1>7. CASE ProbeFalse(c) \/ ProbeRaises(c)
  <2>1. slot[at[c]].connection \in Conn \cup {None}
    BY <1>0, <1>7 DEF ProbeFalse, ProbeRaises, SlotState
  <2>2. UNCHANGED slot => \A s \in Slot : Kept(s)
    BY DEF Kept
  <2> QED
    BY <1>0, <1>2, <1>7, <2>1, <2>2 DEF ProbeFalse, ProbeRaises, ResetSlot, StartsClose, FindsEmpty, Calm, TypeOK
<1>8. CASE CloseCall(c)
  <2>1. slot[at[c]].connection \in Conn \cup {None}
    BY <1>0, <1>8 DEF CloseCall, SlotState
  <2> QED
    BY <1>8, <2>1 DEF CloseCall, StartsClose, TypeOK
<1>9. CASE CloseReturns(c) \/ CloseNothing(c)
  <2>1. FinishClose(c) => Emptied(at[c]) /\ pc'[c] \in {"sem", "idle"}
    <3>1. CheckedIn(EmptySlot, borrowers[at[c]] = {c}, got[c]).connection = None
      BY DEF CheckedIn, EmptySlot
    <3>2. ~CheckedIn(EmptySlot, borrowers[at[c]] = {c}, got[c]).ready
      BY DEF CheckedIn, EmptySlot
    <3> QED
      BY <1>0, <1>2, <1>9, <3>1, <3>2 DEF FinishClose, ResetSlot, Emptied, TypeOK, CloseReturns, CloseNothing, CloseDone,
                              ProbeResetDone, CleanupDone
  <2> QED
    BY <1>0, <1>2, <1>9, <2>1 DEF CloseReturns, CloseDone, ProbeResetDone, CleanupDone, CloseNothing, ResetSlot,
                                  FinishesClose, FindsEmpty
<1>10. CASE TimeoutProbe(c)
  <2>1. slot[at[c]].connection \in Conn \cup {None}
    BY <1>0, <1>10 DEF TimeoutProbe, SlotState
  <2>2. UNCHANGED slot => \A s \in Slot : Kept(s)
    BY DEF Kept
  <2> QED
    BY <1>0, <1>2, <1>10, <2>1, <2>2 DEF TimeoutProbe, ResetSlot, Cancelled, Calm, Drops, StartsClose
<1> QED
  BY <1>3, <1>4, <1>5, <1>6, <1>7, <1>8, <1>9, <1>10
     DEF TaskStep, Proceed, CreateAnswers, ProbeAnswers, CloseReturns, Deadline

\* Whose wait is over: the slot is ready, or a second opener has filled it again.
LEMMA WokenStep ==
    ASSUME TypeOK, NEW c \in Client, TaskStep(c), NEW d \in Client, pc'[d] = "resume"
    PROVE  \/ d # c /\ pc[d] = "resume"
           \/ at'[d] = at[c] /\ at[c] \in Slot /\ slot'[at[c]].ready
<1>0. /\ pc[c] # "idle" => at[c] \in Slot /\ slot[at[c]] \in SlotState
  BY AtSlot DEF TypeOK
<1>1. ASSUME NEW l \in PC, Goto(c, l) \/ NewEvent(c, at[c], l)
      PROVE  pc'[c] = l /\ (d # c => pc'[d] \in {pc[d], "orphan"})
  BY <1>1 DEF Goto, NewEvent, TypeOK
<1> USE <1>0, <1>1 DEF PC, Locking, Creating
<1>2. CASE Proceed(c) /\ ~CloseNothing(c)
  <2>1. ASSUME StopIdleAndWait(c, at[c]), pc[c] # "idle", UNCHANGED at
        PROVE  \/ d # c /\ pc[d] = "resume"
               \/ at'[d] = at[c] /\ at[c] \in Slot /\ slot'[at[c]].ready
    <3>1. Kept(at[c])
      BY <2>1, KeptAlways DEF StopIdleAndWait
    <3> QED
      BY <2>1, <3>1 DEF StopIdleAndWait, Goto, Kept, TypeOK
  <2>2. CASE CheckoutStart(c) \/ SemGranted(c)
    <3>1. pc[c] # "idle" /\ UNCHANGED at
      BY <2>2 DEF CheckoutStart, SemGranted
    <3>2. StopIdleAndWait(c, at[c]) \/ \E l \in {"closeLock", "sem", "create", "probeLock"} : Goto(c, l)
      BY <2>2 DEF CheckoutStart, SemGranted
    <3> QED
      BY <2>1, <3>1, <3>2 DEF Goto, TypeOK
  <2> QED
    BY <1>2, <2>2 DEF Proceed, ProbeCall, CloseCall, Resume, Hand, Skip, LeaveFailed, Leave, Goto, TypeOK
<1>3. CASE CreateAnswers(c)
  <2>1. ASSUME NEW k \in Conn, CreateDone(c, k), pc'[c] = "resume" PROVE slot'[at[c]].ready
    BY <2>1, CreateOpens DEF Opens
  <2>2. pc[c] = "create" /\ UNCHANGED at /\ \E l \in {"probeLock", "resume", "failed"} : Goto(c, l)
    BY <1>3 DEF CreateAnswers, CreateDone, CreateFails
  <2>3. pc'[c] = "resume" => slot'[at[c]].ready
    BY <1>3, <2>1 DEF CreateAnswers, CreateFails
  <2> QED
    BY <2>2, <2>3
<1>4. CASE ProbeAnswers(c)
  <2>1. CASE ProbeOk(c)
    BY <2>1, ProbeReadies DEF ProbeOk, WakeWaiters, Readies, TypeOK
  <2> QED
    BY <1>4, <2>1 DEF ProbeAnswers, ProbeFalse, ProbeRaises, ResetSlot
<1>5. CASE CloseReturns(c) \/ CloseNothing(c)
  BY <1>5 DEF CloseReturns, CloseNothing, CloseDone, ProbeResetDone, CleanupDone, FinishClose, ResetSlot
<1>6. CASE Deadline(c)
  BY <1>6 DEF Deadline, Timeout, TimeoutProbe, ResetSlot, Cancelled
<1>7. CASE Uses(c) \/ Gets(c) \/ \E s \in Slot : CloseAll(c, s)
  BY <1>7 DEF Uses, Gets, CloseAll, Sweep, Acquire, UserDone, ExpireConn, Leave, BeginClose
<1> QED
  BY <1>2, <1>3, <1>4, <1>5, <1>6, <1>7 DEF TaskStep, Proceed

-----------------------------------------------------------------------------
(* The inductive invariant                                                 *)

\* No two tasks with a creation permit in hand are in one slot.
LoneOpeners ==
    \A c, d \in Client : pc[c] \in Admitted /\ pc[d] \in Admitted /\ at[c] = at[d] => c = d

\* Who opens a slot creates only what is missing and probes what is there.
OpensWhatIsMissing ==
    \A c \in Client :
        /\ pc[c] = "create" => slot[at[c]].connection = None
        /\ pc[c] \in Admitted => ~slot[at[c]].ready
        /\ pc[c] = "probe" => victim[c] = slot[at[c]].connection

\* The close() a task waits for is that of the slot's connection, unless the slot was
\* emptied, and then the connection is closed.
ClosesItsOwn ==
    \A c \in Client : pc[c] \in Closers =>
        LET k == victim[c]
            j == slot[at[c]].connection
        IN  /\ k \in Conn /\ transport[k] \in {"closing", "closed"}
            /\ j = k \/ (j = None /\ transport[k] = "closed")

HeldIsOpen ==
    \A k \in Conn : transport[k] # "closed" <=> \E s \in Slot : slot[s].connection = k

ReadyIsProbed ==
    \A s \in Slot : LET k == slot[s].connection IN
        /\ slot[s].ready => k # None /\ transport[k] \in {"probed", "closing"}
        /\ k # None /\ transport[k] = "probed" => slot[s].ready

WokenFindsReady ==
    \A c \in Client : pc[c] = "resume" => slot[at[c]].ready \/ slot[at[c]].connection = None

HandedWasReady ==
    \A c \in Client : got[c] # None =>
        /\ transport[got[c]] # "open"
        /\ slot[at[c]].connection = got[c] => slot[at[c]].ready

\* Nobody fills the slot again before an expiry gets to close it.
ExpiryIsAimed ==
    \A c \in Client : InClose(c) /\ why[c] = "expire" =>
        /\ slot[at[c]].connection \in {got[c], None}
        /\ \A d \in Client : pc[d] = "create" => ~Ahead(lockq[at[c]], d, c)

OneOpening ==
    /\ LoneOpeners /\ OpensWhatIsMissing /\ ClosesItsOwn /\ HeldIsOpen
    /\ ReadyIsProbed /\ WokenFindsReady /\ HandedWasReady /\ ExpiryIsAimed

Settled == TypeOK /\ Accounted /\ OwnersHaveLock /\ OneOpening

LEMMA OneOpener ==
    ASSUME LoneOpeners, NEW c \in Client, NEW d \in Client, pc[c] \in Admitted, pc[d] \in Admitted,
           at[c] = at[d]
    PROVE  c = d
BY DEF LoneOpeners

LEMMA OneOwner ==
    ASSUME OwnersHaveLock, NEW c \in Client, NEW d \in Client, at[c] = at[d],
           OwnsLock(c, at[c]) \/ pc[c] \in {"closing", "probe", "probeReset"},
           OwnsLock(d, at[d]) \/ pc[d] \in {"closing", "probe", "probeReset"}
    PROVE  c = d
BY DEF OwnersHaveLock, OwnsLock, Heads

\* What becomes of connections, given the invariant: at most one changes its state, the
\* one in the slot the task works on, or a new one in an empty slot.
LEMMA SettledEffects ==
    ASSUME Settled, NEW c \in Client, TaskStep(c)
    PROVE  LET s == at[c] IN
           /\ \A t \in Slot : t # s => Kept(t)
           /\ \/ Calm(c) \/ StartsClose(c)
              \/ FindsEmpty(c) /\ s \in Slot /\ Kept(s)
              \/ Opens(c) /\ s \in Slot /\ slot[s].connection = None /\ ~slot[s].ready
              \/ Readies(c) /\ s \in Slot /\ slot[s].connection = victim[c] /\ ~slot[s].ready
              \/ Drops(c) /\ s \in Slot
              \/ /\ FinishesClose(c) /\ s \in Slot /\ victim[c] \in Conn
                 /\ transport[victim[c]] \in {"closing", "closed"}
                 /\ \/ slot[s].connection = victim[c]
                    \/ Kept(s) /\ UNCHANGED transport
<1> DEFINE s == at[c]
<1>1. \A t \in Slot : t # s => Kept(t)
  BY OtherSlots DEF Settled, Kept
<1>2. pc[c] # "idle" => s \in Slot /\ slot[s].ready \in BOOLEAN /\ slot'[s].ready \in BOOLEAN
  <2>1. TypeOK /\ TypeOK'
    BY TypeStep, NextSteps DEF Settled
  <2> QED
    BY <2>1, AtSlot DEF TypeOK, SlotState
<1>3. slot[s].ready /\ s \in Slot => slot[s].connection # None
  BY DEF Settled, OneOpening, ReadyIsProbed
<1>4. CASE Calm(c) \/ StartsClose(c)
  BY <1>1, <1>4
<1>5. CASE FindsEmpty(c)
  BY <1>1, <1>2, <1>3, <1>5 DEF FindsEmpty, Emptied, Kept
<1>6. CASE Opens(c) \/ Readies(c)
  BY <1>1, <1>2, <1>6 DEF Opens, Readies, Settled, OneOpening, OpensWhatIsMissing, Admitted, Creating
<1>7. CASE Drops(c)
  BY <1>1, <1>2, <1>7 DEF Drops, Admitted, Creating
<1>8. CASE FinishesClose(c)
  <2>1. /\ victim[c] \in Conn /\ transport[victim[c]] \in {"closing", "closed"}
        /\ \/ slot[s].connection = victim[c]
           \/ slot[s].connection = None /\ transport[victim[c]] = "closed"
    BY <1>8 DEF Settled, OneOpening, ClosesItsOwn, FinishesClose
  <2>2. pc[c] # "idle"
    BY <1>8 DEF FinishesClose, Closers
  <2>3. CASE slot[s].connection = None /\ transport[victim[c]] = "closed"
    <3>1. transport' = transport
      BY <1>8, <2>1, <2>3 DEF FinishesClose, Settled, TypeOK
    <3> QED
      BY <1>1, <1>2, <1>3, <1>8, <2>1, <2>2, <2>3, <3>1 DEF FinishesClose, Emptied, Kept
  <2> QED
    BY <1>1, <1>2, <1>8, <2>1, <2>2, <2>3
<1> QED
  BY <1>4, <1>5, <1>6, <1>7, <1>8, EffectStep DEF Settled

LEMMA HeldStep ==
    ASSUME Settled, NEW c \in Client, TaskStep(c)
    PROVE  HeldIsOpen' /\ ReadyIsProbed'
<1> DEFINE s == at[c]
<1>1. /\ transport \in [Conn -> Transport] /\ HeldIsOpen /\ ReadyIsProbed /\ SlotsDiffer
      /\ None \notin Conn
      /\ \A t \in Slot : slot[t].connection \in Conn \cup {None}
  BY SharedAssumption DEF Settled, TypeOK, SlotState, OneOpening, Accounted, Identified
<1>2. \A t \in Slot : t # s => Kept(t)
  BY SettledEffects
<1> USE <1>1, <1>2 DEF HeldIsOpen, ReadyIsProbed, Kept
<1>3. CASE Calm(c)
  BY <1>3 DEF Calm
<1>4. CASE StartsClose(c) /\ s \in Slot
  BY <1>4 DEF StartsClose
<1>5. CASE FindsEmpty(c) /\ Kept(s)
  BY <1>5 DEF FindsEmpty
<1>6. CASE Opens(c) /\ s \in Slot /\ slot[s].connection = None /\ ~slot[s].ready
  BY <1>6 DEF Opens, Fresh
<1>7. CASE Readies(c) /\ s \in Slot /\ slot[s].connection = victim[c] /\ ~slot[s].ready
  BY <1>7 DEF Readies, SlotsDiffer, Transport
<1>8. CASE Drops(c) /\ s \in Slot
  BY <1>8 DEF Drops, Emptied, SlotsDiffer
<1>9. CASE FinishesClose(c) /\ s \in Slot /\ victim[c] \in Conn /\ slot[s].connection = victim[c]
  BY <1>9 DEF FinishesClose, Emptied, SlotsDiffer
<1>10. CASE Kept(s) /\ UNCHANGED transport
  BY <1>10
<1>11. StartsClose(c) => s \in Slot
  BY AtSlot DEF Settled, StartsClose, Admitted, Creating
<1> QED
  BY <1>3, <1>4, <1>5, <1>6, <1>7, <1>8, <1>9, <1>10, <1>11, SettledEffects

LEMMA MissingStep ==
    ASSUME Settled, NEW c \in Client, TaskStep(c)
    PROVE  OpensWhatIsMissing'
<1> SUFFICES ASSUME NEW d \in Client, pc'[d] \in Admitted
             PROVE  /\ pc'[d] = "create" => slot'[at'[d]].connection = None
                    /\ ~slot'[at'[d]].ready
                    /\ pc'[d] = "probe" => victim'[d] = slot'[at'[d]].connection
  BY DEF OpensWhatIsMissing, Admitted, Creating
<1>0. OpensWhatIsMissing /\ LoneOpeners /\ OwnersHaveLock /\ TypeOK /\ ReadyIsProbed
  BY DEF Settled, OneOpening
<1>1. CASE d = c
  <2>1. at'[c] = at[c] /\ pc[c] # "idle" /\ at[c] \in Slot
    BY <1>0, <1>1, OpeningStep, AtSlot DEF Admitted, Creating
  <2>2. ~slot[at[c]].ready
    BY <1>0, <1>1, <2>1, OpeningStep DEF OpensWhatIsMissing, ReadyIsProbed
  <2>3. /\ pc'[c] = "create" => pc[c] = "sem" /\ slot[at[c]].connection = None
        /\ pc'[c] = "probe" => UNCHANGED slot /\ victim'[c] = slot[at[c]].connection
        /\ pc[c] \in Admitted \/ UNCHANGED slot
    BY <1>0, <1>1, OpeningStep
  <2>4. ~slot'[at[c]].ready
    BY <1>0, <1>1, <2>1, <2>2, EffectStep
       DEF Calm, Kept, Opens, Readies, StartsClose, FinishesClose, Drops, FindsEmpty, Emptied, Admitted, Creating, Cancelled
  <2> QED
    BY <1>1, <2>1, <2>3, <2>4 DEF Admitted, Creating
<1>2. CASE d # c
  <2>1. pc'[d] = pc[d] /\ at'[d] = at[d] /\ victim'[d] = victim[d]
    BY <1>0, <1>2, OthersStep DEF OthersStay, Admitted, Creating
  <2>2. at[d] \in Slot /\ (pc[c] \notin Admitted \/ Kept(at[d]))
    <3>1. at[d] \in Slot
      BY <1>0, <2>1, AtSlot DEF Admitted, Creating
    <3>2. CASE at[c] = at[d]
      BY <1>0, <1>2, <2>1, <3>1, <3>2, OneOpener
    <3>3. CASE at[c] # at[d]
      BY <3>1, <3>3, SettledEffects
    <3> QED
      BY <3>1, <3>2, <3>3
  <2>3. CASE Kept(at[d])
    BY <1>0, <2>1, <2>3 DEF OpensWhatIsMissing, Kept
  <2>4. CASE FinishesClose(c) /\ at[d] = at[c] /\ pc[c] \notin Admitted
    <3>1. pc[c] = "closing"
      BY <2>4 DEF FinishesClose, Closers, Admitted, Creating
    <3>2. pc[d] # "probe"
      BY <1>0, <1>2, <2>4, <3>1, OneOwner
    <3> QED
      BY <2>1, <2>4, <3>2 DEF FinishesClose, Emptied
  <2>5. StartsClose(c) => Kept(at[d])
    BY DEF StartsClose, Kept
  <2> QED
    BY <2>2, <2>3, <2>4, <2>5, SettledEffects
       DEF Calm, Opens, Readies, Drops, Admitted, Creating
<1> QED
  BY <1>1, <1>2

LEMMA ClosesStep ==
    ASSUME Settled, NEW c \in Client, TaskStep(c)
    PROVE  ClosesItsOwn'
<1> SUFFICES ASSUME NEW d \in Client, pc'[d] \in Closers
             PROVE  /\ victim'[d] \in Conn /\ transport'[victim'[d]] \in {"closing", "closed"}
                    /\ \/ slot'[at'[d]].connection = victim'[d]
                       \/ slot'[at'[d]].connection = None /\ transport'[victim'[d]] = "closed"
  BY DEF ClosesItsOwn, Closers
<1>0. /\ ClosesItsOwn /\ LoneOpeners /\ OwnersHaveLock /\ TypeOK /\ HeldIsOpen
      /\ transport \in [Conn -> Transport]
  BY DEF Settled, OneOpening, TypeOK
<1>1. CASE d = c
  <2>1. StartsClose(c)
    BY <1>1, EffectStep DEF Settled, Calm, Opens, Readies, FinishesClose, Drops, FindsEmpty, Cancelled, Closers
  <2> QED
    BY <1>0, <1>1, <2>1 DEF StartsClose, Cancelled, Closers
<1>2. CASE d # c
  <2>1. pc'[d] = pc[d] /\ at'[d] = at[d] /\ victim'[d] = victim[d]
    BY <1>0, <1>2, OthersStep DEF OthersStay, Closers
  <2> DEFINE k == victim[d]
             t == at[d]
  <2>2. /\ k \in Conn /\ transport[k] \in {"closing", "closed"} /\ t \in Slot
        /\ slot[t].connection = k \/ (slot[t].connection = None /\ transport[k] = "closed")
    BY <1>0, <2>1, AtSlot DEF ClosesItsOwn, Closers
  <2> SUFFICES /\ transport'[k] \in {"closing", "closed"}
               /\ slot'[t].connection = k \/ (slot'[t].connection = None /\ transport'[k] = "closed")
    BY <2>1, <2>2
  <2> HIDE DEF k, t
  <2>3. \A u \in Slot : u # at[c] => Kept(u)
    BY SettledEffects
  <2>4. CASE Calm(c) \/ (FindsEmpty(c) /\ Kept(at[c]))
    BY <2>2, <2>3, <2>4 DEF Calm, FindsEmpty, Kept
  <2>5. CASE StartsClose(c)
    <3>1. at[c] \in Slot
      BY <1>0, <2>5, AtSlot DEF StartsClose, Admitted, Creating
    <3>2. CASE k = slot[at[c]].connection
      BY <1>0, <2>2, <2>5, <3>1, <3>2 DEF StartsClose, HeldIsOpen
    <3>3. CASE k # slot[at[c]].connection
      BY <1>0, <2>2, <2>5, <3>3 DEF StartsClose
    <3> QED
      BY <3>2, <3>3
  <2>6. CASE Opens(c) /\ at[c] \in Slot /\ slot[at[c]].connection = None
    <3>1. t # at[c] \/ pc[d] \notin Closers
      BY <1>0, <1>2, <2>6, OneOwner, OneOpener DEF Opens, Closers, Admitted, Creating, t
    <3>2. Kept(t)
      BY <2>1, <2>2, <2>3, <3>1
    <3>3. transport'[k] = transport[k]
      BY <1>0, <2>2, <2>6 DEF Opens, Fresh, k
    <3> QED
      BY <2>2, <3>2, <3>3 DEF Kept
  <2>7. CASE Readies(c) /\ slot[at[c]].connection = victim[c]
    BY <1>0, <2>2, <2>3, <2>7 DEF Readies, Kept
  <2>8. CASE Drops(c) /\ at[c] \in Slot
    BY <1>0, <2>2, <2>3, <2>8 DEF Drops, Emptied, Kept
  <2>9. CASE FinishesClose(c) /\ slot[at[c]].connection = victim[c]
    BY <1>0, <2>2, <2>3, <2>9 DEF FinishesClose, Emptied, Kept
  <2>10. CASE Kept(at[c]) /\ UNCHANGED transport
    BY <2>2, <2>3, <2>10 DEF Kept
  <2> QED
    BY <2>4, <2>5, <2>6, <2>7, <2>8, <2>9, <2>10, SettledEffects
<1> QED
  BY <1>1, <1>2

LEMMA ReadyStep ==
    ASSUME Settled, NEW c \in Client, TaskStep(c)
    PROVE  WokenFindsReady'
<1> SUFFICES ASSUME NEW d \in Client, pc'[d] = "resume"
             PROVE  slot'[at'[d]].ready \/ slot'[at'[d]].connection = None
  BY DEF WokenFindsReady
<1>0. WokenFindsReady /\ TypeOK
  BY DEF Settled, OneOpening
<1>1. CASE at'[d] = at[c] /\ slot'[at[c]].ready
  BY <1>1
<1>2. CASE d # c /\ pc[d] = "resume"
  <2>1. at'[d] = at[d] /\ at[d] \in Slot /\ (slot[at[d]].ready \/ slot[at[d]].connection = None)
    BY <1>0, <1>2, OthersStep, AtSlot DEF OthersStay, WokenFindsReady
  <2>2. ~(Opens(c) /\ at[c] = at[d] /\ slot[at[c]].connection = None /\ ~slot[at[c]].ready)
    BY <1>2 DEF Opens, NobodyResumes, EmptiedLately
  <2> QED
    BY <2>1, <2>2, SettledEffects DEF Kept, Calm, StartsClose, Readies, Drops, FinishesClose, Emptied
<1> QED
  BY <1>0, <1>1, <1>2, WokenStep

LEMMA HandedStep ==
    ASSUME Settled, NEW c \in Client, TaskStep(c)
    PROVE  HandedWasReady'
<1> SUFFICES ASSUME NEW d \in Client, got'[d] # None
             PROVE  /\ transport'[got'[d]] # "open"
                    /\ slot'[at'[d]].connection = got'[d] => slot'[at'[d]].ready
  BY DEF HandedWasReady
<1>0. /\ HandedWasReady /\ WokenFindsReady /\ ReadyIsProbed /\ TypeOK /\ Identified
      /\ transport \in [Conn -> Transport] /\ got \in [Client -> Conn \cup {None}]
  BY DEF Settled, OneOpening, TypeOK, Accounted
<1>1. ASSUME got'[d] = got[d] PROVE at'[d] = at[d] /\ at[d] \in Slot
  <2>1. at'[d] = at[d]
    BY <1>0, <1>1, OthersStep, AtStep DEF OthersStay, Identified, GotWhere, InClose
  <2>2. pc[d] # "idle"
    BY <1>0, <1>1 DEF Identified, GotWhere, InClose
  <2> QED
    BY <1>0, <2>1, <2>2, AtSlot
<1>2. CASE got'[d] = got[d]
  <2>1. got[d] \in Conn /\ transport[got[d]] # "open" /\ (slot[at[d]].connection = got[d] => slot[at[d]].ready)
    BY <1>0, <1>2 DEF HandedWasReady
  <2>2. StartsClose(c) => \A t \in Slot : Kept(t)
    BY DEF StartsClose, Kept
  <2>3. transport'[got[d]] # "open"
    BY <1>0, <2>1, EffectStep DEF Calm, Opens, Fresh, Readies, StartsClose, FinishesClose, Drops, FindsEmpty
  <2>4. slot'[at[d]].connection = got[d] => slot'[at[d]].ready
    BY <1>1, <1>2, <2>1, <2>2, SettledEffects
       DEF Kept, Calm, Opens, Fresh, Readies, Drops, FinishesClose, Emptied
  <2> QED
    BY <1>1, <1>2, <2>3, <2>4
<1>3. CASE d = c /\ pc[c] = "resume" /\ pc'[c] = "acquired" /\ got'[c] = slot[at[c]].connection /\ UNCHANGED <<slot, at>>
  <2>1. Calm(c)
    BY <1>3, EffectStep DEF Settled, Opens, Readies, StartsClose, FinishesClose, Drops, FindsEmpty, Admitted, Creating, Closers
  <2>2. at[c] \in Slot /\ slot[at[c]].ready
    BY <1>0, <1>3, AtSlot DEF WokenFindsReady
  <2> QED
    BY <1>0, <1>3, <2>1, <2>2 DEF Calm, ReadyIsProbed
<1>4. d # c => got'[d] = got[d]
  BY <1>0, OthersStep DEF OthersStay
<1> QED
  BY <1>0, <1>2, <1>3, <1>4, GotStep DEF Identified

\* A task that expires a connection joins the queue of the slot that holds it.
LEMMA ExpiryStep ==
    ASSUME TypeOK, ReasonsFit, NEW c \in Client, TaskStep(c), InClose(c)', why'[c] = "expire"
    PROVE  /\ UNCHANGED <<slot, got>>
           /\ \/ /\ pc[c] \notin Locking /\ pc'[c] = "closeLock" /\ at'[c] \in Slot /\ JoinLock(c, at'[c])
                 /\ slot[at'[c]].connection = got[c] /\ got[c] # None
              \/ UNCHANGED <<lockq, at, why>> /\ InClose(c)
<1>0. pc'[c] \in {"closeLock", "closing"}
  BY DEF InClose
<1>1. why[c] \in IF pc[c] \in {"closeLock", "closing"} THEN Reason ELSE {None}
  BY DEF ReasonsFit, InClose
<1>2. ASSUME NEW l \in PC, Goto(c, l) \/ NewEvent(c, at[c], l) \/ (WakeWaiters(c, at[c]) /\ l = "resume")
      PROVE  pc'[c] = l
  BY <1>2 DEF Goto, NewEvent, WakeWaiters, TypeOK
<1> USE <1>0, <1>2 DEF PC, Locking, Creating, InClose
<1>3. CASE Proceed(c) /\ ~CloseNothing(c)
  BY <1>3 DEF Proceed, CheckoutStart, SemGranted, ProbeCall, CloseCall, Resume, Hand, Skip, LeaveFailed, Leave,
              StopIdleAndWait, queues, TypeOK
<1>4. CASE CreateAnswers(c) \/ ProbeAnswers(c)
  BY <1>4 DEF CreateAnswers, CreateDone, CreateFails, ProbeAnswers, ProbeOk, ProbeFalse, ProbeRaises, ResetSlot
<1>5. CASE CloseReturns(c) \/ CloseNothing(c)
  BY <1>5 DEF CloseReturns, CloseNothing, CloseDone, ProbeResetDone, CleanupDone, FinishClose, ResetSlot
<1>6. CASE Deadline(c)
  BY <1>6 DEF Deadline, Timeout, TimeoutProbe, ResetSlot, Cancelled
<1>7. CASE Uses(c) \/ Gets(c) \/ \E s \in Slot : CloseAll(c, s)
  BY <1>7 DEF Uses, Gets, CloseAll, Sweep, Acquire, UserDone, ExpireConn, Leave, BeginClose, TypeOK
<1> QED
  BY <1>3, <1>4, <1>5, <1>6, <1>7 DEF TaskStep, Proceed

LEMMA AimedStep ==
    ASSUME Settled, NEW c \in Client, TaskStep(c)
    PROVE  ExpiryIsAimed'
<1> SUFFICES ASSUME NEW d \in Client, InClose(d)', why'[d] = "expire"
             PROVE  /\ slot'[at'[d]].connection \in {got'[d], None}
                    /\ \A e \in Client : pc'[e] = "create" => ~Ahead(lockq'[at'[d]], e, d)
  BY DEF ExpiryIsAimed
<1>0. /\ ExpiryIsAimed /\ OpensWhatIsMissing /\ TypeOK /\ Accounted /\ ReasonsFit
      /\ \A t \in Slot : IsInjective(lockq[t]) /\ lockq[t] \in Seq(Client)
      /\ \A e \in Client, t \in Slot : e \in ToSet(lockq[t]) <=> pc[e] \in Locking /\ at[e] = t
  BY DEF Settled, OneOpening, TypeOK, Accounted, Identified, NoDuplicates, ResourcesAccounted
<1>1. ASSUME NEW t \in Slot, NEW e, NEW f, Ahead(lockq[t], e, f) PROVE e \in ToSet(lockq[t]) /\ f \in ToSet(lockq[t])
  BY <1>0, <1>1, InQueue, LenProperties DEF Ahead
<1>2. \A e \in Client \ {c} : pc'[e] = "create" => pc[e] = "create"
  BY <1>0, OthersStep DEF OthersStay
<1>3. pc'[c] = "create" => pc[c] = "sem"
  BY <1>0, OpeningStep DEF Admitted, Creating
<1>4. CASE d = c
  <2>1. pc'[c] # "create"
    BY <1>4 DEF InClose
  <2>2. CASE /\ pc[c] \notin Locking /\ at'[c] \in Slot /\ JoinLock(c, at'[c])
             /\ slot[at'[c]].connection = got[c] /\ got[c] # None /\ UNCHANGED <<slot, got>>
    <3> DEFINE s == at'[c]
    <3>1. c \notin ToSet(lockq[s]) /\ lockq'[s] = Append(lockq[s], c)
      BY <1>0, <2>2 DEF JoinLock, TypeOK
    <3>2. ASSUME NEW e \in Client, pc'[e] = "create", Ahead(lockq'[s], e, c) PROVE FALSE
      <4>1. Ahead(lockq[s], e, c) \/ e \in ToSet(lockq[s])
        BY <1>0, <2>2, <3>1, <3>2, JoinQueue
      <4>2. e \in ToSet(lockq[s])
        BY <1>1, <2>2, <4>1
      <4>3. pc[e] = "create" /\ at[e] = s
        BY <1>0, <1>2, <2>1, <2>2, <3>2, <4>2
      <4> QED
        BY <1>0, <2>2, <4>3 DEF OpensWhatIsMissing
    <3> QED
      BY <1>4, <2>2, <3>2
  <2>3. CASE UNCHANGED <<slot, got, lockq, at, why>> /\ InClose(c)
    BY <1>0, <1>2, <1>4, <2>1, <2>3 DEF ExpiryIsAimed
  <2> QED
    BY <1>0, <1>4, <2>2, <2>3, ExpiryStep
<1>5. CASE d # c
  <2>1. /\ pc'[d] = pc[d] /\ at'[d] = at[d] /\ why'[d] = why[d] /\ got'[d] = got[d] /\ InClose(d)
        /\ at[d] \in Slot /\ d \in ToSet(lockq[at[d]])
    BY <1>0, <1>5, OthersStep, AtSlot DEF OthersStay, InClose, Locking
  <2>2. /\ slot[at[d]].connection \in {got[d], None}
        /\ \A e \in Client : pc[e] = "create" => ~Ahead(lockq[at[d]], e, d)
    BY <1>0, <1>5, <2>1 DEF ExpiryIsAimed
  <2>3. ~(Opens(c) /\ at[c] = at[d])
    BY <1>0, <1>5, <2>1, <2>2, HeadIsAhead DEF Opens, OwnsLock, Heads
  <2>4. slot'[at[d]].connection \in {got[d], None}
    <3>1. StartsClose(c) => Kept(at[d])
      BY DEF StartsClose, Kept
    <3> QED
      BY <2>1, <2>2, <2>3, <3>1, SettledEffects DEF Kept, Calm, Readies, Drops, FinishesClose, Emptied
  <2>5. ASSUME NEW e \in Client, pc'[e] = "create", Ahead(lockq'[at[d]], e, d) PROVE FALSE
    <3>1. Ahead(lockq[at[d]], e, d)
      BY <1>0, <1>5, <2>1, <2>5, HeadsStep
    <3>2. pc[e] \in Locking
      BY <1>0, <1>1, <2>1, <3>1
    <3>3. pc[e] = "create"
      BY <1>2, <1>3, <2>5, <3>2 DEF Locking
    <3> QED
      BY <2>2, <3>1, <3>3
  <2> QED
    BY <2>1, <2>4, <2>5
<1> QED
  BY <1>4, <1>5

LEMMA OneOpeningStep == Settled /\ LoneOpeners' /\ [Next]_vars => OneOpening'
<1> SUFFICES ASSUME Settled, LoneOpeners', [Next]_vars PROVE OneOpening'
  OBVIOUS
<1>1. CASE TimeStep \/ UNCHANGED vars
  <2>1. UNCHANGED <<queues, tasks, transport>> /\ \A t \in Slot : Kept(t)
    <3>1. CASE UNCHANGED vars
      BY <3>1 DEF vars, Kept
    <3>2. ASSUME NEW s \in Slot, IdlePasses(s) \/ AgePasses(s)
          PROVE  UNCHANGED <<queues, tasks, transport>> /\ \A t \in Slot : Kept(t)
      <4>1. slot[s] \in SlotState
        BY DEF Settled, TypeOK
      <4>2. ASSUME NEW r \in {[slot[s] EXCEPT !.idle = "over"], [slot[s] EXCEPT !.age = "over"]}
            PROVE  r.connection = slot[s].connection /\ r.ready = slot[s].ready
        BY <4>1, <4>2 DEF SlotState
      <4>3. PICK r : /\ r.connection = slot[s].connection /\ r.ready = slot[s].ready
                     /\ slot' = [slot EXCEPT ![s] = r]
        BY <3>2, <4>2 DEF IdlePasses, AgePasses
      <4> QED
        BY <3>2, <4>3 DEF IdlePasses, AgePasses, Kept, Settled, TypeOK
    <3> QED
      BY <1>1, <3>1, <3>2 DEF TimeStep
  <2>2. OneOpening /\ \A c \in Client : (pc[c] # "idle" => at[c] \in Slot) /\ (got[c] # None => pc[c] # "idle")
    BY AtSlot DEF Settled, Accounted, Identified, GotWhere, InClose
  <2>3. (OpensWhatIsMissing /\ ClosesItsOwn)'
    BY <2>1, <2>2 DEF queues, tasks, OneOpening, OpensWhatIsMissing, ClosesItsOwn, Kept, Admitted, Creating, Closers
  <2>4. (HeldIsOpen /\ ReadyIsProbed)'
    BY <2>1, <2>2 DEF OneOpening, HeldIsOpen, ReadyIsProbed, Kept
  <2>5. (WokenFindsReady /\ HandedWasReady /\ ExpiryIsAimed)'
    BY <2>1, <2>2 DEF queues, tasks, OneOpening, WokenFindsReady, HandedWasReady, ExpiryIsAimed, InClose, Kept
  <2> QED
    BY <2>3, <2>4, <2>5 DEF OneOpening
<1>2. ASSUME NEW c \in Client, TaskStep(c) PROVE OneOpening'
  BY <1>2, MissingStep, ClosesStep, HeldStep, ReadyStep, HandedStep, AimedStep DEF OneOpening
<1> QED
  BY <1>1, <1>2, NextSteps, Zenon

LEMMA InitOneOpening == Init => OneOpening
<1> SUFFICES ASSUME Init PROVE OneOpening
  OBVIOUS
<1>1. \A c \in Client : pc[c] = "idle" /\ got[c] = None
  BY DEF Init
<1>2. \A s \in Slot : slot[s].connection = None /\ ~slot[s].ready
  BY DEF Init, EmptySlot
<1>3. \A k \in Conn : transport[k] = "closed" /\ k # None
  BY SharedAssumption DEF Init
<1> QED
  BY <1>1, <1>2, <1>3 DEF OneOpening, LoneOpeners, OpensWhatIsMissing, ClosesItsOwn, HeldIsOpen, ReadyIsProbed,
     WokenFindsReady, HandedWasReady, ExpiryIsAimed, InClose, Admitted, Creating, Closers

LEMMA SettledAlways == Spec /\ []LoneOpeners => []Settled
<1>1. Settled /\ LoneOpeners' /\ [Next]_vars => OneOpening'
  BY OneOpeningStep
<1>2. TypeOK /\ Accounted /\ (OwnersHaveLock /\ BorrowersAreFinite /\ ClosersAreAlone) /\ OneOpening => Settled
  BY DEF Settled
<1> QED
  BY <1>1, <1>2, InitOneOpening, TypeCorrect, AccountedAlways, OwnersAlways, PTL DEF Spec

-----------------------------------------------------------------------------
(* One permit lets one task at a time open slots                           *)

\* The creation semaphore of a pool with one permit (max_size of at most five) admits one
\* task at a time, whichever slots are to be opened.
THEOREM OnePermitOneOpener == ASSUME MaxConcurrentCreates = 1 PROVE Spec => []LoneOpeners
<1>1. TypeOK /\ Accounted /\ Permitted => LoneOpeners
  <2> SUFFICES ASSUME TypeOK, Permitted, NEW c \in Client, pc[c] \in Admitted PROVE semq[1] = c
    BY DEF LoneOpeners
  <2>1. PICK i \in 1..Len(semq) : i <= 1 /\ semq[i] = c
    BY DEF Permitted, HasPermit, Within
  <2>2. i = 1
    BY <2>1, LenProperties DEF TypeOK
  <2> QED
    BY <2>1, <2>2
<1> QED
  BY <1>1, TypeCorrect, AccountedAlways, LimitedAlways, PTL DEF Limited

-----------------------------------------------------------------------------
(* What is guaranteed while no slot is opened by two tasks at once         *)

\* With any number of permits: as long as no two of the tasks that have one meet in a slot,
\* an expiry never closes a successor, a ready slot has a connection that was probed, and
\* no open connection is lost.
THEOREM LoneOpenersAreSafe == Spec /\ []LoneOpeners => [](ExpiresItsOwn /\ ReadyHasConnection /\ NoLeak)
<1>1. Settled => ExpiresItsOwn
  BY DEF Settled, OneOpening, ExpiryIsAimed, ExpiresItsOwn, InClose
<1>2. Settled => ReadyHasConnection
  BY DEF Settled, OneOpening, ReadyIsProbed, ReadyHasConnection
<1>3. Settled => NoLeak
  BY DEF Settled, OneOpening, HeldIsOpen, NoLeak
<1> QED
  BY <1>1, <1>2, <1>3, SettledAlways, PTL

\* connection_pooling.py:470 "The max size for the connection pool or max connections held":
\* as long as no two openers meet in a slot, no more connections are open or being closed
\* than the pool has slots.
THEOREM OneConnectionPerSlot ==
    ASSUME IsFiniteSet(Slot)
    PROVE  Spec /\ []LoneOpeners => [](Cardinality({k \in Conn : transport[k] # "closed"}) <= Cardinality(Slot))
<1> DEFINE Opened == {k \in Conn : transport[k] # "closed"}
<1>1. Settled => Cardinality(Opened) <= Cardinality(Slot)
  <2> SUFFICES ASSUME HeldIsOpen PROVE Cardinality(Opened) <= Cardinality(Slot)
    BY DEF Settled, OneOpening
  <2> DEFINE Holder(k) == CHOOSE s \in Slot : slot[s].connection = k
             f == [k \in Opened |-> Holder(k)]
  <2>1. \A k \in Opened : Holder(k) \in Slot /\ slot[Holder(k)].connection = k
    BY DEF HeldIsOpen
  <2>2. f \in Injection(Opened, Slot)
    BY <2>1 DEF Injection, IsInjective
  <2> QED
    BY <2>2, FS_Injection
<1> QED
  BY <1>1, SettledAlways, PTL

\* docs/connection-pooling.md:208 "Only one client can create the connection" and
\* tla+/SharedTransportConnection.tla:65 "if ready_event is set, connection must exist" are
\* true as long as no two openers meet in a slot: the runs that refute them need two.
THEOREM LoneOpenersKeepTheDocs == Spec /\ []LoneOpeners => [](OnlyOneCreates /\ NoReadyWithoutConn)
<1>1. Settled => OnlyOneCreates /\ NoReadyWithoutConn
  BY DEF Settled, OneOpening, OpensWhatIsMissing, ReadyIsProbed, OnlyOneCreates, NoReadyWithoutConn
<1> QED
  BY <1>1, SettledAlways, PTL

\* By the time close() has the lock for an expiry, the slot holds the connection that was
\* to be closed, or none: an expiry never closes the successor.
THEOREM ExpiryHitsItsOwn == ASSUME MaxConcurrentCreates = 1 PROVE Spec => []ExpiresItsOwn
BY LoneOpenersAreSafe, OnePermitOneOpener, PTL

\* The readiness event of a slot is set only while the slot holds a connection whose own
\* probe succeeded.
THEOREM ReadyIsNeverEmpty == ASSUME MaxConcurrentCreates = 1 PROVE Spec => []ReadyHasConnection
BY LoneOpenersAreSafe, OnePermitOneOpener, PTL

\* A connection that is not closed is in a slot, where expire_conn(), a sweep or closeall()
\* can find it.
THEOREM NothingLeaks == ASSUME MaxConcurrentCreates = 1 PROVE Spec => []NoLeak
BY LoneOpenersAreSafe, OnePermitOneOpener, PTL

\* With any number of permits, as long as no two openers meet in a slot, get() hands out a
\* connection whose probe succeeded.
THEOREM LoneOpenersHandProbed == Spec /\ []LoneOpeners => HandedIsProbed
<1> DEFINE Handed == \A c \in Client : pc[c] = "acquired" /\ pc'[c] = "using" => transport[got[c]] # "open"
<1>1. Settled /\ [Next]_vars => Handed
  <2> SUFFICES ASSUME Settled, [Next]_vars, NEW d \in Client, pc[d] = "acquired", pc'[d] = "using"
               PROVE  transport[got[d]] # "open"
    OBVIOUS
  <2>1. CASE TimeStep \/ UNCHANGED vars
    BY <2>1, TimeStepSlots DEF Settled, vars, tasks
  <2>2. ASSUME NEW c \in Client, TaskStep(c) PROVE transport[got[d]] # "open"
    <3>1. d = c
      BY <2>2, OthersStep DEF Settled, OthersStay
    <3>2. Hand(c)
      BY <2>2, <3>1 DEF TaskStep, Proceed, CheckoutStart, SemGranted, ProbeCall, CloseCall, CloseNothing, Resume,
         Skip, LeaveFailed, Leave, CreateAnswers, CreateDone, CreateFails, ProbeAnswers, ProbeOk, ProbeFalse,
         ProbeRaises, CloseReturns, CloseDone, ProbeResetDone, CleanupDone, Deadline, Timeout, TimeoutProbe,
         Interruptible, Uses, UserDone, ExpireConn, Gets, CloseAll, Acquire, Sweep, Goto, Settled, TypeOK
    <3> QED
      BY <3>1, <3>2 DEF Hand, Settled, OneOpening, HandedWasReady
  <2> QED
    BY <2>1, <2>2, NextSteps, Zenon
<1> QED
  BY <1>1, SettledAlways, PTL DEF Spec, HandedIsProbed

\* get() hands out a connection whose probe succeeded, even when the slot was emptied and
\* filled again while the caller was waiting.
THEOREM HandedWasProbed == ASSUME MaxConcurrentCreates = 1 PROVE Spec => HandedIsProbed
BY LoneOpenersHandProbed, OnePermitOneOpener, PTL

\* A task loses its event to a step that empties its slot.
LEMMA OrphanStep ==
    ASSUME TypeOK, NEW c \in Client, TaskStep(c), NEW d \in Client, pc[d] = "wait", pc'[d] = "orphan"
    PROVE  at[d] = at[c] /\ Emptied(at[c])
<1>0. at[d] \in Slot
  BY AtSlot
<1>1. ASSUME NEW l, Goto(c, l) \/ (WakeWaiters(c, at[c]) /\ l = "resume") PROVE c = d /\ l = "orphan"
  BY <1>1 DEF Goto, WakeWaiters, TypeOK
<1>2. ASSUME NEW l \in PC, NewEvent(c, at[c], l), slot' = [slot EXCEPT ![at[c]] = EmptySlot], l # "orphan"
      PROVE  at[d] = at[c] /\ Emptied(at[c])
  BY <1>0, <1>2 DEF NewEvent, Emptied, EmptySlot, TypeOK
<1>3. CASE Proceed(c) /\ ~CloseNothing(c)
  BY <1>1, <1>3 DEF Proceed, CheckoutStart, SemGranted, ProbeCall, CloseCall, Resume, Hand, Skip, LeaveFailed, Leave,
                    StopIdleAndWait
<1>4. CASE CreateAnswers(c)
  BY <1>1, <1>4 DEF CreateAnswers, CreateDone, CreateFails
<1>5. CASE ProbeAnswers(c)
  BY <1>1, <1>2, <1>5 DEF ProbeAnswers, ProbeOk, ProbeFalse, ProbeRaises, ResetSlot, PC, Locking, Creating
<1>6. CASE CloseReturns(c) \/ CloseNothing(c)
  <2>1. CASE FinishClose(c) /\ why[c] = "expire"
    <3>1. /\ NewEvent(c, at[c], "idle")
          /\ slot' = [slot EXCEPT ![at[c]] = CheckedIn(EmptySlot, borrowers[at[c]] = {c}, got[c])]
      BY <2>1 DEF FinishClose
    <3>2. at[d] = at[c]
      BY <3>1 DEF NewEvent, TypeOK
    <3>3. /\ CheckedIn(EmptySlot, borrowers[at[c]] = {c}, got[c]).connection = None
          /\ ~CheckedIn(EmptySlot, borrowers[at[c]] = {c}, got[c]).ready
      BY DEF CheckedIn, EmptySlot
    <3> QED
      BY <1>0, <3>1, <3>2, <3>3 DEF Emptied, TypeOK
  <2>2. CASE FinishClose(c) /\ why[c] # "expire"
    BY <1>2, <2>2 DEF FinishClose, ResetSlot, PC, Locking, Creating
  <2>3. CASE ProbeResetDone(c) \/ CleanupDone(c)
    BY <1>2, <2>3 DEF ProbeResetDone, CleanupDone, ResetSlot, PC, Locking, Creating
  <2> QED
    BY <1>6, <2>1, <2>2, <2>3 DEF CloseReturns, CloseDone, CloseNothing
<1>7. CASE Deadline(c)
  BY <1>1, <1>2, <1>7 DEF Deadline, Timeout, TimeoutProbe, ResetSlot, Cancelled, PC, Locking, Creating
<1>8. CASE Uses(c) \/ Gets(c) \/ \E s \in Slot : CloseAll(c, s)
  BY <1>1, <1>8 DEF Uses, UserDone, ExpireConn, Leave, BeginClose, Gets, Acquire, Sweep, CloseAll
<1> QED
  BY <1>3, <1>4, <1>5, <1>6, <1>7, <1>8 DEF TaskStep, Proceed

\* With any number of permits, as long as no two openers meet in a slot, a reset leaves behind
\* only tasks whose connection is closed: nobody waits for a dead event while the connection
\* it waits for is open.
THEOREM LoneOpenersLeaveClosed == Spec /\ []LoneOpeners => OrphansWaitForClosed
<1> DEFINE Left(c) == /\ slot[at[c]].connection # None
                      /\ transport'[slot[at[c]].connection] = "closed"
           AllLeft == \A c \in Client : pc[c] = "wait" /\ pc'[c] = "orphan" => Left(c)
<1>1. Settled /\ SetReachesWaiters /\ [Next]_vars => AllLeft
  <2> SUFFICES ASSUME Settled, SetReachesWaiters, [Next]_vars, NEW d \in Client, pc[d] = "wait", pc'[d] = "orphan"
               PROVE  Left(d)
    OBVIOUS
  <2>0. /\ TypeOK /\ transport \in [Conn -> Transport]
        /\ at[d] \in Slot /\ slot[at[d]].connection # None /\ ~slot[at[d]].ready
        /\ slot[at[d]].connection \in Conn \cup {None}
    BY AtSlot DEF Settled, TypeOK, SlotState, SetReachesWaiters
  <2>1. CASE TimeStep \/ UNCHANGED vars
    BY <2>0, <2>1, TimeStepSlots DEF vars, tasks
  <2>2. ASSUME NEW c \in Client, TaskStep(c) PROVE Left(d)
    <3>1. at[d] = at[c] /\ Emptied(at[c])
      BY <2>0, <2>2, OrphanStep
    <3>2. \/ FinishesClose(c) /\ slot[at[c]].connection = victim[c]
          \/ Drops(c)
      BY <2>0, <2>2, <3>1, SettledEffects DEF Emptied, Kept, Calm, StartsClose, FindsEmpty, Readies
    <3> QED
      BY <2>0, <3>1, <3>2 DEF FinishesClose, Drops
  <2> QED
    BY <2>1, <2>2, NextSteps, Zenon
<1>2. Spec => []SetReachesWaiters
  BY EverySetReachesWaiters
<1> QED
  BY <1>1, <1>2, SettledAlways, PTL DEF Spec, OrphansWaitForClosed

\* A task is left with an event that nobody will set only when the connection it waited for
\* is closed.
THEOREM OrphansAreClosed == ASSUME MaxConcurrentCreates = 1 PROVE Spec => OrphansWaitForClosed
BY LoneOpenersLeaveClosed, OnePermitOneOpener, PTL

\* With any number of permits, as long as no two openers meet in a slot, a connection in use
\* is closed by expire_conn() and closeall() only: no failed opening takes it away.
THEOREM LoneOpenersSpareUsers == Spec /\ []LoneOpeners => UsersLoseItToExpiryOnly
<1> DEFINE Loses(k) == /\ transport[k] \in {"open", "probed"} /\ transport'[k] \in {"closing", "closed"}
                       /\ \E c \in Client : pc[c] = "using" /\ pc'[c] = "using" /\ got[c] = k
           ByExpiry(k) == \E d \in Client : /\ pc'[d] = "closing" /\ victim'[d] = k
                                            /\ why[d] \in {"expire", "closeall"}
<1>1. Settled /\ ClosersAreAlone /\ [Next]_vars => \A k \in Conn : Loses(k) => ByExpiry(k)
  <2> SUFFICES ASSUME Settled, ClosersAreAlone, [Next]_vars, NEW k \in Conn, Loses(k) PROVE ByExpiry(k)
    OBVIOUS
  <2>0. TypeOK /\ Accounted /\ OneOpening /\ transport \in [Conn -> Transport] /\ None \notin Conn
    BY SharedAssumption DEF Settled, TypeOK
  <2>1. CASE TimeStep \/ UNCHANGED vars
    BY <2>0, <2>1, TimeStepSlots DEF vars
  <2>2. ASSUME NEW d \in Client, TaskStep(d) PROVE ByExpiry(k)
    <3>1. PICK c \in Client : pc[c] = "using" /\ got[c] = k
      OBVIOUS
    <3>2. \A s \in Slot : slot[s].connection = k => at[c] = s /\ slot[s].ready /\ c \in borrowers[s]
      BY <2>0, <3>1 DEF Accounted, Identified, Home, OneOpening, HandedWasReady, ResourcesAccounted,
                        TokensAccounted, HoldsToken
    <3>3. (StartsClose(d) \/ Drops(d)) /\ slot[at[d]].connection = k
      BY <2>0, <2>2, EffectStep
         DEF Calm, Opens, Fresh, Readies, StartsClose, FinishesClose, Drops, FindsEmpty, OneOpening, ClosesItsOwn
    <3>4. at[d] \in Slot
      BY <2>0, <3>3, AtSlot DEF StartsClose, Drops, Admitted, Creating
    <3>5. slot[at[d]].ready
      BY <3>2, <3>3, <3>4
    <3>6. /\ StartsClose(d) /\ pc[d] = "closeLock" /\ pc'[d] = "closing" /\ victim'[d] = k
      BY <2>0, <3>3, <3>5 DEF StartsClose, Drops, OneOpening, OpensWhatIsMissing, Admitted, Creating
    <3>7. why[d] \in {"expire", "closeall"}
      <4>1. why[d] \in Reason
        BY <2>0, <3>6 DEF Accounted, Identified, ReasonsFit, InClose
      <4>2. why[d] \notin {"retire", "sweep"}
        BY <2>0, <3>1, <3>2, <3>3, <3>4, <3>6 DEF ClosersAreAlone, ClosesForPool, InClose, Unshared
      <4> QED
        BY <4>1, <4>2 DEF Reason
    <3> QED
      BY <3>6, <3>7
  <2> QED
    BY <2>1, <2>2, NextSteps, Zenon
<1> QED
  BY <1>1, SettledAlways, OwnersAlways, PTL DEF Spec, UsersLoseItToExpiryOnly

\* While a caller uses a connection, only expire_conn() and closeall() close it.
THEOREM UsersLoseIt == ASSUME MaxConcurrentCreates = 1 PROVE Spec => UsersLoseItToExpiryOnly
BY LoneOpenersSpareUsers, OnePermitOneOpener, PTL

-----------------------------------------------------------------------------
(* The slots implement PooledConnections                                   *)

SameView == /\ \A s \in Slot : Shown(s)' = Shown(s)
            /\ \A k \in Conn : ShownStatus(k)' = ShownStatus(k)

\* A task is given the connection of a slot that shows it, or gives up what it has.
HolderStays(c) == got' = got \/ got' = [got EXCEPT ![c] = None]

LEMMA SameViewStep ==
    ASSUME TypeOK, NEW c \in Client, SameView, HolderStays(c)
    PROVE  [Promise!PooledNext]_(Promise!poolState)
<1>1. UNCHANGED <<[s \in Slot |-> Shown(s)], [k \in Conn |-> ShownStatus(k)]>>
  BY DEF SameView
<1>2. CASE got' = got \/ got[c] = None
  BY <1>1, <1>2 DEF HolderStays, TypeOK, Promise!poolState
<1>3. CASE got' = [got EXCEPT ![c] = None] /\ got[c] # None
  BY <1>1, <1>3 DEF Promise!PooledNext, Promise!GiveBack
<1> QED
  BY <1>2, <1>3 DEF HolderStays

\* What a connection looks like from outside.
LEMMA StatusCases ==
    ASSUME Settled, NEW k \in Conn
    PROVE  /\ ShownStatus(k) = IF transport[k] = "probed" THEN "open"
                               ELSE IF transport[k] = "closing" /\ \E s \in Slot : slot[s].ready /\ slot[s].connection = k
                               THEN "closing" ELSE "closed"
BY SharedAssumption DEF Shown, ShownStatus

\* Steps that callers cannot see: the connections that change are not shown before or after.
LEMMA UnseenSteps ==
    ASSUME Settled, Settled', NEW c \in Client, TaskStep(c),
           \/ Calm(c)
           \/ (\A t \in Slot : Kept(t)) /\ UNCHANGED transport
           \/ Opens(c)
           \/ StartsClose(c) /\ ~slot[at[c]].ready
           \/ Drops(c)
           \/ FinishesClose(c) /\ slot[at[c]].connection = victim[c] /\ ~slot[at[c]].ready
    PROVE  SameView
<1> DEFINE s == at[c]
<1>0. /\ transport \in [Conn -> Transport] /\ None \notin Conn /\ SlotsDiffer /\ ReadyIsProbed
      /\ \A t \in Slot : t # s => Kept(t)
      /\ \A t \in Slot : slot[t].ready \in BOOLEAN /\ slot'[t].ready \in BOOLEAN
  <2>1. \A t \in Slot : slot[t] \in SlotState /\ slot'[t] \in SlotState
    BY DEF Settled, TypeOK
  <2> QED
    BY <2>1, SharedAssumption, SettledEffects DEF Settled, TypeOK, Accounted, Identified, OneOpening, SlotState
<1>1. pc[c] # "idle" => s \in Slot
  BY AtSlot DEF Settled
<1>2. ASSUME \A t \in Slot : Kept(t), UNCHANGED transport PROVE SameView
  BY <1>2 DEF SameView, Shown, ShownStatus, Kept
<1>3. ASSUME s \in Slot, ~slot[s].ready, ~slot'[s].ready, NEW k \in Conn, NEW st \in Transport \ {"probed"},
             transport[k] # "probed", \A t \in Slot \ {s} : ~(slot[t].ready /\ slot[t].connection = k),
             transport' = [transport EXCEPT ![k] = st]
      PROVE  SameView
  <2>1. ASSUME NEW t \in Slot PROVE Shown(t)' = Shown(t)
    BY <1>0, <1>3 DEF Shown, Kept
  <2>2. ASSUME NEW j \in Conn PROVE ShownStatus(j)' = ShownStatus(j)
    <3>1. CASE j # k
      <4>1. transport'[j] = transport[j]
        BY <1>0, <1>3, <3>1
      <4> QED
        BY <2>1, <4>1 DEF ShownStatus
    <3>2. CASE j = k
      <4>1. \A t \in Slot : Shown(t) # k
        BY <1>0, <1>3 DEF Shown
      <4>2. \A t \in Slot : Shown(t)' # k
        BY <2>1, <4>1
      <4>3. transport'[k] # "probed"
        BY <1>0, <1>3
      <4> QED
        BY <1>3, <3>2, <4>1, <4>2, <4>3 DEF ShownStatus
    <3> QED
      BY <3>1, <3>2
  <2> QED
    BY <2>1, <2>2 DEF SameView
<1>4. CASE Opens(c)
  <2>1. ~slot[s].ready /\ ~slot'[s].ready /\ s \in Slot
    BY <1>1, <1>4 DEF Opens, Admitted, Creating, Settled, OneOpening, OpensWhatIsMissing
  <2>2. PICK k \in Conn : Fresh(k) /\ transport' = [transport EXCEPT ![k] = "open"]
    BY <1>4 DEF Opens
  <2> QED
    BY <1>3, <2>1, <2>2 DEF Fresh, Transport
<1>5. CASE StartsClose(c) /\ ~slot[s].ready
  <2> DEFINE k == slot[s].connection
  <2>1. s \in Slot /\ k \in Conn /\ UNCHANGED slot /\ transport' = [transport EXCEPT ![k] = "closing"]
    BY <1>1, <1>5 DEF StartsClose, Admitted, Creating
  <2>2. transport[k] # "probed" /\ \A t \in Slot \ {s} : slot[t].connection # k
    BY <1>0, <1>5, <2>1 DEF ReadyIsProbed, SlotsDiffer
  <2> QED
    BY <1>3, <1>5, <2>1, <2>2 DEF Transport
<1>6. CASE /\ Drops(c) \/ (FinishesClose(c) /\ slot[s].connection = victim[c] /\ ~slot[s].ready)
  <2> DEFINE k == slot[s].connection
  <2>1. /\ s \in Slot /\ k \in Conn /\ ~slot[s].ready /\ ~slot'[s].ready
        /\ transport' = [transport EXCEPT ![k] = "closed"]
    BY <1>1, <1>6 DEF Drops, FinishesClose, Emptied, Admitted, Creating, Closers, Settled, OneOpening, ClosesItsOwn
  <2>2. transport[k] # "probed" /\ \A t \in Slot \ {s} : slot[t].connection # k
    BY <1>0, <2>1 DEF ReadyIsProbed, SlotsDiffer
  <2> QED
    BY <1>3, <2>1, <2>2 DEF Transport
<1> QED
  BY <1>2, <1>4, <1>5, <1>6 DEF Calm

\* A connection passes its probe.
LEMMA OpenSeen ==
    ASSUME Settled, Settled', NEW c \in Client, TaskStep(c), Readies(c)
    PROVE  \E s \in Slot, k \in Conn : Promise!Open(s, k)
<1>0. at[c] \in Slot /\ victim[c] \in Conn /\ slot[at[c]].connection = victim[c] /\ ~slot[at[c]].ready
  BY AtSlot DEF Readies, Settled, OneOpening, OpensWhatIsMissing, Admitted, Creating
<1>1. PICK s \in Slot, k \in Conn :
      /\ s = at[c] /\ k = victim[c] /\ slot[s].connection = k /\ ~slot[s].ready
      /\ slot'[s].connection = k /\ slot'[s].ready
      /\ transport' = [transport EXCEPT ![k] = IF @ = "open" THEN "probed" ELSE @] /\ got' = got
      /\ transport[k] # "closed"
  BY <1>0 DEF Readies
<1>2. /\ transport \in [Conn -> Transport] /\ None \notin Conn /\ SlotsDiffer /\ SlotsDiffer'
      /\ ReadyIsProbed /\ HandedWasReady /\ Home
      /\ \A t \in Slot : t # s => Kept(t)
  BY <1>1, SharedAssumption, SettledEffects DEF Settled, TypeOK, Accounted, Identified, OneOpening
<1>3. transport[k] \in {"open", "closing"} /\ transport'[k] \in {"probed", "closing"}
  BY <1>1, <1>2 DEF ReadyIsProbed, Transport
<1>4. Shown(s) = None /\ Shown(s)' = k /\ \A t \in Slot \ {s} : Shown(t)' = Shown(t) /\ Shown(t) # k
  BY <1>1, <1>2 DEF Shown, Kept, SlotsDiffer
<1>5. ShownStatus(k) = "closed" /\ ShownStatus(k)' \in {"open", "closing"}
  <2>1. \A t \in Slot : Shown(t) # k
    BY <1>1, <1>2, <1>4
  <2> QED
    BY <1>1, <1>3, <1>4, <2>1 DEF ShownStatus
<1>6. ASSUME NEW j \in Conn, j # k PROVE ShownStatus(j)' = ShownStatus(j)
  <2>1. transport'[j] = transport[j]
    BY <1>1, <1>2, <1>6
  <2>2. \A t \in Slot : Shown(t)' = j <=> Shown(t) = j
    BY <1>1, <1>2, <1>4, <1>6
  <2> QED
    BY <2>1, <2>2 DEF ShownStatus
<1>7. \A d \in Client : got[d] # k
  BY <1>1, <1>2 DEF Home, HandedWasReady
<1>8. /\ [t \in Slot |-> Shown(t)]' = [[t \in Slot |-> Shown(t)] EXCEPT ![s] = k]
      /\ [j \in Conn |-> ShownStatus(j)]' = [[j \in Conn |-> ShownStatus(j)] EXCEPT ![k] = ShownStatus(k)']
  BY <1>1, <1>4, <1>6
<1>9. Promise!Unused(k)
  <2>1. \A t \in Slot : Shown(t) # k
    BY <1>1, <1>2, <1>4
  <2> QED
    BY <1>1, <1>5, <1>7, <2>1 DEF Promise!Unused
<1>10. Promise!Open(s, k)
  BY <1>1, <1>4, <1>5, <1>8, <1>9 DEF Promise!Open
<1> QED
  BY <1>1, <1>10

\* The close of a shown connection begins, and ends.
LEMMA CloseSeen ==
    ASSUME Settled, Settled', NEW c \in Client, TaskStep(c), HolderStays(c), slot[at[c]].ready,
           \/ StartsClose(c)
           \/ FinishesClose(c) /\ slot[at[c]].connection = victim[c]
    PROVE  \E s \in Slot : Promise!StartClose(s) \/ Promise!EndClose(s)
<1>1. PICK s \in Slot, k \in Conn : s = at[c] /\ k = slot[s].connection /\ slot[s].ready
  BY AtSlot DEF StartsClose, FinishesClose, Closers, Admitted, Creating, Settled, OneOpening, ClosesItsOwn
<1>0. /\ transport \in [Conn -> Transport] /\ None \notin Conn /\ SlotsDiffer /\ SlotsDiffer'
      /\ ReadyIsProbed /\ \A t \in Slot : t # s => Kept(t)
  BY <1>1, SharedAssumption, SettledEffects DEF Settled, TypeOK, Accounted, Identified, OneOpening
<1>2. Shown(s) = k /\ \A t \in Slot \ {s} : Shown(t)' = Shown(t) /\ Shown(t) # k
  BY <1>0, <1>1 DEF Shown, Kept, SlotsDiffer
<1>3. ASSUME NEW st, transport' = [transport EXCEPT ![k] = st], Shown(s)' \in {k, None}, NEW j \in Conn, j # k
      PROVE  ShownStatus(j)' = ShownStatus(j)
  <2>1. transport'[j] = transport[j]
    BY <1>0, <1>1, <1>3
  <2>2. \A t \in Slot : Shown(t)' = j <=> Shown(t) = j
    BY <1>0, <1>1, <1>2, <1>3
  <2> QED
    BY <2>1, <2>2 DEF ShownStatus
<1>4. CASE StartsClose(c)
  <2>1. /\ transport' = [transport EXCEPT ![k] = "closing"] /\ UNCHANGED <<slot, got>>
    BY <1>1, <1>4 DEF StartsClose
  <2>2. Shown(s)' = k /\ transport'[k] = "closing"
    BY <1>0, <1>1, <1>2, <2>1 DEF Shown
  <2>3. ShownStatus(k)' = "closing"
    BY <1>1, <2>2 DEF ShownStatus
  <2>4. /\ [t \in Slot |-> Shown(t)]' = [t \in Slot |-> Shown(t)]
        /\ [j \in Conn |-> ShownStatus(j)]' = [[j \in Conn |-> ShownStatus(j)] EXCEPT ![k] = "closing"]
    BY <1>1, <1>2, <1>3, <2>1, <2>2, <2>3
  <2>5. Promise!StartClose(s)
    BY <1>0, <1>1, <1>2, <2>1, <2>4 DEF Promise!StartClose
  <2> QED
    BY <1>1, <2>5
<1>5. CASE FinishesClose(c) /\ k = victim[c]
  <2>1. transport' = [transport EXCEPT ![k] = "closed"] /\ ~slot'[s].ready
    BY <1>1, <1>5 DEF FinishesClose, Emptied
  <2>2. transport[k] = "closing"
    BY <1>0, <1>1, <1>5 DEF FinishesClose, ReadyIsProbed, Settled, OneOpening, ClosesItsOwn
  <2>3. Shown(s)' = None /\ transport'[k] = "closed"
    BY <1>0, <1>1, <2>1 DEF Shown
  <2>4. ShownStatus(k) = "closing" /\ ShownStatus(k)' = "closed"
    BY <1>1, <1>2, <2>2, <2>3 DEF ShownStatus
  <2>5. /\ [t \in Slot |-> Shown(t)]' = [[t \in Slot |-> Shown(t)] EXCEPT ![s] = None]
        /\ [j \in Conn |-> ShownStatus(j)]' = [[j \in Conn |-> ShownStatus(j)] EXCEPT ![k] = "closed"]
    BY <1>1, <1>2, <1>3, <2>1, <2>3, <2>4
  <2>6. Promise!EndClose(s)
    BY <1>0, <1>1, <1>2, <2>4, <2>5 DEF Promise!EndClose, HolderStays
  <2> QED
    BY <1>1, <2>6
<1> QED
  BY <1>1, <1>4, <1>5

\* Time is not seen.
LEMMA TimeUnseen ==
    ASSUME Settled, TimeStep \/ UNCHANGED vars
    PROVE  UNCHANGED Promise!poolState
<1>1. /\ UNCHANGED <<got, transport>>
      /\ \A t \in Slot : Kept(t)
  <2>1. CASE UNCHANGED vars
    BY <2>1 DEF vars, queues, tasks, Kept
  <2>2. CASE TimeStep
    <3>1. PICK s \in Slot : IdlePasses(s) \/ AgePasses(s)
      BY <2>2 DEF TimeStep
    <3>2. \A t \in Slot : slot[t] \in SlotState
      BY DEF Settled, TypeOK
    <3>3. /\ slot' = [slot EXCEPT ![s].idle = "over"] \/ slot' = [slot EXCEPT ![s].age = "over"]
          /\ UNCHANGED <<got, transport>>
      BY <3>1 DEF IdlePasses, AgePasses, tasks, queues
    <3>4. ASSUME NEW t \in Slot
          PROVE  \A r \in {[slot[t] EXCEPT !.idle = "over"], [slot[t] EXCEPT !.age = "over"]} :
                    r.connection = slot[t].connection /\ r.ready = slot[t].ready
      BY <3>2 DEF SlotState
    <3> QED
      BY <3>3, <3>4 DEF Settled, TypeOK, Kept
  <2> QED
    BY <2>1, <2>2
<1> QED
  BY <1>1 DEF Promise!poolState, Shown, ShownStatus, Kept

\* A task leaves checkout() with the slot's connection.
LEMMA TakeSeen ==
    ASSUME Settled, NEW c \in Client, TaskStep(c), pc[c] = "resume", pc'[c] = "acquired",
           got'[c] = slot[at[c]].connection, UNCHANGED <<slot, at>>
    PROVE  [Promise!PooledNext]_(Promise!poolState)
<1>1. PICK s \in Slot : s = at[c]
  BY AtSlot DEF Settled
<1>2. /\ got[c] = None /\ got \in [Client -> Conn \cup {None}] /\ got' \in [Client -> Conn \cup {None}]
      /\ \A d \in Client \ {c} : got'[d] = got[d]
  BY TypeStep, NextSteps, OthersStep DEF Settled, TypeOK, Accounted, Identified, GotWhere, InClose, OthersStay
<1>3. UNCHANGED transport
  BY EffectStep DEF Settled, Calm, Opens, Readies, StartsClose, FinishesClose, Drops, FindsEmpty,
                    Admitted, Creating, Closers, Cancelled
<1>4. UNCHANGED <<[t \in Slot |-> Shown(t)], [k \in Conn |-> ShownStatus(k)]>>
  BY <1>3 DEF Shown, ShownStatus
<1>5. slot[s].connection # None => slot[s].ready
  BY <1>1 DEF Settled, OneOpening, WokenFindsReady
<1>6. got' = [got EXCEPT ![c] = slot[s].connection]
  BY <1>1, <1>2
<1>7. CASE slot[s].connection = None
  BY <1>2, <1>4, <1>6, <1>7 DEF Promise!poolState
<1>8. CASE slot[s].connection # None
  <2>1. Shown(s) = slot[s].connection
    BY <1>5, <1>8 DEF Shown
  <2>2. Promise!Take(c, s)
    BY <1>2, <1>4, <1>6, <1>8, <2>1 DEF Promise!Take
  <2> QED
    BY <1>1, <2>2 DEF Promise!PooledNext
<1> QED
  BY <1>7, <1>8

\* Every step is one that PooledConnections allows, or is not seen.
LEMMA PromiseStep ==
    ASSUME Settled, Settled', [Next]_vars
    PROVE  [Promise!PooledNext]_(Promise!poolState)
<1>1. CASE TimeStep \/ UNCHANGED vars
  BY <1>1, TimeUnseen
<1>2. ASSUME NEW c \in Client, TaskStep(c) PROVE [Promise!PooledNext]_(Promise!poolState)
  <2>1. \/ HolderStays(c)
        \/ /\ pc[c] = "resume" /\ pc'[c] = "acquired"
           /\ got'[c] = slot[at[c]].connection /\ UNCHANGED <<slot, at>>
    BY <1>2, GotStep, OthersStep DEF Settled, TypeOK, Accounted, Identified, OthersStay, HolderStays
  <2>2. ASSUME HolderStays(c) PROVE [Promise!PooledNext]_(Promise!poolState)
    <3>1. CASE Readies(c)
      BY <1>2, <3>1, OpenSeen DEF Promise!PooledNext
    <3>2. CASE /\ slot[at[c]].ready
               /\ StartsClose(c) \/ (FinishesClose(c) /\ slot[at[c]].connection = victim[c])
      BY <1>2, <2>2, <3>2, CloseSeen DEF Promise!PooledNext
    <3>3. CASE SameView
      BY <1>2, <2>2, <3>3, SameViewStep DEF Settled
    <3> QED
      BY <1>2, <3>1, <3>2, <3>3, SettledEffects, UnseenSteps DEF FindsEmpty
  <2> QED
    BY <1>2, <2>1, <2>2, TakeSeen
<1> QED
  BY <1>1, <1>2, NextSteps, Zenon

\* With any number of permits, as long as no two openers meet in a slot, the slots with
\* their locks, events, deadlines and cancellations implement PooledConnections.
THEOREM LoneOpenersKeepPromise == Spec /\ []LoneOpeners => KeepsPromise
<1>1. Init => Promise!PooledInit
  BY DEF Init, EmptySlot, Promise!PooledInit, Shown, ShownStatus
<1> QED
  BY <1>1, PromiseStep, SettledAlways, PTL DEF Spec, KeepsPromise, Promise!PooledSpec

\* The slots, with their locks, events, permits, deadlines and cancellations, implement
\* PooledConnections: callers see one probed connection per slot, are handed only what a
\* slot shows, and see another one only when the former is closed.
THEOREM SlotsKeepPromise == ASSUME MaxConcurrentCreates = 1 PROVE Spec => KeepsPromise
BY LoneOpenersKeepPromise, OnePermitOneOpener, PTL
=============================================================================
