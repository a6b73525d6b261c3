-------------------- MODULE SharedTransportQueues_proofs --------------------
(***************************************************************************)
(* Theorems about the queues and tokens of SharedTransportConnection, for  *)
(* every number of tasks, slots, permits and tokens: what tasks take they  *)
(* give back, and who closes a connection on the pool's behalf is alone    *)
(* with it.                                                                *)
(***************************************************************************)
EXTENDS SharedTransportConnection_proofs, FiniteSetTheorems

-----------------------------------------------------------------------------
(* Queues *)

\* d stands before c in the queue q.
Ahead(q, d, c) == \E i, j \in DOMAIN q : i < j /\ q[i] = d /\ q[j] = c

Heads(q, d) == q # << >> /\ q[1] = d

\* d is among the first m of the queue q.
Within(q, m, d) == \E i \in 1..Len(q) : i <= m /\ q[i] = d

LEMMA InQueue ==
    ASSUME NEW S, NEW q \in Seq(S), NEW e
    PROVE  e \in ToSet(q) <=> \E i \in 1..Len(q) : q[i] = e
BY LenProperties DEF ToSet

\* Who joins a queue comes last.
LEMMA JoinQueue ==
    ASSUME NEW S, NEW q \in Seq(S), NEW e \in S, e \notin ToSet(q), IsInjective(q)
    PROVE  /\ Append(q, e) \in Seq(S)
           /\ IsInjective(Append(q, e))
           /\ ToSet(Append(q, e)) = ToSet(q) \cup {e}
           /\ \A d, c : Ahead(Append(q, e), d, c)
                          => Ahead(q, d, c) \/ (c = e /\ d \in ToSet(q))
           /\ \A d : Heads(q, d) => Heads(Append(q, e), d)
           /\ \A m, d : Within(q, m, d) => Within(Append(q, e), m, d)
<1> DEFINE r == Append(q, e)
           n == Len(q)
<1>1. /\ n \in Nat /\ r \in Seq(S) /\ r # << >> /\ Len(r) = n + 1
      /\ \A i \in 1..n : r[i] = q[i]
      /\ r[n + 1] = e
  BY LenProperties, AppendProperties
<1>2. DOMAIN r = 1..(n + 1) /\ DOMAIN q = 1..n
  BY <1>1, LenProperties
<1> HIDE DEF r, n
<1>3. \A i \in 1..n : q[i] # e
  BY <1>2, InQueue DEF n
<1>4. IsInjective(r)
  BY <1>1, <1>2, <1>3 DEF IsInjective
<1>5. ToSet(r) = ToSet(q) \cup {e}
  <2>1. \A x : x \in ToSet(r) <=> \E i \in 1..(n + 1) : r[i] = x
    BY <1>1, InQueue
  <2>2. \A x : x \in ToSet(q) <=> \E i \in 1..n : q[i] = x
    BY InQueue DEF n
  <2>3. ASSUME NEW x PROVE x \in ToSet(r) <=> x \in ToSet(q) \/ x = e
    <3>1. \A i : i \in 1..(n + 1) <=> i \in 1..n \/ i = n + 1
      BY <1>1
    <3> QED
      BY <1>1, <2>1, <2>2, <3>1
  <2> QED
    BY <2>3
<1>6. ASSUME NEW d, NEW c, Ahead(r, d, c)
      PROVE  Ahead(q, d, c) \/ (c = e /\ d \in ToSet(q))
  <2>1. PICK i \in 1..(n + 1), j \in 1..(n + 1) : i < j /\ r[i] = d /\ r[j] = c
    BY <1>2, <1>6 DEF Ahead
  <2>2. i \in 1..n /\ q[i] = d
    BY <1>1, <2>1
  <2>3. CASE j = n + 1
    BY <1>1, <2>1, <2>2, <2>3, InQueue DEF n
  <2>4. CASE j \in 1..n
    BY <1>1, <1>2, <2>1, <2>2, <2>4 DEF Ahead
  <2> QED
    BY <1>1, <2>1, <2>3, <2>4
<1>7. \A d : Heads(q, d) => Heads(r, d)
  <2>1. q # << >> => n \in Nat \ {0}
    BY EmptySeq DEF n
  <2> QED
    BY <1>1, <2>1 DEF Heads
<1>8. \A m, d : Within(q, m, d) => Within(r, m, d)
  BY <1>1 DEF Within, n
<1> QED
  BY <1>1, <1>4, <1>5, <1>6, <1>7, <1>8 DEF r

\* Who leaves a queue leaves the others as they stand.
LEMMA LeaveQueue ==
    ASSUME NEW S, NEW q \in Seq(S), NEW e, IsInjective(q)
    PROVE  /\ Without(q, e) \in Seq(S)
           /\ IsInjective(Without(q, e))
           /\ ToSet(Without(q, e)) = ToSet(q) \ {e}
           /\ \A d, c : Ahead(Without(q, e), d, c) => Ahead(q, d, c)
           /\ \A d : d # e /\ Heads(q, d) => Heads(Without(q, e), d)
           /\ \A m \in Nat : \A d : d # e /\ Within(q, m, d) => Within(Without(q, e), m, d)
<1>1. CASE e \notin ToSet(q)
  BY <1>1 DEF Without
<1>2. CASE e \in ToSet(q)
  <2> DEFINE n == Len(q)
             p == CHOOSE i \in DOMAIN q : q[i] = e
             r == Without(q, e)
  <2>1. n \in Nat /\ DOMAIN q = 1..n /\ \A i \in 1..n : q[i] \in S
    BY LenProperties, ElementOfSeq
  <2>2. p \in 1..n /\ q[p] = e
    BY <1>2, <2>1, InQueue
  <2>3. r = SubSeq(q, 1, p - 1) \o SubSeq(q, p + 1, n)
    BY <1>2 DEF Without, RemoveAt
  <2> HIDE DEF p, r, n
  <2>4. /\ SubSeq(q, 1, p - 1) \in Seq(S)
        /\ Len(SubSeq(q, 1, p - 1)) = p - 1
        /\ \A i \in 1..(p - 1) : SubSeq(q, 1, p - 1)[i] = q[i]
    BY <2>1, <2>2, SubSeqProperties
  <2>5. /\ SubSeq(q, p + 1, n) \in Seq(S)
        /\ Len(SubSeq(q, p + 1, n)) = n - p
        /\ \A i \in 1..(n - p) : SubSeq(q, p + 1, n)[i] = q[p + i]
    <3>1. p + 1 \in Int /\ n \in Int /\ n - (p + 1) + 1 = n - p /\ \A i \in (p + 1)..n : q[i] \in S
      BY <2>1, <2>2
    <3>2. /\ SubSeq(q, p + 1, n) \in Seq(S)
          /\ Len(SubSeq(q, p + 1, n)) = IF p + 1 <= n THEN n - (p + 1) + 1 ELSE 0
          /\ \A i \in 1..(n - (p + 1) + 1) : SubSeq(q, p + 1, n)[i] = q[(p + 1) + i - 1]
      BY <3>1, SubSeqProperties
    <3>3. \A i \in 1..(n - p) : (p + 1) + i - 1 = p + i
      BY <2>1, <2>2
    <3> QED
      BY <2>1, <2>2, <3>1, <3>2, <3>3
  <2> DEFINE u == SubSeq(q, 1, p - 1)
             w == SubSeq(q, p + 1, n)
  <2> HIDE DEF u, w
  <2>6. r \in Seq(S) /\ Len(r) = n - 1
    BY <2>1, <2>2, <2>3, <2>4, <2>5, ConcatProperties DEF u, w
  <2>7. \A i \in 1..(n - 1) : r[i] = IF i <= p - 1 THEN u[i] ELSE w[i - (p - 1)]
    <3>1. u \in Seq(S) /\ w \in Seq(S) /\ Len(u) = p - 1 /\ Len(w) = n - p
      BY <2>4, <2>5 DEF u, w
    <3>2. \A i \in 1..(Len(u) + Len(w)) :
            (u \o w)[i] = IF i <= Len(u) THEN u[i] ELSE w[i - Len(u)]
      BY <3>1, ConcatProperties
    <3>3. (p - 1) + (n - p) = n - 1
      BY <2>1, <2>2
    <3> QED
      BY <2>3, <3>1, <3>2, <3>3 DEF u, w
  <2>8. \A i \in 1..(n - 1) : r[i] = IF i < p THEN q[i] ELSE q[i + 1]
    <3>1. /\ \A i \in 1..(p - 1) : u[i] = q[i]
          /\ \A i \in 1..(n - p) : w[i] = q[p + i]
      BY <2>4, <2>5 DEF u, w
    <3> QED
      BY <2>1, <2>2, <2>7, <3>1
  <2>9. DOMAIN r = 1..(n - 1)
    BY <2>1, <2>2, <2>6, LenProperties
  <2>10. IsInjective(r)
    <3> SUFFICES ASSUME NEW i \in 1..(n - 1), NEW j \in 1..(n - 1), r[i] = r[j] PROVE i = j
      BY <2>9 DEF IsInjective
    <3> DEFINE a == IF i < p THEN i ELSE i + 1
               b == IF j < p THEN j ELSE j + 1
    <3>1. a \in 1..n /\ b \in 1..n /\ q[a] = q[b]
      BY <2>1, <2>2, <2>8
    <3>2. a = b
      BY <2>1, <3>1 DEF IsInjective
    <3> QED
      BY <2>1, <2>2, <3>2
  <2>11. ToSet(r) = ToSet(q) \ {e}
    <3>1. \A x : x \in ToSet(r) <=> \E i \in 1..(n - 1) : r[i] = x
      BY <2>6, InQueue
    <3>2. \A x : x \in ToSet(q) <=> \E i \in 1..n : q[i] = x
      BY InQueue DEF n
    <3>3. ASSUME NEW x \in ToSet(r) PROVE x \in ToSet(q) /\ x # e
      <4>1. PICK i \in 1..(n - 1) : r[i] = x
        BY <3>1
      <4> QED
        BY <2>1, <2>2, <2>8, <3>2, <4>1 DEF IsInjective
    <3>4. ASSUME NEW x \in ToSet(q), x # e PROVE x \in ToSet(r)
      <4>1. PICK i \in 1..n : q[i] = x
        BY <3>2
      <4>2. CASE i < p
        BY <2>1, <2>2, <2>8, <3>1, <4>1, <4>2
      <4>3. CASE i > p
        <5>1. i - 1 \in 1..(n - 1) /\ ~(i - 1 < p) /\ (i - 1) + 1 = i
          BY <2>1, <2>2, <4>1, <4>3
        <5> QED
          BY <2>8, <3>1, <4>1, <5>1
      <4> QED
        BY <2>1, <2>2, <3>4, <4>1, <4>2, <4>3
    <3> QED
      BY <3>3, <3>4
  <2>12. ASSUME NEW d, NEW c, Ahead(r, d, c) PROVE Ahead(q, d, c)
    <3>1. PICK i \in 1..(n - 1), j \in 1..(n - 1) : i < j /\ r[i] = d /\ r[j] = c
      BY <2>9, <2>12 DEF Ahead
    <3> DEFINE a == IF i < p THEN i ELSE i + 1
               b == IF j < p THEN j ELSE j + 1
    <3>2. a \in 1..n /\ b \in 1..n /\ a < b
      BY <2>1, <2>2, <3>1
    <3>3. q[a] = d /\ q[b] = c
      BY <2>8, <3>1
    <3> QED
      BY <2>1, <3>2, <3>3 DEF Ahead
  <2>13. ASSUME NEW d, d # e, Heads(q, d) PROVE Heads(r, d)
    <3>1. p # 1 /\ p > 1 /\ n > 1
      BY <2>1, <2>2, <2>13 DEF Heads
    <3>2. r[1] = q[1] /\ r # << >>
      BY <2>1, <2>2, <2>6, <2>8, <3>1, EmptySeq
    <3> QED
      BY <2>13, <3>2 DEF Heads
  <2>14. ASSUME NEW m \in Nat, NEW d, d # e, Within(q, m, d) PROVE Within(r, m, d)
    <3>1. PICK i \in 1..n : i <= m /\ q[i] = d
      BY <2>14 DEF Within, n
    <3>2. PICK j : j = IF i < p THEN i ELSE i - 1
      OBVIOUS
    <3>3. i # p /\ j \in 1..(n - 1) /\ j <= m
      BY <2>1, <2>2, <2>14, <3>1, <3>2
    <3>4. r[j] = d
      BY <2>1, <2>2, <2>8, <3>1, <3>2, <3>3
    <3> QED
      BY <2>6, <3>3, <3>4 DEF Within
  <2> QED
    BY <2>6, <2>10, <2>11, <2>12, <2>13, <2>14 DEF r
<1> QED BY <1>1, <1>2, Zenon

\* Who is not at the head has the head before it.
LEMMA HeadIsAhead ==
    ASSUME NEW S, NEW q \in Seq(S), NEW d, NEW c \in ToSet(q), Heads(q, d), c # d
    PROVE  Ahead(q, d, c)
<1>1. PICK i \in 1..Len(q) : q[i] = c
  BY InQueue
<1>2. Len(q) \in Nat /\ DOMAIN q = 1..Len(q)
  BY LenProperties
<1> QED
  BY <1>1, <1>2 DEF Heads, Ahead
-----------------------------------------------------------------------------
(* What a step changes: its task, the queues, the tokens                   *)

TaskStep(c) ==
    \/ Proceed(c) \/ CreateAnswers(c) \/ ProbeAnswers(c) \/ CloseReturns(c)
    \/ Deadline(c) \/ Uses(c) \/ Gets(c)
    \/ \E s \in Slot : CloseAll(c, s)

TimeStep == \E s \in Slot : IdlePasses(s) \/ AgePasses(s)

LEMMA NextSteps == Next <=> TimeStep \/ \E c \in Client : TaskStep(c)
BY DEF Next, TaskStep, TimeStep

\* A step of c leaves the other tasks where they are, unless they wait for its slot.
OthersStay(c) ==
    \A d \in Client \ {c} :
        /\ at'[d] = at[d] /\ why'[d] = why[d] /\ got'[d] = got[d] /\ victim'[d] = victim[d]
        /\ \/ pc'[d] = pc[d]
           \/ pc[d] = "wait" /\ at[d] = at[c] /\ pc'[d] \in {"orphan", "resume"}

LEMMA StayAtEvents ==
    ASSUME TypeOK, NEW c \in Client, NEW l,
           Goto(c, l) \/ NewEvent(c, at[c], l) \/ (WakeWaiters(c, at[c]) /\ l = "resume")
    PROVE  /\ pc'[c] = l
           /\ \A d \in Client \ {c} :
                \/ pc'[d] = pc[d]
                \/ pc[d] = "wait" /\ at[d] = at[c] /\ pc'[d] \in {"orphan", "resume"}
BY DEF TypeOK, Goto, NewEvent, WakeWaiters

LEMMA OthersStep ==
    ASSUME TypeOK, NEW c \in Client, TaskStep(c)
    PROVE  OthersStay(c)
<1> DEFINE SameTasks == \A d \in Client \ {c} :
              at'[d] = at[d] /\ why'[d] = why[d] /\ got'[d] = got[d] /\ victim'[d] = victim[d]
           Moves == \E l : Goto(c, l) \/ NewEvent(c, at[c], l) \/ (WakeWaiters(c, at[c]) /\ l = "resume")
<1> SUFFICES SameTasks /\ Moves
  BY StayAtEvents DEF OthersStay
<1>1. CASE Proceed(c) /\ ~CloseNothing(c)
  BY <1>1 DEF Proceed, CheckoutStart, SemGranted, ProbeCall, CloseCall, Resume, Hand, Skip, LeaveFailed, Leave,
              Release, StopIdleAndWait, TypeOK
<1>2. CASE CreateAnswers(c) \/ ProbeAnswers(c)
  BY <1>2 DEF CreateAnswers, ProbeAnswers, CreateDone, CreateFails, ProbeOk, ProbeFalse, ProbeRaises, ResetSlot, TypeOK
<1>3. CASE CloseReturns(c) \/ CloseNothing(c)
  BY <1>3 DEF CloseReturns, CloseNothing, CloseDone, ProbeResetDone, CleanupDone, FinishClose, ResetSlot, Release, TypeOK
<1>4. CASE Deadline(c)
  BY <1>4 DEF Deadline, Timeout, TimeoutProbe, ResetSlot, TypeOK
<1>5. CASE Uses(c) \/ Gets(c) \/ \E s \in Slot : CloseAll(c, s)
  BY <1>5 DEF Uses, Gets, CloseAll, Sweep, Acquire, UserDone, ExpireConn, Leave, Release, BeginClose, TypeOK
<1> QED
  BY <1>1, <1>2, <1>3, <1>4, <1>5 DEF TaskStep, Proceed
\* A task is given a reason exactly while it closes a slot.
InClose(c) == pc[c] \in {"closeLock", "closing"}

ReasonsFit == \A c \in Client : why[c] \in IF InClose(c) THEN Reason ELSE {None}

\* A task has a connection from checkout() on, until it gives it back or expires it.
GotWhere ==
    \A c \in Client :
        got[c] # None => pc[c] \in {"acquired", "using"} \/ (InClose(c) /\ why[c] = "expire")

\* No two slots hold one connection, and a task is in the slot that holds its own.
SlotsDiffer ==
    \A s, t \in Slot : slot[s].connection # None /\ slot[s].connection = slot[t].connection => s = t

Home ==
    \A c \in Client, s \in Slot : got[c] # None /\ slot[s].connection = got[c] => at[c] = s

Identified == ReasonsFit /\ GotWhere /\ SlotsDiffer /\ Home

\* What a step of c does to the locks: nothing, join one, leave one, or queue again.
KeepsLock(c) ==
    /\ UNCHANGED lockq
    /\ pc'[c] \in Locking <=> pc[c] \in Locking
    /\ pc[c] \in Locking => at'[c] = at[c]

JoinsLock(c) ==
    /\ pc[c] \notin Locking /\ pc'[c] \in Locking
    /\ at'[c] \in Slot /\ JoinLock(c, at'[c])

LeavesLock(c) == pc'[c] \notin Locking /\ at[c] \in Slot /\ LeaveLock(c, at[c])

Requeues(c) ==
    /\ pc[c] = "create" /\ pc'[c] = "probeLock" /\ at[c] \in Slot /\ at'[c] = at[c]
    /\ lockq' = [lockq EXCEPT ![at[c]] = Append(Without(@, c), c)]

LEMMA LockStep ==
    ASSUME TypeOK, NEW c \in Client, TaskStep(c)
    PROVE  KeepsLock(c) \/ JoinsLock(c) \/ LeavesLock(c) \/ Requeues(c)
<1> pc[c] # "idle" => at[c] \in Slot
  BY AtSlot
<1>1. ASSUME NEW l \in PC, Goto(c, l) \/ NewEvent(c, at[c], l) \/ (WakeWaiters(c, at[c]) /\ l = "resume")
      PROVE  pc'[c] = l
  BY <1>1 DEF Goto, NewEvent, WakeWaiters, TypeOK
<1> USE <1>1 DEF PC, Locking, Creating
<1>2. CASE Proceed(c) /\ ~CloseNothing(c)
  BY <1>2 DEF Proceed, CheckoutStart, SemGranted, ProbeCall, CloseCall, Resume, Hand, Skip, LeaveFailed, Leave,
              Release, StopIdleAndWait, queues, KeepsLock, JoinsLock
<1>3. CASE CreateAnswers(c)
  BY <1>3 DEF CreateAnswers, CreateDone, CreateFails, LeavesLock, Requeues
<1>4. CASE ProbeAnswers(c)
  BY <1>4 DEF ProbeAnswers, ProbeOk, ProbeFalse, ProbeRaises, ResetSlot, LeavesLock, KeepsLock
<1>5. CASE CloseReturns(c) \/ CloseNothing(c)
  BY <1>5 DEF CloseReturns, CloseNothing, CloseDone, ProbeResetDone, CleanupDone, FinishClose, ResetSlot, LeavesLock, KeepsLock
<1>6. CASE Deadline(c)
  BY <1>6 DEF Deadline, Timeout, TimeoutProbe, ResetSlot, LeavesLock, Cancelled, Interruptible
<1>7. CASE Uses(c) \/ Gets(c) \/ \E s \in Slot : CloseAll(c, s)
  BY <1>7 DEF Uses, Gets, CloseAll, Sweep, Acquire, UserDone, ExpireConn, Leave, Release, BeginClose, KeepsLock, JoinsLock, TypeOK
<1> QED
  BY <1>2, <1>3, <1>4, <1>5, <1>6, <1>7 DEF TaskStep, Proceed

\* The same for the permits and the tokens.
KeepsSem(c) == UNCHANGED semq /\ (pc'[c] \in Creating <=> pc[c] \in Creating)

JoinsSem(c) == pc[c] \notin Creating /\ pc'[c] = "sem" /\ semq' = Append(semq, c)

LeavesSem(c) == pc'[c] \notin Creating /\ LeaveSem(c)

LEMMA SemStep ==
    ASSUME TypeOK, NEW c \in Client, TaskStep(c)
    PROVE  KeepsSem(c) \/ JoinsSem(c) \/ LeavesSem(c)
<1> pc[c] # "idle" => at[c] \in Slot
  BY AtSlot
<1>1. ASSUME NEW l \in PC, Goto(c, l) \/ NewEvent(c, at[c], l) \/ (WakeWaiters(c, at[c]) /\ l = "resume")
      PROVE  pc'[c] = l
  BY <1>1 DEF Goto, NewEvent, WakeWaiters, TypeOK
<1> USE <1>1 DEF PC, Locking, Creating
<1>2. CASE Proceed(c) /\ ~CloseNothing(c)
  BY <1>2 DEF Proceed, CheckoutStart, SemGranted, ProbeCall, CloseCall, Resume, Hand, Skip, LeaveFailed, Leave,
              Release, StopIdleAndWait, queues, KeepsSem, JoinsSem, LeavesSem
<1>3. CASE CreateAnswers(c)
  BY <1>3 DEF CreateAnswers, CreateDone, CreateFails, KeepsSem, LeavesSem
<1>4. CASE ProbeAnswers(c)
  BY <1>4 DEF ProbeAnswers, ProbeOk, ProbeFalse, ProbeRaises, ResetSlot, LeavesSem, KeepsSem
<1>5. CASE CloseReturns(c) \/ CloseNothing(c)
  BY <1>5 DEF CloseReturns, CloseNothing, CloseDone, ProbeResetDone, CleanupDone, FinishClose, ResetSlot,
              LeavesSem, KeepsSem, JoinsSem
<1>6. CASE Deadline(c)
  BY <1>6 DEF Deadline, Timeout, TimeoutProbe, ResetSlot, LeavesSem, Cancelled, Interruptible
<1>7. CASE Uses(c) \/ Gets(c) \/ \E s \in Slot : CloseAll(c, s)
  BY <1>7 DEF Uses, Gets, CloseAll, Sweep, Acquire, UserDone, ExpireConn, Leave, Release, BeginClose, KeepsSem, TypeOK
<1> QED
  BY <1>2, <1>3, <1>4, <1>5, <1>6, <1>7 DEF TaskStep, Proceed

\* The reason and the connection of the task that moves.
LEMMA ReasonStep ==
    ASSUME TypeOK, ReasonsFit, NEW c \in Client, TaskStep(c)
    PROVE  why'[c] \in IF pc'[c] \in {"closeLock", "closing"} THEN Reason ELSE {None}
<1> pc[c] # "idle" => at[c] \in Slot
  BY AtSlot
<1>0. why[c] \in IF pc[c] \in {"closeLock", "closing"} THEN Reason ELSE {None}
  BY DEF ReasonsFit, InClose
<1>1. ASSUME NEW l \in PC, Goto(c, l) \/ NewEvent(c, at[c], l) \/ (WakeWaiters(c, at[c]) /\ l = "resume")
      PROVE  pc'[c] = l
  BY <1>1 DEF Goto, NewEvent, WakeWaiters, TypeOK
<1> USE <1>1 DEF PC, Locking, Creating
<1>2. CASE Proceed(c) /\ ~CloseNothing(c)
  BY <1>0, <1>2 DEF Proceed, CheckoutStart, SemGranted, ProbeCall, CloseCall, Resume, Hand, Skip, LeaveFailed, Leave,
              Release, StopIdleAndWait, TypeOK, Reason
<1>3. CASE CreateAnswers(c)
  BY <1>0, <1>3 DEF CreateAnswers, CreateDone, CreateFails
<1>4. CASE ProbeAnswers(c)
  BY <1>0, <1>4 DEF ProbeAnswers, ProbeOk, ProbeFalse, ProbeRaises, ResetSlot
<1>5. CASE CloseReturns(c) \/ CloseNothing(c)
  BY <1>0, <1>5 DEF CloseReturns, CloseNothing, CloseDone, ProbeResetDone, CleanupDone, FinishClose, ResetSlot,
              Release, TypeOK
<1>6. CASE Deadline(c)
  BY <1>0, <1>6 DEF Deadline, Timeout, TimeoutProbe, ResetSlot, Cancelled, TypeOK
<1>7. CASE Uses(c) \/ Gets(c) \/ \E s \in Slot : CloseAll(c, s)
  BY <1>0, <1>7 DEF Reason, Uses, Gets, CloseAll, Sweep, Acquire, UserDone, ExpireConn, Leave, Release, BeginClose, TypeOK
<1> QED
  BY <1>2, <1>3, <1>4, <1>5, <1>6, <1>7 DEF TaskStep, Proceed

\* Where a task that opens a slot comes from.
LEMMA OpeningStep ==
    ASSUME TypeOK, NEW c \in Client, TaskStep(c), pc'[c] \in Admitted
    PROVE  /\ UNCHANGED <<semq, at>>
           /\ \/ pc[c] \in Admitted
              \/ pc[c] = "sem" /\ HasPermit(c) /\ UNCHANGED slot /\ ~(slot[at[c]].connection # None /\ slot[at[c]].ready)
           /\ pc'[c] = "create" => pc[c] = "sem" /\ slot[at[c]].connection = None
           /\ pc'[c] = "probe" => UNCHANGED slot /\ victim'[c] = slot[at[c]].connection
<1>1. ASSUME NEW l \in PC, Goto(c, l) \/ NewEvent(c, at[c], l) \/ (WakeWaiters(c, at[c]) /\ l = "resume")
      PROVE  pc'[c] = l
  BY <1>1 DEF Goto, NewEvent, WakeWaiters, TypeOK
<1> USE <1>1 DEF PC, Locking, Creating, Admitted
<1>2. CASE Proceed(c) /\ ~CloseNothing(c)
  BY <1>2 DEF Proceed, CheckoutStart, SemGranted, ProbeCall, CloseCall, Resume, Hand, Skip, LeaveFailed, Leave,
              StopIdleAndWait, queues, TypeOK
<1>3. CASE CreateAnswers(c)
  BY <1>3 DEF CreateAnswers, CreateDone, CreateFails
<1>4. CASE ProbeAnswers(c)
  BY <1>4 DEF ProbeAnswers, ProbeOk, ProbeFalse, ProbeRaises, ResetSlot
<1>5. CASE CloseReturns(c) \/ CloseNothing(c)
  BY <1>5 DEF CloseReturns, CloseNothing, CloseDone, ProbeResetDone, CleanupDone, FinishClose, ResetSlot
<1>6. CASE Deadline(c)
  BY <1>6 DEF Deadline, Timeout, TimeoutProbe, ResetSlot, Cancelled
<1>7. CASE Uses(c) \/ Gets(c) \/ \E s \in Slot : CloseAll(c, s)
  BY <1>7 DEF Uses, Gets, CloseAll, Sweep, Acquire, UserDone, ExpireConn, Leave, BeginClose
<1> QED
  BY <1>2, <1>3, <1>4, <1>5, <1>6, <1>7 DEF TaskStep, Proceed

-----------------------------------------------------------------------------
(* What a step changes: the slots                                          *)

\* The connection is stored, its clock starts.
Created(r, k) == [r EXCEPT !.connection = k, !.age = IF LifespanEnabled THEN "within" ELSE @]

\* What checkin() makes of the fields of a slot, or of an empty one.
LeftBy(c, q) ==
    LET s == at[c] IN
    \/ q = CheckedIn(slot[s], borrowers[s] = {c}, got[c])
    \/ q = CheckedIn(EmptySlot, borrowers[s] = {c}, got[c])

FilledBy(c, q) ==
    /\ pc[c] = "create" /\ OwnsLock(c, at[c])
    /\ \E k \in Conn : /\ Fresh(k)
                       /\ \/ q = Created(slot[at[c]], k)
                          \/ q = [Created(slot[at[c]], k) EXCEPT !.idle = "none"]

\* All that a step of c can make of its slot.
Becomes(c, q) ==
    LET r == slot[at[c]] IN
    \/ q = r
    \/ q = [r EXCEPT !.idle = "none"]
    \/ q = [r EXCEPT !.shouldClose = TRUE]
    \/ q = EmptySlot
    \/ q = [r EXCEPT !.ready = TRUE, !.idle = "none"] /\ pc[c] = "probe"
    \/ LeftBy(c, q) /\ pc'[c] = "idle"
    \/ FilledBy(c, q)

\* A step of c touches no other slot.
LEMMA OtherSlots ==
    ASSUME TypeOK, NEW c \in Client, TaskStep(c)
    PROVE  /\ \A t \in Slot : t # at[c] => slot'[t] = slot[t]
           /\ at[c] \in Slot => Becomes(c, slot'[at[c]])
<1> DEFINE s == at[c]
           Goal == /\ \A t \in Slot : t # s => slot'[t] = slot[t]
                   /\ s \in Slot => Becomes(c, slot'[s])
<1>0. pc[c] # "idle" => s \in Slot
  BY AtSlot
<1>1. ASSUME NEW q, slot' = [slot EXCEPT ![s] = q], Becomes(c, q) PROVE Goal
  BY <1>1 DEF TypeOK
<1>2. ASSUME \/ UNCHANGED slot
             \/ slot' = [slot EXCEPT ![s].idle = "none"]
             \/ slot' = [slot EXCEPT ![s].shouldClose = TRUE]
             \/ slot' = [slot EXCEPT ![s] = EmptySlot]
      PROVE  Goal
  <2>1. CASE UNCHANGED slot
    BY <2>1 DEF Becomes
  <2>2. ASSUME NEW q \in {[slot[s] EXCEPT !.idle = "none"], [slot[s] EXCEPT !.shouldClose = TRUE], EmptySlot},
               slot' = [slot EXCEPT ![s] = q]
        PROVE  Goal
    BY <1>1, <2>2 DEF Becomes
  <2> QED
    BY <1>2, <2>1, <2>2
<1>3. ASSUME Leave(c) PROVE Goal
  <2>1. slot' = [slot EXCEPT ![s] = CheckedIn(slot[s], borrowers[s] = {c}, got[c])] /\ pc'[c] = "idle"
    BY <1>3 DEF Leave, Goto, TypeOK
  <2> QED
    BY <1>1, <2>1 DEF Becomes, LeftBy
<1>4. ASSUME FinishClose(c) PROVE Goal
  <2>1. CASE why[c] = "expire"
    <3>1. /\ slot' = [slot EXCEPT ![s] = CheckedIn(EmptySlot, borrowers[s] = {c}, got[c])]
          /\ pc'[c] = "idle"
      BY <1>4, <2>1 DEF FinishClose, NewEvent, TypeOK
    <3> QED
      BY <1>1, <3>1 DEF Becomes, LeftBy
  <2> QED
    BY <1>2, <1>4, <2>1 DEF FinishClose, ResetSlot
<1>5. ASSUME NEW k \in Conn, CreateDone(c, k) PROVE Goal
  <2>1. PICK q \in {Created(slot[s], k), [Created(slot[s], k) EXCEPT !.idle = "none"]} :
          slot' = [slot EXCEPT ![s] = q]
    BY <1>5 DEF CreateDone, Created
  <2>2. FilledBy(c, q)
    BY <1>5, <2>1 DEF CreateDone, FilledBy
  <2> QED
    BY <1>1, <2>1, <2>2 DEF Becomes
<1>6. ASSUME ProbeOk(c) PROVE Goal
  <2>1. slot' = [slot EXCEPT ![s] = [slot[s] EXCEPT !.ready = TRUE, !.idle = "none"]] /\ pc[c] = "probe"
    BY <1>0, <1>6 DEF ProbeOk, TypeOK
  <2> QED
    BY <1>1, <2>1 DEF Becomes
<1> SUFFICES Goal
  OBVIOUS
<1> HIDE DEF Goal
<1>7. CASE Proceed(c) /\ ~CloseNothing(c)
  BY <1>2, <1>3, <1>7 DEF Proceed, CheckoutStart, SemGranted, ProbeCall, CloseCall, Resume, Hand, Skip,
                          LeaveFailed, StopIdleAndWait
<1>8. CASE CreateAnswers(c) \/ ProbeAnswers(c)
  BY <1>2, <1>5, <1>6, <1>8 DEF CreateAnswers, CreateFails, ProbeAnswers, ProbeFalse, ProbeRaises, ResetSlot
<1>9. CASE CloseReturns(c) \/ CloseNothing(c)
  BY <1>2, <1>4, <1>9 DEF CloseReturns, CloseNothing, CloseDone, ProbeResetDone, CleanupDone, ResetSlot
<1>10. CASE Deadline(c)
  BY <1>2, <1>10 DEF Deadline, Timeout, TimeoutProbe, ResetSlot
<1>11. CASE Uses(c) \/ Gets(c) \/ \E t \in Slot : CloseAll(c, t)
  BY <1>2, <1>3, <1>11 DEF Uses, Gets, CloseAll, Sweep, Acquire, UserDone, ExpireConn, BeginClose
<1> QED
  BY <1>7, <1>8, <1>9, <1>10, <1>11 DEF TaskStep, Proceed

\* A slot keeps its connection, loses it, or is given one that nothing refers to.
KeepsOrDrops(t) == slot'[t].connection \in {slot[t].connection, None}

Fills(c) ==
    /\ pc[c] = "create" /\ OwnsLock(c, at[c])
    /\ \E k \in Conn : Fresh(k) /\ slot'[at[c]].connection = k

LEMMA FieldStep ==
    ASSUME TypeOK, NEW c \in Client, at[c] \in Slot, Becomes(c, slot'[at[c]])
    PROVE  LET r == slot[at[c]]
               q == slot'[at[c]]
           IN  /\ KeepsOrDrops(at[c]) \/ Fills(c)
               \* only the last borrower that leaves starts the idle clock
               /\ q.idle \in {r.idle, "none"} \/ (borrowers[at[c]] = {c} /\ pc'[c] = "idle")
               \* only a reset takes the mark away, or the readiness
               /\ q.connection = None \/ (r.shouldClose => q.shouldClose)
               /\ q.connection = None \/ (r.ready => q.ready)
               /\ q.ready => r.ready \/ pc[c] = "probe"
<1> DEFINE r == slot[at[c]]
           q == slot'[at[c]]
<1>1. r \in SlotState
  BY DEF TypeOK
<1>2. CASE q = r \/ q = [r EXCEPT !.idle = "none"] \/ q = [r EXCEPT !.shouldClose = TRUE]
  BY <1>1, <1>2 DEF SlotState, KeepsOrDrops
<1>3. CASE q = EmptySlot
  BY <1>3 DEF EmptySlot, KeepsOrDrops
<1>4. CASE q = [r EXCEPT !.ready = TRUE, !.idle = "none"] /\ pc[c] = "probe"
  BY <1>1, <1>4 DEF SlotState, KeepsOrDrops
<1>5. CASE LeftBy(c, q) /\ pc'[c] = "idle"
  <2>1. EmptySlot.connection = None /\ ~EmptySlot.ready /\ EmptySlot.idle = "none"
    BY DEF EmptySlot
  <2> DEFINE alone == borrowers[at[c]] = {c}
  <2>2. ASSUME NEW z \in {r, EmptySlot}, q = CheckedIn(z, alone, got[c])
        PROVE  /\ q.connection = z.connection /\ q.ready = z.ready
               /\ q.idle = z.idle \/ alone
               /\ z.shouldClose => q.shouldClose
    <3>1. z \in SlotState
      BY <1>1, EmptySlotType
    <3> QED
      BY <2>2, <3>1 DEF CheckedIn, SlotState
  <2> HIDE DEF alone
  <2>3. q = CheckedIn(r, alone, got[c]) \/ q = CheckedIn(EmptySlot, alone, got[c])
    BY <1>5 DEF LeftBy, alone
  <2> HIDE DEF q, r
  <2>4. CASE q = CheckedIn(r, alone, got[c])
    BY <1>5, <2>2, <2>4 DEF KeepsOrDrops, q, r, alone
  <2>5. CASE q = CheckedIn(EmptySlot, alone, got[c])
    BY <1>5, <2>1, <2>2, <2>5 DEF KeepsOrDrops, q, r, alone
  <2> QED
    BY <2>3, <2>4, <2>5
<1>6. CASE FilledBy(c, q)
  <2>1. PICK k \in Conn : Fresh(k) /\ (q = Created(r, k) \/ q = [Created(r, k) EXCEPT !.idle = "none"])
    BY <1>6 DEF FilledBy
  <2>2. q.connection = k /\ q.idle \in {r.idle, "none"} /\ q.shouldClose = r.shouldClose /\ q.ready = r.ready
    BY <1>1, <2>1 DEF Created, SlotState
  <2> QED
    BY <1>6, <2>1, <2>2 DEF FilledBy, Fills
<1> QED
  BY <1>2, <1>3, <1>4, <1>5, <1>6 DEF Becomes

\* The connection of the task that moves is the one it had, none, or its slot's.
LEMMA GotStep ==
    ASSUME TypeOK, ReasonsFit, GotWhere, NEW c \in Client, TaskStep(c)
    PROVE  /\ \/ got'[c] \in {got[c], None} 
              \/ /\ pc[c] = "resume" /\ pc'[c] = "acquired"
                 /\ got'[c] = slot[at[c]].connection /\ UNCHANGED <<slot, at>>
           /\ got'[c] # None => \/ pc'[c] \in {"acquired", "using"}
                                \/ pc'[c] \in {"closeLock", "closing"} /\ why'[c] = "expire"
<1> pc[c] # "idle" => at[c] \in Slot
  BY AtSlot
<1>0. got[c] # None => \/ pc[c] \in {"acquired", "using"}
                       \/ pc[c] \in {"closeLock", "closing"} /\ why[c] = "expire"
  BY DEF GotWhere, InClose
<1>1. ASSUME NEW l \in PC, Goto(c, l) \/ NewEvent(c, at[c], l) \/ (WakeWaiters(c, at[c]) /\ l = "resume")
      PROVE  pc'[c] = l
  BY <1>1 DEF Goto, NewEvent, WakeWaiters, TypeOK
<1> USE <1>1 DEF PC, Locking, Creating
<1>2. CASE Proceed(c) /\ ~CloseNothing(c)
  BY <1>0, <1>2 DEF Proceed, CheckoutStart, SemGranted, ProbeCall, CloseCall, Resume, Hand, Skip, LeaveFailed, Leave,
              Release, StopIdleAndWait, TypeOK, Reason
<1>3. CASE CreateAnswers(c)
  BY <1>0, <1>3 DEF CreateAnswers, CreateDone, CreateFails
<1>4. CASE ProbeAnswers(c)
  BY <1>0, <1>4 DEF ProbeAnswers, ProbeOk, ProbeFalse, ProbeRaises, ResetSlot
<1>5. CASE CloseReturns(c) \/ CloseNothing(c)
  BY <1>0, <1>5 DEF CloseReturns, CloseNothing, CloseDone, ProbeResetDone, CleanupDone, FinishClose, ResetSlot,
              Release, TypeOK
<1>6. CASE Deadline(c)
  BY <1>0, <1>6 DEF Deadline, Timeout, TimeoutProbe, ResetSlot, Cancelled, Interruptible, TypeOK
<1>7. CASE Uses(c) \/ Gets(c) \/ \E s \in Slot : CloseAll(c, s)
  BY <1>0, <1>7 DEF Reason, Uses, Gets, CloseAll, Sweep, Acquire, UserDone, ExpireConn, Leave, Release, BeginClose, TypeOK
<1> QED
  BY <1>2, <1>3, <1>4, <1>5, <1>6, <1>7 DEF TaskStep, Proceed

\* A task that has a connection stays in its slot.
LEMMA AtStep ==
    ASSUME TypeOK, Identified, NEW c \in Client, TaskStep(c)
    PROVE  \/ at'[c] = at[c]
           \/ pc[c] = "idle" /\ got'[c] = None
           \/ pc'[c] = "idle" /\ at'[c] = None /\ got'[c] = None
<1>1. ASSUME NEW s \in Slot, pc[c] = "using", slot[s].connection = got[c],
             BeginClose(c, s, "expire")
      PROVE  at'[c] = at[c]
  <2>1. got[c] # None
    BY <1>1 DEF BeginClose
  <2> QED
    BY <1>1, <2>1 DEF BeginClose, Identified, Home, TypeOK
<1>2. CASE Proceed(c) /\ ~CloseNothing(c)
  BY <1>2 DEF Proceed, CheckoutStart, SemGranted, ProbeCall, CloseCall, Resume, Hand, Skip, LeaveFailed, Leave,
              Release, Goto, TypeOK
<1>3. CASE CreateAnswers(c) \/ ProbeAnswers(c) \/ Deadline(c)
  BY <1>3 DEF CreateAnswers, CreateDone, CreateFails, ProbeAnswers, ProbeOk, ProbeFalse, ProbeRaises,
              Deadline, Timeout, TimeoutProbe
<1>4. CASE CloseReturns(c) \/ CloseNothing(c)
  BY <1>4 DEF CloseReturns, CloseNothing, CloseDone, ProbeResetDone, CleanupDone, FinishClose, ResetSlot,
              Release, NewEvent, TypeOK
<1>5. CASE Uses(c) \/ Gets(c) \/ \E s \in Slot : CloseAll(c, s)
  <2>1. ASSUME pc[c] = "idle" PROVE got[c] = None
    BY <2>1 DEF Identified, GotWhere, InClose
  <2> QED
    BY <1>1, <1>5, <2>1 DEF Uses, Gets, CloseAll, Sweep, Acquire, UserDone, ExpireConn, Leave, Release, BeginClose, Goto, TypeOK
<1> QED
  BY <1>2, <1>3, <1>4, <1>5 DEF TaskStep, Proceed

LEMMA TimeStepSlots ==
    ASSUME TypeOK, TimeStep
    PROVE  /\ \A t \in Slot : slot'[t].connection = slot[t].connection
           /\ UNCHANGED <<queues, tasks, transport>>
<1>1. PICK s \in Slot : IdlePasses(s) \/ AgePasses(s)
  BY DEF TimeStep
<1>2. /\ \/ slot' = [slot EXCEPT ![s].idle = "over"]
         \/ slot' = [slot EXCEPT ![s].age = "over"]
      /\ UNCHANGED <<queues, tasks, transport>>
  BY <1>1 DEF IdlePasses, AgePasses
<1>3. slot[s] \in SlotState
  BY DEF TypeOK
<1>4. /\ [slot[s] EXCEPT !.idle = "over"].connection = slot[s].connection
      /\ [slot[s] EXCEPT !.age = "over"].connection = slot[s].connection
  BY <1>3 DEF SlotState
<1>5. \A t \in Slot : slot'[t].connection = slot[t].connection
  BY <1>2, <1>4 DEF TypeOK
<1> QED
  BY <1>2, <1>5

LEMMA IdentifiedStep == TypeOK /\ Identified /\ [Next]_vars => Identified'
<1> SUFFICES ASSUME TypeOK, Identified, [Next]_vars PROVE Identified'
  OBVIOUS
<1>1. CASE TimeStep \/ UNCHANGED vars
  <2>1. /\ \A t \in Slot : slot'[t].connection = slot[t].connection
        /\ UNCHANGED <<queues, tasks>>
    BY <1>1, TimeStepSlots DEF vars
  <2> QED
    BY <2>1 DEF Identified, ReasonsFit, GotWhere, SlotsDiffer, Home, InClose, tasks
<1>2. ASSUME NEW c \in Client, TaskStep(c) PROVE Identified'
  <2>1. OthersStay(c)
    BY <1>2, OthersStep
  <2>2. ReasonsFit'
    BY <1>2, <2>1, ReasonStep DEF Identified, ReasonsFit, InClose, OthersStay
  <2>3. GotWhere'
    BY <1>2, <2>1, GotStep DEF Identified, GotWhere, InClose, OthersStay
  <2>4. \A t \in Slot : \/ KeepsOrDrops(t)
                        \/ /\ t = at[c]
                           /\ \E k \in Conn : Fresh(k) /\ slot'[t].connection = k
    BY <1>2, OtherSlots, FieldStep DEF KeepsOrDrops, Fills
  <2>5. SlotsDiffer'
    BY <1>2, <2>4 DEF Identified, SlotsDiffer, KeepsOrDrops, Fresh
  <2>6. ASSUME NEW d \in Client, NEW s \in Slot, got'[d] # None, slot'[s].connection = got'[d]
        PROVE  at'[d] = s
    <3>1. CASE got'[d] = got[d] /\ at'[d] = at[d]
      BY <2>4, <2>6, <3>1 DEF Identified, Home, KeepsOrDrops, Fresh
    <3>2. CASE d # c
      BY <2>1, <3>1, <3>2 DEF OthersStay
    <3>3. CASE d = c /\ got'[c] \in {got[c], None}
      BY <1>2, <2>6, <3>1, <3>3, AtStep
    <3>4. CASE d = c /\ got'[c] = slot[at[c]].connection /\ UNCHANGED <<slot, at>> /\ pc[c] = "resume"
      BY <2>6, <3>4, AtSlot DEF Identified, SlotsDiffer
    <3> QED
      BY <1>2, <3>2, <3>3, <3>4, GotStep DEF Identified
  <2> QED
    BY <2>2, <2>3, <2>5, <2>6 DEF Identified, Home
<1> QED
  BY <1>1, <1>2, NextSteps, Zenon

-----------------------------------------------------------------------------
(* What is taken is given back                                             *)

KeepsToken(c) ==
    /\ UNCHANGED borrowers
    /\ HoldsToken(c)' <=> HoldsToken(c)
    /\ HoldsToken(c) => at'[c] = at[c]

TakesToken(c) ==
    /\ ~HoldsToken(c) /\ HoldsToken(c)'
    /\ at'[c] \in Slot /\ Available(at'[c])
    /\ borrowers' = [borrowers EXCEPT ![at'[c]] = @ \cup {c}]

GivesToken(c) ==
    /\ ~HoldsToken(c)' /\ at[c] \in Slot
    /\ borrowers' = [borrowers EXCEPT ![at[c]] = @ \ {c}]

LEMMA TokenStep ==
    ASSUME TypeOK, Identified, NEW c \in Client, TaskStep(c)
    PROVE  KeepsToken(c) \/ TakesToken(c) \/ GivesToken(c)
<1> pc[c] # "idle" => at[c] \in Slot
  BY AtSlot
<1>0. why[c] \in IF pc[c] \in {"closeLock", "closing"} THEN Reason ELSE {None}
  BY DEF Identified, ReasonsFit, InClose
<1>1. ASSUME NEW l \in PC, Goto(c, l) \/ NewEvent(c, at[c], l) \/ (WakeWaiters(c, at[c]) /\ l = "resume")
      PROVE  pc'[c] = l
  BY <1>1 DEF Goto, NewEvent, WakeWaiters, TypeOK
<1> USE <1>1 DEF PC, Locking, Creating, HoldsToken
<1>2. CASE Proceed(c) /\ ~CloseNothing(c)
  BY <1>2 DEF Proceed, CheckoutStart, SemGranted, ProbeCall, CloseCall, Resume, Hand, Skip, LeaveFailed, Leave,
              Release, StopIdleAndWait, queues, KeepsToken, GivesToken, TypeOK
<1>3. CASE CreateAnswers(c) \/ ProbeAnswers(c)
  BY <1>3 DEF CreateAnswers, CreateDone, CreateFails, ProbeAnswers, ProbeOk, ProbeFalse, ProbeRaises, ResetSlot, KeepsToken
<1>5. CASE CloseReturns(c) \/ CloseNothing(c)
  BY <1>0, <1>5 DEF CloseReturns, CloseNothing, CloseDone, ProbeResetDone, CleanupDone, FinishClose, ResetSlot,
              Release, KeepsToken, GivesToken, TypeOK
<1>6. CASE Deadline(c)
  BY <1>6 DEF Deadline, Timeout, TimeoutProbe, ResetSlot, KeepsToken, Cancelled, Interruptible
<1>7. CASE Uses(c)
  <2>1. ASSUME NEW s \in Slot, pc[c] = "using", slot[s].connection = got[c], BeginClose(c, s, "expire")
        PROVE  KeepsToken(c)
    <3>1. got[c] # None /\ at[c] = s
      BY <2>1 DEF BeginClose, Identified, Home
    <3> QED
      BY <2>1, <3>1 DEF BeginClose, KeepsToken, TypeOK
  <2> QED
    BY <1>7, <2>1 DEF Uses, UserDone, ExpireConn, Leave, Release, GivesToken, TypeOK
<1>8. CASE Gets(c) \/ \E s \in Slot : CloseAll(c, s)
  BY <1>8 DEF Gets, CloseAll, Sweep, Acquire, BeginClose, KeepsToken, TakesToken, TypeOK
<1> QED
  BY <1>2, <1>3, <1>5, <1>6, <1>7, <1>8 DEF TaskStep, Proceed

\* A task is in a queue once.
NoDuplicates == IsInjective(semq) /\ \A s \in Slot : IsInjective(lockq[s])

\* The inductive invariant: a task is in a lock's queue, in the semaphore's queue and
\* among the borrowers of a slot exactly where it is suspended at a point that needs it.
Accounted == Identified /\ NoDuplicates /\ ResourcesAccounted

LEMMA LocksAccounted ==
    ASSUME TypeOK, Accounted, NEW c \in Client, TaskStep(c), NEW s \in Slot
    PROVE  /\ IsInjective(lockq'[s])
           /\ ToSet(lockq'[s]) = {d \in Client : pc'[d] \in Locking /\ at'[d] = s}
<1>1. /\ IsInjective(lockq[s]) /\ lockq[s] \in Seq(Client)
      /\ ToSet(lockq[s]) = {d \in Client : pc[d] \in Locking /\ at[d] = s}
  BY DEF TypeOK, Accounted, NoDuplicates, ResourcesAccounted
<1>2. \A d \in Client \ {c} : (pc'[d] \in Locking <=> pc[d] \in Locking) /\ at'[d] = at[d]
  BY OthersStep DEF OthersStay, Locking
<1>3. CASE KeepsLock(c)
  BY <1>1, <1>2, <1>3 DEF KeepsLock
<1>4. CASE JoinsLock(c)
  <2>1. CASE at'[c] = s
    <3>1. lockq'[s] = Append(lockq[s], c) /\ c \notin ToSet(lockq[s])
      BY <1>1, <1>4, <2>1 DEF JoinsLock, JoinLock, TypeOK
    <3>2. ToSet(lockq'[s]) = ToSet(lockq[s]) \cup {c} /\ IsInjective(lockq'[s])
      BY <1>1, <3>1, JoinQueue
    <3> QED
      BY <1>1, <1>2, <1>4, <2>1, <3>2 DEF JoinsLock
  <2>2. CASE at'[c] # s
    BY <1>1, <1>2, <1>4, <2>2 DEF JoinsLock, JoinLock, TypeOK
  <2> QED
    BY <2>1, <2>2
<1>5. CASE LeavesLock(c)
  <2>1. CASE at[c] = s
    <3>1. lockq'[s] = Without(lockq[s], c)
      BY <1>5, <2>1 DEF LeavesLock, LeaveLock, TypeOK
    <3>2. ToSet(lockq'[s]) = ToSet(lockq[s]) \ {c} /\ IsInjective(lockq'[s])
      BY <1>1, <3>1, LeaveQueue
    <3> QED
      BY <1>1, <1>2, <1>5, <3>2 DEF LeavesLock
  <2>2. CASE at[c] # s
    BY <1>1, <1>2, <1>5, <2>2 DEF LeavesLock, LeaveLock, TypeOK
  <2> QED
    BY <2>1, <2>2
<1>6. CASE Requeues(c)
  <2>1. CASE at[c] = s
    <3> DEFINE q == Without(lockq[s], c)
    <3>1. lockq'[s] = Append(q, c)
      BY <1>6, <2>1 DEF Requeues, TypeOK
    <3>2. q \in Seq(Client) /\ ToSet(q) = ToSet(lockq[s]) \ {c} /\ IsInjective(q)
      BY <1>1, LeaveQueue
    <3> HIDE DEF q
    <3>3. ToSet(lockq'[s]) = ToSet(q) \cup {c} /\ IsInjective(lockq'[s])
      BY <3>1, <3>2, JoinQueue
    <3> QED
      BY <1>1, <1>2, <1>6, <2>1, <3>2, <3>3 DEF Requeues, Locking
  <2>2. CASE at[c] # s
    BY <1>1, <1>2, <1>6, <2>2 DEF Requeues, TypeOK
  <2> QED
    BY <2>1, <2>2
<1> QED
  BY <1>3, <1>4, <1>5, <1>6, LockStep

LEMMA PermitsAccounted ==
    ASSUME TypeOK, Accounted, NEW c \in Client, TaskStep(c)
    PROVE  /\ IsInjective(semq')
           /\ ToSet(semq') = {d \in Client : pc'[d] \in Creating}
<1>1. /\ IsInjective(semq) /\ semq \in Seq(Client)
      /\ ToSet(semq) = {d \in Client : pc[d] \in Creating}
  BY DEF TypeOK, Accounted, NoDuplicates, ResourcesAccounted
<1>2. \A d \in Client \ {c} : pc'[d] \in Creating <=> pc[d] \in Creating
  BY OthersStep DEF OthersStay, Creating
<1>3. CASE KeepsSem(c)
  BY <1>1, <1>2, <1>3 DEF KeepsSem
<1>4. CASE JoinsSem(c)
  <2>1. semq' = Append(semq, c) /\ c \notin ToSet(semq)
    BY <1>1, <1>4 DEF JoinsSem
  <2>2. ToSet(semq') = ToSet(semq) \cup {c} /\ IsInjective(semq')
    BY <1>1, <2>1, JoinQueue
  <2> QED
    BY <1>1, <1>2, <1>4, <2>2 DEF JoinsSem, Creating
<1>5. CASE LeavesSem(c)
  <2>1. ToSet(semq') = ToSet(semq) \ {c} /\ IsInjective(semq')
    BY <1>1, <1>5, LeaveQueue DEF LeavesSem, LeaveSem
  <2> QED
    BY <1>1, <1>2, <1>5, <2>1 DEF LeavesSem
<1> QED
  BY <1>3, <1>4, <1>5, SemStep

LEMMA BorrowersAccounted ==
    ASSUME TypeOK, Accounted, NEW c \in Client, TaskStep(c), NEW s \in Slot
    PROVE  borrowers'[s] = {d \in Client : HoldsToken(d)' /\ at'[d] = s}
<1>1. borrowers[s] = {d \in Client : HoldsToken(d) /\ at[d] = s}
  BY DEF Accounted, ResourcesAccounted, TokensAccounted
<1>2. \A d \in Client \ {c} : (HoldsToken(d)' <=> HoldsToken(d)) /\ at'[d] = at[d]
  BY OthersStep DEF OthersStay, HoldsToken
<1> HIDE DEF HoldsToken
<1>3. CASE KeepsToken(c)
  BY <1>1, <1>2, <1>3 DEF KeepsToken
<1>4. CASE TakesToken(c)
  BY <1>1, <1>2, <1>4 DEF TakesToken, TypeOK
<1>5. CASE GivesToken(c)
  BY <1>1, <1>2, <1>5 DEF GivesToken, TypeOK
<1> QED
  BY <1>3, <1>4, <1>5, TokenStep DEF Accounted

LEMMA AccountedStep == TypeOK /\ Accounted /\ [Next]_vars => Accounted'
<1> SUFFICES ASSUME TypeOK, Accounted, [Next]_vars PROVE Accounted'
  OBVIOUS
<1>1. Identified'
  BY IdentifiedStep DEF Accounted
<1>2. CASE TimeStep \/ UNCHANGED vars
  <2>1. UNCHANGED <<queues, tasks>>
    BY <1>2, TimeStepSlots DEF vars
  <2> QED
    BY <1>1, <2>1 DEF Accounted, NoDuplicates, ResourcesAccounted, TokensAccounted, HoldsToken, queues, tasks
<1>3. ASSUME NEW c \in Client, TaskStep(c) PROVE Accounted'
  BY <1>1, <1>3, LocksAccounted, PermitsAccounted, BorrowersAccounted
     DEF Accounted, NoDuplicates, ResourcesAccounted, TokensAccounted
<1> QED
  BY <1>2, <1>3, NextSteps, Zenon

LEMMA InitAccounted == Init => Accounted
<1> SUFFICES ASSUME Init PROVE Accounted
  OBVIOUS
<1>1. Identified
  BY DEF Init, Identified, ReasonsFit, GotWhere, SlotsDiffer, Home, InClose, EmptySlot
<1>2. IsInjective(<< >>) /\ ToSet(<< >>) = {}
  BY DEF IsInjective, ToSet
<1>3. NoDuplicates
  BY <1>2 DEF Init, NoDuplicates
<1>4. ResourcesAccounted
  BY <1>2 DEF Init, ResourcesAccounted, TokensAccounted, HoldsToken, Locking, Creating
<1> QED
  BY <1>1, <1>3, <1>4 DEF Accounted

LEMMA AccountedAlways == Spec => []Accounted
<1>1. TypeOK /\ Accounted /\ [Next]_vars => Accounted'
  BY AccountedStep
<1> QED
  BY <1>1, InitAccounted, TypeCorrect, PTL DEF Spec

\* Whichever way a task leaves the pool, by a return, an exception of the connector, a
\* deadline or a cancellation, the tokens, locks and permits in use are exactly those of
\* the tasks that are suspended where these are needed.
THEOREM NothingIsKept == Spec => []ResourcesAccounted
<1>1. Accounted => ResourcesAccounted
  BY DEF Accounted
<1> QED
  BY <1>1, AccountedAlways, PTL

-----------------------------------------------------------------------------
(* The idle clock                                                          *)

\* Who comes to wait for a connection, or to have one, has stopped the clock.
LEMMA BusyStep ==
    ASSUME TypeOK, Identified, NEW c \in Client, TaskStep(c), Busy(c)'
    PROVE  /\ at'[c] = at[c] /\ at[c] \in Slot /\ pc'[c] # "idle"
           /\ Busy(c) \/ slot'[at[c]].idle = "none"
<1>0. got[c] # None => \/ pc[c] \in {"acquired", "using"}
                       \/ pc[c] \in {"closeLock", "closing"} /\ why[c] = "expire"
  BY DEF Identified, GotWhere, InClose
<1>1. pc'[c] \in {"wait", "orphan", "resume", "using", "acquired"} /\ (pc'[c] = "acquired" => got'[c] # None)
  BY DEF Busy
<1>2. ASSUME NEW l \in PC, Goto(c, l) \/ NewEvent(c, at[c], l) \/ (WakeWaiters(c, at[c]) /\ l = "resume")
      PROVE  pc'[c] = l
  BY <1>2 DEF Goto, NewEvent, WakeWaiters, TypeOK
<1>3. /\ pc[c] # "idle" => at[c] \in Slot /\ slot[at[c]] \in SlotState
      /\ pc[c] = "idle" <=> at[c] = None
  BY AtSlot DEF TypeOK
<1> DEFINE Goal == /\ at'[c] = at[c] /\ pc[c] # "idle"
                   /\ \/ pc[c] \in {"wait", "orphan", "resume", "using"}
                      \/ pc[c] = "acquired" /\ got[c] # None
                      \/ slot'[at[c]].idle = "none"
<1> SUFFICES Goal
  BY <1>1, <1>3 DEF Busy
<1> USE <1>2 DEF PC, Locking, Creating
<1>4. CASE Proceed(c) /\ ~CloseNothing(c)
  <2>1. ASSUME StopIdleAndWait(c, at[c]), pc[c] # "idle", UNCHANGED at PROVE Goal
    BY <1>3, <2>1 DEF StopIdleAndWait, TypeOK, SlotState
  <2> QED
    BY <1>1, <1>4, <2>1 DEF Proceed, CheckoutStart, SemGranted, ProbeCall, CloseCall, Resume, Hand, Skip, LeaveFailed, Leave
<1>5. CASE CreateAnswers(c)
  <2>1. ASSUME NEW k \in Conn, CreateDone(c, k) PROVE Goal
    <3> DEFINE r == [slot[at[c]] EXCEPT !.connection = k,
                                    !.age = IF LifespanEnabled THEN "within" ELSE @]
    <3>1. [r EXCEPT !.idle = "none"].idle = "none"
      BY <1>3, <2>1 DEF CreateDone, SlotState
    <3>2. slot' = [slot EXCEPT ![at[c]] = [r EXCEPT !.idle = "none"]]
      BY <1>1, <2>1 DEF CreateDone
    <3> HIDE DEF r
    <3> QED
      BY <1>3, <2>1, <3>1, <3>2 DEF CreateDone, TypeOK
  <2> QED
    BY <1>1, <1>5, <2>1 DEF CreateAnswers, CreateFails
<1>6. CASE ProbeAnswers(c)
  <2>1. CASE ProbeOk(c)
    BY <1>3, <2>1 DEF ProbeOk, TypeOK, SlotState
  <2> QED
    BY <1>1, <1>6, <2>1 DEF ProbeAnswers, ProbeFalse, ProbeRaises, ResetSlot
<1>7. CASE CloseReturns(c) \/ CloseNothing(c)
  BY <1>1, <1>7 DEF CloseReturns, CloseNothing, CloseDone, ProbeResetDone, CleanupDone, FinishClose, ResetSlot
<1>8. CASE Deadline(c)
  BY <1>0, <1>1, <1>8 DEF Deadline, Timeout, TimeoutProbe, ResetSlot, Cancelled, Interruptible
<1>9. CASE Uses(c) \/ Gets(c) \/ \E s \in Slot : CloseAll(c, s)
  BY <1>1, <1>9 DEF Uses, Gets, CloseAll, Sweep, Acquire, UserDone, ExpireConn, Leave, BeginClose
<1> QED
  BY <1>4, <1>5, <1>6, <1>7, <1>8, <1>9 DEF TaskStep, Proceed

LEMMA IdleStep == TypeOK /\ Accounted /\ BusyIsNotIdle /\ [Next]_vars => BusyIsNotIdle'
<1> SUFFICES ASSUME TypeOK, Accounted, BusyIsNotIdle, [Next]_vars,
                    NEW d \in Client, Busy(d)'
             PROVE  slot'[at'[d]].idle = "none"
  BY DEF BusyIsNotIdle
<1>0. Busy(d) => /\ at[d] \in Slot /\ slot[at[d]].idle = "none"
                 /\ d \in borrowers[at[d]]
  BY AtSlot DEF BusyIsNotIdle, Busy, Accounted, ResourcesAccounted, TokensAccounted, HoldsToken
<1>1. CASE UNCHANGED vars
  BY <1>0, <1>1 DEF vars, tasks, Busy
<1>2. CASE TimeStep
  <2>1. Busy(d) /\ at'[d] = at[d]
    BY <1>2, TimeStepSlots DEF tasks, Busy
  <2>2. PICK s \in Slot : IdlePasses(s) \/ AgePasses(s)
    BY <1>2 DEF TimeStep
  <2>3. slot[s] \in SlotState
    BY DEF TypeOK
  <2>4. CASE at[d] # s
    BY <1>0, <2>1, <2>2, <2>4 DEF IdlePasses, AgePasses, TypeOK
  <2>5. CASE at[d] = s
    <3>1. slot'[s] = [slot[s] EXCEPT !.age = "over"]
      BY <1>0, <2>1, <2>2, <2>5 DEF IdlePasses, AgePasses, TypeOK
    <3> QED
      BY <1>0, <2>1, <2>3, <2>5, <3>1 DEF SlotState
  <2> QED
    BY <2>4, <2>5
<1>3. ASSUME NEW c \in Client, TaskStep(c) PROVE slot'[at'[d]].idle = "none"
  <2>1. CASE d = c
    <3>1. /\ at'[d] = at[c] /\ at[c] \in Slot /\ pc'[c] # "idle"
          /\ Busy(c) \/ slot'[at[c]].idle = "none"
      BY <1>3, <2>1, BusyStep DEF Accounted
    <3>2. slot'[at[c]].idle \in {slot[at[c]].idle, "none"}
      BY <1>3, <3>1, OtherSlots, FieldStep
    <3> QED
      BY <1>0, <2>1, <3>1, <3>2
  <2>2. CASE d # c
    <3>1. Busy(d) /\ at'[d] = at[d]
      BY <1>3, <2>2, OthersStep DEF OthersStay, Busy
    <3>2. CASE at[d] = at[c]
      BY <1>0, <1>3, <2>2, <3>1, <3>2, OtherSlots, FieldStep
    <3>3. CASE at[d] # at[c]
      BY <1>0, <1>3, <3>1, <3>3, OtherSlots
    <3> QED
      BY <3>2, <3>3
  <2> QED
    BY <2>1, <2>2
<1> QED
  BY <1>1, <1>2, <1>3, NextSteps, Zenon

\* The idle clock (last_idle_start) is off while anybody waits for the connection of the
\* slot, has been handed it or uses it: a connection at work is never retired for being idle.
THEOREM BusyIsNeverIdle == Spec => []BusyIsNotIdle
<1>1. Init => BusyIsNotIdle
  BY DEF Init, BusyIsNotIdle, Busy
<1>2. TypeOK /\ Accounted /\ BusyIsNotIdle /\ [Next]_vars => BusyIsNotIdle'
  BY IdleStep
<1> QED
  BY <1>1, <1>2, TypeCorrect, AccountedAlways, PTL DEF Spec

-----------------------------------------------------------------------------
(* Closing alone                                                           *)

\* The connection's own calls run under the lock.
OwnersHaveLock ==
    \A c \in Client : pc[c] \in {"closing", "probe", "probeReset"} => Heads(lockq[at[c]], c)

LEMMA HeadsStep ==
    ASSUME TypeOK, Accounted, NEW c \in Client, TaskStep(c), NEW d \in Client \ {c}, NEW s \in Slot
    PROVE  /\ Heads(lockq[s], d) => Heads(lockq'[s], d)
           /\ \A e : Ahead(lockq'[s], e, d) => Ahead(lockq[s], e, d)
<1>1. IsInjective(lockq[s]) /\ lockq[s] \in Seq(Client)
  BY DEF TypeOK, Accounted, NoDuplicates
<1>2. c \in ToSet(lockq[s]) <=> pc[c] \in Locking /\ at[c] = s
  BY DEF Accounted, ResourcesAccounted
<1>3. CASE lockq'[s] = lockq[s]
  BY <1>3
<1>4. CASE lockq'[s] = Append(lockq[s], c) /\ c \notin ToSet(lockq[s])
  BY <1>1, <1>4, JoinQueue
<1>5. CASE lockq'[s] = Without(lockq[s], c)
  BY <1>1, <1>5, LeaveQueue
<1>6. CASE lockq'[s] = Append(Without(lockq[s], c), c)
  <2> DEFINE q == Without(lockq[s], c)
  <2>1. /\ q \in Seq(Client) /\ IsInjective(q) /\ c \notin ToSet(q)
        /\ Heads(lockq[s], d) => Heads(q, d)
        /\ \A e : Ahead(q, e, d) => Ahead(lockq[s], e, d)
    BY <1>1, LeaveQueue
  <2> HIDE DEF q
  <2>2. /\ Heads(q, d) => Heads(Append(q, c), d)
        /\ \A e : Ahead(Append(q, c), e, d) => Ahead(q, e, d)
    BY <2>1, JoinQueue
  <2> QED
    BY <1>6, <2>1, <2>2 DEF q
<1>7. \/ lockq'[s] = lockq[s]
      \/ lockq'[s] = Append(lockq[s], c) /\ c \notin ToSet(lockq[s])
      \/ lockq'[s] = Without(lockq[s], c)
      \/ lockq'[s] = Append(Without(lockq[s], c), c)
  BY <1>2, LockStep DEF KeepsLock, JoinsLock, JoinLock, LeavesLock, LeaveLock, Requeues, TypeOK
<1> QED
  BY <1>3, <1>4, <1>5, <1>6, <1>7, Zenon

\* Who comes to own the lock, or keeps it, does not disturb the queue.
LEMMA OwnerStep ==
    ASSUME TypeOK, NEW c \in Client, TaskStep(c), pc'[c] \in {"closing", "probe", "probeReset"}
    PROVE  /\ UNCHANGED <<lockq, at>>
           /\ OwnsLock(c, at[c]) \/ pc[c] \in {"closing", "probe", "probeReset"}
<1>1. ASSUME NEW l \in PC, Goto(c, l) \/ NewEvent(c, at[c], l) \/ (WakeWaiters(c, at[c]) /\ l = "resume")
      PROVE  pc'[c] = l
  BY <1>1 DEF Goto, NewEvent, WakeWaiters, TypeOK
<1> USE <1>1 DEF PC, Locking, Creating
<1>2. CASE Proceed(c) /\ ~CloseNothing(c)
  BY <1>2 DEF Proceed, CheckoutStart, SemGranted, ProbeCall, CloseCall, Resume, Hand, Skip, LeaveFailed, Leave,
              StopIdleAndWait, queues
<1>3. CASE CreateAnswers(c) \/ ProbeAnswers(c)
  BY <1>3 DEF CreateAnswers, CreateDone, CreateFails, ProbeAnswers, ProbeOk, ProbeFalse, ProbeRaises, ResetSlot
<1>4. CASE CloseReturns(c) \/ CloseNothing(c)
  BY <1>4 DEF CloseReturns, CloseNothing, CloseDone, ProbeResetDone, CleanupDone, FinishClose, ResetSlot
<1>5. CASE Deadline(c)
  BY <1>5 DEF Deadline, Timeout, TimeoutProbe, ResetSlot, Cancelled
<1>6. CASE Uses(c) \/ Gets(c) \/ \E s \in Slot : CloseAll(c, s)
  BY <1>6 DEF Uses, Gets, CloseAll, Sweep, Acquire, UserDone, ExpireConn, Leave, BeginClose
<1> QED
  BY <1>2, <1>3, <1>4, <1>5, <1>6 DEF TaskStep, Proceed

LEMMA OwnersStep == TypeOK /\ Accounted /\ OwnersHaveLock /\ [Next]_vars => OwnersHaveLock'
<1> SUFFICES ASSUME TypeOK, Accounted, OwnersHaveLock, [Next]_vars, NEW d \in Client,
                    pc'[d] \in {"closing", "probe", "probeReset"}
             PROVE  Heads(lockq'[at'[d]], d)
  BY DEF OwnersHaveLock
<1>1. CASE TimeStep \/ UNCHANGED vars
  BY <1>1, TimeStepSlots DEF OwnersHaveLock, vars, queues, tasks
<1>2. ASSUME NEW c \in Client, TaskStep(c) PROVE Heads(lockq'[at'[d]], d)
  <2>1. CASE d = c
    BY <1>2, <2>1, OwnerStep DEF OwnersHaveLock, OwnsLock, Heads
  <2>2. CASE d # c
    <3>1. pc'[d] = pc[d] /\ at'[d] = at[d]
      BY <1>2, <2>2, OthersStep DEF OthersStay
    <3>2. at[d] \in Slot /\ Heads(lockq[at[d]], d)
      BY <3>1, AtSlot DEF OwnersHaveLock
    <3> QED
      BY <1>2, <2>2, <3>1, <3>2, HeadsStep
  <2> QED
    BY <2>1, <2>2
<1> QED
  BY <1>1, <1>2, NextSteps, Zenon

\* Tokens are taken one at a time.
BorrowersAreFinite == \A s \in Slot : IsFiniteSet(borrowers[s])

LEMMA FiniteStep ==
    TypeOK /\ Identified /\ BorrowersAreFinite /\ [Next]_vars => BorrowersAreFinite'
<1> SUFFICES ASSUME TypeOK, Identified, BorrowersAreFinite, [Next]_vars, NEW s \in Slot
             PROVE  IsFiniteSet(borrowers'[s])
  BY DEF BorrowersAreFinite
<1>1. IsFiniteSet(borrowers[s])
  BY DEF BorrowersAreFinite
<1>2. CASE TimeStep \/ UNCHANGED vars
  BY <1>1, <1>2, TimeStepSlots DEF vars, queues
<1>3. ASSUME NEW c \in Client, TaskStep(c) PROVE IsFiniteSet(borrowers'[s])
  <2>1. \/ borrowers'[s] = borrowers[s]
        \/ borrowers'[s] = borrowers[s] \cup {c}
        \/ borrowers'[s] = borrowers[s] \ {c}
    BY <1>3, TokenStep DEF KeepsToken, TakesToken, GivesToken, TypeOK
  <2> QED
    BY <1>1, <2>1, FS_AddElement, FS_RemoveElement
<1> QED
  BY <1>2, <1>3, NextSteps, Zenon

\* Those who close a slot nobody uses, and those who close every slot.
Sweeper(d) == InClose(d) /\ why[d] \in {"sweep", "closeall"}

\* A retirement or a sweep finds, as long as the slot holds a connection, the slot marked
\* and no other borrower in it; and nobody who could fill the slot is before it in the lock.
ClosesForPool(c) == InClose(c) /\ why[c] \in {"retire", "sweep"}

Unshared(c) ==
    /\ pc[c] = "closing" => slot[at[c]].connection # None
    /\ slot[at[c]].connection # None => slot[at[c]].shouldClose /\ borrowers[at[c]] \subseteq {c}
    /\ \A d \in Client : Ahead(lockq[at[c]], d, c) => Sweeper(d)

ClosersAreAlone == \A c \in Client : ClosesForPool(c) => Unshared(c)

\* A task that closes a slot stays in the queue only to go on closing, and empties the
\* slot only with the lock.
LEMMA CloserStep ==
    ASSUME TypeOK, NEW c \in Client, TaskStep(c), InClose(c)
    PROVE  /\ pc'[c] \in Locking => pc'[c] = "closing" /\ why'[c] = why[c]
           /\ UNCHANGED slot \/ pc[c] = "closing" \/ OwnsLock(c, at[c])
<1>1. ASSUME NEW l \in PC, Goto(c, l) \/ NewEvent(c, at[c], l)
      PROVE  pc'[c] = l
  BY <1>1 DEF Goto, NewEvent, TypeOK
<1> USE <1>1 DEF PC, Locking, Creating, InClose
<1>2. CASE Proceed(c) /\ ~CloseNothing(c)
  BY <1>2 DEF Proceed, CheckoutStart, SemGranted, ProbeCall, CloseCall, Resume, Hand, Skip, LeaveFailed
<1>3. CASE CreateAnswers(c) \/ ProbeAnswers(c)
  BY <1>3 DEF CreateAnswers, CreateDone, CreateFails, ProbeAnswers, ProbeOk, ProbeFalse, ProbeRaises
<1>4. CASE CloseReturns(c) \/ CloseNothing(c)
  BY <1>4 DEF CloseReturns, CloseNothing, CloseDone, ProbeResetDone, CleanupDone, FinishClose, ResetSlot
<1>5. CASE Deadline(c)
  BY <1>5 DEF Deadline, Timeout, TimeoutProbe, Cancelled
<1>6. CASE Uses(c) \/ Gets(c) \/ \E s \in Slot : CloseAll(c, s)
  BY <1>6 DEF Uses, Gets, CloseAll, Sweep, Acquire, UserDone, ExpireConn
<1> QED
  BY <1>2, <1>3, <1>4, <1>5, <1>6 DEF TaskStep, Proceed

\* How a task comes to close a slot for the pool, and how it goes on.
Begins(c) ==
    LET s == at'[c] IN
    /\ pc'[c] = "closeLock" /\ s \in Slot
    /\ pc[c] \notin Locking /\ JoinLock(c, s) /\ UNCHANGED borrowers
    /\ borrowers[s] \subseteq {c} /\ slot'[s].shouldClose

GoesOn(c) ==
    /\ pc[c] = "closeLock" /\ slot[at[c]].connection # None /\ pc'[c] = "closing"
    /\ UNCHANGED <<slot, lockq, borrowers, at, why>>

LEMMA CloseForPoolStep ==
    ASSUME TypeOK, Accounted, BorrowersAreFinite, NEW c \in Client, TaskStep(c), ClosesForPool(c)'
    PROVE  Begins(c) \/ GoesOn(c)
<1>0. pc'[c] \in {"closeLock", "closing"} /\ why'[c] \in {"retire", "sweep"}
  BY DEF ClosesForPool, InClose
<1>1. ASSUME NEW l \in PC, Goto(c, l) \/ NewEvent(c, at[c], l) \/ (WakeWaiters(c, at[c]) /\ l = "resume")
      PROVE  pc'[c] = l
  BY <1>1 DEF Goto, NewEvent, WakeWaiters, TypeOK
<1> USE <1>1 DEF PC, Locking, Creating
<1>2. CASE Proceed(c) /\ ~CloseNothing(c)
  <2>1. CASE CheckoutStart(c)
    <3>1. at[c] \in Slot /\ slot[at[c]] \in SlotState
      BY <2>1, AtSlot DEF CheckoutStart, TypeOK
    <3>2. borrowers[at[c]] = {c} /\ slot' = [slot EXCEPT ![at[c]].shouldClose = TRUE]
          /\ pc'[c] = "closeLock" /\ JoinLock(c, at[c]) /\ UNCHANGED <<borrowers, at>>
      BY <1>0, <2>1 DEF CheckoutStart, StopIdleAndWait
    <3>3. slot'[at[c]].shouldClose
      BY <3>1, <3>2 DEF TypeOK, SlotState
    <3> QED
      BY <2>1, <3>1, <3>2, <3>3 DEF CheckoutStart, Begins
  <2>2. CASE CloseCall(c)
    BY <2>2 DEF CloseCall, queues, GoesOn
  <2> QED
    BY <1>0, <1>2, <2>1, <2>2 DEF Proceed, SemGranted, ProbeCall, Resume, Hand, Skip, LeaveFailed, Leave, StopIdleAndWait
<1>3. CASE CreateAnswers(c) \/ ProbeAnswers(c)
  BY <1>0, <1>3 DEF CreateAnswers, CreateDone, CreateFails, ProbeAnswers, ProbeOk, ProbeFalse, ProbeRaises, ResetSlot
<1>4. CASE CloseReturns(c) \/ CloseNothing(c)
  BY <1>0, <1>4 DEF CloseReturns, CloseNothing, CloseDone, ProbeResetDone, CleanupDone, FinishClose, ResetSlot
<1>5. CASE Deadline(c)
  BY <1>0, <1>5 DEF Deadline, Timeout, TimeoutProbe, ResetSlot, Cancelled
<1>6. CASE Uses(c) \/ Gets(c) \/ \E s \in Slot : CloseAll(c, s)
  <2>1. ASSUME NEW s \in Slot, Sweep(c, s) PROVE Begins(c)
    <3>1. Count(s) = 0 /\ slot[s].shouldClose
      BY <2>1, SharedAssumption DEF Sweep, Available, Closeable, Stuck
    <3>2. borrowers[s] = {}
      BY <3>1, FS_EmptySet DEF BorrowersAreFinite, Count
    <3> QED
      BY <2>1, <3>1, <3>2 DEF Sweep, BeginClose, Begins, TypeOK
  <2>2. ASSUME NEW s \in Slot, NEW r \in {"expire", "closeall"}, BeginClose(c, s, r) PROVE FALSE
    BY <1>0, <2>2 DEF BeginClose, TypeOK
  <2> QED
    BY <1>0, <1>6, <2>1, <2>2 DEF Uses, Gets, CloseAll, Acquire, UserDone, ExpireConn, Leave
<1> QED
  BY <1>2, <1>3, <1>4, <1>5, <1>6 DEF TaskStep, Proceed

\* Who is in the queue of a slot that nobody else borrows closes it for nobody.
LEMMA OthersSweep ==
    ASSUME Accounted, NEW c \in Client, NEW s \in Slot, borrowers[s] \subseteq {c},
           NEW d \in ToSet(lockq[s]), d # c
    PROVE  Sweeper(d)
BY DEF Accounted, ResourcesAccounted, TokensAccounted, HoldsToken, Sweeper, InClose, Locking

LEMMA AloneFromStart ==
    ASSUME TypeOK, Accounted, BorrowersAreFinite, ClosersAreAlone, NEW c \in Client, TaskStep(c), ClosesForPool(c)'
    PROVE  Unshared(c)'
<1>0. OthersStay(c)
  BY OthersStep
<1>1. CASE Begins(c)
  <2> DEFINE s == at'[c]
  <2>1. /\ s \in Slot /\ c \notin ToSet(lockq[s])
        /\ IsInjective(lockq[s]) /\ lockq[s] \in Seq(Client)
        /\ lockq'[s] = Append(lockq[s], c) /\ borrowers'[s] = borrowers[s]
    BY <1>1 DEF Begins, Accounted, NoDuplicates, ResourcesAccounted, JoinLock, TypeOK
  <2>2. ASSUME NEW d \in Client, Ahead(lockq'[s], d, c) PROVE Sweeper(d)'
    <3>1. d \in ToSet(lockq[s])
      <4>1. Ahead(lockq[s], d, c) \/ d \in ToSet(lockq[s])
        BY <2>1, <2>2, JoinQueue
      <4>2. ~Ahead(lockq[s], d, c)
        BY <2>1, InQueue, LenProperties DEF Ahead
      <4> QED
        BY <4>1, <4>2
    <3>2. d # c
      BY <2>1, <3>1
    <3>3. Sweeper(d)
      BY <1>1, <2>1, <3>1, <3>2, OthersSweep DEF Begins
    <3> QED
      BY <1>0, <3>2, <3>3 DEF OthersStay, Sweeper, InClose
  <2> QED
    BY <1>1, <2>1, <2>2 DEF Begins, Unshared
<1>2. CASE GoesOn(c)
  <2>1. Unshared(c)
    BY <1>2 DEF GoesOn, ClosersAreAlone, ClosesForPool, InClose
  <2>2. ASSUME NEW d \in Client, Sweeper(d), Ahead(lockq[at[c]], d, c) PROVE Sweeper(d)'
    <3>1. CASE d # c
      BY <1>0, <2>2, <3>1 DEF OthersStay, Sweeper, InClose
    <3>2. CASE d = c
      BY <1>2, <2>2, <3>2 DEF GoesOn, Sweeper, InClose
    <3> QED
      BY <3>1, <3>2
  <2> QED
    BY <1>2, <2>1, <2>2 DEF GoesOn, Unshared
<1> QED
  BY <1>1, <1>2, CloseForPoolStep

LEMMA AloneAmongOthers ==
    ASSUME TypeOK, TypeOK', Accounted, Accounted', OwnersHaveLock, ClosersAreAlone,
           NEW c \in Client, TaskStep(c), NEW d \in Client, d # c, ClosesForPool(d)'
    PROVE  Unshared(d)'
<1> DEFINE s == at[d]
<1>1. /\ OthersStay(c) /\ pc'[d] = pc[d] /\ at'[d] = at[d] /\ why'[d] = why[d]
      /\ ClosesForPool(d) /\ Unshared(d)
  BY OthersStep DEF OthersStay, ClosesForPool, InClose, ClosersAreAlone
<1>2. /\ s \in Slot /\ d \in ToSet(lockq[s]) /\ lockq[s] \in Seq(Client)
  BY <1>1, AtSlot DEF ClosesForPool, InClose, Locking, Accounted, ResourcesAccounted, TypeOK
<1>3. ASSUME NEW e \in Client, Ahead(lockq'[s], e, d) PROVE Sweeper(e)'
  <2>1. Sweeper(e)
    BY <1>1, <1>2, <1>3, HeadsStep DEF Unshared
  <2>2. CASE e # c
    BY <1>1, <2>1, <2>2 DEF OthersStay, Sweeper, InClose
  <2>3. CASE e = c
    <3>1. lockq'[s] \in Seq(Client) /\ pc'[c] \in Locking
      <4>1. lockq'[s] \in Seq(Client)
        BY <1>2 DEF TypeOK
      <4>2. e \in ToSet(lockq'[s])
        BY <1>3, <4>1, InQueue, LenProperties DEF Ahead
      <4> QED
        BY <1>2, <2>3, <4>1, <4>2 DEF Accounted, ResourcesAccounted
    <3> QED
      BY <2>1, <2>3, <3>1, CloserStep DEF Sweeper, InClose
  <2> QED
    BY <2>2, <2>3
<1>4. slot[s].connection # None => borrowers'[s] \subseteq {d}
  <2> SUFFICES ASSUME slot[s].connection # None PROVE borrowers'[s] \subseteq borrowers[s]
    BY <1>1 DEF Unshared
  <2>1. slot[s].shouldClose
    BY <1>1 DEF Unshared
  <2>2. CASE KeepsToken(c)
    BY <2>2 DEF KeepsToken
  <2>3. CASE TakesToken(c)
    BY <1>2, <2>1, <2>3 DEF TakesToken, Available, TypeOK
  <2>4. CASE GivesToken(c)
    BY <1>2, <2>4 DEF GivesToken, TypeOK
  <2> QED
    BY <2>2, <2>3, <2>4, TokenStep DEF Accounted
<1>5. CASE at[c] # s
  <2>1. slot'[s] = slot[s]
    BY <1>2, <1>5, OtherSlots
  <2> QED
    BY <1>1, <1>3, <1>4, <2>1 DEF Unshared
<1>6. CASE at[c] = s
  <2>1. ~Fills(c)
    <3>1. Heads(lockq[s], c) => Ahead(lockq[s], c, d)
      BY <1>2, HeadIsAhead
    <3> QED
      BY <1>1, <1>6, <3>1 DEF Fills, OwnsLock, Heads, Unshared, Sweeper, InClose
  <2>2. slot'[s].connection \in {slot[s].connection, None}
    BY <1>2, <1>6, <2>1, OtherSlots, FieldStep DEF KeepsOrDrops
  <2>3. slot'[s].connection # None => (slot[s].shouldClose => slot'[s].shouldClose)
    BY <1>2, <1>6, OtherSlots, FieldStep
  <2>4. ASSUME pc[d] = "closing" PROVE slot'[s].connection # None
    <3> SUFFICES ASSUME slot'[s].connection = None PROVE FALSE
      OBVIOUS
    <3>1. slot[s].connection # None /\ borrowers[s] \subseteq {d} /\ Heads(lockq[s], d)
      BY <1>1, <2>4 DEF Unshared, OwnersHaveLock
    <3>2. pc[c] # "idle" /\ c \notin borrowers[s]
      BY <1>2, <1>6, <3>1, SharedAssumption DEF TypeOK
    <3>3. Sweeper(c)
      BY <1>2, <1>6, <3>2 DEF Accounted, ResourcesAccounted, TokensAccounted, HoldsToken, Sweeper, InClose
    <3>4. Heads(lockq[s], c)
      BY <1>6, <3>1, <3>3, CloserStep DEF Sweeper, OwnersHaveLock, OwnsLock, Heads
    <3> QED
      BY <3>1, <3>4 DEF Heads
  <2> QED
    BY <1>1, <1>3, <1>4, <2>2, <2>3, <2>4 DEF Unshared
<1> QED
  BY <1>5, <1>6

LEMMA AloneStep ==
    TypeOK /\ TypeOK' /\ Accounted /\ Accounted' /\ OwnersHaveLock /\ BorrowersAreFinite
    /\ ClosersAreAlone /\ [Next]_vars => ClosersAreAlone'
<1> SUFFICES ASSUME TypeOK, TypeOK', Accounted, Accounted', OwnersHaveLock, BorrowersAreFinite,
                    ClosersAreAlone, [Next]_vars, NEW d \in Client, ClosesForPool(d)'
             PROVE  Unshared(d)'
  BY DEF ClosersAreAlone
<1>1. CASE TimeStep
  <2>1. /\ \A t \in Slot : slot'[t].connection = slot[t].connection /\ slot'[t].shouldClose = slot[t].shouldClose
        /\ UNCHANGED <<queues, tasks>>
    <3>1. PICK s \in Slot : IdlePasses(s) \/ AgePasses(s)
      BY <1>1 DEF TimeStep
    <3>2. slot[s] \in SlotState
      BY DEF TypeOK
    <3>3. /\ \/ slot' = [slot EXCEPT ![s] = [slot[s] EXCEPT !.idle = "over"]]
             \/ slot' = [slot EXCEPT ![s] = [slot[s] EXCEPT !.age = "over"]]
          /\ UNCHANGED <<queues, tasks>>
      BY <3>1 DEF IdlePasses, AgePasses
    <3>4. ASSUME NEW r \in {[slot[s] EXCEPT !.idle = "over"], [slot[s] EXCEPT !.age = "over"]}
          PROVE  r.connection = slot[s].connection /\ r.shouldClose = slot[s].shouldClose
      BY <3>2, <3>4 DEF SlotState
    <3>5. PICK r : r.connection = slot[s].connection /\ r.shouldClose = slot[s].shouldClose
                   /\ slot' = [slot EXCEPT ![s] = r]
      BY <3>3, <3>4
    <3> QED
      BY <3>3, <3>5 DEF TypeOK
  <2>2. at[d] \in Slot /\ Unshared(d)
    BY <2>1, AtSlot DEF ClosersAreAlone, ClosesForPool, InClose, tasks
  <2> QED
    BY <2>1, <2>2 DEF queues, tasks, Unshared, Sweeper, InClose
<1>2. CASE UNCHANGED vars
  BY <1>2 DEF vars, queues, tasks, Unshared, Sweeper, ClosersAreAlone, ClosesForPool, InClose
<1>3. ASSUME NEW c \in Client, TaskStep(c) PROVE Unshared(d)'
  BY <1>3, AloneFromStart, AloneAmongOthers
<1> QED
  BY <1>1, <1>2, <1>3, NextSteps, Zenon

LEMMA OwnersAlways == Spec => [](OwnersHaveLock /\ BorrowersAreFinite /\ ClosersAreAlone)
<1> DEFINE IInv == OwnersHaveLock /\ BorrowersAreFinite /\ ClosersAreAlone
<1>1. Init => IInv
  BY FS_EmptySet DEF Init, OwnersHaveLock, BorrowersAreFinite, ClosersAreAlone, ClosesForPool, InClose
<1>2. TypeOK /\ TypeOK' /\ Accounted /\ Accounted' /\ IInv /\ [Next]_vars => IInv'
  BY OwnersStep, FiniteStep, AloneStep DEF Accounted
<1> HIDE DEF IInv
<1>3. Spec => []IInv
  BY <1>1, <1>2, TypeCorrect, AccountedAlways, PTL DEF Spec
<1> QED
  BY <1>3 DEF IInv

-----------------------------------------------------------------------------
(* Expiry                                                                  *)

\* Who expires a connection has one.
ExpirersHaveOne == \A c \in Client : InClose(c) /\ why[c] = "expire" => got[c] # None

LEMMA ExpirerStep ==
    ASSUME TypeOK, ReasonsFit, NEW c \in Client, TaskStep(c),
           pc'[c] \in {"closeLock", "closing"}, why'[c] = "expire"
    PROVE  got'[c] = got[c] /\ (got[c] # None \/ (InClose(c) /\ why[c] = "expire"))
<1>0. ~InClose(c) => why[c] = None
  BY DEF ReasonsFit
<1>1. CASE Proceed(c) /\ ~CloseNothing(c)
  BY <1>0, <1>1 DEF Proceed, CheckoutStart, SemGranted, ProbeCall, CloseCall, Resume, Hand, Skip, LeaveFailed, Leave,
              Release, StopIdleAndWait, Goto, TypeOK, InClose
<1>2. CASE CreateAnswers(c)
  BY <1>0, <1>2 DEF CreateAnswers, CreateDone, CreateFails, Goto, TypeOK, InClose
<1>3. CASE ProbeAnswers(c)
  BY <1>0, <1>3 DEF ProbeAnswers, ProbeOk, ProbeFalse, ProbeRaises, ResetSlot, Goto, NewEvent, WakeWaiters, TypeOK, InClose
<1>4. CASE Deadline(c)
  BY <1>0, <1>4 DEF Deadline, Timeout, TimeoutProbe, ResetSlot, Cancelled, Goto, NewEvent, TypeOK, InClose
<1>5. CASE CloseReturns(c) \/ CloseNothing(c)
  BY <1>0, <1>5 DEF CloseReturns, CloseNothing, CloseDone, ProbeResetDone, CleanupDone, FinishClose, ResetSlot,
              Release, Goto, NewEvent, TypeOK, InClose
<1>6. CASE Uses(c) \/ Gets(c) \/ \E s \in Slot : CloseAll(c, s)
  BY <1>0, <1>6 DEF Uses, Gets, CloseAll, Sweep, Acquire, UserDone, ExpireConn, Leave, Release, BeginClose, Goto, TypeOK, InClose
<1> QED
  BY <1>1, <1>2, <1>3, <1>4, <1>5, <1>6 DEF TaskStep, Proceed

LEMMA ExpirersStep == TypeOK /\ Accounted /\ ExpirersHaveOne /\ [Next]_vars => ExpirersHaveOne'
<1> SUFFICES ASSUME TypeOK, Accounted, ExpirersHaveOne, [Next]_vars, NEW d \in Client,
                    pc'[d] \in {"closeLock", "closing"}, why'[d] = "expire"
             PROVE  got'[d] # None
  BY DEF ExpirersHaveOne, InClose
<1>1. CASE TimeStep \/ UNCHANGED vars
  BY <1>1, TimeStepSlots DEF vars, tasks, ExpirersHaveOne, InClose
<1>2. ASSUME NEW c \in Client, TaskStep(c) PROVE got'[d] # None
  BY <1>2, ExpirerStep, OthersStep DEF OthersStay, Accounted, Identified, ExpirersHaveOne, InClose
<1> QED
  BY <1>1, <1>2, NextSteps, Zenon

\* close() resets the slot of the task, and no other slot had its connection.
LEMMA ExpiryEnds ==
    ASSUME TypeOK, Accounted, NEW c \in Client, TaskStep(c), NEW s \in Slot,
           InClose(c), why[c] = "expire", got[c] # None, pc'[c] = "idle"
    PROVE  slot'[s].connection # got[c]
<1>1. at[c] \in Slot /\ slot[at[c]] \in SlotState
  BY AtSlot DEF InClose, TypeOK
<1>2. slot' = [slot EXCEPT ![at[c]] = CheckedIn(EmptySlot, borrowers[at[c]] = {c}, got[c])]
  <2>1. CloseCall(c) \/ CloseNothing(c) \/ CloseDone(c)
    <3>1. ~CreateAnswers(c) /\ ~ProbeAnswers(c) /\ ~Uses(c) /\ ~Gets(c) /\ ~\E t \in Slot : CloseAll(c, t)
      BY DEF CreateAnswers, CreateDone, CreateFails, ProbeAnswers, ProbeOk, ProbeFalse, ProbeRaises, Uses, UserDone,
             ExpireConn, Gets, CloseAll, Acquire, Sweep, InClose
    <3>2. ~Timeout(c) /\ ~TimeoutProbe(c)
      BY DEF Timeout, TimeoutProbe, Interruptible, InClose
    <3> QED
      BY <3>1, <3>2 DEF TaskStep, Proceed, CheckoutStart, SemGranted, ProbeCall, Resume, Hand, Skip, LeaveFailed,
             CloseReturns, ProbeResetDone, CleanupDone, Deadline, InClose
  <2>2. ~CloseCall(c)
    BY DEF CloseCall, Goto, TypeOK
  <2>3. FinishClose(c)
    BY <2>1, <2>2 DEF CloseNothing, CloseDone
  <2> QED
    BY <2>3 DEF FinishClose
<1>3. CheckedIn(EmptySlot, borrowers[at[c]] = {c}, got[c]).connection = None
  BY DEF CheckedIn, EmptySlot
<1>4. s # at[c] => slot'[s].connection = slot[s].connection
  BY <1>2 DEF TypeOK
<1>5. s = at[c] => slot'[s].connection = None
  BY <1>1, <1>2, <1>3 DEF TypeOK
<1> QED
  BY <1>4, <1>5 DEF Accounted, Identified, Home

\* Whatever happens while expire_conn() waits for the lock or for the connection's close(),
\* when it returns no slot holds the connection: get() cannot hand it out again.
THEOREM ExpiredIsGone == Spec => ExpiryTakesEffect
<1> DEFINE Gone(c) == \A s \in Slot : slot'[s].connection # got[c]
<1>1. TypeOK /\ Accounted /\ ExpirersHaveOne /\ [Next]_vars
        => \A c \in Client : pc[c] \in {"closeLock", "closing"} /\ why[c] = "expire" /\ pc'[c] = "idle" => Gone(c)
  <2> SUFFICES ASSUME TypeOK, Accounted, ExpirersHaveOne, [Next]_vars, NEW d \in Client,
                      InClose(d), why[d] = "expire", pc'[d] = "idle"
               PROVE  Gone(d)
    BY DEF InClose
  <2>1. CASE TimeStep \/ UNCHANGED vars
    BY <2>1, TimeStepSlots DEF vars, tasks, InClose
  <2>2. ASSUME NEW c \in Client, TaskStep(c) PROVE Gone(d)
    <3>1. c = d
      BY <2>2, OthersStep DEF OthersStay, InClose
    <3> QED
      BY <2>2, <3>1, ExpiryEnds DEF ExpirersHaveOne
  <2> QED
    BY <2>1, <2>2, NextSteps, Zenon
<1>2. Init => ExpirersHaveOne
  BY DEF Init, ExpirersHaveOne, InClose
<1>3. Spec => []ExpirersHaveOne
  BY <1>2, ExpirersStep, TypeCorrect, AccountedAlways, PTL DEF Spec
<1> QED
  BY <1>1, <1>3, TypeCorrect, AccountedAlways, PTL DEF Spec, ExpiryTakesEffect

\* A retirement by checkout() and a sweep by get() close a connection that nobody else
\* borrows, for as long as the close takes: once the slot is marked nobody enters it, and
\* nobody who could fill it stands before the closer in the queue of the lock.
THEOREM RetirersCloseAlone == Spec => []ClosesAlone
<1>1. OwnersHaveLock /\ BorrowersAreFinite /\ ClosersAreAlone => ClosesAlone
  BY DEF ClosersAreAlone, ClosesForPool, InClose, Unshared, ClosesAlone
<1> QED
  BY <1>1, OwnersAlways, PTL

-----------------------------------------------------------------------------
(* Limits *)

\* Who has a permit in hand is one of those the semaphore lets pass.
Permitted == \A c \in Client : pc[c] \in Admitted => Within(semq, MaxConcurrentCreates, c)

\* Who has been handed the same connection is in the same slot.
Together == \A c, d \in Client : got[c] # None /\ got[c] = got[d] => at[c] = at[d]

TokensSuffice == \A s \in Slot : Count(s) <= ClientLimit

Limited == Permitted /\ Together /\ TokensSuffice

LEMMA PermittedStep ==
    ASSUME TypeOK, Accounted, Permitted, NEW c \in Client, TaskStep(c)
    PROVE  Permitted'
<1> SUFFICES ASSUME NEW d \in Client, pc'[d] \in Admitted PROVE Within(semq', MaxConcurrentCreates, d)
  BY DEF Permitted
<1>1. semq \in Seq(Client) /\ IsInjective(semq) /\ (c \in ToSet(semq) <=> pc[c] \in Creating)
  BY DEF TypeOK, Accounted, NoDuplicates, ResourcesAccounted
<1>2. CASE d = c
  BY <1>2, OpeningStep DEF Permitted, HasPermit, Within
<1>3. CASE d # c
  <2>1. Within(semq, MaxConcurrentCreates, d)
    BY <1>3, OthersStep DEF OthersStay, Admitted, Creating, Permitted
  <2>2. CASE KeepsSem(c)
    BY <2>1, <2>2 DEF KeepsSem
  <2>3. CASE JoinsSem(c)
    BY <1>1, <2>1, <2>3, JoinQueue DEF JoinsSem
  <2>4. CASE LeavesSem(c)
    BY <1>1, <1>3, <2>1, <2>4, LeaveQueue, SharedAssumption DEF LeavesSem, LeaveSem
  <2> QED
    BY <2>2, <2>3, <2>4, SemStep
<1> QED
  BY <1>2, <1>3

LEMMA TogetherStep ==
    ASSUME TypeOK, Accounted, Together, NEW c \in Client, TaskStep(c)
    PROVE  Together'
<1>1. \A d \in Client \ {c} : got'[d] = got[d] /\ at'[d] = at[d]
  BY OthersStep DEF OthersStay
<1>2. Identified
  BY DEF Accounted
<1>3. ASSUME NEW d \in Client, d # c, got'[c] # None, got'[c] = got[d] PROVE at'[c] = at[d]
  <2>1. CASE got'[c] = got[c]
    BY <1>2, <1>3, <2>1, AtStep DEF Together, Identified, GotWhere, InClose
  <2>2. CASE pc[c] = "resume" /\ got'[c] = slot[at[c]].connection /\ UNCHANGED at
    BY <1>2, <1>3, <2>2, AtSlot DEF Identified, Home
  <2> QED
    BY <1>2, <1>3, <2>1, <2>2, GotStep DEF Identified
<1> QED
  BY <1>1, <1>3 DEF Together

LEMMA TokensStep ==
    ASSUME TypeOK, Accounted, BorrowersAreFinite, TokensSuffice, NEW c \in Client, TaskStep(c)
    PROVE  TokensSuffice'
<1> SUFFICES ASSUME NEW s \in Slot PROVE Cardinality(borrowers'[s]) <= ClientLimit
  BY DEF TokensSuffice, Count
<1>1. /\ IsFiniteSet(borrowers[s]) /\ Cardinality(borrowers[s]) \in Nat
      /\ Cardinality(borrowers[s]) <= ClientLimit /\ ClientLimit \in Nat
  BY FS_CardinalityType, SharedAssumption DEF BorrowersAreFinite, TokensSuffice, Count
<1>2. CASE borrowers'[s] = borrowers[s]
  BY <1>1, <1>2
<1>3. CASE borrowers'[s] = borrowers[s] \cup {c} /\ Available(s)
  <2>1. Cardinality(borrowers[s] \cup {c}) \in {Cardinality(borrowers[s]), Cardinality(borrowers[s]) + 1}
    BY <1>1, FS_AddElement, Zenon
  <2> QED
    BY <1>1, <1>3, <2>1 DEF Available, Count
<1>4. CASE borrowers'[s] = borrowers[s] \ {c}
  <2>1. Cardinality(borrowers[s] \ {c}) \in {Cardinality(borrowers[s]), Cardinality(borrowers[s]) - 1}
    BY <1>1, FS_RemoveElement, Zenon
  <2> QED
    BY <1>1, <1>4, <2>1
<1>5. KeepsToken(c) \/ TakesToken(c) \/ GivesToken(c)
  BY TokenStep DEF Accounted
<1>6. borrowers \in [Slot -> SUBSET Client]
  BY DEF TypeOK
<1>7. CASE KeepsToken(c)
  BY <1>2, <1>7 DEF KeepsToken
<1>8. CASE TakesToken(c)
  BY <1>2, <1>3, <1>6, <1>8 DEF TakesToken
<1>9. CASE GivesToken(c)
  BY <1>2, <1>4, <1>6, <1>9 DEF GivesToken
<1> QED
  BY <1>5, <1>7, <1>8, <1>9

LEMMA LimitedAlways == Spec => []Limited
<1>1. Init => Limited
  BY FS_EmptySet, SharedAssumption
     DEF Init, Limited, Permitted, Together, TokensSuffice, Count, Admitted, Creating
<1>2. TypeOK /\ Accounted /\ BorrowersAreFinite /\ Limited /\ [Next]_vars => Limited'
  <2> SUFFICES ASSUME TypeOK, Accounted, BorrowersAreFinite, Limited, [Next]_vars PROVE Limited'
    OBVIOUS
  <2>1. CASE TimeStep \/ UNCHANGED vars
    BY <2>1, TimeStepSlots
       DEF vars, queues, tasks, Limited, Permitted, Together, TokensSuffice, Count
  <2>2. ASSUME NEW c \in Client, TaskStep(c) PROVE Limited'
    BY <2>2, PermittedStep, TogetherStep, TokensStep DEF Limited
  <2> QED
    BY <2>1, <2>2, NextSteps, Zenon
<1> QED
  BY <1>1, <1>2, TypeCorrect, AccountedAlways, OwnersAlways, PTL DEF Spec

\* As many different tasks as there are places among the first m of a queue.
LEMMA CountWithin ==
    ASSUME NEW S, NEW q \in Seq(S), NEW m \in Nat, NEW T, \A t \in T : Within(q, m, t)
    PROVE  Cardinality(T) <= m
<1> DEFINE Place(t) == CHOOSE i \in 1..Len(q) : i <= m /\ q[i] = t
           f == [t \in T |-> Place(t)]
<1>1. \A t \in T : Place(t) \in 1..m /\ q[Place(t)] = t
  <2>1. Len(q) \in Nat
    BY LenProperties
  <2> QED
    BY <2>1 DEF Within
<1>2. f \in Injection(T, 1..m)
  BY <1>1 DEF Injection, IsInjective
<1>3. IsFiniteSet(1..m) /\ Cardinality(1..m) = m
  BY FS_Interval
<1> QED
  BY <1>2, <1>3, FS_Injection

\* However many permits and tokens a pool has: no more tasks than there are permits open
\* connections at a time, and no more tasks than client_limit have been handed one
\* connection, also while it expires and when the slot has another one by then.
THEOREM LimitsHold == Spec => []LimitsAreKept
<1>1. TypeOK /\ Accounted /\ BorrowersAreFinite /\ Limited => LimitsAreKept
  <2> SUFFICES ASSUME TypeOK, Accounted, BorrowersAreFinite, Limited PROVE LimitsAreKept
    OBVIOUS
  <2>1. Cardinality({c \in Client : pc[c] \in Admitted}) <= MaxConcurrentCreates
    BY CountWithin, SharedAssumption DEF TypeOK, Limited, Permitted
  <2>2. ASSUME NEW k \in Conn PROVE Cardinality({c \in Client : got[c] = k}) <= ClientLimit
    <3> DEFINE T == {c \in Client : got[c] = k}
    <3>1. CASE T = {}
      BY <3>1, FS_EmptySet, SharedAssumption
    <3>2. CASE T # {}
      <4>1. PICK d \in Client : got[d] = k
        BY <3>2
      <4>2. /\ at[d] \in Slot
            /\ T \subseteq borrowers[at[d]]
        BY <4>1, AtSlot, SharedAssumption
           DEF Limited, Together, Accounted, Identified, GotWhere, InClose, ResourcesAccounted, TokensAccounted, HoldsToken
      <4>3. Cardinality(T) <= Count(at[d]) /\ Cardinality(T) \in Nat
        BY <4>2, FS_Subset, FS_CardinalityType DEF BorrowersAreFinite, Count
      <4>4. Count(at[d]) \in Nat /\ Count(at[d]) <= ClientLimit
        BY <4>2, FS_CardinalityType DEF BorrowersAreFinite, Count, Limited, TokensSuffice
      <4> QED
        BY <4>3, <4>4, SharedAssumption
    <3> QED
      BY <3>1, <3>2
  <2> QED
    BY <2>1, <2>2 DEF LimitsAreKept
<1> QED
  BY <1>1, TypeCorrect, AccountedAlways, OwnersAlways, LimitedAlways, PTL
=============================================================================
