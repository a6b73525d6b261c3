---------------------- MODULE SharedTransportConnection ----------------------
(***************************************************************************)
(* The slots of a connection pool (connection_pooling.py): a slot holds at *)
(* most one underlying connection, opened, probed, shared and closed by    *)
(* the tasks that borrow it.                                               *)
(*                                                                         *)
(* A task is cooperative: between two awaits it runs alone.  One action is *)
(* what a task does from one await to the next, so the interleavings of    *)
(* the actions are the interleavings of the event loop.  The synchronizers *)
(* are anyio's: Lock and Semaphore are FIFO queues whose head (whose first *)
(* MaxConcurrentCreates entries) own the resource, and a release hands it  *)
(* to the next entry at once.                                              *)
(***************************************************************************)
EXTENDS Naturals, FiniteSets, SequencesExt

CONSTANTS
    Client,                \* tasks that call the pool
    Slot,                  \* the SharedTransportConnection objects of the pool
    Conn,                  \* names of underlying connections
    None,                  \* Python's None
    ClientLimit,           \* client_limit: tokens of a slot's limiter
    MaxConcurrentCreates,  \* permits of the pool's creation semaphore
    LifespanEnabled        \* max_lifespan_seconds is not None

\* On whose behalf a connection is closed.
Reason == {"retire", "expire", "sweep", "closeall"}

ASSUME SharedAssumption ==
    /\ ClientLimit \in Nat \ {0}
    /\ MaxConcurrentCreates \in Nat \ {0}
    /\ LifespanEnabled \in BOOLEAN
    /\ None \notin Client \cup Slot \cup Conn \cup Reason

VARIABLES
    slot,       \* fields of the slots, see SlotState
    lockq,      \* _open_close_lock of a slot: its owner, then its waiters
    semq,       \* _creation_semaphore: permit holders, then waiters
    borrowers,  \* client_limiter of a slot: the tasks that hold a token
    pc,         \* the await a task is suspended at
    at,         \* the slot a task works on
    why,        \* on whose behalf a task closes the slot's connection
    got,        \* the connection checkout() returned to a task
    victim,     \* the connection a task's call of close() or ready() is about
    transport   \* the far side of a connection

queues == <<lockq, semq, borrowers>>
tasks  == <<pc, at, why, got, victim>>
vars   == <<slot, queues, tasks, transport>>

-----------------------------------------------------------------------------
(* State *)

Elapsed == {"none", "within", "over"}   \* a clock that is off, running, overdue

SlotState == [connection : Conn \cup {None},  \* _connection
              ready      : BOOLEAN,           \* _ready.is_set()
              shouldClose: BOOLEAN,           \* _should_close
              idle       : Elapsed,           \* last_idle_start
              age        : Elapsed]           \* connection_created_ts

\* Mutant: _reset_connection() leaves None in the mark.
EmptySlotUntyped == [connection |-> None, ready |-> FALSE, shouldClose |-> None,
                     idle |-> "none", age |-> "none"]

EmptySlot == [connection |-> None, ready |-> FALSE, shouldClose |-> FALSE,
              idle |-> "none", age |-> "none"]

\* Where a task can be suspended.
\*   idle       not in the pool                enter      holds a limiter token
\*   closeLock  close() queues for the lock    closing    the connection's close() runs
\*   sem        queues for a creation permit   create     queues for the lock, then connector.create()
\*   probeLock  queues for the lock            probe      connector.ready() runs
\*   probeReset close() of a failed probe      cleanup    close() of the exception handler
\*   wait       on the slot's readiness event  orphan     on an event that was replaced
\*   resume     the event it awaits is set     acquired   checkout is over, leaves the task group
\*   using      the caller has the connection  failed     an exception leaves acquire()
Locking  == {"closeLock", "closing", "create", "probeLock", "probe", "probeReset"}
Creating == {"sem", "create", "probeLock", "probe", "probeReset", "cleanup"}
Admitted == Creating \ {"sem"}   \* with a creation permit in hand
PC == Locking \cup Creating \cup
      {"idle", "enter", "wait", "orphan", "resume", "acquired", "using", "failed"}

Transport == {"closed",   \* not created yet, or closed
              "open",     \* created
              "probed",   \* ready() said yes
              "closing"}  \* its close() runs, or was cancelled half way

TypeOK ==
    /\ slot \in [Slot -> SlotState]
    /\ lockq \in [Slot -> Seq(Client)]
    /\ semq \in Seq(Client)
    /\ borrowers \in [Slot -> SUBSET Client]
    /\ pc \in [Client -> PC]
    /\ at \in [Client -> Slot \cup {None}]
    /\ why \in [Client -> Reason \cup {None}]
    /\ got \in [Client -> Conn \cup {None}]
    /\ victim \in [Client -> Conn \cup {None}]
    /\ transport \in [Conn -> Transport]
    /\ \A c \in Client : at[c] = None <=> pc[c] = "idle"

Init ==
    /\ slot = [s \in Slot |-> EmptySlot]
    /\ lockq = [s \in Slot |-> << >>]
    /\ semq = << >>
    /\ borrowers = [s \in Slot |-> {}]
    /\ pc = [c \in Client |-> "idle"]
    /\ at = [c \in Client |-> None]
    /\ why = [c \in Client |-> None]
    /\ got = [c \in Client |-> None]
    /\ victim = [c \in Client |-> None]
    /\ transport = [k \in Conn |-> "closed"]

-----------------------------------------------------------------------------
(* Helpers *)

Count(s) == Cardinality(borrowers[s])

\* Mutant: a marked slot still takes callers.
AvailableThoughMarked(s) == Count(s) < ClientLimit

Available(s) == Count(s) < ClientLimit /\ ~slot[s].shouldClose

\* Mutants: the count is forgotten, or off by one.
CloseableThoughUsed(s)  == slot[s].shouldClose
CloseableByLastUser(s)  == slot[s].shouldClose /\ Count(s) = 1

Closeable(s) == slot[s].shouldClose /\ Count(s) = 0

\* What get() takes for a slot whose opening was abandoned.
Stuck(s) == slot[s].connection # None /\ ~slot[s].ready /\ Count(s) = 0

Expired(r) == r.connection # None /\ (r.idle = "over" \/ r.age = "over")

OwnsLock(c, s) == lockq[s] # << >> /\ lockq[s][1] = c

\* Mutant: the semaphore of the pool is not passed to its slots.
HasPermitAlways(c) == TRUE

HasPermit(c) ==
    \E i \in 1..Len(semq) : i <= MaxConcurrentCreates /\ semq[i] = c

\* The queue q when c has left it, from whatever place.
Without(q, c) ==
    IF c \in ToSet(q) THEN RemoveAt(q, CHOOSE i \in DOMAIN q : q[i] = c) ELSE q

JoinLock(c, s)  == lockq' = [lockq EXCEPT ![s] = Append(@, c)]
LeaveLock(c, s) == lockq' = [lockq EXCEPT ![s] = Without(@, c)]
LeaveSem(c)     == semq' = Without(semq, c)

\* Nothing refers to the name k: a new connection may take it.
Fresh(k) ==
    /\ transport[k] = "closed"
    /\ \A s \in Slot : slot[s].connection # k
    /\ \A c \in Client : got[c] # k /\ victim[c] # k

\* A task whose event is set runs in the next turn of the loop, before a slot that
\* has been emptied meanwhile is filled again: to close it and to fill it somebody
\* has to be given the lock, a turn each.  An opener that is ahead of that (it has
\* passed the test of line 379, the slot is full or its event set) may come first.
NobodyResumes(s) == ~\E d \in Client : at[d] = s /\ pc[d] = "resume"
EmptiedLately(s) == slot[s].connection = None /\ ~slot[s].ready

Goto(c, l) == pc' = [pc EXCEPT ![c] = l]

\* The event of the slot is replaced by a new one: who waits for the old one
\* will not see it set.  The task c that replaced it goes on at l.
NewEvent(c, s, l) ==
    pc' = [d \in Client |-> IF d = c THEN l
                            ELSE IF at[d] = s /\ pc[d] = "wait" THEN "orphan"
                            ELSE pc[d]]

\* Mutant: the readiness event wakes one waiter only.
WakeOpener(c, s) == pc' = [pc EXCEPT ![c] = "resume"]

\* The event of the slot is set: who waits for it goes on, and so does c.
WakeWaiters(c, s) ==
    pc' = [d \in Client |-> IF d = c \/ (at[d] = s /\ pc[d] = "wait") THEN "resume"
                            ELSE pc[d]]

\* Mutants: the event is not replaced, the mark is not cleared.
ResetKeepsEvent(c, s, l) ==
    /\ slot' = [slot EXCEPT ![s] = [EmptySlot EXCEPT !.ready = slot[s].ready]]
    /\ NewEvent(c, s, l)

ResetKeepsMark(c, s, l) ==
    /\ slot' = [slot EXCEPT ![s] = [EmptySlot EXCEPT !.shouldClose = slot[s].shouldClose]]
    /\ NewEvent(c, s, l)

\* The tail of _reset_connection(), after the connection's close().
ResetSlot(c, s, l) ==
    /\ slot' = [slot EXCEPT ![s] = EmptySlot]
    /\ NewEvent(c, s, l)

\* Mutant: any task that leaves starts the idle clock.
CheckedInByAny(r, alone, conn) ==
    LET timed == IF conn # None THEN [r EXCEPT !.idle = "within"] ELSE r
    IN  IF LifespanEnabled /\ Expired(timed)
        THEN [timed EXCEPT !.shouldClose = TRUE]
        ELSE timed

\* checkin(conn) on a slot with fields r, by its only borrower or not.
CheckedIn(r, alone, conn) ==
    LET timed == IF alone /\ conn # None THEN [r EXCEPT !.idle = "within"] ELSE r
    IN  IF LifespanEnabled /\ Expired(timed)
        THEN [timed EXCEPT !.shouldClose = TRUE]
        ELSE timed

\* The limiter takes the token back and the task is out of the slot.
Release(c, s) ==
    /\ borrowers' = [borrowers EXCEPT ![s] = @ \ {c}]
    /\ at' = [at EXCEPT ![c] = None]
    /\ why' = [why EXCEPT ![c] = None]
    /\ got' = [got EXCEPT ![c] = None]

-----------------------------------------------------------------------------
(* Entering: ConnectionPool.get() picks a slot, checkout() starts *)

\* get() saw the slot available and took a token of its limiter without a
\* suspension in between; it then yields to the loop.
Acquire(c, s) ==
    /\ pc[c] = "idle"
    /\ Available(s)
    /\ borrowers' = [borrowers EXCEPT ![s] = @ \cup {c}]
    /\ at' = [at EXCEPT ![c] = s]
    /\ Goto(c, "enter")
    /\ UNCHANGED <<slot, lockq, semq, why, got, victim, transport>>

\* Mutant: checkout() does not wait for the readiness event.
StopIdleAndGo(c, s) ==
    /\ slot' = [slot EXCEPT ![s].idle = "none"]
    /\ Goto(c, "resume")

\* The last statements of checkout() before its wait: the idle clock stops.
StopIdleAndWait(c, s) ==
    /\ slot' = [slot EXCEPT ![s].idle = "none"]
    /\ Goto(c, IF slot[s].ready THEN "resume" ELSE "wait")

\* checkout() up to its first await: retire an overdue connection one holds
\* alone, or queue for the permit to create one, or share the one there is.
CheckoutStart(c) ==
    LET s == at[c]
        r == slot[s]
    IN  /\ pc[c] = "enter"
        /\ UNCHANGED <<borrowers, at, got, victim, transport>>
        /\ \/ /\ Expired(r) /\ borrowers[s] = {c}
              /\ slot' = [slot EXCEPT ![s].shouldClose = TRUE]
              /\ why' = [why EXCEPT ![c] = "retire"]
              /\ JoinLock(c, s)
              /\ Goto(c, "closeLock")
              /\ UNCHANGED semq
           \/ /\ r.connection = None
              /\ semq' = Append(semq, c)
              /\ Goto(c, "sem")
              /\ UNCHANGED <<slot, lockq, why>>
           \/ /\ r.connection # None
              /\ ~(Expired(r) /\ borrowers[s] = {c})
              /\ StopIdleAndWait(c, s)
              /\ UNCHANGED <<lockq, semq, why>>

-----------------------------------------------------------------------------
(* Opening: create() and check_readiness() under a creation permit *)

\* The permit is granted.  create() returns a connection somebody else has
\* created meanwhile, or queues for the lock to create one; in the first case
\* check_readiness() has nothing to do or queues for the lock to probe it.
SemGranted(c) ==
    LET s == at[c] IN
    /\ pc[c] = "sem"
    /\ HasPermit(c)
    /\ UNCHANGED <<borrowers, at, why, got, victim, transport>>
    /\ \/ /\ slot[s].connection = None
          /\ JoinLock(c, s)
          /\ Goto(c, "create")
          /\ UNCHANGED <<slot, semq>>
       \/ /\ slot[s].connection # None /\ slot[s].ready
          /\ LeaveSem(c)
          /\ StopIdleAndWait(c, s)
          /\ UNCHANGED lockq
       \/ /\ slot[s].connection # None /\ ~slot[s].ready
          /\ JoinLock(c, s)
          /\ Goto(c, "probeLock")
          /\ UNCHANGED <<slot, semq>>

\* connector.create() answers.  The connection is stored whatever the slot
\* holds by then, its clock starts, the lock is released; check_readiness()
\* queues for the lock again unless the event is set already.
CreateDone(c, k) ==
    LET s == at[c]
        r == [slot[s] EXCEPT !.connection = k,
                             !.age = IF LifespanEnabled THEN "within" ELSE @]
    IN  /\ pc[c] = "create"
        /\ OwnsLock(c, s)
        /\ Fresh(k)
        /\ EmptiedLately(s) => NobodyResumes(s)
        /\ transport' = [transport EXCEPT ![k] = "open"]
        /\ UNCHANGED <<borrowers, at, why, got, victim>>
        /\ \/ /\ ~r.ready
              /\ slot' = [slot EXCEPT ![s] = r]
              /\ lockq' = [lockq EXCEPT ![s] = Append(Without(@, c), c)]
              /\ Goto(c, "probeLock")
              /\ UNCHANGED semq
           \/ /\ r.ready
              /\ slot' = [slot EXCEPT ![s] = [r EXCEPT !.idle = "none"]]
              /\ LeaveLock(c, s)
              /\ LeaveSem(c)
              /\ Goto(c, "resume")

\* Mutant: the permit is not returned when create() raises.
CreateFailsWithPermit(c) ==
    /\ pc[c] = "create"
    /\ OwnsLock(c, at[c])
    /\ LeaveLock(c, at[c])
    /\ Goto(c, "failed")
    /\ UNCHANGED <<slot, semq, borrowers, at, why, got, victim, transport>>

\* connector.create() raises, outside the handler of checkout().
CreateFails(c) ==
    /\ pc[c] = "create"
    /\ OwnsLock(c, at[c])
    /\ LeaveLock(c, at[c])
    /\ LeaveSem(c)
    /\ Goto(c, "failed")
    /\ UNCHANGED <<slot, borrowers, at, why, got, victim, transport>>

\* check_readiness() has the lock and calls connector.ready(_connection).
ProbeCall(c) ==
    /\ pc[c] = "probeLock"
    /\ OwnsLock(c, at[c])
    /\ victim' = [victim EXCEPT ![c] = slot[at[c]].connection]
    /\ Goto(c, "probe")
    /\ UNCHANGED <<slot, queues, at, why, got, transport>>

\* ready() says yes: the event of the slot is set and wakes every waiter.
ProbeOk(c) ==
    LET s == at[c]
        k == victim[c]
    IN  /\ pc[c] = "probe"
        /\ k # None /\ transport[k] # "closed"
        /\ slot' = [slot EXCEPT ![s].ready = TRUE, ![s].idle = "none"]
        /\ transport' = [transport EXCEPT ![k] = IF @ = "open" THEN "probed" ELSE @]
        /\ LeaveLock(c, s)
        /\ LeaveSem(c)
        /\ victim' = [victim EXCEPT ![c] = None]
        /\ WakeWaiters(c, s)
        /\ UNCHANGED <<borrowers, at, why, got>>

\* ready() says no: _reset_connection() closes what the slot holds by now.
ProbeFalse(c) ==
    LET s == at[c]
        k == slot[s].connection
    IN  /\ pc[c] = "probe"
        /\ victim' = [victim EXCEPT ![c] = k]
        /\ UNCHANGED <<borrowers, at, why, got>>
        /\ \/ /\ k # None
              /\ transport' = [transport EXCEPT ![k] = "closing"]
              /\ Goto(c, "probeReset")
              /\ UNCHANGED <<slot, lockq, semq>>
           \/ /\ k = None
              /\ ResetSlot(c, s, "failed")
              /\ LeaveLock(c, s)
              /\ LeaveSem(c)
              /\ UNCHANGED transport

\* ... and raises ConnectionFailed: the handler finds nothing left to close.
ProbeResetDone(c) ==
    LET s == at[c] IN
    /\ pc[c] = "probeReset"
    /\ transport' = [transport EXCEPT ![victim[c]] = "closed"]
    /\ victim' = [victim EXCEPT ![c] = None]
    /\ ResetSlot(c, s, "failed")
    /\ LeaveLock(c, s)
    /\ LeaveSem(c)
    /\ UNCHANGED <<borrowers, at, why, got>>

\* ready() raises: the lock is released, and the handler of checkout() closes a
\* connection that is not ready, without the lock.
ProbeRaises(c) ==
    LET s == at[c]
        k == slot[s].connection
    IN  /\ pc[c] = "probe"
        /\ LeaveLock(c, s)
        /\ UNCHANGED <<slot, borrowers, at, why, got>>
        /\ \/ /\ k # None /\ ~slot[s].ready
              /\ victim' = [victim EXCEPT ![c] = k]
              /\ transport' = [transport EXCEPT ![k] = "closing"]
              /\ Goto(c, "cleanup")
              /\ UNCHANGED semq
           \/ /\ k = None \/ slot[s].ready
              /\ victim' = [victim EXCEPT ![c] = None]
              /\ LeaveSem(c)
              /\ Goto(c, "failed")
              /\ UNCHANGED transport

CleanupDone(c) ==
    /\ pc[c] = "cleanup"
    /\ transport' = [transport EXCEPT ![victim[c]] = "closed"]
    /\ victim' = [victim EXCEPT ![c] = None]
    /\ ResetSlot(c, at[c], "failed")
    /\ LeaveSem(c)
    /\ UNCHANGED <<lockq, borrowers, at, why, got>>

-----------------------------------------------------------------------------
(* Closing: close() for a retirement, expire_conn(), get() or closeall() *)

\* close() has the lock: _reset_connection() calls the connection's close().
CloseCall(c) ==
    LET s == at[c]
        k == slot[s].connection
    IN  /\ pc[c] = "closeLock"
        /\ OwnsLock(c, s)
        /\ k # None
        /\ victim' = [victim EXCEPT ![c] = k]
        /\ transport' = [transport EXCEPT ![k] = "closing"]
        /\ Goto(c, "closing")
        /\ UNCHANGED <<slot, queues, at, why, got>>

\* Mutant: an error of the connection's close() leaves close() before the reset.
FinishCloseRaises(c) ==
    /\ why[c] # "retire"
    /\ LeaveLock(c, at[c])
    /\ Release(c, at[c])
    /\ Goto(c, "idle")
    /\ UNCHANGED <<slot, semq>>

\* The rest of close(), with the lock, and what its caller does next:
\* checkout() queues for a permit to create, the task that called expire_conn()
\* leaves through checkin(), get() and closeall() are done with the slot.
FinishClose(c) ==
    LET s == at[c] IN
    /\ LeaveLock(c, s)
    /\ \/ /\ why[c] = "retire"
          /\ ResetSlot(c, s, "sem")
          /\ semq' = Append(semq, c)
          /\ why' = [why EXCEPT ![c] = None]
          /\ UNCHANGED <<borrowers, at, got>>
       \/ /\ why[c] = "expire"
          /\ slot' = [slot EXCEPT ![s] = CheckedIn(EmptySlot, borrowers[s] = {c}, got[c])]
          /\ NewEvent(c, s, "idle")
          /\ Release(c, s)
          /\ UNCHANGED semq
       \/ /\ why[c] \in {"sweep", "closeall"}
          /\ ResetSlot(c, s, "idle")
          /\ Release(c, s)
          /\ UNCHANGED semq

\* The connection's close() returns or raises, which is the same to the pool.
CloseDone(c) ==
    /\ pc[c] = "closing"
    /\ transport' = [transport EXCEPT ![victim[c]] = "closed"]
    /\ victim' = [victim EXCEPT ![c] = None]
    /\ FinishClose(c)

\* Somebody else emptied the slot while close() queued for the lock.
CloseNothing(c) ==
    /\ pc[c] = "closeLock"
    /\ OwnsLock(c, at[c])
    /\ slot[at[c]].connection = None
    /\ FinishClose(c)
    /\ UNCHANGED <<victim, transport>>

\* close() finds a connection and queues for the lock.
BeginClose(c, s, reason) ==
    /\ slot[s].connection # None
    /\ at' = [at EXCEPT ![c] = s]
    /\ why' = [why EXCEPT ![c] = reason]
    /\ JoinLock(c, s)
    /\ Goto(c, "closeLock")
    /\ UNCHANGED <<slot, semq, borrowers, got, victim, transport>>

\* get() finds a slot it cannot use but can close.
Sweep(c, s) ==
    /\ pc[c] = "idle"
    /\ ~Available(s)
    /\ Closeable(s) \/ Stuck(s)
    /\ BeginClose(c, s, "sweep")

\* One of the tasks closeall() starts, one per slot.
CloseAll(c, s) ==
    /\ pc[c] = "idle"
    /\ BeginClose(c, s, "closeall")

-----------------------------------------------------------------------------
(* Leaving: the readiness wait, the deadline, checkin() *)

\* Event.wait() returns and checkout() returns what the slot holds by now.
Resume(c) ==
    /\ pc[c] = "resume"
    /\ got' = [got EXCEPT ![c] = slot[at[c]].connection]
    /\ Goto(c, "acquired")
    /\ UNCHANGED <<slot, queues, at, why, victim, transport>>

\* get() hands the connection out, unless there is none or the slot is marked.
Hand(c) ==
    /\ pc[c] = "acquired"
    /\ got[c] # None /\ ~slot[at[c]].shouldClose
    /\ Goto(c, "using")
    /\ UNCHANGED <<slot, queues, at, why, got, victim, transport>>

\* checkin(got) and the limiter's exit, without a suspension.
Leave(c) ==
    LET s == at[c] IN
    /\ slot' = [slot EXCEPT ![s] = CheckedIn(@, borrowers[s] = {c}, got[c])]
    /\ Release(c, s)
    /\ Goto(c, "idle")
    /\ UNCHANGED <<lockq, semq, victim, transport>>

\* Otherwise get() leaves the slot and looks further.
Skip(c) ==
    /\ pc[c] = "acquired"
    /\ got[c] = None \/ slot[at[c]].shouldClose
    /\ Leave(c)

\* The caller's with block ends, normally or by an error that does not expire
\* the connection.
UserDone(c) ==
    /\ pc[c] = "using"
    /\ Leave(c)

\* Mutant: the slot the caller works on is closed, whatever it holds.
ExpireWhatever(c) == pc[c] = "using" /\ BeginClose(c, at[c], "expire")

\* The caller expires the connection it uses.  expire_conn() looks for the slot
\* that holds it: there is none if the connection was closed meanwhile.
ExpireConn(c) ==
    /\ pc[c] = "using"
    /\ \/ \E s \in Slot : slot[s].connection = got[c] /\ BeginClose(c, s, "expire")
       \/ (\A s \in Slot : slot[s].connection # got[c]) /\ Leave(c)

\* An exception leaves acquire(): the token is returned, checkin() is not called.
LeaveFailed(c) ==
    /\ pc[c] = "failed"
    /\ Release(c, at[c])
    /\ Goto(c, "idle")
    /\ UNCHANGED <<slot, lockq, semq, victim, transport>>

\* A cancellation is caught by acquire(), which yields None, or goes through it.
Cancelled == {"acquired", "failed"}

\* Mutant: the wait for readiness is outside the scope of the deadline.
InterruptibleOpening == {"sem", "create"}

\* Awaits in the scope of the deadline that leave nothing behind.
Interruptible == {"sem", "create", "wait", "orphan", "resume"}

\* The deadline of acquire() passes, or the caller is cancelled, where checkout()
\* has no connection to clean up: queued primitives are left, a close() of a
\* retirement stays half done.
Timeout(c) ==
    LET s == at[c] IN
    /\ \/ pc[c] \in Interruptible
       \/ pc[c] \in {"closeLock", "closing"} /\ why[c] = "retire"
    /\ LeaveLock(c, s)
    /\ LeaveSem(c)
    /\ why' = [why EXCEPT ![c] = None]
    /\ victim' = [victim EXCEPT ![c] = None]
    /\ \E l \in Cancelled : Goto(c, l)
    /\ UNCHANGED <<slot, borrowers, at, got, transport>>

\* The same inside check_readiness(): the handler calls _reset_connection() on a
\* connection that is not ready, but inside the cancelled scope: unless close()
\* returns without a suspension it is cancelled too and the reset is abandoned.
TimeoutProbe(c) ==
    LET s == at[c]
        k == slot[s].connection
    IN  /\ pc[c] \in {"probeLock", "probe", "probeReset", "cleanup"}
        /\ LeaveLock(c, s)
        /\ LeaveSem(c)
        /\ victim' = [victim EXCEPT ![c] = None]
        /\ UNCHANGED <<borrowers, at, why, got>>
        /\ \E l \in Cancelled :
             \/ /\ k = None \/ slot[s].ready \/ pc[c] = "cleanup"
                /\ Goto(c, l)
                /\ UNCHANGED <<slot, transport>>
             \/ /\ k # None /\ ~slot[s].ready /\ pc[c] # "cleanup"
                /\ \/ /\ transport' = [transport EXCEPT ![k] = "closed"]
                      /\ ResetSlot(c, s, l)
                   \/ /\ transport' = [transport EXCEPT ![k] = "closing"]
                      /\ Goto(c, l)
                      /\ UNCHANGED slot

-----------------------------------------------------------------------------
(* Time *)

\* The idle time of a slot exceeds max_idle_ns.
IdlePasses(s) ==
    /\ slot[s].idle = "within"
    /\ slot' = [slot EXCEPT ![s].idle = "over"]
    /\ UNCHANGED <<queues, tasks, transport>>

\* The age of a connection exceeds max_lifespan_ns.
AgePasses(s) ==
    /\ slot[s].age = "within"
    /\ slot' = [slot EXCEPT ![s].age = "over"]
    /\ UNCHANGED <<queues, tasks, transport>>

-----------------------------------------------------------------------------
\* Steps of the pool's own code: they happen once nothing they wait for is missing.
Proceed(c) ==
    \/ CheckoutStart(c) \/ SemGranted(c) \/ ProbeCall(c)
    \/ CloseCall(c) \/ CloseNothing(c)
    \/ Resume(c) \/ Hand(c) \/ Skip(c) \/ LeaveFailed(c)

\* What the service, the clock and the caller do.
CreateAnswers(c) == (\E k \in Conn : CreateDone(c, k)) \/ CreateFails(c)
ProbeAnswers(c)  == ProbeOk(c) \/ ProbeFalse(c) \/ ProbeRaises(c)
CloseReturns(c)  == CloseDone(c) \/ ProbeResetDone(c) \/ CleanupDone(c)
Deadline(c)      == Timeout(c) \/ TimeoutProbe(c)
Uses(c)          == UserDone(c) \/ ExpireConn(c)
Gets(c)          == \E s \in Slot : Acquire(c, s) \/ Sweep(c, s)

Next ==
    \/ \E c \in Client :
         Proceed(c) \/ CreateAnswers(c) \/ ProbeAnswers(c) \/ CloseReturns(c)
         \/ Deadline(c) \/ Uses(c) \/ Gets(c)
         \/ \E s \in Slot : CloseAll(c, s)
    \/ \E s \in Slot : IdlePasses(s) \/ AgePasses(s)

Spec == Init /\ [][Next]_vars

\* The loop runs every task that can run, the connection's close() returns, the
\* deadline of acquire() passes and callers finish.  Nothing is assumed of
\* connector.create() and connector.ready(), which may never answer.
Fairness ==
    \A c \in Client : /\ WF_vars(Proceed(c))
                      /\ WF_vars(CloseReturns(c))
                      /\ WF_vars(Deadline(c))
                      /\ WF_vars(Uses(c))

FairSpec == Spec /\ Fairness

\* Callers keep calling get().
BusySpec == FairSpec /\ \A c \in Client : WF_vars(Gets(c))
-----------------------------------------------------------------------------
(* Properties of every configuration *)

\* A task at these points, and nobody else, holds a token of its slot.
HoldsToken(c) ==
    /\ pc[c] # "idle"
    /\ ~(pc[c] \in {"closeLock", "closing"} /\ why[c] \in {"sweep", "closeall"})

TokensAccounted ==
    \A s \in Slot : borrowers[s] = {c \in Client : HoldsToken(c) /\ at[c] = s}

\* Whichever way a task leaves, by a return, an exception of the connector or a
\* cancellation, it has given back what it took: the tokens, locks and permits
\* taken are exactly those of the tasks that are where these are needed.
ResourcesAccounted ==
    /\ TokensAccounted
    /\ \A s \in Slot : ToSet(lockq[s]) = {c \in Client : pc[c] \in Locking /\ at[c] = s}
    /\ ToSet(semq) = {c \in Client : pc[c] \in Creating}

\* A slot withdrawn from service (_should_close) still holds a connection.  close()
\* returns early without one, so a marked empty slot would never come back.
MarkedHasConnection ==
    \A s \in Slot : slot[s].shouldClose => slot[s].connection # None

\* A task that waits for the connection of its slot, has been handed it or uses it.
Busy(c) == \/ pc[c] \in {"wait", "orphan", "resume", "using"}
           \/ pc[c] = "acquired" /\ got[c] # None

\* The idle clock (last_idle_start) never runs while somebody waits for the
\* connection or uses it: no connection at work can be retired for being idle.
BusyIsNotIdle == \A c \in Client : Busy(c) => slot[at[c]].idle = "none"

\* Nobody waits for the event the slot has now when it is set already or the slot
\* is empty: set() misses none of the waiters of that event.  It says nothing of
\* the tasks whose event _reset_connection() replaced: see OrphansWaitForClosed.
SetReachesWaiters ==
    \A c \in Client :
        pc[c] = "wait" => slot[at[c]].connection # None /\ ~slot[at[c]].ready

\* When expire_conn() returns, whoever closed or refilled the slot while it queued
\* for the lock, no slot holds the connection it was asked to expire: get() cannot
\* hand it out again.
ExpiryTakesEffect ==
    [][\A c \in Client :
         pc[c] \in {"closeLock", "closing"} /\ why[c] = "expire" /\ pc'[c] = "idle"
         => \A s \in Slot : slot'[s].connection # got[c]]_vars

\* A retirement by checkout() and a sweep by get() close a connection that nobody
\* else holds, from the moment they get the lock until the close is over.
ClosesAlone ==
    \A c \in Client : pc[c] = "closing" /\ why[c] \in {"retire", "sweep"}
                      => borrowers[at[c]] \subseteq {c}

\* connection_pooling.py:476 "Max number of connections that can be created
\* simultaneously across all pool slots" and :468 "The max clients allowed _per_
\* connection" hold whatever the interleaving: a permit or a token that is given
\* back late or twice, or taken out of turn, would break them.
LimitsAreKept ==
    /\ Cardinality({c \in Client : pc[c] \in Admitted}) <= MaxConcurrentCreates
    /\ \A k \in Conn : Cardinality({c \in Client : got[c] = k}) <= ClientLimit

-----------------------------------------------------------------------------
(* Properties of a pool that creates one connection at a time: with a      *)
(* max_size of at most five that is the default, max(max_size // 3, 1)     *)

\* expire_conn() closes the connection it was asked to close or nothing: by the
\* time close() gets the lock the slot does not hold a successor of it.
ExpiresItsOwn ==
    \A c \in Client : pc[c] = "closeLock" /\ why[c] = "expire" /\ OwnsLock(c, at[c])
                      => slot[at[c]].connection \in {got[c], None}

\* A slot is ready only with a connection that said so itself, though its close()
\* may run.
ReadyHasConnection ==
    \A s \in Slot : slot[s].ready =>
        /\ slot[s].connection # None
        /\ transport[slot[s].connection] \in {"probed", "closing"}

\* Every connection that is not closed is held by a slot or by the task that
\* closes it: none stays open that nobody can close.
NoLeak ==
    \A k \in Conn : transport[k] # "closed" =>
        \/ \E s \in Slot : slot[s].connection = k
        \/ \E c \in Client : victim[c] = k /\ pc[c] \in {"closing", "probeReset", "cleanup"}

\* A task is left with an event that nobody will set (connection_pooling.py:412)
\* only when the connection it waited for is closed: it never waits in vain, until
\* its deadline, while the slot still has that connection or could use it.
OrphansWaitForClosed ==
    [][\A c \in Client : pc[c] = "wait" /\ pc'[c] = "orphan"
                        => /\ slot[at[c]].connection # None
                           /\ transport'[slot[at[c]].connection] = "closed"]_vars

\* A connection a caller uses is closed under it by expire_conn() and closeall()
\* only: retirements, sweeps and failed openings leave it alone.
UsersLoseItToExpiryOnly ==
    [][\A k \in Conn :
         /\ transport[k] \in {"open", "probed"} /\ transport'[k] \in {"closing", "closed"}
         /\ \E c \in Client : pc[c] = "using" /\ pc'[c] = "using" /\ got[c] = k
         => \E d \in Client : /\ pc'[d] = "closing" /\ victim'[d] = k
                              /\ why[d] \in {"expire", "closeall"}]_vars

\* The connection a caller is handed has said it is ready, even when the slot has
\* been emptied and filled while the caller was waiting.
HandedIsProbed ==
    [][\A c \in Client : pc[c] = "acquired" /\ pc'[c] = "using" => transport[got[c]] # "open"]_vars

-----------------------------------------------------------------------------
(* What the repository says of the program and a run refutes *)

\* docs/connection-pooling.md:208 "Opening: Only one client can create the
\* connection": who has the lock to create finds the slot empty.
OnlyOneCreates ==
    \A c \in Client : pc[c] = "create" /\ OwnsLock(c, at[c])
                      => slot[at[c]].connection = None

\* tla+/SharedTransportConnection.tla:65 "if ready_event is set, connection must
\* exist".
NoReadyWithoutConn == \A s \in Slot : slot[s].ready => slot[s].connection # None

\* connection_pooling.py:563 "Stuck connection: has an open transport but readiness
\* was never established ... Close it so the slot can be reused": an open slot that
\* is not ready and that nobody opens or closes does not stay so.  (It does: nobody probes
\* its connection again, line 307; callers wait for the event until their deadline.)
Abandoned(s) ==
    /\ slot[s].connection # None /\ ~slot[s].ready
    /\ ~\E c \in Client : at[c] = s /\ pc[c] \in Locking \cup Creating

NeverStuckPermanently == \A s \in Slot : Abandoned(s) ~> ~Abandoned(s)
=============================================================================
