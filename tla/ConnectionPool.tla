--------------------------- MODULE ConnectionPool ---------------------------
(***************************************************************************)
(* ConnectionPool.get() over the slots of SharedTransportConnection: the   *)
(* loop that picks slots for a caller until one gives it a connection or   *)
(* its time is up.  The slots behave as in SharedTransportConnection, but  *)
(* a caller takes and closes only the slots its loop comes to.             *)
(***************************************************************************)
EXTENDS SharedTransportConnection

CONSTANTS
    GetTimeout,  \* timeout of get(), in units of time.monotonic()
    MaxRound     \* bound: the longest round of the loop, in the same units

ASSUME PoolAssumption == GetTimeout \in Nat \ {0} /\ MaxRound \in Nat \ {0} /\ IsFiniteSet(Slot)

VARIABLES
    stage,   \* where a caller is in get()
    todo,    \* the slots of this round it has not come to
    waited,  \* latest - now at the end of its last round
    total    \* total_time

loop     == <<stage, todo, waited, total>>
poolVars == <<vars, loop>>

Stage == {"out",    \* outside of get()
          "round",  \* in the for loop, or in the caller's with block
          "sleep"}  \* at the end of a round

PoolTypeOK ==
    /\ TypeOK
    /\ stage \in [Client -> Stage]
    /\ todo \in [Client -> Seq(Slot)]
    /\ waited \in [Client -> 0..GetTimeout]
    /\ total \in [Client -> 0..GetTimeout]

PoolInit ==
    /\ Init
    /\ stage = [c \in Client |-> "out"]
    /\ todo = [c \in Client |-> << >>]
    /\ waited = [c \in Client |-> 0]
    /\ total = [c \in Client |-> 0]

-----------------------------------------------------------------------------
(* The candidates of a round *)

\* conn_check_n: math.floor(max_size // 1.25) or 1
ConnCheckN == LET n == (4 * Cardinality(Slot)) \div 5 IN IF n = 0 THEN 1 ELSE n

\* time_spent_idle as far as the model tells it: 0, not overdue, overdue.
IdleRank(s) == CASE slot[s].idle = "none"   -> 0
                 [] slot[s].idle = "within" -> 1
                 [] slot[s].idle = "over"   -> 2

\* Mutant: the slots with most callers first.
BusierFirst(s, t) ==
    \/ Count(s) > Count(t)
    \/ Count(s) = Count(t) /\ IdleRank(s) > IdleRank(t)

\* __lt__: fewer callers, then idle for longer.
Fresher(s, t) ==
    \/ Count(s) < Count(t)
    \/ Count(s) = Count(t) /\ IdleRank(s) > IdleRank(t)

\* What heapq.nsmallest(conn_check_n, pool) may return.
Smallest ==
    {q \in [1..ConnCheckN -> Slot] :
        /\ IsInjective(q)
        /\ \A i, j \in 1..ConnCheckN : i < j => ~Fresher(q[j], q[i])
        /\ \A t \in Slot \ Range(q), i \in 1..ConnCheckN : ~Fresher(t, q[i])}

-----------------------------------------------------------------------------
(* get() *)

\* get() does something with the slot s, and waits for it.
Actionable(s) == Available(s) \/ Closeable(s) \/ Stuck(s)

\* The for loop over q, up to its next await: the first slot to do something
\* with, or the sleep after the last one.
Visit(c, q) ==
    \/ \E i \in DOMAIN q :
         /\ \A j \in 1..(i - 1) : ~Actionable(q[j])
         /\ Acquire(c, q[i]) \/ Sweep(c, q[i])
         /\ stage' = [stage EXCEPT ![c] = "round"]
         /\ todo' = [todo EXCEPT ![c] = SubSeq(q, i + 1, Len(q))]
    \/ /\ pc[c] = "idle"
       /\ \A i \in DOMAIN q : ~Actionable(q[i])
       /\ stage' = [stage EXCEPT ![c] = "sleep"]
       /\ todo' = [todo EXCEPT ![c] = << >>]
       /\ UNCHANGED vars

GetBegin(c) ==
    /\ stage[c] = "out"
    /\ \E q \in Smallest : Visit(c, q)
    /\ UNCHANGED <<waited, total>>

\* The slot gave no connection, or was closed: the for loop goes on.
GetContinue(c) ==
    /\ stage[c] = "round"
    /\ Visit(c, todo[c])
    /\ UNCHANGED <<waited, total>>

\* The sum the code keeps after a round of d units: `now` stays what it was when
\* get() was called, so the whole time since then is added.
TotalAfter(c, d) == total[c] + (waited[c] + d)

GetAgain(c, d) ==
    /\ stage[c] = "sleep"
    /\ TotalAfter(c, d) < GetTimeout
    /\ waited' = [waited EXCEPT ![c] = @ + d]
    /\ total' = [total EXCEPT ![c] = TotalAfter(c, d)]
    /\ \E q \in Smallest : Visit(c, q)

\* get() returns or raises: its locals are gone.  The sleep of line 570 and the heapify
\* of line 575, which follow the caller's use of the connection, are left out: the
\* task holds nothing there, and Smallest allows slots that compare equal in any order.
Return(c) ==
    /\ stage' = [stage EXCEPT ![c] = "out"]
    /\ todo' = [todo EXCEPT ![c] = << >>]
    /\ waited' = [waited EXCEPT ![c] = 0]
    /\ total' = [total EXCEPT ![c] = 0]

\* ConnectionsExhausted
Exhausted(c, d) ==
    /\ stage[c] = "sleep"
    /\ TotalAfter(c, d) >= GetTimeout
    /\ Return(c)
    /\ UNCHANGED vars

-----------------------------------------------------------------------------
(* The slots at work for the caller *)

\* Mutant: the caller is out of get() before expire_conn() is done.
LeavesWithoutWaiting(c) == pc[c] \in {"using", "failed"}

\* The step takes c out of the with block of get(), or an exception does.
LeavesGet(c) ==
    /\ pc'[c] = "idle"
    /\ pc[c] \in {"using", "failed"} \/ why[c] = "expire"

SlotStep(c) ==
    /\ \/ Proceed(c) \/ CreateAnswers(c) \/ ProbeAnswers(c) \/ CloseReturns(c)
       \/ Deadline(c) \/ Uses(c)
    /\ IF LeavesGet(c) THEN Return(c) ELSE UNCHANGED loop

\* closeall() is called outside of get().
PoolCloseAll(c) ==
    /\ stage[c] = "out"
    /\ \E s \in Slot : CloseAll(c, s)
    /\ UNCHANGED loop

GetStep(c) ==
    \/ GetBegin(c) \/ GetContinue(c)
    \/ \E d \in 1..MaxRound : GetAgain(c, d) \/ Exhausted(c, d)

PoolNext ==
    \/ \E c \in Client : GetStep(c) \/ SlotStep(c) \/ PoolCloseAll(c)
    \/ \E s \in Slot : (IdlePasses(s) \/ AgePasses(s)) /\ UNCHANGED loop

PoolSpec == PoolInit /\ [][PoolNext]_poolVars

\* As in SharedTransportConnection; the loop runs on once it has begun.
PoolFairness ==
    \A c \in Client :
        /\ WF_poolVars(Proceed(c) /\ SlotStep(c))
        /\ WF_poolVars(CloseReturns(c) /\ SlotStep(c))
        /\ WF_poolVars(Deadline(c) /\ SlotStep(c))
        /\ WF_poolVars(Uses(c) /\ SlotStep(c))
        /\ WF_poolVars(GetStep(c) /\ stage[c] # "out")

FairPoolSpec == PoolSpec /\ PoolFairness

-----------------------------------------------------------------------------
(* Properties *)

\* A caller that begins joins the connection of other callers only when no slot
\* without callers can take it: the pool spreads callers before it shares.
SharesLast ==
    [][\A c \in Client, s \in Slot :
         stage[c] = "out" /\ pc'[c] = "enter" /\ at'[c] = s /\ Count(s) > 0
         => \A t \in Slot : ~(Available(t) /\ Count(t) = 0)]_poolVars

\* A caller is nowhere in a slot while its loop sleeps or it is outside of get(),
\* closeall() apart: no token, lock or permit outlives the get() it was taken for.
NothingOutlivesGet ==
    \A c \in Client :
        stage[c] \in {"out", "sleep"} => pc[c] = "idle" \/ why[c] = "closeall"

\* Every get() ends, with a connection that is given back or with an exception, and so
\* does every closeall(), though the service may never answer create() and ready()
\* and the event a caller waits for may be replaced.
GetEnds ==
    \A c \in Client :
        ~(stage[c] = "out" /\ pc[c] = "idle") ~> (stage[c] = "out" /\ pc[c] = "idle")

\* A slot withdrawn from service comes back as long as callers call get(): its last
\* user leaves and a sweep closes it.
MarkedRecovers ==
    (\A c \in Client : []<><<GetBegin(c)>>_poolVars)
        => \A s \in Slot : slot[s].shouldClose ~> ~slot[s].shouldClose

-----------------------------------------------------------------------------
(* What the repository says of the program and a run refutes *)

\* docs/connection-pooling.md:303 "pool_get_timeout ... 60 ... Timeout for acquiring
\* pool connections": get() gives up, if it does, in the round its time is up.
TimeoutHonoured ==
    [][\A c \in Client : stage[c] = "sleep" /\ stage'[c] = "out"
         => waited[c] + MaxRound >= GetTimeout]_poolVars
=============================================================================
