# Formal models of aio-azure-clients-toolbox

The toolbox wraps Azure's asynchronous Python SDK. Its own logic is a connection pool whose
slots are shared by asyncio tasks (`connection_pooling.py`), the clients that use the pool
(`clients/service_bus.py`, `eventhub.py`, `cosmos.py`), and unpooled clients that create, share
and close SDK objects lazily. The modules here model that logic in TLA+; TLC checks it on small
instances, and TLAPS proves what matters most for every instance. Line numbers refer to the
commit next to this directory; paths are relative to `aio_azure_clients_toolbox/`.

## 1. Inventory

| Component | State | Operations | What is hard | What makes it correct |
|---|---|---|---|---|
| `SharedTransportConnection` | `_connection`, `_ready` event, `_should_close`, idle and age clocks, `_open_close_lock`, `client_limiter`, the pool's `_creation_semaphore` | `acquire`, `checkout`, `create`, `check_readiness`, `checkin`, `close`, `_reset_connection` | every await is a switch: fields are read before an await and used after it; the exception handler of `checkout` resets without the lock; the event is *replaced* while tasks wait for it; deadlines and cancellations hit any await | nothing leaks (tokens, permits, locks, connections); nobody is handed an unprobed connection; `set()` reaches the waiters of its event, and a task left with a replaced event waited for a connection that is gone; a close hits the connection it was meant for, and an expired one is gone |
| `ConnectionPool` | the slots, and the locals of each `get()` | `get`, `expire_conn`, `closeall` | the loop chooses slots, sweeps, sleeps, sums up its time | every `get()` ends and gives back what it took; callers spread before they share; a withdrawn slot comes back |
| `ManagedAzureServiceBusSender` | `send_attempts`, the pool | `send_message`, `ready`, `get_receiver`, `close` | a timed out send may have been carried out; several callers expire one connection | a bounded number of attempts, every call ends |
| `ManagedAzureEventhubProducer` | the pool | four send methods, `ready`, `create` | as above, other errors | as above |
| `ManagedCosmos` | the pool | `get_container_client`, `ready`, `create` | an aiohttp session closes under its users | as above |
| `Eventhub` | `_client`, the credential | `client`, `send_*`, `close` | `close` awaits the client and then forgets whichever client is there; the property re-creates it | no closed client is kept unless a `close()` raised; in the pool none is stranded |
| `ConnectionManager`, `Cosmos` | client, credential, database, container, creation time | `__aenter__`, `__aexit__`, `recycle_container`, `Cosmos.close` | no lock at all: recycling reads client, awaits, reads credential, awaits, resets | no client or credential is stranded; an entering task gets a usable one |
| `AzureServiceBus`, `SendClientCloseWrapper` | receiver, its credential, sender with its credential | `get_receiver`, `get_sender`, `send_message`, `close` | `close` awaits three ends one after the other while others are created | no closed end is kept; with one closer none is stranded and credentials go last |
| `SimpleCosmos`, as a connection of the pool | client, credential, container | `get_container_client`, `close` | two tasks may run `close` of one connection; each resets what the other tests | nothing stays open when the slot drops it |
| `AzureBlobStorageClient` | none of its own; the container and the files it downloads to | uploads, `delete_blob`, `download_blob_to_dir`, `blobify_filename` | the file is named after the last part of the blob's name and opened before the blob is asked for; a blob is replaced while it streams | the path returned leads to the whole blob; a name is what Azure accepts |
| `PatchOp`, `Operation` | a table of constants | `as_op` | - | not modelled |
| `EventGridClient` | immutable tables of SDK clients | `emit_event`, `async_emit_event`: one delegated `send` | - | not modelled |
| credential types, fixtures, scripts | none | - | - | not modelled |

How they interact: a managed client owns a `ConnectionPool` and is the pool's connector
(`create()`, `ready()`). A call of the client runs `pool.get()`, which picks a slot; the slot
opens (lock and permit), probes and shares the connection; after an error the client calls
`pool.expire_conn()`, which closes the slot's connection under the same lock while other callers
may still use it. In the pool a connection is an `Eventhub`, a `SendClientCloseWrapper` or a
`SimpleCosmos` object, whose `close()` the slot calls.

## 2. Modules

| Module | Models | Runs |
|---|---|---|
| `SharedTransportConnection` | the slots: one action per await-to-await segment of `acquire`/`checkout`/`create`/`check_readiness`/`close` | `two_permits`, `only_one_creates`, `ready_without_conn`, `stuck_slot` (through `MCSharedTransportConnection`) |
| `ConnectionPool` | extends it with the loop of `get()` and `closeall()` | `pool`, `progress`, `timeout_honoured` (through `MCConnectionPool`) |
| `PooledConnections` | the abstract promise of the pool to the clients, without locks, events, permits, deadlines | as `KeepsPromise` |
| `PoolPromise` | the refinement mapping from the slots to `PooledConnections` | `one_permit` |
| `ManagedClients` | the calls of the three managed clients over `PooledConnections` | `managed_clients` |
| `Tasks` | the constants the object models share: tasks, those that close, names of SDK objects | - |
| `Eventhub` | the producer object, alone or in the pool | `client_objects` |
| `CosmosConnectionManager` | `ConnectionManager` and `Cosmos` | `client_objects`, `cosmos_alive` |
| `ServiceBus` | `AzureServiceBus`, and the receivers of the managed sender | `client_objects`, `receiver_is_kept` |
| `PooledTransports` | a connection of the pool from the inside: `create()`, `ready()`, `close()` of the three managed clients | `client_objects` |
| `BlobStorage` | uploads, deletions and downloads to files | `client_objects` |
| `BlobNames` | `blobify_filename()` | `client_objects` |
| `MCClientObjects` | explores the six modules above, each alone | `client_objects` |
| `SharedTransportConnection_proofs`, `SharedTransportQueues_proofs`, `SharedTransportPermit_proofs`, `ConnectionPool_proofs`, `ManagedClients_proofs`, `CosmosConnectionManager_proofs`, `ServiceBus_proofs`, `ClientObjects_proofs` | the theorems of section 5; the first four build on one another in this order, and `ClientObjects_proofs` on the two before it | - |

The other `MC*` modules only add symmetry sets. Operators marked "Mutant" are plausible slips in the
code (a guard dropped, an event not replaced, a permit not returned) that are used to see
that a property notices them; no specification refers to them.

### 2.1 SharedTransportConnection

State and code:

| Variable | In the code |
|---|---|
| `slot[s]` | `_connection`, `_ready.is_set()`, `_should_close`, `last_idle_start`, `connection_created_ts` |
| `lockq[s]`, `semq`, `borrowers[s]` | the queue of `_open_close_lock`, of the pool's `_creation_semaphore`, and the tasks that hold a token of `client_limiter` |
| `pc`, `at`, `why`, `got`, `victim` | where a task is suspended and the locals it carries over the await |
| `transport` | what really became of a connection, whoever still refers to it |

- **One action is what a task does from one await to the next.** asyncio tasks are cooperative,
  so the interleavings of these actions are those of the event loop. `CheckoutStart`, for
  instance, is lines 289-312: the expiry test, the mark, the queueing.
- **Synchronizers** are anyio's: FIFO queues whose head owns the resource; a release hands it
  over at once. They are external to the repository and modelled from their use.
- **A task whose event was set runs in the next turn of the loop**, so before a slot that was emptied can be
  filled again (which costs several turns). `EmptiedLately(s) => NobodyResumes(s)` in `CreateDone` says so. An opener that was ahead of that,
  past the test of line 379 of a slot that is full or whose event is set, may fill it in any order. With three openers
  of one slot the guard leaves out one order: the first is past `create()` and has yet to run, the second empties the slot, the third
  fills it at once. The runs have two permits at most and lone openers never get there; what is proved for three permits or more is
  proved without that order.
- **Clocks** are `none`, `within` or `over`; `IdlePasses` and `AgePasses` let them run out at any
  time. That is all `expired` and `checkin` can tell.
- **Connectors are abstract**: `create()` succeeds or raises, `ready()` says yes, no, raises or
  never answers, and `close()` returns; its exception is swallowed by the code, as modelled.
- **Deadlines**: `Timeout` and `TimeoutProbe` are the `fail_after` of `acquire()`, possible at every
  interruptible await; a cancellation by the caller takes the same paths. A close that
  is cut short leaves its transport `closing` for ever.
- **Sweep** (`get()` closing a slot) and **closeall** run in the task that calls them, without a
  token: `why` tells them apart from a retirement by `checkout()` and an expiry.
- **Names** of connections are recycled once nobody refers to them (`Fresh`), so that
  runs of any length fit a few names.
- Not modelled: a cancellation inside expiry, sweep and closeall closes, and at the two yields
  before and after `checkout()`; nested `get()` calls by one task; the pickling helpers and logging.

### 2.2 ConnectionPool

`GetBegin`, `GetContinue`, `GetAgain` and `Exhausted` are the `while`/`for` loops of
`get()` (521-579); `Visit` is the body for one slot, `Smallest` what `heapq.nsmallest` may return
under `__lt__`. `total` and `waited` keep the sum the code keeps (line 572), in abstract units: a
round takes up to `MaxRound` units (a bound) and `GetTimeout` is the timeout. The sleep (570) and the `heapify` (575) after a
successful use are left out: the task holds nothing there, and `Smallest` allows slots that compare equal in any order.

### 2.3 PooledConnections and ManagedClients

`PooledConnections` is what a client may count on: a slot shows at most one connection, one that was
probed, and shows another only after it is closed. It deliberately allows what the code
does: a connection closed while callers hold it, and handed out while its close runs.
`ManagedClients` puts the send calls on top: `Send` is a `get()` and the start of one SDK call, `Retry`, `Raise` and
`Expire` are the `except` clauses, told apart by the table `Reaction` of the client. An operation is one call of the SDK with the retries
the SDK makes inside of it (service_bus.py:209), so the module says nothing of how often the service gets a message; it
counts operations. Which client it is and `send_attempts` are fixed in the first state. A slot may close at any time, under calls at work too
(`SlotCloses` has no guard beyond `PooledConnections`): expiries, `closeall()` and, with several permits, failed probes of
others are all in it. That `expire_conn()` leaves no slot with the connection is assumed here by `Expired` and checked of the slots as
`ExpiryTakesEffect`. Building an Event Hubs batch makes no request once the connection was probed and is part of `Send`.

### 2.4 Eventhub and CosmosConnectionManager

Both objects have no lock, so an action is again a segment between awaits, and the local a
`close()` carries over its await (`mine`, `victim`) is told apart from the attribute it resets
afterwards. `Eventhub.pooled` distinguishes callers that reach the client by `__getattr__`
(the managed client) from those that go through the `client` property, which re-creates it. A `close()` of the
producer that raises or is cancelled leaves it open or closed, and the attribute as it was (`CloseRaises`); `closeFailed` is a history
variable that remembers one, for `ClientIsOpen`. In
`CosmosConnectionManager`, `lifespan` is `lifespan_enabled`, and `fails` whether the SDK's constructor
may raise; `Cosmos` always uses a manager without a lifespan, so only there `CosmosClose` is possible.
`_client`, `_database` and `_container` are set and reset together and are one variable.

### 2.5 ServiceBus

`get_receiver()` and `get_sender()` do not await and are one action each; `close()` is one action per
part, in `CloseOrder`: `GoOn` finds the next attribute that is set *when it is tested*, which may be one that was created
after `close()` began. The managed client makes a new `AzureServiceBus` at each `get_receiver()`; `bus` holds
the attributes of every such object and `proxied` the one that `close()` will close. How an application uses the
objects (`usage`) is chosen in the first state: managed or not, with credentials or not, who
may close, whether `close()` may raise, and whether receivers are used in `async with`.

### 2.6 PooledTransports

What the slots call `create()`, `ready()` and `close()` is opened up here for the three families of connections.
`ready()` is one action per request; `Verdict` is its `except` clauses. `close()` is client, then credential; `bound` is the
attribute that a second `close()` of the same connection tests. The slot around it is reduced to what
`SharedTransportConnection` shows it does: one connection at a time, probed by one task at a time, reset by any
number (`_reset_connection()` also runs without the lock), dropped when a reset ends or raises and kept when the reset is
cancelled. The slot's timing, queues and permits are left to `SharedTransportConnection`.

### 2.7 BlobStorage and BlobNames

Calls of the blob client share no SDK object, only the container and the directory. A blob is a sequence of chunks, each
named after the blob, its version (told apart by length) and its place. `download_blob_to_dir()` opens and truncates the file
(`OpenFile`), starts the stream, passes chunks to `write()` and closes: a chunk is in the buffer of the file until `Flush`,
and every handle writes at its own place (`WriteAt`), so that two downloads of one path mix. The
SDK reads with the ETag of the first answer, so a blob replaced under way ends the stream with an error: this is modelled by
the length, and two versions of the same length are the same contents. `lone` is a history variable: no other download has
had the path open since.

`BlobNames` runs the filter on every name up to a bound, with characters reduced to the kinds the function tells
apart; a slash is one of them, so that the rules on the ends of names and of path segments can be stated. Its steps are a strip, a
removal, one dot from each end, `quote()` and a cut, in that order. The limit of 254 segments (line 46) is not covered.

### 2.8 Why one run explores six modules

The objects of 2.4 to 2.7 share nothing, so exploring them together would only multiply their
states. `MCClientObjects` picks one (`subject`) in the first state and leaves the others as they were created. Every behaviour of it
is a behaviour of one object's specification, and the other way round, so each invariant is checked of each object as if it
were alone.

## 3. Runs and bounds

| Run | Instance | What it shows |
|---|---|---|
| `one_permit` | 4 tasks, 1 slot with 3 tokens, 1 permit, 5 names | one opening at a time, no more callers of a connection than tokens, no leak, no unprobed hand-out, no expiry of a successor, no task left with a replaced event while its connection is open (`OrphansWaitForClosed`), users lose their connection to `expire_conn`/`closeall` only, and the refinement `KeepsPromise` |
| `two_permits` | 3 tasks, 1 slot with 2 tokens, 2 permits | what is left when two tasks open one slot: resources, marks, clocks and wake-ups are still right, retirements close alone, an expired connection is gone when `expire_conn()` returns (`ExpiryTakesEffect`) |
| `pool` | 2 tasks, 2 slots, 1 permit, 4 names | `get()` spreads before it shares; nothing taken in a slot outlives it |
| `progress` | 2 tasks, 1 slot, fair | every `get()` and `closeall()` ends; a marked slot comes back while callers call |
| `managed_clients` | 2 tasks, 1 slot that may close at any time, up to 3 attempts, three clients | a connection is held exactly while an operation is at work or expires it; at most `send_attempts` operations; calls end |
| `client_objects` | 3 tasks (one closes), 3 names, 4 producers; 2 downloads of 2 blobs with the same last part, up to 2 chunks; names up to 5 characters, limit 4 | Eventhub: no closed client kept as long as no `close()` raised, none stranded in the pool, credential last. Cosmos: nothing stranded with one closer, credential last; with a lifespan, an open and recent client is handed out. Service Bus: no closed end kept, none stranded by one closer, credentials last. Slots from the inside: credential last, nothing open when dropped, probes bounded. Downloads: a file is a prefix, and whole when returned, unless its path was taken. Names: proper when nothing spoils them |
| `only_one_creates`, `ready_without_conn` | 2-3 tasks, 2 permits | refuted, see section 6 |
| `stuck_slot`, `timeout_honoured`, `cosmos_alive`, `receiver_is_kept` | 2-3 tasks | refuted, see section 6 |

Why these bounds: the races of a slot need an opener, a waiter and somebody who closes; a fourth
task adds an expiry that arrives late. One token fewer than tasks makes a slot full. Two
permits are the smallest number that breaks the mutual exclusion of openings, and one permit is the
default for pools of up to five slots (`max(max_size // 3, 1)`). Names suffice for every
task to hold one while a slot has another. In `Eventhub` the names bound how often a client is
re-created. The client objects need three tasks: one that closes, one that creates during the close, and one that
creates or closes after that; a name is used again when nothing refers to it. Two downloads are enough to
mix, in two folders whose blobs end alike; two chunks tell a prefix from the whole. Names one character longer than the
limit reach the cut, and an escape of three characters is longer than what the cut may leave of it. Tasks, slots and names are symmetric in the safety runs; liveness runs use no symmetry.

The properties of `one_permit`, `LimitsAreKept` apart, are checked with one permit because two permits break them: that is
what `only_one_creates` and `ready_without_conn` are about. Deadlock is checked everywhere.

## 4. Fairness

`Fairness` (and `PoolFairness`) assume, weakly: the event loop runs a task that can run (`Proceed`,
`GetStep`); `close()` of a connection returns; the deadline of `acquire()` passes; callers finish what they do
with a connection. Nothing is assumed of `create()` and `ready()`, which may hang until the
deadline, nor that callers call again: `MarkedRecovers` states that as a premise, and
`BusySpec`, used to refute `NeverStuckPermanently`, as fairness. `FairManagedSpec` assumes that
`get()` ends (checked in `progress`), that an operation is answered or times out (the clients pass a
timeout to the SDK or rely on its own), and that the slot closes what it was asked to close.

## 5. Proofs

The theorems hold for every number of tasks, slots, connections and names. They rest on the named assumptions of the
modules only: limits are positive, a pool has finitely many slots, `None` is no task, slot, name or reason, and those who
close are tasks. Each proof has one step per action of the next-state relation, or per kind of effect an action can have;
what actions share has lemmas of its own.

The theorems of `SharedTransportPermit_proofs`, and those of `ConnectionPool_proofs` that speak of the promise of
`PooledConnections`, come in two forms:

- with any number of permits, under the premise `[]LoneOpeners`: no two tasks that have a permit are ever in one slot (the
  names begin with `LoneOpeners`; `OneConnectionPerSlot` has it too). This is the condition the code relies on and, with several
  permits, does not establish: `only_one_creates` and `ready_without_conn` show with two permits what goes wrong without
  it, and `LoneOpenersKeepTheDocs` that both refuted claims hold with it. It is true of every behaviour in which the
  openings of a pool, concurrent as they may be, are those of different slots;
- without a premise, under `MaxConcurrentCreates = 1`: `OnePermitOneOpener` proves that such a pool has lone openers, and the seven
  theorems that state the properties of the run `one_permit`, `LimitsAreKept` apart, are corollaries. One permit is the default of the code,
  `max(max_size // 3, 1)` (connection_pooling.py:501), for pools of up to five slots; a pool of the default size of ten has three.

The other theorems hold for any number of permits. `LoneRecyclersHandAlive` has a premise of the same kind about `recycle_container()`;
the rest have none but the conditions that the properties themselves state.

| Module | Theorems | Argument |
|---|---|---|
| `SharedTransportConnection_proofs` | `TypeCorrect` | `TypeOK` is inductive as it stands; its last conjunct (a task is at a slot exactly when it is not idle) makes `slot[at[c]]` well defined in every action |
| | `MarkedSlotsHaveConnections` | a slot's fields change in a few ways only; `MarkKept(r, q)` says that going from `r` to `q` marks no slot without a connection: `_should_close` is set under `Expired` only and a reset clears both |
| | `EverySetReachesWaiters` | either a step keeps `Opening` of the waiter's slot, or it replaces or sets the event and nobody waits for the slot any more (`NobodyWaits`) |
| `SharedTransportQueues_proofs` | `NothingIsKept`, `BusyIsNeverIdle` | `Accounted`: the queues hold nobody twice (`NoDuplicates`), a task has a reason to close exactly while it closes (`ReasonsFit`) and a connection only where it can (`GotWhere`), two slots never hold one connection (`SlotsDiffer`) and a task with a connection is in the slot that holds it (`Home`). Without the last two, an `expire_conn()` might give back the token of another slot |
| | `ExpiredIsGone` | two slots never hold one connection (`SlotsDiffer`), and an expiry ends by finding its connection gone from its slot or by emptying the slot itself |
| | `RetirersCloseAlone` | `ClosersAreAlone`: who closes for the pool and stands in the lock's queue shares the slot with nobody; the marked, or overdue, slot lets nobody in before the close is over. `OwnersHaveLock` ties the steps under the lock to its owner |
| | `LimitsHold` | `Limited`: a task past the semaphore is among the first `MaxConcurrentCreates` of its queue (`Permitted`), tasks that hold a connection are token holders of the slot that has it (`Together`), and a slot has no more of those than tokens (`TokensSuffice`); leaving a queue brings those behind nearer to its head and nobody past it |
| `SharedTransportPermit_proofs` | `OnePermitOneOpener` | two tasks with a permit would both be the head of the semaphore's queue (`Permitted`) |
| | `LoneOpenersAreSafe`, `LoneOpenersHandProbed`, `LoneOpenersSpareUsers`, `LoneOpenersKeepTheDocs`, `LoneOpenersLeaveClosed`; with one permit `ExpiryHitsItsOwn`, `ReadyIsNeverEmpty`, `NothingLeaks`, `HandedWasProbed`, `UsersLoseIt`, `OrphansAreClosed` | `OneOpening`: see below |
| | `OneConnectionPerSlot` | `HeldIsOpen` gives an injection from the connections that are not closed to the slots |
| | `LoneOpenersKeepPromise`, with one permit `SlotsKeepPromise` (refinements of `PooledConnections`) | by the kind of effect a step has: an opening, a failed probe and its close are not seen (`UnseenSteps`), a passed probe is `Open` (`OpenSeen`), the close of a ready slot is `StartClose` and `EndClose` (`CloseSeen`), the end of `checkout()` is `Take` (`TakeSeen`) or, from an emptied slot, nothing |
| `ConnectionPool_proofs` | `PoolRunsItsSlots` (refinement of `SharedTransportConnection`), `PoolTypeCorrect` | `LoopTypeOK`: what `get()` remembers are slots, so that each of its steps is a step of a slot or none; everything proved of `Spec` holds of `PoolSpec` |
| | `RoundsBeginInTime` | the time by the last round is one summand of `total`, so that giving up early is the worst the sum can do |
| | `StuckIsTakenBefore` | from the definitions, in every typed state: a slot without callers is available, or marked and closeable |
| | `GetLeavesNothing` | inductive over `ReasonsFit`; the steps that end a `get()` are those that take its task out of the slot |
| | `CallersAreSpread` | `FirstIsFree`: any result of `nsmallest` that puts a shared slot before an available free one is not sorted |
| | `LoneOpenersKeepPoolPromise`, with one permit `PoolKeepsPromise`; `PoolKeepsLimits` | the refinements composed; `LimitsHold` read through the first |
| `ManagedClients_proofs` | `TypeCorrect` | inductive as it stands; a retry needs `~LastAttempt`, which is what bounds the attempts |
| | `PromisedByOneSlot` | `ShownByOneSlot`: what is not closed is shown by one slot, and `Open` takes no name that one shows |
| `CosmosConnectionManager_proofs` | `CosmosTypeCorrect` | inductive as it stands |
| | `NothingIsLeaked`, `CredentialOutlivesManager` | `SteadyManager`: with one closer and no lifespan the manager has a client with its credential or neither, and a close in progress is about what the manager has, so that the reset at its end forgets nothing else |
| | `HandedClientsAreOpen` | `YoungIsOpen`: unless its time is over the manager's client is open and nobody has it in hand to close it; only overdue clients are recycled, and a new one takes a name that no task has |
| | `LoneRecyclersHandAlive` | under `[]LoneRecycler` (one task at a time in `recycle_container()`) and without closers, `LoneManager`: a client that need not be recycled has its credential, open, and nobody is in `recycle_container()` |
| `ServiceBus_proofs` | `BusTypeCorrect` | inductive as it stands |
| | `KeptStaysOpen`, `NothingIsStranded`, `CredentialsAreOutlived` | `OneObject` (which names an object may have) and `CloseIsOrdered` (where in its order a close stands, given what is still open) |
| `ClientObjects_proofs`, of `Eventhub` | `ClientStaysOpen` (while no `close()` of a producer has raised or been cancelled), `NoClientLeaks`, `CredentialOutlives` | `OneClient`: in the pool no second client is made, an open one is the object's, and no credential is closed before it is gone |
| of `PooledTransports` | `SecretOutlives`, `DroppedLeavesNothing` | `ResetIsOrdered`: a task closes the credential only when the SDK client is closed, and an object without its client has none open |
| | `ProbesStayBounded` | `ProbesAreCounted`: each request but the first costs an attempt, and the last attempt is never spent |
| of `BlobStorage` | `LoneFilesArePrefixes`, `SavedFilesAreWhole` | `LoneIsAlone` (nobody who has the path open is beside a lone download) and `SavedIsWritten` (a saved download has written all of its length) |
| of all objects | `ObjectsAreTyped` | each object's step keeps its types and leaves the others alone |

The invariant of lone openers. What the code relies on, and nowhere says, is that whoever opens a slot is the only one to open
it (`LoneOpeners`). Under that, `OneOpening` says together:

- `OpensWhatIsMissing`: who is about to create finds the slot empty, who opens finds it not ready, and a probe asks the
  connection the slot holds. `create()` tests under the permit and acts under the lock (383), and only being alone makes that safe;
- `ClosesItsOwn`: a close that is waited for is the close of what the slot holds, unless a reset without the lock (323) has
  emptied the slot, and then that connection is closed already. So a late end of a close empties nothing newer;
- `HeldIsOpen`: a connection is not closed exactly when a slot holds it, which gives `NoLeak`;
- `ReadyIsProbed`, `WokenFindsReady`, `HandedWasReady`: readiness, a woken waiter and a handed-out connection refer to one and
  the same probed connection, because a slot is not filled again while a woken task has yet to run (`NobodyResumes`, which the order of the event loop justifies);
- `ExpiryIsAimed`: nobody who would fill the slot stands before an expiry in the lock's queue, so that the expiry finds
  its own connection or none.

None of these is inductive alone; `Settled` joins them to `TypeOK`, `Accounted` and `OwnersHaveLock`, and is inductive as long as
`LoneOpeners` holds after the step, too.

Only model-checked: `SafeNameIsProper` (its data are folded and filtered sequences, and what those compute for every input needs
induction over data) and liveness (`GetEnds`, `MarkedRecovers`, `EveryCallEnds`), both out of the prover's reach.
What the runs refute is checked by TLC too.

## 6. Where the code and its documentation disagree

- `only_one_creates`: `create()` tests `_connection` before it takes the lock and not under it
  (383-386), so with two permits two tasks create for one slot and the first connection is never closed.
- `ready_without_conn`: the handler of `checkout()` resets the slot without the lock (323) while another task
  probes; the slot ends ready without a connection, and later callers are handed nothing.
- `stuck_slot`: the branch for stuck connections (558-567) cannot be reached: a slot without clients that is
  not marked is available, and a marked one is closeable; after an opening whose reset (323)
  was cancelled with it nobody probes the connection again (307 skips it), and each caller waits for an event nobody will set, until its deadline.
- `timeout_honoured`: `total_time += latest - now` (572) adds the time since `get()` began in every round.
- `cosmos_alive`: `recycle_container()` reads `_credential` after an await; of two tasks that recycle, the
  second closes the credential of the client the first has just created.
- `receiver_is_kept`: `ManagedAzureServiceBusSender.get_receiver()` makes a new object at each call and forgets the
  one before, open receiver included (service_bus.py:285); a test expects the same receiver twice and passes because the
  mock has only one.

Seen while modelling, and not the subject of a run of their own:

- the slots: two permits probe a ready connection a second time (418-426); `checkout()` returns a connection whose close
  runs (337), so that between the start of an `expire_conn()` and its return the connection may still be handed out; tasks that enter an overdue slot together use it again (300); `get()` looks at four fifths of the slots and may
  sleep while another could take the caller (541);
- `Cosmos` re-opens after `close()` (cosmos.py:148);
- `AzureServiceBus`: a receiver closed by `async with` stays cached and is returned again (service_bus.py:107);
  `get_receiver()` while the old credential is being closed strands the new one; two tasks that close strand
  anything; when the sender's credential raises, a closed sender stays kept. These are why `KeptIsOpen`, `NothingStranded`
  and `CredentialsOutlive` have premises;
- `create()` strands the credential when the SDK's constructor raises (cosmos.py:338 and its like);
- downloads of blobs whose names end alike, or of one blob, mix in one file (azure_blobs.py:184), and a failed one leaves a
  partial file there;
- a filtered name can still end in a dot or in half an escape (azure_blobs.py:57-62); `SafeNameIsProper` says when it does not;
- a caller that abandons `list_blobs()` leaves its SDK client open until the generator is finalized.

## 7. Not modelled, and what could follow

Not modelled, because there is no state or nothing is shared: `EventGridClient` (immutable tables and one delegated call),
`PatchOp` and `Operation` (a table), the credential aliases, the pytest fixtures (mocks), the validation scripts (command
lines that talk to real services), listing, SAS tokens and downloads into memory of the blob client (one SDK client per
call), logging and formatting. A `SimpleCosmos` that an application opens twice by itself overwrites its client; only the use the
pool makes of it is modelled. A cancellation inside the closes of expiry, sweep and `closeall()`, and nested `get()` calls of
one task, are left out of the slots.

What could follow: nested `get()` calls; a refinement from `PooledTransports` to the transport of a slot, and from the callers
of `get()` to the environment `ManagedClients` gives to `PooledConnections`; which patterns of calls to a pool with several permits keep openers
apart, and so have the premise `[]LoneOpeners`.
