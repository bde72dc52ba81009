# Verification of the Morphic Engine's threading and hosting core

TLA+ models of the parts of the engine where several threads share state, the
TLC runs that check them on small instances, and TLAPS proofs of the results
that matter most for every size.

    tlc -workers 2 -config MCTQueueTransport.cfg MCTQueueTransport
    tlapm Handover_proofs.tla

`PROJECT.json` lists the runs, the source lines behind every definition, the
fault that each property is known to catch, the hazards and the findings.

## 1. The system

The engine is a Host process that loads modules (Executive, Platform,
Rendering, Audio), starts a thread or a pumped client for each, and routes typed
messages between them. Everything shared between threads goes through a few
transports and wait primitives; above them run the protocols of the Host.

| Component | State | Operations | Hard part | What makes it correct |
|---|---|---|---|---|
| `TQueue` (core/threading/transports) | three buffers, producer roles (output, staged, locked), consumer buffer, one atomic word, phases | initialise, post, read, refresh, deallocate | lock-free hand-over of buffers, growth and discard while the consumer reads, failed reallocation | no shared buffer, FIFO, backlog mirrored |
| `TBulk` | three payloads, roles, one atomic word | publish, discard_and_acquire | rotation of roles | the consumer's payload is not overwritten |
| `TMpmcIndexRing` | slots with sequence numbers, two wrapping positions | push, pop | stale positions, wrap-around | one thread per slot, bounded FIFO |
| `TMpmcArenaTransport` | two rings, status, outstanding count | reserve, publish, acquire, recycle, begin_closing, shutdown | count and rings change in separate steps | one owner per slot, exact count, closing completes |
| `CBatchClient`, `CBatchPool` | shared work channel, return channels, credits, pending correlations | submit, receive, complete, stop | parking, credits, retirement of a requester under a runner | one response per work, room for it, no use after retirement |
| `CThreadPackage`, `CWaitPredicate`, `CParkingGate`, semaphores | wait words, thread phases, pins | startup, wait, poke, shutdown | lost wakes, release of a word in use | everyone told to exit does |
| `COwnerWait`, `CNotification`, Host turn | pending bits, event, hint, bounded drains | signal, begin_cycle, wait, run_turn | two layers of coalescing | no lost wake, all work is read |
| Direct connections | Host records, client records, message queues | open, Offer/Decision/Install/Ready/Activate/Closing/Quiescent/Retired/Result | closing from any side at any time, full queues, ended threads | a descriptor outlives its use, one answer per open |
| `TRing`, `TOwning` | SPSC rings over an occupied count | read, write, bulk | wrap, all-or-nothing | FIFO, no torn element |
| Client record | reply and control credits, reservations, inbox lanes | reserve, post, reply, retry, flush | exhausted credits, bounded lanes of a pumped client | no reply lost or doubled, every credit stands for something |
| Service router and borrows | routes, operations, borrow records | request, cancel, complete, publish, relinquish, retire | provider and consumer retire independently, either may stop, time out or die reading | a lent resource outlives its readers, every request is answered |
| Platform windows | window, uses, completions | create, acquire, ready, pump, stop | native failure, expiry, completions owed | as above, from the provider's side |
| Platform input | two rings, published snapshot, generations, boundary | publish, marker, acknowledge, merge | a record carries no generation; overflow and context changes race the reader | no stale input, no gap, no stalled boundary |
| Host maintenance | captured messages, staged deliveries, pump frame | capture, stage_delivery, replay | order after a modal loop, capacities | nothing lost, doubled or reordered |
| Host restriction | published snapshot under a sequence lock, scopes, budgets | enter, leave, fail, read, start, observe | torn and stale reads, a terminal revision | restricted time is not charged, nothing else is lost |
| Module service and worker | one pending operation, worker queue | request, dispatch, complete, finish | failures of each step, a requester that exits | every request is answered, code outlives its users |
| Host lifecycle | phases, threads, pumps, client records | run_turn, apply_host_stop, shutdown | a stop at any moment, order of retirement | a stop ends the Host with nothing left behind |
| Asset service | acquisitions, bundles | request, complete | file and data work | - |
| Containers, memory, document model, schema, text, image, assets, filesystem | data structures | sequential | none of it concurrent | tested by the repository |
| Application modules | - | use the protocols above | vendor APIs | - |

Interactions: `CBatchWork` stores its items in `TMpmcArenaTransport`s, which are
two `TMpmcIndexRing`s; threads and Host exchange messages over `TQueue`s and wake
each other with `CWaitPredicate`, `COwnerWait` and `CNotification`; the Host's
`progress()` functions (direct connections, services, maintenance) run inside its
turn; a pumped module runs inside the Host's own turn, and calls back into it from
a modal loop; a thread is retired only after the batch runners and its direct
connections have let go of it.

## 2. Modules

| Module | Models | Grain of a step |
|---|---|---|
| `TQueueTransport` | `TQueue<T>` | one access to the atomic word with the owner's work around it |
| `SpscQueue` | abstract FIFO that `TQueue` implements | one visible effect |
| `TBulkTransport` | `TBulk<T>` | one call or one write by the producer |
| `TMpmcIndexRing` | `push()`, `pop()` | one atomic or payload access |
| `BoundedFifo` | abstract queue that the ring implements | one push or pop |
| `TMpmcArena` | the arena transport, over two bounded queues | one atomic access or ring operation |
| `BatchWork` | batch clients, pool, retirement of a requester | one atomic access or channel operation |
| `OwnerWake` | owner wait, notification, skeleton of the Host's loop | one atomic access, native call, or drain |
| `DirectConnections` | both ends of the direct connection protocol | one message, call or `progress()` |
| `ServiceRouter` | `CServiceRouter`, `CServiceBorrows` and the client record, as operators on the Host's state | one method |
| `ServiceBorrow` | composes the router with `CPlatformRuntime` and `CServiceBorrowClient` | one third of a Host turn, or one message or call of the consumer |
| `HostMaintenance` | `CHostMaintenance`, credits and frames of a pumped client | one message, capture, replayed entry or pump call |
| `HostRestriction` | `CHostRestrictions`, `CHostRestrictionPublication`, `CHostEligibleBudget` | one load or store of an atomic word |
| `InputConnection` | `CInputConnection`, `CInputPublication`, `CInputReader` | one post, one publication, one look at a ring, one command |
| `HostLifecycle` | `CModuleService`, the module worker, the phases of `CHost` | half a Host turn, or a step of a thread or of the worker |
| `MCHostParts` | `HostMaintenance`, `HostRestriction` and `InputConnection` in one run | |
| `MCThreading` | `TMpmcArena` and `OwnerWake` in one run | |
| other `MC...` | constants, numbering of postings, symmetry | |
| `..._proofs` | theorems | |

Variables are named after the members they stand for, actions after the
functions. Where a function takes several steps, `pc` (or `ppc`, `cpc`,
`owner`) says which one comes next. The definitions marked `fault` are used by
no action: each is a plausible mistake in the definition below it, kept to show
that a property notices it.

**TQueueTransport.** The staging word keeps its encoding. A `post()` is
`post` (load the word, decide reset, growth and discard, write the output
buffer), then `PublishPending` or `PublishConsumed` (the exchange), then, by
path, `Rebase`, `Republish` and `Extend`, each with its failed reallocation,
which poisons the producer. A `read()` is `read`, `AcceptPublication` or
`DropPublication`, and `Copy`. `initialise_*` and `deallocate` require both
sides idle, as documented. The growth policy is a constant that only has to stay
within the limits, as `vector_growth_policy()` does.

**TMpmcIndexRing.** Positions have `Width` bits and the comparison is the signed
difference of the code. `compare_exchange_weak` may fail for no reason. The
algorithm needs that no thread sleeps, between its load and its exchange,
through half the range of a position; that assumption is `StallBound`. It also
needs two slots (with one, the sequence of a slot just written is the one the next
push waits for) and a range of at least four laps; `RingAssumption` says so, and the
code is well within it: a capacity is a power of two of 16 or more
(`TMpmcTransport.hpp:69-85`).

**TMpmcArena.** Threads call through the RAII slots, so a reservation is
published and an acquisition recycled. `shutdown()` stores its status
unconditionally, also over `closed`. The outstanding count may exceed the number of
slots for a moment, since the slot goes back before the count.

**BatchWork.** Channels are a queue and a stock of free slots; an item whose
publisher is still inside `publish()` blocks the head, as in the ring. A parked
thread's epoch is abstracted to "the word has changed since it was read"; coming
round after 2^32 - 1 pokes is excluded. The requester's loop is that of the
rendering thread. `Watched` names the correlations whose return the liveness
property follows: they are interchangeable names, so one stands for all.

**OwnerWake.** The Windows build with its manual-reset event. The pumped client
clears the notification and then drains, which is the contract in
`core/module/host_pump.hpp` ("Hint only; drain and recheck registration state").
Where a source is read up to the burst, another turn is asked for.

**DirectConnections.** Tokens are numbered; each side has one `SRecord` per
token. A client's queue may refuse any message of a pass (`Room`), and what was
refused is owed until a later pass. `Faults` selects what may go wrong: a stop
request, the end of a thread, the expiry of the budget, `close_all`.

**ServiceRouter, ServiceBorrow.** One consumer, one provider and one open route. A
request id is never reused on a route and an operation prepares at most one
borrow, so the id names the request, its operation and its borrow. The Host's turn
is drain, pump, service; the consumer moves between any two of them. It is a thread,
which may exit leaving a batch that still reads the view, or a pumped client with
bounded lanes. `Kinds` says which window commands each uses, `Disturbances` bounds
what goes wrong: a stop, a timeout, a native failure, a second acquisition, or the
second time the consumer withdraws from one record (`Withdraw`: `release()`, `cancel()`
and `quiesce()` may be called again, in any order and on a closing record; the first
release or cancellation and the first quiescence are free). `broken` is a history variable: the
native dispatch has failed, which is the only cause `ProtocolRespected` allows for a
failed provider. A pump consumes a prefix of its batch, the empty one only where the
time can have gone into a dispatch that came first.

**HostMaintenance.** One pumped client with its two inbox lanes. A message is its
number on its source and the credits it reserved. A frame is one pump call, in
which the module may enter a modal loop; captures and staged deliveries share one
sequence, and the end of the frame begins its replay. Capacities are constants, so that
full ones are met. The replay goes entry by entry (`frame.replay`, `attempted` in the
code): owed replies may fall due and workers may post between two entries, and what
is staged meanwhile is replayed as well. Each turn begins with a replay of what an
earlier one had to leave (`ReplayInTurn`).

**HostRestriction.** The only part modelled word by word: the sequence lock's
revision, the words of the snapshot in store order, and a reader with bounded
attempts. `truth` is a history variable: the time the Host has really been
unrestricted, against which a sample is judged at the moment it read the clock.

**InputConnection.** The provider posts a record and then publishes the snapshot
that covers it, in two steps; the reader refreshes, looks at one ring, then at the
other, and chooses. `gen` and `trans` of a record are history: the code's records
carry neither, which is why `FreshInput` is worth checking. The two 64-bit limits
are constants small enough to be reached.

**HostLifecycle.** `TurnBegin` decides on stops and samples every thread,
`TurnEnd` drains, pumps, starts, stops and dispatches, in the order of
`run_turn()`; threads and the worker move in between, so what was sampled may be
stale. A fault is any outcome of the worker or of a start other than success.
`StartTurns` and `StopTurns` are the pump calls a pumped module takes to become
ready and to stop. One worker stands for all of them: where the code waits until each
is terminal and drained (`host.cpp:1370-1377`), the model waits for the one.

**MCHostParts, MCThreading.** Maintenance, restriction and input share no state; their names are
disjoint, so that one module can extend all three. `Init` picks a part and a
behaviour moves that one alone: the states of the run are the disjoint union of the
three. `MCThreading` does the same with the arena and the owner wait; each part has its
own fairness while it is the one that moves.

## 3. Runs

| Run | Instance | Shows |
|---|---|---|
| `queue` | capacities 2 and 3, postings of 1 to 3 elements numbered round a cycle of 5 | no race on element storage, backlog mirrored, refinement of `SpscQueue` |
| `bulk` | two versions | *violation*: the producer overwrites the consumer's payload |
| `ring` | 3 threads, 2 slots, 3-bit positions | exclusive slots, positions in range, refinement of `BoundedFifo` |
| `threading` | arena: 3 threads, 2 slots; owner wait: 1 direct and 1 notified publisher, 2 publications each, burst 1 (176 000 states) | one owner, exact count, closing completes; no lost wake, all work handled without a timeout |
| `batch` | 1 requester, 2 runners, 2 correlations, 2 slots | one place per work, room for each response, no runner in a retired client; accepted work returns and everyone told to exit does |
| `direct` | both threads open at once, stop, exit and expiry, one message of room | descriptors outlive use, both sides active together, one answer |
| `direct_liveness` | one opener, room 0 or 1, exit and close_all | opens are answered, closing ends |
| `services` | 2 requests, both executions, 1 control slot, 3 reply slots, 1 disturbance (420 000 states) | a view outlives its readers, no refused message, exact credits; closing borrows retire, requests are answered |
| `host_parts` | maintenance: 2 sources of 2 messages, 2 slots per class; restriction: 2 scopes, clock 0..2, last revision 12; input: 2 streams, rings of 1, 1 change (2.8 million states) | order and credits of replay, nothing left held; restricted time free, no spurious failure; no stale input, gap or stalled boundary |
| `lifecycle` | Executive, one threaded and one pumped module, 3 messages, 1 fault, a stop of the debug service (863 000 states) | code outlives its users, the requester is kept, a clean exit; operations and stops complete |
| `slow_start` | same, 2 messages, no fault, 1 pump call to start | *violation*: a load that never completes |
| `native_stop` | same, 2 messages, no fault, a stop of the native provider | *violation*: a Host that was asked to stop and never does |

Bounds. The queue's capacities are the smallest with room to grow once and to
discard; three-element postings fill it; the cycle of element numbers is longer
than the items in play, so loss, repetition and reordering show. Three bits are
the fewest with a signed difference for two slots, and every position wraps; three
threads are a stale one and two that overtake it. The batch has as many runners
and correlations as slots; a response in flight and a resubmission then compete
for the last credit. A burst of one with two publications leaves work behind a
drain. Two openers with one request each meet in the reciprocal open; the
liveness run lets every message be refused and has no expiry, so no timeout
rescues an open. The safety run of the connections has a fixed room of one and no
`close_all`, the liveness run has both; together they take every step. Two requests
are the fewest with one borrow open while another is prepared or retired; one
control slot makes every second control message wait, and three reply slots are one
fewer than two requests with a view each need. A pumped consumer does not acquire in
this run, to keep it short; the safety of all commands under both executions was
checked on its own (826 000 states). Two slots per capture class with two messages
on each of two sources fill a class exactly; two scopes nest; revision 12 leaves
room for scopes to open and close before the terminal one; rings of one overflow at the second
record, and generation 3 is the first that cannot advance. Three messages to the
lifecycle are a load, a request that meets it pending, and a self-replacement or
self-unload; a stop and a fault may then meet any phase of them.

Deadlock is checked where the system never has to stop (queue, ring,
threading). The others end: threads exit, the opens and requests are used up, the clock
stops at its bound, the Host completes.

Fairness. In every liveness run it is weak and says that a thread that can go on
does: one condition per thread, over the steps of code it runs without being
asked. Calls of the application (submit, open, close, publish), stop requests,
failures, timeouts and input are never assumed to happen. Arena: threads finish
the operation they are in and keep polling `acquire()`, which is what the
documented pairing of reservation and publication demands. Owner wait: the
Host's loop has no exit while it is running; `Expire` and `ParkEnds` are not fair,
so a lost wake would leave the Host parked. Direct connections: each thread
handles what has arrived, and its queue is drained in time, so a pass in which all
messages go through comes (`FullProgress`, and `HostWork` with the largest room).
Services: the Host's turns go on (`WF_turn(TurnAdvances)`: `turn` changes with every
third of a turn, so a turn whose other effects are nil still counts), the consumer
reads its inbox, ends its reads and answers a closing borrow, as
`CServiceBorrowClient` obliges its owner to; it need not ask, cancel or release.
Lifecycle: the turns go on, the worker does the work it has been given, and a
thread that has been asked to exit does, as every module thread of the engine does.
No thread has to post, no stop has to be asked for, no fault has to happen.

## 4. Proofs

**The queue** (`Handover_proofs`), for every
capacity, growth policy within `CapacityAssumption` and set of postings.
`TypeOK`, `ConsumerBufferIsStable` and `MirroredBacklog` follow from

    IInv = TypeOK /\ MirroredBacklog /\ DiscardOnlyWhenFull /\ Handoff
           /\ ProducerLocals /\ ConsumerLocals /\ EmptyWhenDown

The centre is `Handoff`: whatever its steps, the pair of threads is in one of
four situations (untouched, a publication pending, a publication consumed, an
obsolete one that the consumer has yet to drop), and each fixes the phases, the
word and which buffer the consumer may hold. Without it nothing excludes that the
consumer accepts a word of the old phase and so the buffer that is being written.
`MirroredBacklog` is needed as well: the consumer may take either buffer, and the
append that follows must find the same items in the other. There is one lemma per
action. `QueueRefinement` (`Spec => ImplementsFifo`) maps the abstract queue to what the
consumer holds unread and to the backlog behind an acceptable word: the exchanges
of `PublishPending`, `Republish` and `AcceptPublication` and the reads are abstract
steps, the others stutter.

**The owner wait** (`Handover_proofs`), for every number of publishers,
publications and every burst, from `WakeAssumption`. `NoLostWake` says something about
the moment the Host is parked; the invariant says who is responsible for unread
work at every other moment:

    WakeInv = WakeTypeOK /\ TurnProgress /\ RefusedMeansFailure
              /\ (~failure => DirectCovered /\ NotifiedCovered
                              /\ NotificationCovered /\ PendingCovered)

Unread work is ahead of the turn, or behind the notification or its publisher; a
notification is cleared in this turn or behind the pending bit; the pending bit
is about to be acknowledged or behind the event. The chain ends at `SetEvent()`.

**The ring** (`TMpmcIndexRing_proofs`), for every number of threads and every
capacity and width within `RingAssumption`. `SlotExclusive`, `CountersInRange` and
`TypeOK` follow from

    IInv = TypeOK /\ InCall /\ CountersInRange /\ Claimed /\ Unclaimed
           /\ Writers /\ Readers /\ ClaimedOnce /\ InReach /\ StillReady

Positions wrap, so nothing can be said of them by order. The argument looks at the
`Capacity` positions from `dequeue_position` on: each falls in a slot of its own, and
the slot's sequence says how far that position has come. `Claimed` and `Unclaimed`
list the possible sequences with the thread responsible, `Writers` and `Readers` say
where a thread at a payload stands. The hard step is the exchange of a thread whose
load is stale: `StillReady` says that a slot once seen ready stays so as long as the
position has not moved, and `InReach` (from `StallBound`) that a position that
compares equal has not come round, which is the ABA case.
`RingIsQueue` (`Spec => ImplementsQueue`) adds `Placed`: the value of each claimed
position is in its slot or in the hands of the push that claimed it. A claim by a
push appends, a claim by a pop takes the head, and all other steps are hidden.

**The arena** (`TMpmcArena_proofs`), for every capacity and any finite set of
threads. A slot is in a ring or in the hands of one thread, so `SlotHasOneOwner`
needs that the rings hold no slot twice, that no two threads hold the same, and that
the total fits (`SlotsConserved`): otherwise a push could be refused and the slot lost.
`OutstandingIsExact` is inductive once the two sets it counts are known to gain or
lose exactly the thread that moves.

**The batch protocol** (`BatchWork_proofs`), for every finite set of runners and
every set of requesters, correlations and slots within `BatchAssumption`.
`Credited` bounds what a requester has out by the capacity; `Accepted` and `Apart` say
that what is out is in exactly one place (`WorkIsInOnePlace`); `WorkCounted` and
`ReturnsCounted` say which items occupy the slots of a channel. The response a runner
holds is out and occupies no return slot, so one is free, which is
`EveryResponseIsDelivered`; counting free slots alone would not show it, because
slots are given back in another step than the credit.
`ClientOutlivesRunners` rests on `Insiders` and `Gone`: a runner inside a client is
counted by the entry word, and the client retires only after it has read zero.

**Restriction** (`HostParts_proofs`), for every limit within
`RestrictionAssumption`. `HInv` says of each point of a publication which words are
already new and which still old. `RInv` is about a reader in the middle of its loads:
a word read under an even revision is the published one *as long as that revision still
stands*; when it no longer does, the second load of the revision will refuse the
snapshot, so nothing need be known of it. With the clock read between two equal
snapshots the sample is then the true eligible time (`RestrictedTimeIsFree`), and as
that never decreases no reader sees it run backwards (`NoSpuriousFailure`). The terminal
revision is never passed, so the lock does not wrap.

**Input** (`HostParts_proofs`), for desktops and controllers, rings of any size and
every limit of the counters, from `InputAssumption`.

- `MergeInOrder`: `MergeInv` follows the numbers after the last one taken. Each is
  in exactly one place (a ring, or a head the reader holds), the rings are in order,
  and a stream whose head is missing after its turn has nothing up to the cutoff that
  was read before (`BeyondCutoff`). The last one is what lets the reader choose
  between two rings it looked at in different moments.
- `FreshInput`: a record carries neither generation nor context. As long as a stream's
  generation stands, its records are of the present context (`Held`), a context change
  in progress is the only one (`OneChange`), and the client has been told of the
  context its generations belong to (`Told`).
- `BoundaryNeverStalls`: a posted marker of the
  present generation is on its way or was noted (`MarkersArrive`), and while a boundary
  is pending an acknowledgement of its generation is under way or was answered with
  busy (`AckAnswered`). Both sides' views of `pending` agree once nothing is in flight,
  so one of them can move.

`InputTypeCorrect` adds that the rings keep to their capacity and the counters stop at
their limits.

**Maintenance** (`HostParts_proofs`), for every set of sources and every capacity
within `MaintenanceAssumption`. The three properties and the type invariant follow from

    IInv = Typed /\ Asking(held, box) /\ Frames /\ Left /\ Lined /\ Booked

- `Left` says where captures can be: outside a frame everything before the entry the
  replay attempts next is a delivery to a client whose prefix failed, and when no
  replay is under way that is all there is. So a capture that is replayed is the
  oldest of its source, a turn that drains finds nothing held that it could overtake
  (`SourceOrder`), and what a replay leaves behind is what it must (`ReplayNeverBlocks`).
- `Lined` is `SourceOrder` by positions. `Booked` is `CreditsCovered` with the credits that
  a step has taken but not yet entered: `Books(.., lane, x)` holds with `x = 0` between
  steps and with `x` the credits of the message while it is being processed, between the
  release of a capture's surplus and the reply that is sent at once. The lemmas
  `AppendedCredits` and `RemovedCredits` say what an entry that comes or goes does to the
  sums; they count positions and need no induction.
- A delivery was given its credit when it was staged, so its lane has room when the
  replay comes to it; `Asking` ties the credits of a capture to the replies its message
  asks for, so the surplus is never negative.

**Direct connections** (`DirectConnections_proofs`), for every number of requests, any
room in the clients' queues and every fault, from `ConnectionAssumption`.
`DescriptorOutlivesUse`, `ActiveTogether`, `OneAnswer` and `TypeOK` follow from

    IInv = Typed /\ Gone /\ InOrder(record) /\ Counted /\ OneAnswer /\ Views

- `Views` is the centre: for each client and each token a predicate `View(g, q, out, r, t)`
  of the queue `q` to the client, the queue `out` from it, the client's record `r` and seven
  facts `g` that the Host knows of the token. It says that who can reach the descriptor is
  counted as exposed; that a client that has said, or is about to say, that it is quiescent
  can no longer reach it and that no further installation is on its way; that the closing
  message comes behind every installation and the offer before everything else; that a
  client that is ready stays installed until it closes; that a retired message follows only
  when nobody has a descriptor. Without the parts about messages still queued the record
  could be erased under an installation that is yet to be read.
- A step of a client changes `q`, `out` and `r` of its own tokens, a step of the Host changes
  the facts and appends to `q`. Each such change is a lemma about `View` alone (`ViewSent`,
  `ViewTold`, `ViewTaken`, `ViewMilder`, ...), and `ClientKeepsViews` and `HostKeepsViews`
  carry them to all clients and tokens. What one pass of `progress()` may do to a side is
  `Passes`, which the four phases of the Host's pass establish.
- `InOrder` says that sides are exposed, ready, closed and retired in the order of the phases
  and none is retired before all are quiescent; `Gone`, that nothing reaches a thread that
  has ended; `Counted`, that a token is issued for a request that was made.
- A client's `progress()` sends a sequence built record by record, a recursive function of the
  number of records. Membership in it and its type are shown with `Inductive`, the
  induction principle on a set of naturals, which follows from the well-foundedness of
  `Nat`.

**Lifecycle** (`HostLifecycle_proofs`), for every set of modules, every catalogue that
lists them, and every number of faults, messages and pump calls, from
`LifecycleAssumption`. `CodeOutlivesUse`, `RequesterIsKept`, `CleanExit` and the type
invariant follow from `IInv = Sound(h)`, where

    Sound = Typed /\ Claims /\ Worker /\ Pending /\ Requesters /\ Results /\ Ending

- `Claims`: a thread or a pump belongs to a client, and a client is bound.
- `Worker` and `Pending` tie the worker's job to the operation: it touches a binding
  only while nothing of that module is registered, and once it reports success the
  module is bound exactly if the operation has a next module.
- `Requesters`: the requester of a pending operation is owed one answer and still has
  its client and its thread; everyone else is owed none.
- `Ending` follows the shutdown through the catalogue: each module before the index is
  unbound, or is the one being unloaded, or is excused by retained execution or by a
  failed result the Host has yet to take.

Half a turn is a composition of functions on the Host's state. Most of them move
nothing that is claimed; they are `Calm`, and `Calm` steps keep `Sound`. The others (`Finish`,
`Complete`, `StartPending`, `RequestShutdown`, the retirement of a thread or a
pump) keep it each by a lemma of its own. The passes over the threads in the order of the
catalogue are recursive functions of the number of threads passed; that they keep `Sound`
is shown with `Inductive`.

**Services** (`ServiceBorrow_proofs`), for every number of requests, all capacities of
the lanes, every choice of window commands and every bound on disturbances, from
`ServiceAssumption`. `BorrowOutlivesUse`, `CreditsExact`, `ProtocolRespected` and `TypeOK`
follow from an `IInv` that says, beside the types,

    About(r) = Shape /\ Loan /\ Watch /\ Answers /\ Withdrawal     for each request r
    Inbox /\ Single /\ Route /\ Calm /\ Books /\ Ended           of the whole

- `Watch` is the centre of `BorrowOutlivesUse`: who can read the view (a running read, a
  view in the client's record, a prepared message on its way) is covered by a record of
  the Host that is published and of which nobody, the messages on their way included, has
  said that it is quiescent. `Loan` ties that record to the provider's use, its completion
  slot and the native window, and says that a borrow is prepared at most once; `Shape`
  fixes the order of a record's flags.
- `Answers` and `Withdrawal` are what `ProtocolRespected` needs: each message a request
  may be sent is owed once, follows the messages it answers, and finds the client's record
  in the state in which the client accepts it. A closing or retired message of a view that
  was published finds the record alive, one of a view that was not may find it gone; a
  retired message of a published view comes after the client's own word.
- `Inbox` orders the messages of one request within a lane. Without it a completion could
  overtake an acknowledgement and the client could forget the record under it. `Ended`
  says what is left of a client that is gone. `Healthy`, a part of `Calm`, says that the
  provider fails only after its native side did and stops only after it began or failed.
- `Books`: the reserved credits are those of the replies that are owed, counted as the
  cardinalities of two sets of requests, plus those of the message being answered. Every
  method of the router moves one request, so the sets change by one element (`OneMore`).

The Host's part of a step is a composition of methods, each of which moves one request;
`MoveSound` and `StepSound` reduce it to what it does to that request, and one lemma for
each method of the router, the borrows and `CPlatformRuntime` says so. The loops over the
tables, over the messages of a pump call and over a drained lane are recursive functions;
that they keep `Sound` is shown with the induction on a set of naturals.

**Only model-checked.** Liveness, which is outside the prover's reach: the leads-to
properties of the runs `threading`, `batch`, the direct connections, the services and
the lifecycle. What `TBulk` does is shown by a run of its own, which a finding is about.

What the proofs take for granted is named: the constants' assumptions above,
`StallBound` and, for the ring, that its capacity divides the range of a position.

## 5. Findings

1. `TBulk::publish()` makes the payload the consumer has just acquired the
   producer's output (run `bulk`); the header promises that consumer-held data is
   not overwritten. On a fresh transport the first `publish()` also reports an
   acquisition when the consumer has polled before.
2. A pumped module that is stopped while it is still starting never completes its
   load (run `slow_start`). `start_pending_module()` (`host.cpp:358`) waits for
   `ready()`, or for `failed()` and `stopped()`, and an orderly stop is not a failure
   (`pumped_client.cpp:128`). The module service then stays busy, and the shutdown
   that `docs/modules/asynchronous_module_lifecycle.md` (lines 94 and 97) promises for
   a self-unload of the Executive never ends. The same wait stops a pumped module
   that is replaced and needs more than one turn to start, by its own operation
   (`host.cpp:1450-1452`). A module that is ready at once is not affected (run
   `lifecycle`).

3. A native stop is applied once (`apply_host_stop()`,
   `host_maintenance.cpp:121-142`). One that arrives while the Executive is being
   replaced finds no thread to ask and a module service that is busy, counts as applied
   all the same, and is not applied to the replacement (run `native_stop`): the Host goes
   on running with its admission closed. `docs/modules/host_timed_wait.md:29` speaks of
   a "durable application-stop request". The stop of the debug service, of the run
   `lifecycle`, is looked at in every turn, so `StopCompletes` holds of it.

Observed, and not the subject of a run:

- `TQueue::validate()` demands that the consumer's buffer has the locked role; it
  has the staged role between an acceptance and the next post. Only the check is
  too strict.
- `begin_closing()` may close an arena between the pop and the count of a
  `reserve()`, while a producer already owns a slot.
- Modules are unloaded in the order of the catalogue. A pumped provider that came
  before a client holding a route to it would wait for a client that has not been
  asked to stop; the catalogue has no such pair.
- The order of `ResetEvent()` and the acknowledgement in `begin_cycle()` may be
  swapped, since `wait()` looks at the bit again; a `SetEvent()` that fails while the
  Host is parked is noticed at the end of the native wait, which the cadence bounds.
- The `Quiescent` that a client without a record sends is never retried, which is
  harmless because the Host does not wait for one that exposed nothing.
- A turn that stops for lack of reply credit does not ask for another one.

## 6. Not modelled

- `TQueue::set_memory_context`; start-up of the batch pool; `publish()` refused on
  a batch channel (nobody closes it); the batch's signals to the Host's wait.
- `COwnerWait::release()` and its wait-word build; a notification whose target is
  a wait predicate.
- Direct connections: poisoned queues, mismatched versions and policies, full
  tables, staging of protected deliveries, and the traffic of an active
  connection, which is a `TQueue` with a `CNotification`.
- Services: `open()` of a route and its table limits, `commit_resource`, activation
  timeouts, `request_close` and `answer_close`, `abandon_unsubmitted`, thread packages
  that retain execution, several clients or providers.
- Maintenance: the fan-out of restriction notifications, the time slice of `run()`.
- Input: payload validation, device configuration, acquisition of the connection;
  the snapshot is read whole or not at all (its sequence lock is the construction
  of `HostRestriction`).
- Lifecycle: asset operations are one bit per client; refreshes of the filesystem
  after the first scan, requests of pumped clients, batch work that is outstanding and
  direct connections that are open when a thread is stopped (`host.cpp:455`, `466-479`),
  an execution that a thread package retains (`host.cpp:279-286`), file names, lookup and ABI checks (one outcome, `binding_failed`).
- Failed allocations outside `TQueue`.
- `TRing` and `TOwning` (bounded FIFOs where they are used), the parking gate and the
  semaphores (the fallback of builds without a native wait word).
- Containers, memory, document model, schema, text, image, asset formats,
  filesystem, rendering, audio and tools. These are most of the code base, and
  sequential data transformations or calls of vendor APIs: a model would be a second
  implementation, with no interleaving for TLC to explore and inputs too large for it.
  They are the reason the mapped share of all lines stays small; of the code that
  is shared between threads or runs over several turns of the Host, what is missing
  is listed above.
- Memory ordering weaker than sequential consistency: the atomics of the code
  that hand data over are acquire/release or stronger, and every model takes each
  atomic access as one indivisible step.

## 7. Plan

Done: queue (with refinement), ring (with refinement), arena, batch, restriction,
input, maintenance, direct connections, services, lifecycle and owner wait with proofs of
all the safety properties their runs check; bulk with a run.

Modules still worth writing: `TRing` and `TOwning`, implementing `SpscQueue` without
discard, and `ParkingGate`, which would justify the epochs of `BatchWork` on builds
without a native wait word.
