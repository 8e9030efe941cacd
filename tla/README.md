# Formal models of the flow runtime

TLA+ models of the flow library in this repository (`flow/`, with the code that
`actorcompiler/` generates for it), the TLC configurations that check them, and
TLAPS proofs. Flow is a runtime for single-threaded actors: `ACTOR` functions
wait on futures, are resumed by callbacks, can be cancelled at any wait, and are
scheduled by the run loop of one network thread to which other threads hand
tasks.

## 1. The system

| Component | State | Operations | What is hard |
|---|---|---|---|
| SAV, `Promise`, `Future` (`flow.h`) | reference counts, outcome, ring of callbacks | copy, drop, `send`, `sendError`, wait, unlink, `cancel` | callbacks run inside `send` and may change the object the loop is iterating over |
| Generated actors (`ActorCompiler.cs`, `flow.h`) | wait state, one promise reference | wait, resume, cancel, return, throw | an actor is resumed, cancelled or destroyed from inside someone else's call |
| `FlowLock` (`genericactors.actor.h`) | `active`, `takers` | `take`, `takeUpTo`, `release`, `Releaser`, `releaseWhen` | cancellation between grant and return; barging; a waiter leaving the queue |
| `ThreadSafeQueue` | `head`, `tail`, `next` pointers, `sleepy` | `push` (any thread), `pop`, `canSleep` (one consumer) | lock-free; the list is broken between exchange and store; sleep/wake handshake |
| Net2 run loop (`Net2.actor.cpp`) | `ready`, `timers`, `threadReady`, reactor | `run`, `onMainThread`, `delay`, `wake` | deciding to sleep while other threads push; order of tasks |
| Net2 connections, listeners | sockets, readiness promises | connect, accept, read, write | completion handlers against close |
| `PromiseStream` / `NotifiedQueue` | queue, one callback, error, counts | `send`, `pop`, wait | breaking a stream from inside its own callback |
| Combinators (`genericactors.actor.h`) | actors and small structs | `Quorum`, `yieldedFuture`, merges, timeouts | reference counts used as protocol state; errors passed through yields |
| `AsyncVar`, `AsyncMap`, `Debouncer` | value, promise of the next change | `set`, `trigger`, `onChange` | a setter notifies waiters that set again |
| `ActorCollection` | running actors by tag | add, complete, fail | count against completion order |
| Thread futures (`ThreadHelper.actor.h`) | status and callback under a spin lock | send, callback, cancel from any thread | cancel racing with set |
| Thread pool (`IThreadPool.cpp`) | threads, posted actions, mode | `post`, `stop`, thread loop | stopping from a pool thread; actions never run |
| Allocator (`FastAlloc`) | per-thread and global magazines | allocate, release | magazines moving between threads |
| Containers (`Deque`, `IndexedSet`, `Arena`) | arrays, a balanced tree | usual | index arithmetic, rebalancing |
| Trace log (`Trace.cpp`) | buffer, barriers, suppression, roles | `log`, `flush`, `close` | several threads, flush against roll |
| Metrics (`TDMetric`, `Stats`, `MetricSample`) | levels, blocks | `set`, `flush`, `rollMetric` | boundaries of blocks and time |
| Packets (`Net2Packet`) | chains of counted buffers, reliable packets | write, send, acknowledge, reconnect | bytes shared by three owners, split over buffers |
| Profilers (`Profiler.actor.cpp`, `Platform.cpp`) | sample buffers | signal handler, swap, write | a handler interrupts the thread between any two steps |
| Files and paths (`Platform.cpp`) | names, contents, what is on the disk | `atomicReplace`, `deleteFile`, `cleanPath`, `abspath` | crashes between steps; "..", missing names and links |
| Encodings and hashes (`CompressedInt`, `serialize.h`, `Hash3.c`) | — | write and read, hash | lengths, signs, alignment |
| Knobs, errors, compiler front end | — | — | tables and text |

Interactions: `send` on a promise calls callbacks, which are actors; an actor's
result is a SAV; the run loop's tasks are promises (`PromiseTask`) whose `send`
resumes actors; other threads reach actors only through `onMainThread`, that is
through `ThreadSafeQueue`; `FlowLock`, `AsyncVar` and the combinators are built
from promises and actors.

What makes each of them correct:

* futures and actors: one outcome, every waiter told exactly once, counts equal to
  handles, freed exactly when unreferenced, an unwanted actor cancelled;
* streams: values in order and none lost, the error last, no waiter on a stream
  that nobody can write to;
* `FlowLock`: permits conserved, the limit kept, no overlooked waiter;
* thread queue and run loop: FIFO, no freed node touched, no sleep on unannounced
  work, every task run once and in the order of its priority;
* combinators and `AsyncVar`/`AsyncMap`: result exactly when the inputs say so,
  errors not turned into values, no notification lost when a notified actor sets
  again, no entry erased that somebody waits on;
* thread futures and pool: a callback called once on set or cancel, no use after
  the last reference, `stop` ends, nothing posted is run after it;
* allocator: a block is free in one place; containers: equal to a sequence and to
  a sorted set, with balance and sums; trace log: events of a thread in order, a
  flush returns only when they are written; metrics: no change lost at a block's
  end; generated code: the order of the source's statements.

`PROJECT.json` lists every component with its status, every hazard at the line
where it bites, and, for each modelled definition, the source lines it stands for.
Abbreviations of a line or two have no entry of their own: they are read with the
operation that uses them.

## 2. Modules

| Module | Models |
|---|---|
| `SingleAssignment` | the contract of a future: one assignment, waiters told once (abstract) |
| `Sav` | `SAV`, `Callback`, `Promise`, `Future` and the owning actor; refines `SingleAssignment` |
| `SequenceLemmas` | lemmas about sequences and sizes of sets that the proofs share |
| `SavProofs` | TLAPS proofs about `Sav` |
| `FlowLock`, `FlowLockProofs` | `FlowLock` with its clients; the proofs about it |
| `WakeableQueue` | what `ThreadSafeQueue` promises (abstract) |
| `ThreadSafeQueue` | `push`, `pop`, `canSleep` step by step; refines `WakeableQueue` |
| `Net2Wakeup` | the run loop and `onMainThread`, composed with `ThreadSafeQueue` (it extends that module and synchronises its actions) |
| `Net2WakeupProofs` | the proofs about `ThreadSafeQueue` and `Net2Wakeup` |
| `NotifiedQueue`, `NotifiedQueueProofs` | `PromiseStream`, `FutureStream` and the queue between them; the proofs about it |
| `RunLoop` | the run loop seen by its tasks: `delay`, `yield`, `check_yield`, `stop` |
| `QuorumFuture`, `QuorumFutureProofs` | `Quorum` with the calls that nest in it; the proofs about it |
| `FutureActors` | the small actors that turn futures into futures: timeouts, delays, error handling, boolean combinators, `operator&&`, `operator\|\|` |
| `StreamActors`, `StreamMerge` | `map`, `filter`, `mapAsync`, `asyncFilter`, `yieldPromiseStream`; both merges |
| `YieldedFuture` | `yieldedFuture` and its moving of callbacks between rings |
| `AsyncMap`, `AsyncVars` | `AsyncMap`, `YieldedAsyncMap`; `AsyncVar` and the actors that follow one |
| `AndFuture`, `ActorCollection` | sets of futures that are awaited together |
| `ActorMachine` | what the code generated for each kind of statement does, running the actors of `examples/ActorFuzz.actor.cpp` and `examples/dsltest.actor.cpp` |
| `ThreadFuture`, `ThreadFutureProofs` | `ThreadSingleAssignmentVar` under `onMainThread`; the proofs about it |
| `ThreadPool`, `ThreadPoolProofs` | the pool; the proofs about it |
| `FastAlloc` | magazines of `FastAllocator` |
| `TraceLog`, `TraceEvents` | buffer, writer thread and files; a single event with throttle, suppression and roles |
| `Profiler`, `SlowTaskProfiler` | the two SIGPROF handlers and their readers |
| `EventMetrics`, `ContinuousMetric` | time series of `TDMetric` |
| `Connection`, `Dialing` | reading and writing; resolving, connecting and accepting |
| `Packets` | `UnsentPacketQueue`, `ReliablePacketList`, `PacketWriter` |
| `Containers`, `IndexedSet` | `Arena`'s memory blocks and the ring of `Deque`; the balanced tree |
| `Platform` | `atomicReplace` and `deleteFile` with crashes; path functions on a tree with links |
| `Encodings` | encodings that sort like integers; the hash functions |
| `MCActors`, `MCThreads`, `MCData`, `MCProgress` | the instances of these components that TLC checks |

`Sav`, `Net2Wakeup`, `FlowLock` and `NotifiedQueue` are checked as they are. The others are
checked in groups. An `MC` module has a variable `part`, which never changes and
says which component a behaviour is about, and *slots* `s1`, `s2`, ... that stand
for that component's variables by `INSTANCE ... WITH`; slots it does not need
stay 0. A behaviour of the group is therefore a behaviour of one component, and
a property of the group is the conjunction of `part = "x" => X!Property`. The
components of a group share nothing. One component of a group has no slots: the
`MC` module extends its module, whose variables have their own names, so that
the run checks the very invariant that is proved. These are `QuorumFuture` in
`MCActors`, `ThreadFuture` in `MCThreads` and `ThreadPool` in `MCProgress`; while
another component runs they stay in their initial state. What a module's constants have to satisfy
is its `...Assumption`; the `MC` modules assume these for the values they give.

Operators whose comment begins with "Fault:" are deliberately wrong versions of
the operator that follows them; they are part of no specification. Each property
has one that breaks it (`mutants` in `PROJECT.json`), which shows that the
property depends on the code it is about.

### Sav

One SAV. `promises`, `futures` and `error_state` are the fields of the class;
`ring` is the circular list from `Callback::next` on; `promiseHandles` and
`futureHandles` are the objects that really hold a reference, so that the counts
can be compared with them. `cb` records what every callback was told.

* `Init` has the three ways a SAV is created: `Promise()` (0 futures, 1 promise),
  an actor (1, 1), `Future(value | Error | Never)` (1, 0).
* The loops of `send`, `sendError`, `sendAndDelPromiseRef` and the broken promise
  of `delPromiseRef` are `StartLoop`, then `FireNext` per callback, then
  `LoopExit`. While a callback is on the stack (`inCallback`) every user
  operation is enabled: copying, dropping and cancelling handles, and unlinking
  waiters. `firing` says which operation's loop is on the stack. A loop inside a
  loop cannot occur on one SAV: the outcome is set before the first callback.
* `Future` and `Promise` assignment are a copy and a drop. Moves and `swap`
  change no count.
* `cancel` is the generated function: `actor_wait_state = -1`; the handlers it
  runs are the actor's later steps. Only cancellable actors are modelled; for
  others `cancel` does nothing, as for a plain promise.
* Assumption: callbacks do not drop the promise reference through which the
  running loop was entered (`pinned`) and, while the last promise is being
  destroyed, do not copy it (`Usable`). The second is the comment at
  `flow.h:367`; the first is what callers such as `AsyncVar::setUnconditional`
  ensure by moving the promise to their stack: `AsyncVars`, `AsyncMap` and
  `FlowLock` model them so.

### FlowLock

Clients that take and release permits. `takers` is the list of queued takers,
`stage` says where a client's call is. Granting is a loop inside `release()`
that no other code interrupts: `granting` is set by whoever calls `release` and
disables everything but `GrantNext` and `GrantStop`. The taker that is granted
does not run its caller's code there; it yields first ("yielding"), and may be
cancelled then. `held` is a history variable: the permits in `active` that
belong to each client. A `Releaser` releases part or all of what it has, and the
rest when it is destroyed, which is `Release`. The yield inside `take` may also
be instantaneous; that is the behaviour where `TakeReturns` follows at once.
`Destroy` is the destructor: members go in reverse order, so
`broken_on_destruct` breaks first and all pending calls end in an error.

### ThreadSafeQueue

A step is one access to memory that another thread may use. `Exchange` and
`Link` are the two halves of `pushNode`; the consumer's own `pushNode` of the
stub and of the sleeping node is split in the same way. `freed` is the set of
deleted nodes: a step that would touch one is visible in `NoUseAfterFree`. Nodes
are not reused. Memory is sequentially consistent: the exchange is a full
barrier and all pointers are `volatile`; weaker orderings are not modelled.

### Net2Wakeup

`lpc` walks through one turn of `Net2::run`: decide whether to sleep (`Top`,
`Decide`), `sleepAndReact` (`React`), move due timers to `ready`, drain the
queue (`Drain`, `DrainTakes`, which is `processThreadReady`), run tasks by
priority (`RunTask`), each followed by `check_yield`, which drains the queue
before it decides (`CheckYield`). A running task may call `onMainThread` on the
network thread, which drains the queue first (`caller` remembers where to
return). The reactor is external (Boost.Asio): `posted` says
that a handler is waiting in it; `run_one` blocks until then or until the timer.
Time is abstract: a nap may end at any moment with any set of timers due.
`ready` is kept in the order of `tasksIssued`, and `IsTop` is the order of
`OrderedTask`.

### NotifiedQueue

One stream with its handles on both sides and the one actor that may wait on it.
`promises`, `futures`, `queue` and `error` are the fields of the class, `waiting`
is `SingleCallback::next != this`. A value is its number in the order of sending,
so that `received \o queue` can be compared with what was sent. Nothing in the
class is touched after the callback has been called, so each operation is one
step; the callback's own code is a later step. `CallWaiter` is the callback
unlinking itself, which drops its reference and may destroy the queue.
`waitNext` is `NextReady` or `NextWaits`, as in the generated code. The class
asserts that a second actor does not wait on the same stream; that is the guard
of `NextWaits`.

### The actors on top of futures

A resumed actor runs until it waits for something that is not ready. Modules
whose subject is what may happen *inside* a call (`QuorumFuture`, `AsyncMap`,
`AsyncVars`) keep the call stack in a variable: a send in progress is a frame
with the callbacks still to be called, and other operations may come before it
goes on. Where the code does not touch its object after the call, an operation
is one step and what the callback does a later one (`NotifiedQueue`,
`StreamActors`, `ActorCollection`).

`FutureActors` has one operator per actor, which says how it goes on at a place
`pc` when input `i` has outcome `o`; `Start` and `React` choose among them by
`kind`. `Resume` is common: the whens of a `choose` are tried in their order, and
in a cancelled actor every wait throws `actor_cancelled`. `Init` lets each input
be ready before the actor is called. `StreamMerge` takes the kind of merge as a
constant; `NoAssertionFails` is about its state "crashed", a failed assertion.

`ActorMachine` writes the test actors as programs in a small language (wait,
choose, loop, try, break, continue, return, throw); a frame of its stack holds
the statements to come, the loop and the handler around them, as the generated
continuations do. `AsExpected` compares the output with what the test prescribes
for every number of inputs sent before the actor starts and every place of the
error.

### Threads

A section under a lock is one step, and so is each access outside it.
`ThreadFuture` separates reading the status, firing callbacks and dropping a
reference; `ThreadPool` separates the end of an action, the loop's test and the
thread's last write; `TraceLog` has the actions of the writer thread one by one.
In `FastAlloc` thread-local work is part of the critical section it precedes,
and what the system allocates or an event allocates in between is a step. `lost`
is a history variable: the free objects that `getMagazine` overwrote, which can
only be those an event within it left.
`Profiler` and `SlowTaskProfiler` have one step per access of the interrupted
code, between which the handler may come. `SamplesIntact` is about the samples
they accepted: what does not fit a full buffer is dropped (`Profiler.actor.cpp:114`).

In `TraceLog` a write or an open that fails is repeated after `lastError` has
unblocked the barriers. A close that fails is repeated without that
(`CloseError`); the descriptor may then be open still or gone, as the system has
it, and in the second case no later call succeeds.

In `Dialing` the reactor completes an operation in one step and runs its handler
in a later one. The caller may give up a lookup or a connect at any time. It
cancels an accept only when it is done with the listener, as `network.h:311`
asks, and drops the listener then, later or never; the operation itself is not
recalled.

### Memory, files and data

`Containers` keeps the sizes of `Arena` (limits 58, 8192, 8193) and its growth
rule; pieces handed out are intervals, compared by `NoOverlap`. Its `Deque` has
`W`-bit indexes, so that the limit and the wrap-around, at 2^32 in the code, come after
a few pushes; `Encodings` has bytes of `B` bits for the same reason.
`IndexedSet` stores balances and totals and adjusts them by the code's formulas;
`TreeRight` compares them with the real heights and sums. `Platform` has an
inode per file, and contents and names that are durable or not; a crash keeps
any combination of what was not synced. `Packets`, `EventMetrics` and `Dialing`
use a transport, a database and a reactor that are not in the repository; they
are modelled from how the code calls them.

`TraceEvents` follows the count of suppressed events: it is in the map, in the
event that took it (`Carried`), or `told` by one that was logged; or it was
`forgotten` with the map, or is `unreported` because the event that took it was
not asked to report it or was itself dropped.

## 3. Runs

| Run | Instance | Shows |
|---|---|---|
| `sav` | 3 promises, 3 futures, 3 callbacks | `SavSafe`: counts are handles, destroyed exactly when unreferenced, the code's assertions, unwanted actors cancelled; `NoOrphanWaiter`; one outcome for all (`ToldTheOutcome`, `ToldOnce`); refinement of `SingleAssignment`; every waiter is told and cancelled actors end (`PromisesKept`) |
| `wakeup` | 2 producers with 2 tasks of one priority, 1 urgent local task, 1 timer | `LoopSafe`: no sleep on work nobody announces, tasks conserved, order within a priority, no freed node touched; `QueueIsRight`: refinement of `WakeableQueue`, empty only when justified; every posted task runs |
| `flowlock` | 4 clients, 2 permits, requests 1..3, up to 1 or 3, symmetric | `LockSafe`: permits conserved, holder limit, no lost wakeup, agreement of stages and queue |
| `stream` | 3 handles on either side, 4 values | `StreamSafe`: values in order and none lost, the error last, counts are handles, no waiter on a stream that nobody can write to |
| `actors` | `MCActors` | quorums, combinators, stream actors and merges, yielded futures, watchers, `AndFuture`, `ActorCollection`, the test actors |
| `threads` | `MCThreads` | thread futures, allocator, trace log, profilers, yields, the queue with 3 items, connections, dialing |
| `data` | `MCData` | arenas, deques, trees, packets, atomic replacement, trace events and roles, metrics; encodings, hashes and paths against reference definitions |
| `progress` | `MCProgress` | everything that has to happen in the end, for smaller instances; `PoolSafe` of the thread pool |
| `ordered_merge_assert` | `StreamMerge`, one item per stream | violated, see below |
| `event_metrics_patch` | `EventMetrics`, a series with earlier data | violated |
| `yielded_error` | `YieldedFuture`, 1 plain and 3 yielded callbacks | violated |
| `thread_pool_leak` | `ThreadPool`, explicit stop | violated |

Bounds. A SAV's behaviour depends on whether there are zero, one or more
handles, callbacks before, at and after the one being fired: three of each give
all of these. FlowLock needs a holder, a head of the queue, one behind it and
one barging; request 3 exceeds the permits, request 2 uses all of them. Two
producers can be stopped between exchange and store at the same time, and three
items let the stub and the sleeping node go round more than once. A quorum of
three can be completed, failed and cancelled around one result in the middle.
Three watchers of two keys are a last one, one that is left and one that comes
while a change is sent. The pool has, for two threads, an action that runs and
one that waits or is posted late; the theorem has any number. Magazines of two objects and three pages make a
thread trade both of its lists. Ten words of samples are full after two or
three. Nine keys are a tree of height four, of which a range can be cut off that
leaves the root unbalanced by more than two. Items, tasks, events and operations
are used up, which bounds every run (`Max...` constants); deadlock checking is
off because each of these objects may simply not be used any more.

Fairness. A callback returns to the loop that called it, and a resumed actor
runs on (`Work` in `MCProgress`, `LoopStep` in `Sav`): code between two waits is
not preempted. A cancelled actor cannot wait again and must end. A thread that
has begun a call or a push completes it, the network thread runs unless it
sleeps, the threads of the pool, the writer thread and the reactor are
scheduled, the clock ticks and timers raise their signals (`Turn`). The disk may
fail for ever. `LoopsGoOn` still has every flush and close of the log return,
unless the writer stays for ever in the loop of `FileTraceLogWriter::close`
(`Stuck`), where the code unblocks nobody. What is not
fair: that anybody sends, closes, releases a future, or that the network reports
a broken connection. Holders of a FlowLock are assumed to release, with strong
fairness, because the uninterrupted `release` loop of another client disables
them for an instant; without that no lock is live. `resetAfter`'s delay is
strongly fair since every change starts it again. `QueuedIsServed` is stated for
requests of one permit: a taker that needs several can be overtaken for ever by
smaller ones, and permits given to a `releaseWhen` that is cancelled are gone.

### Where the code does something else than it says

Four runs show a violation; `findings` in `PROJECT.json` quotes the lines.

* `ordered_merge_assert`: at the end of the second input the ordered merge goes
  on to read a saved item that is not there.
* `event_metrics_patch`: blocks made after the header of a series was found are
  patched a second time.
* `yielded_error`: an error that reaches several yielded futures is seen by the
  later ones as success.
* `thread_pool_leak`: after an explicit `stop()` the pool is never destroyed;
  actions left in it are neither called nor cancelled.

The modules also state the following, which no run checks because it does not
hold; each can be seen by checking that property with the constants given.

| Property | What the code does against which words |
|---|---|
| `StreamMerge!NoAssertionFails`, `Kind = "unordered"` | one input ended and the other failed before the merge looks: the assertion at `genericactors.actor.h:1585` fails |
| `AsyncMap!ItemInvariant` | `set(k, V())` leaves an entry with the default value and no watcher, against the invariant at `genericactors.actor.h:620` |
| `FutureActors!OrTable` | `operator\|\|` returns an error where one side is set, against the table at `genericactors.actor.h:1164` |
| `ThreadFuture!ReadyIsStable`, `Releases = TRUE` | the status read after the lock may be that of `releaseMemory`, against the comment at `ThreadHelper.actor.h:262` |
| `RunLoop!YieldGivesWay`, `MaxIssued` at least 2^`Shift` | after 2^32 tasks a yield overlooks a task of the next priority (`Net2.actor.cpp:772`), against `network.h:347` |
| `RunLoop!DelayElapses` | a delay counts from the last `updateNow` and may end early, against `network.h:344` |
| `FastAlloc!NothingOverwritten`, `Sampling = TRUE` | the sampling event may fill the free list that `getMagazine` then overwrites (`FastAlloc.cpp:457`) |
| `Profiler!HandlerAlive`, two profilers | a pending signal may be delivered with the deleted profiler's closure (`Profiler.actor.cpp:145`) |
| `EventMetrics!NoOldValue` | an event that is not logged leaves its fields to the next one, against `TDMetric.actor.h:1000` |
| `TraceLog!FlushReturns` under `FairSpec` | a close that fails for ever (`FileTraceLogWriter.cpp:114`) unblocks no barrier, and flushes and `close` wait for ever; the comment at `FileTraceLogWriter.cpp:62` means to exclude that for writes |
| `Dialing!NoWildAccept` | an accept cancelled after the reactor completed it, or whose listener lives on, is completed into the state of the destroyed actor (`Net2.actor.cpp:467`); `network.h:311` asks only to be done with the listener |
| `TraceEvents!CountsReported` | the event that took the count of suppressed ones may be throttled, below the minimum severity or too large, and the count goes with it (`Trace.cpp:919`) |
| `TraceEvents!TurnIsUsed` | an event too large is dropped after it was counted towards its suppression, against `Trace.cpp:927` |
| `Platform!ThrowsErrors` | `deleteFile` throws an `int`, against `Platform.h:302` |
| `Platform!LinksExpanded` | a link after "missing/.." is not expanded, against `Platform.h:332` |
| `IndexedSet!HoldsItems` with a vector that does not increase | the batch insert breaks the order of the tree; `IndexedSet.h:116` asks for none |

## 4. Proofs

`SavProofs` proves the safety properties and the refinement of run `sav` for any
finite sets of promises and futures and any set of callbacks, from
`HandlesAssumption` (the handle sets are finite and the actor is not a promise
object).

The properties are not inductive by themselves. `IInv` adds

* `LoopOK`: the reference a loop runs through exists and is unique, there is an
  outcome while a loop runs, and in `delPromiseRef` it is the only promise;
* `ActorOK`: an actor is the only owner of its SAV;
* `SettledOK`: outside a loop nobody waits for an outcome that is there, and a
  live SAV without outcome has an owner.

`RefCounts` is what makes the tests on `promises` and `futures` in the code
equivalent to statements about handles; `LoopOK` excludes that user code drops
the loop's own reference; `SettledOK` is needed where the ring's last callback
leaves. There is one lemma per action (`DropPromiseIInv`, `DetachIInv`, ...),
combined in `NextIInv` and `Invariance`.

`RingInv` adds that no callback is linked twice (`RingInjective`). `StepKinds`
classifies the steps by what they do to the outcome and the waiters, from which
follow `EveryoneHearsTheSame`, `StepRefines`, `Refinement` (`Spec` implies the
specification of `SingleAssignment`) and `ToldAtMostOnce`.

`SavIsSafe` puts the invariants of the run together.

### FlowLock

`FlowLockProofs` proves `LockIsSafe`, that is `LockSafe` of run `flowlock`, for
any finite set of clients, any number of permits and any requests
(`LockAssumption`: amounts are positive). `IInv` adds `AskedOK`: a client whose
`takeUpTo` is granted holds exactly the one permit it queued for, so that the
addition in `TakeReturns` is never of a negative number. Conservation is a
statement about the size of a set: the permits held are the pairs of a client
and a number up to what it holds. `PairsChange` says what changing one client's
column does to the size, and `MovePermits` gives `Conserved'` for every action
from it. `NoLostWakeup` needs conservation as well: with nothing `active` there
are no holders, hence no release to come, and the queue has to be empty.

### PromiseStream

`NotifiedQueueProofs` proves `StreamIsSafe`, that is `StreamSafe` of run
`stream`, for any finite handle sets and any number of values
(`StreamAssumption`). `IInv` adds `BrokenOK`: an error is there once the last promise is
gone while somebody still reads. The content part rests on `MoveHead`: what was
received followed by what is queued does not change when the head of the queue
is received.

### ThreadSafeQueue and the run loop

`Net2WakeupProofs` proves that the queue is safe (`QueueIsSafe`) and implements
`WakeableQueue` (`QueueKeepsItsPromise`), for any number of producers, any set
of items and every interleaving of their memory accesses, from
`NodesAssumption` (the special nodes, null and the items are different).
The invariant `QInv` says that there is a sequence of nodes for which the
pointers stand (`ChainOK`):

* `Core`: its nodes are different, the last has no successor and each other one
  is linked to the next, unless that link is *pending* (`Pend`), because its
  producer, `pop` or `canSleep` is between the exchange on `head` and the store;
* `Preds`: whoever has a pending link remembers the right predecessor;
* `Content`: the items in the sequence are those pushed and not popped, in that
  order;
* `Special`: where the stub and the sleeping node are at each step of the
  consumer. `Asleep` implies that the list begins with both of them, which is
  why only the first push after that sees the sleeping node.

The list changes in three ways, each with a lemma: a node comes to the end with
its link pending (`CoreAppend`), a link is made (`CoreLink`), the tail moves over
a linked node (`CoreTail`). Each action is one of them (`AddOwn`, `LinkOwn`,
`LeaveFirst`, `KeepChain`) with its effect on the local variables. For the
refinement `StepRefines` has one lemma per kind of step: the exchange is the
abstract push, the step that takes a node out the abstract pop, the exchange of
`canSleep` falls asleep when nothing was pushed meanwhile, all others stutter.

`Net2Wakeup` extends the queue; `LoopUsesQueue` shows that every step of the
loop is a step or a stutter of the queue, which carries both results over
(`LoopQueueIsSafe`, `LoopQueueIsRight`). `LoopIsSafe` then proves `LoopSafe` of
run `wakeup`, with `LocalAssumption` (a thread's, the loop's own and timed tasks
are different, and finitely many timers), from `LoopInv`:

* `Control`: where the consumer is inside `pop` or `canSleep`, by the place of
  the loop; a loop that sleeps had permission;
* `Awaited`: if something was pushed after the loop fell asleep, the wakeup is
  posted or a producer that saw the sleeping node is still to post it;
* `Once`: a popped task is in transit, ready or was run, in one place only;
* `Orderly`: of one priority, nothing that ran or is ready overtook an earlier
  push.

### ThreadPool

`ThreadPoolProofs` proves `PoolIsSafe`, that is `PoolSafe` of run `progress`, for any finite sets of threads and actions, with and without an
explicit `stop()` (`ThreadPoolAssumption`: the two sets are finite and the
actions differ from the names of the places where a thread can be). `PoolInv`
adds

* `Added`: the vector holds each thread that was added, once;
* `Counts`: the references are the holder's and that of a `stop()` in progress,
  which waits for the vector's threads one after the other; a pool that runs is
  held, and one that is destroyed is neither held nor being stopped.

`NoUseAfterFree` is preserved since a thread that `stop()` waited for makes no
step any more (`ThreadMoves`), and no thread is added once `stop()` has begun.
`ActionsOnce` follows the actions from `post()` through the io_service to one
thread (`PostInv`, `TakeActionInv`, `ActionEndsInv`); the end of a `stop()` that
destroys the io_service cancels exactly those still in it (`StopReturnsInv`).
`NothingLeftOver` needs `GoneOK` besides: a destroyed pool has an empty
io_service, and without an explicit `stop()` the pool is destroyed as soon as the
`stop()` of the last reference has returned. This is the safety side of what run
`thread_pool_leak` refutes with an explicit `stop()`: then the second half of
`NothingLeftOver` says nothing, and the run shows why it cannot.

### Quorum

`QuorumFutureProofs` proves `QuorumIsSafe`, that is `QuorumSafe` of run `actors`, for any number of results and any finite set of
future objects (`QuorumAssumption`). The difficulty is the call stack: a send
calls the waiter, which may drop the last future and so start `cancel()` inside
the send, and `cancel()` removes callbacks, which may complete other results and
so start a send inside `cancel()`. `QuorumInv` says that the stack has one of
five shapes (`Frames`): nothing, a send, a `cancel()`, or one inside the other.
With `f` the number of sends and `n` the number of callbacks that `cancel()` has
removed,

* `StackOK`: the promises are the results to come plus `f + n`; a send has an
  outcome; `cancel()` runs when no future is left, and what it has passed is
  unlinked; without it a quorum without futures has no callbacks;
* `RefsOK`: the futures are the handles, the waiter, and `quorum()` itself until
  it returns;
* `NoneYet`: while there is no outcome every report was a success and the
  promises are the results that have not reported, which is what the comparison
  with `antiQuorum` in the code relies on.

From `n > 0` in a send inside `cancel()` it follows that this send never frees
the quorum under `cancel()` (`FinishInv`), and that `oneSuccess` and `oneError`
never take the branch that destroys it without telling anybody (`ReportInv`).
`Successes` is a size of a set; `GoodAppend` says how one more report changes it.
`ToldTheOutcome` rests on `OutcomeOnce`, an outcome stays, and on
`NoFutureAgain`, no future comes back: a quorum that was cancelled has no waiter
to be told `actor_cancelled`.

### Thread futures

`ThreadFutureProofs` proves `ThreadFutureIsSafe`, that is `ThreadFutureSafe` of
run `threads`, for any finite set of client threads, whether or not they give
memory back (`ThreadFutureAssumption`: the clients are finitely many and differ
from the names of the network thread and of nobody). `FutureInv` has

* `Counted`: the reference count is the number of those in `Holding`: clients that
  hold a `ThreadFuture` or are in a call with one, clients whose posted cancel is
  queued or runs, and the actor. `Lifetime` speaks of places in the code and the
  code decides by a count; this is what connects them;
* `PostedOnce`: a cancel is posted once, and its client is gone, so that one
  client is never counted for two references;
* `ListsMatchActor`: the variable is ready exactly when the actor has sent, a
  single callback is copied and several are told in place, and none is left when
  the actor returns;
* `Registered`: a callback that waits is in one place, untold and not cleared;
* `ValuesCounted`: one value reference for each client that got the value.

A step that moves a reference is a lemma on sets (`SameHolders`, `HolderLeaves`,
`ClientMoves`); `ClearedDistinct` says what the swap with the last callback in
`clearCallback` leaves. `SentOK` adds that the status is the outcome that was
sent until a value's memory is given back, from which `ToldTheOutcome` follows.

`ReadyIsStableUnlessReleased` proves the action property `ReadyIsStable` from the
assumption that no client calls `releaseMemory`. With `releaseMemory` it fails
(section 3): the theorem shows that this is the only operation to blame.

TLC checked `QInv`, `LoopInv`, `PoolInv`, `QuorumInv` (its `n` bounded by
`Count`) and `FutureInv` on small instances before they were proved, `FutureInv`
with three clients that give memory back and three that do not.
`SequenceLemmas` has what several of these proofs need of sequences: appending and removing at
the ends, and sequences without repetition.

### What is only model-checked

* Liveness and everything with fairness or ENABLED: out of the prover's reach.
* `ActorCollection`, `Containers`, `IndexedSet`, `Packets`, `Platform` (recursive
  operators, for which the prover has no SMT backend) and `Encodings` (bit
  operations).
* What recursive definitions, folds and filters compute for every input:
  `AndFuture` goes through a vector with recursive functions, `Connection` and
  `SlowTaskProfiler` add up lengths, `TraceLog` filters its buffer, and what these
  return needs induction over data.
* The components of which each call is a run through a fixed program
  (`FutureActors`, `StreamActors`, `StreamMerge`, `ActorMachine`): the programs
  are constants, so that the runs explore all of them and only the number of
  inputs is bounded.
* `AsyncMap`, `AsyncVars`, `YieldedFuture`, `FastAlloc`, `TraceEvents`, `Profiler`,
  `RunLoop`, `EventMetrics`, `ContinuousMetric` and `Dialing`: no proof was
  attempted.

## 5. Limits

Where proofs would come next: `FastAlloc`, whose invariant is about disjoint
lists as that of `ThreadSafeQueue` is, and `YieldedFuture`, whose ring is that of
`Sav`.

Assumed of callers: a `Deque` is not assigned to itself (`Deque.h:53` destroys
the elements and would copy from the new storage; nobody in the repository does
so), and the
callers of `Sav` keep to what section 2 says.

Not modelled:

* `WorkerCache`, `forwardVector`, `timeoutWarningCollector`, `Debouncer`, moving of
  generic structures: small actors of the same kinds as those modelled;
* the encodings of metric fields, the trace formatters, `BinaryReader` and
  `BinaryWriter` of plain types: layout of bytes and text;
* void and `UNCANCELLABLE` actors, and the text processing of the compiler: its
  output is modelled, not how it is produced;
* `Stats`, `SystemMonitor`, most of `Platform`: counters of the operating system
  that are read and printed;
* thread primitives: wrappers of the system's mutexes and events, modelled where
  they are used; memory is sequentially consistent everywhere;
* knobs, error tables, random numbers, the registry of tests: tables;
* `SimpleOpt` and the stack tracer: third-party code.
