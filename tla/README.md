# DynaJS: verification project

DynaJS is a JavaScript engine derived from QuickJS together with its runtime:
an interpreter, 38 `dyna:*` modules written in C, a readiness loop, a reactor
that all network classes of a thread share, and a worker pool that all threads
share.  This project models, in TLA+, the parts of the runtime in which order
matters: who runs when, who may free what, which wake-up may not be lost.  TLC
checks the models on small instances, and TLAPS proves the most important
invariants for every size.

File names below are relative to `src/src/` unless they say otherwise.

## 1. Inventory

### 1.1 How the parts hang together

    Semaphore, Channel, Pool, retry, throttle    dyna-async.js.inc.c    Async
        |  promise jobs and timers
    event loop: timers, posts, workers, fibers   dyna-libc.c, dyna-fiber.inc.c    JsLoop
        |  one runtime per OS thread; Workers and fibers are other threads
    clients and servers, HTTP, Redis, PG, DNS    dyna-net-*.c, dyna-http.c, dyna-sys.c
        |  acquire / release, on_drain / off_drain
    shared reactor of the thread                 dyna-net.c             NetReactor
        |  dyn_aio_*
    portable reactor                             dyna-aio.c             AioConn, AioListen, AioPark
        |  add / mod / del / poll      \  submit / drain, wake eventfd
    readiness loop (epoll, timerfd)     \
      dyna-evloop.c    EvLoop            worker pool, shared by all threads
                                           core/dyn-pool.c   ThreadPool => JobService

    timer heap of DNS and HTTP             core/dyn-timer.c  TimerHeap => TimerService

Calls go down and callbacks come back up, and almost every callback may call
down again before it returns: close the descriptor it was called for, open
another one that gets the same number, submit a job, drain the reactor again.
That is where most of the difficulty lies.  Threads share memory in two places: in
the worker pool, and between the event loop and the Workers and fibers that
post to it.  Everything else belongs to one thread.

### 1.2 The components with an order of steps to get right

| Component | State | Operations | What is hard | What makes it correct |
|---|---|---|---|---|
| Worker pool `core/dyn-pool.c` | list of channels, three rings and three counters each, counters of the pool, two round-robin cursors, two condition variables, one eventfd per channel | submit (IO, CPU), the worker's loop, drain, channel new and free, pool free | threads; one signal per submission; a callback between two critical sections; a channel freed under running jobs; addresses reused | exact counters, no pointer to a freed channel, no lost wake-up of a thread or an owner, accepted jobs run and are reported once |
| Timer heap `core/dyn-timer.c` | binary heap, slots with generations, free list, sequence number | add, cancel, next_timeout, run with callbacks | stale ids; removal from the middle; overflow of times; callbacks that add and cancel | heap order, slots and heap agree, each timer fires once and in order |
| Readiness loop `dyna-evloop.c` | registrations with generations, epoll's own table, timerfd, the batch under dispatch | add, mod, del, set_timer, poll | a descriptor closed and reused while its event waits in the batch; `epoll_ctl` that fails half way | the kernel's table follows the loop's, no event for the wrong owner, readiness is served |
| Portable reactor `dyna-aio.c`, connections | per descriptor: read slot, write under way, queue of sends, file body, interest, life | send, sendfile, recv, connect, cancel, close, dispatch | partial writes; callbacks between the stages of one dispatch; order of sends around a file body | bytes in order, every submission settles once, interest is never forgotten |
| Portable reactor, listeners | accept slot, paused flag, number of listeners, one timer for two parties | accept, close, cancel, set_timer, dispatch, sweep | running out of descriptors; two parties that stop one timer; refused registrations | a paused listener is taken up again |
| Portable reactor, job park | FIFO of parked jobs in front of the channel | submit, drain, flush, free | submission from a completion callback; a full channel and a full park | no parked job without a wake to come, no overtaking |
| Shared reactor `dyna-net.c` | the reactor, references, weak holds, put-off release, array of hooks, depth of drains | acquire, release, weak hold and drop, on_drain, on_drain_notick, off_drain, drain, wait | the last release inside a drain; hooks removed while they are walked; the loop's decision to exit | never freed in use, always freed after; every hook has its turn |
| Event loop of a runtime `dyna-libc.c` | JS timers, watched descriptors, poster (flag, pipe, list), message pipes with wakers, ports, count of live Workers, holds | js_std_loop, js_os_poll, js_loop_run_posts, postMessage, onmessage, Worker start and end, signals, shutdown | posts, ends of Workers and signals between any two steps of a turn; the decision to exit; callbacks that drop what is later in the batch | messages are served, the loop ends only when nothing is owed, a wake-up always finds the loop |
| Fibers `dyna-fiber.inc.c` | state of each call, number of threads, list of waiting calls | start, go to a thread, post back, await, shutdown | hand-over between two threads; a limit on threads; shutdown while calls are out | a waiting call has somebody who starts it, every call comes back, shutdown ends |
| `dyna:async` `dyna-async.js.inc.c` | permits and waiters, buffered values and blocked sends, jobs and slots, timers | Semaphore, Queue, Channel, Pool, pmap, withTimeout, retry, debounce, throttle | promise jobs in any order; close, double release, timeouts that leave a waiter behind; closures that share a variable | hand-over in order, nothing lost or doubled, every call as often as promised, all of it settles |
| Rate limiter `dyna-net-ratelimit.c` | open-addressing table of token buckets | take, evict, grow, remove | backward rehash, eviction in a full probe, refill arithmetic | planned |
| io_uring reactor `dyna-aio-uring.c` | submission and completion rings, operations in the kernel | the interface of `dyna-aio.h` | cancellation races with completion | planned |

`PROJECT.json` lists all components, also those that are not modelled, and the
hazards at the lines where they bite.

## 2. Modules

Names in the modules are the names in the code where TLA+ allows it.  A module
keeps the control of its component and abstracts its data: a job is its
identity, a byte is a unit of the submission it belongs to, a callback is known
by what it was registered for.  A user callback is always a state of its own in
which everything user code may do is enabled.

**ThreadPool** (`core/dyn-pool.c`).  An action is one critical section of
`pool->mu`.  `Take`, `Sleep`, `Exit` and `Finish` are the sections of
`pool_worker`; `Submit` is `pool_submit`; `DrainBegin`, `DrainNext`, `DrainEnd`
are `dyn_pool_drain`, split where it unlocks around a callback, with the time
slice ended at will (a drain nested in a callback is left out, see 5); `CloseBegin`, `CloseWait`, `CloseRecheck` are
`dyn_pool_chan_free`.  The condition variables are wait sets with spurious
wake-ups, and signalling one waiter is a choice among them.  Channel addresses
are reused at once.  **JobService** is the contract: run once, report at most
once, nothing after close.

**TimerHeap** (`core/dyn-timer.c`).  A sift is the trail of positions that the code's loop visits, along which
entries move one place; each is put down together with the position in its slot.  Times are bounded by `TimeMax`, which stands for `UINT64_MAX`.  **TimerService** is the contract: fires once,
not early, in order, unless its own handle cancelled it.

**EvLoop** (`dyna-evloop.c`, the epoll build).  `regs` is the loop's table and
`kern` epoll's; an `epoll_ctl` may fail at any time.  `Poll` harvests the
ready files in any order into `batch`; `Dispatch` compares
generations and calls back.  Closing a file takes it out of epoll's table, and the
number may be opened again while older events wait.  The upper half of the
timerfd's event data is indeterminate in the code and a free choice here.

**AioConn** (`dyna-aio.c`, one descriptor).  `conn` is the slot `aio_fd_t`, `disp`
the place in `aio_dispatch`, `wire` what the peer has received and `subs` the
record of every submission.  Any submission may be a file body, also an empty one; a second
body is refused only while the first has bytes left, as in `dyn_aio_sendfile`.  What is in
`after_file` and `w_file_rem` decides the order, and `SentInTurn` states the order that comes of it.
The readiness loop below is EvLoop's contract.

**AioListen** (`dyna-aio.c`, listeners and the timer).  It has no run of its own: module
NetReactor instantiates it, since only `dyn_net_drain` runs its sweep.

**AioPark** (`dyna-aio.c`, `aio_pool_submit_class`, `aio_park_flush` and the
wake handler).  The channel below is ThreadPool's contract.

**NetReactor** (`dyna-net.c`), composed with AioListen.  `drains` is the stack of
drains under way with the index of the hook each has come to; users, the HTTP
client's idle pool and the graveyard of UDP sockets act between any two steps.

**JsLoop** (`dyna-libc.c`, `dyna-fiber.inc.c`).  The main thread `m` walks through
a turn of `js_os_poll` in the code's order: signals, posts, the decision to
exit, timers, the poll set, the wait, and the batch of descriptors and ports.
Every access to what another thread writes is a step of its own: the poster's
flag, its pipe (read until empty), its list, the count of live Workers, which
the loop reads twice, and each pipe's queue with its waker.  `kicks` counts the fiber
threads that have appended their post and not yet finished the kick.  A Worker is
its two pipes, its handler and the steps of its end (`WorkerEnds`,
`WorkerKicks`, `WorkerWrites`); its loop may also fail at any time.  A fiber is one of the states of `DynFiber`;
`waitq` is the list of calls that wait for a thread.  `dyn_fiber_threads_live` is one
count for the process, so `Threads` adds to the script's own threads those that calls of
Workers have taken (`lent`, with `WorkerSpawns` and `WorkerCallEnds`).  JavaScript runs where
`m.pc = "js"`, and may do anything any number of times before it returns.
`Shutdown` and the `Shut...` actions are `js_std_free_handlers`
with `dyn_fiber_shutdown`.

**Async** (`dyna-async.js.inc.c`).  `micro` is the engine's queue of promise jobs,
served in order; timers fire when it is empty, and user code may call anything in
between.  `Reaction` names the job, its subject and whether the promise was
fulfilled.  Waiters that `withTimeout` gave up are kept (`"gone"`), since the code
keeps them.  `frames` holds what the shared variable of each `_pump` call
ends up with, and the reactions refer to the frame, not to the job.

## 3. Runs

| Run | Bounds | What it shows |
|---|---|---|
| `pool_safety` | 2 threads, 2 channels, 3 jobs, rings of 2 | counters, rings, pointers, wake-ups; ThreadPool implements JobService |
| `pool_liveness` | 2 threads, 2 channels, 2 jobs | every accepted job runs, every completion is reported |
| `timers` | 6 timers in 6 slots, clock to `TimeMax` = 2, delays 0 and `TimeMax` | heap order, slots, stale ids; TimerHeap implements TimerService |
| `evloop` | 2 descriptor numbers, 3 files, 4 generations | kernel table, stale events, readiness served |
| `aio_conn` | 4 submissions of 2 units, any of them a file body, which may also be empty, 2 occupants, buffer of 1 | interest, queue, order on the wire, results; every submission with units settles |
| `aio_park` | 6 jobs, channel of 2, park of 2 | wakes, order, the park empties |
| `net_reactor` | 2 users, idle pool, UDP graveyard, 1 listener, drains 2 deep | life of the reactor, ticks, hooks, paused listeners |
| `js_loop` | 1 Worker with a call of its own, 2 calls, 1 thread for all three, 2 descriptors, messages of 1 and 2 bytes and a limit of 2, batches of 2, 1 timer, 1 signal; five sets of facilities a script uses together | pipes, exit, who may strand a waiting call, current batches; messages served, calls come back, shutdown ends |
| `async` | 4 tasks for 2 permits, channel of 2 with 5 sends, 2 slots with 4 jobs, 4 items two at a time, 2 retries, window of 2 with 4 calls; eight sets of facilities | hand-over, channel order, calls as promised; all of it settles |
| `aio_foreign_error` | 3 sends, 2 occupants | a disagreement with the change log, see 6 |
| `net_reactor_grave` | 1 user, UDP graveyard | a disagreement with the interface file, see 6 |
| `js_loop_sleep` | 1 Worker with a port | a disagreement with the change log, see 6 |

Why the bounds are enough.  Two threads and an IO limit of one make blocking jobs
compete with CPU jobs; rings of two fill up with three jobs; two channels exercise the
round robin, and their addresses are reused when they are freed.  Six timers
are the least number for which removal from the middle of the heap must let the
replacement rise, and their slots are reused while old ids are still about.  Three files on two numbers make one number change hands
while an event waits, with another descriptor to act from.  Four submissions
are a file body, two sends behind it and a second body, the least with which a body passes a
send; two units and a buffer of one make every write partial.  The second occupant
comes while less than three submissions were made, so that the old connection's and its own compete.  Six jobs fill channel and park and leave
two for callbacks to submit.  Two users and the idle pool reach every
combination of last and not-last, strong and weak; two levels of drains reach
the nested release.  The theorems about the reactor's life hold for any number of either.  With one listener
number the sweep's walk over several descriptors is short; `n_listen` still counts 0 and 1.
Two calls and one thread make one call wait for the other, and a Worker's call that
has the thread when the first returns strands the second; one Worker
is enough for its messages and its end to race with every step of the loop; two
descriptors let one callback take the other out of the batch, and one beside a port competes
with its messages.  More tasks
than permits, more sends than room, more jobs than slots and more items than the
concurrency make somebody wait in each facility of `dyna:async`, and two waiters
show their order.  A script uses a few facilities together: the sets (`Scripts`) are the
pairs that share state, the job queue or the poll set.

Deadlock is checked for the pool and the readiness loop.  It is not for the others,
which may come to rest: when the bound on timers, submissions or jobs is used up
nothing remains to be done.

### Fairness

- Threads are scheduled and get the mutex, jobs return (weak fairness per
  thread).  The loop drains a channel whose wake descriptor is readable.
- The readiness loop is polled again and again and callbacks return.
- A peer goes on reading, and a connection attempt ends.  User code owes nothing: it
  may never submit, close or cancel.
- The 250 ms timer is readable again and again, so an outermost drain after it
  begins infinitely often (strong fairness, since the loop may be inside a drain at any given
  moment).  The outermost drain goes on infinitely often for the same reason:
  callbacks that drain again come back.
- JsLoop: the main thread, Workers and fiber threads go on (weak fairness).  A
  script or callback returns (strong, since it may do any number of things before).
  A turn whose timers are all served reaches the poll set again and again (strong fairness
  of `GoesOn`): `JS_TIMER_IO_SLICE_MS` bounds how long timers may keep
  I/O waiting.  A fiber posts (strong only because `MaxKicks` may hold it up for a while).
  Calls of Workers end (weak).  Scripts, Workers and peers owe nothing else.
- Async: promise jobs and timers have their turn and time passes; holders
  release, functions settle, and the consumer of a channel goes on receiving.
  These last are assumptions about the user's code, without which nothing
  in the library could settle.

### Mutants

Every property of a passing run has one plausible mistake in the code's place
(`PROJECT.json`, "mutants") under which TLC finds it violated: a dropped
announcement, a generation not compared, a release that does not mind the drain
it runs in.  Mutants are marked as such in the modules.

## 4. Proofs

TLAPS checks eight modules: `ThreadPoolProofs`, `TimerHeapProofs`, `EvLoopProofs`,
`AioParkProofs`, `AioConnProofs`, `NetReactorProofs`, `JsLoopProofs` and `AsyncProofs`.
They assume of the constants only what the components' `ASSUME`s state: finite sets,
positive sizes, NULL and the special hooks distinct from the rest.  One theorem about
AioConn and one about TimerHeap have a further hypothesis, named in the table: each is a limit of
the code that section 5 describes, and without it the property is false.

| Theorem | Says | Rests on |
|---|---|---|
| `TypeCorrect` | `TypeOK` of ThreadPool | `ChanInv` |
| `CountersExact` | `ChanAccounting` | `ChanInv` |
| `RingsNeverOverflow` | `RingsFit` | `ChanInv` |
| `NoUseAfterFree` | `NoDanglingChan` | `ChanInv` and the list's own invariant |
| `CloseAlwaysHasAWaker` | `CloseNotStuck` | `ChanInv` |
| `NoLostWake` | `WakeNotLost` | `ChanInv` |
| `PoolCountersExact` | `PoolAccounting` | `ChanInv`, `ListInv`, `StopInv` |
| `StopRunsEverything` | `StopDrains` | the same |
| `NoIdleThreadWhileWorkWaits` | `WorkConserving` | the same and `WorkInv` |
| `PoolImplementsJobService` | ThreadPool implements JobService | `ChanInv`, `StopDrains`, `PlaceInv` |
| `TimerTypes` | `TypeOK` of TimerHeap | `HeapInv`, `HistInv` |
| `HeapAlwaysSound` | `HeapSound` | `HeapInv`, `HistInv` |
| `HeapImplementsTimerService` | TimerHeap implements TimerService, if no slot is used 2^32 times (`NoSlotWraps`) | the same and `GenInv` |
| `FewTimersImplement` | the same without that hypothesis, where fewer timers than generations are ever created | the same and `FewTimers` |
| `NoStaleEvent`, `KernelFollows`, `CountIsExact` | `NoStaleDelivery`, `KernelAgrees`, `CountExact` | `EvInv` |
| `ParkedJobsAreWoken`, `ParkKeepsOrder`, `CompletionsAreWoken` | `ParkedHasWake`, `ParkInOrder`, `CompletionHasWake` | `ParkInv` |
| `SlotSound` | `TypeOK` and `InterestSound` of AioConn | `SlotInv` |
| `NothingIsForgotten` | `NothingForgotten`, if file bodies are not cancelled | `SlotInv`, `QueueInv` |
| `DoneMeansSent` | `OkMeansSent` | `SlotInv`, `LedgerInv` |
| `SubmissionsInOrder` | `SentInTurn`, for any number of file bodies, empty and cancelled ones too | `SlotInv`, `LedgerInv`, `OrderInv` |
| `ReactorLivesAsNeeded`, `LoopWaitsExactly` | `AliveIffNeeded`, `LoopWaitsForUsers` | `LifeInv` |
| `OneTimerServesBoth` | `TimerServesBoth` | `TimerInv` |
| `BatchesAreCurrent` | `BatchIsCurrent` | `MainInv`, `BatchInv` |
| `WaitersAreStarted` | `StrandedByWorkersOnly` | `MainInv`, `FiberInv`, `LentInv` |
| `PipesAreSound`, `EndsOweNothing` | `PipesSound`, `EndOwesNothing` | `MainInv`, `PipeInv`, `FiberInv` |
| `PermitsInOrder` | `NoQueueJumping` | `SemInv` |
| `ValuesInOrder` | `ChannelInOrder` | `ChanInv` of AsyncProofs |
| `EveryCallAsPromised` | `CallsAsPromised` | `CallsInv` |

The arguments:

- **ChanInv.**  `inflight` counts queued, running and completed jobs.  That
  alone is not inductive: a worker that finishes a job must find it counted in the
  channel the job names, so queues hold jobs of their own channel and class
  (`QueuesOwn`); and the closing worker drops its job instead of completing it, so
  the flag must be set exactly while the owner is inside `dyn_pool_chan_free`
  (`DoorsAgree`).  A freed channel is as `calloc` leaves it, which makes its
  next life start right.  A channel is freed only when its counters are zero; since
  they are exact, no worker, cursor or link points at it.
- **EvInv.**  An event in the batch carries the generation of its harvest.  Generations
  grow whenever a registration comes or goes, so an event is as old as the
  registration or older, and one exactly as old was harvested for the same owner
  (`BatchAges`).  Deleting the registration before the file is closed makes the
  owner the file that is open now (`OwnersAgree`).
- **ParkInv.**  A job is parked only when the channel is full.  During a drain and
  a flush that is not so, and the invariant says instead that the drain's budget is
  covered by completions only the loop takes (`BudgetCovered`) and that what it
  leaves has a wake (`LeftoverHasWake`).  The flush ends with an empty park or a full channel.
- **LifeInv.**  References are the number of holders (`RefsExact`), and a reactor that nobody
  holds any more is marked for the drain that frees it (`UnheldIsMarked`): with
  that, the outermost drain's second look at the counts frees exactly the
  reactors nobody has taken again.  `WeakExact` ties the loop's flag to the
  kind of hold.
- **SemInv.**  Between `_release` and the waiter's reaction a permit is nowhere in
  the Semaphore: it is in a promise job.  The invariant says that such a job is for a
  task whose permit is due, and that no task has two (`GrantsDue`), and that who
  stands in the line waits and stands there once (`WaitersWait`).  The other parts
  of the library share the job queue, so the proof shows of each that it adds no such job
  and takes none away.
- **ChanInv (of AsyncProofs).**  Delivered, buffered and waiting values read as one line are
  1, 2, 3, ...  To keep that, an open channel must have every value sent in the line
  and a closed one nobody waiting; the buffer is never over its capacity, so `_admit`
  after one `recv` lets in exactly one, and the value admitted is the one
  that stood next.

- **The pool's sums, its stop and its work.**  `pool->queued` and `pool->inflight` are sums over
  the channels in the list.  A sum over a finite set changes by what one element changes by; that
  is proved from a least counterexample, by cardinality.  A thread leaves only when the pool
  stops and nothing is queued (`StopInv`), and with exact sums nothing queued means that
  every ring is empty.  `WorkConserving` becomes inductive with two more facts: nobody sleeps in a pool
  that stops, and until then the threads in a blocking job stay within their
  limit (`WorkInv`).  The proof then compares, action by action, by how much the jobs that
  may run and the threads awake change.
- **The refinement of JobService.**  The mapping reads a job's stage off the place it is in: a queue, a
  thread, a ring of completions, or the owner that reports it.  That is a function only because
  every job is in at most one place, once (`PlaceInv`): `pool_submit` takes only a job that is nowhere,
  and each later step takes it out of one place as it puts it into the next.  With `PlaceInv` the
  mapped variables say where each job is (`BarsFollow`), a door follows its owner (`DoorsFollow`), and each
  action is shown to be the step of JobService it stands for, or none.  That a close finds nothing
  queued or running rests on the exact counters, and for `dyn_pool_free` on `StopDrains`.
- **TimerInv** (NetReactor).  Listeners are counted, a cancelled one possibly too long, and one
  that is not watched waits for the sweep (`ListenInv`); the first hook, unless it is
  the graveyard's, has set the timer (`HookInv`).  Since the count is never too small,
  the timer that both share is dropped only when neither needs it.
- **JsLoop.**  While callbacks of a batch run, either the generation has moved or everything
  that is still to be served is still registered (`BatchInv`).  Fibers that wait for a thread
  stand in the line exactly once, `post_holds` is the number of calls that are away, and a posted
  node is on its way once (`FiberInv`).  While one waits somebody will return: the last return starts it,
since no thread of the script's own is then left, unless the finite set of Workers' calls (`LentInv`) makes up the
limit by itself.  Between the check of a
  pipe's limit and the append only the one who checked appends (`PipeInv`).
- **CallsInv** (Async).  The job queue is read operation by operation, each subject being due
  once.  `Pool`: a pump starts at most one job, so frame f is of job f and the variable
  that the closures share does no harm, in four stages.  `pmap`: `inFlight` is the number of
  items due, running or mapped, and with `settledCount` it makes up `next` until
  something fails.  `retry`: the calls are the attempts, or one more while a call is under way.
  Rate limits: the last call ran, waits or was cancelled.
- **AioConn.**  `SlotInv` says that what a slot carries was submitted, stands in line
  and is carried once, and that a slot the readiness loop does not know carries nothing.
  Every step is then of one of a few kinds (`StepKinds`), and the rest looks at the
  kinds only.  `QueueInv`: something stands in front of the queue, or the
  error callback is running on a broken socket; this is where cancelled file bodies must be excluded.
  `LedgerInv`: what was taken of a submission and what is
  owed of it make up its length, and all that is pending and has units is owed.  `OrderInv`: the write under way and the
  sends without `after_file` were submitted before the body that is carried (`FileOrder`).  For b the connection's
  first accepted body, the sends with the mark come after b, and so does all that is queued when no write is under way (`LineInv`): these
  are the sends a later body may pass.  So whatever is
  first in its turn is first of all that is owed, but for the sends that a body may pass, and units reach the
  wire in that order.
- **HeapInv** (TimerHeap).  The entries a sift moves lie on a trail from the entry up to its parents or down to
  the lesser children.  A trail is a function that follows parents or children, so it never comes back
  to a position, and a sift only rearranges the heap.  Wherever an entry is put down its slot is told
  (`Backed`): heap and slots point at each other.  When an entry is removed from the middle,
  the last one takes its place; after `sift_down` only that place can be out of
  order with its parent, and `sift_up` from there repairs it (`Ordered`); the code's test
  `pos == i` before it reads the slot of the entry now at i, and so is always true.  The free slots form a line without
  repetition, in which `slot_release` puts one in front and `slot_alloc` takes the first (`Chain`); the
  walk of the free list that `HeapSound` speaks of follows that line to its end.
- **The refinement of TimerService.**  A timer's number is the code's `seq`, and `HistInv` ties the entries
  to the times and ids given out.  `GenInv`: a slot's generation, and one more while it is armed, is the number of
  times the slot was used; so ids differ pairwise and an id that is accepted is that of the timer now in the slot.
  That the root precedes every entry is shown on the least position that contradicts it.

Only model-checked: all liveness, since fairness and ENABLED are beyond the prover; AioListen
by itself (what its listeners owe the shared timer is part of `OneTimerServesBoth`); and the violations
of section 6.  The library's
induction theorems take an operator as a parameter and cannot be used here; where a proof needs
induction over numbers or finite sets (the pool's sums, the least item of a line, the trails and the root of the timer heap) it
takes the least element of the set of counterexamples (`WFMin` and
`NatLessThanWellFounded`).  The recursive functions of TimerHeap follow a step that raises or lowers a rank, and their
equations are proved for that step; other recursive definitions are left to TLC, and no
module reached by a proof declares a RECURSIVE operator.

## 5. Restrictions of the models

- In the run a file body is not cancelled (`FileCancel = FALSE`).  `dyn_aio_cancel` does not promote
  the queue behind a cancelled file, so `NothingForgotten` fails with `TRUE`; no
  caller in the repository cancels one.  The theorems about results and order hold with cancelled bodies too.
- `SentInTurn` and `EverySendSettles` state what the code does, which is less than strict order
  and less than an end for every submission; what they except is described in section 6.
- `FileReturns` does not model that `aio_dispatch` goes on with the pointer to its slot after the callback of
  `aio_file_done` (`dyna-aio.c:427-433`), although the callback may have made the table of slots grow: in
  the model the slot is read where it is now.
- `aio_apply_interest` ignores what `dyn_evloop_mod` returns; in AioConn the
  change always succeeds.  No path in the code would notice or repeat a refusal.
- If the sweep's timer is refused when the first listener comes
  (`dyna-aio.c:1242`), later calls do not ask again; `TimerServesBoth` and
  `PausedIsRetried` speak of a timer that was set.
- A drain inside a drain does not sweep in NetReactor.
- JsLoop leaves out the shared reactor in the poll set (NetReactor has its side of
  the decision to exit), the epoll set that replaces poll for many descriptors
  (`js_watch_*`), write handlers, repeating timers, and the polls `js_std_await` nests.  Of the
  fibers of Workers only the threads are modelled, since the limit on them is one for the process: a Worker's call takes
  one and gives it back, in the model also where the limit would have made it wait.  Their way back to the Worker's
  loop and the Workers' own waiting lists are not.  The switch of stacks is not modelled.
- `FibersReturn` does not speak of a loop that sleeps on a poster whose flag is set over an
  empty pipe (`Deaf`), nor of a waiting call that Workers have stranded (`Stranded`); see 6.
- In ThreadPool a drain begins only when the owner is idle.  A completion callback that awaits (`js_std_await`
  through `dyn_fiber_await`, `dyna-fiber.inc.c:642`) may drain the same channel inside the drain; that nesting is
  not modelled.
- A fiber's thread appends its post before it kicks the poster; the loop may run the
  post, end and free the poster in between (`dyna-libc.c:3169`).  In the model the kick waits for
  an open poster.
- Async has `withTimeout` around `acquire` and `recv` only, the two that leave something behind.
  `Queue` is synchronous and `sleep` one timer; both are left out.
- Generations do not wrap within the bounds: 2^32 reuses of a slot or changes of a
  registration are out of reach.  The generations of TimerHeap are modelled modulo `GenMod`, and after that many uses
  of one slot an old id cancels a new timer; `HeapImplementsTimerService` has the hypothesis `NoSlotWraps` for
  that.
- Allocation succeeds, except where its failure is a path of its own (registrations, timers).
- The kqueue and poll back ends of the readiness loop follow the same protocol
  and are not separate models.  TLS, `recvfrom`, `watch_fd` and the resolver's candidates
  for a connect are left out of AioConn; so are the shared pool's reference count
  (`dyn-pool.c:374-399`) and `dyn_net_watch`.

## 6. Disagreements found

- `aio_foreign_error` (`dyna-aio.c:400`).  When a write fails, its error callback may close
  the descriptor and open another connection on it; the queue is flushed
  with the old error before the life is compared, so the new connection's queued
  sends fail.  `src/Changelog:465` says of the reactor: "a callback that closes and
  reopens a descriptor cannot receive the old occupant's event".
- `net_reactor_grave` (`dyna-net.c:118`).  The timer is set for the first hook
  only.  A UDP socket disposed in its own callback leaves a hook behind that needs no timer;
  hooks with deadlines that come after it have none, and run only when other
  traffic wakes the loop.  `src/dynajs.d.ts:5146` promises deadlines for child processes.
- `js_loop_sleep` (`dyna-libc.c:3517`).  `js_os_poll` counts the live Workers when it
  decides to exit (line 3405) and again when it builds the poll set.  If the last
  Worker ends in between, the poster is not polled and no 20 ms limit applies: the loop
  sleeps for ever on ports that nobody will write to.  `src/Changelog:316` says that
  "a Worker thread ending wake[s] the loop through a pipe".

`SleepIsWoken` fails in two more ways with larger instances:

- `js_loop_run_posts` clears the poster's flag and then reads its pipe until it is empty.
  Two kicks in between leave the flag set over an empty pipe, and the next post
  writes nothing (`dyna-libc.c:3179`).
- A signal that arrives after the check of signals and before that read loses
  its byte with the posts' and waits for the next wake-up.

Met while modelling, without a run of their own:

- A throttled function's calls may run out of order: a call outside the window runs at
  once while the timer of an older call is due and about to fire
  (`dyna-async.js.inc.c:402`).
- `Channel.close` resets `_iterating` while a for-await is still taking the buffered values, so
  a second for-await is accepted; `src/dynajs.d.ts` says that it throws a TypeError.
- `src/dynajs.d.ts:6380` says: "A live message port keeps the process alive even after
  the worker exits"; lines 3405-3408 of `dyna-libc.c` let the loop end, and `EndOwesNothing` states only that no
  message waits and no live Worker could send one.
- `src/dynajs.d.ts:2671` says that at most 128 compute threads are alive "per JS thread; a call
  beyond that waits its turn and still gets a thread of its own".  `dyn_fiber_threads_live` is one count for the process.  When
  calls of Workers have all the threads at the moment the script's last call returns,
  `dyn_fiber_start_waiting` (`dyna-fiber.inc.c:357`) starts nobody and is not called again: the waiting calls
  never get a thread, and the loop, which they do not hold, may end before them.  TLC reaches the state `Stranded`
  in the instance of `js_loop`; `StrandedByWorkersOnly` says that there is no other way into it.
- A file body may pass a send (`dyna-aio.c:195`).  `aio_wq_promote` holds a send marked `after_file` while
  `w_file_rem` is not 0, and the mark does not tell which body it was set for.  With a body, two sends behind it, and a second body
  submitted while the first of the two is being written, the second send waits for the second body.
  Two file responses on a keep-alive connection with pipelined requests (`dyna-http.c:8768-8787`, `9700-9790`) submit that way, and
  the second header then follows its own body.  `tests/net/test_uring_sendfile.c:384` asks for "header then sendfile body
  arrive in order".  With `i <= j` in place of `Ahead(i, j)` TLC shows the 22 states in the instance of `aio_conn`.
- An empty file body submitted while a write is under way is accepted (`dyna-aio.c:1528`) with nothing left to
  send, which elsewhere means that there is no body, and its callback never runs.
  `tests/net/test_aio_sendfile_busy.c:133` wants every accepted transfer completed exactly once, and
  `dyna-http.c:8786` passes the file's size as it is.  Without `len > 0` in `EverySendSettles` TLC shows it.
- Descriptors that are ready in every turn keep messages waiting for ever: after a turn with ready descriptors
  `js_os_poll` leaves before it looks at its ports (`dyna-libc.c:3601`).  `MessagesServed` excepts that, and
  fails without the exception on the script that has a descriptor beside a port.

## 7. Not modelled, and why

The parser, compiler and interpreter (state far out of TLC's reach, and ECMA-262 is their
reference); codecs, text formats, numerics, data frames and ML (pure functions of
bytes and numbers, no order of steps); TLS (a wrapper around a library); data
structures (sequential, covered by property tests); files, logs, watchers and processes
(system calls around the pool and the reactor).  The database clients, HTTP, streams and
sockets are users of the reactor; only their holds and hooks are in NetReactor so far.

## 8. Plan

Done: ThreadPool and JobService, TimerHeap and TimerService, EvLoop, AioConn,
AioListen, AioPark, NetReactor, JsLoop with the fibers, Async, and the proofs above.

Next, in this order:

1. Theorems: what AioListen promises of one listener.
2. Rate limiter: the table against an abstract map of buckets, with eviction, growth and
   backward rehash, and refill arithmetic with its width.
3. Connect with its candidates, and the io_uring reactor as a second implementation of what AioConn
   promises.
4. JsLoop composed with NetReactor: the reactor in the poll set and `dyn_net_watch`.
5. The shared pool's reference count, composed with ThreadPool and the reactors.
