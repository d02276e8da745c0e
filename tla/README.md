# A TLA+ model of Mayo

Mayo runs data-parallel kernels on a pool of persistent Web Workers that share
one `SharedArrayBuffer` (or shared `WebAssembly.Memory`) with the Host.  The
Host writes a *descriptor* into one *control slot* per Worker, publishes it by
storing the slot's `epoch` word, and waits for every slot's `done_epoch` word.
Around that core lie scopes that order calls, an arena and generated layouts
over the shared buffer, a JSON mailbox, tools that generate and build both
sides, and benchmark programs.  This directory models that machinery in TLA+,
checks it with TLC on small instances, and proves what matters most for every
instance with TLAPS.

    tlc -workers 2 -config static.cfg MCDispatch     # one of the runs
    tlapm RangeProofs.tla                            # one of the proof modules

## 1. Inventory

| component | where | state it keeps | operations | what must be right |
|---|---|---|---|---|
| Dispatch protocol, Host side | `host_client.mbt`, `thread_pool.mbt` 479-642, `host_runtime_js.mbt` 313-363 | `epoch`, `active_epoch`, `cancel_sequence`, `failure`, `worker_weights`, the control words | `start_run`, `wait_run(_async)`, `first_failed_status`, `cancel_active`, `finish_run` and the five `run*` callers | a success means the kernel ran on the whole range, once; a failure is never lost; a slot is not rewritten under its Worker |
| Worker loop | `mayo.mbt`, `start.mbt`, `atomics_js.mbt` | `seen_epoch`, local copies of the descriptor, the shard cursors | wait, read, run or claim and steal, report, catch | no lost wake-up, no item done twice, cancellation between chunks |
| Work partition | `host_client.mbt` 206-230, 529-540 | weights | `partition_weighted`, `record_worker_weights` | shares tile the range |
| Pool life cycle | `host_client.mbt` 233-411, 550-592, 707-798, `host_runtime_js.mbt` 75-241 | `workers`, `failure`, `closed`, the handshakes | create, launch, poison, restart, recover, close | no Worker is lost or outlives its pool; a pool that takes calls can serve them |
| Wasm glue | `wasm/guest_runtime.js`, `wasm/abi/abi.mbt` | as the Worker loop | instantiate, ABI and contract checks, handshake, loop, exits | same protocol as the JavaScript Worker; no kernel of another contract |
| Control slot layout | `protocol.mbt` | constants | - | agreed by both sides |
| Manifests, calls, entries | `thread_pool.mbt` 1-237, 453-474, `start.mbt` 59-94 | immutable | validation | Host and Guest of different descriptors are found out, of the same are not |
| ThreadScope and permit | `thread_pool.mbt` 289-330, 545-592, 647-732 | chain of tails, semaphore | scope, spawn, spawn_chunks, join | calls of a scope run in order, all end before the scope |
| SharedArena, SharedRegion, WorkerScratch | `thread_pool.mbt` 256-287, 735-956 | cursor | allocate, reset, scratch, index | live regions are disjoint and inside the arena |
| Automatic grain | `host_client.mbt` 175-202, 488-526 | timings per kernel | choose, record | at least 1, at most one share |
| JSON mailbox | `json/json_contract.mbt` | mailbox words, `busy` | call, call_async, close, serve_json | a response belongs to its request |
| Benchmark Worker | `worker/main.mbt`, `mutex.mbt`, `transform.mbt` | lock, counter and start words, shared items | counter and transform messages | mutual exclusion, no lost wake-up |
| Contended counter run | `bench/harness.ts` 77-171 | ready and result counts, a Promise | create, events, deadline, terminate | counts exactly, ends |
| Message-passing pool | `bench/message_pool.ts` | listeners, `#busy`, `#batchId` | create, transform, close | each batch exactly once; late answers are not taken for others |
| Generator | `tools/mayo_gen.ts` | - | validate, hash, render layouts and kernels | layouts agree on both sides; a hash covers the whole contract |
| Build tool | `tools/mayo_build.ts` | files, artifacts | parse, generate or `--check`, build, copy | nothing old is left after a build; `--check` is right |
| Native reference pools | `native/c/bench.c`, `native/rust/src/main.rs` | mutex, condition variables, generation | dispatch, wait, stop | each generation runs once per thread |
| Benchmark statistics, examples, tests | rest of `bench/`, `examples/`, `tests/` | - | - | outside of the concurrent core |

The Host and the Workers of a pool interact through the control words only
(plus the messages of the start-up handshake).  What makes this hard: publication is
word by word and slot by slot, and a Worker that has its slot may already steal
from a slot not yet written; timeouts leave Workers running; cancellation is a
sequence number compared with a captured baseline; failures are reported from
an exception handler that only knows the epoch word as it is by then; a restart
reuses the words the previous Workers left; and everything the Host awaits can
be interleaved with `close` and `cancel_active`.

`PROJECT.json` lists every hazard with its line and the properties that would
catch it.

## 2. Modules

| module | models | lines of code behind it |
|---|---|---|
| `Partition` | the ranges of the slots | `partition_weighted` |
| `Dispatch` (extends `Partition`) | Host and Workers during dispatches, every shared access a step | `start_run`, `wait_run`, `run_dispatch_worker`, ... |
| `ParallelBatch` | what the caller of a dispatch relies on | the abstract specification `Dispatch` implements |
| `PoolLifecycle` | launching, failing, restarting, closing | `launch_workers`, `poison`, `restart_workers`, `close`, ... |
| `BenchWorker` | the benchmark Worker and its message channels | `install_worker`, `lock`, `unlock`, `run_counter`, `run_transform` |
| `ContendedCounter` (extends `BenchWorker`) | the Host of a contended counter run | `runContendedCounter` |
| `MessagePool` (extends `BenchWorker`) | the Host of the message-passing pool | `MoonbitMessagePool`, `waitForMessage` |
| `ThreadScope` | who dispatches when | `scope`, `spawn`, `spawn_chunks`, `join`, the permit of `run_kernel_async` |
| `PodLayout` | layouts and headers, as functions | `renderLayout`, `headerSlots` and the code they render |
| `SharedArena` (extends `PodLayout`) | allocation from the shared buffer, and what is written there | `SharedArena`, `SharedRegion`, `WorkerScratch` |
| `JsonMailbox` | one Host and one Guest over one mailbox | `JsonGuest`, `serve_json` |
| `Descriptor` | validation, hashes, specs, manifests, entries, as functions | `validateSchema`, `canonicalKernel`, `kernel_manifest`, ... |
| `Artifacts` (extends `Descriptor`) | generating, building and loading both sides | `mayo_gen`, `mayo_build`, the checks on a Worker's start |
| `MCDispatch`, `MCPoolLifecycle`, `MCBench`, `MCClients`, `MCArtifacts` | values of constants for TLC; `MCBench` and `MCClients` put programs that share nothing into one run | - |
| `PartitionProofs` | theorems about `Partition`; the lemmas on numbers that the others cite | - |
| `DispatchProofs` (extends `PartitionProofs`) | theorems about every call of `Dispatch` | - |
| `RangeProofs` (extends `DispatchProofs`) | theorems about what a call has run, `ParallelBatch` | - |
| `LifecycleProofs`, `BenchProofs`, `ArtifactProofs` | theorems about `PoolLifecycle`, about the two programs of `MCBench`, about `Artifacts` | - |
| `ClientProofs`, `ArenaProofs` | theorems about the programs of `MCClients`: scopes and mailboxes; arena and layouts | - |

### Dispatch

State: `ctl[w]` is the control slot of Worker `w`, a record of the words
of `protocol.mbt`.  `kernel` stands for kernel id, layout hash and argument,
which always travel together.  `partial[w]` is the result word, represented by
the kernel that stored it and the items its result covers.  `hpc`, `slot` and `step` say where the
Host is in `start_run`'s loop; `wpc[w]` where Worker `w` is in its own.
`applied` is a ghost variable: the kernels that have been run on each item
since the dispatch began.

| code | actions |
|---|---|
| checks of `start_run`, its epoch | `Reject`, `Begin` |
| one `atomic_store` of its loop; the epoch word and its notification | `WriteWord`; `Publish` |
| `wait_run`, `wait_run_async` and what the caller does with the outcome | `ReturnRuntimeFailure`, `ReturnStatus`, `ReturnOk`, `Timeout` |
| `cancel_active` | `CancelActive` |
| the Worker's wait on its epoch word | `Park`, `Observe` |
| its loads of the descriptor, one by one | `ReadWord` |
| static mode / the scan of the shards | `StartStatic` / `StartDynamic`, `NextVictim`, `CheckCancel`, `Claim`, `Exhausted` |
| the kernel | `KernelReturns`, `KernelUnknown`, `KernelThrows` |
| the answer / the exception handler | `StoreResult`, `StoreStatus`, `StoreDone` / `Catch` |
| `terminate()` taking effect on a Worker of a poisoned pool | `Gone` |

Poisoning a pool calls `terminate()` of each Worker, which returns at once.  So
`Return` with `poison` only sets `failure`; the Workers go on, and process items
and write their slots after the caller has the error, until `Gone` stops each of
them wherever it is.  `ParallelBatch` says so too: it lets items be processed
while a call is `running` or when the pool is `poisoned`, each at most once.
`ParallelBatch` knows no timeouts.

What is abstracted: `Atomics` accesses are sequentially consistent (they are,
by the ECMAScript memory model).  A scan of the slots by `wait_run` is one
step; during a dispatch a done word becomes the epoch once and stays, so a scan
that finds a failure, or nothing pending, finds it in the state it ends in.
Layout mismatch is the same path as an unknown kernel.  The words `elapsed_us`,
`stop` and `worker_count` are left out (stopping is in `PoolLifecycle`, the
measured times only influence the weights, the count never changes).  A failed
dispatch that must recover poisons the pool here, the default policy; the other
policy and the blocking calls' differences are in `PoolLifecycle`.  Weights are
floating-point averages in the code.  Only their running sums decide the cuts,
and a cut computed as the end of one share and as the start of the next is the
same expression, so an arbitrary increasing integer sequence stands for them
and may change from dispatch to dispatch.

### PoolLifecycle

A dispatch is one publication and one answer per Worker.  The launch is
modelled message by message: `StartWorker`/`Boot`/`Online`, `PostInit`/
`OnInit`/`Initialized`, `LoadEpoch`/`SayReady`/`Ready`.  The JavaScript Worker
posts "initialized" *before* it loads its epoch word and clears its done word,
the Wasm Worker after; `Guest` selects which.  `Terminate` is
`terminate_workers`: a terminated Worker (in `doomed`) may go on until `Gone`.
`Close` can happen at every await of the Host (`HostThreadFree`; readiness is
awaited by blocking the thread unless the Host is a browser document).
Assumption: a terminated Worker is gone before the next one is started for its
slot.

### BenchWorker, ContendedCounter and MessagePool

`inbox[w]` and `outbox[w]` are the two directions of the channel between Host
and Worker; a handler of the Host is one action on the head of an outbox.  A
Worker parks in two steps, the load of a word and the comparison that
`Atomics.wait` makes (`Gate`, `LockWait`); notifying wakes any parked Worker.
The start word is stored and notified in one step, because a Worker that parks
in between compares it first and does not sleep.  A transform is a load and a
store per item (`LoadItem`, `StoreItem`), so two Workers over one item can lose
an update; an item is represented by how often it was transformed.  A pending
`waitForMessage` is a member of `listeners`; when one rejects, `Promise.all`
does, and the others stay until their own end, as in the code.  `hits` is a
ghost.  A `settled` run of the counter still handles events until it returns.

### ThreadScope, SharedArena with PodLayout, JsonMailbox

`ThreadScope` has the calls of each scope (`state`), the queue of the permit
and where each body is.  A dispatch is one step to its end (`DispatchEnds`):
that it ends is `DispatchReturns` of `Dispatch`.  The semaphore and the task
group are the async library's, modelled from how they are used: the permit goes
to the longest waiting, a group waits for its tasks.  Note that admission is in
spawn order *within* a scope (`ScopeOrder`).  The remark above `spawn` (lines
659-660) can be read as an order over all calls of a pool; a task only comes to
the permit once its predecessor has ended, so a direct call, or another
scope's, made later may be admitted first.

`PodLayout` is arithmetic in integers that wrap beyond `MaxInt` (`Wrap`), so
that every sum and product that overflows in the program overflows within reach
of TLC.
`SharedArena` keeps the allocations since the last reset in `live` and fills
them with data, among it words that look like a header.  An application may
also place a layout itself (`PlaceLayout`), which is what `<name>_layout_at` is
public for.

`JsonMailbox` has one step per group of accesses of one side that the other
side can observe: lengths, payload and status are read and written in the
order of the code.  A text is a name with a size.

### Descriptor and Artifacts

A schema is a record; what `canonicalKernel` concatenates is a tuple, and its
hash is represented by that tuple: different texts are assumed to have
different hashes (a collision of 32-bit hashes is possible and not modelled).
In `Artifacts` the sources may be edited at any time, also during a build; a
run of a tool may fail at any of its steps and leave a torn file behind; and a
Host starts and restarts its Worker at any time from what lies in place then.
Whether `moon fmt` has been over the generated file is `formatted`.  A Wasm
kernel carries an ABI version and the contract hash its author wrote down.

## 3. Runs

| run | question | bounds |
|---|---|---|
| `static` | static dispatches: exactly once, no overlap, ordered reductions, failures reported, slots reused only when quiet, `ParallelBatch` implemented | 3 Workers, 4 items, equal and 3:1:1 weights, empty, partial, invalid and unserved calls, epoch wraps at 2 |
| `dynamic` | stealing, cancellation, failing kernels: covered, cancellation prompt and never leaked, every dispatch returns, every published epoch is answered by each Worker that is not gone | 2 Workers, 3 items, grains 1 and 2, cancellation sequence wraps at 2, one cancel per dispatch, fair threads |
| `bench` | the benchmark's mutex and gate, an exact count, exact batches, no update lost while no deadline passes, both programs end | 3 Workers, 2 increments each, 3 items, 2 batches, 1 deadline; either program in one run |
| `clients` | allocations disjoint in wrapping arithmetic, layouts loaded as written or refused, responses that match, scopes that keep their order and end | largest integer 31 over 14 words, 3 allocations, lengths whose product wraps to 0; 4 calls of 5-byte mailboxes; 2 scopes, 4 tasks |
| `artifacts` | whatever is edited, built in part and restarted, no kernel runs under another contract, fitting artifacts are accepted, a finished build left nothing old, `--check` is right | 4 valid and 2 invalid schemas, 3 configurations, 1 edit, 2 runs of the tools, 2 starts |
| `static_timeout` | what survives a timeout under static dispatches: a success is complete, no failure is lost, a reduction has only results of its own kernel and range | 2 Workers, 2 items, two kernels over two ranges, one timeout in a row, epoch wraps at 3 |
| `dynamic_overlap` | *violation*: "Dispatched worker ranges never overlap" | 2 Workers |
| `timeout_lost` | *violation*: chunks are claimed "until the range is exhausted" | 2 Workers, one timeout |
| `lifecycle` | `PoolLifecycle`: failing launches, failing kernels, every way to call, `close` at any await, recovery; every operation ends | 3 Workers, epoch wraps at 2; JavaScript and Wasm Workers under `PoisonPool`, Wasm Workers under `RestartWorkers`; fair threads |
| `close_leak` | *violation*: close "stops every Worker" | 2 JavaScript Workers, `RestartWorkers` |
| `header_wrap` | *violation*: a layout that exceeds the Int32 capacity or the buffer is refused | as `clients`, a base of 14 with a largest integer of 15 |
| `restart_lost` | *violation*: after a restart "a later dispatch may proceed" | 2 JavaScript Workers, `RestartWorkers` |

Why the bounds are enough for what they show: overlap and stealing need two
Workers; a share that is neither first nor last needs three.  Both counters
wrap within every run, so equality with an old value is as likely as it can be
(`EpochMax` must exceed the timeouts in a row by two, or an epoch would come
back while a Worker still serves it; with 2147483647 epochs the code is far
from that).  A dispatch begins in the state the previous one left, so leftovers
of two different calls mix in every run.

In `bench` three Workers are the least where one parks while two others
contend, and where the middle share of a range is neither first nor last; two
batches and one deadline are what a late answer needs.  In `clients` the
integers are as narrow as a header and the buffer allow, so that sums, products
and bases reach both ends of their range; a matrix of 8 by 8 has a number of
words that wraps to zero.  In `artifacts` each schema
differs from the first in one thing the contract has to catch, and two runs of
the tools with one edit between, before or during them, leave every mixture of
old and new artifacts; a second start is a restart or a second pool.

The runs that may deadlock say so: after a timeout nobody noticed, a dead
Worker and an exhausted `MaxTimeouts` stop `static_timeout`; a pool whose
creation failed (`hpc = "gone"`) is the end of the life-cycle runs; `bench`,
`clients` and `artifacts` stop when their programs have ended or a bound is
used up.

### Fairness

`FairSpec` assumes that the Host goes on with a call it has begun and that each
Worker's thread runs (weak fairness of `HostStep` and of each `WorkerStep`):
the operating system schedules threads, and `Atomics.wait` returns after its
notification.  Nothing is assumed of the program (that it dispatches, cancels
or closes), of kernels throwing, nor of launches failing.  In `Dispatch` no
deadline has to pass for a dispatch to end.  In `PoolLifecycle` a deadline
passes when a Worker is stuck for good, which is what the deadline is for.

In `bench` the Workers run, and the Host handles the events it has (weak
fairness of `WorkerStep` and of the handlers); a deadline has to pass only
where the Worker it is set for was terminated (`Overdue`), which is what it is
for.  Which of several Workers takes a free lock is unfair in the code too, but
each has a bounded number of increments to make.  In `clients` a coroutine that
can go on does, and a dispatch ends; nothing is assumed of the bodies of
scopes.

### What the violations show

1. **Overlap while slots are published** (`dynamic_overlap`,
   `host_client.mbt:464-482`).  A fast Worker 0 can steal from slot 1 before
   `start_run` has written it, and then runs the new kernel over leftovers of
   the *previous* dispatch, beyond its range or concurrently with Worker 1.
2. **Timeouts release slots in use** (`timeout_lost`).  A dispatch that timed
   out leaves the pool open.  The slots of its Workers are rewritten while they
   work; under dynamic scheduling they consume items of the next dispatch with
   the old kernel, and that dispatch reports success.
3. **`close` during a restart leaks the relaunched Workers** (`close_leak`).
   `lifecycle` checks that a pool that was never relaunched is fully stopped
   (`ClosedMeansStoppedAtFirst`).
4. **A relaunched JavaScript Worker may miss the next dispatch**
   (`restart_lost`): its predecessor's `done = -1` passes for its own.  This is
   why `lifecycle` leaves out JavaScript Workers under `RestartWorkers`.

5. **A layout at the end of the integers loses its header** (`header_wrap`,
   `mayo_gen.ts:210`).  `base + headerWords` may wrap to a negative number; the
   check behind it compares only the ends of the slices with their starts, and
   the one of `write_header` wraps as well.  The layout is accepted and its
   header is stored nowhere.  Layouts from an arena are not affected, which
   `clients` checks (`AllocationsDisjoint`, `LoadAgrees`).

`ResponseMatches` speaks of mailboxes no dispatch of which has timed out, and
`NoLostUpdate` of message pools no deadline of which has passed: beyond that
the code lets late Workers write to what the next call uses, as it does with
control slots (2).  Neither is a finding, because no text of the repository
promises anything for these cases; the hazard of the message pool is listed
without a property.

`NoLostWakeup` asks of every Worker whose epoch word has changed that its done
word becomes that epoch, unless the Worker is gone.  A dispatch may return
before (another Worker failed), so this is more than `DispatchReturns`.
`SlotsReusedQuiet` is about pools no dispatch of which times out; what is left
of it after a timeout is what `static_timeout` checks and `timeout_lost`
refutes.

Two limits of the other properties follow from the code as well:
`RecoveryHonoured` speaks of awaited calls, because `Pool::run` and
`Pool::run_kernel` cannot await a relaunch and poison the pool whatever its
policy.  `docs/kernel-abi-v4.md` (76-78) describes `RestartWorkers` without that
exception.  What is checked of blocking calls is that they never leave a pool
open that lacks a Worker (`IdlePoolHealthy`) and stop the ones they give up
(`FailedMeansStopped`).  And `IdlePoolHealthy` needs a `timeout_ms` that is long
enough (`SlowWorkers = FALSE`), because a kernel that throws after its dispatch
timed out ends its Worker without the pool noticing; `FailureReported` of
`static_timeout` shows that such a throw does not pass for the success of the
next dispatch.

## 4. Proofs

TLC checks the properties on the instances of section 3; the theorems below
hold for every value of the constants the modules declare (any number of
Workers, items, calls, weights, schemas, texts, counters of any width), from
the named `ASSUME`s of those modules and the assumptions named here.  `Property`
is proved by the theorem `PropertyHolds` unless another name is given.

| module | theorems |
|---|---|
| `PartitionProofs` | `SharesTile`: shares are disjoint, and together they are the range; lemmas about numbers and recursive functions |
| `DispatchProofs` | `TypeCorrect`; `SlotReuse` (of `SlotsReusedQuiet`), `SlotInv`, `NoTornArguments`, `CancelledOnRequest`, `PromptCancel` |
| `RangeProofs` | `ExactlyOnce`, `FailureReported`, `RangesNeverOverlap` and `Refinement` for static calls; `Covered` for all calls; `ReduceTiles` |
| `LifecycleProofs` | `TypeCorrect`; `Owned`, `FailedMeansStopped`, `ClosedMeansStoppedAtFirst`, `RecoveryHonoured`; `IdlePoolHealthy`, `TimeoutOnlyIfClosed` |
| `BenchProofs` | `MutualExclusion`, `CounterExact`, `BatchExact`, `NoLostUpdate` |
| `ClientProofs` | `ScopeOrder`, `ResponseMatches` |
| `ArenaProofs` | `AllocationsDisjoint`, `LoadAgrees`, `LoadedInside` |
| `ArtifactProofs` | `BuildCoherent`, `CheckTrue`, `SameKernel`, `AgreedRuns` |

### What is assumed, and why

| assumption | theorems | without it |
|---|---|---|
| `MaxTimeouts = 0`: no dispatch times out | all of `DispatchProofs` and `RangeProofs` but `TypeCorrect` | `timeout_lost`: the next dispatch writes slots in use |
| `AllStatic`: every call has a zero grain | `ExactlyOnce`, `FailureReported`, `RangesNeverOverlap`, `Refinement` | `dynamic_overlap`: a stolen chunk may be run twice; an empty dynamic call of a kernel that nobody serves succeeds |
| `ReducersStatic`: reducers have a zero grain | `ReduceTiles` | does not happen: `run_reducer_async` passes `grain=0` |
| `Patient`: `timeout_ms` is long enough | `IdlePoolHealthy`, `TimeoutOnlyIfClosed` | a kernel that throws after its dispatch timed out ends its Worker unnoticed |
| `NoJsRestart`: no JavaScript Worker is relaunched | the same two | `restart_lost` |
| `PlacedLow`: an application places its layouts a header below the largest Int | `AllocationsDisjoint`, `LoadAgrees` | `header_wrap` |
| `SmallBuffer`: the buffer ends a header below the largest Int | `LoadedInside` | `header_wrap`: the same sum wraps when a Guest loads |
| `SortAssumption` of `Artifacts`: sorting permutes the kernels of a schema, in ascending order | `AgreedRuns` | induction over a sort is out of the prover's reach; TLC evaluates the assumption on the run's schemas |

### The arguments

*Partition.*  Each cut is the end of one share and the start of the next
(`SharesAdjoin`), the cuts never decrease (`CutsGrow`, from the monotonicity of
division and of running sums), and the outer ones are the ends of the range
(`OuterCuts`); the Worker of an item is the one before the first cut beyond it.
Where a paper proof would use induction over the Workers, these take a least
counterexample (`LeastNumber`, from the well-foundedness of strict inclusion on
finite sets).

*Dispatch.*  `SlotsReusedQuiet` is not inductive: it says nothing about the
time between `start_run` calls.  `SlotInv` adds what each slot looks like in
each phase of the Host: `Settled` when idle (its epoch is the Host's, its done
word is -1 or that epoch, its Worker quiet), `Fresh` when `start_run` has not
reached it (done is not the new epoch, which is what makes a stale answer
impossible), `Published` afterwards (done equal to the epoch only once the
Worker is quiet again).  The slots of a poisoned pool stay `Published` for good:
its Workers may be anywhere, but no dispatch begins any more.  `NextEpochFresh`, that the successor of an epoch
differs from it and is neither 0 nor -1 also when it wraps, carries the step
`Begin`; the Worker's seventeen actions are first summarised by what they do to
one slot (`WorkerEffect`).  On top of it `HandOver` says what is *in* the slots:
a published slot holds the words of the call, the one being written those
written so far, a Worker's copies are the words of its slot, and while the pool
is not poisoned a dead Worker has reported why.  `DispatchInv`, types and these two, is what every other
invariant of `Dispatch` builds on.

*Cancellation.*  `CancelInv` ties the sequence to the baseline in each slot:
they differ by the cancellations since `start_run`, modulo the width
(`LaterDiffers` is where it matters that fewer are requested than the counter
has values), so a Worker sees a cancellation if and only if there was one.

*What a call has run.*  For static calls `StaticInv` has each Worker's share
untouched before its kernel returns and run once after, as long as a dispatch
is in progress or the Workers of a poisoned pool go on (`Live`).  With dynamic calls the
items of a share are run by whoever claims them, and `CoverInv` follows the
cursors: an item behind the cursor of its shard has been run, or is in some
Worker's chunk, or some Worker has failed over its chunk and its report is on
the way (`Handled`); and a Worker at its end has found the cursor of its own
shard at the shard's end (`Scanned`).  When all have reported and none a
failure, no item is left but in the first way.  The invariant says nothing of a
slot before `start_run` has written its cursor: a fast Worker may steal from it
all the same, over leftovers, which is why `Covered` survives `dynamic_overlap`
and `ExactlyOnce` does not.  The refinement of `ParallelBatch` maps every step
of `Dispatch` to a step or a stutter; a kernel that returns in a poisoned pool is
an `Apply` after the `Return`, which is why `Live` goes beyond the call.

*Reductions.*  `ReduceInv`: the partial result of a Worker that has answered a
reducer was stored by the call's kernel and covers the range in its slot.  The Host combines the slots whose range
is not empty; `Combined` is a recursive function of how many slots it has
passed, and what it has combined of the first `n` tiles the items from the
start to the `n`-th cut (`TileAdded`, `AllCombined`).

*Life cycle.*  `LifeInv`: a Worker not yet terminated is in the array of the
launch or in that of the pool, whichever of them is in use.  `HealthInv` says
how far each Worker of a launch or a dispatch may have got, and what its
predecessor in the slot may still be doing; between dispatches, that every
Worker is `Rested`: at the head of its loop, with nothing unanswered.

*Benchmarks.*  `MutexInv`: at most one Worker is in `Holding`, and then the
lock word is 1.  `CountInv` counts: the counter is the sum of the increments
that each Worker has stored by what its program counter says (`DoneBy`), the
sum being a sequence of partial sums.  `BatchInv` counts per item: a Worker's
share of the batch is transformed up to where its task stands, whatever tasks
of earlier batches are before it in its inbox or its answers in its outbox.
`UpdateInv` adds what holds until a deadline passes: a script that fails to
load fails `create`, only `close` stops a Worker later (`Script`), all the work
there is belongs to the batch the Host awaits and is gone when its Worker has
answered (`Assigned`), so two Workers at an item have disjoint shares (`Apart`)
and what a Worker has loaded is still there when it stores (`NotStale`).

*Clients.*  `ScopeInv`: who waits for the permit is queued, and nobody
dispatches while the permit is free.  `MailboxInv` has, for every place of the
Guest, what is in the mailbox.  `ArenaInv`: allocations are apart, none reaches
beyond the cursor (but for a layout placed by hand), and the header of each
layout is as written.  Layouts are computed by recursion over the fields; the
lemma `Recursion` of `PartitionProofs` unfolds such a function once it is shown
to exist, and `Upwards` (no least counterexample) takes the place of induction.

*Artifacts.*  `ToolInv`: what a tool has placed so far was compiled from what
it read.  `KernelInv`: whatever runs was compiled from a valid schema.
`CheckInv`: who got through a check has what the check was for.

### Only model-checked

* Liveness and `ENABLED` are beyond the prover: `DispatchReturns`,
  `NoLostWakeup`, `OperationEnds`, `CounterEnds`, `BatchEnds`, `ScopeEnds`.
* What still holds after a timeout (`static_timeout`).

## 5. Not modelled, and the plan

To prove next: `Covered`, `FailureReported` and `ReduceTiles` of static calls
after a timeout.

Not modelled, and why:

* Automatic grain and kernel timings: floating-point estimates that decide how
  fast a dispatch is, not what it does; any grain is an input in `Dispatch`.
* Two generations of a Worker in one slot: that `terminate()` is asynchronous
  is in `PoolLifecycle` only for Workers that are not replaced.
* Cancellation of a task group: what a cancelled `wait` raises inside a task is
  decided by the async library, which is not part of the repository.
* `descriptor_is_valid` of the Wasm ABI: argument checks on a descriptor that
  `start_run` has checked before.
* The native reference pools in C and Rust: programs to compare with.
* `measureWorkerStartup` and the statistics of the benchmarks (`suite.ts`,
  `benchmark.ts`, `break_even.ts`, `compare.ts`, `regression.ts`, `stats.ts`):
  sequential arithmetic over floating-point measurements, and file I/O.
* Examples and tests, the creation of shared memory and URLs, and argument
  checks that end a call before it does anything.
