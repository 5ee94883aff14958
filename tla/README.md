# IronPangu / InferFabric: a TLA+ verification project

This directory models the serving core and the compilers of the repository in TLA+, checks it with
TLC on small instances and proves the central safety properties of ten components for
all instances with TLAPS. Paths below are relative to the repository root.

## 1. The system

InferFabric compiles a language model into a bound token program, runs it on one
or more accelerator ranks, and serves it over HTTP. Its parts, with the state each
keeps and how they meet:

| Part | Source | State | Operations | Hard behaviour |
|---|---|---|---|---|
| State pool | `crates/inferfabric-runtime/src/state_pool.rs` | free units per (component, rank), leases, borrows, tickets in flight, `poisoned` | reserve, reserve at slot, borrow, seal, borrow sealed, release, submit, complete, retire, poison | rank completions out of order; retirement under running work or readers; stale handles |
| Program engine | `crates/inferfabric-native/src/program.rs` | one lease, length and arithmetic history per resident, sealed snapshots, the selected resident | prepare/reset/release resident, seal, restore, retire snapshot, token, batch, prefill | a native call that fails half-way; residents that share pages; snapshots used after retirement |
| Prefix cache and index | `crates/inferfabric-native/src/prefix_cache.rs`, `crates/inferfabric-runtime/src/prefix_index.rs` | radix index of token prefixes, entries, LRU clock | publish, restore, evict, clear | index and snapshots must stay in step through partial failures and capacity pressure |
| Program worker and front end | `frontend/src/{native_backend,program_worker,program_cached}.rs` | active map, bounded job queue, resident slots, output channels, cancel flags, stop flag | generate, abort, shutdown, the worker loop | client threads race one worker; back-pressure; cancellation and failure with queued jobs |
| Native lane worker | `frontend/src/native_worker.rs`, `crates/inferfabric-native/src/{parallel,lib,sampling}.rs` | lanes of a fixed graph, rank threads, command and reply channels, sampler counters | admit, reset, feed, sample, dispatch to the ranks, join | a rank that fails while others wait; a lane reused by the next request |
| Transfer | `crates/inferfabric-transfer/src/lib.rs` | pages, slots, active and retired leases, one entry per hand-over | reserve, ensure, retire, fence; transfer, complete, commit, acknowledge, finish, abort | retries and duplicates, stale epochs, pages reused only after a fence |
| Schedulers | `crates/inferfabric-scheduler/src/{lib,live}.rs` | jobs with their leases and token counts, the prefill queue | submit, cancel, step (decode batch, prefill chunks, hand-over); `run` over a fixture | capacity pressure, prefill/decode hand-over, progress within a tick limit |
| Mock front end | `frontend/src/backend.rs` | command channel, output channel per request, health flag | generate, abort, shutdown, the scheduler thread | full channels inside the event loop, dropped futures, repeated ids |
| Runtime and worker group | `crates/inferfabric-runtime/src/lib.rs` | stage, captured buckets, worker threads | staged start-up, step, close, worker group | a failing stage; one rank failing a step |
| Serving manifest | `crates/inferfabric-ir/src/serving.rs`, `crates/inferfabric-compiler/src/token_serving.rs` | none (pure) | envelope, validation, ring capacity, arithmetic history | boundary arithmetic of pages, windows and chunk widths |
| CPU plan | `crates/inferfabric-plan/src/{ir,planner,verify,execute}.rs` | arena, state tensors | compile, verify, execute | two live buffers at one offset; a half-finished invocation |
| Device invocation | `crates/inferfabric-plan/src/device_buffer.rs` | none (pure) | verify, prepare, bind | address arithmetic at its limits |
| Model language | `crates/inferfabric-dsl/src/{expand,execution}.rs` | nodes and paths of one expansion | expand modules, folds and records; number the nodes | names that leak into a module, instances that merge |
| Token program | `crates/inferfabric-authoring/src/execution.rs`, `crates/inferfabric-compiler/src/{token_program,output_rows}.rs`, `native/include/token_execution_plan.h` | none (pure) | author, type, lower, options in any order, load | in-place kernels over shared storage; compact output rows; compiler and loader disagreeing |
| Rank compiler | `crates/inferfabric-compiler/src/lib.rs` | instruction streams | compile a mesh | collectives and messages of ranks that wait for each other |
| Artifact cache | `crates/inferfabric-compiler/src/{lib,token}.rs` | files | write_atomic, cached, write_bundle | kills and power loss between two system calls; concurrent writers |
| Native engine | `native/src/*` | device memory | kernels | seen from Rust as calls that may fail |

Calls go down: the front end's client threads put jobs on a bounded queue; one
worker thread drives the engine; the engine reserves and submits through the state
pool and calls the native ranks; the prefix cache sits between worker and engine.
The mock path composes scheduler, transfer and resource pools instead. The compile
path is a chain of files: document, token graph, token program with its serving
manifest, bundle on disk, kernel invocation.

What makes each part correct:

- *State pool*: every unit has one owner; a holder's lease exists; a sealed lease is
  not written; retired leases go when, and only when, nothing holds them.
- *Engine and prefix cache*: only a native call, audit I/O or an exhausted counter
  can fail a request; no lease leaks; what is restored is what the prompt says,
  computed as the request would have computed it alone.
- *Workers and front ends*: ids, responses and state are accounted for under every
  interleaving of clients and workers; requests, cancellations and shutdown end.
- *Prefix index and arithmetic history*: the compressed forms answer as the flat
  ones would.
- *Transfer and schedulers*: repeated, late and stale calls change nothing they
  should not; pools, queue and jobs agree; every admitted job ends.
- *Compilers*: a result computes what its source denotes, every check that accepts
  it is enough for what runs it, and a reader sees a whole file or none.

## 2. Modules

| Module | Models | Composes |
|---|---|---|
| `StatePool` | `state_pool.rs` | |
| `ProgramEngine` | `program.rs` (host side), `prefix_cache.rs`, `program_cached.rs` | extends `StatePool` |
| `ProgramWorker` | `native_backend.rs`, `program_worker.rs` | |
| `NativeLanes` | `native_worker.rs`, `parallel.rs`, lanes and sampler of the native crate | |
| `WorkerGroup` | `runtime/src/lib.rs` | |
| `ArithmeticHistory`, `ResidentHistories` | `arithmetic_history.rs`, and the histories per resident | the second uses the first |
| `PrefixIndex` | `prefix_index.rs` | `ArithmeticHistory` |
| `ResourcePool` | `ResourcePool` of the transfer crate | operators on pool values |
| `Transfer` | `InMemoryTransport` | `ResourcePool` |
| `LiveScheduler` | `live.rs` | `ResourcePool` twice (prefill, decode) |
| `BatchRun` | `run()` of `scheduler/src/lib.rs` | `ResourcePool` twice |
| `MockServing` | `backend.rs` | what `LiveScheduler` promises |
| `LogicalGraph` | what a CPU plan promises | abstract |
| `CpuPlan`, `CpuPlanner` | `verify.rs`, `execute.rs`; `planner.rs` | the second extends the first and refines `LogicalGraph` |
| `ModelLanguage`, `ModelMeaning` | `expand.rs`, `execution.rs`; the meaning of a document | the second is the reference of the first |
| `TokenGraph`, `TokenProgram` | authoring, lowering, options, loader | the second extends the first |
| `ServingEnvelope` | manifest from compiler to device | |
| `RankStreams` | `compile` and the ranks running its streams | |
| `ArtifactStore` | `write_atomic`, `cached`, bundle staging | |
| `DeviceInvocation` | `device_buffer.rs` | |
| `ProgramEngine_proofs`, `ProgramWorker_proofs`, `Transfer_proofs` | theorems of the module they are named after; the first also of `StatePool` | `Transfer_proofs` extends `ResourcePool_proofs` |
| `Threads_proofs` | theorems of `WorkerGroup` and `NativeLanes` | extends both and `NumberLemmas` |
| `Artifacts_proofs` | theorems of `ArtifactStore` and `ServingEnvelope` | extends both and `NumberLemmas` |
| `Mock_proofs` | theorems of `LiveScheduler` and `MockServing` | extends both and `ResourcePool_proofs` |
| `ResourcePool_proofs`, `NumberLemmas` | lemmas about the pool's operators; about division, pages, and finite sets of numbers | |
| `MC*` | instances for TLC | |

**StatePool.** `free`, `next`, `allocations`, `borrowers`, `flights` and `poisoned`
are the fields of the struct. One action per public call that changes state; a call
that returns an error changes nothing and is a disabled action. `Reclaim` is part of
`Release`, `Retire` and the last `Complete`, as in the code. `Count`, `LogicalPage`
and `PageAddress` are the page arithmetic, with sliding rings. `flights[t].writes` is
an auxiliary copy of the first argument of `submit`.

**ProgramEngine.** One thread owns the engine, so a method is a list of steps `todo`
(a pool call, a native call, a change of host records) that run one at a time; a
failing step drops the rest, as `?` does. Native calls (external) may fail at every
point; ranks complete one after another. `device` holds, per resident, the native
calls behind its state: the namespace, the positions and tokens of every member of the
call, and which member it was, so that a restore from the wrong snapshot, or of state
computed otherwise, shows. `history` records count and numerical class; in batches the
class digests the whole call and the place in it, as `batch_variant` does. Batches need
an uncaptured variant (`VariantAssumption`), which has the checkpoint rule of its own:
whole forwards only. The cache's metadata index is the flat map
that `PrefixIndex` shows the radix tree to be.

**ProgramWorker.** Clients run `generate` (health check, then enqueue under the lock),
receive, abort, disconnect and shut down; the worker's loop is cut at every point
where a client can see or change something: scan for cancelled slots, admission,
selection for the serial or the batched round, the native call, application of the
results, publication of the last response, close-down. The engine is a call that
succeeds or fails.

**NativeLanes.** The same front end over the lane worker: rank 0 is the worker's own
thread, the other ranks are threads with a command and a reply channel. What a lane
has consumed is a sequence of (request, place), so a token sampled from another
request's leftovers shows. Any device call may fail; the client never reads.

**WorkerGroup.** Rank threads that start stage by stage, serve steps from a bounded
channel and are stopped and joined on drop; the owner sends a step to all and collects
replies in order, giving up at the first error.

**ArithmeticHistory, ResidentHistories, PrefixIndex.** Spans are coalesced by
`append_completed`; the model keeps, as an auxiliary variable, the invocations one by
one. The tree is a recursive value; `published` (the flat map) and `issued` are
auxiliary.

**ResourcePool, Transfer.** A pool is a record and each method a function on it.
Callers of the transport keep every lease they ever got and use any of them at any
time, which is what lost, repeated, late and reordered messages amount to.

**LiveScheduler, BatchRun.** One action per visit of a job by one of the loops of
`step` (of a tick of `run`); `submit` and `cancel` come only between calls of `step`,
since it takes `&mut self`. `ok` turns `FALSE` where the code would return an error
other than a capacity error, or panic at an `unwrap`. `BatchRun` includes `max_ticks`.

**MockServing.** The scheduler thread and its callers; the scheduler admits or
refuses, and emits at most one event per job and step. A step that fails sends every
stream a bare failure notice (`Failure`), without a token and, unlike every other first
message, without the prompt.

**LogicalGraph, CpuPlan, CpuPlanner.** An author writes any graph of a palette, it is
typed, pruned, folded, given lifetimes and offsets, verified and executed step by
step; the plan file may be edited in between. Data are symbolic terms, so two results
are equal only when the same arithmetic was done on the same values. Typing
bounds bytes and work (`OutShape`). Where a value is folded, compilation may fail
(`CompileFails`): the code refuses one that is not finite, and a term does not say.

**ModelLanguage, ModelMeaning.** A document is parsed; names and paths are sequences
of the parts between dots. `Eval` and its companions thread the expander through an
expression. `ModelMeaning` evaluates the same document without paths and tells two
calls apart by where they stand. A refusal carries its reason.

**TokenGraph, TokenProgram.** A graph is typed as `validate` does, lowered, given its
`with_*` options in any order and read again by the loader's checks.

**ServingEnvelope.** The manifest is derived, validated by compiler and engine, and
then tokens, chunks and batches write positions into the rings it sized.

**RankStreams.** The streams `compile` emits, and ranks that run them side by side.
What a kernel needs and leaves is an external contract.

**ArtifactStore.** One action per system call; processes are killed at any step and
come back, possibly under the same process id; power loss drops what was not synced.

**DeviceInvocation.** An invocation is verified, prepared and bound to absolute
addresses, with the overflow checks at small widths.

## 3. Runs

Counts are of distinct states; every run takes at most three minutes on two cores.
Four runs put several components side by side that share no state: in every behaviour
one of them starts and the others rest (`bookkeeping`, `artifacts`) or are already
over (`mock`, `threads`), so each is checked as it would be alone and an interleaving
between them, which would show nothing, is not explored. For the liveness properties
a component that is over satisfies them trivially and enables no fair action.

| Run | Instance | Shows |
|---|---|---|
| `state_pool` (0.7 M) | 2 requests, a paged, a sliding and a slot pool on 2 ranks, 5 serials | ownership, holders, seals, addresses; handles never return; leases keep their units until idle |
| `engine_serial` (1.6 M) | a captured program: 1 active and 2 snapshot residents, 3 kinds of request in 2 namespaces, 16 serials | leases are accounted for; a hit restores what the request would have computed alone; a poisoned device stays untouched |
| `engine_batch` (6.8 M) | an uncaptured program: 2 active and 1 snapshot resident, batches of up to 2 tokens, 2 prompts with a whole and a partial last chunk, 11 serials | leases are accounted for when several residents run in one call; histories tell the peers and the place in every batch; snapshots are computed without peers |
| `worker_serial` (3.7 M) | 3 calls (2 with one id), 2 residents, output queues of 1, a shutdown, failures anywhere | ids, responses, finals and the clean end |
| `worker_batch` (0.4 M) | the batched round, uncaptured prefill, a boundary inside a prompt, 2 shutdown callers, one client that never reads | native calls are well formed, shutdown waits; cancelled and read requests end |
| `worker_progress` (0.2 M) | the serial round, uncaptured prefill, one client that never reads | shutdown ends the worker; requests end |
| `worker_failure_notice` | as `worker_serial`, 2 calls | *violated*, see findings |
| `mock` | live scheduler: 3 requests, 5 admissions, 4 pages of 2 tokens; front end: 2 calls, an abort, a shutdown, output queues of 1 | ledgers agree, streams have no gap, every job ends when arrivals do, every caller is answered |
| `live_starvation` | 1 long and 3 short prompts, 5 pages of 1 token, endless arrivals | *violated*, see findings |
| `bookkeeping` | fixtures of 3 requests; 2 requests with 3 leases ever; 3 index entries over 2 symbols; 2 residents with 5 variants | a run reaches its report within its tick limit; hand-overs are exact; the tree equals the flat map; prefix comparison is exact |
| `threads` | 3 ranks with a fault at any stage and 3 calls; 2 requests on 2 lanes of 2 ranks | a step is the whole group's; lanes carry only their request; everything drains and joins |
| `artifacts` | documents of a library and two free bindings; graphs of up to 3 nodes and 2 invocations; token graphs from single ops to attention and expert blocks; meshes up to 2 by 2; 3 writers in 2 processes, a crash; windows, pages and chunks of a few rows; views in two allocations | see below |

`artifacts` checks the compile path stage by stage. `ExpansionMeans`: a graph has one
node for every primitive call its document evaluates, with that call's inputs and
attributes, and a well formed document is refused only for a limit or a path spelled
twice. `PlansSafe` and `Implements`: in an accepted plan a step
reads what its producer wrote, and the verifier refuses a compiled plan only
when its aligned arena is over the byte limit (the typing pass bounds the bytes before
alignment, so the code does compile plans that its verifier then refuses); planner, verifier and executor implement
`LogicalGraph` (`INSTANCE LogicalGraph WITH ...`, a property of the run): an invocation
returns what the graph denotes and commits all states, or fails and leaves them.
`ValuesIntact`, `LoweredLoads`: no instruction reads storage that was overwritten or
rows that were skipped; what the compiler writes the loader accepts.
`KernelsGetTheirInput`, `StreamsFinish`: on every mesh each kernel finds its data
distributed as it needs it, and no rank is stuck. `PublishedOnce`: a published file is
whole and never replaced. `EnvelopeServes`: no query reads a position its ring has
dropped. `BoundIsSafe`: bound buffers never overlap where one is written.

**Why the bounds suffice.** Every limit is set where it is hit: capacities are smaller
than what the requests want together, output queues hold one response, the batch is
smaller than the number of jobs that can decode, a budget ends in the middle of a
prompt, the serial counters run out in the middle of a call, windows end inside a page
and chunks straddle one. Two of each contending party (requests, residents, shutdown
callers, writers of one process) give every pairwise interleaving; the third call in
`worker_serial` waits in the queue while two are resident, one of them with its id.
`MaxSerial`, `MaxGeneration`, `Generations` and `MaxSubmits` stand for 64-bit counters:
`MaxSerial` is also the place where `checked_add` fails; `Generations` is where the
pool's counter wraps, and with the value 1 it makes admissions endless, which is sound
there because the scheduler keeps no lease of an ended job. `MaxU64` and `MaxI64` are
the widths at which address arithmetic overflows. Some documents pass and
some exceed the limits of the expander. In `artifacts` `MAX_BYTES` lies between what
typing counts and what alignment makes of it, so an arena meets it exactly and another
one exceeds it, and a graph can be typed with `MAX_WORK` exactly. In `engine_batch` one
prompt leaves a single token after its boundary and decodes, so that it shares batches
in both places; the other ends with a whole forward, which a boundary at the wrong
place would split. Requests are symmetric in
`state_pool`; no liveness is checked there.

**Deadlock** is checked in `state_pool` and `live_starvation`; everywhere else the
system really stops: threads end, a cleared engine makes no further call, a compiler
is done. That they do not stop early is stated by the liveness properties and by
`RunsToItsReport` and `StreamsFinish`.

**Fairness.** `WF(Worker)` in `ProgramWorker`: the worker is one OS thread in a
polling loop that never blocks on a client. `WF(Receive(j))` for the jobs outside
`Slow`: these clients keep reading; nothing is assumed of the others, nor of any abort,
disconnect or shutdown. `WF(Step)` in `LiveScheduler`: the front end calls `step`
again as long as there are jobs (`backend.rs`, the loop around `scheduler.step()`);
nothing is assumed of arrivals and cancellations. `ServeFairness`: the scheduler thread
runs, and so does the task of every caller that awaits an answer; nobody has to read
and the scheduler does not have to emit. `GroupFairness`: rank threads run, their owner
finishes the calls it began and drops the group in the end. `LanesFairness`: the worker
and every rank thread run; no client is obliged to do anything. `StreamsFinish` is
stuck-freedom of finite streams and needs none.

## 4. Findings

1. `worker_failure_notice`: on a failure the worker drops the error for a resident
   whose output queue is full (`try_send`), so that a connected stream ends with
   neither an error nor a last response, while a test and a comment say that failures
   reach every resident.
2. `live_starvation`: a ready prompt without room in the decode pool is skipped and
   later ones are tried in the same step. Under endless short arrivals a long prompt
   is never handed over, while `docs/design.md` makes "no starvation" a gate of the
   scheduler. With arrivals that end every job ends (`mock`).

Smaller observations, met while modelling, that no document contradicts:

- Two nodes of a well formed document may spell one path: a local called `arg_x` in a
  module with a parameter `x` whose argument is a call, a fold whose initial value is a
  fold with an equally named binding, or a dotted binding. The expander refuses them
  ("expanded instance name collision"), so nothing is merged.
- A concatenation of two dtypes can be authored and compiled but not loaded.
- A process restarted under the id of one that was killed finds its temporary file,
  fails once (`create_new`) and thereby removes it.
- The extra page `sliding_capacity` adds for chunks that straddle a boundary is not
  needed for any row to stay readable; `validate_batch` is called by nothing.

## 5. Proofs

Each theorem holds for every value of the constants that the module's `ASSUME`
allows; TLC evaluates these assumptions on every run. Each component has one inductive
invariant, checked by TLC before it was proved; one lemma per step (or group of steps
that share their effect) shows that it is preserved, and the theorem combines them.

| Module | Theorem | States |
|---|---|---|
| `ProgramEngine_proofs` | `TypeCorrect` | types, and handles come from the serial |
| | `UnitsConserved` | `UnitsPartitioned` |
| | `HoldersSafe` | `LeasesGuarded`: holders hold existing leases, sealed ones have no writer, no idle retired lease is left |
| | `HandlesAreFresh`, `LeasesAreStable` | the action properties `FreshHandles`, `LeasesLast` |
| | `RowsNeverShared` | `RowsDisjoint`: two rows of live leases never share an address |
| | `EngineUsesPool` | `EngineSpec => Spec`: the engine and the cache only make legal calls of the pool |
| | `EngineConservesUnits`, `EngineHoldersSafe`, `EngineLeasesLast`, `EngineRowsNeverShared` | so the pool's guarantees hold of the engine |
| `ProgramWorker_proofs` | `NativeCallsAreSound`, `RequestsAreAccounted`, `ResponsesAreExact`, `ShutdownsWait` | `NativeCallSound`, `RequestsAccounted`, `ResponsesExact`, `ShutdownWaits` |
| | `WorkerInductive` | the inductive invariant of the first three |
| `Threads_proofs` | `StepsAreWholeGroup` | `StepIsWholeGroup` of the worker group |
| | `LanesAreExact` | `LanesExact`: tokens come from their request's own inputs, ranks agree, no check refuses, the active map is exact |
| `Transfer_proofs` | `HandoversAreExact` | `HandoversExact` |
| `Mock_proofs` | `LedgersAlwaysAgree` | `LedgersAgree` of the live scheduler |
| | `StreamsAreExact` | `StreamsExact` of the mock front end: no gap, one end, the prompt with the first token or finish and never with a failure notice |
| `Artifacts_proofs` | `PublishedForGood` | `PublishedOnce`: published files are whole, and a bundle never changes |
| | `ServesWhatItLowers` | `EnvelopeServes`: what is lowered is taken and opened, and no query reads a row its ring has dropped |

**StatePool.** None of the invariants is inductive alone: that a reclaimed lease frees
units nobody else has needs the partition, that its holders are gone needs the two-way
bookkeeping between leases and their borrows and tickets (`HoldersHoldLeases`), and
that a sealed lease has no running writer needs that writes are among the leases a
ticket holds. `IInv` is their conjunction with that last fact, `WritesAreHeld`.
`RowsDisjoint` needs more than ownership: that an address is a page and a place in it
(`Division`, `DivisionUnique`), that the page of a row below the token limit exists,
which is `BindingsFit` (a lease has the units `Count` asked for, never more tokens than
a pool of full retention can hold), and that the sorted enumeration of a lease's units
is one-to-one (`PositionBijective`). The theorem covers sliding rings: there two rows
of one lease meet only a whole number of rings apart.

**ProgramEngine.** `EngineUsesPool` is a step simulation without a mapping, since the
engine extends the pool: each engine step is one action of the pool or leaves its
variables alone. It rests on `EngineAssumption`, the capacities `SharedState::new`
computes.

**ProgramWorker.** `WorkerInv` says of every place of the worker's loop what it relies
on. `OnePlace`: a job is in the queue or in one slot. `Lives`: it is accepted, then
has a place, then has ended, and what its client has seen or will see are tokens up to
the one item it ended with. `Served`: a resident's responses are as many as it
generated, but for a last one that waits for the engine. `Held`: the engine holds the
state of each resident except the one being published, so a terminal response comes
after the release. `Members`: the members of a call are different residents with room
for a response, each within its boundary, its prompt and the budget; while they are
collected, they come from slots already passed, which is why none is taken twice
(`SlotsInTurn`). `Tracks`, while the channel is open: the active map is exactly the
set of jobs with a place whose id was not given back; `OwnIds` that its entries stand
under their own ids. `Ending`: what close-down has given up so far. `ShutdownWaits`
needs only `Handed`: the receiver is in its mutex, or one caller awaits on it, or the
worker has ended. Interleavings with clients enter at every step, since a client may
cancel, leave or read between any two steps of the worker.

**WorkerGroup.** `GroupInv`: what a rank ran followed by what is in its channel is the
sequence of calls (`InOrder`), nothing of a call is lost until the group is dropped
(`Owed`), a reply comes from a rank that ran that call and says whether its batch fits
a bucket (`Answered`), and a rank that serves has a graph of every bucket (`Started`),
so that two ranks cannot disagree on a batch (`ReadyFits`).

**NativeLanes.** `LanesInv` ties four things together. `Contents`: on every rank a lane in use
holds the inputs of its request, as many as the loop believes (`Fed(job, Count)`), and the
lanes of a replay that are still to be visited hold one more, of which rank 0's logits were
computed. `Commanded`: while a command is dispatched it waits for a peer whose lanes are as
before, or the peer has answered and a good answer means that its lanes are as after, or
the answer has been read; a lane being reset may hold anything until then, which is why a
lane released in the middle of a request is harmless (`ResetNames`). `Sampled`: a
sampler has drawn what its request generated, and lets stop tokens through only from the
minimum on; except in the one lane just reset, whose sampler is still its last request's
(`Unset`). `Placed` and `Told`: who is queued or in a lane was accepted, fits the
context, and its stream has exactly the tokens generated, none of them final. With
`ActiveExact`, which is inductive beside them, jobs with a place have different ids, so
that a step for one lane cannot touch another's stream. `RoundSelects` shows that a round
names different lanes, which `consume_batch` checks (`FeedAccepted`), from the ranks of the
eligible offsets (`PositionBijective`) and a rotation that meets each lane once
(`TurnsRotate`).

**Transfer.** `Exact` says that a pool's pages and slots are partitioned into free,
active and retired; `ResourcePool_proofs` shows what `reserve`, `ensure`, `retire`
and `fence` do to an exact pool. `Tabled` ties the table to the pool's active leases,
`Numbered` says that generations tell leases apart, `Told` that an entry past
`Reserved` carries what was first accepted under its generation and fits its pages.
Callers hold any lease ever given, so an old lease that meets a new hand-over of its
request is always in the theorem's scope. `TransferAssumption` keeps the number of
leases below the wrap of the 64-bit generation.

**LiveScheduler.** `LiveInv` has two halves. `Agree` is what holds between any two
visits of a job: both pools are exact with nothing waiting for a fence, a job holds the
lease one pool has for it and none of the other (`Holds`), the queue has each prefilling
job once (`Lists`), and a job's counts are those of its side (`Counted`). `InPhase` is
what the loop that runs relies on: an input gathered for the decode workers is a binding
the pool still has although jobs visited later may have ended (`DecodeInputs`); one
gathered for prefill belongs to a job whose turn does not come again in this step, since
those still to come are the first `turns` of the queue (`PrefillInputs`); and a prompt
that waits for its hand-over is complete. From `Agree` and the pool lemmas follows that
`check` never fails, that bindings neither alias nor fall short (`LeasesApart`, and the
pages of the whole prompt are in the lease), and that a new lease holds what is handed
over (`PagesHold`).

**MockServing.** `ServeInv`: a call is submitted at most once in the channel and the
commands already taken (`SubmitOnce`); before its submission is taken nothing is told
and no output exists (`Queued`); the scheduler's count of a request is what its client
was told, or one ahead while the event waits, and the job is forgotten with its last
event and the output when that is delivered (`Ledger`); live requests have different ids
(`IdsApart`); and each stream, read and unread together, has the tokens in place with one
final message at the end (`Streams`, `Fits`).

**ArtifactStore.** `StoreInv`: a temporary has its process's id and a number that process
handed out, and is whole, synced and its final name's content when it is renamed
(`TempOwned`); a staging directory has exactly the files its writer has finished
(`Staged`); no two writers share a temporary or a directory (`Apart`); whatever has a
final name is durable (`CacheSynced`, `OutputSynced`), which is what a power loss asks.
`StoreAssumption`: a bundle has files, and their names have one extension, where a
temporary's name has three parts after its stem.

**ServingEnvelope.** `EnvelopeServes` has two halves. That a written manifest is taken by
the contract and opened by the engine needs where it came from: it is `ProgramEnvelope`
of a deployment that could be lowered, whose variants have widths that ascend to the
prefill width (`WidthsGrow`), so the widest variant is the prefill one and the capacity
the contract recomputes is the one the compiler wrote. That no query reads a dropped row
needs what the rings hold: `HeldLatest` says that a row has the latest of the positions
that map to it, and `ResidentServed` that the last call was at most one chunk wide. Two
positions meet in a row only a whole ring apart (`RowRepeats`), and a ring has the window
and the rest of a chunk, or the whole context (`RingFits`), so a later position of the
same call cannot reach back into its first query's window. `EnvelopeInv` is their
conjunction.

**Assumptions strengthened for the proofs.** `WorkerAssumption` now says that the prefill
widths are a finite set of positive numbers, at least one of them if prefill is
uncaptured (`uncaptured_prefill` is set by a prefill variant of the manifest, which has
a width), and that `None` is neither a job nor a resident's record. `GroupAssumption` says that buckets are finite, non-empty
sets of positive numbers and that batches are sequences of lanes. `SchedulerAssumption`
says that `MaxContext` is a number, `LanesAssumption` that no request is called `none`. `EnvelopeAssumption` says that page sizes, contexts,
ranks and windows are positive (authoring rejects a zero context and takes two windows
only), that a base row count is whole latent pages, and that the limit on variants and
the exact widths are more than one.

**Only model-checked.** Liveness, `ENABLED` and what is stuck-free are out of the
prover's reach: `RequestsEnd`, `StopEnds`, `AdmittedEnds`, `EveryoneAnswered`,
`GroupComesDown`, `LanesDrain`, `StreamsFinish`. So is induction over data: the radix
tree (`IndexExact`), coalesced spans (`SamePrefixExact`), the expander
(`ExpansionMeans`), the planner (`PlansSafe`, `Implements`), lowering (`ValuesIntact`,
`LoweredLoads`), streams (`KernelsGetTheirInput`), the folds of `DeviceInvocation`
(`BoundIsSafe`). `RunsToItsReport` counts down a tick limit and says that a run ends.
`LeasesAccounted` is out of reach as modelled for the same reason: the list of
evictions a cleared cache does and the tokens of a call are folds over sequences, whose value for
every input is an induction. So is `StatesExact` of the engine, which compares with `Tokens`.

## 6. Not modelled

`PROJECT.json` lists every component with its reason. In short: kernels, device
memory, sampling arithmetic and FFI are outside a model checker's reach; lexing,
parsing, argument handling and the tables that bind a checkpoint's tensors are pure
translations or I/O; the physical inspection plan is a listing no executor reads;
token values, wording, traces and memory reports are abstracted away; overflow of
64-bit counters is kept only where the code checks for it.

## 7. Plan

Modelled, most important first: the state pool and the engine on it, the workers and
front ends, the index and histories, transfer and the schedulers, the compile path.
What is left is proof:

1. `LeasesAccounted` of `ProgramEngine`: `todo` and the host's records determine the
   leases, borrows and tickets that exist; on top of `IInv` and `EngineUsesPool`, once
   what the folds of `ClearCache` and `Tokens` do is stated without them.
2. `StatesExact` of `ProgramEngine`, call by call, under the same condition.
