# Verification of antfarm

TLA+ models of the antfarm runtime, the TLC runs that check them, and proofs
checked by TLAPS, with models of the Python tools that measure it. The reference
is the source under `src/`; line numbers in `PROJECT.json` ("map") lead from
each definition to the code it translates.

## 1. The system

antfarm is a runtime for lock-free work distribution on one machine. Its parts,
from the bottom up:

| Part | Source | State | Operations | Interacts with |
|---|---|---|---|---|
| Farm | `src/antfarm/package.d` | a ring of K segments; tail `Wt`; per segment a root word `Rt` (LIVE, provisional pins, leaf count), leaf tallies `Lt`, statistics `Es Seqt SqCs Sd`; table headers in the ring | construction, `registerProducer` | shared by all producers and views |
| Producer | same | `Token.quotaLeft` of a ticket | `write`, `refreshQuota` | reserves tail space, initialises crossed epochs, publishes tables |
| ConsumerView | same | position, range of held epochs, leaf indices, sweep cursors | `subscribe`, `consumeNext`, `unsubscribe` | pins segments, claims runs, discharges epochs |
| Work table | same | per shard claims and completions, sweeper and adoption words | claim, `feedback`, adopt, yield, completion hook | several views at a time |
| Actors | `src/antfarm/actors/actor.d` | lifecycle word, inbox, submission gate, payload per slot; ready stack of the runtime | create, send, wake, retire, reclaim, flush, enter | written to the Farm as payloads |
| Waves | `src/antfarm/actors/wave.d` | status, credits, members | begin, publish, seal, cancel | activates many actors, one table |
| Private actors | `src/antfarm/actors/private_actor.d` | root park words, join counts | child waves, join, cancel | run inside a consumer |
| Fork-join | `src/forkjoin` | deques, nodes, frames, root queue | fork, join, steal, submitRoot, stop | own worker threads |
| Fibers | `src/ant_fibers` | control word, wait word per fiber; events, semaphores, lists of joiners, timer heap, roots | spawn, park, wake, wait, join, cancel, shutdown | carriers of a thread pool; a ready lane is a Farm |
| Thread pool | `src/threadpool` | arm bits, park words, run flags | start, park, wake, stop | pumps Farms and bodies |
| C ABI | `src/cabi`, `src/include` | handles | argument checks | forwards to the above |
| Performance report | `src/tools/perf/run_performance_md.py` | an output directory (manifest, snapshots, summary), the running benchmark, a made-up processor tree | plan cells, freeze binaries, run, kill, resume, flush | runs the benchmarks of all of the above |
| Sweep, gate, split, matrix | `offccd_sweep.py`, `perf_gate.py`, `llc_split.py`, `private_lifecycle_matrix.py` beside it | logs of runs, scratch worktrees, several benchmarks at once | plan, run rounds or pairs or parts, group, merge, decide | share the planning, killing and topology code of the report |

What is hard, and what makes each part correct:

* **Farm.** There is no lock: a tail fetch-add reserves space that only the
  quota rule keeps free; subscribers arrive while the tail moves; views leave
  with work unfinished; roots, leaves and Live are different accesses. Correct
  means: space that is held, or has work left, is never reserved again; every
  run of every table is handed out once; a discharged epoch is complete; space
  comes back.
* **Actors.** Correct means: at most one activation of an actor exists; a sent
  message is processed or cancelled, never stranded; a retired slot is empty
  and closed; a stale handle never reaches a new generation.
* **Waves and private actors.** The last credit finishes once; a failed publish
  gives everything back; a parked root is resumed exactly once.
* **Fork-join.** A task runs once; a join returns after its children; a root
  published while workers park is run.
* **Fibers.** Signal, timeout and cancellation race for a wait that its own
  fiber may withdraw at the same time, while it parks on one worker and is
  woken by another. Correct means: one of them wins, and its single wake is
  neither lost nor delivered twice; a permit or a wake given to a fiber that
  cannot use it goes to another; nothing waits for what has already happened.
* **Measurement tools.** Benchmarks fork, hang and outlive their leader; signals
  arrive at any point; binaries and sources change while a report of several
  invocations is made; runs fail or are excluded. Correct means: nothing is left
  running beside a sample, no row is filed under an identity that was not checked
  for it, exit status 0 says what was measured, no run is counted twice.
* **Thread pool.** Publishers, the Director and whoever stops the pool all wake
  workers that may be arming, rechecking, asleep or not yet started; any worker
  may fail. Correct means: a publisher either is seen by the recheck of a worker
  about to park or wakes one that can see its work; a stop, whoever asks for it,
  ends every worker; nobody is inside a pool that is taken apart.

## 2. Modules

| Module | Models |
|---|---|
| `FarmRing` | the shared state of a Farm, its geometry assumptions and the conditions read from it |
| `FarmProducer` | `write` with `refreshQuota` and `checkFreshWriteSegments`, one action per shared access |
| `FarmSubscriber` | `add_consumer`, `subscribeOnce`, `subscribe` |
| `FarmConsumer` | `consumeNext`, `processShard` on small tables, `moveRef`, `tryReleaseOldest`, the idle path, `unsubscribe` |
| `JobLog` | the abstract promise: a log of tables with runs handed out and finished once |
| `AntFarm` | composition, fairness, properties and the refinement of `JobLog` |
| `MCAntFarm` | instances for TLC |
| `AntFarm_proofs` | theorems and proofs about types and admission; the invariant of the quota argument, and that the steps of producers keep it |
| `FarmViews_proofs` | that the steps of views keep it; the theorems, with the refinement of `JobLog` |
| `ActorSlots` | slots of an `ActorRuntime` and what callers do to them: create, send, wake, retire, reclaim |
| `ActorRuns` | ready queue, `flush`, `enter`, and an actor's part in a wave |
| `Mailbox` | the abstract promise: FIFO boxes that close only when empty |
| `Actors` | composition, fairness, properties and the refinement of `Mailbox` |
| `MCActors` | instances for TLC: which thread calls what |
| `ActorMoves_proofs` | the invariant of the lifecycle and what each action does to it |
| `Actors_proofs` | theorems and proofs about actors, their inboxes and the refinement of `Mailbox` |
| `StealDeque` | the participants' deques over x86 store buffers: `pushAll`, `pop`, `steal` |
| `ForkNodes` | nodes and frames: `fork`, the trampoline, `complete` and joins |
| `ForkRoots` | `runRoot`, `submitRoot`, `submitDetached`, `TaskGroup`, a worker's steps, parking, waking, `stop` |
| `ForkJoin` | composition and properties |
| `ForkJoin_proofs` | theorems and proofs: no published root is slept through, and every node a deque holds is handed to one thread |
| `FiberTasks` | a task's control and wait words, `resume`, `finishTerminal`, delivering and publishing a wake |
| `FiberWaits` | the body's side: `waitForUnit` of semaphores and auto-reset events, `joinFiber`, `yieldReady`, `withdrawWait`; `post`, `set`, `reset` |
| `Fibers` | admission, timers, cancellation and shutdown; composition and properties |
| `MCFibers` | instance for TLC: which fiber waits for what |
| `Fibers_proofs` | theorems and proofs about places, permits, wakes and the ends of waits |
| `PoolWorkers` | a worker thread: pinning, gate, both loops with their hooks, arming, parking, `requestStop` |
| `ThreadPool` | publishers and their wakes; `start`, `abortStart`, `shutdown`; the host's opening, `wake` and closing; the Director; properties |
| `MCThreadPool` | instances for TLC: which worker is in which group |
| `ThreadPool_proofs` | theorems and proofs about the lifecycle and that no wake is lost |
| `CellMatrix` | the cells each tool plans, and the keys they are filed under |
| `CpuTree` | processor topology: the made-up sysfs tree, placement order, cache groups, splits |
| `Plans` | what is planned for one command line and host, and its properties |
| `ExitCodes` | how an invocation ends |
| `ChildGroup` | the process groups of benchmarks and how they are killed |
| `PerfReport` | invocations of `run_performance_md.py` over one directory |
| `OffccdSweep` | a sweep, its rounds and top-up, grouping and merging |
| `PerfGate` | worktrees, builds, pairs and decisions of `perf_gate.py` |
| `LlcSplit` | samples of several parts of `llc_split.py` |
| `PerfTools` | composition and properties of the tools |
| `MCPerfTools` | instances for TLC: command lines, hosts, output of benchmarks |
| `PerfTools_proofs` | theorems and proofs about what the tools leave behind, their evidence and exit status |

### How the Farm's model corresponds to the code

Producers and consumers are processes with a program counter (`ppc`, `cpc`);
an action stands for one access to shared memory together with the local
computation before the next one. A payload callback that calls `write` needs no
action of its own, since producers interleave freely with consumers.

* *Memory* is sequentially consistent. The code's acquire and release orderings
  are not examined.
* *Units.* Sequences count units, not 8-byte words: `SegCap` and `K` are the
  code's `segCap` and `K` scaled down; a table occupies 1 to quota units.
* *Sizing.* How many payloads fit is left open: any size up to the tier's quota
  may be attempted. Refusal by `prepareTableFrontN` is the action `Decline`.
* *fatal()* is a guard: the step after it is not enabled, and the tripwire
  invariants `WriteTripwires` and `ViewTripwires` say that no fatal fires.
* *Tables are small ones* (fewer payloads than the sharding threshold): their
  runs are claimed on shard 0. Adoption and the second loop of the sweeper,
  which act on other shards only, never act on them. The completion hook is not
  modelled.
* *IDc* is kept modulo a multiple of all shard counts; only `IDc % SqCs` is
  used.
* *Steps that stand for several accesses*, and why no behaviour is lost:
  `Confirmed` (package.d:2712 loads three statistics one after the other; its
  caller holds the epoch, the two `Es` and the next `Seqt` only move to the values
  confirmed and `Sd` only grows, so loads that confirm would confirm at once
  at the last of them; what happens between the loads is argued here, not
  checked); `ClearLive` (one
  successful iteration of a CAS loop); `Hint` (only decides whether to pin);
  `CountConsumer` (`Cf` and `Reqs_c` are not read together elsewhere); `Write`
  (`Cf` and the anchor); `InitStats` and `ValidateSeqt` (a torn read is
  rejected by the load of `Wt` that follows, because the writer advanced `Wt`
  before it stored); `MoveLeaf` (the `Es` and `SqCs` of a segment below a held
  one do not change); `Reserve` (the token is the writer's own).
* *Phases ruled out by the view's own fields* are skipped (`StagePhase`).

### How the actors' model corresponds to the code

Every thread has a program counter; what it may call is the constant `May`, so
a caller, the runtime's owner, a Farm consumer and a wave are threads with
different permissions. The lifecycle word is a record of generation, phase and
flags; the three words a sender touches (lifecycle, gate, inbox head) are
accessed in the order of the code, one action each.

* *CAS loops.* Where the loop's decision depends on the word alone
  (`signalActor`, `reserveSubmission`'s count, `closeSubmissionGate`), its
  successful iteration is one step. Where it read something else in between
  (`enter`, `driveActorRetirement`, `requestActorRetire`) the word is kept in
  `seen` and the CAS compares with it; a failure and the reload after it are
  one step.
* *Handles* are taken at the current generation when an operation starts and
  grow stale while it runs. A call whose first load refuses it changes nothing
  and is left out.
* *The callback* pops any number of nodes, processes each before the next, and
  may ask for republication or retirement. What it sends or wakes itself is
  what another thread could send or wake.
* *The inbox* is a sequence, newest first, as senders link it; `popInboxNode`
  turns it around. `carry` is what an activation left to the next.
* *Plain stores* of a slot under construction are one step (`Build`), and so
  are changes of the free list under its gate. The live count is the number of
  slots that are not free.
* *The Farm* is a bag of payloads `farm[s][g]` that consumers run in any order;
  how it keeps them is the subject of `AntFarm`.
* *A wave* is a thread that has one member at a time. Which members a wave
  waits for and when it has finished is `wave.d`'s and planned.

### How the fork-join model corresponds to the code

Participants (the workers and the caller) and submitters have program counters;
an action is one access to a word others may write, with the private
computation around it.

* *Memory.* The deque's barriers are its point, so here memory is that of x86:
  a plain store waits in `buffer[t]` until `Drain` takes it to memory in order;
  a locked operation and a fence wait until the thread's buffer is empty. `own`
  is `bottom` as its owner reads it. The Farm write and the unlock of
  `publishRoot` wait in the buffer too, which is what its fence is for.
* *Frames* are numbers, handed out smallest first. `freeFrame` writes a
  free-list link over the first word of a frame, which is `Node.parent`:
  `Unlinked`. Whose list a frame goes to is left out.
* *The trampoline.* Nested `runChain` calls (the children a full deque refused,
  a node popped before a root of the Farm is polled) are a stack of nodes still
  to run, `stack[p]`; its entry `Wake` stands for the wake that `forkSlow`
  makes after the refused children ran.
* *A join* frees the children of its node, as the loops and examples do; the
  join of a sentinel (`RootWait`, `RootCompletion`, `TaskGroup`) signals, and
  who waited releases the frames. Stores of `done` are visible at once: nobody
  acts on their absence.
* *Stealing* probes any other participant; which one the code prefers (hot
  victim, sibling, same group) only narrows the choice.
* *The Farm* gives each root written to it to one worker (`AntFarm`). One Farm
  and one group are modelled, with the default options: the caller does not
  consume, a full deque runs the rest inline, idle workers park.
* *Parking.* The recheck is at least one step of the body (the code makes four);
  a worker sleeps while its word is armed. Timed waits only add wakes.

### How the fibers' model corresponds to the code

Workers, posters, the director (any thread that applies cancellations) and the
timers' pump are threads. `code[f]` says where the body of a fiber is; a step of
it is one access to a word or a locked list that others change, made by the
worker that runs the fiber (`Runs`).

* *The control word* is a record of its fields. `fetch_add` of an addend is one
  step; debug assertions on a field already raised are part of `WokenOnce`.
* *Memory* is that of x86 where it matters: `armWait` stores the armed word and
  then executes a fence, so the word waits in `buffered` until `Drain`; the look
  at the control word that follows requires the buffer to be empty, which is
  what the fence is for (`Fenced`). All other shared accesses are locked
  operations, or loads that a locked operation of the same thread precedes.
* *The lane* of all tasks is a bag of activations: a lane is a Farm, which
  hands each out once (`AntFarm`).
* *Merged steps*, and why no behaviour is lost: `publishParkedWaiter` with the
  add that finds the other side, since between them PARK and WAKE are both set
  and nobody acts on such a word; the load and the adds of `resume`, which only
  the holder of the activation may make, except for a cancellation, whose add
  comes before or after; leaving the queue or the list, `disarmTimer` and the
  reading of the cause after a wait (`Woke`), since the wait is over and a
  waker that meets the member drops it; the look at the deadline with the next
  arming; `parked` with the step before it, since the body does nothing between.
* *Deadlines* are not compared: a timer in the heap may fire at any time, and a
  wait whose timer fired is past its deadline when it looks again. Arming the
  timer may fail, as its heap's growth may.
* *A body* makes up to `MaxTurns` operations and ends; a cancelled operation
  throws, and the body ends with it. An exit of another kind (an error, a raw
  yield) terminates in the same way and is not told apart.
* *Cancellation.* `directorCancel` and the drains hold `admissionMutex`, so one
  applier is modelled; a spawn needs the mutex too. Shutdown stops admission,
  copies the roots (which then no longer grow: one step) and cancels them one
  at a time, releasing the mutex in between.
* *waitingCount* and the counts of waiters are sizes of what is modelled.

### How the thread pool's model corresponds to the code

Workers, publishers and the control thread (which starts, directs, closes and
stops; the code asks that it be one) have program counters; an action is one
access to a word that others write.

* *Memory* is sequentially consistent. Arming is a locked exchange followed by a
  locked `or`, and every publication that precedes a wake is followed by a fence
  (`publishRoot`) or a locked increment (`FarmHost.wake`), so no load of the
  recheck or of the bits is early.
* *Words.* `word[w]` is the wake word of w, ARMED or not; `bits` is the bitmap.
  The exchange of `wakeWorker` and its `futexWake` are one step, since the futex
  compares the word when it goes to sleep; the CAS loops of `wakeOneArmed` and
  `wakeOneArmedIn` are one step that takes any eligible bit (the code takes the
  lowest). Loops over all slots take them in any order. A sleep that ends
  without a wake and before its deadline is left out: it only adds a recheck.
* *Work* belongs to the application: `work[s]` counts pieces that the workers of
  group s, or all workers, can see. A body or pump takes one or finds none. That
  the last pump of a managed worker gave a deadline is chosen where the worker
  goes to sleep (`Deadlines`), the first step that tells. A publisher that wakes
  through the host has published in the host's Farm, which one group pumps.
* *Policies.* `sleepUntil` parks with a deadline or returns at once, as `sleep`
  and `spin` do; the cadence verbs are compiled out by default. When a park with
  a deadline ends is left open.
* *Hooks.* `hooks[w]` says whether the start hook of w has returned and its stop
  hook was called; `poolStopped` is part of `Clear`.
* *Failures.* A worker of `Faulty` may not be pinned, and its managed hooks may
  throw in every place where they are called; the threads may fail to be spawned
  part way. A throw unwinds through the `scope (exit)` that disarms (`Leave`).
* *Merged steps.* `resetWorkerHandshake` and the arrays of `start` come before
  the first worker; `clearWorkerState` comes after the last, and its three plain
  stores are one step: whether anybody is inside is what `OutlivesUsers` asks.
* *One host* stands for all that are opened one after another; a wake that
  outlives its host is counted at the next one, which only adds wakes.
* *One-wakers are quiet before a close*: `Close` waits for publishers in
  `wakeOneIn` (`Submitting`), because a dispatcher is stopped before its pool
  and asks its submitters to be done. Wakes through the host may overlap with
  the close; they are what `drainWakers` waits for.

### How the tools' model corresponds to the code

The tools never run against one directory together; the variable `tool` says
which of them a behaviour is of, and `Plans` has one state per command line or
host. Names, ids and keys are tuples of the fields they are formatted from.

* *Processes.* A benchmark is a leader and a child that inherits its pipes, so
  `communicate` returns when both are gone. `kill_process_group` is two steps,
  between which a signal may arrive; whoever does not resist TERM is gone. The
  Windows branch is not modelled.
* *Signals* to the report may come at every step, a second one too. Before the
  handlers are installed and after they are restored it ends where it is; in
  between the handler kills the benchmark it knows of, and the `finally` clause
  runs. Three places are not covered by that code, and the model leaves there
  what the code leaves: between `Popen` and the assignment to `_CURRENT_PROC`
  (run_performance_md.py:592-595) the benchmark (`known` is false); between
  the last file of the made-up tree and the assignment to `created` (1181) the
  tree; and during `remove_fake_topology` (826-828, from 822 or 1208) what is not
  yet removed, since `ignore_errors` passes over no KeyboardInterrupt. In the
  last two `inv.left` is raised. The docstring of `install_fake_topology` (809)
  is broader than its clause.
* *`llc_split.py`* has no handler: SIGINT is an exception, whose `finally` clause
  kills the parts in its list whose leaders still run; a second one, or SIGTERM,
  ends it. *`offccd_sweep.py`* kills its driver on a timeout only, and an
  exception leaves it running in its own session (`StopSweep`).
* *An invocation* ends with an exit status, by a signal or with the host, when
  only `disk` is left. A file is absent, torn (opened for writing, not yet
  written) or has its contents. A group that nobody knew of is followed to the
  end of its invocation. SIGKILL of a tool, and a removal that fails, which
  `ignore_errors` hides, are not modelled.
* *The world*: others edit sources and rebuild binaries between any two steps;
  a binary is the version of the sources it was built from. `Popen` takes what
  it finds at each sample (`ran`): for a cell of the working tree that need not
  be what `frozen_cell` has checked before the first one.
* *Placement.* `cpu_order` tries the numbers from 0 to the count of CPUs. On a
  host with a gap among them it meets a missing file and falls back to the
  numeric order, which names a CPU that is not there; what `OrderSound` says of
  cache groups and of the host's CPUs, it says where their numbers have no gap.
* *Parsers* are modelled by the lines they need: which kind of metric a run
  gives, none, or an error.
* *Statistics* (medians, intervals, ratios) are left out; a rate is a small
  number, two of which differ by more than every threshold.

## 3. Runs

| Run | Instance | Question |
|---|---|---|
| `FarmWriters` | 2 tickets of quotas 2 and 1, 1 view, K=3, SegCap=2, 7 units | may two quotas together reach protected work; is a discharge final, and only complete space reused |
| `FarmViews` | 1 writer, 3 views, limit 2, K=2, SegCap=1, 2 runs per table, 5 units | is the limit kept; is a held segment ever overwritten, a table left behind a view; does the ring implement `JobLog` |
| `FarmLive` | 2 views, 2 leaves, 2 shards, 1 unit, fairness | do leaves and roots count their holders; is every published table completed; does backpressure end |
| `ActorReuse` | 1 actor, 1 sender that also wakes, retires and pumps, 1 owner, 1 pump, 2 generations | what do stale handles, two retirements and the plain store of RETIRED do; does an activation outlive its generation; do the queue, its count and the payloads agree |
| `ActorWaves` | 1 actor, 2 waves (one of them its owner, who sends 2 nodes, wakes and retires), 1 pump, fairness | is there one activation, whoever has the actor; does the inbox implement a FIFO mailbox; is every signal heard, every message processed; does the retirement end |
| `ForkTasks` | 1 worker, the caller, 1 submitter; deques of 2, 6 frames, forks of at most 3, roots and forks together at most 3 | is a node run once, is every join counted, is no freed frame reached, does a published root find somebody awake, does `stop` leave nothing |
| `ForkFrees` | the same, with `LeafFrees = TRUE` | finding: what if a detached leaf releases its frame where it is told to |
| `FiberWaits` | 2 fibers, 2 workers, 1 poster: one post, one cancellation or shutdown, a timed and an untimed unit wait, a join, a yield | is every wait ended by one wake, delivered once; is every permit kept and every wake used or passed on; does anything wait for what has happened |
| `FiberUnits` | 2 fibers that wait for a unit, 2 workers, 1 poster: two posts | finding: is every unit heard of |
| `PoolParks` | 2 workers in 2 groups, each of which may fail, 2 publishers, 2 pieces of work or changes of policy in all, the managed loop, any number of starts | is every piece of work, every policy and every stop heard by a worker that would otherwise sleep on; is anybody inside a pool that is taken apart; do hooks come in pairs |
| `PerfTools` | a report of 3 cells over 3 invocations and 1 edit; a sweep of 2 cells; a gate of 2 modes; a split of 2 cells; all planned cells, hosts of 4 CPUs, one with a gap in its numbers | what is left running, what a row stands for, what exit status 0 means, what a summary counts |
| `GateShort` | a gate of 2 modes, one of them a cancellation mode, 2 pairs in 2 attempts | finding: does exit 0 mean that every mode has its pairs |

The three findings are runs that TLC is expected to refute.

*Bounds.* `MaxSeq` bounds the tail: `Reserve` stops there. It is more than one
lap in the runs about overwriting (`FarmViews`: 5 of 2; `FarmWriters`: 7 of 6),
so that slots are reused while somebody may still hold their last epoch.
`K = 2` is the least the code's assumption on quotas allows (a whole excursion in
K-1 segments); `FarmWriters` has segments of two units, so that tables end
inside one and on its boundary, and 3 of them, because two tiers do not fit in
one. `CrowdEarly` lets three views be busy at a time only while the tail is at
most 1: a refusal, which is what the third is for, does not read the tail. In `FarmLive` one
unit is enough for two views to meet in a segment and in its successor, the
last of them to leave one giving its root count back; its views have two shards
(`ShrunkFarm`) although fewer are present, as after consumers have left: only
then a small table can be skipped by a view whose shard is not 0. `Views`
symmetry is used in safety runs only.

*Fairness* (`FairSpec`): a write that began is carried on, and a subscription
that began and a subscribed view are pumped on. Nobody must begin a write,
subscribe or leave. The code's threads that pump a view call `consumeNext` in a
loop, so a view's pump is always enabled and always taken again; CAS loops are
one step, so no lock-free retry is assumed to win more than it must.

The actors' `FairSpec`: a call that began goes on; the owner of a runtime keeps
calling `flush` and consumers keep running payloads (an application that stops
flushing stops its actors: `flush` is the documented pump); the Farm accepts a
payload again and again (its backpressure ends, `SpaceReturns`); a handler that
is called again and again pops again and again. Taking a payload, a write and a
pop are strongly fair: one thread flushes and runs payloads in turn, so none of
them stays enabled.

The actors' runs give each thread the calls of the question asked; `MaxGen`
bounds the generations of a slot (2 where reuse is the question). `ActorWaves` uses
two nodes, so a node is sent again after it was completed. With one actor a
flush takes at most one activation; that several are counted right when part of
them is put back is what `ReadyIsCounted` proves.

Three units of fork-join work are enough for a fork under a fork on a deque that
is full, two roots with a fork, and three roots or a group of two; a deque of two
lets a thief take both nodes while the owner pops, which the exchange of `pop`
is there to stop; six frames make freed frames be handed out again.

`FiberWaits` has every pair of waits that may meet: a unit wait with a timer
against one without, a join of a fiber that waits, steps aside or ends, each on
a worker of its own. One post (of one or two permits), one cancellation or one
shutdown and one timer are all the wakers there are for one wait. Fibers make
one operation each: a wait that ended is followed by the end of the task, and a
timer that lost is checked against the wait count.

A behaviour of that instance comes to rest: posts, orders and turns are
bounded. `Settled` is that state of rest, so what `WakesPassedOn` and `WaitsEnd`
say of it is what liveness would say (a wait for something that has happened
ends), without an assumption on fairness other than that steps under way are
finished.

Two groups of one worker are the least in which a bit may be spent on the wrong
group, and two publishers with a piece each the least in which one may take the
bit the other counted on; the two pieces may be for one group, for two, or for
all, and a change of policy meets every stage of a park. A worker that fails and
one that does not meet a stop in every pair of stages, and the `requestStop` of
both overlaps with that of the control thread. Publishers are alike, and so are
the workers together with their groups (`Alike`), both of them being in `Faulty`.
`Policies` has the two that differ from the initial one, `wait`. Starts need no
bound: a pool that is taken apart leaves nothing behind, so later runs are those
of a first run with fewer calls left. The raw loop is the managed one without
throws and deadlines, so `Lanes` has the managed one only. A liveness run (every
stop ends every worker) repeats at far greater cost what `StopHeard` says: a
worker that does not sleep comes to its next look at the run flag by itself.

The bounds of `PerfTools`: three invocations are enough for a crash, a resumed
run and a run with other arguments; one edit for a manifest of another
identity; a gate of 3 pairs in at most 5 attempts may exclude two and fall short
of one, a sweep of two rounds and a top-up may skip, fail and be noisy in each.
Thread counts and hosts have full, split and unequal cache groups, and SMT
siblings that are not neighbours.

The fork-join and pool runs do not check deadlock: once stopped, or with every
worker asleep and nobody submitting, nothing has to happen. Nor do `FiberWaits`
and `PerfTools`: when every fiber has ended or waits for a post that nobody
owes, and when a tool has ended, nothing has to happen. Deadlock is checked in
every other run: a view can always poll, and an actor's pumps can always flush
again.

### What the models showed about the code

* *A permit that nobody hears of.* The comment in `waitForUnit`
  (scheduler.d:3284-3287) says of a waiter that finds a unit after it linked:
  "nothing is owed onward. Every unit's wake went to a waiter linked when it
  arrived, and a waiter that linked later rechecks the units itself." It does
  not hold. Let A link and take permit 1 with the second `tryTake` (a post that
  found nobody linked); before A calls `withdrawWait` it is still linked and
  armed. Let B link, find no permit and park, and let another post add permit 2:
  its one wake claims A, whose `withdrawWait` consumes it and passes nothing
  on. Permit 2 lies there and B, linked before it arrived, stays parked until
  the next post: `FiberUnits` refutes `EveryUnitHeard` with this behaviour, which
  docs/design/ant_fibers.md:153-156 rules out too. `unit.spent` records that a
  wake was used up in this way, and `WakesPassedOn` says, and is proved to say
  truly, that it is the only way. The same holds of an auto-reset event.
* *A gate that passes with too few pairs.* `perf_gate.py` promises exit 2 for too
  few pairs (lines 2-4). For the mode tree-cancel the decision
  `inconclusive_work` overwrites `insufficient` (lines 307-309), which is what
  the exit status looks for (line 316). `GateShort` refutes `GateComplete`, which
  is the promise as it stands; `GateHonest`, a part of `ExitHonest`, is what holds.
* *A run that times out ends the gate.* The same docstring (lines 10-13) says a
  run that timed out is excluded; such a run is also invalid, and an invalid
  run ends the gate with 2 (`RunVersion`).
* *A detached leaf that frees itself.* The comment on `submitDetached`
  (dispatcher.d:538-541, also forkjoin/README.md:118) asks a root that forks
  nothing to release its frame before it calls `complete`, but `complete` first
  reads `node.parent` (node.d:47), which `freeFrame` has overwritten. `ForkFrees`
  refutes `FramesAlive` so: the frame is completed after it was freed.
  `ForkTasks` has joins and waiters free frames, as the loops and examples do.
* *What else the tools leave unsaid.* A sweep whose cell has only invalid runs
  exits 0 (offccd_sweep.py:471), and a skip beside ok runs of one plan shows
  nowhere in the summary (649-654); `SweepComplete` and `SummaryExact` promise
  neither. The windows of signals and rebuilds are named in section 2.
* *Where the one-wakers rely on their callers.* `wakeAll` and `wakeWorker` load
  their slice once, so that a shutdown cannot take it away between the bound and
  the index (pool.d:596-607, linux_wait.d:45-48). `wakeOneArmedIn` and
  `wakeOneArmed` (hybrid.d:107-184) load `gArmedBits` and `gWorkers` anew at each
  use: they rest on their callers being quiet before `clearWorkerState`, which
  the guard of `Close` states.

## 4. Proofs

`AntFarm_proofs` proves, for every geometry, quota, and number of producers and
consumers that the assumptions of `FarmRing` and `FarmSubscriber` admit:

* `TypeCorrect`: `Spec => []TypeOK`. In particular a ticket's quota, an
  unsigned counter in the code, never goes below zero.
* `AdmissionIsBounded`: `Spec => []AdmissionBounded`.

`TypeOK` is not inductive: that `quotaLeft - size` is not negative at `Reserve`
needs `SizesFit` (a sized table fits the quota by the time it is reserved); that
`round` and `SqCs` stay in range needs `AttemptsSound`; and that `Cf` never goes
below zero needs `CountSound`, `Cf` being the cardinality of the views counted,
with `LeavingSound` saying which these are while a view leaves. The conjunction,
`TypeInv`, is inductive: one lemma per process shows it is kept by each action.
The bound on admission is `CounterSound`: the views admitted were each counted
while fewer than the limit were.

The second half of `AntFarm_proofs`, and `FarmViews_proofs`, go on from `TypeInv` and prove the
quota argument under the same assumptions: `GeometryAssumption`,
`QuotaAssumption` (all quotas together fit into K - 1 segments, package.d:1533), `ConsumerAssumption`, `IdAssumption`. `MaxSeq`, at which a
model's tail ends, is any number.

* `QuotaArgument`: `Spec => []Inv`, and from it `HeldIsSafe`
  (`HeldNeverLapped`), `WorkIsSafe` (`WorkNeverLapped`), `NothingIsBehind`
  (`NoWorkBehind`), `TalliesHold` (`TalliesAgree`), `WritesNeverTrip`
  (`WriteTripwires`), `ViewsNeverTrip` (`ViewTripwires`), and the action
  properties `DischargesAreFinal` (`DischargeIsFinal`) and
  `OnlyDoneOverwritten` (`OverwriteOnlyDone`).
* `FarmImplementsLog`: `Spec => ImplementsLog`, the refinement of `JobLog`.

An epoch is *protected* if a view holds it or is about to, if it is Live, or if a
table that begins in it has work left. `QuotaSound` says that a protected epoch
is `Safe`: the tail would not reach its next lap if every ticket spent all it
has. That alone is not inductive, because a grant gives a ticket a whole quota
on the strength of roots read one by one, while other tickets are granted
theirs. So `Safe` also says of each sweep under way that it is `Ahead`: either
what the others may spend by then leaves room for its grant, or the sweep has not yet come to
the slot of the epoch, where it will find a root that is not zero. `Budget`
counts the whole quota of every sweep anchored no later, since it may be granted
first; so it is the sum of all quotas that has to fit, and not each of them.

Everything else says who protects what, and that what a sweep reads shows it:

* `TallyInv`: a root of zero means no leaf, and so no view, counts there; the
  edges on their way between leaf and root are counted on both sides (`Raisers`,
  `Lowerers`), and `RaisersApart` gives each of them to one view.
* `Layout`: tables and writers tile the window of the ring, with no gap and no
  overlap, so that a walk from header to header meets every table.
* `EpochInv`: a write initialises exactly the epochs it crosses into
  (`EpochsBegun`, `PendingStale`), and `Seqt` divides the tables that
  began before an epoch from those in it (`EpochsSplit`).
* `WorkInv`: claims, completions and views at work on a table add up
  (`RunsSound`), and `Sd` counts the words of its complete tables (`SdSound`), so that an
  epoch whose `Sd` equals the distance to the next `Seqt` has no work left and
  can be discharged.
* `AttemptsInv`: what a subscription has read is stale but on the safe side; with
  `KeptSound` it is exact once the slot is pinned and validated.
* `RangesSound`, `ReadingsSound`, `WalksSound`: a view's range of epochs, its
  position and its re-walks are such that no work is behind them.

Each conjunct has a lemma per kind of step; `AntFarm_proofs` has those of
the eight actions of a producer, `FarmViews_proofs` those of a view. The refinement
maps a table being written to a reserved job and a table with a run left to a
published one, so that `Reserve` is `Log!Reserve`, the sentinel publishes, and a
write over a table is a stutter because `OverwriteOnlyDone` has all its runs finished.

`Fibers_proofs` proves, for every number of fibers, workers and posters, every
choice of operations and both kinds of owner (assumed: the fibers are finitely
many, no worker-less task name is one of them, threads of different roles are
different, and operations are of the three kinds a body knows):

* `LiveTaskInOnePlace`: `Spec => []OnePlace`, the first part of `WokenOnce`. It
  is not inductive: `resume` drops an activation whose task is not ready, so
  `Apart` says that only a ready task is in a lane and only a waiting one is
  parked, `OneWorker` that a task has one worker, which is what lets a step of a
  body change its phase, and `Somewhere` that a task has no place before its
  admission and one until it terminates.
* `NoPermitLost`: `Spec => []PermitsKept`. Each
  step of a body moves a permit between its own hand, the owner and the permits
  returned (`PermitBalance`); what it needs besides is that a body withdraws a
  wait for one of four reasons (`BodiesTyped`).

* `EachWaitWokenOnce`: `Spec => []WokenOnce`. A wait has three claimers (a post's
  `claimFront`, the timers' pump, an applier of cancellations) and the fiber,
  which may withdraw it; `WokenOnce` says that the one who won owes one WAKE, and
  says nothing of a fiber that runs. `WakeInv` adds what makes the count exact:
  `DebtsSound`, that a debt and a WAKE exclude each other and a fiber is owed by
  one thread, once; `QueueSound`, that a fiber is linked at most once, and only
  between its link and its return, since one linked twice would be claimed once
  and dropped once, or unlinked with the wrong member; `BodiesSound`, that a word
  is armed only while its fiber waits, so that a claim always finds a fiber to be
  woken, and that only the fiber itself has an armed word in its store buffer;
  `WakersFree` and `WorkersSound`, that nobody claims while he still owes.
  What the queue's own operations do is a matter of lemmas: `claimFront` takes
  each armed member once, oldest first, up to its limit (`WinnersArmed`, from
  `ClaimableFinite`: the k-th of finitely many places exists), leaves a suffix
  (`BehindQueued`), and `unlink` takes out one member (`WithoutQueued`).
* `EveryWaitEnds`: `Spec => []WaitsEnd`. A cause that arrives while a fiber is
  still on its way into its wait must be seen by the fiber's next look or be in
  the hand of somebody who has yet to claim. `RestInv` adds to `WakeInv` what is
  heard from which place on: `CancelHeard` (past its arming, a wait of a cancelled
  fiber has the applier at its record or at the claim of that very wait),
  `TimerHeard` (a parked timed wait has its entry on the heap or with the pump),
  `JoinHeard` with `EndsHeard` (a parked joiner is on the target's list, and an
  ended task with joiners has a worker at them), `ShutHeard` (a shutdown that
  cancels has each root cancelled, ended, in hand or on its list, and admits no
  other). `UnitHeard` keeps a waiter for a unit linked as long as it is armed.
  `SpotSound` ties words to places, and `Meeting` says that a PARK never meets a
  WAKE, so that at rest a fiber whose wait was claimed has been resumed.
* `WakesArePassedOn`: `Spec => []WakesPassedOn`. A unit nobody heard of can only be
  explained by counting: `UnitsHeard` says that, while somebody waits for a unit and no wake
  was spent, the units are at most the wakes still to be handed out (`Wakes`) and
  the claimed waiters that have yet to look or to pass on (`Tries`). A post adds as
  many wakes as units, `claimFront` turns each wake into a look or leaves nobody
  waiting (`UnitsClaimFront`), a look takes a unit or finds none, `passOn` and
  the refund make a wake again, and a withdrawal that consumes the wake of a
  waiter with a unit in hand is the one step that breaks the balance: it is what
  `unit.spent` records. `QueueUnits` (only waiters for a unit are linked) makes a
  claimed member one that looks. At rest there are neither wakes nor looks, and
  `WhoWaits` (from `RestInv`) makes a live fiber an armed waiter: no unit is left.

`ThreadPool_proofs` proves, for every number of workers, publishers, groups and
starts, whichever workers may fail (assumed: `PoolThreads`, that publishers and
workers are finitely many and distinct from each other and from the control
thread):

* `PoolLifecycleSound`: `Spec => []LifecycleSound`, and `NoStopSleptThrough`:
  `Spec => []StopHeard`. The invariant ties the
  workers' counters to the control thread's: before the loop no hook has run
  (`HookInv`); beyond the gate all workers are pinned unless the flag is down,
  which whoever opens the gate on a failure has stored before (`FlagInv`,
  `PinInv`); `wakers_` is the number of publishers between the two ends of
  `FarmHost.wake` (`PublisherInv`), so that a drain to zero leaves nobody who
  found the host open; `WakeInv` is `StopHeard` without the slots, inductive
  because arming is followed by a look at the flag and every stop first clears
  the flag and then wakes all; and the slots are there from `start` to
  `clearWorkerState`, which every worker precedes (`ControlInv`).

The same module goes on from that invariant and proves, if every group has a
worker that serves it (`GroupsServed`: the groups of the model are those that
supply a pool's workers; a Farm beside them has only the caller's own pump):

* `NoWakeIsLost`: `Spec => []WakesReach`. `WakesReach` speaks of workers asleep and
  is not inductive: a worker falls asleep by a step of its own, long after its
  last look at the work. A worker is *drowsy* from its recheck on while it is
  armed. `SeenInv` says that for a piece of work somebody who sees it is not
  drowsy, or a publisher still owes it a wake: the recheck of the last one to
  become drowsy finds the work, and a publisher that finds a drowsy worker can
  take its bit, because an armed worker that lacks its bit is being woken by
  whoever took it (`BitInv`). `PolicyInv` is the same for a new idle policy,
  which wakes every worker, whether armed or not, after it was stored. `FreshInv`
  says that a pool opens without work.

`ActorMoves_proofs` and `Actors_proofs` prove, for every number of slots,
threads, nodes and generations and whichever calls each thread makes (assumed:
`ActorAssumption`: there is a slot, the threads are finitely many, `None` is
neither a thread nor a node):

* `LifecycleInductive`: `Spec => []Inv`, and from it `GenerationsAreHeld`
  (`GenerationHeld`), `StoreIsAlone` (`StoreAlone`), `NoMessageIsStranded`
  (`NothingStranded`), `NoPayloadIsStale` (`NeverStale`), `ActivationIsUnique`
  (`OneActivation`) and the action property `WakesAreKept` (`WakesKept`).
* `ReadyIsCounted`: `Spec => []ReadyCounted`.
* `ActorsNeverTrip`: `Spec => []ActorTripwires`.
* `InboxesImplementMailbox`: `Spec => ImplementsMailbox`, the refinement.

No property is inductive, and none without the others. Whether an activation may
retire its actor depends on a gate that is closed and drained (`Joined`), a
drained gate on the reservations of senders (`ReservationsCounted`), a
reservation on the generation staying active (`SenderSound`), and that on every
path by which the word may leave the active phases. An idle actor with a message
has a sender on its way to signal (`Heard`), a running one has that or the
pending bit (`Awaited`). That the code's plain store of RETIRED loses nothing
(`OwnerSound`) needs the pin to be one owner's (`Alone`), the gate to be
drained, and nobody else to have an edge out of idle. `TokenSound` says where the
one activation of a scheduled or running slot is: a queue, a snapshot, the Farm or a
thread. `Inv` is the conjunction of what holds of each thread by where it is,
of each slot by its phase, and of the tokens.

The step is divided so that no lemma has to speak of two actions. `Moves(t)` is
what a step of thread `t` may do to others: `LifeMoves` is the graph of the
lifecycle word, each edge with the phase and the program counter it needs, with
the like for the gate, the inbox, the owner of a wave, the payload and the free
list. There is one lemma per action that it is such a move and leaves its own
thread sound, and one per conjunct of `Inv` that a move keeps it of the other
threads and of the slots. Steps that hand an activation on have a lemma each
(`LinkTokens` to `EnterTokens`); all others carry it (`Carries`).

The fatal checks on nodes and the refinement need `NodesInv` beside: a queued
node is in one inbox, one carry or one hand, and once; a node in process is in
none. The refinement mapping is that of the run: a box is what a callback has
in hand (without one, the carry) and then the inbox reversed. `PushInbox` is then `Deliver`, a pop is
`Receive`, the edges between active and other phases are `Switch`, which needs
the box to be empty there (`OverStays`), and every other action leaves all boxes as
they are: `Run` moves an inbox into the hand in the order of arrival.

`PerfTools_proofs` proves about the measurement tools, for any cells, command
lines, outputs of benchmarks and numbers of runs, attempts, edits and invocations:

* `ToolsLeaveNothing`: `ToolsSpec => []NothingLeft`: no sample beside a process of
  an earlier one; a made-up tree that stays is one of a run cut off in the two
  windows of section 2, or of a host that failed;
* `RowsAreOfTheManifest`: `ToolsSpec => []EvidenceBound`: the binary checked for a
  row, and its sources, are the manifest's, and so is what each sample of a
  snapshot's cell ran;
* `ZeroIsHonest`: `ToolsSpec => []ExitHonest`: the samples asked for (report,
  split), all modes measured and none classified with too few pairs (gate), a
  row of every cell in every round (sweep);
* `GateOrdersBalance`: `ToolsSpec => []OrderBalanced`, the part of
  `SummaryAccounts` that speaks of the gate.

Each tool has an invariant of its own, and `ToolsInv` says that the tools not run
stand idle. Of the report, `ReportInv` has three parts beside the types.
`TreeAndGroup`: unless one was left, a made-up tree is there only at the places
from which its removal is still to come, and a group the invocation knows of is dead
except while it is measured. `Evidence`: from the moment the manifest is written
until the invocation ends, the manifest on disk is the one in hand, the rows in
hand are its rows, the binary checked for the cell in hand is the manifest's
(`frozen_cell`), and a snapshot does not change, so its samples ran that one; a directory whose manifest is absent or torn has no rows, which
is why `prepare_manifest` must refuse evidence without a manifest. `Progress`: the
cells before the present one have a row, of enough samples if it succeeded, so
that the check of all rows at the end (`CloseSummary`) is enough for exit status 0;
rows of a multithreaded fiber cell hold whole bursts only, because the parser
gives no other metric once the `workers:` line is there (`ParsedMetric`). That a
row replaces the earlier one of its cell and no other is `FiledRows`. `SweepInv`
counts: a cell that no run settled has been run once a round, and in the top-up
rounds so far if it is noisy; a settled cell ends with its skip. `SplitInv` says
which parts of a sample may be alive by what was started and collected, `GateInv`
that the pairs kept alternate and that the modes judged are the first of those
requested. The sweep's driver is alive only while it is run or after a stop.

Assumed of the constants, and evaluated by TLC: `ReportAssumption` (an absent or
torn file is no content; every cell has a parser; `benchmark_mt` always prints its
workers, benchmark_mt.d:135), `SweepAssumption` and `SplitArgs` (at least one
round, which the command lines do not enforce: one of none measures nothing),
`GateArgs`, and `PartsAssumption`.

`ForkJoin_proofs` proves, for every number of workers (at least one) and
submitters, any frames and any capacity of a deque, over the store buffers of x86:

* `RootsAreSeen`: `Workers # {} => (Spec => []RootSeen)`. Without workers the
  caller consumes the Farm (dispatcher.d:803, 873), which `ForkRoots` leaves out.

`RootSeen` is not inductive, because it speaks of workers asleep and is lost
earlier: when the last worker still to look at the Farm has looked. `SeenInv`
says it of every `Settled` worker, one that has armed its word and looked since.
A worker settles only when it saw the Farm empty. A root becomes visible only
while its submitter is at `scan`, because `publishRoot` fences between its write
and the bitmap (`RootsLate`: elsewhere a submitter's buffer holds no root). And a
look at the bitmap that finds no bit shows that somebody is awake, or about to be
woken, because of `BitKept`: an armed word of a worker that looks once more or sleeps has its
bit, unless a thread has taken the bit and is to clear the word. Every other
action is `Private`: it parks and wakes nobody, and lets no worker settle while a
root waits. What the deques hold does not matter to this argument, so the
invariant types only what it reads.

* `EachNodeHandedOnce`: `Spec => [][HandsOut]_vars`, also without workers. A
  thread that ends a pop or a steal with a node takes the index that node lay at
  out of its deque; no step takes two indices of one deque, and none disappears
  otherwise; what stays in a deque keeps its node; and a deque grows only above
  what its owner pushed last, in a fork. The node at an index (`Item`) is that of
  its store while it waits in the owner's buffer, and later that of its slot.
* `SlotsNeverShared`: no two nodes that a deque holds share a slot, though it
  wraps around at its capacity.

Both rest on `DequeInv`. `Sizes`: the indices from `top` to `End` are at most
`Cap`; `bottom` in memory may be behind `own`, what its owner stored last, never
ahead; a pop has nothing left in its buffer once it has exchanged `bottom`.
`LateStores`: the cells of a push wait in order, each between `top` and `own` and
before the `bottom` that publishes it, and the `bottom` in memory passes none
of them, so a thief that saw `bottom` above `top` finds no late store for its
index. `OwnerRead` and `ThiefRead`: what a pop or a steal has loaded and not yet
decided on is right for as long as `top` has not moved, because that slot is not written
again before it does (`SlotsApart`) and the owner takes the last node only by
moving `top` itself. A pop with a plain store for the exchange, one that
does not contend for the last node, and a push of one node too many each break
`HandsOut` in TLC.

This is the deques' part of `TakenOnce`. The rest of it (a frame is in no two
places, of which a deque is one) follows a frame through its allocation, the
roots, the inline stack and its release, which only its parent's count allows; it
stays with TLC, and so do the counts of joins.

Only model-checked: the rest of fork-join (`TakenOnce`, `JoinsCounted`,
`FramesAlive`), what the tools plan (`PlansSound`), what a sweep's summary counts
(`SummaryExact`: a sum over the groups, induction over data), and liveness itself
(`WorkCompletes` and the like), which is out of the prover's reach (fairness and
ENABLED). For the fibers `WakesPassedOn` and `WaitsEnd` stand in for it: they say
of a state of rest what liveness would say of every behaviour that comes to rest.

## 5. Not modelled

The parts marked not_modelled in `PROJECT.json`. Construction of the ring, its
mappings and word layouts, the machine's topology, the C ABI's argument checks:
sequential code without state that others change. Examples, benchmarks, tests
and vendored code are not part of the program.

Of the fibers: `await` with its striped map of signals, `sleepUntil`,
manual-reset events, `cancelCurrent`, the ring of lifecycle records, retirement
and recycling of tasks (one generation of each is modelled), joins from threads
outside the domain, generation triggers, groups, the host and `actor_wave.d`.

Of the thread pool: the cadence verbs, tags and selection of workers, the Windows
slots, what a `GroupHost` does with its Farms and tokens, draining a host before
`close`, attachments and the caller's affinity.

Of the measurement tools: the statistics and the markdown tables, the Windows
branches, the mapping of module names between revisions, calibration lines.
The other scripts (`src/scripts`, `src/tools/coroutines`, the example runner)
make one pass over files or run one command after another; they keep no state
that a second actor or a failure could disturb.

## 6. Plan

1. Fibers: recycling of tasks (a handle, a timer or a queue member of an older
   generation), `await`, manual-reset events, `cancelCurrent` beside an applier.
2. `ActorWave` on `ActorRuns`: status, credits, publication and reuse of a wave.
3. `WorkTable`: one large table with several shards: peek, claim, feedback,
   adopt, yield and the hook; implements the exactly-once part of `JobLog`.
4. `Frames`: owner free list, remote frees, slots passed on between threads.
5. Private actors: root parks, child waves.
6. Thread pool: the groups' Farms and the draining of a host; `Tickets`:
   registration of two tiers.
7. Fork-join: liveness of stop; a caller that leaves `runRoot` with foreign
   nodes on its deque (dispatcher.d:443-447 returns when its own root is done)
   and workers that park meanwhile; several groups.

Proofs planned: `TakenOnce`, `JoinsCounted` and `FramesAlive`, one invariant over the
places of a frame, on top of `DequeInv`.
