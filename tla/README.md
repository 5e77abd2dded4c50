# Verification of embassy-supervisor

TLA+ models of the lifecycle supervisor in `supervisor/src/`, TLC runs on small
instances, and TLAPS proofs. `PROJECT.json` maps every definition to the lines it
models and lists runs, hazards, findings and theorems. Line numbers below are of
`supervisor/src/lib.rs` unless another file is named.

## 1. The system

A graph of *nodes*, each one task, is declared with `supervisor_graph!`. A single
supervisor task brings nodes up in dependency order, stops them in the reverse
order, and applies commands and readiness changes at run time. The parts talk
through static, latching primitives: per node a word of flags and three wakes
(`TaskHandle`), and a few process-wide signals.

| Component | State | Operations | Talks to | What makes it correct |
|---|---|---|---|---|
| Node handshake | `flags` (SHUTDOWN, DROPPED, RUNNING, COMPLETED, RESIDENT, IDLE), `shutdown_wake`, `dropped_wake`, `resume_wake` | reset, spawn / `__sv_start`, set_running, signal_shutdown, wait_dropped (supervisor); poll_shutdown, ack_dropped, mark_exited, `__sv_park`, wait_resume (task) | both sides, on any executor or core | activations do not overlap; an ack belongs to the instance it was asked of; no start and no ack is lost; a node that is down reads as down |
| Waves | locals of `stop_wave` and `start_nodes`; `STOP_EVT`, `GATE_EVT` | start, teardown, teardown_continue, respawn_terminate, resume_pausable, start_node, stop_node | node flags | dependencies serve through their dependents' cleanup; every wave ends |
| Control | DISABLED, COLLATERAL; mailbox `CONTROL_REQ` (4) | deactivate, activate, restart | waves | holds stick, reach all dependents and are lifted with their last cause |
| Bound deps | READY, BOUND_STOPPED; `BIND_REQ` | set_ready, clear_ready, apply_bind | waves, concurrently with control | a bound stop does not survive the provider's recovery |
| Leases | one word (count and closed bit), `idle` | lease, drop, drain, reopen | tasks among themselves | no holder after a drain; a drain ends |
| Pools | BUSY, the policy's deadline; `SCALE_REQ` | evaluate, drive_pools | start_node / stop_node, cancelled by control | growth over running deps, no shrink before the cooldown, no request forgotten |
| Resource slots | a cell and a latch each | provide, take, restore, clear | start gates, shells, providers | one owner; a value taken is not a leftover |
| Executor slots and fence | the spawner cell, the pass counter and request | set, ready, request_pass | the Busy retry of a spawn | a pass means that the old instance is gone |
| Mailbox, restart budget, events, epochs | bounded queues, window counters, a wrapping epoch | request_control, restart, note, wait_epoch | application, control driver | refusals are real, no epoch is slept through |
| Veto, Budget, Backed, Stamped | bit set; wants and grants; open count; a stamp | see the modules | tasks | no missed flip; grants settle on the division; producer up while opened; no stale value handed out as fresh |
| Monitor, fault injection | beats and strikes; the fault code and swallowed acks | monitor, inject, clear_fault | node state | no alarm lost or invented; an ack replayed once |
| Graph macro and syntax, topological sort, `#[dataflow]` | none at run time | parse, expand, topo_sort_const; walk, derive, index | rustc | an accepted declaration is wired up; the order respects the deps; an index is the call's own |
| Demo firmware, bootloader | partitions, sockets, the hardware watchdog | update, confirm, swap; feed, heartbeat | all of the above | an update never costs the image; the watchdog bites only when a feed was withheld |
| Tools, observe, trace, logging | text | | | not modelled |

What is hard here: the supervisor and a task may be on one cooperative executor,
on two interrupt tiers of a core, or on two cores, so every pair of stores is a
window; `run()` polls *two* drivers that may run waves over the same nodes; waves
await in the middle of their work, against deadlines; `run()` and `drain()` are
futures that their owner may drop at any await.

## 2. Modules

| Module | Models |
|---|---|
| `Handshake`, `MCHandshake` | one node and its supervisor, an atomic operation per step |
| `Lifecycle` | the abstract node: down, running, parked; what a stop and a start promise |
| `Supervisor`, `MCSupervisor` | the whole graph: verbs, waves, the control and the bind driver, the tasks |
| `Pool`, `MCPool` | `pool.rs` on top of `Supervisor`: run_pools, DeferredShrink, reported load |
| `Leased` | `data_deps/leased.rs` |
| `Slots` | ResourceSlot, the gate of a start, the shell's takes and restores, a provider |
| `Fence` | SpawnerSlot, the fence task, the Busy retry of a spawn |
| `Monitor` | beats, observed writes, the sweep, the health mailbox |
| `Inject` | the Injected wrapper, the wedge, inject and clear_fault |
| `Report` | the control mailbox, the restart budget, lifecycle events, breadcrumb, epochs |
| `Budget`, `Backed`, `Veto` | `budget.rs`; `data_deps/backed.rs`; `veto.rs` and `stamped.rs` |
| `MCServices` | the eight modules above and `Leased`, one at a time |
| `Decl`, `Dataflow`, `Tables` | the macro: declarations, tables and the sort; `#[dataflow]`; the loop both build tables with |
| `Ota`, `Dog` | the demo firmware: the update with the bootloader; the watchdog |
| `MCProduct` | `Decl`, `Dataflow`, `Ota` and `Dog`, one at a time |
| `HandshakeProofs`, `SupervisorProofs`, `PoolProofs` | the theorems about Handshake (with Lifecycle), Supervisor and Pool |
| `ServiceProofs`, `SharingProofs`, `ClockProofs` | those about Slots, Fence, Inject and `MCServices`; about Backed, Budget, Leased; about Monitor, Report, Veto |
| `ProductProofs` | those about Ota, Dog, Dataflow, Decl |
| `Induction` | induction over naturals and finite sets, and sums, for the other proof modules |

### Handshake

`flags` is the set of bits that are set, `wake` the set of latched signals; `sup`,
`verb` and `task` say where the two sides are. Every value of `sup` and `task` is
either an await (`SupAwait`, `TaskAwait`) or a point between two atomic operations.
`cfg` is the declaration: mode (OnDemand behaves as Terminate at this level), the
kind of task (`task:` with its resident shell, or `spawn:`), and `cfg.preempts`,
which of the two may run while the other is between two awaits. `{}` is one
executor, one pair is two tiers, both pairs two cores; all 16 combinations are
checked in one run.

The supervisor part is `start_nodes`/`spawn_settled` for one node (`BringUp`,
`SelectVerb`, `Settle`, `GateWake`, `GateDeadline`, the three stores of `reset`, the
spawn glue, `SetRunning`), `resume_node`, and `stop_node` or a wave of one node. The
task part is the emitted shell, `RunCancellable`, `RunPausable`, `settle_dropped`
store by store, and `__sv_park`. Bits that no property tells apart (BUSY, READY, …)
are left out here.

### Supervisor

One step is one of Handshake's store sequences (a reset with its spawn, an ack, an
exit), one round of `stop_wave`, or one visit of `start_nodes` to a node; waits are
steps of their own. `drv["ctl"]` and `drv["bind"]` are the two futures of the
`select` in `run_driver`; only one is between awaits (`MayRun`), while tasks step
at any time. A wave keeps the nodes it has not resolved (`left`), those whose budget
is running (`mark`: signalled in a stop wave, armed in a start wave) and those whose
budget is spent (`due`). `inst[n]` is where the shell is. Time is only the choice of
when a budget is spent (`Deadline`), for nodes in `Late`.

Simplifications, none of which removes a guard of the modelled paths: every node is
a `task:` node (bare `spawn:` tasks are in Handshake); a Terminate node acks by
exiting (the early ack is in Handshake); there are no executor slots, resources,
DETACHED nodes, `enabled_if` or restart budgets; the pool driver is added by `Pool`; `start_node` and
`stop_node` are called by the application outside `run()` only, on nodes that are
not held; the first unready dep is the first in topological rather than in
declaration order. `Drains` stands for what the body of a worker awaits in its
shutdown (a `Leased` drain): it ends when the named node is no longer live.

### Pool

`Pool` EXTENDS `Supervisor`: a decision of `run_pools` is one step (`Grow`, `Defer`,
`Shrink`, `Settle`, which are the branches of `DeferredShrink::decide` with what
`evaluate` and `drive_pools` do about them), and the `start_node` or `stop_node` it
awaits is executed by Supervisor's own actions under the verb "pool". A command may
take the driver over at any await of that verb (`Call`), which is what dropping the
future does; `fresh` says that a new `run_pools` is to begin, with a decision.
`pending` is the policy's deadline in ticks from now, kept in a static and so not
lost with the future. Members report load with `MarkBusy` and `MarkIdle`. `since` and
`gone` (the nodes that left by themselves since the pool's decision) are history
variables. There is one pool, and the first member is the first in `Order`.

### Leased

The word is a number, `CLOSED` the weight of its top bit; `compare_exchange_weak`
may fail at any time. A reader that holds several leases is several readers.
`CancelDrain` is the producer's worker being dropped inside `drain()`.

### Lifecycle, and Handshake as its implementation

`Lifecycle` has the states and arrows of the diagram `supervisor-tools/src/states.rs`
draws for a node: an instance is down, running or parked; a stop may be asked for and
revoked, but never revoked under a running instance; while it stands nothing comes up;
and it is honoured (the one fairness of the specification). In `Handshake`,
`ImplementsLifecycle` is this specification under a mapping: a stop stands while
SHUTDOWN or DROPPED is set; the instance is running from the point at which nothing
of the supervisor's is needed any more for the worker to be polled (`Serving`). It
is claimed of `task:` nodes, except Pause nodes whose supervisor can preempt their
acknowledgement, and of `spawn:` nodes on the supervisor's executor (`Drawn`): the
others are what the two findings of Handshake and the late ack are about.

### The services

Each of these modules takes its component apart to single loads, stores,
read-modify-writes and signals, because its actors may be on different executors; what
belongs to another module is one step in it. `Slots` has a consumer with two
`resources:` entries in either order, an owned singleton that is lent and a provider's
value of each kind, the gate of `start_node`, and the shell's sequence of takes,
worker, restores and exit. `Fence` has the target executor as a place that polls one
task at a time. `Monitor` and `Report` keep time as ages, truncated as the code
computes them and true up to a cap, so that the wrap happens without a bound on the
run. `Inject` has one node, its injector and a supervisor that may or may not run in
the middle of an inject. `Budget` has the allocator's loads and publications one by
one against want, release, provide and clear, and one holder in its grant future.
`Backed` has readers in `open`, the producer in `retire`, and the mailbox between them
and the supervisor. `Veto` also holds `Stamped`: writers that take their now, store it
and put the value in separate steps, so that a late one may store an old now over a
newer, and a reader that may be overtaken between any two of its own.

`MCServices` EXTENDS all of them; its variable `focus` picks one in the initial state.
They share no variable, so this is each by itself. It is one run because the questions
are alike: who owns it, is the answer still true, is a wake lost.

### Decl and Dataflow

`Decl` reads a declaration item by item (`ParseItem`: the rules on one item, in the
order `parse_node` and `parse_pool` apply them), then applies the rules on the whole
(`EndParse`), the feature gate and the slot plans (`Expand`), and runs
`topo_sort_const` on the tables (`SortSeed`, `SortVisit`, `SortEnd`). An item is a
record of clauses; `#[cfg]` is one flag, and every build of the flags is tried.
`Dataflow` reads a fn body token by token as the compiler accepts it, keeping what the
walker believes governs a call next to what does.

### Ota and Dog

`Ota` is the firmware's update from its request to the trial boot. Its graph has NET,
the pool and OTA as the targets of commands: a worker posts any verb for any of them
(`Post`, which is `handle_control`), if the mailbox has room, OTA and `ota_confirm`
post theirs, and the supervisor takes one at a time (`Command`): latches, a stop wave
(`TellWorkers`, `TellNet`, `Stopped`, or `AckMissed`), a start wave (`StartNext`,
`StartFault`, `Started`), and `run()` again after a fault (`Rerun`). `run_pools` grows
and shrinks the pool in between. `ota_confirm` is at the end of any start wave;
commands for it are those for the pool (an Activate) or nothing to the others. It and
OTA are detached from their spawn on, where the code has them detached by their first
act; the mark waits for NET's readiness, and a link that goes and comes back only
delays it. `Crash` may happen between any two steps. The bootloader's swap is external
(embassy-boot) and modelled by what the code relies on: it exchanges the partitions
when armed, and back when the trial image has not been marked.

`Dog` is the feeder, the policed heartbeat, hogs and health events, in ticks.

## 3. Runs

| Run | States | What it shows |
|---|---|---|
| `handshake` | 34 121 | all 16 declarations: no overlap of activations; acks are genuine, starts fresh, resumes asked for and down nodes read down *wherever the interleaving that breaks them is impossible*; no lost start, no lost ack; Lifecycle is implemented |
| `control` | 82 874 | 4 calls out of 12 verbs on radio ← client ← worker (Pause, may exit by itself) plus a publisher that drains the worker: order, holds, restart, termination of every wave |
| `bind` | 161 201 | 3 calls out of 9 verbs on a link that flaps, a service and a pool member bound to it and a Pause worker over the service, budgets running out: holds, recovery |
| `pool` | 172 761 | a pool of 3 (a floor and two OnDemand) over a link that one command deactivates or restarts, its start possibly failing: growth, shrinking, and what a dropped `run_pools` may not lose |
| `services` | 354 437 | nine services, see below |
| `product` | 2 063 131 | the update with power lost anywhere, the watchdog, the declarations, the bodies |
| `handshake_fresh`, `handshake_down`, `bind_timeout`, `bind_pause`, `pool_regrow`, `slots_lost` | – | the six findings below |

What `services` checks:

* `DrainedIsFree`, `WordIsExact`: no holder after a drain, an exact count, with three
  readers, repeated, cancelled and undone drains.
* `AckExactlyOnce`: an ack a wedge may swallow is neither lost nor delivered by both
  the task and the injector that clears the wedge between its two looks.
* `SlotsAreOwned`: the singleton is in its slot or with the shell, in one place, when
  it is declared after the provider's slot (the other order is `slots_lost`); a
  consumed or shared value comes from the provider's present activation.
* `PassFreesTask`: after a pass of the fence the retried spawn finds the task's
  storage free, however passes, requests and other gate events interleave.
* `MonitorIsHonest`: a strike means true silence for longer than the budget, and
  silence for longer than the monitor's latency has all its strikes, up to the wrap.
* `RestartsInBudget`: no stretch of time as long as a window sees more than 2 MAX − 1
  restarts, the ticks' wrap included; and one is refused only when MAX of them were
  truly accepted within a window's length, but for a window opened a wrap ago.
* `BudgetSettled`: when everything is quiet the grants are the policy's division of
  the present wants and fit the capacity.
* `RetireIsRaceFree`: a producer's own retirement never stops it under a reader.
* `FreshIsRecent`: a value handed out as fresh was put no longer than `max_age` before
  the reader's now, whatever writes land between the steps of the read, except between
  a writer's stamp and its value, and past the wrap.
* `NoLostWakeup`: nine futures, each parked on a waker that another actor wakes after
  it changed what the future waits for. Six are liveness (StopIsHeard, FillIsSeen,
  PassIsSeen, EpochIsSeen, DrainEnds, ReaderGetsIn, each stated in its module).
  `WakesAreOwed` is what they rest on, in every state and without any fairness: a future
  parked on what has come is latched, or the actor that has to wake it has begun to
  (StopIsOwed, FillIsLatched, PassIsOwed, EpochIsLatched, DropIsOwed, LeavingIsOwed,
  GrantIsSeen, FlipIsSeen).

What `product` checks:

* `UpdateIsSafe`: whatever is started is a whole image, with a whole one to fall back
  to during a trial, and an image is kept only after it has been reached.
* `SocketsInBudgetBelow`: the download's socket never comes on top of the workers',
  whatever verbs the workers post for whichever node, and whichever wave faults or
  misses a deadline; except when OTA polled the pool before its own stop was handled,
  or with an Activate of the pool queued behind it.
* `BiteIsEarned`: the watchdog bites only when a feed was withheld for a stale node.
* `SortIsRight`: a graph that builds is ordered by its declared deps; a build refused
  for a cycle has one.
* `AcceptedIsSound`: no two holders share a veto bit or a claim slot, and a
  `ready_on_write` node is driven by the monitor.
* `IndexIsOwn`: in every build every call finds its own signal at its index.

**Bounds.** Handshake, Leased, Fence, Monitor, Report, Inject, Ota and Dog are finite
without bounds on the run, and so is Veto but for `CallTicks`, the time a single read or
write takes from its now on: they are complete for their instances. In Supervisor
`MaxCalls` bounds the verbs. Three or four calls are enough for each interplay of two
verbs after a `run`: hold and release, release while another hold stands, a restart of
what was stopped, a `leave` in the middle and a new `start`. In `pool` one command
after `run` is enough to drop `run_pools` at each of its awaits; three members reach
the branch for a surplus of three, and a cooldown of one tick tells a deadline that has
passed from one that has not. In `services`, three activations of the provider
(`MaxGen`) give a leftover of the one before the last; three calls on the budget a
demand, a release and a change of capacity that overlap one division, which two slots
with wants of 3 in a capacity of 4 have to share; three opens by two readers one that
comes while the other leaves and one after it; queues of capacity one or two are full;
the moduli are small so that ticks, passes, writes and epochs wrap (`MonitorAssumption`
and the like state what the real widths satisfy): 7 ticks for a window of 2 with
restarts of the last 3 ticks told apart, 6 for a `max_age` of 1, with two writers and
calls of up to two ticks. In `product`, three items of the menu
of 22 make a chain, a cycle, a pool with a dependent and each of the refused
combinations; four tokens are a gated call after an ungated one, or a call in a group
that a cfg covers. Two pool members fill the socket budget. The mailbox of `Ota` has room for
one command (`OtaCap`; 4 in the code): that is enough for an Activate of the pool to
wait behind the stop the supervisor is at work on, for a restart to be ahead of that
stop, and for OTA to wait for room; the theorem is for every capacity.

Deadlock is checked in Handshake. Elsewhere calls, opens or items are bounded, a build
ends and a reset chip stays reset, so the configurations say `CHECK_DEADLOCK FALSE`;
`WavesEnd` and `NoLostWakeup` say what must not hang. In `control` no budget runs out,
so that `WavesEnd` shows that waves end by acks and gate events alone.

**Properties by condition.** `FreshActivation`, `DownReadsDown`, `AckOfThisInstance`
and `ResumeIsAsked` hold on one executor and fail on some pairs of executors. The
checked forms (`…Below`, `AckIsGenuine`) name exactly the pairs on which they can
fail, so they also say where the protocol is safe. In the later modules `…Below`, or an
exception stated in the comment of the property, does the same.

**Fairness.** An executor polls every task that was woken, so the steps of a side
that is not at an await are weakly fair, and the task's strongly (a supervisor that
runs on a higher tier always comes back to an await). `run()` polls both drivers at
each wake: each is strongly fair. Deadlines, calls, self-exits and withdrawn
readiness are never forced. A worker that was told to stop does see it
(`RunCancellable` polls shutdown whenever it is woken), a task that asserts
readiness gets to do so, and a reader told to stop drops its lease. Time passes
(`Tick`), and no pool member has to report a change of load. In the services a future
that was woken is polled, an executor comes back to a fence that was woken (strongly:
the old task may be polled in between), the control driver serves its mailbox, and a
call that was begun is finished; nobody has to begin one. Ota, Dog, Decl and Dataflow
state no fairness: their properties are safety.

## 4. Findings

* **handshake_fresh** – a `spawn:` task on another core (or a tier above the
  supervisor) makes its last stores between the supervisor's `reset` and its spawn:
  the next instance starts with a stale ack, and a later stop of it succeeds at once.
* **handshake_down** – a worker above the supervisor, or on another core, returns
  between its spawn and `set_running(true)`: the node reads as running for good.
* **bind_timeout** – a `restart` and a bound stop of the same node overlap; the bind
  driver collects the ack and restarts the node, and the restart's wave ends `run()`
  with `ShutdownTimeout` although the node acked.
* **bind_pause** – a Pause node parked at boot by an unready bound dep is resumed
  though it was never spawned.
* **pool_regrow** – a pool depends on a link that is bound to a radio. While the link
  is stopped the pool saturates and its growth is declined. The radio's `set_ready`
  wakes both drivers; the pool driver declines again, then the bind driver starts the
  link, which requests no scaling decision. The pool stays saturated, asleep.
* **slots_lost** – the shell takes a lent singleton, then finds the provider's slot
  empty: the activation ends through `mark_lost_resource` without restoring what it
  took, and the consumer cannot be started again.

`RegrowsOnItsOwn` fails in two more ways that no text of the repository addresses: a
spare member that returns by itself, and a spare that acks a stop whose `run_pools`
was dropped, both leave a saturated pool without a request. The passing run therefore
asks for announced demand only (`RequestServed`). Also, a link that exits by itself
while a decided start waits for its shell is not noticed any more, and the member is
started over it; `GrowsOverRunningDeps` excepts the dependencies that left in this way
(`gone`), and says of the others that neither a command nor a bind pass gets in between.

Two weaker observations are covered by the conditions above rather than by runs of
their own: a supervisor that preempts a Pause task inside `settle_dropped` leaves a
latched `dropped_wake` (`LateAck`), and one that preempts a shell between IDLE and
its look at it leaves a latched `resume_wake` (`ResumeIsAskedBelow`). With a bind
driver, a start in flight may still launch a node that was deactivated meanwhile
(accepted by `tests/collateral_race.rs`), and a bound stop may tell a dependency to
stop while a control wave still stops its dependent; `HeldStaysDown` and
`ServesThroughCleanup` are therefore checked in `control` only.

Smaller disagreements and edges met while modelling. The properties name them as
exceptions, or they lie outside what a property states:

* Monitor: "a still-stale node is re-reported by a later sweep anyway" (641) is not so
  when the report was dropped by a full mailbox: strikes stay at the window.
* Slots: `ResourceSlot::provide`'s doc names `ExecutorSlotEmpty` (1864); the gate
  faults `ResourceMissing`. A lent value restored after the provider's clear is taken
  again by the next activation (`NoLeftoverBelow`).
* Budget: `release` zeroes a grant without waking a holder parked on it; during a
  publication the grants may exceed the capacity for a moment.
* Backed: a restart between a retirement's request and its handling lets the request
  stop the next activation, under a reader.
* Stamped: a writer stores the stamp before the value (stamped.rs:42-45, 90), so
  a reader in between is handed the previous value, of any age, by "the inner signal if it
  was written within `max_age`" (73). A write between the reader's
  now and its load of the stamp reads as maximally old, so `read_fresh` gives `None` for
  a value just written; that errs on the safe side. "Ages are exact up to `u32::MAX`
  ticks" (23); past it an old value looks fresh.
* Report: a window that was opened 2^32 ticks ago or more looks open again, so a restart
  may be refused with a single one in the last window's length, against "the MAX+1th
  restart inside the window" (4640). As windows follow one another, a stretch as long
  as one may hold 2 MAX − 1 restarts before any is refused.
* Inject: a supervisor that starts the next instance inside an inject call lets the
  replay in flight ack for the new instance.
* Ota: "drain the http pool and wait for it to fully stop" (firmware/src/ota.rs:138) is
  done by `is_running` alone. A restart of NET ahead of the pool's stop in the mailbox
  has the workers down before that stop is handled, and brings them back after OTA took
  its socket; so does an Activate of the pool (or of OTA_CONFIRM before it ran) that a
  worker posted behind it. "else 2 workers + download = 3 would exceed the 2-socket
  budget" (139) is then what happens. "On failure it resets without arming the swap"
  (firmware/README.md:639) does not speak of a failure inside `mark_updated` (in the
  model that call succeeds or a crash comes before it); `ota_confirm` keeps its lease
  while the link is down, which holds NET's drain.
* Dog: a heartbeat period above 15 s makes a healthy heartbeat stale; HOG_MAX leaves
  the feeder no margin.
* Decl: two `#[cfg]`s that are both on and name one dep give a false "dependency
  cycle"; a `use … as` alias escapes the check of veto spellings; a `#[cfg]` on an
  `observed beat` entry is not looked at, so a `ready_on_write` node may never become
  ready; `in_degree` is a truncated u8; a pool `[]` is accepted, and a dep on it
  resolves to the slot of the next item, or past the last slot, which the sort reports
  as a cycle; a pool that lists one divisible budget twice gets one base for both
  entries, so `BitsAreDisjoint` excepts two entries of one pool; `shape::BEATS` is
  documented for `beat` too (3173), the macro sets it for `beat_timeout` only.
* Dataflow: the comma of a generic argument list ends a statement for the walker, and
  calls after it lose the statement's cfg.

## 5. Proofs

TLC shows a property on one graph, one set of declarations, one width. The theorems
state it for all of them, under the assumptions named in the modules. Each is proved
from an inductive invariant; what follows says which one, and why the property alone is
not enough.

### Handshake

For every set of declarations (`CfgsAssumption`: they are declarations at all), on every
combination of executors. The invariant `AllInv` has one part per idea.

* `TypeCorrect`, `NoOverlapHolds`. `Residency` adds that IDLE is set only on a shell past
  its last store, that a spawned shell is RESIDENT before the supervisor leaves the start
  that spawned it and never returns, which verb can be at which step, and that a settled
  shell is never found Busy.
* `AckIsGenuineHolds`, by `AckInv`, which ties the latch `dropped` to the flag DROPPED
  wherever no late ack is possible.
* `FreshActivationHolds`, by `ShapeInv` (what is never found in which kind of node) and
  `FreshInv` (what the reset cleared is still clear when the instance begins).
* `ResumeIsAskedHolds`, by `ParkInv`: a Pause node has acked exactly when it is parked, so
  what is resumed is parked, what is started is not, and the resume signal is latched only
  for an instance that waits for it.
* `DownReadsDownHolds`, by `UpInv`: RUNNING stands for an instance that is up or will be.
* `LifecycleStepsHold`: the initial state and every step of `Lifecycle` under the mapping,
  by `StandInv` (an instance that serves has not acked; the shutdown latch is set only
  while SHUTDOWN is). This is the safety part of `ImplementsLifecycle`.

### Supervisor

For every graph with a topological order (`GraphAssumption`), any number of calls.
`CollectDependents` and `CollectDeps` are folds over the order; `DependentsAreClosure` and
`DepsAreClosure` prove that one sweep computes a set that contains its seed, is closed
under the edges and is the least such set, and `BoundStoppingIs` does it for apply_bind.

* `SupervisorTypeCorrect`, by `Types`: the sets of a wave stay in the graph, its cursor in
  the order.
* `HoldReachesDependentsHolds`, `CollateralHasCauseHolds`. The two together (`HoldInv`) are
  inductive: that `activate` lifts no latch too many and leaves none behind rests on the
  closures being transitive and the graph acyclic (`NotBelowItself`).
* `RunningHasInstanceHolds`, by `ShellInv`, which relates the five flags of a node to its
  shell. Hypothesis `NoBoundPause`: no Pause node has a bound dep; run bind_pause shows that
  it is needed.
* `HeldStaysDownHolds`, by `UnheldInv`: what the control driver has decided to start is not
  held. Hypothesis `NoBoundTerminate`: a rebind of a Terminate node awaits its shell, and a
  deactivate in between does not stop it (TLC finds this in 22 states of `bind`).
* `ScanOnEachAckHolds`: a wave that waits has no unseen ack. A wave comes to wait by a scan
  that found nothing, only a task acks, an ack raises STOP_EVT, and only a waiting wave takes
  the signal. This holds on every graph under `[]OneWaits`, no two stop waves waiting at once
  for the one signal: with bound deps the control wave and apply_bind's can both wait, one
  takes the other's wake, and TLC refutes the property on the graph of `bind`. Without bound
  deps the bind driver never waits (`UnboundOneWaits`), so `ScanOnEachAckUnbound` needs no
  such condition.
* `RestartBringsBackHolds`, by `RestartInv`: what a restart has resolved is down in its first
  half and up in its second, next to a bind driver that may stop, start or time out other
  nodes at any await. It needs only the part `BackInv` of `WaveInv`, and that no step of the
  bind driver starts or stops a Pause node (`SparesPause`, `BindSteady`); a Terminate node it
  stops is left `BOUND_STOPPED`, which the property names. Hypothesis `NoBoundPause`.
* `ServesThroughCleanupHolds`, `TimeoutIsGenuineHolds`, by `WaveInv`: what a wave waits for
  has been told; the dependents of what it has left are left too, or down. Hypothesis
  `Unbound`: no bound deps, so the bind driver stays idle. It is needed: with bound deps TLC
  refutes both, the first when apply_bind stops a node beneath an unbound dependent that a
  verb is taking down, the second in run bind_timeout.

### Pool

On top of all that, for every pool bound and cooldown (`PoolAssumption`):
`PoolTypeCorrect`, `GrowsOverRunningDepsHolds`, `ShrinksLazilyHolds`, by `PoolInv`. Its part
`GrowInv` says that the dependencies of what is being started have not been taken down since
the decision; it needs that no step of the supervisor but a task's own exit takes a running
node down while the control driver is the pool's (`NextLeaves`). `ClockInv` says that the
deadline is never nearer than one cooldown after the last start or stop.

### Services

* `PassFreesTaskHolds` (`FenceInv`): a pass counted since the snapshot began after the ack.
  For every modulus of the counter above 1 (`PassModAssumption`).
* `SlotsAreOwnedHolds` (`SlotsInv`): what the shell holds at each step,
  and that a value nobody restores is the serving provider's. Any number of activations.
* `AckExactlyOnceHolds` (`InjInv`): an ack past its pending bit is
  delivered, pending or in the injector's hands; acks delivered and owed are counted
  against acks made.
* `RetireIsRaceFreeHolds` (`BackedInv`): openers counts the readers inside, and a retirement
  is asked for once, after a look that found none. Any finite set of readers.
* `BudgetSettledHolds` (`BudgetInv`): as long as the allocator owes no look, what it has
  read is what there is, and what it has published stands. Any number of slots; that the
  division fits the capacity is a sum over them (`TargetsFit`). `GrantIsSeenHolds`.
* `DrainedIsFreeHolds`, `WordIsExactHolds`, whose conjunction with the type invariant is
  inductive. Fewer readers than the weight of the top bit (`LeasedAssumption`; 2^31).
* `RestartsInBudgetHolds` (`AcceptedInv`, on `WindowInv`): the i-th last restart was accepted
  after the window opened when i is no more than the count, and before it otherwise, so at
  most MAX − 1 of an older window are as young as the window's length; any MAX and window.
* `FreshIsRecentHolds` (`StampInv`): the stamp's truncated age is that of a now some writer
  took, the value's is no more unless a writer is between the two, and a reader that found
  the stamp fresh saw one no older than `max_age` at its own now. Any set of writers.
* `MonitorIsHonestHolds` (`MonInv`), `FlipIsSeenHolds` (inductive as it stands). `MonInv`,
  like `WindowInv` and `StampInv`, relates a truncated age to the true one, up to the wrap;
  `SweepsInTime` bounds the silence by the stamp, the strikes and the sleep that is left. Any width of ticks
  that leaves the budget room (`ReportAssumption`, `VetoAssumption`, `MonitorAssumption`).

The last two are of `ServicesSpec`, the nine services side by side: a turn of one is a
stutter of the others (`EachStep`), so what is invariant of a service is invariant there.

* `ServicesTypeCorrect`: opener counts stay below the readers, queues below their
  capacity, strikes and restarts below their limits. It needs the invariants above.
* `WakesAreOwedHolds`. The case that is not local is the fence (`OwedInv`): the supervisor
  parks only where the count has not moved since its snapshot, and then a request or a
  poll is still due. At a snapshot up to two passes may be due for earlier requests, and
  the new request adds one, so up to three passes are counted while it waits. Hypothesis
  `PassMod > 3`: with fewer the counter could come around to the snapshot, the wait would
  take passes for none and sleep until its deadline. The code's counter has 16 bits. A
  sleeping task of `Inject` has left its waker, or is kept from listening by its fault
  (`AsleepFor`); the reader whose drop empties the count of a `Backed` signal owes the
  signal (`LeavingIsOwed`), and so does the one that drops the last lease (`DropIsOwed`).

### Firmware and macro

* `UpdateIsSafeHolds` (`FlashInv`): the partition that boots is whole, and so is the one an
  armed or unconfirmed swap would boot; which image is proven at which step.
  `SocketsInBudgetHolds` (`SocketInv`), for every HTTP pool that is not empty and every
  capacity of the mailbox: while OTA has its socket the pool has nobody running, is disabled,
  and nothing in the mailbox enables it (`PoolIsOut`); no worker is left to post such a
  command, `ota_confirm` only asks for NET, and what a start wave has yet to start is not
  disabled (`StartsAsChosen`).
* `BiteIsEarnedHolds` (`DogInv`), for all periods with FeedEvery + HogMax <= WdTimeout
  (`DogAssumption`, which the firmware's constants meet with equality).
* `IndexIsOwnHolds` (`DataInv`): what the walker believes governs a call does, at every
  open group (`ScopeInv`); a table names an entry once per build, and keeps what it named;
  so every call emitted is named by its fn's table and by the bundle's. `KeptHolds` says
  where a loop that keeps some entries of a list puts each of them.
* `SortIsRightHolds`, `AcceptedIsSoundHolds` (`DeclInv`), for every menu of items
  (`DeclAssumption`: they are syntax at all), every declaration and every build. What the
  parser accepts keeps the shape the later passes rely on through `apply_default_executor`
  (`Parsed`). The slots of the items are disjoint ranges that cover `Slots`
  (`SlotsAreShared`), so every slot has one item and a table has one row for each slot
  (`TableIs`). In the sort (`SortAt`) no slot is twice among those produced and queued, each
  of them has its row produced before it, and the in-degree of each other slot is the number
  of entries of its row not yet produced; so a slot that is left over at the end has an entry
  that is left over, or has one twice. Claims and veto bits are sums of member counts over
  the entries before, and so lie apart (`ClaimsAreApart`, `VetoesAreApart`).
  Hypothesis `MenuFits`: an item has fewer deps than a u8 counts, and no pool is empty; both
  are edges named in section 4, and the menu of `product` satisfies it.

### Induction over data

The library's induction theorems take the property as an operator, which the provers here
cannot instantiate. `Induction` states them for a property given as a *set*:
`LeastNat`, `NatSetInduction`, `SubsetInduction`. The fold sweeps of `SupervisorProofs`, the
sums of `SharingProofs` and the layouts, slot ranges and sums of `ProductProofs` are proved
with these.

### Only model-checked

All liveness: `StartIsTaken`, `AckIsSeen`, `WavesEnd`, `BoundStopLifts`, `RequestServed`,
`SurplusDrains`, the liveness of `NoLostWakeup` (its safety part is `WakesAreOwedHolds`)
and the fairness of `Lifecycle`: fairness and ENABLED are out of the prover's reach. Every
invariant a run checks is proved, under the hypotheses named above.

## 6. Not modelled

* The command line tools (`supervisor-tools`) and `supervisor-observe`: sequential
  programs from text to text, or reads of tables. Their one statement about the
  runtime, the lifecycle diagram, is `Lifecycle`.
* Trace hooks, the graph registry, logging shims: nothing in the supervisor reads them.
* In the macro: tokens, spans and wording, the marker assertions
  (supervisor-macros/src/lib.rs 239-289) and `scan_dataflow`, which serves the tools.
* In the firmware: benchmarks, boot flag, heap accounting, JSON, the ring of the
  lifecycle sink (http.rs 400-496) and the cross-core pend relay (main.rs 54-112), an
  interrupt handler over hardware registers.
* In the supervisor: DETACHED nodes in waves, `enabled_if`, several pools in one graph,
  the gated adapters of `data_deps`.
* The waves together with the services: a start of `Supervisor` does not wait for the
  gates of `Slots` and `Fence`; each side has the other as single steps.

## 7. Plan

1. *Done:* Handshake, Supervisor, Pool, Leased, with their runs and first proofs.
2. *Done:* the services, the macro, the firmware; Lifecycle and the refinement.
3. *Done:* proofs of the safety invariants and action properties of all modules, and of the
   safety part of the refinement.
4. *Done:* Supervisor with bound dependencies: `RestartBringsBack` and `ScanOnEachAck` hold
   there under the conditions of section 5; `ServesThroughCleanup` does not, and stays a
   property of unbound graphs.
5. *Done:* the safety part of `NoLostWakeup`, and the services side by side.
