# doeff: verification

TLA+ models of doeff, an algebraic-effects runtime for Python: the fiber VM
(Rust), the cooperative scheduler that runs on it as an effect handler (Python),
the handlers over the scheduler's effects (virtual time, events, lazy bindings),
and the two services built with it: the host of agent sessions and the conductor
of workflows. TLC checks the models on small instances; TLAPS proves the
theorems of the scheduler and of `Futures` (`SchedulerProofs`,
`SchedulerTheorems`), the fiber VM (`FiberVMProofs`), the lazy bindings
(`LazyAskProofs`), virtual time and events (`SimEventsProofs`), the session host
and its lease (`SessionHostProofs`), the conductor (`ConductorProofs`) and the
journal of its agents (`AgentReplayProofs`) for every value of the constants.

Paths below are relative to `src/packages/` unless they start with `src/`.

## 1. Inventory

| Component | State | Operations | Hard parts | What makes it correct | Module |
|---|---|---|---|---|---|
| **Scheduler** `doeff-core-effects/doeff_core_effects/scheduler.py` | entries of tasks and promises, ready heap with priorities, waiters per waitable, semaphores, thread-safe external queue, placeholders | 13 effects (`Spawn`, `Wait`, `Gather`, `Race`, `Cancel`, promises, semaphores), `pick_next`, the sweep, close-out; `ExternalPromise.complete/fail` from any thread | one-shot continuations spread over heap, waiters, joins and semaphore queues; foreign threads; cancellation of parked and queued tasks; shield of external waits against idle daemons; deadlock against external wait | no continuation lost or resumed twice, no lost wakeup, permits conserved, never blocked over work or for ever, the woken before the completer | `Scheduler`, `SchedulerOrder`, `Futures` |
| **Fiber arena, continuations** `doeff-vm-core/src/{arena,continuation,segment}.rs` | slots, free list, reclaim queue, detached chains, PyK objects | `alloc`, `free`, `clear`, `detach_chain`, `attach_chain`, `append`, `Drop` | slots reserved for continuations that Python may drop at any time, on any thread, in a later run | every slot in exactly one place (invariants I1, I5, I6 of `src/docs/crystallization/invariants.md`) | `FiberArena` |
| **VM dispatch and step loop** `doeff-vm-core/src/vm/{dispatch,step}.rs`, `doeff-vm/src/pyvm.rs` | current fiber, pending signal, the dispatch's handle on k | `step`: send, raise, eval of each instruction; begin and end of a run | handlers that raise before or after they consumed k, re-performs (`Pass`) across nested handlers and observers | the live fibers are the stack of the running program (I2, I3), one-shot k | `FiberVM` |
| VM scoped variables `doeff-vm-core/src/var_store.rs` | cells per owner segment | alloc, read, write | owner freed before the cell | documented as dead equipment (I8) | not modelled |
| VM Python bindings `doeff-vm/src` | none of their own | conversion of values, classification of yielded instructions | | | not modelled |
| **Simulated time** `doeff-time/src/doeff_time` | clock, time queue, `_driver_running` | `Delay`, `WaitUntil`, `SetTime`, `ScheduleAt`, the clock driver | the driver ends while a delay registers; external completions against the clock | every delay ends, time never passes a pending entry | `SimTime` |
| **In-memory events** `doeff-events/.../memory.py` | listeners per event type | `WaitForEvent`, `Publish` | a publisher ahead of its listeners | no event lost between two waits of a listener, none delivered twice | `SimEvents` |
| **Core handlers, memo, cache** `doeff-core-effects/doeff_core_effects` | caches, per-key semaphores, `eval_stack` | `Ask` of lazy programs, memoized effects | two tasks that ask for one key; `eval_stack` shared by interleaved evaluations | one evaluation per key, cached under its own dependencies | `LazyAsk` (in part) |
| **Agent session host** `doeff-agents/.../sessionhost` | session rows, store lease, results | launch, monitor cycle, report and await of results, cancel, cleanup | lease takeover, late results, races of monitor and reports, restart | one store writer, first result wins, terminal rows stay | `SessionHost`, `HostLease` (in part) |
| **Conductor** `doeff-conductor` | journal per run, generations | run or replay a task, gate answers | crash between an effect and its journal entry, changed order on replay | what was journalled is not run again; replay is a prefix of the run | `Conductor`, `AgentReplay` (in part) |
| doeff core library `src/doeff` | values | construction, tracebacks, CLI | | pure | not modelled |
| Flow, agentic, traverse | trace files | append, traversal | | | not modelled |
| Service adapters (openai, gemini, docker, git, secret manager) | none | calls of services | | lies in the service | not modelled |
| hy front end, linter, indexer, effect analyzer | none | functions over source text | | | not modelled |

How they interact. The VM runs one program: it performs effects, detaches the
fibers up to the nearest handler as a continuation k and calls the handler. The
scheduler is such a handler: it stores every k it gets in its own tables and
resumes at most one at a time, so all tasks share one VM and interleave only at
effects. The only true concurrency are foreign threads that put completions on
the scheduler's external queue, and Python threads in which the last reference
to a continuation dies (the arena's reclaim queue). Time, events and lazy-ask
are handlers over the scheduler's effects. The session host is a process with
several threads over one SQLite store; clients find it by a socket file. A
conductor run is a process with a thread per agent over journal files, which the
overseer's commands read and write from processes of their own.

The hazards of this code, each at its line, are in `PROJECT.json`, with the
properties that would catch them going wrong.

## 2. Plan

Done, most important behaviour first:

1. `Scheduler`, `SchedulerOrder`: every effect and the dispatch loop.
2. `FiberArena`, `FiberVM`, `FiberVMProofs`: the arena and the step machine
   composed over it, with the single-location law and the ways through stacks
   and continuations proved.
3. `Futures`: what the scheduler promises about waiting, as an abstract
   specification with its theorem, and `Scheduler` checked to implement it.
4. `SimTime`, composed by `SimEvents` with the event handler; `LazyAsk`.
5. `SessionHost` and `HostLease`; `AgentReplay` and `Conductor`.
6. The scheduler proved: `SchedulerProofs` (what its operators on queues do, and
   the inductive invariant), `SchedulerTheorems` (the properties, and that it
   implements `Futures`). The lease and the rows of the session host proved
   (`SessionHostProofs`), the conductor proved (`ConductorProofs`).
7. The lazy bindings proved (`LazyAskProofs`), virtual time and events
   (`SimEventsProofs`) and the journal of agents (`AgentReplayProofs`); in
   `SchedulerTheorems` the permits, the shield, the order of the woken and the
   absence of false deadlocks.

Left, in the order of their worth: resume and fork of conversations in the
session host; two conductor runs that overlap; programs of the event handler
that are cancelled by a handler above it.

## 3. Scheduler

`Scheduler.tla` models `scheduler.py`. Exactly one program point is active
(`pc`): user code of the owner `cur`, the handler of its effect, or a point of
`pick_next`. User code is open: an owner performs any effect of `Ops` on any
waitable it may know (`handles`, the objects that keep an entry alive).

- State: `status`, `meta` and `handles` are the `tasks` and `promises` tables;
  `waiters` and `join` the registrations and the `Gather`/`Race` states; `ready`
  the heap, a sequence per priority (seq order is insertion order), `held` how
  many entries `pick_next` has popped and holds out of the heap for this pass
  (deferred placeholders, shielded daemons); `permits`, `semWaiters`, `holders`
  the semaphores; `extq` the external queue.
- Actions: one per effect, each with the drain of `extq` before it (`DrainOne`)
  and its registrations, wakes and queueing; `pick_next` as one action per kind
  of popped entry (`Dispatch`, `HoldDaemon`, `DropDead`, `DropDeadGrant`,
  `DeferPlaceholder`, `BlockOnPlaceholder`, `NothingReady`), the two blocking
  reads (`Unblock`), the ends of tasks and of the root (`OwnerEnds`), and the
  environment (`Put` by foreign threads, `DropHandle` for the garbage collector).
- The sweep runs at every 1024th allocation in the code; here any allocation may
  sweep. Results and errors are abstracted to completed, failed, cancelled.
- Deadlock is not checked by TLC in these runs because a run really ends
  (`Ended`); instead the properties say which ends are legitimate.

`SchedulerOrder.tla` adds one history variable, `owed`: whom a completer woke and
has not seen run. `Futures.tla` is the scheduler without heap, registrations,
priorities and permits: cells that are written once, and owners that wait for
one of a set of cells or for all of them. `ImplementsFutures` maps `status` to
the cells and `waiters` with `join` to the waits (an owner waits while it is
registered or its join is open), so that a `Gather` which fires too early, too
late or never, a registration that outlives its join, a swept entry that is
still awaited and a rewritten outcome are all steps `Futures` does not have.

Disagreements of the code with its documents that show up here, and that no run
states: (1) `scheduler.py:1370-1371` promises that the woken always run before
the completer, but a woken daemon is held behind a deferred external placeholder
and the completer overtakes it; `WokenRunFirst` therefore excuses daemons where
there are external promises. It is checked in an instance without, and proved
for all. (2) A task cancelled in a semaphore queue is
dropped (`scheduler.py:1326`), never resumed with `TaskCancelledError` as
`src/docs/21-semaphore-effects.md:158` says. (3) A permit held by a task that has
ended makes the cycle detector give up (`scheduler.py:743`), so an unrelated
external wait masks a semaphore deadlock, against the comment at 756. (4)
`return_inflight_permit` (1473) banks a permit without the check of
`ReleaseSemaphore`. (5) `root_close_out` (677) does not look at semaphore queues,
so `CloseOutComplete` is checked for programs without semaphores.

## 4. Fiber arena and VM

`FiberArena.tla` models `arena.rs` and the chains of `continuation.rs`. A slot is
absent (past the end), live, or vacant; a vacant slot is on the free list, in
the reclaim queue, or reserved for a detached chain. `free` and `queue` count
how often an index is entered, since a double entry is what goes wrong; the
order of the free list is left out. `Alloc` drains the reclaim queue first;
`attach_chain` is modelled with its partial failure (`Placed`: the fibers before
the first refused slot are in the arena, the others lost).

`FiberVM.tla` is the step machine over it: `current` is `current_segment`, `pc`
the pending signal, `handle` the dispatch-local PyK handle. The program is open:
at every instruction (`pc = "eval"`) it may perform any operation on any
continuation it can still name, taken ones included. `DropKont` is the death of
a PyK on any thread between any two steps. Values are left out; of a frame only
the handle on k remains, which decides whether an exception is recovered at the
perform site (`Recover`).

Left out: scoped variables (dead equipment, I8), the legacy frames `MapReturn`,
`FlatMap*`, `LexicalScope` and the `EvalReturn` kinds other than `ExpandReturn`
(no Python program creates them), Rust-side handlers (tests only), execution
contexts, and `Pass` of a continuation of an earlier run. Handler construction
in two steps (`Expand(Apply(..))`, the `ExpandReturn` frame) is one step here:
the frame keeps the same handle and both its exits do what `HandlerStreams`,
`HandlerRaises` and `HandlerFails` do. `reparent_children` has no caller.

Two limits of the code are visible here. A continuation kept across runs is not
refused: the arena checks that its slots are vacant, not for whom they are
reserved. A resumed stranger then sits in a slot that a chain of this run owns,
and when that chain is dropped its index goes to the free list while the slot is
live. `EscapedK = FALSE` ("programs do not resume continuations of an earlier
run", which `arena.rs:44-46` asks for) is therefore an assumption of the run and
of three theorems. The same holds for a PyK carried to another VM object. And a
`Pass` of a consumed k (`step.rs:795`) cuts the fibers off before it notices; the
run fails anyway, with `current_segment` on an empty slot, against I2 of
`src/docs/crystallization/invariants.md:31`.

## 5. Virtual time and events

`SimTime.tla` models `sim_time_handler` (`doeff-time/.../sim_time.py`,
`time_queue.py`) over what its tasks see of the scheduler: a queue per priority,
one turn at a time, `Spawn`, `Cancel`, `Wait`, and `CompletePromise` with its
demotion of the completer. `clock`, `queue`, `driving` are `_clock`,
`_time_queue` and `_driver_running`. `WaitForTime` registers an entry and makes
sure of a driver, `Arm` is the task's next turn, in which it waits; `Advance` is
one round of the driver, `DriverEnds` its exit when the queue is empty. What
`ScheduleAt` schedules is a task of its own, `deferred` until its first turn.

`SimEvents.tla` composes it with `memory_event_handler`: `listeners` is the
registry by type, `WaitForEvent` enters one promise under every type asked for,
`Publish` takes out all matching promises and `Deliver` completes one per turn.
`plain` and `unheard` are history: the publishers whose last event matched no
IDLE listener, and whom each publisher woke that has not had a turn since.

Left out: `Tell` and `GetTime`, which change no state of these handlers, and
values of events. Programs use at most `MaxOps` effects.

## 6. Lazy bindings

`LazyAsk.tla` models `lazy_ask` (`doeff-core-effects/.../handlers.py`): `scopes`
are the nested `Local`s with their bindings and caches (scope 1 is the base,
whose cache is `shared`), `holder` and `queue` the semaphore per key, `evalStack`
the one list of dependency sets all tasks push to and pop from. A lazy binding
is a program that asks for a list of keys; `frames[t]` is the stack of
evaluations a task is in. `Ask` is the effect with its first look at the caches;
`Granted` the second look with the permit; `Succeed` and `Fail` the end of an
evaluation. A value is the set of (key, binding) pairs it was computed from, so
that `AskSound` can say on what an answer rests.

`mixed` is history: two tasks had evaluations open together. In that case the
sets on `eval_stack` are popped by whoever ends first, and a value is stored
under another program's dependencies; `AskSound` is stated for the rest.

`LazyAsk_override` is the one run that finds a violation.
`src/docs/03-basic-effects.md:149` says that a `Local` which overrides a key
invalidates what depends on it. The dependencies of a cached value are the keys
its program asked for, without its own key: a `Local` that binds the key itself
to another program is answered from the cache (`handlers.py:566`).

Also seen, without a run: a task cancelled in the middle of an evaluation keeps
the permit for ever (`AskersServed` names those waiters as its exception); a
program whose value is `None` is evaluated by every `Ask`, since `None` means
absent; lazy programs that ask for one another's keys block on two semaphores.

## 7. Session host

`SessionHost.tla` models the rows of the store and the threads that write them
(`doeff-agents/.../sessionhost/`: `launch.hy`, `adopt.hy`, `policy.hy`,
`host.hy`, `store.hy`). Every step is one operation of the store actor or of
tmux, because a thread reads a row in one step and writes its copy back later.

- State: `rows`; `seat`, the tmux session behind a launch; `launch`, how far the
  pipeline of a session is; `mon`, the monitor with the copies it took; `op`, an
  operator's RPC with its copy; `late`, the clean-up after a late result.
- Actions: `Admit` .. `HandOver` and the failure path `NotReady`, `KillFailed`,
  `StampFailed` of the pipeline; `ListActive`, `Visit` (exempt, booting, gone,
  observed, asked for its result, its result read), `WriteBack` and the sweep
  (`ListPending` .. `SweepStamp`) of the monitor; `BeginOp`, `OpKills`,
  `OpWrites`; `Report` with `LateKill` and `LateMark`; and the environment:
  agents that exit, seats that die, seats users make, `Restart`.
- The store's own guards are in `Refused` and `Merged`: an upsert never brings
  an ended session back and never takes a result away.
- Time, screens and the judge are choices; blocked rows count as running.

`HostLease.tla` models who runs the host: the stages of a process on its way
through `bind-listener` and `main`, each a system call or transaction of its own,
the lease in the store (fresh until its TTL has passed, one bit), SIGTERM, crash,
a supervisor, and `ensure_agentd` of the clients (`agentd_client.py`).

Seen, without a run: `max_running` is checked by a read and used several awaits
later (`launch.hy:459`); a crash between `tmux new-session` and the insertion of
the row leaves a seat no sweep visits (`launch.hy:600`); the sweep kills by name,
so that a row under a name used again loses its seat; a capture RPC that
writes back an older copy rolls the count of solicitations back, so that
`SolicitationsBounded` allows, beside the limit and one more per restart, the
limit once more per RPC (the proof found that one more per RPC is not enough
when the limit is above 1); two unsupervised starters may unlink each other's socket
(`host.hy:1283-1300`): the lease refuses one of them, but the path may be gone,
which is why `ServerReachable` and `Recovers` are stated for a supervised store;
and `LazyAgentdClient` keeps the first client it got.

## 8. Conductor

`AgentReplay.tla` models the journal of agents and the replay session
(`doeff-conductor/.../journal.py`, behind `JournaledAgentHandler`): one thread
per agent of a parallel form, an action per step between two points where
another thread can run. `journal` is the file, `sess` the session objects in
memory, `my`, `idx`, `cursor` what a thread holds, `run` the process, which may
be killed (`Exit`) and started again. `Redirect` edits a prompt in between. A
success is replayed (`ReplayEntry`) when its index and key match, otherwise a
new generation begins with a copy of the prefix (`EnterGeneration`, `CopyEntry`,
one entry at a time, the process may die in between).

The key is the node, the version of its prompt and the inputs it interpolates;
`agent_cache_key` digests prompt, schema and identity, which differ between two
nodes of the workflows here: prompts are assumed to be distinct.

`Conductor.tla` models a run and its overseer (`workflow_runtime.py`, `api.py`,
`overseer.py`): `runner` are the processes of `run_workflow` and
`resume_workflow`, `verb` the overseer's command under way, and they share
`meta`, `open` (run-state.json), `answers` and the journaled artifacts `art`. An
action is what a process does between two accesses of those files, and any may
be killed in between. A workflow is a sequence of forms: parallel with a quorum,
a loop, a merge, each with its gates, under checkpoints or not; as the DSL
demands (`dsl.py:1069-1075`), a quorum is between one and the number of
branches, and a workflow has a form. How artifacts
are journaled is the matter of `AgentReplay`; here a journaled one is served.

Seen, without a run. Siblings take their index on arrival and append on
completion: a kill in between leaves a gap, and the next load raises, where
`doeff-conductor/docs/adr-0001-workflow-dsl-and-attention-tiers.md:591` has a
killed run resume; `SequentialLoads` and `ResumeReuses` are stated for workflows
without siblings, `ReplaySound` for all. A run that parks looks for a stop
before it records its gates, so that a stop in between leaves gates of an aborted
run in the queue (`api.py:195`; `tests/test_api.py:377` expects none, of a run
that is not at work). A merge gate offers `retry-merge`
(`workflow_runtime.py:1098`), which `answer_gate` (`api.py:370`) refuses after it
has journaled the answer and closed the gate. Nothing stops a second resume
beside a running one, and then the older may overwrite the newer's DONE:
`Overlapping = FALSE` in the run.

## 9. Runs

| Run | Instance | Shows |
|---|---|---|
| `Scheduler_joins` | root, 2 tasks, 1 promise; wait, gather, race, cancel, drop, raise; idle and high priority; up to 2 keys, a key may be given twice | `OneShot`, `SweptUnused`, `CloseOutComplete`, `WokenRunFirst`, and `ImplementsFutures` |
| `Scheduler_external` | root, 2 idle tasks (daemon or not), 1 external promise; wait, race, cancel, drop, raise; one completion or failure from a foreign thread | `NeverBlocksOverWork`, `NoSilentHang`, `ShieldHolds` |
| `Scheduler_semaphores` | root, 2 tasks, 1 semaphore of 1 or 2 permits, 1 external promise, gather, cancel | `OneShot`, `PermitsAccounted`, `NoIdlePermit` |
| `Scheduler_ends` | root, 2 idle tasks, 1 promise, 1 external promise with two completions, acyclic waits, fairness | `NoFalseDeadlock`, `EveryRunEnds`, `OutcomeStable` |
| `FiberVM` | 5 slots, 3 continuations, prompts and observers, 2 frames a fiber, runs that follow one another; deadlock is checked | `TypeOK`, `SingleLocation`, `PathsIntact`, `FreeListClean` |
| `SimEvents` | root and 2 tasks, idle or normal, times 0 and 1, one event, listeners for one or two types, 6 effects | `ClockServed`, `NoneLeftBehind`, `OnTime`, `DeliveryFirst` |
| `LazyAsk` | 2 tasks, 2 lazy keys over 2 plain ones, nested `Local`s, 3 asks, a failure, a cancellation, fairness | `AskSound`, `OneEvaluation`, `AskersServed` |
| `LazyAsk_override` | a `Local` that binds a lazy key to another program | **violated** `LocalInvalidates` |
| `SessionHost` | a launched session that owes a result and an adopted one of the same tmux name, one RPC, one restart, fairness; deadlock is checked | `RowsTruthful`, `RowsOnlyAdvance`, `ExemptSpared`, `SeatsEnd`, `TerminalSwept` |
| `HostLease` | 3 processes, 1 client, with and without a supervisor, a kill, a SIGTERM, a stall, fairness | `SingleServer`, `ServerReachable`, `NotStolen`, `Recovers` |
| `AgentReplay` | two agents in sequence, three in sequence, two side by side; up to 3 processes, an edit per prompt | `SequentialLoads`, `ReplaySound`, `ResumeReuses` |
| `Conductor` | a join, a quorum, a loop of two rounds and an agent with a merge, the last two under checkpoints; 2 processes, 1 or 2 verbs | `DecisionsHold`, `TerminalSticks`, `NoGateLost` |

A conjunction keeps what belongs together in one property: `PermitsAccounted` is
`TypeOK`, `InFlightHeld` and `PermitsConserved`; `PathsIntact` is `StackIsPath`
and `ChainsIntact`; `ClockServed` is `TypeOK`, `DriverServes` and
`TimeIsReached`; `RowsTruthful` is `TypeOK`, `DoneMeansReported`,
`CleanedMeansGone` and `SolicitationsBounded`; `DecisionsHold` is `TypeOK`,
`DoneMeansComplete` and `DecisionReplayed`. The type invariants of `LazyAsk` and
`AgentReplay` are part of `AskSound` and `SequentialLoads`.

Bounds. Scheduler: three owners are enough for every pairwise race the loop
distinguishes: one that runs, one that is parked or queued, one that is
cancelled or travels. `MaxKeys = 2` gives joins over two keys and a key given
twice, where the counts and the first and last registration differ. `MaxPuts = 1`
settles every external promise once; `Scheduler_ends` has two, so that two
foreign threads complete and fail one promise. The tasks of `Scheduler_external`
are idle, below the shield, with the root above it; other priorities meet in the
other runs. `AcyclicWait` (all wait for external promises, the root for tasks)
keeps three runs small; waits among tasks are explored in `Scheduler_joins`.
`Bracketed` programs release only permits they hold, a statement about programs
that `PermitsAccounted` needs. Ids are symmetric in three runs: no handler
orders or names them; `Scheduler_ends` has liveness and no symmetry.

FiberVM: five slots hold a root and two handlers with their bodies: a chain of
two prompts, a Pass across the inner one, and a second capture above it. Three
continuations let one be passed on while another waits. A handler is installed
only when there is room for its body too (`MatchWith`), as memory in the code is
not bounded. `AnyRank` lets the arena grow by any slot, so that slots are
interchangeable and TLC may use symmetry. `SmallOnceStale` keeps the instance at
three slots and two continuations once one has outlived its run.

SimEvents: two times and six effects let one task sleep, one publish and one
listen, register again and sleep, with a driver that leaves in between. LazyAsk:
one lazy key is built from another and from a plain one, so that an override
deep inside and a nested evaluation both occur. SessionHost: two sessions of one
name, because the sweep and the kills go by name. HostLease: a host that serves,
a starter that probed it too early, and a third. AgentReplay and Conductor: the
smallest workflows in which position, edit, generation, quorum, loop and
checkpoint occur; three processes give a resume of a resume.

Fairness. `Scheduler_ends`: `WF(SchedulerStep)`, the dispatch loop is a loop in
one thread; `WF(OwnerEnds)`, `WF(PassEffect)`, a program that has control ends or
suspends sooner or later; `WF(Put)`, foreign threads settle what was created.
No fairness is assumed of which effect a program chooses. `LazyAsk`: `WF(Busy)`,
a task that was granted a permit or is in an evaluation goes on, which is the
scheduler's `EveryRunEnds` in small; nothing is assumed of what programs ask.
`SessionHost`: `WF` of the monitor, of the RPC, of every pipeline and late
clean-up, all of them loops or threads of the host; `SF(BootOverdue)`, since the
budget of a row that stays booting has run out at some visit and stays so, while
the action is enabled during visits only. `HostLease`: `WF` of each process, of
the supervisor's restart and of the TTL. The other runs check safety only.

Deadlock is not checked where a run of the code may end: the scheduler's, time
and events, asks, workflows, and clients that have their host.

## 10. Proofs

### Scheduler

For every set of tasks, promises, external promises and semaphores, finite or
not, any priorities, programs, numbers of keys and of completions, from the
assumptions `DistinctIds` and `Parameters` of `Scheduler.tla`:

- `OneShotHolds`: `Spec => []OneShot`;
- `KeepsItsPromise`: `Spec => ImplementsFutures`, and with `WakeupsKept` its
  consequence `NoWakeupLost`;
- `SweptStayUnused`: `Spec => []SweptUnused`; `OutcomesStable`: `Spec => OutcomeStable`;
- `PermitsServe`: `Spec => []NoIdlePermit`;
- `BlocksOnlyIdle`: `Spec => []NeverBlocksOverWork`; `BlocksForAnAnswer`:
  `Spec => []NoSilentHang`;
- `PermitsKept`: `Spec => []PermitsAccounted`; `ShieldStands`: `Spec => ShieldHolds`;
- `PublisherWaits`: `OrderSpec => []WokenRunFirst`;
- `CloseOutTells`: `Spec => []CloseOutComplete` when there are no semaphores,
  which is what the property is stated for;
- `AcyclicWaitsRun`: `Spec => []NoFalseDeadlock` when there are no semaphores and
  programs wait (`MayWait`) only for external promises and for tasks of a rank
  lower than their own. `AcyclicWait` of the runs is such a relation, with rank 1
  for the root and 0 for the tasks;
- `TypesCorrect`: `Spec => []TypeOK`.

The argument has three layers.

The lemmas, first in `SchedulerProofs`: a continuation is stored in sequences, so the lemmas say
which *places* (key and index) of a family of sequences hold an element of a set
(`Found`), and how appending, removing, filtering (`Subsequence`) and handing on
a permit change them, up to a bijection. `OneShot` counts places with
`Cardinality`, and induction over the size of a set is out of the prover's
reach; a bijection to a set that is empty or has one element is within it. The
largest of them, `WakePlaces`, says of a wake what happens to the continuation
of every owner: a `Wait` is queued; a `Race`, a failing `Gather` or the last key
of a `Gather` is queued once and all its registrations go; any other `Gather`
loses the registrations on this key and its count goes down by their number.

The invariant: `OneShot` is not inductive. The one that is, is
`IInv == Frame /\ Placed /\ JoinCounts /\ pc # "none"`:

- `Frame`: types; the heap holds placeholders at their priority only and permits
  for semaphores only (`HeapInOrder`); what `pick_next` holds out of the heap it
  holds for live work, and it blocks with a placeholder at the head
  (`HeldForWork`);
- `Placed`: while the run goes on, every owner is in exactly one of five places
  (running, heap, wait, join, semaphore queue) or nowhere, one place of that kind
  holds it (many registrations, of one join), and the place fits its status;
- `JoinCounts`: the count of an open `Gather` is the number of its registrations,
  which is what lets its last key fire it, and no owner has both a `Gather` and
  a `Race`.

`pc # "none"` (the loop never falls through to `Pure(None)`) follows from
`Placed`: the root is somewhere, so with an empty heap it is parked, and
`pick_next` sees it. Each action has a lemma for `Frame` and one for the rest.
This invariant and those below were checked by TLC, on the instances of the
runs and on smaller ones with every effect, before they were proved.

The properties, `SchedulerTheorems`: every step has one of four shapes (`Steps`): nothing is
registered and at most a status moves (`Moved`), a waitable is decided and its
waiters woken (`Settled`), the running owner is parked on one waitable or on many
(`ParkedOnOne`, `ParkedOnMany`). The remaining invariants are kept by these
shapes, not by twenty actions: `NoGhosts` and `Kept` (who is queued anywhere is
unfinished or cancelled, what is observed is not swept) for the sweep,
`QueuesServed` for permits, `ShieldsLive` (behind a live placeholder is a pending
promise with its owner registered) for `NoSilentHang`, `Leftover` for the
close-out, `JoinsClosed` (a join without a registration is over) for the
refinement. There a `Settled` step is `Settle`, a parked owner `Block` (or a
stutter, if it was cancelled before), an allocation `Create`, a sweep `Forget`.
`WakeupsKept` proves of any owners and cells that in `Futures` whoever waits,
waits for undecided cells only; with the refinement this is the scheduler's
promise that no wakeup is lost (`NoWakeupLost`).

Four theorems need more than the shapes.

- Permits: how many an owner is noted to hold is a number, how many there are is
  a sum over owners. `Notes` turns the numbers into a set of pairs (owner, 1 up
  to its number), so that a step which adds or takes one permit adds or removes
  one pair, and no sum is needed. `Accounts` says that a travelling permit is
  noted for its receiver (`InFlight`), that nobody is in debt, and what is
  conserved. That a receiver cannot give the permit away before it arrives
  follows from `Placed`: it is queued, not running.
- The shield holds in a single step, since `Shielded` counts the placeholders in
  the heap and the held ones.
- Deadlocks: of the live owners parked when nothing is ready, one of the least
  rank waits for something undecided that is not a task (`Allowed`,
  `NoWakeupLost`); so it waits for an external promise, and the loop blocks
  instead of giving up. A least element takes the place of an induction.
- Order: `OwedAhead` says that an entry of each woken owner is ahead, in the order
  of the heap (`Before`), of the entry of the completer he is owed to, until he
  is dispatched, is cancelled or is a daemon behind an external wait. A step does
  one of three things to the heap (`HeapSteps`): it adds entries, it takes one
  out that runs nobody, or it dispatches; and what `pick_next` passes over are
  placeholders and daemons (`HeldAside`).

### Fiber VM

`FiberVMProofs.tla`, for every `Slot`, `Rank`, `Kont`, `Roles` and `MaxFrames`
(finite or not):

- `TypeCorrect`: `Spec => []TypeOK`, with and without `EscapedK`.
- `SingleLocationLaw`: `~EscapedK` gives `Spec => []SingleLocation`.
- `FreeListHygiene`: `~EscapedK` gives `Spec => []FreeListClean`.
- `PathsStayIntact`: `~EscapedK` gives `Spec => []PathsIntact`.

`SingleLocation` is not inductive: to keep it, a `Perform` must know that the
fibers it detaches are live, a `Reattach` that the chain it attaches owns exactly
vacant slots and that nobody else owns them, and a recovery that the handle a
frame kept is not of an earlier run. The inductive invariant `IInv` is
`Shape /\ FreshHandles /\ Location`:

- `Shape`: types; the signal fits the current fiber (`ActiveCurrent`), the
  handle exists exactly while a handler is called (`DispatchHandle`), a boundary
  has a parent (`BoundaryParents`), a detached chain has
  its head and last among its ids (`ChainShape`);
- `FreshHandles`: the handles that frames and dispatches hold name continuations
  of this run. It is where `~EscapedK` enters, and it is needed because
  `recover_from_k_handle` resumes through a handle, not through the program;
- `Location`: a slot owned by a chain is vacant and on no list
  (`OwnedReserved`), owned by one chain (`OneOwner`), claimed at most once by
  the free list and the reclaim queue (`ClaimedOnce`), and claimed by somebody
  if vacant (`NoneLost`).

Each action has one lemma per part it can disturb; `Reattach`, `Recover` and
`Continue`, which several actions use, are proved once. `IInv` itself was
checked by TLC as an invariant.

`PathsIntact` says what is reached from the current fiber and from the head of a
chain; a cut keeps that only if no fiber outside the cut has its parent inside.
So `Paths`, checked by TLC too, says of the stack and of every chain that they
are a `Way`: no fiber's parent is the head, no two fibers have one parent, there
is a root, and what holds the head and is closed under parents is everything.
Every change of a stack is one of two operations, each proved once: two disjoint
ways are joined (`WayJoined`: a new fiber, an attached chain, an appended chain),
or a way is cut (`WayCut`: a capture, a finished fiber). That the joined ways are
disjoint is what `Location` gives, so `~EscapedK` is needed here as well. No
finiteness is: the root takes the place of a count.

### Session host

The lease, at the end of `SessionHostProofs.tla`, for every set of processes and
clients and any number of kills, SIGTERMs and stalls, from `None \notin Host` and
`Supervision \subseteq BOOLEAN`:

- `OneServer`: `LeaseSpec => []SingleServer`;
- `SupervisedReachable`: `LeaseSpec => []ServerReachable`;
- `LeaseNotStolen`: `LeaseSpec => NotStolen`;
- `CleanExit`: `LeaseSpec => []CleanExitReleases`, a host that unwinds leaves no lease
  that refuses its successor.

None of them is inductive. Two hosts cannot work together because each of them
holds the one lease (`LeaseHeld`), and this is kept by an acquisition because a
process that has yet to take a lease is in the name of none (`NoEarlyLease`,
which rests on a process id not being used again while the lease or the socket
file is in its name). The socket file is the server's because under a supervisor
there is one process at a time and nobody removes the file it bound
(`OneProcess`).

The rows, in the same module, for every set of sessions and names, any solicitation
limit and any number of RPCs and restarts:

- `RowsTellTheTruth`: `Spec => []RowsTruthful`;
- `RowsAdvance`: `Spec => RowsOnlyAdvance`;
- `AdoptedLiveOn`: `Spec => ExemptSpared`.

What a row says can be made false by any thread that still holds a copy of it,
so the invariant is about the copies too: every copy the monitor or the RPC may
still write is `Honest` (it claims a result, or a seat that is gone, only if so);
while a launch is under way no row or copy of it was seen running
(`LaunchAlone`), so the pipeline's own writes lose nothing; the sweep works on
ended rows (`SweepSafe`); and `Counted` says how far the counter of
solicitations may lag behind the askings. `RowsOnlyAdvance` follows from the
guards of the store, and from a pipeline never writing over an ended row.

### Conductor

`ConductorProofs.tla`, for every finite set of agents, any workflows of the
shapes above, and any number of processes, kills and commands of the overseer:

- `GatesDecide`: `Spec => []DecisionsHold`, also when runs overlap;
- `TerminalStays`: `~Overlapping` gives `Spec => TerminalSticks`;
- `GatesStay`: `~Overlapping` gives `Spec => NoGateLost`.

The invariant ties what a process has read to the files: the answers it has seen
are a prefix of the journal (`Heard`), it has opened no gate which that prefix
lets pass, and the forms before the one it is at are complete by the artifacts
and answers on disk (`Ahead`), which are only added to (`Grows`). The two action
properties need `OneRun`: the process at work saves the handle that is on disk,
so the guard of the save applies to it. Time stamps are never of the future, and
a terminal status is later than the start of its run (`Stamped`).

### Virtual time and events

`SimEventsProofs.tla`, for every set of tasks, events and types, any range of
times, any of the scheduler's three priorities and any number of effects, from `TaskAssumption`, `BoundAssumption` and
`EventAssumption`:

- `ClockIsServed`: `Spec => []ClockServed`;
- `NobodyLeftBehind`: `Spec => []NoneLeftBehind`;
- `WakesOnTime`: `Spec => OnTime`;
- `HearsFirst`: `Spec => DeliveryFirst`.

`Turns(w)` counts the places (priority and index) at which `w` stands in the
queues, and it is these places the proof speaks of, as in the scheduler. The
invariant, `Invariant: Spec => []IInv`, has one part for each thing the handlers
rely on without checking it:

- `OneTurn`: nobody stands in the queues twice, and who sleeps, listens or has
  ended does not stand there at all; so completing a promise gives a task its
  one turn;
- `DriverFlag`: `_driver_running` is up exactly while the driver has a turn, the
  driver runs only when nobody above IDLE can, and no entry is left without it;
- `Timed`: the time queue holds those who sleep or are about to, with the time
  and the promise they wait for;
- `Listed`: who listens is in the registry or held by one publisher, not both,
  which is what keeps a promise from being completed twice;
- `WokenNext`: a woken task above IDLE is the only one above IDLE that has a turn
  to come, so the clock cannot move before it runs;
- `HeardFirst`: a publisher stands behind (`Behind`) everybody it woke who has
  not had his turn, at IDLE only if it met an IDLE listener.

As for turns, a step of any action is a `TurnStep` of five kinds: nobody's turn
changes, the one whose turn it is leaves, queues himself, queues another and then
himself, or the next is picked. `OneTurn`, `DriverFlag` and the order in
`HeardFirst` are kept by these kinds, not by the actions one by one. `IInv` was
checked by TLC before it was proved, on the instance of the run and on one
with four tasks and three priorities.

### Lazy bindings

`LazyAskProofs.tla`, for every set of tasks and keys, any lazy programs, any
`Local`s and any number of asks, failures and cancellations, from
`EnvAssumption` and `NoneIsNothing`:

- `EvaluatedOnce`: `Spec => OneEvaluation`, with any `Local`s;
- `AnswersAreSound`: `NoRebinding` gives `Spec => []AskSound`. `NoRebinding`: a
  `Local` binds a key to a program only if the key is bound to that program
  anyway (to plain values it binds what it likes). Without it the theorem is
  false, as `LazyAsk_override` shows. Like `AskSound`, it says nothing of runs that were
  `mixed`.

`Base` says where everybody is: frames and answers belong to handlers there are
(`Placed`), a body of a program has only evaluations above it, under one handler
(`Kinds`), who waits for a key is in its queue once (`Queued`), and the key is
lazy for who waits (`Waiting`). For `OneEvaluation`, `Once` adds that what the
base handler evaluated is in the shared cache, where the second look, with the
permit in hand, finds it. For `AskSound`, what is cached rests on the bindings it
is cached under and was read at the dependencies noted with it (`CacheSound`);
so a value moved to another scope, which is allowed if none of its dependencies
is overridden there, rests on the same bindings. That the dependencies are
complete needs the stack: while only one task evaluates (`Alone`), the last sets
of `eval_stack` are those of its evaluations, in order, and all they have read is
in them (`StackOK`, `Reads`).

### Journal of agents

`AgentReplayProofs.tla`, for every finite set of agents, any workflow of stages
in which no agent occurs twice, and any number of processes, kills and edits,
from `NodesFinite`, `ShapesPartition` and `BoundsNatural`:

- `JournalIsSound`: `Spec => []ReplaySound`, with siblings in parallel too;
- `SequentialJournalLoads`: `Spec => []SequentialLoads`;
- `SequentialResumes`: `Spec => []ResumeReuses`.

For the first, every entry is vouched for, in the file and in every copy of it
that a session or a thread holds (`EntriesVouched`): some worker made its
artifact for its key. What a thread relies on at each place is `Thread(n)`, among
others that in `replay` the entry at its index is a success; and a session has as
many keys as threads have arrived at it (`KeysCounted`), so that an index is
within the workflow.

The other two are stated for workflows whose stages have one agent. Their
invariant `SequentialInv` describes the file: it is ordered by generation and,
within one, by position without gaps (`Ordered`); there is one session
(`OneSession`), and its keys are those of the stages so far (`KeysInOrder`); and
what the entries of the session's generation are depends on the place of the one
agent under way (`InPhase`). `Max` and `longest_valid_prefix` are defined by a
choice; a well-ordering of the naturals gives the element chosen, where a proof
on paper would use induction.

### Only model-checked

- `EveryRunEnds`, `AskersServed`, `SeatsEnd`, `TerminalSwept`, `Recovers`:
  liveness under fairness is out of the prover's reach.
- `LocalInvalidates`, which is violated.

## 11. Not modelled

- Scoped variables of the VM: dead equipment by decision. Python bindings, core
  library, front end and tooling: conversion, construction and functions over
  text, without state that several actors share.
- Core handlers other than lazy-ask (reader, state, writer, try, slog, listen):
  one dictionary operation each. `env_var_ask` repeats the semaphore pattern of
  lazy-ask. Memo and cache: a get and a put without a lock between them; two
  tasks may compute one memoized value twice, which the effects do not exclude.
- Session host: resume and fork of conversations, turn stamps, causes, the judge
  of stalls, dialogs, retention of history, wire parsing. What remains of them
  here is a choice of the monitor.
- Conductor: `workflow_effect_journal.py`, which repeats the replay session for
  time and random effects in one thread; workspaces and git, the loader of
  workflow modules, templates, issues, rendering.
- Flow, agentic, traverse: sequential appends and recursion over effects above.
- Service adapters: the behaviour lies in the service. They and the text tools
  are most of the lines of the repository.
