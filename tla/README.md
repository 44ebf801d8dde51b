# TLA+ models of the ZERO task runtime

ZERO is a local, governed engineering agent: tasks are submitted to a
scheduler, dispatched to worker slots, executed step by step, and changes to
source files go through an approval chain that ends in a transactional
executor. This directory holds TLA+ models of the parts whose correctness
depends on interleavings, failures and orderings, the TLC instances that check
them, and TLAPS proofs of the main invariants.

The repository holds about 390,000 lines of Python under `core/`, most of it
construction and validation of governance records without state of its own. The
models cover the stateful core: the ready queue, the worker pool, the
dispatcher with everything that calls it, the task repository and its lock, the
transactional executor and the operator session that leads to it, and the
mission layer (session leases, event bus, dispatch coordinator, mission
scheduler and mission daemon).

## 1. Inventory

| Component | State it keeps | Operations | Interacts with |
|---|---|---|---|
| Ready queue `scheduler_core/task_scheduler_queue.py` | binary heap, stored tasks, set of queued keys, sequence counter; one RLock | enqueue, requeue, upsert, pop, peek, cancel, mark finished/failed, increment retry, update priority, remove | dispatcher, scheduler, synchronisation |
| Worker pool `scheduler_core/worker_pool.py` | slots, records by worker, records by task; one RLock | acquire, assign, release by worker or by task | dispatcher, finalization, synchronisation |
| Dispatcher `scheduler_core/task_dispatcher.py` | none (queue and pool) | dispatch_once, dispatch_until_full, complete_task, fail_task | queue, pool |
| Dispatch round `dispatch_helpers.py`, `dispatch_finalize.py`, `repo_task_state.py`, ... | the list of dispatch results of a round | run one step, decide, finish / fail / block / requeue / release | dispatcher, repository, runner |
| Queue synchronisation `queue_sync_helpers.py`, `queue_transition_helpers.py`, `Scheduler._enqueue_repo_task_if_ready` | none | rebuild the queue from the repository, block, unblock dependents | queue, pool, repository |
| Scheduler requests and tick `scheduler.py`, `scheduler_dispatch_pipeline.py`, `scheduler_thread.py` | current tick | submit, pause, resume, cancel, set priority, tick | all of the above |
| Task repository `task_repository.py`, `task_store_lock.py` | tasks.json, in-process lock, OS file lock | load, upsert, delete, refresh blocked | scheduler, several processes |
| Task runner `core/runtime/task_runner.py` | per-task runtime state file | run a step, retry, replan | scheduler, step executor |
| Transactional executor `runtime_transactional_active_execution.py` | source tree, transaction workspace | verify, snapshot, mutate, validate, commit, roll back | operator session, CLI |
| Operator session `runtime_operator_session.py`, `runtime_end_to_end_orchestrator.py` | session file (status, artifacts, processed inputs) | create, resume with an operator input, cancel | approval gates, transactional executor |
| Session scheduler and worker service `runtime_session_scheduler.py`, `runtime_worker_service.py` | queue file, worker file with lease | claim, dispatch, release, reconcile | operator session |
| Session leases `runtime_session_lease.py` | sessions and leases, one JSON file | register, acquire, renew, heartbeat, release, take over, tick | runtime workers |
| Event bus `runtime_event_bus.py` | events, subscriptions, one JSON file | publish, replay, subscribe, deliver, save | mission layer, coordinator, worker service |
| Dispatch coordinator `runtime_dispatch_coordinator.py` | worker records, leases, one JSON file | register, refresh, acquire, complete, recover | workers' files, event bus |
| Mission scheduler `runtime_mission_scheduler.py` | entries with lease, request flags, one JSON file | iterate, enqueue, pause, resume, stop | mission driver, event bus, CLI |
| Mission daemon `runtime_mission_daemon.py`, `runtime_mission_daemon_recovery.py` | phase, checkpoint, request flags, recovery attempts, one JSON file | iterate, recover, pause, resume, stop | mission scheduler, replanning, event bus |
| Goal execution registry `runtime_goal_execution_registry.py` | goals and their executions | register, record | planners |
| Governance contracts, planners, agents, tools, CLIs | none, or text | pure construction and presentation | everything |

What is hard in this system, and where:

* **Concurrency without a common lock.** Queue and pool lock each method;
  everything above them makes several calls in a row. The background
  `SchedulerThread` ticks while the main thread serves requests, so a dispatch
  round, a finalization and an operator request interleave at every call.
* **Redundant structures.** Heap, stored tasks and queued set in the queue;
  slots and two indexes in the pool. Each is read by a different operation.
* **Lazy deletion.** Cancelled, removed and re-prioritised tasks leave heap
  entries behind.
* **Exceptions in the middle of a round.** A repository error or a refused
  completion leaves the round with other tasks' slots still taken.
* **Partial failure and crashes of file changes.** A bundle touches several
  files; any write, verification, test or restore may fail, the process may
  die, and the same request may be invoked again.
* **Load, modify, save without a lock.** Only tasks.json has a lock. The
  operator session, the event bus, the mission scheduler, the daemon and the
  lease registry load a JSON file, work on the copy and replace the file;
  commands of an operator do the same at the same time.
* **Restart.** The mission scheduler and the daemon are meant to be killed and
  started again: leases run out and are recovered, an iteration resumes from
  its checkpoint.

What makes each component correct:

* queue: no queued task is lost, the popped one ranks first, status and queued
  mark agree, one stored task per piece of work, sessions do not see each other;
* pool: its three structures agree, a task has at most one slot, no slot is
  double-booked;
* dispatch: every popped task ends up dispatched or queued again, rounds end,
  no slot stays busy without someone to release it;
* transaction: the answer tells the truth about the tree, the originals can
  always be recovered, a request changes files at most once;
* store lock: one thread of one process at a time, no lock left behind, the
  file changes as if each transaction were one step;
* repository: dependencies acyclic and known, a task queued only when they are
  finished, and not blocked for ever once they are;
* operator session: no transaction without the whole chain of approvals, what a
  session reports an invocation with one of its inputs did;
* leases: at most one active lease, and the owner that was promised it has it;
* event bus: an acknowledged event stays, keys and sequence numbers are unique;
* coordinator: records and leases name each other, work goes to live workers;
* mission scheduler: an ended mission stays ended, a completed one was
  completed, a completion that a crash cut off is recorded;
* daemon: the scheduler runs once per iteration, an iteration is complete only
  with all its parts, and one that a process works on ends.

The hazards are listed one by one, with line and property, in `PROJECT.json`.

## 2. Modules

| Module | Models | Used by |
|---|---|---|
| `SchedulerIds` | task ids | all scheduler modules |
| `SlotTable` | abstract specification: what the pool promises | `WorkerPool` |
| `WorkerPool` | worker_pool.py | `TaskDispatch` |
| `TaskQueue` | task_scheduler_queue.py, duplicate_identity | `TaskDispatch` |
| `TaskDispatch` | task_dispatcher.py, the dispatch round, finalization, synchronisation and requests, over `TaskQueue` and `WorkerPool` | |
| `TransactionClaim` | abstract specification: what an invocation of the transaction promises its caller | `ActiveTransaction` |
| `ActiveTransaction` | execute_transactional_active_plan | |
| `OperatorSession` | the session file and its saves, resume and cancel, with the steps of `TransactionClaim` for each transaction | |
| `AtomicStore` | abstract specification: what the store lock promises | `TaskStoreLock` |
| `TaskStoreLock` | task_store_lock.py, load and save of task_repository.py | |
| `TaskRepository` | task_repository.py and the scheduler's writes to it | |
| `CycleDetection` | `_detect_cycle`, call by call | `TaskStore` |
| `SessionLease` | runtime_session_lease.py | |
| `EventBus` | load, publish and save of runtime_event_bus.py | |
| `DispatchCoordinator` | runtime_dispatch_coordinator.py | |
| `MissionScheduler` | runtime_mission_scheduler.py and its commands | |
| `MissionDaemon` | runtime_mission_daemon.py, runtime_mission_daemon_recovery.py | |
| `TaskStore` | tasks.json: `TaskStoreLock`, `TaskRepository` and `CycleDetection` | |
| `Sessions` | `OperatorSession` and `SessionLease` | |
| `MissionLayer` | `MissionScheduler`, `MissionDaemon`, `DispatchCoordinator` and `EventBus` | |
| `MCTaskQueue`, `MCTaskDispatch`, `MCActiveTransaction` | instances of one module each | |
| `MCSchedulerApi` | `TaskQueue` and `WorkerPool`, every method a caller may use | |
| `MCTaskStore` | `TaskStore` | |
| `MCSessions` | `Sessions` | |
| `MCMissions` | `MissionLayer`, with two bus writers | |
| `MCProgress` | `MissionLayer`, with one bus writer and without the coordinator, and `TaskRepository`, under fairness | |
| `TaskDispatchProofs` | theorems about `TaskQueue`, `WorkerPool` and `TaskDispatch` | |
| `ActiveTransactionProofs` | theorems about `ActiveTransaction` | |
| `TaskStoreProofs` | theorems about the parts of `TaskStore` | |
| `OperatorSessionProofs`, `SessionLeaseProofs` | theorems about the parts of `Sessions` | |
| `MissionProofs`, `DispatchCoordinatorProofs`, `EventBusProofs` | theorems about the parts of `MissionLayer` | |

`TaskStore`, `Sessions` and `MissionLayer` put components side by side: one is
extended, the others are instances (`Repo`, `Cycles`, `Lease`, `Daemon`, `Coord`,
`Bus`), and their properties get names there that the runs check and the theorems
state. The components of one such module share no state: each has its own file,
and where one relies on another it relies on what that other promises (the
abstract specifications above), not on its variables. A property of one of them
is about the steps of that one alone, so exploring the components one at a time
loses nothing: in the `MC*` modules `part`, chosen in the initial state, names
the one that moves, and the others stay as they begin. `MCSchedulerApi` does the
same with the queue and the pool. The components used this way state the
assumptions on their constants as definitions (`LockAssumption`,
`LeaseAssumption`, ...): the `MC*` modules assume them of the values they give,
and the theorems have them as hypotheses.

### TaskQueue

`heap` is the set of heap entries (the sequence number makes them distinct and
their order total, so "the least" is all a binary heap adds); `tasks` is
`_tasks`, `queued` is `_queued_ids`, `seq` the counter. Each method is one
action because each holds the RLock. Method calls that return False or None
without a change are stuttering steps. A storage key is an opaque value with the
task id, session and work identity it was built from; `Branched` keys are the
ones that also carry a goal lineage and a branch. `Resolve` is `_resolve_key`
in its three stages. Work identity is fixed per key: an overwrite merges the
lineage but keeps the existing identity. The repository's ready statuses are
one value, "queued".

### WorkerPool and SlotTable

`slots`, `byWorker` and `byTask` are the three structures. `HasFreeSlot` counts
records and `FirstIdle` scans flags, as the code does: that they agree is a
property, not an assumption. `SlotTable` is the promise (take an empty slot for
a task that has none; free a slot), and `PoolImplementsTable` the refinement
with `occupant <- byWorker`.

### TaskDispatch

Each thread has a program counter, the task it is about, the results of its
round and a return point. Every call into the queue or the pool is one step,
because that is what the two locks make atomic. The repository and the runner
are nondeterministic: a status query selects any branch it can select.

* `Begin`, `CheckFree`, `Pop`, `PopNone`, `AcquireSlot`, `AcquireFails`,
  `GiveBack`: dispatch_until_full and dispatch_once. The loop test and the first
  test of dispatch_once are one step: they ask the same question in a row, and
  both answers lead to the same two places.
* `Execute`, `ExecuteSync`, `ExecuteCollapse`: what run_one_step does to queue
  and pool. `Outcome`: build_finalize_decision.
* `Finish` ... `ReleaseOnly`: apply_finalize_decision with complete_task,
  fail_task and the repository helpers, which release the worker a second time
  and unblock dependents.
* `RoundRaises`, `MarkFinishedDenied`: exceptions handle_dispatch_result does
  not catch. The results left are dropped; their ids are remembered in
  `abandoned`, a history variable.
* `PauseRequest` ... `SyncRequest` with `Free`, `Forget`, `Drop`, `Block`,
  `Admit`: the scheduler's requests, the runtime gate and the synchronisation.
  In `tick` the synchronisation precedes the dispatch in the same thread; here
  it is a request that may come at any time, which allows tick's order and
  those of resume, submit and the second thread.

The action "keep" of decide_queue_transition changes nothing and is no step.

### ActiveTransaction

The tree maps paths to a file content, `Missing`, an empty or a non-empty
directory. An invocation goes through verify, list, claim (mkdir of the
transaction directory), snapshot, mutate, validate, compare, and on any failure
rollback and environment restore. Loops over files are loops here. Every file
operation may fail, before its effect or (where the code verifies afterwards)
after it. The approved tests may leave anything at the paths `TestsTouch`.
`Crash` stops an invocation anywhere; several invocations of one request run at
once or one after the other. The gate's checks are one nondeterministic refusal.
`_restore_environment` visits paths in sorted order; the model visits them in
any order. A sibling that is a symbolic or a hard link is not modelled: the code
records neither its bytes nor restores it. Programs other than the approved
tests that write to the tree during a transaction are not modelled.

`ClaimedOnce` says that the invocations implement `TransactionClaim`: at most
one of them gets the transaction directory, only that one answers committed,
rolled_back or rollback_failed, and the others answer blocked or nothing.

### OperatorSession

The file holds a stage (the required_action; six of them), a status, the
processed input ids and the outcome of the transaction. A client is somebody who
runs CLI commands: each loads the file, resumes or cancels on its copy, and
saves. The gates of the first five actions approve, refuse or raise. The sixth
runs a transaction. `Crash` ends a command anywhere, the transaction included.
An expired session is one that is never loaded again.

The transaction id is a fingerprint of the ids of the request, the bundle, the
authorization and the target (runtime_transactional_active_execution.py:395).
The gate compares the request's ids with the others, so the id of an admitted
invocation is a function of its final input, `TransactionOf`. Two final inputs
with different invocation_request_ids have directories of their own, and both
may have an outcome; invocations of one transaction take the steps of
`TransactionClaim` (`Claim`, `Block`, `Finish`, and `Left` for an owner that stops),
which `ActiveTransaction` implements. `owner` says for each transaction who made
its directory, `asked` and `result` for each invocation what it was made with
and what it answered.

A save opens, writes and moves a temporary file whose name all savers share
(runtime_operator_session.py:105): `OpenTemp`, `WriteTemp`, `Replace`. As in
`EventBus`, `handle` follows an open descriptor through a rename, a file whose text
is a mixture is `Torn`, one that was opened and not written is `Empty`; load then
raises (`LoadFails`). A saver whose file another one has moved fails
(`ReplaceFails`). So two overlapping saves can leave a session that cannot be
read; the properties are about the ones that can.

### TaskStoreLock and AtomicStore

Per process the RLock's owner, the depth and `self.tasks`; one OS lock; one
file. `Nest` and `Unnest` are nested transactions. Locking, reading and
replacing may raise, a process may end anywhere and the OS then frees its lock.
`AtomicStore` has three steps: a transaction, a read that fails, and the
transaction that follows it and starts from nothing (`Wipe`), because load
treats an unreadable file as an empty list.

### TaskRepository and CycleDetection

Every repository method is one step, by `TransactionsAtomic`. A client is a
thread or process that reads a task, decides and writes the whole task back:
mark_repo_task_queued/finished/failed, the sync helpers and
`_sync_blocked_state`, which reads twice. Statuses that neither the repository
nor the decision looks at are one value, "created". `_detect_cycle` is `HasCycle`
here: some set of stored tasks whose every member depends on a member of it.
`CycleDetection` is the depth-first search itself, call by call: `calls` is the
Python call stack with the dependencies each call has still to look at,
`visited` and `stack` are the two sets of the code, `answer` is what comes back.
Dependency lists are sets taken in any order, so every order of tasks and of
dependencies is a behaviour.

### SessionLease

One session; leases are indexed by owner and generation, which is what the
lease id is a fingerprint of. The callers' tick is `now`, which never goes back.
`told` and `ousted` record what owners were told, and appear in no guard.

### EventBus

A publication is load and publish, open the temporary file, write it, replace
the bus. The temporary file has one fixed name, so writers share it; `handle`
follows an open descriptor through a rename. A file whose text is a mixture is
`Torn`; load then raises.

### DispatchCoordinator

The operations are functions on a loaded state. `work` is an operation's result
before its save, `bus` the lease events, which are published before the save.
The score that orders free workers is left open: any fitting one is chosen.
Outside the tests nothing in the repository calls the coordinator; the model
takes its callers to load, apply one operation and save, as the tests do.

### MissionScheduler

`BeginIdle`/`BeginDispatch`, `Save`, `SaveAgain`, `Drive`, `Finish` are an
iteration (`Iterate` is all of it but the beginning). The driver may raise for any
mission, also for one that has completed: it loads the mission with the expiry
check (runtime_autonomous_loop.py:652, runtime_mission_model.py:80), so a
completed mission that has expired raises each time and is queued again.
`RequestAction`, `Enqueue` and `SaveCommand` the operators'
commands. Time is the age of a lease and stops at its expiry. The counter
recovered_leases is left out. Lease ids are taken from a finite pool, each time
one that nobody knows.

### MissionDaemon

One daemon process at a time works on the file; two daemons over one file are not
modelled. `pc` follows the iteration from one saved checkpoint to the next. The mission
scheduler and the replanning engine are one step each with an open outcome.
`StartRecovery`, `StartBlocked` and `StartClean` are the decision of
recovery_decision, `StartOnce` a single iteration of the mission session, which
does not ask it. A request's load and save are one step.

## 3. Runs

| Run | Instance | Shows |
|---|---|---|
| `scheduler_api` | queue: 3 keys, 2 ids, 2 sessions, 2 pushes, upsert_task included; pool: 3 slots, 2 ids, assign included | QueuedReachable, SlotsAgree, IndexSound |
| `queue` | 3 keys, 2 ids, 2 sessions, 2 priorities, 2 times, 3 pushes | QueuedStatus, HeadRanksFirst, OneTaskPerWork, SessionIsolation |
| `queue_order` | as `queue` | **violated**: HighestPriorityFirst |
| `dispatch` | 2 tasks, 2 slots, 2 dispatching threads, 2 priorities, 3 pushes, 3 requests, failures not retried | TypeOK, SlotAccounted, PoolImplementsTable |
| `dispatch_live` | 2 tasks, 1 slot, 2 dispatching threads, failures retried | PoppedSettles, RoundsEnd |
| `running_not_queued` | 2 tasks, 1 slot, one dispatching thread | **violated**: RunningNotQueued |
| `transaction` | replace, create and delete in one directory with a file and a subdirectory; 2 invocations | TypeOK, RolledBackExact, CommittedExact, Recoverable, ClaimedOnce |
| `task_store` | lock: 3 threads of 2 processes, nesting 2, 2 ids; repository: 3 tasks, up to 2 dependencies, 1 client; cycles: every graph over 3 tasks, unknown dependencies included | MutualExclusion, NoLeak, TransactionsAtomic; Acyclic, DependenciesKnown, QueuedJustified; DetectsExactly |
| `sessions` | operator session: 2 clients, one input for each action, a second one for the last with another transaction, 2 invocations; leases: 2 owners, ttl 1 and 2, ticks to 3, 2 generations | ApprovalChain, OutcomeReal; OneActiveLease, OwnerRecorded |
| `missions` | coordinator: 2 workers, 1 mission, clock to 2; scheduler: 1 scheduler, 2 operators (one only enqueues), 1 mission, 1 crash; daemon: 2 iterations, 2 faults, 1 recovery attempt, all requests; bus: 2 writers, 1 key, 4 publications | OneLease, Announced, GivenToLive; CompletedIsDone; CompletedFully, SchedulerOnce; KeyOnce |
| `progress` | repository: 2 tasks; scheduler: 1 scheduler, 2 missions, 2 crashes; daemon: 2 iterations, 3 faults, no requests; bus: 1 writer; under fairness | Unblocked; EndsOnce, Recorded; IterationEnds; Durable |
| `mission_daemon_checkpoint` | 2 iterations | **violated**: CheckpointUsable |

Every safety property of these runs is also proved for all values of the
constants (section 4), with the inductive invariants and the type invariants
that no run lists.

**Bounds.** `MaxSeq` bounds the heap entries ever pushed. Three suffice for a
key to have a stale and a current entry while another key competes with it,
which is what the queue properties are about. `MaxRequests` bounds requests and
unblocked dependents: three let an operator cancel, re-admit and re-prioritise
during one round. Two tasks, two threads and one or two slots give every race
for a slot and every pair of interleaved calls about one task; `t1`/`t2` with
their own ids make ambiguity of ids a matter of `queue`. The keys of `queue` are
chosen so that one id occurs in two sessions and one work identity in two
branches. The transaction's bundle has each operation once, so a failure can
have finished, half-finished and untouched files on either side. Threads and
invocations are interchangeable in the runs that use symmetry; the liveness run
uses none.

In the combined runs the bounds are the least in which the case at hand occurs
with something beside it: three threads of two processes (two compete for the
RLock while a third competes for the OS lock); three tasks (a circle longer than
two, a shared dependency); two generations and three ticks (a lease that runs
out, is granted again under the same id, and is taken over); publications enough
for a crash, its repetition under the same key, and others on either side; two
iterations and two faults (a crash while resuming after a crash, and an
iteration after a recovered one). `sessions` is the largest run (3.6 million
states): two clients are what one temporary file and one stale copy need, and two
invocations with two final inputs give a repeated invocation of one transaction
as well as one of each of two.

`missions` has one scheduler beside two operators: a lease that another scheduler
recovers while its holder still drives is not reached there. That
`CompletedIsDone` holds then as well is shown by the theorem `SchedulerHonest`
only. `Durable` is checked, and true, for one bus writer only.

**Deadlock** is checked everywhere but in `progress`, where no iteration and no
publication may be left. `Rest` and `Ended` are the states in which every thread
sleeps or every invocation is over; `Answered` in `MCTaskStore` is the end of
the search for cycles, `BusRests` in `MCMissions` that no publication is left.

**Fairness.** `FairSpec` assumes weak fairness of `ThreadStep` for each thread:
a Python thread inside a call goes on, and no call in the model waits for
another thread (the locks are held for one action). Beginning a round and
making a request are not fair: nothing obliges them to happen.
`TaskRepository!FairSpec` assumes that the repository is listed again and
again, which the scheduler's tick does (`rebuild_ready_queue`); no writer need
act. `MissionScheduler!FairSpec` assumes that an iteration that has begun goes
on, its driver included (it has an iteration limit), and that time passes;
crashes are bounded. Nothing is assumed about another iteration being begun:
`Recorded` states as its own conditions that iterations are begun again and again
(`KeepsRunning`: run_mission_scheduler without a limit, or an operator) and that
the driver does not raise for the mission for ever (`StopsRaising`, which an
expired mission violates). `MissionDaemon!FairSpec` assumes that a process that
is up goes on. Nothing makes anybody start one: run_mission_session runs one
iteration by default and stops when one is blocked or fails, and
resume_mission_session refuses a failed session (runtime_mission_session.py:232
and 244). So `IterationEnds` is about a process that is up with an unfinished
iteration, its own or one that was cut in any phase: it takes it to
iteration_completed, unless there is another fault or a request to stop or pause.
Faults are bounded by `MaxFaults`.

**Findings.** `queue_order`: after a queued task's priority is lowered, its old
heap entry is still live, so the documented order does not hold.
`HeadRanksFirst` is what does hold: a stale entry can only lift a task, never
hide a better one. `running_not_queued`: the test of the pool and the enqueue it
decides are not atomic, so a task can be running and queued. The consequence is
bounded: the pool refuses the second acquire and the task is given back
(`PoppedSettles`, `PoolImplementsTable`).

`mission_daemon_checkpoint`: `loop_iteration` of the checkpoint is set once;
from the second iteration on recovery is refused. An iteration that the mission
session starts does not ask, and goes on from the phase in the file.

The models also contain these behaviours, which narrow the properties that are
stated; none has a run of its own:

* The terminal test of mark_repo_task_queued is made on a copy; a task finished
  in between is stored as queued again. `QueuedJustified` is what still holds.
* A blocked write without unfinished dependencies is stored as queued, because
  upsert_task derives the status again.
* Releasing a lease that was transferred makes the new owner's session
  "released", and neither expiry nor zombie detection looks at it until the
  owner renews.
* After a crash between the commit and the save of the session, the repeated
  input is answered blocked. The tree is right (`ClaimedOnce`), the session is
  not. A stale save can also replace a cancelled session, and two overlapping
  saves can leave a session file that cannot be read.
* Of two bus writers that overlap, one loses an event it has acknowledged
  (`Durable` is stated for one writer). Keys and numbers stay unique
  (`KeyOnce`).
* A worker that registers while it has a lease makes the coordinator's state
  unsaveable (`SaveRefused`); the registration is lost.
* A stop or pause saved during a mission scheduler's iteration is overwritten.
* A mission that has completed and expired before its completion was recorded is
  driven, raises and is queued again without end.

Hazards of this code without a property: requeue_if_ready uses the priority the
task had when it was popped; stale heap entries accumulate below the top; other
programs may edit files during a transaction; a directory beside the candidates
that the tests replace by a file counts as restored; two leases of the
coordinator within one second get one id; a waiting mission of the highest
priority keeps the others from running; the daemon's recovery attempts count for
its whole life. The models keep the behaviour where it is in a modelled part;
nothing in the repository says what should hold instead.

## 4. Proofs

Every invariant, every action property and every refinement that the passing
runs check is a theorem. The theorems hold for arbitrary constants that satisfy
the named assumptions: numbers are numbers, null values (`NoTask`, `None`, ...)
are not among the values they stand beside, and what is said of the code below. There is no bound on the number of threads,
processes, tasks, owners, workers, missions, writers or faults; the bounds that
the guards name are arbitrary numbers.

Each argument has the same shape: `Init` implies the invariant, one lemma per
action (or per kind of step) keeps it, and it implies the property; the last
step of the theorem is the temporal one. What the invariants add:

**`TaskDispatchProofs`.** Assumptions: plain keys are determined by task id and
session (`KeyAssumption`), priorities and times are numbers (`OrderAssumption`),
at least one worker, `Dispatchers \subseteq Threads`.

* The queue. `QueueReachable`, `QueueOrder`: `QueuedReachable` is not inductive
  alone, because pop_next may take a stale entry of another key with all the
  entries before it. `RankInv` adds types, distinct sequence numbers below the
  counter, the agreement of status and queued mark, and `CurrentEntry` (the
  stored priority and time of a queued key are those of one of its entries).
  Then the entries a pop passes belong to keys that are not queued, and the head
  ranks at least as high as each queued key's current entry. upsert_task breaks
  `RankInv` and keeps `StoreInv`, its part without ranks: `ApiReachable`.
  `StatusTrue` (`QueuedStatus`), `WorkAdmittedOnce` (`OneTaskPerWork`: every call that stores
  a key has made the duplicate test on the same tasks), `ResolveIsolates`
  (`SessionIsolation`), and `ResolveFindsOwn`, its converse: a scoped call is
  not answered None because other sessions use the id.
* The pool. `PoolConsistent`, `IndexNeverWrong`: `PoolTypeOK`, `SlotsAgree` and
  `IndexSound` are inductive together; each is needed to see that a release
  clears the right entries. `PoolComplete` adds `IndexComplete` for the callers
  that do not use assign. `PoolRefinesTable`: acquire is a `Take` because
  `SlotsAgree` turns an idle slot into an empty one and `IndexComplete` turns
  "not in the index" into "in no slot".
* The dispatcher. `DispatchTyped`, `DispatchQueue`: the invariants of queue and
  pool carry over, because every step of a thread is one of their calls.
  `SlotsAccounted`: every action that occupies a slot puts its id among the
  thread's results; every action that drops a result has released the slot,
  handed the id to the settling step, or recorded it in `abandoned`.
  `DispatchRefinesTable`: under the dispatcher the pool sees acquires and
  releases only. `PoppedNotLost` is the safety half of `PoppedSettles`: in no
  step does a popped task leave its thread's hands but to be dispatched, to be
  queued again, or because a request has taken it out. The one exception is
  stated in the theorem: dispatch_once gives a task back by task id alone, and
  when another stored task has that id (of another session, say) the call may
  resolve to nothing or to the other task.

**`ActiveTransactionProofs`.** `TypeCorrect`, `AnswersExact`, `CommittedStays`,
`SingleUseRecoverable`, for every bundle without repeated paths
(`BundleAssumption`, what the gate enforces) and every tree (`TreeAssumption`:
the kinds of entries are distinct). None of the properties is inductive, the
type invariant included: that a rollback writes back an entry of the tree and
not a missing copy depends on the snapshot loop having ended. `TransactionInv`
adds `OwnerInv` (mkdir with `exist_ok=False` gives the directory one owner for
good), `ListInv` (a listing is up to date until somebody claims, because only an
owner changes files), `PhaseInv` (what each loop has done up to its index) and
`StopInv` (an owner that stops has changed nothing or copied everything). A step
of one invocation keeps the others' part because either the tree is unchanged or
they own nothing (`OtherPhases`). `OneClaimOneOutcome` is the refinement of
`TransactionClaim`: `ClaimInv` says that the owner is one invocation and that
answers are final, and every action is classified as a claim, a refusal, an
outcome, an end without answer or a stutter. `TreeFinal`: when the invocation
that took the copies has answered or stopped, no step of any invocation changes a
file, although the model lets any number of them start after it.

**`TaskStoreProofs`.**

* The lock (`LockAssumption`). `LockExclusive`, `LockNoLeak`: a thread is alone
  in its process because of the RLock, and alone among processes because of the
  OS lock; `LockInv` ties the place of every thread to both locks and to the
  depth. `LockRefinesStore` (`TransactionsAtomic`) needs `WorkInv`: what the
  holder has reloaded is the file (or nothing, after a read that failed) until
  it saves, because nobody else can save meanwhile.
* The repository (`RepositoryAssumption`). `RepositoryAcyclic`,
  `RepositoryDependencies`, `RepositoryQueues`: the trailing refresh of every
  method changes no dependency and neither finishes a task nor reopens one, so
  it disturbs neither the graph nor what the others wait for; a write from a
  stale copy is judged again against the tasks stored when it is made, so
  nothing need be assumed of the copy but its type.
* The search for cycles, for any graph. `SearchDetects`
  (`DetectsExactly`) rests on `SearchInv`. The calls in progress are a path of
  dependencies (`PathInv`) and are the tasks of `stack`, so meeting one of them
  again closes a circle: an answer "cycle" is right. A task is left (in `visited`
  and off `stack`) only after every dependency it has in the graph has been left
  (`LookedAtInv`, `ClosedInv`), so no set of tasks that have been left is a circle
  (`NoCircleInv`: a circle through the task just left would hold a task that
  depends on it and was left before it); and when the search
  ends without finding one, every task has been left (`NoneMissedInv`): an answer
  "dag" is right. `SearchIsHasCycle`: over the graph that _build_graph makes of
  stored tasks, the answer is `HasCycle` of `TaskRepository`, so treating the
  test as one step there is justified by proof.

**`OperatorSessionProofs`** (`SessionAssumption`). Commands overtake each other,
save stale copies and move each other's temporary files, so nothing about the
file alone is inductive. `SessionInv` speaks of every session in play, in the
file, the temporary file or a copy. `Chained`: its inputs answer all actions before
the one it waits for (`SessionApproved`). `Traced`: its outcome is that of an
invocation made with its only final input, which stays true because what an
invocation was asked and has answered is final (`SessionOutcome`). `Owned`: an
invocation that has had an outcome made the directory of its transaction; two
sessions that report an effect of one transaction therefore come from the same
invocation and report the same (`SessionReportsAgree`), although sessions with
different final inputs may report different ones.

**`SessionLeaseProofs`** (`LeaseAssumption`). `LeaseUnique` and `LeasePromise`
need each other: a lease is renewed only while it is active, so it is the
session's, and the owner that is told of it is the one recorded. The pair is
inductive with two additions: leases exist only in a registered session, and an
owner whose call failed was told tick 0, which has passed. `LeaseKept`: in one
step the holder of a lease that has not run out can lose it only to a takeover or
to the release of that very lease. Being declared a zombie, or the release of an
older lease, changes the status of the session and not who holds it, and
acquire_lease by somebody else is refused after either.

**`DispatchCoordinatorProofs`** (`CoordinatorAssumption`). The operations are
functions on states, so the invariant is one of states, of the file and of the
result not saved yet. `CoordinatorOneLease` needs `Agree`: an active lease has a
record that names it, without which registering a worker could break it.
`CoordinatorAnnounced` needs `Told` of the unsaved result as well.
`CoordinatorGivesToLive` follows from what the refresh leaves "available".
`CoordinatorLeasesFinal`: from one file to the next no lease is forgotten, one
that has ended keeps its end however late or often it is answered, and an active
one ends by an answer or after its expiry; `FollowsInv` says it of the unsaved
result. Excepted, because it is what the code does, is a lease that has ended in
the second in which it was given: its id may be given out again.

**`EventBusProofs`** (`BusAssumption`). Writers overwrite each other's files, so
nothing relates one copy of the bus to another. `BusInv` says that each copy (in
the file, the temporary file or a writer's memory) is well numbered with unique
keys or no state at all: `BusKeyOnce`, for any number of writers. `BusDurable` is
for one writer, as in the run: `AloneInv` follows its copy from the load to the
replacement. `BusAppends` says more of that case: the bus only grows, and every
event keeps its place and number.

**`MissionProofs`.**

* The scheduler (`SchedulerAssumption`). Any process may save a copy older than
  the file, so `SchedulerInv` speaks of every copy: it is well formed, its
  holder is where the copy says, and it claims no completion that has not
  happened (`SchedulerTyped`, `SchedulerHonest`). `SchedulerEndsOnce` is for one
  scheduler and no operators, as in the run; with a second process it is false,
  because a stale save brings an ended mission back.
* The daemon (`DaemonAssumption`). `DaemonCompletes`, `DaemonSchedulesOnce`: the
  checkpoint decides what a resumed iteration may skip, so the invariant says
  what each phase of the file promises (`PhaseInv`), that the process is where
  the phase says (`DaemonPlaceInv`), and that requests, which write the file
  beside the process, leave alone what the two must agree on (`AgreeInv`).
  `DaemonOnward`: no step takes the file back. The iteration number grows by one
  and only after the iteration before is over, the recorded results never get
  older, and within an iteration no checkpoint from before the scheduler's run
  follows one from after it. Phases after the scheduler's are not ordered in
  this way: a resumed iteration writes its replanning checkpoints again.

Only model-checked: liveness (`PoppedSettles`, `RoundsEnd`, `Unblocked`,
`Recorded`, `IterationEnds`), because TLAPS does not reason about fairness here,
and the violations. That the search for cycles ends is not stated.

## 5. Not modelled, and the plan

Not modelled on purpose: the compatibility overlays appended to `scheduler.py`
and the retry bridge of `scheduler_retry_pipeline.py` (they replace methods at
import time for older callers), the text of statuses, errors and evidence,
timestamps other than `created_at`, planners, agents, tools and CLIs.

Also not modelled:

* The session scheduler and worker service (`runtime_session_scheduler.py`,
  `runtime_worker_service.py`). `dispatch_session` resumes with no operator
  input, which raises for every session that is not terminal; no code stores a
  session as created or running; and `transaction_running` exists only in
  memory, so the recovery for it is not reached. The states behind these
  branches are not states of the program.
* Hydration of repository tasks from their workspace files: what load merges is
  chosen by the content of several JSON files per task.
* Subscriptions, delivery and the object bridge of the event bus; several lease
  registries over one file (each loads once and overwrites, so nothing holds);
  the goal execution registry; the replanning engine, the mission driver and the
  mission session, which are answers of their callees here.
* Step execution, planners, agents and the governance contracts: they select
  branches of the modelled components and keep no shared state of their own.

Plan:

1. `TaskDispatch` over `TaskRepository` instead of its nondeterministic answers.
2. The task runner's statuses and the mission session.
3. Proofs: what two bus writers and two mission schedulers still promise each
   other (which events and completions a stale save can lose), and the
   refinement of a coordinator whose operation and save are one step.
