----------------------------- MODULE WorkerPool -----------------------------
(***************************************************************************)
(* The worker slots of core/tasks/scheduler_core/worker_pool.py.           *)
(*                                                                         *)
(* A pool owns MaxWorkers slots and two indexes of the tasks that occupy   *)
(* them, one by worker and one by task id.  Every method runs under the    *)
(* pool's RLock, so every method is one atomic action here.  The three     *)
(* structures are redundant: the slot says "busy with t", _running_by_     *)
(* worker holds the record of the run, _running_by_task finds the worker   *)
(* of a task id.  has_free_slot counts the second, acquire scans the       *)
(* first and asks the third, so the pool is only right while they agree.   *)
(***************************************************************************)
EXTENDS SchedulerIds

CONSTANT MaxWorkers   \* WorkerPool(max_workers=...)

ASSUME MaxWorkersAssumption == MaxWorkers \in Nat \ {0}

VARIABLES
    slots,        \* _slots: worker -> task id the slot is busy with, or NoId
    byWorker,     \* _running_by_worker: worker -> task id of its record, or NoId
    byTask        \* _running_by_task: task id -> worker of its record, or 0

poolVars == <<slots, byWorker, byTask>>

\* worker-1 .. worker-N, in the insertion order of the _slots dict.
Workers == 1 .. MaxWorkers

NoWorker == 0

PoolTypeOK ==
    /\ slots \in [Workers -> TaskIds \cup {NoId}]
    /\ byWorker \in [Workers -> TaskIds \cup {NoId}]
    /\ byTask \in [TaskIds -> Workers \cup {NoWorker}]

PoolInit ==
    /\ slots = [w \in Workers |-> NoId]
    /\ byWorker = [w \in Workers |-> NoId]
    /\ byTask = [t \in TaskIds |-> NoWorker]

-----------------------------------------------------------------------------
(* Queries.                                                                *)

BusyWorkers == {w \in Workers : byWorker[w] # NoId}

\* free_count() > 0: slots minus records, not a look at the slots themselves.
HasFreeSlot == BusyWorkers # Workers

GetRunning(t) == byTask[t] # NoWorker

IdleSlots == {w \in Workers : slots[w] = NoId}

\* Mutant: the busy flag is not tested.
FirstSlot(w) == \A v \in Workers : w <= v

\* acquire scans the slots in insertion order and takes the first idle one.
FirstIdle(w) == w \in IdleSlots /\ \A v \in IdleSlots : w <= v

CanAcquire(t) == ~GetRunning(t) /\ IdleSlots # {}

-----------------------------------------------------------------------------
(* Updates.                                                                *)

Occupy(w, t) ==
    /\ slots' = [slots EXCEPT ![w] = t]
    /\ byWorker' = [byWorker EXCEPT ![w] = t]
    /\ byTask' = [byTask EXCEPT ![t] = w]

\* acquire(task) that returns a worker id; otherwise it returns None and
\* changes nothing.
Acquire(t) ==
    /\ ~GetRunning(t)
    /\ \E w \in Workers : FirstIdle(w) /\ Occupy(w, t)

\* assign(worker_id, task_id): asks only whether the slot is busy, never
\* whether the task already occupies another one.
Assign(w, t) ==
    /\ slots[w] = NoId
    /\ Occupy(w, t)

\* Mutants: a release that leaves the slot busy, and one that leaves the
\* by-task index entry.
ReleaseKeepsSlot(w) ==
    /\ byWorker[w] # NoId
    /\ byTask' = [byTask EXCEPT ![byWorker[w]] = NoWorker]
    /\ byWorker' = [byWorker EXCEPT ![w] = NoId]
    /\ UNCHANGED slots

ReleaseKeepsIndex(w) ==
    /\ byWorker[w] # NoId
    /\ byWorker' = [byWorker EXCEPT ![w] = NoId]
    /\ slots' = [slots EXCEPT ![w] = NoId]
    /\ UNCHANGED byTask

\* release_by_worker (and release): drops the record, the index entry of the
\* record's task id and the slot.
ReleaseByWorker(w) ==
    /\ byWorker[w] # NoId
    /\ byTask' = [byTask EXCEPT ![byWorker[w]] = NoWorker]
    /\ byWorker' = [byWorker EXCEPT ![w] = NoId]
    /\ slots' = [slots EXCEPT ![w] = NoId]

ReleaseByTask(t) ==
    /\ GetRunning(t)
    /\ ReleaseByWorker(byTask[t])

-----------------------------------------------------------------------------
PoolNext ==
    \/ \E t \in TaskIds : Acquire(t)
    \/ \E w \in Workers, t \in TaskIds : Assign(w, t)
    \/ \E w \in Workers : ReleaseByWorker(w)
    \/ \E t \in TaskIds : ReleaseByTask(t)

PoolSpec == PoolInit /\ [][PoolNext]_poolVars

-----------------------------------------------------------------------------
(* What callers rely on, whatever mix of acquire, assign and the two        *)
(* releases they use.                                                       *)

\* has_free_slot (which counts records) and acquire (which scans slots) never
\* disagree: a slot is busy with t exactly when its worker's record is t's.
SlotsAgree == \A w \in Workers : slots[w] = byWorker[w]

\* The by-task index never points at a worker that runs something else, so
\* release_by_task can never free the slot of another task.
IndexSound == \A t \in TaskIds : GetRunning(t) => byWorker[byTask[t]] = t

(***************************************************************************)
(* The callers that never use assign (the dispatcher and the scheduler).   *)
(***************************************************************************)
AcquireNext ==
    \/ \E t \in TaskIds : Acquire(t)
    \/ \E w \in Workers : ReleaseByWorker(w)
    \/ \E t \in TaskIds : ReleaseByTask(t)

AcquireSpec == PoolInit /\ [][AcquireNext]_poolVars

\* Every record is found by its task id: no slot is out of reach of
\* release_by_task, and acquire's duplicate test sees every running task.
IndexComplete ==
    \A w \in Workers : byWorker[w] # NoId => byTask[byWorker[w]] = w

\* A task id never occupies two slots.
OneSlotPerTask ==
    \A v, w \in Workers : byWorker[v] # NoId /\ byWorker[v] = byWorker[w] => v = w

\* The pool implements the slot table: acquire never double-books a task or a
\* slot although it consults only its index and its flags.
Table == INSTANCE SlotTable WITH Slots <- Workers, occupant <- byWorker

PoolImplementsTable == Table!Spec
=============================================================================
