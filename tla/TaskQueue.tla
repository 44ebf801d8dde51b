----------------------------- MODULE TaskQueue ------------------------------
(***************************************************************************)
(* The ready queue of core/tasks/scheduler_core/task_scheduler_queue.py.   *)
(*                                                                         *)
(* TaskSchedulerQueue keeps three structures under one RLock: a binary     *)
(* heap of (-priority, created_at, sequence, storage key), the dictionary  *)
(* of the stored tasks, and the set of the keys that are queued.  Deletion *)
(* is lazy: cancel, remove, overwrite and a change of priority leave old   *)
(* heap entries behind, and pop_next and peek_next skip the entries whose  *)
(* key is not queued.  A heap is a set of entries here: the sequence       *)
(* number makes entries distinct and their order total, and heappop takes  *)
(* the least.                                                              *)
(*                                                                         *)
(* Every method holds the lock, so every method is one action.  A call     *)
(* that returns False or None without changing anything is a stuttering    *)
(* step, and the action's guard is the condition under which it is not.    *)
(***************************************************************************)
EXTENDS SchedulerIds

CONSTANTS
    Keys,          \* storage keys: what _storage_key can return
    Sessions,      \* session ids
    NoSession,     \* the empty session id
    NoKey,         \* _resolve_key's None
    NoTask,        \* no entry in _tasks
    NoIdentity,    \* the empty canonical work identity
    TaskOf,        \* key -> the task id it was built from
    SessionOf,     \* key -> the session id it was built from, or NoSession
    Branched,      \* the keys built from a goal lineage and a branch as well
    WorkIdentity,  \* key -> canonical_work_identity of its payload
    MaxRetries,    \* key -> ScheduledTask.max_retries
    Priorities,    \* the priorities callers give
    Times,         \* the values of ScheduledTask.created_at
    MaxSeq         \* bound: how many heap entries a behaviour may push

\* STATUS_*.  "queued" stands for every ready status a repository may give
\* (queued, ready, retry, retrying), "blocked" for the ones it calls unready.
Statuses == {"queued", "running", "finished", "failed", "cancelled", "blocked"}

TaskRecords == [status : Statuses, priority : Priorities, created : Times,
                retries : Nat]

HeapEntries == [priority : Priorities, created : Times, seq : Nat, key : Keys]

ASSUME KeyAssumption ==
    /\ NoKey \notin Keys
    /\ NoSession \notin Sessions
    /\ TaskOf \in [Keys -> TaskIds]
    /\ SessionOf \in [Keys -> Sessions \cup {NoSession}]
    /\ Branched \subseteq Keys
    /\ MaxRetries \in [Keys -> Nat]
    /\ \A j, k \in Keys \ Branched :
          TaskOf[j] = TaskOf[k] /\ SessionOf[j] = SessionOf[k] => j = k

ASSUME OrderAssumption ==
    Priorities \subseteq Int /\ Priorities # {} /\ Times \subseteq Nat

ASSUME NoTaskAssumption == NoTask \notin TaskRecords

VARIABLES
    heap,          \* _heap, as the set of its entries
    tasks,         \* _tasks: key -> stored task, or NoTask
    queued,        \* _queued_ids
    seq            \* the next value of _sequence

queueVars == <<heap, tasks, queued, seq>>

QueueTypeOK ==
    /\ heap \subseteq HeapEntries
    /\ tasks \in [Keys -> TaskRecords \cup {NoTask}]
    /\ queued \subseteq Keys
    /\ seq \in Nat

QueueInit ==
    /\ heap = {}
    /\ tasks = [k \in Keys |-> NoTask]
    /\ queued = {}
    /\ seq = 0

-----------------------------------------------------------------------------
(* Key resolution.                                                         *)

Stored == {k \in Keys : tasks[k] # NoTask}

\* The member of a one-element set of keys, NoKey for any other set.
Only(S) == IF \E k \in S : S = {k} THEN CHOOSE k \in S : S = {k} ELSE NoKey

\* _resolve_key(task_id, session_id=...): the key "session::task", else the
\* bare task id, else the one stored task with that id (in that session).
Plain(t, s) == {k \in Stored \ Branched : TaskOf[k] = t /\ SessionOf[k] = s}

\* Mutant: the search by task id forgets the session.
MatchesAnySession(t, s) == {k \in Stored : TaskOf[k] = t}

Matches(t, s) ==
    {k \in Stored : TaskOf[k] = t /\ (s = NoSession \/ SessionOf[k] = s)}

Resolve(t, s) ==
    IF s # NoSession /\ Plain(t, s) # {} THEN Only(Plain(t, s))
    ELSE IF Plain(t, NoSession) # {} THEN Only(Plain(t, NoSession))
    ELSE Only(Matches(t, s))

-----------------------------------------------------------------------------
(* The heap.                                                               *)

\* Mutant: the heap entry carries priority, not -priority.
BeforeUnnegated(d, e) ==
    \/ d.priority < e.priority
    \/ d.priority = e.priority /\ d.created < e.created
    \/ d.priority = e.priority /\ d.created = e.created /\ d.seq < e.seq

\* Tuple order of (-priority, created_at, sequence).
Before(d, e) ==
    \/ d.priority > e.priority
    \/ d.priority = e.priority /\ d.created < e.created
    \/ d.priority = e.priority /\ d.created = e.created /\ d.seq < e.seq

\* The entries pop_next and peek_next do not skip.
Live == {e \in heap : e.key \in queued /\ tasks[e.key] # NoTask}

IsHead(e) == e \in Live /\ \A d \in Live : d = e \/ Before(e, d)

\* What the loops of pop_next and peek_next take off the heap before e.
Passed(e) == {d \in heap : Before(d, e)}

Push(k, rec) ==
    /\ heap' = heap \cup {[priority |-> rec.priority, created |-> rec.created,
                           seq |-> seq, key |-> k]}
    /\ seq' = seq + 1
    /\ queued' = queued \cup {k}
    /\ tasks' = [tasks EXCEPT ![k] = rec]

-----------------------------------------------------------------------------
(* Admission.                                                              *)

\* Mutant: only the tasks still in the queue count as duplicates.
QueuedDuplicate(k) ==
    /\ WorkIdentity[k] # NoIdentity
    /\ \E j \in queued \ {k} : WorkIdentity[j] = WorkIdentity[k]

\* duplicate_identity: another stored task has the same non-empty work
\* identity.
SemanticDuplicate(k) ==
    /\ WorkIdentity[k] # NoIdentity
    /\ \E j \in Stored \ {k} : WorkIdentity[j] = WorkIdentity[k]

CanEnqueue(k, overwrite) ==
    ~SemanticDuplicate(k) /\ (k \in Stored => overwrite)

\* enqueue(task, overwrite): the caller's status, priority, created_at and
\* retry_count are stored as given; an entry left by an earlier admission
\* stays in the heap.
Enqueue(k, status, p, c, n, overwrite) ==
    /\ CanEnqueue(k, overwrite)
    /\ Push(k, [status |-> status, priority |-> p, created |-> c, retries |-> n])

\* requeue(task_id, priority=p): the caller's priority replaces the stored one.
CanRequeue(k) == k \in Stored \ queued

Requeue(k, p) ==
    /\ CanRequeue(k)
    /\ Push(k, [tasks[k] EXCEPT !.status = "queued", !.priority = p])

\* Mutant: upsert_task marks the key queued without a heap entry.
UpsertMarks(k, status, p, c, n) ==
    /\ tasks' = [tasks EXCEPT ![k] =
                    [status |-> status, priority |-> p, retries |-> n, created |-> c]]
    /\ queued' = queued \cup {k}
    /\ UNCHANGED <<heap, seq>>

\* upsert_task: replaces the stored fields (created_at excepted) and touches
\* neither the heap nor the queued set.
Upsert(k, status, p, c, n) ==
    /\ tasks' = [tasks EXCEPT ![k] =
                    [status |-> status, priority |-> p, retries |-> n,
                     created |-> IF k \in Stored THEN tasks[k].created ELSE c]]
    /\ UNCHANGED <<heap, queued, seq>>

-----------------------------------------------------------------------------
(* Delivery.                                                               *)

\* pop_next, with e the entry that ends its loop.  The keys of the skipped
\* entries are not queued, or are queued without a stored task and lose
\* their mark.
PopNext(e) ==
    /\ IsHead(e)
    /\ heap' = heap \ (Passed(e) \cup {e})
    /\ queued' = queued \ ({d.key : d \in Passed(e)} \cup {e.key})
    /\ tasks' = [tasks EXCEPT ![e.key].status = "running"]
    /\ UNCHANGED seq

\* pop_next or peek_next on a heap without a live entry: empties it and
\* returns None.
DrainStale ==
    /\ Live = {}
    /\ heap' = {}
    /\ queued' = queued \ {d.key : d \in heap}
    /\ UNCHANGED <<tasks, seq>>

\* peek_next (also called by stats): drops the stale entries before the head.
PeekNext(e) ==
    /\ IsHead(e)
    /\ heap' = heap \ Passed(e)
    /\ queued' = queued \ {d.key : d \in Passed(e)}
    /\ UNCHANGED <<tasks, seq>>

-----------------------------------------------------------------------------
(* Changes to a stored task.                                               *)

Unmark(k, status) ==
    /\ k \in Stored
    /\ tasks' = [tasks EXCEPT ![k].status = status]
    /\ queued' = queued \ {k}
    /\ UNCHANGED <<heap, seq>>

\* Mutant: cancel changes the status and keeps the queued mark.
CancelKeepsMark(k) ==
    /\ k \in Stored
    /\ tasks' = [tasks EXCEPT ![k].status = "cancelled"]
    /\ UNCHANGED <<heap, queued, seq>>

Cancel(k) == Unmark(k, "cancelled")

\* mark_finished with a completion authority for the task (without one it
\* raises PermissionError before it changes anything).
MarkFinished(k) == Unmark(k, "finished")

MarkFailed(k) == Unmark(k, "failed")

IncrementRetry(k) ==
    /\ k \in Stored
    /\ tasks' = [tasks EXCEPT ![k].retries = @ + 1]
    /\ UNCHANGED <<heap, queued, seq>>

\* update_priority: a queued task gets a second heap entry; the old one stays.
UpdatePriority(k, p) ==
    /\ k \in Stored
    /\ LET rec == [tasks[k] EXCEPT !.priority = p]
       IN  IF k \in queued
           THEN Push(k, rec)
           ELSE /\ tasks' = [tasks EXCEPT ![k] = rec]
                /\ UNCHANGED <<heap, queued, seq>>

Remove(k) ==
    /\ k \in Stored
    /\ tasks' = [tasks EXCEPT ![k] = NoTask]
    /\ queued' = queued \ {k}
    /\ UNCHANGED <<heap, seq>>

-----------------------------------------------------------------------------
(* The queue on its own, driven by any sequence of calls.                  *)

\* Callers name tasks by task id and, some of them, by session id.
Addressable ==
    {k \in Stored : \E t \in TaskIds, s \in Sessions \cup {NoSession} :
                        Resolve(t, s) = k}

\* The calls that push a heap entry, bounded by MaxSeq.
PushCalls ==
    /\ seq < MaxSeq
    /\ \/ \E k \in Keys, p \in Priorities, c \in Times, o \in BOOLEAN :
             \E n \in 0 .. MaxRetries[k] : Enqueue(k, "queued", p, c, n, o)
       \/ \E k \in Addressable, p \in Priorities : Requeue(k, p)
       \/ \E k \in Addressable, p \in Priorities : UpdatePriority(k, p)

DeliveryCalls ==
    \/ \E e \in heap : PopNext(e)
    \/ \E e \in heap : PeekNext(e)
    \/ DrainStale

TaskCalls ==
    \E k \in Addressable :
        \/ Cancel(k)
        \/ MarkFinished(k)
        \/ MarkFailed(k)
        \/ Remove(k)
        \/ tasks[k].retries < MaxRetries[k] /\ IncrementRetry(k)

QueueNext == PushCalls \/ DeliveryCalls \/ TaskCalls

QueueSpec == QueueInit /\ [][QueueNext]_queueVars

\* The same with upsert_task, which only the repository's tests call.
UpsertCall ==
    \E k \in Keys, p \in Priorities, c \in Times, st \in {"queued", "blocked"} :
        Upsert(k, st, p, c, 0)

ApiNext == QueueNext \/ UpsertCall

-----------------------------------------------------------------------------
(* Correctness.                                                            *)

\* Lazy deletion never strands a task: every queued key has a stored task
\* and at least one heap entry through which pop_next will reach it.
QueuedReachable ==
    \A k \in queued : k \in Stored /\ \E e \in heap : e.key = k

\* heapq never has to compare two entries with equal sequence numbers (it
\* would then order tasks by their key).
SequenceDistinct ==
    /\ \A e \in heap : e.seq < seq
    /\ \A d, e \in heap : d.seq = e.seq => d = e

\* The status operators see tells whether the task is queued: a task is in
\* the queued set exactly when its stored status says so.
QueuedStatus ==
    \A k \in Keys : k \in queued <=> k \in Stored /\ tasks[k].status = "queued"

\* Every queued task has an entry that carries its current priority and
\* created_at: a stale entry may still be there, a fresh one always is.
CurrentEntry ==
    \A k \in queued : \E e \in heap :
        /\ e.key = k
        /\ e.priority = tasks[k].priority
        /\ e.created = tasks[k].created

\* The entry pop_next takes ranks at least as high as every queued task does
\* by its current priority and created_at: a raised priority is honoured.
HeadRanksFirst ==
    \A e \in heap : IsHead(e) =>
        \A k \in queued :
            \/ e.priority > tasks[k].priority
            \/ e.priority = tasks[k].priority /\ e.created <= tasks[k].created

\* Admission is idempotent over work, not only over keys: two stored tasks
\* never share a canonical work identity.
OneTaskPerWork ==
    \A j, k \in Stored :
        WorkIdentity[j] = WorkIdentity[k] /\ WorkIdentity[j] # NoIdentity => j = k

\* A call scoped to a session never resolves to a task of another session.
SessionIsolation ==
    \A t \in TaskIds, s \in Sessions :
        Resolve(t, s) # NoKey => SessionOf[Resolve(t, s)] \in {s, NoSession}

\* The order the class documents: the task pop_next returns has the highest
\* priority of the queued tasks.
HighestPriorityFirst ==
    \A e \in heap : IsHead(e) =>
        \A k \in queued : tasks[k].priority <= tasks[e.key].priority
=============================================================================
