---------------------------- MODULE TaskDispatch ----------------------------
(***************************************************************************)
(* core/tasks/scheduler_core/task_dispatcher.py over the ready queue and   *)
(* the worker pool, called from several threads.                           *)
(*                                                                         *)
(* The queue and the pool lock each of their methods; the dispatcher and   *)
(* the scheduler above it hold no lock across two calls.  A round (the     *)
(* dispatch half of Scheduler.tick: dispatch_until_full, then              *)
(* execute_dispatch_round over its results) is therefore a sequence of     *)
(* atomic steps, and so is every operator request (pause_task,             *)
(* resume_task, cancel_task, set_task_priority) and every queue            *)
(* synchronisation (rebuild_ready_queue, the runtime gate, the unblocking  *)
(* of dependents).  They interleave: the background SchedulerThread ticks  *)
(* while the main thread serves requests.                                  *)
(*                                                                         *)
(* The task repository is abstracted to what it answers: a status query is *)
(* a nondeterministic choice among the branches the status selects.        *)
(*                                                                         *)
(* The dispatcher names tasks by task id alone; a thread's item keeps the  *)
(* storage key only to say which stored task its step is about.            *)
(***************************************************************************)
EXTENDS TaskQueue, WorkerPool, Sequences

CONSTANTS
    Threads,        \* threads that call the scheduler
    Dispatchers,    \* those of them that run dispatch rounds
    RetryOnFail,    \* the requeue_on_retry argument fail_task is given
    MaxRequests     \* bound: operator requests in a behaviour

ASSUME DispatchersAssumption == Dispatchers \subseteq Threads
ASSUME RetryAssumption == RetryOnFail \in BOOLEAN

VARIABLES
    pc,             \* the call each thread makes next
    item,           \* the task (key, priority) that call is about
    back,           \* where a synchronisation call returns to
    results,        \* the DispatchResults a thread has still to settle
    requests,       \* requests and unblocked dependents so far
    abandoned       \* ids a round held slots for when an exception ended it

threadVars == <<pc, item, back, results, requests, abandoned>>
vars == <<queueVars, poolVars, threadVars>>

Clones == [key : Keys, priority : Priorities]

RoundPCs == {"loop", "pop", "acquire", "giveback", "handle", "outcome"}
OutcomePCs == {"finish", "fail", "requeue", "release"}
SettlePCs == {"markFinished", "increment", "reread", "retry", "markFailed",
              "requeueReady", "repoFinished", "repoFailed", "unblock"}
SyncPCs == {"free", "forget", "drop", "block", "admit"}
PCs == {"idle"} \cup RoundPCs \cup OutcomePCs \cup SettlePCs \cup SyncPCs

\* The points between two tasks, where a thread is about none.
Between == {"idle", "loop", "pop", "handle", "outcome", "unblock"}

\* Every thread is at a call of its round or request and holds what that call
\* needs.
TypeOK ==
    /\ QueueTypeOK
    /\ PoolTypeOK
    /\ pc \in [Threads -> PCs]
    /\ item \in [Threads -> Clones \cup {NoKey}]
    /\ \A t \in Threads : pc[t] \notin Between => item[t] \in Clones
    /\ back \in [Threads -> {"idle", "outcome", "unblock"}]
    /\ results \in [Threads -> Seq(Clones)]
    /\ \A t \in Threads :
          pc[t] \in {"handle", "outcome"} \/ back[t] = "outcome" => results[t] # <<>>
    /\ requests \in Nat
    /\ abandoned \subseteq TaskIds

Init ==
    /\ QueueInit
    /\ PoolInit
    /\ pc = [t \in Threads |-> "idle"]
    /\ item = [t \in Threads |-> NoKey]
    /\ back = [t \in Threads |-> "idle"]
    /\ results = [t \in Threads |-> <<>>]
    /\ requests = 0
    /\ abandoned = {}

-----------------------------------------------------------------------------
(* Small steps.                                                            *)

\* The task id thread t's call passes.
Id(t) == TaskOf[item[t].key]

\* The key the queue resolves that id to: no caller here gives a session.
KeyOf(t) == Resolve(Id(t), NoSession)

At(t, l) == pc[t] = l

\* On to the next call about the same task, or done with it.
Goto(t, l) == pc' = [pc EXCEPT ![t] = l] /\ UNCHANGED <<item, back>>

Done(t, l) ==
    /\ pc' = [pc EXCEPT ![t] = l]
    /\ item' = [item EXCEPT ![t] = NoKey]
    /\ back' = [back EXCEPT ![t] = "idle"]

About(t, l, k, p, b) ==
    /\ pc' = [pc EXCEPT ![t] = l]
    /\ item' = [item EXCEPT ![t] = [key |-> k, priority |-> p]]
    /\ back' = [back EXCEPT ![t] = b]

\* Calls that name a task and no priority.
AnyPriority == CHOOSE p \in Priorities : TRUE

\* Mutant: the round goes on to the next result without asking for one.
HomeAlways(t) == "handle"

\* The next dispatch result, or the end of the round.
Home(t) == IF results[t] = <<>> THEN "idle" ELSE "handle"

\* A queue method that finds no task for the id returns False.
RequeueCall(t) ==
    IF CanRequeue(KeyOf(t)) THEN Requeue(KeyOf(t), item[t].priority)
                            ELSE UNCHANGED queueVars

RemoveCall(t) ==
    IF KeyOf(t) = NoKey THEN UNCHANGED queueVars ELSE Remove(KeyOf(t))

CancelCall(k) ==
    LET j == Resolve(TaskOf[k], NoSession)
    IN  IF j = NoKey THEN UNCHANGED queueVars ELSE Cancel(j)

ReleaseCall(t) ==
    IF GetRunning(Id(t)) THEN ReleaseByTask(Id(t)) ELSE UNCHANGED poolVars

-----------------------------------------------------------------------------
(* dispatch_until_full.                                                    *)

\* A thread enters the dispatch half of a tick.
Begin(t) ==
    /\ t \in Dispatchers /\ At(t, "idle") /\ seq < MaxSeq
    /\ Goto(t, "loop")
    /\ UNCHANGED <<queueVars, poolVars, results, requests, abandoned>>

\* The test of the while loop and the first test of dispatch_once: when
\* either finds no free slot the loop ends with the results so far.
CheckFree(t) ==
    /\ At(t, "loop")
    /\ Goto(t, IF HasFreeSlot THEN "pop" ELSE Home(t))
    /\ UNCHANGED <<queueVars, poolVars, results, requests, abandoned>>

Pop(t) ==
    /\ At(t, "pop")
    /\ \E e \in heap :
          PopNext(e) /\ About(t, "acquire", e.key, tasks[e.key].priority, "idle")
    /\ UNCHANGED <<poolVars, results, requests, abandoned>>

\* Mutant: dispatch_until_full goes on after dispatch_once found no task.
PopNoneLoops(t) ==
    /\ At(t, "pop")
    /\ DrainStale
    /\ Goto(t, "loop")
    /\ UNCHANGED <<poolVars, results, requests, abandoned>>

PopNone(t) ==
    /\ At(t, "pop")
    /\ DrainStale
    /\ Goto(t, Home(t))
    /\ UNCHANGED <<poolVars, results, requests, abandoned>>

AcquireSlot(t) ==
    /\ At(t, "acquire")
    /\ Acquire(Id(t))
    /\ results' = [results EXCEPT ![t] = Append(@, item[t])]
    /\ Done(t, "loop")
    /\ UNCHANGED <<queueVars, requests, abandoned>>

\* Mutant: dispatch_once returns without giving the popped task back.
AcquireFailsDrops(t) ==
    /\ At(t, "acquire")
    /\ ~CanAcquire(Id(t))
    /\ Done(t, Home(t))
    /\ UNCHANGED <<queueVars, poolVars, results, requests, abandoned>>

AcquireFails(t) ==
    /\ At(t, "acquire")
    /\ ~CanAcquire(Id(t))
    /\ Goto(t, "giveback")
    /\ UNCHANGED <<queueVars, poolVars, results, requests, abandoned>>

\* queue.requeue(next_task.task_id, priority=next_task.priority), then the
\* loop breaks.
GiveBack(t) ==
    /\ At(t, "giveback")
    /\ RequeueCall(t)
    /\ Done(t, Home(t))
    /\ UNCHANGED <<poolVars, results, requests, abandoned>>

-----------------------------------------------------------------------------
(* execute_dispatch_round: run_one_step.                                   *)

\* The branches of _enqueue_repo_task_if_ready for key k.  The pool's answer
\* comes first; else the repository status selects enqueue, remove, block
\* (remove, then release) or terminal (release, then remove).
SyncBranches(k) ==
    IF GetRunning(TaskOf[k]) THEN {"drop"}
    ELSE {"drop", "block", "forget"} \cup IF seq < MaxSeq THEN {"admit"} ELSE {}

\* run_one_step on the first result: it may leave the queue alone, ...
Execute(t) ==
    /\ At(t, "handle")
    /\ Goto(t, "outcome")
    /\ UNCHANGED <<queueVars, poolVars, results, requests, abandoned>>

\* ... synchronise a task the repository calls ready, ...
ExecuteSync(t) ==
    /\ At(t, "handle")
    /\ LET k == Head(results[t]).key
       IN  \E l \in SyncBranches(k), p \in Priorities : About(t, l, k, p, "outcome")
    /\ UNCHANGED <<queueVars, poolVars, results, requests, abandoned>>

\* ... or collapse a retry that is exhausted: cancel, then the slot.
ExecuteCollapse(t) ==
    /\ At(t, "handle")
    /\ LET k == Head(results[t]).key
       IN  CancelCall(k) /\ About(t, "free", k, AnyPriority, "outcome")
    /\ UNCHANGED <<poolVars, results, requests, abandoned>>

\* The repository status and the runner's result choose the finalize action:
\* finish, fail, requeue_if_ready, or release (block, already terminal, any
\* other status).
Outcome(t) ==
    /\ At(t, "outcome")
    /\ \E l \in OutcomePCs :
          /\ l = "requeue" => seq < MaxSeq
          /\ About(t, l, Head(results[t]).key, Head(results[t]).priority, "idle")
    /\ results' = [results EXCEPT ![t] = Tail(@)]
    /\ UNCHANGED <<queueVars, poolVars, requests, abandoned>>

\* The task ids thread t holds DispatchResults for.
PendingIds(t) == {TaskOf[results[t][i].key] : i \in DOMAIN results[t]}

\* An exception that handle_dispatch_result does not catch leaves the round:
\* the results not yet settled are dropped with their slots still taken.
\* Every read and write of the repository outside run_one_step may raise.
RaisePCs == {"handle", "outcome", "repoFinished", "repoFailed", "unblock"}

Raise(t) ==
    /\ abandoned' = abandoned \cup PendingIds(t)
    /\ results' = [results EXCEPT ![t] = <<>>]
    /\ Done(t, "idle")

RoundRaises(t) ==
    /\ pc[t] \in RaisePCs
    /\ Raise(t)
    /\ UNCHANGED <<queueVars, poolVars, requests>>

-----------------------------------------------------------------------------
(* apply_finalize_decision.                                                *)

\* complete_task and fail_task up to release_by_task.  A task that
\* get_running_task or release_by_task does not find ends the call, not the
\* handler: the repository is marked either way.
ReleaseThen(t, l, m) ==
    /\ ReleaseCall(t)
    /\ Goto(t, IF GetRunning(Id(t)) THEN l ELSE m)

Finish(t) ==
    /\ At(t, "finish")
    /\ ReleaseThen(t, "markFinished", "repoFinished")
    /\ UNCHANGED <<queueVars, results, requests, abandoned>>

\* Mutant: fail_task goes on to the retry count without release_by_task.
FailKeepsSlot(t) ==
    /\ At(t, "fail")
    /\ Goto(t, IF GetRunning(Id(t)) THEN "increment" ELSE "repoFailed")
    /\ UNCHANGED <<queueVars, poolVars, results, requests, abandoned>>

Fail(t) ==
    /\ At(t, "fail")
    /\ ReleaseThen(t, "increment", "repoFailed")
    /\ UNCHANGED <<queueVars, results, requests, abandoned>>

MarkFinishedCall(t) ==
    /\ At(t, "markFinished")
    /\ IF KeyOf(t) = NoKey THEN UNCHANGED queueVars ELSE MarkFinished(KeyOf(t))
    /\ Goto(t, "repoFinished")
    /\ UNCHANGED <<poolVars, results, requests, abandoned>>

\* mark_finished refuses the completion authority: PermissionError, after
\* the slot was released.
MarkFinishedDenied(t) ==
    /\ At(t, "markFinished") /\ KeyOf(t) # NoKey
    /\ Raise(t)
    /\ UNCHANGED <<queueVars, poolVars, requests>>

\* get_task and increment_retry.  Without a stored task the first returns
\* None, which ends the call, or has seen it just before it was removed.
IncrementCall(t) ==
    /\ At(t, "increment")
    /\ IF KeyOf(t) = NoKey
       THEN UNCHANGED queueVars /\ \E l \in {"reread", "repoFailed"} : Goto(t, l)
       ELSE IncrementRetry(KeyOf(t)) /\ Goto(t, "reread")
    /\ UNCHANGED <<poolVars, results, requests, abandoned>>

\* get_task again: the clone's priority and retry_count decide what follows.
Reread(t) ==
    /\ At(t, "reread")
    /\ LET k == KeyOf(t)
           retry == RetryOnFail /\ tasks[k].retries <= MaxRetries[k]
       IN  IF k = NoKey THEN Goto(t, "repoFailed")
           ELSE About(t, IF retry THEN "retry" ELSE "markFailed",
                      item[t].key, tasks[k].priority, "idle")
    /\ UNCHANGED <<queueVars, poolVars, results, requests, abandoned>>

Retry(t) ==
    /\ At(t, "retry")
    /\ RequeueCall(t)
    /\ Goto(t, "repoFailed")
    /\ UNCHANGED <<poolVars, results, requests, abandoned>>

MarkFailedCall(t) ==
    /\ At(t, "markFailed")
    /\ IF KeyOf(t) = NoKey THEN UNCHANGED queueVars ELSE MarkFailed(KeyOf(t))
    /\ Goto(t, "repoFailed")
    /\ UNCHANGED <<poolVars, results, requests, abandoned>>

\* _mark_repo_task_failed: nothing when the repository has lost the task,
\* else it releases the worker once more.
RepoFailed(t) ==
    /\ At(t, "repoFailed")
    /\ ReleaseCall(t) \/ UNCHANGED poolVars
    /\ Done(t, Home(t))
    /\ UNCHANGED <<queueVars, results, requests, abandoned>>

\* _mark_repo_task_finished: the same, and then it unblocks the dependents.
RepoFinished(t) ==
    /\ At(t, "repoFinished")
    /\ \/ ReleaseCall(t) /\ Done(t, "unblock")
       \/ UNCHANGED poolVars /\ Done(t, Home(t))
    /\ UNCHANGED <<queueVars, results, requests, abandoned>>

\* _unblock_tasks_if_dependencies_done: one dependent after the other.
Unblock(t) ==
    /\ At(t, "unblock") /\ requests < MaxRequests
    /\ \E k \in Keys, p \in Priorities : \E l \in SyncBranches(k) :
          About(t, l, k, p, "unblock")
    /\ requests' = requests + 1
    /\ UNCHANGED <<queueVars, poolVars, results, abandoned>>

Unblocked(t) ==
    /\ At(t, "unblock")
    /\ Done(t, Home(t))
    /\ UNCHANGED <<queueVars, poolVars, results, requests, abandoned>>

\* "requeue_if_ready": the slot first, whatever release_by_task returns, then
\* requeue with the priority the task had when it was popped, if
\* _can_requeue_task (a repository query) allows it.
ReleaseForRequeue(t) ==
    /\ At(t, "requeue")
    /\ ReleaseCall(t)
    /\ Goto(t, "requeueReady") \/ Done(t, Home(t))
    /\ UNCHANGED <<queueVars, results, requests, abandoned>>

RequeueReady(t) ==
    /\ At(t, "requeueReady")
    /\ RequeueCall(t)
    /\ Done(t, Home(t))
    /\ UNCHANGED <<poolVars, results, requests, abandoned>>

\* "block", a terminal repository status, or an action of no other kind.
ReleaseOnly(t) ==
    /\ At(t, "release")
    /\ ReleaseCall(t)
    /\ Done(t, Home(t))
    /\ UNCHANGED <<queueVars, results, requests, abandoned>>

-----------------------------------------------------------------------------
(* Requests: operator calls, and the queue synchronisation of a tick.      *)

Request(t) ==
    /\ At(t, "idle") /\ requests < MaxRequests
    /\ requests' = requests + 1

\* pause_task.
PauseRequest(t) ==
    /\ Request(t)
    /\ \E k \in Keys : CancelCall(k)
    /\ Goto(t, "idle")
    /\ UNCHANGED <<poolVars, results, abandoned>>

\* cancel_task, and the runtime gate's _cancel_ready_queue_task: the queue,
\* then the worker.
CancelRequest(t) ==
    /\ Request(t)
    /\ \E k \in Keys : CancelCall(k) /\ About(t, "free", k, AnyPriority, "idle")
    /\ UNCHANGED <<poolVars, results, abandoned>>

\* set_task_priority.
PriorityRequest(t) ==
    /\ Request(t) /\ seq < MaxSeq
    /\ \E k \in Keys, p \in Priorities :
          LET j == Resolve(TaskOf[k], NoSession)
          IN  j # NoKey /\ UpdatePriority(j, p)
    /\ Goto(t, "idle")
    /\ UNCHANGED <<poolVars, results, abandoned>>

\* resume_task on a task whose dependencies are not done: route_blocked_state
\* releases the worker and leaves the queue alone.
BlockRequest(t) ==
    /\ Request(t)
    /\ \E k \in Keys : About(t, "free", k, AnyPriority, "idle")
    /\ UNCHANGED <<queueVars, poolVars, results, abandoned>>

\* rebuild_ready_queue on a task whose repository status is terminal:
\* release the worker, then remove the task.
ForgetRequest(t) ==
    /\ Request(t)
    /\ \E k \in Keys : About(t, "forget", k, AnyPriority, "idle")
    /\ UNCHANGED <<queueVars, poolVars, results, abandoned>>

\* _enqueue_repo_task_if_ready (submit, resume, unblock, rebuild).  The test
\* of the pool and the call it decides are two steps.
SyncRequest(t) ==
    /\ Request(t)
    /\ \E k \in Keys, p \in Priorities : \E l \in SyncBranches(k) :
          About(t, l, k, p, "idle")
    /\ UNCHANGED <<queueVars, poolVars, results, abandoned>>

Free(t) ==
    /\ At(t, "free")
    /\ ReleaseCall(t)
    /\ Done(t, back[t])
    /\ UNCHANGED <<queueVars, results, requests, abandoned>>

Forget(t) ==
    /\ At(t, "forget")
    /\ ReleaseCall(t)
    /\ Goto(t, "drop")
    /\ UNCHANGED <<queueVars, results, requests, abandoned>>

Drop(t) ==
    /\ At(t, "drop")
    /\ RemoveCall(t)
    /\ Done(t, back[t])
    /\ UNCHANGED <<poolVars, results, requests, abandoned>>

\* remove, then route_blocked_state: it releases the worker unless the
\* repository has lost the task or calls it terminal by now.
Block(t) ==
    /\ At(t, "block")
    /\ RemoveCall(t)
    /\ Goto(t, "free") \/ Done(t, back[t])
    /\ UNCHANGED <<poolVars, results, requests, abandoned>>

\* enqueue(scheduled_task, overwrite): only rebuild passes False.  The
\* priority and the retry count are the repository's.
Admit(t) ==
    /\ At(t, "admit")
    /\ \E c \in Times, n \in 0 .. MaxRetries[item[t].key],
          o \in IF back[t] = "idle" THEN BOOLEAN ELSE {TRUE} :
          IF CanEnqueue(item[t].key, o)
          THEN Enqueue(item[t].key, "queued", item[t].priority, c, n, o)
          ELSE UNCHANGED queueVars
    /\ Done(t, back[t])
    /\ UNCHANGED <<poolVars, results, requests, abandoned>>

-----------------------------------------------------------------------------
RoundStep(t) ==
    \/ CheckFree(t) \/ Pop(t) \/ PopNone(t) \/ AcquireSlot(t)
    \/ AcquireFails(t) \/ GiveBack(t) \/ Execute(t) \/ ExecuteSync(t)
    \/ ExecuteCollapse(t) \/ Outcome(t) \/ RoundRaises(t)

SettleStep(t) ==
    \/ Finish(t) \/ Fail(t) \/ MarkFinishedCall(t) \/ MarkFinishedDenied(t)
    \/ IncrementCall(t) \/ Reread(t) \/ Retry(t) \/ MarkFailedCall(t)
    \/ RepoFailed(t) \/ RepoFinished(t) \/ Unblock(t) \/ Unblocked(t)
    \/ ReleaseForRequeue(t) \/ RequeueReady(t) \/ ReleaseOnly(t)

SyncStep(t) == Free(t) \/ Forget(t) \/ Drop(t) \/ Block(t) \/ Admit(t)

NewRequest(t) ==
    \/ PauseRequest(t) \/ CancelRequest(t) \/ PriorityRequest(t)
    \/ BlockRequest(t) \/ ForgetRequest(t) \/ SyncRequest(t)

ThreadStep(t) == RoundStep(t) \/ SettleStep(t) \/ SyncStep(t)

\* Between two rounds and without a request every thread sleeps.
Rest == (\A t \in Threads : At(t, "idle")) /\ UNCHANGED vars

Next == Rest \/ \E t \in Threads : ThreadStep(t) \/ NewRequest(t) \/ Begin(t)

Spec == Init /\ [][Next]_vars

\* A thread that is inside a call goes on: Python threads are preempted, not
\* stopped.  Nothing obliges a thread to begin a round or an operator to ask.
FairSpec == Spec /\ \A t \in Threads : WF_vars(ThreadStep(t))

-----------------------------------------------------------------------------
(* Correctness.                                                            *)

\* The slots a thread will still release: those of the results it has not
\* settled and of the one it is about to settle.
Owes(t) == PendingIds(t) \cup IF pc[t] \in OutcomePCs THEN {Id(t)} ELSE {}

Owed == abandoned \cup UNION {Owes(t) : t \in Threads}

\* No slot leaks: a busy slot belongs to a task some thread still has to
\* settle, or to one whose round was ended by an exception.
SlotAccounted == \A w \in Workers : byWorker[w] # NoId => byWorker[w] \in Owed

\* A popped task whose slot is not yet decided.
InFlight(k) == \E t \in Threads : pc[t] \in {"acquire", "giveback"} /\ item[t].key = k

Dispatched(k) ==
    \E t \in Threads : \E i \in DOMAIN results[t] : results[t][i].key = k

\* Two rounds may race for the last free slot; the loser's task goes back.
\* A popped task is dispatched or queued again, unless a request takes it
\* out of the queue's hands meanwhile.
PoppedSettles ==
    \A k \in Keys :
        InFlight(k) ~> \/ Dispatched(k) \/ k \in queued
                       \/ k \notin Stored \/ tasks[k].status # "running"

\* dispatch_until_full ends although other threads free slots and admit
\* tasks while it runs.
RoundsEnd == \A t \in Dispatchers : pc[t] = "loop" ~> pc[t] = "idle"

\* "running tasks are owned by the worker pool and must not be re-enqueued".
RunningNotQueued == \A k \in queued : ~GetRunning(TaskOf[k])
=============================================================================
