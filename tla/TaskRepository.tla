--------------------------- MODULE TaskRepository ----------------------------
(***************************************************************************)
(* TaskRepository of core/tasks/task_repository.py and the writes of the   *)
(* scheduler to it.                                                        *)
(*                                                                         *)
(* Every method of the repository is one step: it runs under the store     *)
(* lock (TaskStoreLock).  The scheduler's writes are not: they read a task *)
(* in one step, decide, and write the whole task back in another, while    *)
(* other threads and processes do the same.                                *)
(***************************************************************************)
EXTENDS Naturals, FiniteSets

CONSTANTS
    Ids,        \* task ids
    Clients,    \* threads and processes that use the repository
    NoTask,     \* no such task
    NoCopy,     \* the client holds no task
    MaxDeps     \* bound on the dependencies of a task

VARIABLES
    tasks,      \* tasks.json: Ids -> [status, deps] or NoTask
    copy,       \* the task each client has read, and what it is about to do
    deleted     \* observability: the ids that have been deleted

vars == <<tasks, copy, deleted>>

\* "created" stands for every status that the repository leaves alone and the
\* scheduler does not count as terminal: planning, running, paused, retrying.
Statuses == {"created", "queued", "blocked", "finished", "failed"}

Terminal == {"finished", "failed"}

DepSets == {D \in SUBSET Ids : Cardinality(D) <= MaxDeps}

Task == [status : Statuses, deps : DepSets]

\* "decide": the client has read the task; "block": it has read it again and
\* will write it as blocked.
Copy == [id : Ids, task : Task \cup {NoTask}, todo : {"decide", "block"}]

RepositoryAssumption == MaxDeps \in Nat /\ NoTask \notin Task /\ NoCopy \notin Copy

\* Every stored and every copied task has a status the scheduler knows.
TypeOK ==
    /\ tasks \in [Ids -> Task \cup {NoTask}]
    /\ copy \in [Clients -> Copy \cup {NoCopy}]
    /\ deleted \in SUBSET Ids

Init ==
    /\ tasks = [i \in Ids |-> NoTask]
    /\ copy = [c \in Clients |-> NoCopy]
    /\ deleted = {}

-----------------------------------------------------------------------------
(* The dependency graph.                                                   *)

Exists(db, i) == db[i] # NoTask

Completed(db, i) == Exists(db, i) /\ db[i].status = "finished"

\* _detect_cycle over _build_graph: edges to unknown tasks do not count.
HasCycle(db) ==
    \E S \in SUBSET {i \in Ids : Exists(db, i)} :
        S # {} /\ \A i \in S : db[i].deps \cap S # {}

\* Mutant: a dependency need only be known.
RefreshedKnown(db, task) ==
    IF task.status \notin {"queued", "blocked"} THEN task
    ELSE [task EXCEPT !.status =
             IF \A d \in task.deps : Exists(db, d) THEN "queued" ELSE "blocked"]

\* _refresh_blocked_status: queued and blocked follow the dependencies.
Refreshed(db, task) ==
    IF task.status \notin {"queued", "blocked"} THEN task
    ELSE [task EXCEPT !.status =
             IF \A d \in task.deps : Completed(db, d) THEN "queued" ELSE "blocked"]

Put(db, i, task) == [db EXCEPT ![i] = task]

\* The database with task i appended or replaced, and i refreshed in it.
PutRefreshed(db, i, task) ==
    Put(db, i, Refreshed(Put(db, i, task), task))

-----------------------------------------------------------------------------
(* The repository's methods.                                               *)

\* Mutant: dependencies are not looked up.
CanAddUnknown(db, i, task) ==
    /\ ~Exists(db, i)
    /\ ~HasCycle(Put(db, i, task))

\* add_task: a known id is refused, an unknown dependency or a cycle raises.
CanAdd(db, i, task) ==
    /\ ~Exists(db, i)
    /\ \A d \in task.deps : Exists(db, d)
    /\ ~HasCycle(Put(db, i, task))

Add(i, status, D) ==
    LET task == [status |-> status, deps |-> D]
    IN  /\ task \in Task
        /\ CanAdd(tasks, i, task)
        /\ tasks' = PutRefreshed(tasks, i, task)
        /\ UNCHANGED <<copy, deleted>>

\* Mutant: only a new task is checked for cycles.
CanUpsertUnchecked(db, i, task) == \A d \in task.deps \ {i} : Exists(db, d)

\* upsert_task: a task may not depend on an unknown task other than itself.
CanUpsert(db, i, task) ==
    /\ \A d \in task.deps \ {i} : Exists(db, d)
    /\ ~HasCycle(Put(db, i, task))

\* Mutant: the refreshed tasks are returned and not saved.
ListPure == UNCHANGED vars

\* list_tasks and get_ready_tasks: every task is refreshed.
List ==
    /\ tasks' = [i \in Ids |-> IF Exists(tasks, i) THEN Refreshed(tasks, tasks[i])
                                                   ELSE NoTask]
    /\ UNCHANGED <<copy, deleted>>

Delete(i) ==
    /\ Exists(tasks, i)
    /\ tasks' = [tasks EXCEPT ![i] = NoTask]
    /\ deleted' = deleted \cup {i}
    /\ UNCHANGED copy

\* get_task: the task is refreshed, and written back when that changed it.
GetTask(c, i, todo) ==
    LET task == IF Exists(tasks, i) THEN Refreshed(tasks, tasks[i]) ELSE NoTask
    IN  /\ tasks' = Put(tasks, i, task)
        /\ copy' = [copy EXCEPT ![c] = [id |-> i, task |-> task, todo |-> todo]]

-----------------------------------------------------------------------------
(* The scheduler's writes.                                                 *)

Holds(c, todo) == copy[c] # NoCopy /\ copy[c].todo = todo

Read(c, i) ==
    /\ copy[c] = NoCopy
    /\ GetTask(c, i, "decide")
    /\ UNCHANGED deleted

\* _persist_task_payload: upsert_task, and add_task when that raises; add_task
\* then fails in the same way, and the failure is swallowed.
Persist(c, task) ==
    LET i == copy[c].id
    IN  /\ tasks' = IF CanUpsert(tasks, i, task) THEN PutRefreshed(tasks, i, task)
                                                 ELSE tasks
        /\ copy' = [copy EXCEPT ![c] = NoCopy]
        /\ UNCHANGED deleted

Rewrite(c, status) ==
    /\ Holds(c, "decide") /\ copy[c].task # NoTask
    /\ Persist(c, [copy[c].task EXCEPT !.status = status])

\* The completion authority of the runner's result is presented.
MarkFinished(c) == Rewrite(c, "finished")

MarkFailed(c) == Rewrite(c, "failed")

\* mark_repo_task_queued: not when the task was read in a terminal status.
MarkQueued(c) ==
    /\ Holds(c, "decide") /\ copy[c].task # NoTask
    /\ copy[c].task.status \notin Terminal
    /\ Rewrite(c, "queued")

\* sync_unblocked_state: a blocked task is queued, another one is written as
\* it was read, to clear its blocked_reason.
SyncUnblocked(c) ==
    /\ Holds(c, "decide") /\ copy[c].task # NoTask
    /\ copy[c].task.status \notin Terminal
    /\ Rewrite(c, IF copy[c].task.status = "blocked" THEN "queued"
                                                     ELSE copy[c].task.status)

\* Scheduler._sync_blocked_state, called for a task that was not terminal when
\* its caller read it: reads the task again ...
BlockRead(c) ==
    /\ Holds(c, "decide") /\ copy[c].task # NoTask
    /\ copy[c].task.status \notin Terminal
    /\ GetTask(c, copy[c].id, "block")
    /\ UNCHANGED deleted

\* ... and writes it as blocked, a new one when it is gone.
BlockWrite(c) ==
    /\ Holds(c, "block")
    /\ Persist(c, [status |-> "blocked",
                   deps |-> IF copy[c].task = NoTask THEN {} ELSE copy[c].task.deps])

\* The client returns early, or its process ends.
Drop(c) ==
    /\ copy[c] # NoCopy
    /\ copy' = [copy EXCEPT ![c] = NoCopy]
    /\ UNCHANGED <<tasks, deleted>>

-----------------------------------------------------------------------------
Write(c) ==
    \/ MarkFinished(c) \/ MarkFailed(c) \/ MarkQueued(c) \/ SyncUnblocked(c)
    \/ BlockWrite(c)

Next ==
    \/ \E i \in Ids, D \in SUBSET Ids : Add(i, "created", D) \/ Add(i, "queued", D)
    \/ \E i \in Ids : Delete(i)
    \/ List
    \/ \E c \in Clients : Write(c) \/ BlockRead(c) \/ Drop(c)
    \/ \E c \in Clients, i \in Ids : Read(c, i)

Spec == Init /\ [][Next]_vars

\* The scheduler's tick lists the repository again and again.
FairSpec == Spec /\ WF_vars(List)

-----------------------------------------------------------------------------
(* Correctness.                                                            *)

\* No sequence of additions, deletions and writes of stale copies makes tasks
\* wait for each other in a circle.
Acyclic == ~HasCycle(tasks)

\* A task becomes queued only when all its dependencies are finished at that
\* moment, even when the write that queues it was decided on an old copy.
QueuedJustified ==
    [][\A i \in Ids :
          /\ Exists(tasks', i) /\ tasks'[i].status = "queued"
          /\ ~Exists(tasks, i) \/ tasks[i].status # "queued"
          => \A d \in tasks'[i].deps : Completed(tasks', d)]_vars

\* A dependency is missing only when it has been deleted, although tasks are
\* written from copies older than what they depend on.
DependenciesKnown ==
    \A i \in Ids : Exists(tasks, i) =>
        \A d \in tasks[i].deps : Exists(tasks, d) \/ d \in deleted

\* A task whose dependencies stay finished does not stay blocked.
Unblocked ==
    \A i \in Ids :
        []<>~(/\ Exists(tasks, i) /\ tasks[i].status = "blocked"
              /\ \A d \in tasks[i].deps : Completed(tasks, d))
=============================================================================
