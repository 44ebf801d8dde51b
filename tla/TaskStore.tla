------------------------------ MODULE TaskStore -----------------------------
(***************************************************************************)
(* tasks.json: the store lock, the repository on top of it and its search  *)
(* for cycles.  A method of the repository is one step of TaskRepository   *)
(* because the lock makes transactions atomic (TransactionsAtomic), and    *)
(* the search, which runs inside such a step, is one test there because it *)
(* computes HasCycle (DetectsExactly); they meet nowhere else.             *)
(***************************************************************************)
EXTENDS TaskStoreLock

CONSTANTS Ids, Clients, NoTask, NoCopy, MaxDeps

VARIABLES tasks, copy, deleted, graph, todo, calls, visited, stack, answer

repositoryVars == <<tasks, copy, deleted>>
cyclesVars == <<graph, todo, calls, visited, stack, answer>>

Repo == INSTANCE TaskRepository
Cycles == INSTANCE CycleDetection WITH Nodes <- Ids

\* No tasks wait for each other in a circle (add_task, upsert_task).
Acyclic == Repo!Acyclic

\* A dependency is missing only when delete_task has removed it.
DependenciesKnown == Repo!DependenciesKnown

\* A task becomes queued only when its dependencies are finished
\* (_refresh_blocked_status, mark_repo_task_queued).
QueuedJustified == Repo!QueuedJustified

\* The search answers "cycle" exactly when there is one (_detect_cycle).
DetectsExactly == Cycles!DetectsExactly
=============================================================================
