-------------------------- MODULE TaskStoreProofs ---------------------------
(***************************************************************************)
(* Proofs about the store lock, for any number of processes and threads,   *)
(* any nesting depth, and any changes a transaction can make.              *)
(*                                                                         *)
(* Neither MutualExclusion nor NoLeak is inductive: a thread is alone in   *)
(* its process because of the RLock, and alone among processes because of  *)
(* the OS lock.  LockInv ties the place of every thread to both locks, and *)
(* each step of acquire() keeps the tie.  The refinement needs what the    *)
(* holder of the locks knows of the file (WorkInv): what it has reloaded   *)
(* is the file until it saves, because nobody else can save meanwhile.     *)
(*                                                                         *)
(* The dependency graph of tasks.json, for any task ids, any number of     *)
(* clients and any dependencies.                                           *)
(*                                                                         *)
(* What the proofs rest on: a refresh changes no dependency, and turns no  *)
(* task into a finished one or back, so it disturbs neither the graph nor  *)
(* what other tasks wait for; and a write from a stale copy is checked     *)
(* against the tasks that are stored when it is made.                      *)
(*                                                                         *)
(* The search for cycles, for any graph.  SearchInv is the argument for a  *)
(* depth-first search: the calls in progress are a path of dependencies,   *)
(* so meeting one of its tasks again closes a circle; and a task is left   *)
(* after everything it depends on, so the tasks that have been left never  *)
(* hold a circle, and in the end they are all the tasks.                   *)
(***************************************************************************)
EXTENDS TaskStore, Sequences, FiniteSetTheorems, TLAPS

-----------------------------------------------------------------------------
(***************************************************************************)
(* The lock                                                                *)
(***************************************************************************)

\* A thread on its way through acquire() holds the RLock of its process.
HolderOwns == \A t \in Threads : ~At(t, "out") => owner[ProcOf[t]] = t

\* A thread between taking and releasing the OS lock has it.
InsideLocked == \A t \in Threads : Inside(t) => flock = ProcOf[t]

\* A thread counts blocks exactly while it is in the body of one.
InnerCounts == \A t \in Threads : inner[t] > 0 <=> At(t, "in") \/ At(t, "loaded")

LockInv == TypeOK /\ NoLeak /\ HolderOwns /\ InsideLocked /\ InnerCounts

\* c is what a transaction reads: the file, or nothing when a read has failed.
Read(c) == c = file \/ (unreadable /\ c = Empty)

\* What a thread has in memory while it works: what it has read, or one change
\* of that.
WorkInv ==
    \A t \in Threads :
        /\ dirty[t] => At(t, "loaded")
        /\ At(t, "loaded") =>
              IF dirty[t]
              THEN \E op \in Ops, c \in Contents : Read(c) /\ mem[ProcOf[t]] = Apply(op, c)
              ELSE Read(mem[ProcOf[t]])

-----------------------------------------------------------------------------
LEMMA LockInitInv == LockAssumption /\ Init => LockInv
  <1> SUFFICES ASSUME LockAssumption, Init
               PROVE  LockInv
    OBVIOUS
  <1>1. TypeOK
    <2>1. depth \in [Procs -> 0 .. MaxDepth] /\ inner \in [Threads -> 0 .. MaxDepth]
      BY DEF LockAssumption, Init
    <2>2. dirty \in [Threads -> BOOLEAN] /\ unreadable \in BOOLEAN
      BY Zenon DEF Init
    <2> QED
      BY <2>1, <2>2 DEF LockAssumption, Init, TypeOK, Phases
  <1>2. NoLeak /\ HolderOwns /\ InsideLocked /\ InnerCounts
    BY DEF LockAssumption, Init, NoLeak, HolderOwns, InsideLocked, InnerCounts, Inside, At
  <1> QED
    BY <1>1, <1>2 DEF LockInv

\* One thread's step, or the crash of one process, keeps every lock tied to the
\* thread that holds it.
LEMMA LockNextInv ==
  ASSUME LockAssumption, LockInv, [Next]_vars
  PROVE  LockInv'
  <1> USE DEF LockInv, NoLeak, HolderOwns, InsideLocked, InnerCounts, Inside, At, Go,
              Phases, lockVars
  <1>1. ASSUME NEW t \in Threads, Enter(t)
        PROVE  LockInv'
    BY <1>1 DEF LockAssumption, TypeOK, Enter
  <1>2. ASSUME NEW t \in Threads, AcquireOs(t)
        PROVE  LockInv'
    BY <1>2 DEF LockAssumption, TypeOK, AcquireOs
  <1>3. ASSUME NEW t \in Threads, AcquireFails(t)
        PROVE  LockInv'
    BY <1>3 DEF LockAssumption, TypeOK, AcquireFails
  <1>4. ASSUME NEW t \in Threads, Nest(t)
        PROVE  LockInv'
    BY <1>4 DEF LockAssumption, TypeOK, Nest
  <1>5. ASSUME NEW t \in Threads, Unnest(t)
        PROVE  LockInv'
    BY <1>5 DEF LockAssumption, TypeOK, Unnest
  <1>6. ASSUME NEW t \in Threads, Finish(t)
        PROVE  LockInv'
    BY <1>6 DEF LockAssumption, TypeOK, Finish
  <1>7. ASSUME NEW t \in Threads, ReleaseOs(t)
        PROVE  LockInv'
    BY <1>7 DEF LockAssumption, TypeOK, ReleaseOs
  <1>8. ASSUME NEW t \in Threads, Leave(t)
        PROVE  LockInv'
    BY <1>8 DEF LockAssumption, TypeOK, Leave
  <1>9. ASSUME NEW t \in Threads, Load(t)
        PROVE  LockInv'
    BY <1>9 DEF LockAssumption, TypeOK, Load
  <1>10. ASSUME NEW t \in Threads, LoadFails(t)
        PROVE  LockInv'
    BY <1>10 DEF LockAssumption, TypeOK, LoadFails
  <1>11. ASSUME NEW t \in Threads, Change(t)
        PROVE  LockInv'
    BY <1>11 DEF LockAssumption, TypeOK, Change
  <1>12. ASSUME NEW t \in Threads, Save(t)
        PROVE  LockInv'
    BY <1>12 DEF LockAssumption, TypeOK, Save
  <1>13. ASSUME NEW p \in Procs, Crash(p)
        PROVE  LockInv'
    <2>1. TypeOK'
      <3>1. dirty' \in [Threads -> BOOLEAN]
        BY <1>13, Zenon DEF TypeOK, Crash
      <3>2. /\ inner' \in [Threads -> 0 .. MaxDepth]
            /\ depth' \in [Procs -> 0 .. MaxDepth]
        BY <1>13 DEF LockAssumption, TypeOK, Crash
      <3> QED
        BY <1>13, <3>1, <3>2 DEF LockAssumption, TypeOK, Crash
    <2>2. ASSUME NEW t \in Threads
          PROVE  /\ pc'[t] = IF ProcOf[t] = p THEN "out" ELSE pc[t]
                 /\ inner'[t] = IF ProcOf[t] = p THEN 0 ELSE inner[t]
                 /\ owner'[ProcOf[t]] = IF ProcOf[t] = p THEN Nobody ELSE owner[ProcOf[t]]
      BY <1>13 DEF LockAssumption, TypeOK, Crash
    <2>3. HolderOwns' /\ InsideLocked' /\ InnerCounts'
      BY <1>13, <2>2 DEF LockAssumption, Crash
    <2>4. NoLeak'
      BY <1>13, <2>2 DEF LockAssumption, TypeOK, Crash
    <2> QED
      BY <2>1, <2>3, <2>4
  <1>14. CASE UNCHANGED vars
    BY <1>14 DEF vars, TypeOK
  <1> QED
    BY <1>1, <1>2, <1>3, <1>4, <1>5, <1>6, <1>7, <1>8, <1>9, <1>10, <1>11, <1>12,
       <1>13, <1>14 DEF Next, Step

LEMMA LockInvExclusive ==
  ASSUME LockAssumption, LockInv
  PROVE  MutualExclusion
  BY DEF LockAssumption, LockInv, HolderOwns, InsideLocked, MutualExclusion, Inside, At

\* The lock's depth stays in its range and the file holds tasks, for every
\* number of threads and processes.
THEOREM LockTyped ==
  ASSUME LockAssumption PROVE Spec => []TypeOK
  <1>1. Init => LockInv
    BY LockInitInv
  <1>2. LockInv /\ [Next]_vars => LockInv'
    BY LockNextInv
  <1>3. LockInv => TypeOK
    BY DEF LockInv
  <1> QED
    BY <1>1, <1>2, <1>3, PTL DEF Spec

\* Of all threads of all processes at most one is between taking and releasing
\* the OS lock, whatever nests, raises or crashes (_TaskStoreLock.acquire).
THEOREM LockExclusive ==
  ASSUME LockAssumption PROVE Spec => []MutualExclusion
  <1>1. Init => LockInv
    BY LockInitInv
  <1>2. LockInv /\ [Next]_vars => LockInv'
    BY LockNextInv
  <1>3. LockInv => MutualExclusion
    BY LockInvExclusive
  <1> QED
    BY <1>1, <1>2, <1>3, PTL DEF Spec

\* Every lock that is held is held by a thread on its way through acquire(),
\* and the depth is that thread's: an exception or a crash leaks nothing.
THEOREM LockNoLeak ==
  ASSUME LockAssumption PROVE Spec => []NoLeak
  <1>1. Init => LockInv
    BY LockInitInv
  <1>2. LockInv /\ [Next]_vars => LockInv'
    BY LockNextInv
  <1>3. LockInv => NoLeak
    BY DEF LockInv
  <1> QED
    BY <1>1, <1>2, <1>3, PTL DEF Spec

-----------------------------------------------------------------------------
(* The refinement.                                                         *)

LEMMA WorkInitInv == Init => WorkInv
  BY DEF Init, WorkInv, At

\* A step of a thread that is not in the body of acquire() leaves memory, file
\* and everybody's work alone.
LEMMA OutsideKeepsWork ==
  ASSUME LockInv, WorkInv, NEW t \in Threads,
         ~At(t, "loaded"), pc'[t] # "loaded",
         \A u \in Threads : u # t => pc'[u] = pc[u],
         UNCHANGED <<mem, dirty, file, unreadable>>
  PROVE  WorkInv'
  BY DEF WorkInv, At, Read

\* The step of a thread in the body of acquire() meets no other loaded thread.
LEMMA OthersNotLoaded ==
  ASSUME LockAssumption, LockInv, NEW t \in Threads, Inside(t),
         NEW u \in Threads, u # t
  PROVE  ~At(u, "loaded")
  BY LockInvExclusive DEF MutualExclusion, Inside, At

LEMMA WorkNextInv ==
  ASSUME LockAssumption, LockInv, WorkInv, [Next]_vars
  PROVE  WorkInv'
  <1> USE DEF At, Go, lockVars
  <1>1. ASSUME NEW t \in Threads,
               \/ Enter(t) \/ AcquireOs(t) \/ AcquireFails(t)
               \/ ReleaseOs(t) \/ Leave(t)
        PROVE  WorkInv'
    BY <1>1, OutsideKeepsWork
       DEF LockInv, TypeOK, Enter, AcquireOs, AcquireFails, ReleaseOs, Leave
  <1>2. ASSUME NEW t \in Threads, Nest(t) \/ Unnest(t)
        PROVE  WorkInv'
    BY <1>2 DEF Nest, Unnest, WorkInv, Read
  <1>3. ASSUME NEW t \in Threads, Finish(t)
        PROVE  WorkInv'
    BY <1>3 DEF Finish, WorkInv, Read, LockInv, TypeOK
  <1>4. ASSUME NEW t \in Threads, Load(t)
        PROVE  WorkInv'
    BY <1>4, OthersNotLoaded DEF Load, WorkInv, Read, LockInv, TypeOK, LockAssumption, Inside
  <1>5. ASSUME NEW t \in Threads, LoadFails(t)
        PROVE  WorkInv'
    BY <1>5, OthersNotLoaded
       DEF LoadFails, WorkInv, Read, LockInv, TypeOK, LockAssumption, Inside
  <1>6. ASSUME NEW t \in Threads, Change(t)
        PROVE  WorkInv'
    BY <1>6, OthersNotLoaded
       DEF Change, WorkInv, Read, LockInv, TypeOK, LockAssumption, Inside
  <1>7. ASSUME NEW t \in Threads, Save(t)
        PROVE  WorkInv'
    BY <1>7, OthersNotLoaded
       DEF Save, WorkInv, Read, LockInv, TypeOK, LockAssumption, Inside
  <1>8. ASSUME NEW p \in Procs, Crash(p)
        PROVE  WorkInv'
    BY <1>8 DEF Crash, WorkInv, Read, LockInv, TypeOK, LockAssumption
  <1>9. CASE UNCHANGED vars
    BY <1>9 DEF vars, WorkInv, Read
  <1> QED
    BY <1>1, <1>2, <1>3, <1>4, <1>5, <1>6, <1>7, <1>8, <1>9 DEF Next, Step

\* Only Save writes the file, and it writes one change of what was read.
LEMMA StepIsAtomic ==
  ASSUME LockAssumption, LockInv, WorkInv, [Next]_vars
  PROVE  [Atomic!Next]_(Atomic!vars)
  <1> USE DEF Atomic!Next, Atomic!vars
  <1>1. ASSUME NEW t \in Threads, Save(t)
        PROVE  \E op \in Ops : Atomic!Transaction(op) \/ Atomic!Wipe(op)
    <2>1. PICK op \in Ops, c \in Contents : Read(c) /\ mem[ProcOf[t]] = Apply(op, c)
      BY <1>1 DEF Save, WorkInv, At
    <2>2. file' = Apply(op, c) /\ UNCHANGED unreadable
      BY <1>1, <2>1 DEF Save
    <2> QED
      BY <2>1, <2>2 DEF Read, Atomic!Transaction, Atomic!Wipe
  <1>2. ASSUME NEW t \in Threads, LoadFails(t)
        PROVE  Atomic!Fault
    BY <1>2 DEF LoadFails, Atomic!Fault
  <1>3. ASSUME NEW t \in Threads,
               \/ Enter(t) \/ AcquireOs(t) \/ AcquireFails(t) \/ Nest(t) \/ Unnest(t)
               \/ Finish(t) \/ ReleaseOs(t) \/ Leave(t) \/ Load(t) \/ Change(t)
        PROVE  UNCHANGED <<file, unreadable>>
    BY <1>3 DEF Enter, AcquireOs, AcquireFails, Nest, Unnest, Finish, ReleaseOs, Leave,
                Load, Change
  <1>4. ASSUME NEW p \in Procs, Crash(p)
        PROVE  UNCHANGED <<file, unreadable>>
    BY <1>4 DEF Crash
  <1>5. CASE UNCHANGED vars
    BY <1>5 DEF vars
  <1> QED
    BY <1>1, <1>2, <1>3, <1>4, <1>5 DEF Next, Step

\* The locked transactions implement AtomicStore: to every user the file changes
\* in single whole transactions, so no update of another thread or process is
\* lost unless a read has failed.
THEOREM LockRefinesStore ==
  ASSUME LockAssumption PROVE Spec => TransactionsAtomic
  <1>1. Init => LockInv /\ WorkInv /\ Atomic!Init
    BY LockInitInv, WorkInitInv DEF Init, Atomic!Init
  <1>2. LockInv /\ WorkInv /\ [Next]_vars => LockInv' /\ WorkInv'
    BY LockNextInv, WorkNextInv
  <1>3. LockInv /\ WorkInv /\ [Next]_vars => [Atomic!Next]_(Atomic!vars)
    BY StepIsAtomic
  <1> QED
    BY <1>1, <1>2, <1>3, PTL DEF Spec, TransactionsAtomic, Atomic!Spec

-----------------------------------------------------------------------------
(***************************************************************************)
(* The repository                                                          *)
(***************************************************************************)

Databases == [Ids -> Repo!Task \cup {NoTask}]

-----------------------------------------------------------------------------
(* Refreshing a task.                                                      *)

LEMMA RefreshedFacts ==
  ASSUME NEW db \in Databases, NEW task \in Repo!Task
  PROVE  /\ Repo!Refreshed(db, task) \in Repo!Task
         /\ Repo!Refreshed(db, task).deps = task.deps
         /\ Repo!Refreshed(db, task).status = "finished" <=> task.status = "finished"
         /\ Repo!Refreshed(db, task).status = "queued" =>
               \A d \in task.deps : Repo!Completed(db, d)
  BY DEF Repo!Refreshed, Repo!Task, Repo!Statuses

\* Two databases with the same tasks and dependencies have the same cycles.
LEMMA SameGraph ==
  ASSUME NEW db \in Databases, NEW new \in Databases, ~Repo!HasCycle(db),
         \A i \in Ids : Repo!Exists(new, i) => Repo!Exists(db, i) /\ new[i].deps = db[i].deps
  PROVE  ~Repo!HasCycle(new)
  <1> SUFFICES ASSUME NEW S \in SUBSET {i \in Ids : Repo!Exists(new, i)}, S # {},
                      \A i \in S : new[i].deps \cap S # {}
               PROVE  FALSE
    BY DEF Repo!HasCycle
  <1>1. S \in SUBSET {i \in Ids : Repo!Exists(db, i)} /\ \A i \in S : db[i].deps \cap S # {}
    OBVIOUS
  <1> QED
    BY <1>1 DEF Repo!HasCycle

\* Storing a task and storing it refreshed give the same graph.
LEMMA PutFacts ==
  ASSUME Repo!RepositoryAssumption, NEW db \in Databases, NEW i \in Ids, NEW task \in Repo!Task
  PROVE  /\ Repo!Put(db, i, task) \in Databases
         /\ Repo!PutRefreshed(db, i, task) \in Databases
         /\ Repo!PutRefreshed(db, i, task)[i] = Repo!Refreshed(Repo!Put(db, i, task), task)
         /\ \A j \in Ids : j # i => Repo!PutRefreshed(db, i, task)[j] = db[j]
         /\ \A j \in Ids : j # i => Repo!Put(db, i, task)[j] = db[j]
         /\ Repo!Put(db, i, task)[i] = task
         /\ \A j \in Ids : Repo!Exists(Repo!PutRefreshed(db, i, task), j) <=>
                              j = i \/ Repo!Exists(db, j)
         /\ ~Repo!HasCycle(Repo!Put(db, i, task)) =>
               ~Repo!HasCycle(Repo!PutRefreshed(db, i, task))
  <1>1. Repo!Put(db, i, task) \in Databases /\ Repo!Put(db, i, task)[i] = task
        /\ \A j \in Ids : j # i => Repo!Put(db, i, task)[j] = db[j]
    BY DEF Repo!Put, Databases
  <1> DEFINE new == Repo!Refreshed(Repo!Put(db, i, task), task)
  <1>2. new \in Repo!Task /\ new.deps = task.deps
    BY <1>1, RefreshedFacts
  <1> HIDE DEF new
  <1>3. /\ Repo!Put(db, i, new) \in Databases /\ Repo!Put(db, i, new)[i] = new
        /\ \A j \in Ids : j # i => Repo!Put(db, i, new)[j] = db[j]
    BY <1>2 DEF Repo!Put, Databases
  <1>4. Repo!PutRefreshed(db, i, task) = Repo!Put(db, i, new)
    BY DEF Repo!PutRefreshed, new
  <1>5. \A j \in Ids : Repo!Exists(Repo!Put(db, i, new), j) <=> j = i \/ Repo!Exists(db, j)
    BY <1>2, <1>3 DEF Repo!Exists, Repo!RepositoryAssumption
  <1>6. ASSUME ~Repo!HasCycle(Repo!Put(db, i, task)) PROVE ~Repo!HasCycle(Repo!Put(db, i, new))
    <2>1. ASSUME NEW j \in Ids, Repo!Exists(Repo!Put(db, i, new), j)
          PROVE  /\ Repo!Exists(Repo!Put(db, i, task), j)
                 /\ Repo!Put(db, i, new)[j].deps = Repo!Put(db, i, task)[j].deps
      BY <1>1, <1>2, <1>3, <2>1 DEF Repo!Exists, Repo!RepositoryAssumption
    <2> QED
      BY <1>1, <1>3, <1>6, <2>1, SameGraph
  <1> QED
    BY <1>1, <1>3, <1>4, <1>5, <1>6 DEF new

-----------------------------------------------------------------------------
(* What a step does to the stored tasks.                                   *)

\* add_task and upsert_task: the dependencies are known and make no circle.
StoreStep ==
    /\ \E i \in Ids, task \in Repo!Task :
          /\ \A d \in task.deps \ {i} : Repo!Exists(tasks, d)
          /\ ~Repo!HasCycle(Repo!Put(tasks, i, task))
          /\ tasks' = Repo!PutRefreshed(tasks, i, task)
    /\ UNCHANGED deleted

\* list_tasks, get_ready_tasks and get_task: tasks are refreshed.
RefreshStep ==
    /\ tasks' \in Databases
    /\ \A j \in Ids : \/ tasks'[j] = tasks[j]
                      \/ Repo!Exists(tasks, j) /\ tasks'[j] = Repo!Refreshed(tasks, tasks[j])
    /\ UNCHANGED deleted

DeleteStep == \E i \in Ids : Repo!Delete(i)

LEMMA GetTaskStep ==
  ASSUME Repo!RepositoryAssumption, Repo!TypeOK, NEW c \in Clients, NEW i \in Ids,
         NEW next \in {"decide", "block"}, Repo!GetTask(c, i, next), UNCHANGED deleted
  PROVE  Repo!TypeOK' /\ RefreshStep
  <1> DEFINE task == IF Repo!Exists(tasks, i) THEN Repo!Refreshed(tasks, tasks[i]) ELSE NoTask
  <1>1. tasks \in Databases /\ tasks[i] \in Repo!Task \cup {NoTask}
    BY DEF Repo!TypeOK, Databases
  <1>2. task \in Repo!Task \cup {NoTask}
    BY <1>1, RefreshedFacts DEF Repo!Exists
  <1>3. /\ tasks' = [tasks EXCEPT ![i] = task]
        /\ copy' = [copy EXCEPT ![c] = [id |-> i, task |-> task, todo |-> next]]
    BY DEF Repo!GetTask, Repo!Put
  <1>4. task = tasks[i] \/ (Repo!Exists(tasks, i) /\ task = Repo!Refreshed(tasks, tasks[i]))
    BY <1>1 DEF Repo!Exists
  <1> HIDE DEF task
  <1>5. tasks' \in Databases
    BY <1>1, <1>2, <1>3 DEF Databases
  <1>6. [id |-> i, task |-> task, todo |-> next] \in Repo!Copy
    BY <1>2 DEF Repo!Copy
  <1>7. copy' \in [Clients -> Repo!Copy \cup {NoCopy}]
    BY <1>3, <1>6 DEF Repo!TypeOK
  <1>8. \A j \in Ids : \/ tasks'[j] = tasks[j]
                       \/ Repo!Exists(tasks, j) /\ tasks'[j] = Repo!Refreshed(tasks, tasks[j])
    BY <1>1, <1>3, <1>4 DEF Databases
  <1> QED
    BY <1>5, <1>7, <1>8 DEF Repo!TypeOK, RefreshStep, Databases

LEMMA PersistStep ==
  ASSUME Repo!RepositoryAssumption, Repo!TypeOK, NEW c \in Clients, copy[c] # NoCopy,
         NEW task \in Repo!Task, Repo!Persist(c, task)
  PROVE  Repo!TypeOK' /\ (StoreStep \/ UNCHANGED <<tasks, deleted>>)
  <1> DEFINE i == copy[c].id
  <1>1. i \in Ids /\ tasks \in Databases
    BY DEF Repo!TypeOK, Repo!Copy, Databases
  <1>2. CASE Repo!CanUpsert(tasks, i, task)
    <2>1. tasks' = Repo!PutRefreshed(tasks, i, task) /\ UNCHANGED deleted
      BY <1>2 DEF Repo!Persist
    <2>2. StoreStep
      BY <1>1, <1>2, <2>1 DEF Repo!CanUpsert, StoreStep
    <2>3. tasks' \in Databases
      BY <1>1, <2>1, PutFacts
    <2> QED
      BY <2>2, <2>3 DEF Repo!Persist, Repo!TypeOK, Databases
  <1>3. CASE ~Repo!CanUpsert(tasks, i, task)
    BY <1>3 DEF Repo!Persist, Repo!TypeOK
  <1> QED
    BY <1>2, <1>3

LEMMA RewriteStep ==
  ASSUME Repo!RepositoryAssumption, Repo!TypeOK,
         NEW c \in Clients, NEW status \in Repo!Statuses,
         Repo!Rewrite(c, status)
  PROVE  Repo!TypeOK' /\ (StoreStep \/ UNCHANGED <<tasks, deleted>>)
  <1>1. copy[c] # NoCopy /\ copy[c].task \in Repo!Task
    BY DEF Repo!Rewrite, Repo!Holds, Repo!TypeOK, Repo!Copy
  <1>2. [copy[c].task EXCEPT !.status = status] \in Repo!Task
    BY <1>1 DEF Repo!Task
  <1> QED
    BY <1>1, <1>2, PersistStep DEF Repo!Rewrite

LEMMA WriteStep ==
  ASSUME Repo!RepositoryAssumption, Repo!TypeOK, NEW c \in Clients, Repo!Write(c)
  PROVE  Repo!TypeOK' /\ (StoreStep \/ UNCHANGED <<tasks, deleted>>)
  <1>1. CASE Repo!MarkFinished(c) \/ Repo!MarkFailed(c) \/ Repo!MarkQueued(c)
    BY <1>1, RewriteStep DEF Repo!MarkFinished, Repo!MarkFailed, Repo!MarkQueued, Repo!Statuses
  <1>2. CASE Repo!SyncUnblocked(c)
    <2>1. copy[c].task.status \in Repo!Statuses
      BY <1>2 DEF Repo!SyncUnblocked, Repo!Holds, Repo!TypeOK, Repo!Copy, Repo!Task
    <2>2. PICK status \in Repo!Statuses : Repo!Rewrite(c, status)
      BY <1>2, <2>1 DEF Repo!SyncUnblocked, Repo!Statuses
    <2> QED
      BY <2>2, RewriteStep
  <1>3. CASE Repo!BlockWrite(c)
    <2> DEFINE D == IF copy[c].task = NoTask THEN {} ELSE copy[c].task.deps
    <2>1. copy[c] # NoCopy /\ Repo!Persist(c, [status |-> "blocked", deps |-> D])
      BY <1>3 DEF Repo!BlockWrite, Repo!Holds
    <2>2. copy[c].task \in Repo!Task \cup {NoTask}
      BY <2>1 DEF Repo!TypeOK, Repo!Copy
    <2>3. {} \in Repo!DepSets
      <3>1. Repo!Cardinality({}) = Cardinality({})
        BY DEF Repo!Cardinality, Cardinality
      <3> QED
        BY <3>1, FS_EmptySet DEF Repo!DepSets, Repo!RepositoryAssumption
    <2>4. D \in Repo!DepSets
      BY <2>2, <2>3 DEF Repo!Task
    <2> HIDE DEF D
    <2>5. [status |-> "blocked", deps |-> D] \in Repo!Task
      BY <2>4 DEF Repo!Task, Repo!Statuses
    <2> QED
      BY <2>1, <2>5, PersistStep
  <1> QED
    BY <1>1, <1>2, <1>3 DEF Repo!Write

LEMMA AddStep ==
  ASSUME Repo!RepositoryAssumption, Repo!TypeOK, NEW i \in Ids, NEW status, NEW D,
         Repo!Add(i, status, D)
  PROVE  Repo!TypeOK' /\ StoreStep
  <1> DEFINE task == [status |-> status, deps |-> D]
  <1>1. /\ task \in Repo!Task /\ Repo!CanAdd(tasks, i, task)
        /\ tasks' = Repo!PutRefreshed(tasks, i, task) /\ UNCHANGED <<copy, deleted>>
    BY DEF Repo!Add
  <1> HIDE DEF task
  <1>2. tasks \in Databases
    BY DEF Repo!TypeOK, Databases
  <1>3. tasks' \in Databases
    BY <1>1, <1>2, PutFacts
  <1> QED
    BY <1>1, <1>3 DEF Repo!CanAdd, StoreStep, Repo!TypeOK, Databases

LEMMA ListStep ==
  ASSUME Repo!TypeOK, Repo!List
  PROVE  Repo!TypeOK' /\ RefreshStep
  <1>1. tasks \in Databases
    BY DEF Repo!TypeOK, Databases
  <1>2. ASSUME NEW j \in Ids
        PROVE  /\ tasks'[j] \in Repo!Task \cup {NoTask}
               /\ \/ tasks'[j] = tasks[j]
                  \/ Repo!Exists(tasks, j) /\ tasks'[j] = Repo!Refreshed(tasks, tasks[j])
    <2>1. tasks'[j] = IF Repo!Exists(tasks, j) THEN Repo!Refreshed(tasks, tasks[j]) ELSE NoTask
      BY DEF Repo!List
    <2>2. tasks[j] \in Repo!Task \cup {NoTask}
      BY DEF Repo!TypeOK
    <2> QED
      BY <1>1, <2>1, <2>2, RefreshedFacts DEF Repo!Exists
  <1>3. tasks' \in Databases
    BY <1>2 DEF Repo!List, Databases
  <1> QED
    BY <1>2, <1>3 DEF Repo!List, RefreshStep, Repo!TypeOK, Databases

\* Every step of the specification is of one of four kinds.
LEMMA StepKind ==
  ASSUME Repo!RepositoryAssumption, Repo!TypeOK, [Repo!Next]_Repo!vars
  PROVE  /\ Repo!TypeOK'
         /\ StoreStep \/ RefreshStep \/ DeleteStep \/ UNCHANGED <<tasks, deleted>>
  <1>1. ASSUME NEW i \in Ids, NEW D \in SUBSET Ids,
               Repo!Add(i, "created", D) \/ Repo!Add(i, "queued", D)
        PROVE  Repo!TypeOK' /\ StoreStep
    BY <1>1, AddStep
  <1>2. ASSUME NEW i \in Ids, Repo!Delete(i)
        PROVE  Repo!TypeOK' /\ DeleteStep
    BY <1>2 DEF Repo!Delete, DeleteStep, Repo!TypeOK
  <1>3. CASE Repo!List
    BY <1>3, ListStep
  <1>4. ASSUME NEW c \in Clients, Repo!Write(c)
        PROVE  Repo!TypeOK' /\ (StoreStep \/ UNCHANGED <<tasks, deleted>>)
    BY <1>4, WriteStep
  <1>5. ASSUME NEW c \in Clients, Repo!BlockRead(c)
        PROVE  Repo!TypeOK' /\ RefreshStep
    <2>1. copy[c].id \in Ids
      BY <1>5 DEF Repo!BlockRead, Repo!Holds, Repo!TypeOK, Repo!Copy
    <2> QED
      BY <1>5, <2>1, GetTaskStep DEF Repo!BlockRead
  <1>6. ASSUME NEW c \in Clients, Repo!Drop(c)
        PROVE  Repo!TypeOK' /\ UNCHANGED <<tasks, deleted>>
    BY <1>6 DEF Repo!Drop, Repo!TypeOK
  <1>7. ASSUME NEW c \in Clients, NEW i \in Ids, Repo!Read(c, i)
        PROVE  Repo!TypeOK' /\ RefreshStep
    BY <1>7, GetTaskStep DEF Repo!Read
  <1>8. CASE UNCHANGED Repo!vars
    BY <1>8 DEF Repo!vars, Repo!TypeOK
  <1> QED
    BY <1>1, <1>2, <1>3, <1>4, <1>5, <1>6, <1>7, <1>8 DEF Repo!Next

-----------------------------------------------------------------------------
(* The graph.                                                              *)

GraphInv == Repo!TypeOK /\ Repo!Acyclic /\ Repo!DependenciesKnown

\* A refresh keeps the tasks, their dependencies and which are finished.
LEMMA RefreshKeeps ==
  ASSUME Repo!RepositoryAssumption, Repo!TypeOK, RefreshStep, NEW j \in Ids
  PROVE  /\ Repo!Exists(tasks', j) <=> Repo!Exists(tasks, j)
         /\ Repo!Exists(tasks, j) => tasks'[j].deps = tasks[j].deps
         /\ Repo!Completed(tasks', j) <=> Repo!Completed(tasks, j)
  <1>1. tasks \in Databases /\ tasks[j] \in Repo!Task \cup {NoTask}
    BY DEF Repo!TypeOK, Databases
  <1>2. CASE tasks'[j] = tasks[j]
    BY <1>2 DEF Repo!Exists, Repo!Completed
  <1>3. CASE Repo!Exists(tasks, j) /\ tasks'[j] = Repo!Refreshed(tasks, tasks[j])
    <2>1. tasks[j] \in Repo!Task
      BY <1>1, <1>3 DEF Repo!Exists
    <2> QED
      BY <1>1, <1>3, <2>1, RefreshedFacts DEF Repo!Exists, Repo!Completed,
         Repo!RepositoryAssumption
  <1> QED
    BY <1>2, <1>3 DEF RefreshStep

LEMMA GraphStep ==
  ASSUME Repo!RepositoryAssumption, GraphInv, [Repo!Next]_Repo!vars
  PROVE  GraphInv'
  <1>1. Repo!TypeOK /\ Repo!TypeOK' /\ tasks \in Databases /\ tasks' \in Databases
    BY StepKind DEF GraphInv, Repo!TypeOK, Databases
  <1>2. CASE StoreStep
    <2>1. PICK i \in Ids, task \in Repo!Task :
            /\ \A d \in task.deps \ {i} : Repo!Exists(tasks, d)
            /\ ~Repo!HasCycle(Repo!Put(tasks, i, task))
            /\ tasks' = Repo!PutRefreshed(tasks, i, task)
      BY <1>2 DEF StoreStep
    <2>2. Repo!Acyclic'
      BY <1>1, <2>1, PutFacts DEF Repo!Acyclic
    <2>3. tasks'[i].deps = task.deps
      BY <1>1, <2>1, PutFacts, RefreshedFacts
    <2>4. ASSUME NEW j \in Ids, Repo!Exists(tasks', j), NEW d \in tasks'[j].deps
          PROVE  Repo!Exists(tasks', d) \/ d \in deleted
      <3>1. d \in Ids
        BY <1>1, <2>4 DEF Databases, Repo!Exists, Repo!Task, Repo!DepSets
      <3>2. CASE j = i
        BY <1>1, <2>1, <2>3, <2>4, <3>1, <3>2, PutFacts
      <3>3. CASE j # i
        <4>1. tasks'[j] = tasks[j] /\ Repo!Exists(tasks, j)
          BY <1>1, <2>1, <2>4, <3>3, PutFacts DEF Repo!Exists
        <4>2. Repo!Exists(tasks, d) \/ d \in deleted
          BY <2>4, <4>1 DEF GraphInv, Repo!DependenciesKnown
        <4> QED
          BY <1>1, <2>1, <3>1, <4>2, PutFacts
      <3> QED
        BY <3>2, <3>3
    <2> QED
      BY <1>1, <1>2, <2>2, <2>4 DEF GraphInv, Repo!DependenciesKnown, StoreStep
  <1>3. CASE RefreshStep
    <2>1. Repo!Acyclic'
      BY <1>1, <1>3, RefreshKeeps, SameGraph DEF GraphInv, Repo!Acyclic
    <2>2. ASSUME NEW j \in Ids, Repo!Exists(tasks', j), NEW d \in tasks'[j].deps
          PROVE  Repo!Exists(tasks', d) \/ d \in deleted
      <3>1. d \in Ids
        BY <1>1, <2>2 DEF Databases, Repo!Exists, Repo!Task, Repo!DepSets
      <3> QED
        BY <1>1, <1>3, <2>2, <3>1, RefreshKeeps DEF GraphInv, Repo!DependenciesKnown
    <2> QED
      BY <1>1, <1>3, <2>1, <2>2 DEF GraphInv, Repo!DependenciesKnown, RefreshStep
  <1>4. CASE DeleteStep
    <2>1. PICK i \in Ids : tasks' = [tasks EXCEPT ![i] = NoTask] /\ deleted' = deleted \cup {i}
      BY <1>4 DEF DeleteStep, Repo!Delete
    <2>2. \A j \in Ids : /\ Repo!Exists(tasks', j) =>
                               Repo!Exists(tasks, j) /\ tasks'[j] = tasks[j]
                         /\ Repo!Exists(tasks, j) => Repo!Exists(tasks', j) \/ j = i
      BY <1>1, <2>1 DEF Repo!Exists, Databases
    <2>3. Repo!Acyclic'
      BY <1>1, <2>2, SameGraph DEF GraphInv, Repo!Acyclic
    <2>4. ASSUME NEW j \in Ids, Repo!Exists(tasks', j), NEW d \in tasks'[j].deps
          PROVE  Repo!Exists(tasks', d) \/ d \in deleted'
      <3>1. d \in Ids
        BY <1>1, <2>4 DEF Databases, Repo!Exists, Repo!Task, Repo!DepSets
      <3> QED
        BY <2>1, <2>2, <2>4, <3>1 DEF GraphInv, Repo!DependenciesKnown
    <2> QED
      BY <1>1, <2>3, <2>4 DEF GraphInv, Repo!DependenciesKnown
  <1>5. CASE UNCHANGED <<tasks, deleted>>
    BY <1>1, <1>5 DEF GraphInv, Repo!Acyclic, Repo!DependenciesKnown, Repo!HasCycle, Repo!Exists
  <1> QED
    BY <1>2, <1>3, <1>4, <1>5, StepKind DEF GraphInv

LEMMA GraphInit == Repo!RepositoryAssumption /\ Repo!Init => GraphInv
  BY DEF Repo!Init, GraphInv, Repo!TypeOK, Repo!Acyclic, Repo!HasCycle, Repo!DependenciesKnown,
     Repo!Exists

LEMMA RepositoryGraph ==
  ASSUME Repo!RepositoryAssumption
  PROVE  Repo!Spec => []GraphInv
  BY GraphInit, GraphStep, PTL DEF Repo!Spec

\* Every stored and every copied task keeps a known status and few enough
\* dependencies.
THEOREM RepositoryTyped ==
  ASSUME Repo!RepositoryAssumption
  PROVE  Repo!Spec => []Repo!TypeOK
  <1>1. GraphInv => Repo!TypeOK
    BY DEF GraphInv
  <1> QED
    BY <1>1, RepositoryGraph, PTL

\* Tasks never wait for each other in a circle, although the scheduler writes
\* whole tasks from copies that are older than the tasks they depend on.
THEOREM RepositoryAcyclic ==
  ASSUME Repo!RepositoryAssumption
  PROVE  Repo!Spec => []Acyclic
  <1>1. GraphInv => Acyclic
    BY DEF GraphInv, Acyclic
  <1> QED
    BY <1>1, RepositoryGraph, PTL

\* A stored task depends on a task that is stored or that delete_task has
\* removed: no write of a copy brings in a dependency that never was there.
THEOREM RepositoryDependencies ==
  ASSUME Repo!RepositoryAssumption
  PROVE  Repo!Spec => []DependenciesKnown
  <1>1. GraphInv => DependenciesKnown
    BY DEF GraphInv, DependenciesKnown
  <1> QED
    BY <1>1, RepositoryGraph, PTL

-----------------------------------------------------------------------------
(* Queued tasks.                                                           *)

Justified ==
    \A i \in Ids :
        /\ Repo!Exists(tasks', i) /\ tasks'[i].status = "queued"
        /\ ~Repo!Exists(tasks, i) \/ tasks[i].status # "queued"
        => \A d \in tasks'[i].deps : Repo!Completed(tasks', d)

\* The check of a queued task is made in the database that is written: the
\* task itself is not finished there, and no other task changes.
LEMMA JustifiedStep ==
  ASSUME Repo!RepositoryAssumption, Repo!TypeOK, [Repo!Next]_Repo!vars
  PROVE  Justified
  <1> SUFFICES ASSUME NEW i \in Ids, Repo!Exists(tasks', i), tasks'[i].status = "queued",
                      ~Repo!Exists(tasks, i) \/ tasks[i].status # "queued",
                      NEW d \in tasks'[i].deps
               PROVE  Repo!Completed(tasks', d)
    BY DEF Justified
  <1>1. tasks \in Databases /\ tasks' \in Databases
    BY StepKind DEF Repo!TypeOK, Databases
  <1>2. d \in Ids
    BY <1>1 DEF Databases, Repo!Exists, Repo!Task, Repo!DepSets
  <1>3. CASE StoreStep
    <2>1. PICK j \in Ids, task \in Repo!Task : tasks' = Repo!PutRefreshed(tasks, j, task)
      BY <1>3 DEF StoreStep
    <2> DEFINE put == Repo!Put(tasks, j, task)
    <2>2. /\ put \in Databases /\ put[j] = task
          /\ \A k \in Ids : k # j => put[k] = tasks[k]
          /\ tasks'[j] = Repo!Refreshed(put, task)
          /\ \A k \in Ids : k # j => tasks'[k] = tasks[k]
      BY <1>1, <2>1, PutFacts
    <2> HIDE DEF put
    <2>3. i = j
      BY <2>2 DEF Repo!Exists
    <2>4. tasks'[i].deps = task.deps /\ Repo!Completed(put, d)
      BY <2>2, <2>3, RefreshedFacts
    <2>5. task.status # "finished"
      BY <2>2, <2>3, RefreshedFacts
    <2>6. d # j
      BY <2>2, <2>4, <2>5 DEF Repo!Completed
    <2> QED
      BY <1>2, <2>2, <2>4, <2>6 DEF Repo!Completed, Repo!Exists
  <1>4. CASE RefreshStep
    <2>1. /\ Repo!Exists(tasks, i) /\ tasks'[i] = Repo!Refreshed(tasks, tasks[i])
          /\ tasks[i] \in Repo!Task
      BY <1>1, <1>4 DEF RefreshStep, Repo!Exists, Databases
    <2>2. Repo!Completed(tasks, d)
      BY <1>1, <2>1, RefreshedFacts
    <2> QED
      BY <1>2, <1>4, <2>2, RefreshKeeps
  <1>5. CASE DeleteStep
    BY <1>1, <1>5 DEF DeleteStep, Repo!Delete, Repo!Exists, Databases
  <1>6. CASE UNCHANGED <<tasks, deleted>>
    BY <1>6
  <1> QED
    BY <1>3, <1>4, <1>5, <1>6, StepKind

\* No task becomes queued before its dependencies are finished: also the write
\* that was decided on an old copy is judged by the tasks stored when it is
\* made.
THEOREM RepositoryQueues ==
  ASSUME Repo!RepositoryAssumption
  PROVE  Repo!Spec => QueuedJustified
  <1>1. Repo!TypeOK /\ [Repo!Next]_Repo!vars => [Justified]_Repo!vars
    BY JustifiedStep
  <1> QED
    BY <1>1, RepositoryTyped, PTL
    DEF Repo!Spec, QueuedJustified, Repo!QueuedJustified, Justified

-----------------------------------------------------------------------------
(***************************************************************************)
(* The search for cycles                                                   *)
(***************************************************************************)

\* The tasks whose visit() has returned.
Left == visited \ stack

\* The calls in progress are the path: one for each task of stack, each made for
\* a dependency of the one before.
PathInv ==
    /\ stack \subseteq visited
    /\ \A n \in stack : \E i \in DOMAIN calls : calls[i].node = n
    /\ \A i \in DOMAIN calls :
          /\ calls[i].node \in stack
          /\ calls[i].deps \subseteq graph[calls[i].node]
          /\ \A j \in DOMAIN calls : calls[i].node = calls[j].node => i = j
          /\ i + 1 \in DOMAIN calls => calls[i + 1].node \in graph[calls[i].node]

\* A known dependency that a call has come to has been left, or is the task of
\* the next call.
LookedAtInv ==
    \A i \in DOMAIN calls :
        \A d \in (graph[calls[i].node] \ calls[i].deps) \cap DOMAIN graph :
            d \in Left \/ (i + 1 \in DOMAIN calls /\ d = calls[i + 1].node)

\* A task is left after everything it depends on.
ClosedInv == \A n \in Left : graph[n] \cap DOMAIN graph \subseteq Left

\* No circle among the tasks that have been left.
NoCircleInv == \A S \in SUBSET Left : S # {} => \E n \in S : graph[n] \cap S = {}

\* The outer loop passes no task by.
NoneMissedInv == DOMAIN graph \ todo \subseteq visited

AnswerInv ==
    /\ answer = "cycle" => Cycles!Circular(graph)
    /\ answer = "dag" => stack = {} /\ todo = {}

SearchInv ==
    /\ Cycles!TypeOK /\ PathInv /\ LookedAtInv
    /\ ClosedInv /\ NoCircleInv /\ NoneMissedInv /\ AnswerInv

LEMMA GraphType ==
  ASSUME NEW g \in Cycles!Graphs
  PROVE  DOMAIN g \subseteq Ids /\ \A n \in DOMAIN g : g[n] \subseteq Ids
  BY DEF Cycles!Graphs

LEMMA SearchInit == Cycles!Init => SearchInv
  <1> SUFFICES ASSUME Cycles!Init PROVE SearchInv
    OBVIOUS
  <1>1. Cycles!TypeOK
    BY DEF Cycles!Init, Cycles!TypeOK
  <1>2. DOMAIN calls = {}
    BY DEF Cycles!Init
  <1>3. PathInv /\ LookedAtInv
    BY <1>2 DEF Cycles!Init, PathInv, LookedAtInv
  <1>4. ClosedInv /\ NoCircleInv /\ NoneMissedInv /\ AnswerInv
    BY DEF Cycles!Init, ClosedInv, NoCircleInv, NoneMissedInv, AnswerInv, Left
  <1> QED
    BY <1>1, <1>3, <1>4 DEF SearchInv

\* The repeated task, and the path from it on, is a circle.
LEMMA FoundIsCircle ==
  ASSUME SearchInv, NEW dep \in stack, calls # <<>>, dep \in Cycles!Top.deps
  PROVE  Cycles!Circular(graph)
  <1>1. PICK j \in DOMAIN calls : calls[j].node = dep
    BY DEF SearchInv, PathInv
  <1> DEFINE n == Len(calls)
             S == {calls[i].node : i \in j .. n}
  <1>2. n \in Nat \ {0} /\ DOMAIN calls = 1 .. n /\ Cycles!Top = calls[n]
    BY DEF SearchInv, Cycles!TypeOK, Cycles!Top, Cycles!Last
  <1>3. S \in SUBSET DOMAIN graph /\ S # {}
    BY <1>1, <1>2 DEF SearchInv, PathInv, Cycles!TypeOK
  <1>4. ASSUME NEW i \in j .. n
        PROVE  graph[calls[i].node] \cap S # {}
    <2>1. CASE i = n
      <3>1. dep \in graph[calls[n].node] /\ dep \in S
        BY <1>1, <1>2 DEF SearchInv, PathInv
      <3> QED
        BY <2>1, <3>1
    <2>2. CASE i # n
      <3> HIDE DEF n, S
      <3>1. i \in DOMAIN calls /\ i + 1 \in DOMAIN calls /\ i + 1 \in j .. n
        BY <1>2, <2>2
      <3>2. calls[i + 1].node \in graph[calls[i].node] /\ calls[i + 1].node \in S
        BY <3>1 DEF SearchInv, PathInv, S
      <3> QED
        BY <3>2
    <2> QED
      BY <2>1, <2>2
  <1>5. \A m \in S : graph[m] \cap S # {}
    BY <1>4
  <1> HIDE DEF S
  <1> QED
    BY <1>3, <1>5 DEF Cycles!Circular

LEMMA CallsType ==
  ASSUME Cycles!TypeOK, calls # <<>>
  PROVE  /\ Len(calls) \in Nat \ {0} /\ DOMAIN calls = 1 .. Len(calls)
         /\ Len(calls) \in DOMAIN calls /\ Cycles!Top = calls[Len(calls)]
         /\ \A i \in DOMAIN calls : calls[i] \in Cycles!Call
  BY DEF Cycles!TypeOK, Cycles!Top, Cycles!Last

\* What CameTo does to the calls: no task changes, and no dependencies but
\* those of the innermost call.
LEMMA CameToFacts ==
  ASSUME Cycles!TypeOK, calls # <<>>, NEW dep
  PROVE  /\ Cycles!CameTo(dep) \in Seq(Cycles!Call) /\ Len(Cycles!CameTo(dep)) = Len(calls)
         /\ DOMAIN Cycles!CameTo(dep) = DOMAIN calls
         /\ \A i \in DOMAIN calls : Cycles!CameTo(dep)[i].node = calls[i].node
         /\ \A i \in DOMAIN calls : i # Len(calls) => Cycles!CameTo(dep)[i].deps = calls[i].deps
         /\ Cycles!CameTo(dep)[Len(calls)].deps = Cycles!Top.deps \ {dep}
  <1>1. /\ Len(calls) \in Nat \ {0} /\ DOMAIN calls = 1 .. Len(calls)
        /\ Len(calls) \in DOMAIN calls /\ Cycles!Top = calls[Len(calls)]
        /\ \A i \in DOMAIN calls : calls[i] \in Cycles!Call
    BY CallsType
  <1> DEFINE n == Len(calls)
             f == [calls[n] EXCEPT !.deps = @ \ {dep}]
  <1>2. f \in Cycles!Call /\ f.node = calls[n].node /\ f.deps = Cycles!Top.deps \ {dep}
    BY <1>1 DEF Cycles!Call
  <1>3. Cycles!CameTo(dep) = [calls EXCEPT ![n] = f]
    BY DEF Cycles!CameTo
  <1> HIDE DEF f
  <1>4. [calls EXCEPT ![n] = f] \in Seq(Cycles!Call)
    BY <1>1, <1>2 DEF Cycles!TypeOK
  <1> QED
    BY <1>1, <1>2, <1>3, <1>4 DEF Cycles!TypeOK

\* One dependency is done with: it is unknown or has been left.
LEMMA PassedInv ==
  ASSUME SearchInv, calls # <<>>, NEW dep \in Cycles!Top.deps,
         dep \in DOMAIN graph => dep \in Left,
         calls' = Cycles!CameTo(dep),
         UNCHANGED <<graph, todo, visited, stack, answer>>
  PROVE  SearchInv'
  <1> DEFINE c == calls'
  <1>1. /\ c \in Seq(Cycles!Call) /\ Len(c) = Len(calls) /\ DOMAIN c = DOMAIN calls
        /\ DOMAIN calls = 1 .. Len(calls) /\ Len(calls) \in Nat \ {0}
        /\ Cycles!Top = calls[Len(calls)]
        /\ \A i \in DOMAIN calls : c[i].node = calls[i].node
        /\ \A i \in DOMAIN calls : i # Len(calls) => c[i].deps = calls[i].deps
        /\ c[Len(calls)].deps = Cycles!Top.deps \ {dep}
    BY CallsType, CameToFacts DEF SearchInv
  <1>2. \A i \in DOMAIN calls : c[i].deps \subseteq calls[i].deps
    BY <1>1
  <1>3. Cycles!TypeOK'
    BY <1>1 DEF SearchInv, Cycles!TypeOK
  <1>4. PathInv'
    BY <1>1, <1>2 DEF SearchInv, PathInv
  <1>5. LookedAtInv'
    <2> SUFFICES ASSUME NEW i \in DOMAIN calls,
                        NEW d \in (graph[calls[i].node] \ c[i].deps) \cap DOMAIN graph
                 PROVE  d \in Left \/ (i + 1 \in DOMAIN calls /\ d = calls[i + 1].node)
      BY <1>1 DEF LookedAtInv, Left
    <2>1. d = dep \/ d \notin calls[i].deps
      BY <1>1
    <2> QED
      BY <2>1 DEF SearchInv, LookedAtInv
  <1>6. ClosedInv' /\ NoCircleInv' /\ NoneMissedInv' /\ AnswerInv'
    BY DEF SearchInv, ClosedInv, NoCircleInv, NoneMissedInv, AnswerInv, Left
  <1> QED
    BY <1>3, <1>4, <1>5, <1>6 DEF SearchInv

\* The outer loop expands a task.
LEMMA FirstCallInv ==
  ASSUME SearchInv, NEW node \in DOMAIN graph, node \notin visited,
         calls' = Append(calls, [node |-> node, deps |-> graph[node]]),
         calls = <<>>,
         visited' = visited \cup {node}, stack' = stack \cup {node},
         todo' = todo \ {node}, UNCHANGED <<graph, answer>>
  PROVE  SearchInv'
  <1>1. /\ calls' = <<[node |-> node, deps |-> graph[node]]>> /\ DOMAIN calls' = {1}
        /\ calls'[1].node = node /\ calls'[1].deps = graph[node] /\ stack = {}
    BY DEF SearchInv, PathInv
  <1>2. Cycles!TypeOK'
    <2>1. [node |-> node, deps |-> graph[node]] \in Cycles!Call
      BY GraphType DEF SearchInv, Cycles!TypeOK, Cycles!Call
    <2> QED
      BY <1>1, <2>1 DEF SearchInv, Cycles!TypeOK
  <1>3. PathInv' /\ LookedAtInv'
    BY <1>1 DEF SearchInv, PathInv, LookedAtInv
  <1>4. Left' = Left
    BY <1>1 DEF Left
  <1>5. ClosedInv' /\ NoCircleInv' /\ NoneMissedInv' /\ AnswerInv'
    BY <1>4 DEF SearchInv, ClosedInv, NoCircleInv, NoneMissedInv, AnswerInv
  <1> QED
    BY <1>2, <1>3, <1>5 DEF SearchInv

\* The innermost call expands one of its dependencies.
LEMMA NextCallInv ==
  ASSUME SearchInv, answer = "none", calls # <<>>,
         NEW dep \in Cycles!Top.deps, dep \in DOMAIN graph, dep \notin visited,
         calls' = Append(Cycles!CameTo(dep), [node |-> dep, deps |-> graph[dep]]),
         visited' = visited \cup {dep}, stack' = stack \cup {dep},
         UNCHANGED <<graph, todo, answer>>
  PROVE  SearchInv'
  <1> DEFINE n == Len(calls)
             c == Cycles!CameTo(dep)
             frame == [node |-> dep, deps |-> graph[dep]]
  <1>1. /\ n \in Nat \ {0} /\ DOMAIN calls = 1 .. n /\ Cycles!Top = calls[n]
        /\ c \in Seq(Cycles!Call) /\ Len(c) = n /\ DOMAIN c = 1 .. n
        /\ \A i \in 1 .. n : c[i].node = calls[i].node
        /\ \A i \in 1 .. n : i # n => c[i].deps = calls[i].deps
        /\ c[n].deps = Cycles!Top.deps \ {dep}
    BY CallsType, CameToFacts DEF SearchInv
  <1>2. frame \in Cycles!Call /\ frame.node = dep /\ frame.deps = graph[dep]
    BY GraphType DEF SearchInv, Cycles!TypeOK, Cycles!Call
  <1> HIDE DEF c, frame
  <1>3. calls' = Append(c, frame)
    BY DEF c, frame
  <1> HIDE DEF n
  <1>4. /\ calls' \in Seq(Cycles!Call) /\ DOMAIN calls' = 1 .. n + 1
        /\ \A i \in 1 .. n : calls'[i] = c[i]
        /\ calls'[n + 1] = frame
    <2>1. Append(c, frame) \in Seq(Cycles!Call) /\ Len(Append(c, frame)) = n + 1
      BY <1>1, <1>2
    <2>2. ASSUME NEW i \in 1 .. n
          PROVE  Append(c, frame)[i] = c[i]
      BY <1>1, <1>2
    <2>3. Append(c, frame)[n + 1] = frame
      BY <1>1, <1>2
    <2>4. DOMAIN Append(c, frame) = 1 .. n + 1
      BY <2>1
    <2> HIDE DEF c, frame
    <2> QED
      BY <1>3, <2>1, <2>2, <2>3, <2>4, Zenon
  <1>5. \A i \in 1 .. n + 1 : i = n + 1 \/ (i \in 1 .. n /\ i # n + 1)
    BY <1>1
  <1>6. n \in 1 .. n /\ 1 .. n \subseteq 1 .. n + 1 /\ n + 1 \in 1 .. n + 1
    BY <1>1
  <1>7. /\ \A i \in 1 .. n : calls'[i].node = calls[i].node
        /\ \A i \in 1 .. n : calls'[i].deps \subseteq calls[i].deps
        /\ \A i \in 1 .. n : \A d : d # dep \/ i # n =>
               (d \in calls'[i].deps <=> d \in calls[i].deps)
        /\ calls'[n + 1].node = dep /\ calls'[n + 1].deps = graph[dep]
    BY <1>1, <1>2, <1>4
  <1>8. Cycles!TypeOK'
    BY <1>4 DEF SearchInv, Cycles!TypeOK
  <1>9. /\ stack \subseteq visited /\ dep \in graph[calls[n].node]
        /\ \A m \in stack : \E i \in 1 .. n : calls[i].node = m
        /\ \A i \in 1 .. n :
              /\ calls[i].node \in stack
              /\ calls[i].deps \subseteq graph[calls[i].node]
              /\ \A j \in 1 .. n : calls[i].node = calls[j].node => i = j
              /\ i + 1 \in 1 .. n => calls[i + 1].node \in graph[calls[i].node]
    BY <1>1, <1>6 DEF SearchInv, PathInv
  <1>10. PathInv'
    <2>1. stack' \subseteq visited'
      BY <1>9
    <2>2. \A m \in stack' : \E i \in 1 .. n + 1 : calls'[i].node = m
      <3>1. ASSUME NEW m \in stack
            PROVE  \E i \in 1 .. n : calls'[i].node = m
        <4>1. PICK i \in 1 .. n : calls[i].node = m
          BY <1>9
        <4> QED
          BY <1>7, <4>1
      <3> QED
        BY <1>6, <1>7, <3>1
    <2>3. ASSUME NEW i \in 1 .. n + 1
          PROVE  /\ calls'[i].node \in stack'
                 /\ calls'[i].deps \subseteq graph[calls'[i].node]
      <3>1. CASE i = n + 1
        BY <1>7, <3>1
      <3>2. CASE i \in 1 .. n
        BY <1>7, <1>9, <3>2
      <3> QED
        BY <1>5, <3>1, <3>2
    <2>4. ASSUME NEW i \in 1 .. n + 1, NEW j \in 1 .. n + 1,
                 calls'[i].node = calls'[j].node
          PROVE  i = j
      <3>1. dep \notin stack
        BY <1>9
      <3>2. CASE i = n + 1
        BY <1>5, <1>7, <1>9, <2>4, <3>1, <3>2
      <3>3. CASE j = n + 1
        BY <1>5, <1>7, <1>9, <2>4, <3>1, <3>3
      <3>4. CASE i \in 1 .. n /\ j \in 1 .. n
        BY <1>7, <1>9, <2>4, <3>4
      <3> QED
        BY <1>5, <3>2, <3>3, <3>4
    <2>5. ASSUME NEW i \in 1 .. n + 1, i + 1 \in 1 .. n + 1
          PROVE  calls'[i + 1].node \in graph[calls'[i].node]
      BY <1>1, <1>5, <1>6, <1>7, <1>9, <2>5
    <2> QED
      BY <1>4, <2>1, <2>2, <2>3, <2>4, <2>5 DEF PathInv
  <1>11. Left' = Left
    BY <1>9 DEF Left
  <1>12. LookedAtInv'
    <2> SUFFICES ASSUME NEW i \in 1 .. n + 1,
                        NEW d \in (graph[calls'[i].node] \ calls'[i].deps) \cap DOMAIN graph
                 PROVE  d \in Left \/ (i + 1 \in 1 .. n + 1 /\ d = calls'[i + 1].node)
      BY <1>4, <1>11 DEF LookedAtInv
    <2>1. i # n + 1 /\ i \in 1 .. n
      BY <1>1, <1>5, <1>7
    <2>2. CASE i = n /\ d = dep
      BY <1>1, <1>6, <1>7, <2>2
    <2>3. CASE i # n \/ d # dep
      <3>1. d \in (graph[calls[i].node] \ calls[i].deps) \cap DOMAIN graph
        BY <1>7, <2>1, <2>3
      <3>2. d \in Left \/ (i + 1 \in 1 .. n /\ d = calls[i + 1].node)
        BY <1>1, <2>1, <3>1 DEF SearchInv, LookedAtInv
      <3> QED
        BY <1>1, <1>5, <1>6, <1>7, <2>1, <3>2
    <2> QED
      BY <2>2, <2>3
  <1>13. ClosedInv' /\ NoCircleInv' /\ NoneMissedInv' /\ AnswerInv'
    <2>1. ClosedInv' /\ NoCircleInv'
      BY <1>11 DEF SearchInv, ClosedInv, NoCircleInv
    <2>2. NoneMissedInv'
      BY DEF SearchInv, NoneMissedInv
    <2>3. AnswerInv'
      BY DEF SearchInv, AnswerInv
    <2> QED
      BY <2>1, <2>2, <2>3
  <1> QED
    BY <1>8, <1>10, <1>12, <1>13 DEF SearchInv

\* visit() returns: everything its task depends on has been left before, so the
\* task is in no circle with what has been left.
LEMMA LeaveInv ==
  ASSUME SearchInv, Cycles!Leave
  PROVE  SearchInv'
  <1> DEFINE n == Len(calls)
             node == calls[n].node
  <1>1. /\ n \in Nat \ {0} /\ DOMAIN calls = 1 .. n /\ n \in 1 .. n /\ Cycles!Top = calls[n]
        /\ calls \in Seq(Cycles!Call) /\ calls[n].deps = {}
    BY CallsType DEF SearchInv, Cycles!TypeOK, Cycles!Leave
  <1>2. /\ calls' \in Seq(Cycles!Call) /\ DOMAIN calls' = 1 .. n - 1
        /\ \A i \in 1 .. n - 1 : calls'[i] = calls[i]
    BY <1>1 DEF Cycles!Leave, Cycles!Front
  <1>3. /\ stack \subseteq visited /\ node \in stack
        /\ \A m \in stack : \E i \in 1 .. n : calls[i].node = m
        /\ \A i \in 1 .. n :
              /\ calls[i].node \in stack
              /\ calls[i].deps \subseteq graph[calls[i].node]
              /\ \A j \in 1 .. n : calls[i].node = calls[j].node => i = j
              /\ i + 1 \in 1 .. n => calls[i + 1].node \in graph[calls[i].node]
    BY <1>1 DEF SearchInv, PathInv
  <1>4. /\ stack' = stack \ {node} /\ UNCHANGED <<graph, todo, visited, answer>>
        /\ answer = "none"
    BY <1>1 DEF Cycles!Leave
  <1>5. Left' = Left \cup {node} /\ node \notin Left
    BY <1>3, <1>4 DEF Left
  <1>6. graph[node] \cap DOMAIN graph \subseteq Left
    <2>1. n + 1 \notin DOMAIN calls
      BY <1>1
    <2> QED
      BY <1>1, <2>1 DEF SearchInv, LookedAtInv
  <1>7. Cycles!TypeOK'
    BY <1>2, <1>4 DEF SearchInv, Cycles!TypeOK
  <1> HIDE DEF n, node
  <1>8. PathInv'
    <2>1. \A i \in 1 .. n - 1 : calls[i].node # node
      BY <1>1, <1>3 DEF node
    <2>2. \A m \in stack' : \E i \in 1 .. n - 1 : calls'[i].node = m
      <3> SUFFICES ASSUME NEW m \in stack, m # node
                   PROVE  \E i \in 1 .. n - 1 : calls'[i].node = m
        BY <1>4
      <3>1. PICK i \in 1 .. n : calls[i].node = m
        BY <1>3
      <3>2. i \in 1 .. n - 1
        BY <1>1, <3>1 DEF node
      <3> QED
        BY <1>2, <3>1, <3>2
    <2>3. ASSUME NEW i \in 1 .. n - 1
          PROVE  /\ calls'[i].node \in stack'
                 /\ calls'[i].deps \subseteq graph[calls'[i].node]
      <3>1. i \in 1 .. n
        BY <1>1
      <3> QED
        BY <1>2, <1>3, <1>4, <2>1, <3>1
    <2>4. ASSUME NEW i \in 1 .. n - 1, NEW j \in 1 .. n - 1,
                 calls'[i].node = calls'[j].node
          PROVE  i = j
      BY <1>1, <1>2, <1>3, <2>4
    <2>5. ASSUME NEW i \in 1 .. n - 1, i + 1 \in 1 .. n - 1
          PROVE  calls'[i + 1].node \in graph[calls'[i].node]
      BY <1>1, <1>2, <1>3, <2>5
    <2> QED
      BY <1>2, <1>3, <1>4, <2>2, <2>3, <2>4, <2>5 DEF PathInv
  <1>9. LookedAtInv'
    <2> SUFFICES ASSUME NEW i \in 1 .. n - 1,
                        NEW d \in (graph[calls[i].node] \ calls[i].deps) \cap DOMAIN graph
                 PROVE  d \in Left \cup {node} \/ (i + 1 \in 1 .. n - 1 /\ d = calls'[i + 1].node)
      BY <1>2, <1>4, <1>5 DEF LookedAtInv
    <2>1. i \in 1 .. n
      BY <1>1
    <2>2. d \in Left \/ (i + 1 \in 1 .. n /\ d = calls[i + 1].node)
      BY <1>1, <2>1 DEF SearchInv, LookedAtInv
    <2>3. i + 1 = n \/ i + 1 \in 1 .. n - 1
      BY <1>1
    <2> QED
      BY <1>2, <2>2, <2>3 DEF node
  <1>10. ClosedInv'
    BY <1>4, <1>5, <1>6 DEF SearchInv, ClosedInv
  <1>11. NoCircleInv'
    <2> SUFFICES ASSUME NEW S \in SUBSET (Left \cup {node}), S # {},
                        \A m \in S : graph[m] \cap S # {}
                 PROVE  FALSE
      BY <1>4, <1>5 DEF NoCircleInv
    <2> DEFINE R == S \ {node}
    <2>1. /\ Left \subseteq DOMAIN graph
          /\ \A m \in Left : graph[m] \cap DOMAIN graph \subseteq Left
          /\ node \in DOMAIN graph
      BY <1>3 DEF SearchInv, Cycles!TypeOK, ClosedInv, Left
    <2>2. \A m \in S : \E d \in graph[m] \cap Left : d \in S
      BY <1>6, <2>1
    <2>3. R # {} /\ R \in SUBSET Left
      BY <1>5, <2>2
    <2>4. \A m \in R : graph[m] \cap R # {}
      BY <1>5, <2>2
    <2> QED
      BY <2>3, <2>4 DEF SearchInv, NoCircleInv
  <1>12. NoneMissedInv' /\ AnswerInv'
    BY <1>4 DEF SearchInv, NoneMissedInv, AnswerInv
  <1> QED
    BY <1>7, <1>8, <1>9, <1>10, <1>11, <1>12 DEF SearchInv

\* A step that only answers.
LEMMA AnsweredInv ==
  ASSUME SearchInv, UNCHANGED <<graph, todo, calls, visited, stack>>,
         \/ answer' = "cycle" /\ Cycles!Circular(graph)
         \/ answer' = "dag" /\ stack = {} /\ todo = {}
  PROVE  SearchInv'
  <1>1. Cycles!TypeOK' /\ AnswerInv'
    BY DEF SearchInv, Cycles!TypeOK, AnswerInv
  <1>2. PathInv' /\ LookedAtInv'
    BY DEF SearchInv, PathInv, LookedAtInv, Left
  <1>3. ClosedInv' /\ NoCircleInv' /\ NoneMissedInv'
    BY DEF SearchInv, ClosedInv, NoCircleInv, NoneMissedInv, Left
  <1> QED
    BY <1>1, <1>2, <1>3 DEF SearchInv

LEMMA SearchNext ==
  ASSUME SearchInv, [Cycles!Next]_Cycles!vars
  PROVE  SearchInv'
  <1>1. ASSUME NEW node \in todo, Cycles!Start(node)
        PROVE  SearchInv'
    <2>1. /\ answer = "none" /\ calls = <<>> /\ todo' = todo \ {node} /\ UNCHANGED graph
          /\ node \in DOMAIN graph /\ stack = {}
      BY <1>1 DEF SearchInv, PathInv, Cycles!TypeOK, Cycles!Start
    <2>2. CASE node \notin visited
      <3>1. /\ visited' = visited \cup {node} /\ stack' = stack \cup {node}
            /\ calls' = Append(calls, [node |-> node, deps |-> graph[node]])
            /\ UNCHANGED answer
        BY <1>1, <2>1, <2>2 DEF Cycles!Start, Cycles!Visit
      <3> QED
        BY <2>1, <2>2, <3>1, FirstCallInv
    <2>3. CASE node \in visited
      <3>1. UNCHANGED <<graph, calls, visited, stack, answer>>
        BY <1>1, <2>1, <2>3 DEF Cycles!Start, Cycles!Visit
      <3>2. Cycles!TypeOK'
        BY <2>1, <3>1 DEF SearchInv, Cycles!TypeOK
      <3>3. PathInv' /\ LookedAtInv'
        BY <3>1 DEF SearchInv, PathInv, LookedAtInv, Left
      <3>4. ClosedInv' /\ NoCircleInv' /\ NoneMissedInv' /\ AnswerInv'
        BY <2>1, <2>3, <3>1
           DEF SearchInv, ClosedInv, NoCircleInv, NoneMissedInv, AnswerInv, Left
      <3> QED
        BY <3>2, <3>3, <3>4 DEF SearchInv
    <2> QED
      BY <2>2, <2>3
  <1>2. ASSUME NEW dep \in Ids, Cycles!Dependency(dep)
        PROVE  SearchInv'
    <2>1. answer = "none" /\ calls # <<>> /\ dep \in Cycles!Top.deps /\ UNCHANGED <<graph, todo>>
      BY <1>2 DEF Cycles!Dependency
    <2>2. CASE dep \notin DOMAIN graph \/ dep \in visited \ stack
      <3>1. calls' = Cycles!CameTo(dep) /\ UNCHANGED <<visited, stack, answer>>
        BY <1>2, <2>2 DEF Cycles!Dependency, Cycles!Visit, SearchInv, Cycles!TypeOK
      <3> QED
        BY <2>1, <2>2, <3>1, PassedInv DEF Left
    <2>3. CASE dep \in DOMAIN graph /\ dep \in stack
      <3>1. answer' = "cycle" /\ UNCHANGED <<calls, visited, stack>>
        BY <1>2, <2>3 DEF Cycles!Dependency, Cycles!Visit, SearchInv, PathInv
      <3> QED
        BY <2>1, <2>3, <3>1, FoundIsCircle, AnsweredInv
    <2>4. CASE dep \in DOMAIN graph /\ dep \notin visited /\ dep \notin stack
      <3>1. /\ visited' = visited \cup {dep} /\ stack' = stack \cup {dep}
            /\ calls' = Append(Cycles!CameTo(dep), [node |-> dep, deps |-> graph[dep]])
            /\ UNCHANGED answer
        BY <1>2, <2>4 DEF Cycles!Dependency, Cycles!Visit
      <3> QED
        BY <2>1, <2>4, <3>1, NextCallInv
    <2> QED
      BY <2>2, <2>3, <2>4
  <1>3. CASE Cycles!Leave
    BY <1>3, LeaveInv
  <1>4. CASE Cycles!End
    <2>1. stack = {}
      BY <1>4 DEF Cycles!End, SearchInv, PathInv
    <2> QED
      BY <1>4, <2>1, AnsweredInv DEF Cycles!End
  <1>5. CASE UNCHANGED Cycles!vars
    <2>1. Cycles!TypeOK' /\ PathInv' /\ LookedAtInv'
      BY <1>5 DEF Cycles!vars, SearchInv, Cycles!TypeOK, PathInv, LookedAtInv, Left
    <2>2. ClosedInv' /\ NoCircleInv' /\ NoneMissedInv' /\ AnswerInv'
      BY <1>5 DEF Cycles!vars, SearchInv, ClosedInv, NoCircleInv, NoneMissedInv, AnswerInv, Left
    <2> QED
      BY <2>1, <2>2 DEF SearchInv
  <1> QED
    BY <1>1, <1>2, <1>3, <1>4, <1>5 DEF Cycles!Next

\* When the loop has passed every task and none is on the path, all have been
\* left.
LEMMA SearchExact == SearchInv => DetectsExactly
  <1> SUFFICES ASSUME SearchInv, answer = "dag", Cycles!Circular(graph)
               PROVE  FALSE
    BY DEF SearchInv, Cycles!TypeOK, AnswerInv, DetectsExactly, Cycles!DetectsExactly
  <1>1. Left = DOMAIN graph
    BY DEF SearchInv, Cycles!TypeOK, AnswerInv, NoneMissedInv, Left
  <1> QED
    BY <1>1 DEF Cycles!Circular, SearchInv, NoCircleInv

\* The search knows no tasks but those of the graph, also in the calls that are
\* in progress.
THEOREM SearchTyped == Cycles!Spec => []Cycles!TypeOK
  BY SearchInit, SearchNext, PTL DEF Cycles!Spec, SearchInv

\* _detect_cycle answers "cycle" exactly when tasks wait for each other in a
\* circle: for any number of tasks, any dependencies, known or not, and any
\* order of the tasks and of their dependency lists.
THEOREM SearchDetects == Cycles!Spec => []DetectsExactly
  BY SearchInit, SearchNext, SearchExact, PTL DEF Cycles!Spec

\* _build_graph over the stored tasks.
BuiltGraph(db) == [i \in {j \in Ids : Repo!Exists(db, j)} |-> db[i].deps]

\* What TaskRepository asks of the stored tasks is what the search looks for.
LEMMA BuiltCircular ==
  ASSUME NEW db \in Databases
  PROVE  Cycles!Circular(BuiltGraph(db)) <=> Repo!HasCycle(db)
  BY DEF Cycles!Circular, BuiltGraph, Repo!HasCycle

LEMMA GraphStays == [Cycles!Next]_Cycles!vars => UNCHANGED graph
  BY DEF Cycles!Next, Cycles!vars, Cycles!Start, Cycles!Dependency, Cycles!Leave, Cycles!End

\* add_task and upsert_task may be modelled as one test of HasCycle: the search
\* over the graph of the stored tasks never gives another answer.
THEOREM SearchIsHasCycle ==
  ASSUME NEW db \in Databases
  PROVE  Cycles!Spec /\ graph = BuiltGraph(db)
            => [](answer # "none" => (answer = "cycle" <=> Repo!HasCycle(db)))
  <1> DEFINE Same == graph = BuiltGraph(db)
             Right == answer # "none" => (answer = "cycle" <=> Repo!HasCycle(db))
  <1>1. Same /\ [Cycles!Next]_Cycles!vars => Same'
    BY GraphStays
  <1>2. Same /\ DetectsExactly => Right
    BY BuiltCircular DEF DetectsExactly, Cycles!DetectsExactly
  <1> HIDE DEF Right
  <1>3. Cycles!Spec /\ Same => []Right
    BY <1>1, <1>2, SearchDetects, PTL DEF Cycles!Spec
  <1> QED
    BY <1>3 DEF Right
=============================================================================
