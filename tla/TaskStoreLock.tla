---------------------------- MODULE TaskStoreLock ----------------------------
(***************************************************************************)
(* _TaskStoreLock and the transactions of TaskRepository that it guards.   *)
(*                                                                         *)
(* A process has one lock object for tasks.json: an RLock between its      *)
(* threads, a nesting depth, and an flock on tasks.json.lock between       *)
(* processes, taken at depth 0 only.  A transaction reloads the file into  *)
(* self.tasks, which the threads of the process share, changes it, and     *)
(* replaces the file.  Transactions nest: create_task calls add_task,      *)
(* every one of them calls load and save, which lock again.                *)
(*                                                                         *)
(* An flock goes with the process that holds it.  Reading, locking and     *)
(* replacing the file may raise.                                           *)
(***************************************************************************)
EXTENDS Naturals, FiniteSets

CONSTANTS
    Procs,      \* processes
    Threads,    \* their threads
    ProcOf,     \* Threads -> Procs
    Contents,   \* what tasks.json may hold
    Empty,      \* no task
    Ops,        \* the changes a transaction makes to the tasks
    Apply(_, _),\* Apply(op, tasks): the tasks after the change op
    Nobody,     \* no holder
    MaxDepth    \* bound on the nesting

LockAssumption ==
    /\ ProcOf \in [Threads -> Procs]
    /\ Nobody \notin Threads \cup Procs
    /\ MaxDepth \in Nat \ {0}
    /\ Empty \in Contents
    /\ \A op \in Ops, c \in Contents : Apply(op, c) \in Contents

VARIABLES
    owner,      \* _thread_lock: the thread that holds it, per process
    depth,      \* _depth, per process
    flock,      \* the process that holds the OS lock
    pc,         \* what each thread is at
    inner,      \* the acquire() blocks each thread is in
    mem,        \* self.tasks, per process
    dirty,      \* the thread's transaction has changed self.tasks
    file,       \* tasks.json
    unreadable  \* observability: a read of the file has failed

lockVars == <<owner, depth, flock, inner>>
vars == <<owner, depth, flock, pc, inner, mem, dirty, file, unreadable>>

\* out: not in a transaction; lock: holds the RLock, the OS lock is next;
\* in: in the body of acquire(); loaded: has reloaded; unlock: the OS lock has
\* to be released; leave: the RLock has to be released.
Phases == {"out", "lock", "in", "loaded", "unlock", "leave"}

\* The depth of the re-entrant lock never leaves its range, and the file holds
\* a list of tasks.
TypeOK ==
    /\ owner \in [Procs -> Threads \cup {Nobody}]
    /\ depth \in [Procs -> 0 .. MaxDepth]
    /\ flock \in Procs \cup {Nobody}
    /\ pc \in [Threads -> Phases]
    /\ inner \in [Threads -> 0 .. MaxDepth]
    /\ mem \in [Procs -> Contents]
    /\ dirty \in [Threads -> BOOLEAN]
    /\ file \in Contents
    /\ unreadable \in BOOLEAN

Init ==
    /\ owner = [p \in Procs |-> Nobody]
    /\ depth = [p \in Procs |-> 0]
    /\ flock = Nobody
    /\ pc = [t \in Threads |-> "out"]
    /\ inner = [t \in Threads |-> 0]
    /\ mem = [p \in Procs |-> Empty]
    /\ dirty = [t \in Threads |-> FALSE]
    /\ file = Empty
    /\ unreadable = FALSE

At(t, phase) == pc[t] = phase

Go(t, phase) == pc' = [pc EXCEPT ![t] = phase]

-----------------------------------------------------------------------------
(* acquire()                                                               *)

\* with self._thread_lock: the outermost block waits for the other threads.
Enter(t) ==
    /\ At(t, "out")
    /\ owner[ProcOf[t]] = Nobody
    /\ owner' = [owner EXCEPT ![ProcOf[t]] = t]
    /\ Go(t, "lock")
    /\ UNCHANGED <<depth, flock, inner, mem, dirty, file, unreadable>>

\* _acquire_os_lock, then _depth += 1.
AcquireOs(t) ==
    /\ At(t, "lock")
    /\ depth[ProcOf[t]] = 0
    /\ flock = Nobody
    /\ flock' = ProcOf[t]
    /\ depth' = [depth EXCEPT ![ProcOf[t]] = 1]
    /\ inner' = [inner EXCEPT ![t] = 1]
    /\ Go(t, "in")
    /\ UNCHANGED <<owner, mem, dirty, file, unreadable>>

\* Mutant: the RLock is not given back.
AcquireFailsHolding(t) ==
    /\ At(t, "lock")
    /\ Go(t, "out")
    /\ UNCHANGED <<lockVars, mem, dirty, file, unreadable>>

\* _acquire_os_lock raises: the with block gives the RLock back.
AcquireFails(t) ==
    /\ At(t, "lock")
    /\ owner' = [owner EXCEPT ![ProcOf[t]] = Nobody]
    /\ Go(t, "out")
    /\ UNCHANGED <<depth, flock, inner, mem, dirty, file, unreadable>>

\* A nested acquire(): the RLock and the depth let the holder through.
Nest(t) ==
    /\ At(t, "in") \/ At(t, "loaded")
    /\ inner[t] < MaxDepth
    /\ depth' = [depth EXCEPT ![ProcOf[t]] = @ + 1]
    /\ inner' = [inner EXCEPT ![t] = @ + 1]
    /\ UNCHANGED <<owner, flock, pc, mem, dirty, file, unreadable>>

\* Mutant: the OS lock is released by the innermost block.
UnnestReleases(t) ==
    /\ At(t, "in") \/ At(t, "loaded")
    /\ inner[t] > 1
    /\ depth' = [depth EXCEPT ![ProcOf[t]] = @ - 1]
    /\ inner' = [inner EXCEPT ![t] = @ - 1]
    /\ flock' = Nobody
    /\ UNCHANGED <<owner, pc, mem, dirty, file, unreadable>>

\* The end of a nested block, by an exception or not.
Unnest(t) ==
    /\ At(t, "in") \/ At(t, "loaded")
    /\ inner[t] > 1
    /\ depth' = [depth EXCEPT ![ProcOf[t]] = @ - 1]
    /\ inner' = [inner EXCEPT ![t] = @ - 1]
    /\ UNCHANGED <<owner, flock, pc, mem, dirty, file, unreadable>>

\* The finally of the outermost block: _depth -= 1, then _release_os_lock.
Finish(t) ==
    /\ At(t, "in") \/ At(t, "loaded")
    /\ inner[t] = 1
    /\ depth' = [depth EXCEPT ![ProcOf[t]] = @ - 1]
    /\ inner' = [inner EXCEPT ![t] = 0]
    /\ dirty' = [dirty EXCEPT ![t] = FALSE]
    /\ Go(t, "unlock")
    /\ UNCHANGED <<owner, flock, mem, file, unreadable>>

\* LOCK_UN, or close() when that raises.
ReleaseOs(t) ==
    /\ At(t, "unlock")
    /\ flock' = Nobody
    /\ Go(t, "leave")
    /\ UNCHANGED <<owner, depth, inner, mem, dirty, file, unreadable>>

Leave(t) ==
    /\ At(t, "leave")
    /\ owner' = [owner EXCEPT ![ProcOf[t]] = Nobody]
    /\ Go(t, "out")
    /\ UNCHANGED <<depth, flock, inner, mem, dirty, file, unreadable>>

-----------------------------------------------------------------------------
(* The body of a transaction.                                              *)

\* Mutant: self.tasks serves as a cache.
LoadCached(t) ==
    /\ At(t, "in") \/ (At(t, "loaded") /\ ~dirty[t])
    /\ Go(t, "loaded")
    /\ UNCHANGED <<lockVars, mem, dirty, file, unreadable>>

\* self.reload(); a nested transaction reloads before it changes anything.
Load(t) ==
    /\ At(t, "in") \/ (At(t, "loaded") /\ ~dirty[t])
    /\ mem' = [mem EXCEPT ![ProcOf[t]] = file]
    /\ Go(t, "loaded")
    /\ UNCHANGED <<lockVars, dirty, file, unreadable>>

\* The file cannot be opened or parsed: self.tasks = [].
LoadFails(t) ==
    /\ At(t, "in") \/ (At(t, "loaded") /\ ~dirty[t])
    /\ mem' = [mem EXCEPT ![ProcOf[t]] = Empty]
    /\ unreadable' = TRUE
    /\ Go(t, "loaded")
    /\ UNCHANGED <<lockVars, dirty, file>>

\* Tasks are appended, replaced, dropped or refreshed.
Change(t) ==
    /\ At(t, "loaded") /\ ~dirty[t]
    /\ \E op \in Ops : mem' = [mem EXCEPT ![ProcOf[t]] = Apply(op, @)]
    /\ dirty' = [dirty EXCEPT ![t] = TRUE]
    /\ UNCHANGED <<lockVars, pc, file, unreadable>>

\* atomic_write_json: the file is replaced whole.  When it raises, the body
\* ends without it.
Save(t) ==
    /\ At(t, "loaded") /\ dirty[t]
    /\ file' = mem[ProcOf[t]]
    /\ dirty' = [dirty EXCEPT ![t] = FALSE]
    /\ Go(t, "in")
    /\ UNCHANGED <<lockVars, mem, unreadable>>

\* The process ends and a new one starts: the flock is free, the memory new.
Crash(p) ==
    /\ owner' = [owner EXCEPT ![p] = Nobody]
    /\ depth' = [depth EXCEPT ![p] = 0]
    /\ flock' = IF flock = p THEN Nobody ELSE flock
    /\ pc' = [t \in Threads |-> IF ProcOf[t] = p THEN "out" ELSE pc[t]]
    /\ inner' = [t \in Threads |-> IF ProcOf[t] = p THEN 0 ELSE inner[t]]
    /\ mem' = [mem EXCEPT ![p] = Empty]
    /\ dirty' = [t \in Threads |-> IF ProcOf[t] = p THEN FALSE ELSE dirty[t]]
    /\ UNCHANGED <<file, unreadable>>

-----------------------------------------------------------------------------
Step(t) ==
    \/ Enter(t) \/ AcquireOs(t) \/ AcquireFails(t) \/ Nest(t) \/ Unnest(t)
    \/ Finish(t) \/ ReleaseOs(t) \/ Leave(t)
    \/ Load(t) \/ LoadFails(t) \/ Change(t) \/ Save(t)

Next == (\E t \in Threads : Step(t)) \/ (\E p \in Procs : Crash(p))

Spec == Init /\ [][Next]_vars

-----------------------------------------------------------------------------
(* Correctness.                                                            *)

Inside(t) == pc[t] \in {"in", "loaded", "unlock"}

\* At most one thread of all processes is between taking and releasing the
\* OS lock, whatever nests, raises or crashes.
MutualExclusion == \A t, u \in Threads : Inside(t) /\ Inside(u) => t = u

\* Nobody keeps a lock it no longer uses: a held lock belongs to a thread on
\* its way through acquire(), and the depth counts that thread's blocks.
NoLeak ==
    /\ \A p \in Procs : owner[p] # Nobody => ProcOf[owner[p]] = p /\ ~At(owner[p], "out")
    /\ flock # Nobody => owner[flock] # Nobody /\ Inside(owner[flock])
    /\ \A p \in Procs : depth[p] = IF owner[p] = Nobody THEN 0 ELSE inner[owner[p]]

\* To the users of the repository every transaction is one step on the file:
\* no update of another thread or process is lost, unless a read failed.
Atomic == INSTANCE AtomicStore
TransactionsAtomic == Atomic!Spec
=============================================================================
