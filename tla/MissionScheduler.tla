-------------------------- MODULE MissionScheduler --------------------------
(***************************************************************************)
(* The mission scheduler (core/runtime/runtime_mission_scheduler.py): an   *)
(* iteration loads the scheduler's file, recovers leases that have run     *)
(* out, leases the best mission, saves, drives the mission, loads again,   *)
(* releases the lease and saves.  Every save is followed by an event and a *)
(* second save of the same copy.  Operators enqueue missions and ask for   *)
(* pause, resume and stop through the command line, which loads and saves  *)
(* the same file; nothing locks it.  Time is the age of a lease.           *)
(***************************************************************************)
EXTENDS Integers, Sequences, Functions, FiniteSets

CONSTANTS
    Schedulers,     \* processes that run iterations
    Operators,      \* command line processes
    Requests,       \* the requests each operator makes besides enqueueing
    Missions,
    Priority,       \* the priority each mission is enqueued with
    Initial,        \* the missions enqueued at the start, in this order
    LeaseTicks,     \* lease_seconds
    MaxCrashes,     \* bound: number of crashes
    None            \* no value

Procs == Schedulers \cup Operators

\* TERMINAL_ENTRY_STATUSES: completed and, for the others, blocked.
Terminal == {"completed", "blocked"}
EntryStatuses == Terminal \cup {"queued", "running", "waiting"}

\* One id for each lease that the file or a process may know at a time.
LeaseIds == 1..((Cardinality(Procs) + 1) * Cardinality(Missions)
                + Cardinality(Schedulers) + 1)

SchedulerStatuses == {"created", "running", "idle", "paused", "stopping", "stopped", "blocked"}

\* An entry; the age is that of its lease.
Entry == [status : EntryStatuses, lease : LeaseIds \cup {None}, age : 0..LeaseTicks]

\* What the file holds: entry_order, entries, the two requests and the status.
Files == [order : Seq(Missions), entry : [Missions -> Entry \cup {None}],
          pause : BOOLEAN, stop : BOOLEAN, status : SchedulerStatuses]

\* How driver.run_mission ends: the entry's next status, or an exception.
Outcomes == {"completed", "blocked", "waiting", "queued", "error"}

SchedulerAssumption ==
    /\ Priority \in [Missions -> Int]
    /\ Requests \in [Operators -> SUBSET {"pause", "resume", "stop"}]
    /\ Initial \in Seq(Missions)
    /\ LeaseTicks \in Nat \ {0} /\ MaxCrashes \in Nat
    /\ None \notin Missions /\ None \notin LeaseIds /\ None \notin Entry /\ None \notin Files
    /\ None \notin Outcomes

VARIABLES
    file,       \* the scheduler's file
    pc,         \* where each process is
    mem,        \* the copy each process works on
    cur,        \* the mission a scheduler has dispatched
    held,       \* the id of the lease a scheduler has on it
    result,     \* how the driver ended
    done,       \* missions whose own file is completed
    crashes     \* crashes so far

vars == <<file, pc, mem, cur, held, result, done, crashes>>

Init ==
    /\ file = [order |-> Initial,
               entry |-> [m \in Missions |->
                   IF m \in Range(Initial)
                   THEN [status |-> "queued", lease |-> None, age |-> 0]
                   ELSE None],
               pause |-> FALSE, stop |-> FALSE, status |-> "created"]
    /\ pc = [p \in Procs |-> "idle"]
    /\ mem = [p \in Procs |-> None]
    /\ cur = [p \in Schedulers |-> None]
    /\ held = [p \in Schedulers |-> None]
    /\ result = [p \in Schedulers |-> None]
    /\ done = {}
    /\ crashes = 0

(***************************************************************************)
(* Operations on a loaded state                                            *)
(***************************************************************************)
Entries(f) == {m \in Missions : f.entry[m] # None}

\* The file keeps expires_at; the lease has run out when it is old enough.
RunOut(f) == {m \in Entries(f) : f.entry[m].status = "running" /\ f.entry[m].age >= LeaseTicks}

\* Mutant: leases that have run out stay where they are.
RecoverNothing(f) == f

\* _recover_expired_leases, without the counter recovered_leases.
Recover(f) ==
    [f EXCEPT !.entry = [m \in Missions |->
        IF m \in RunOut(f)
        THEN [status |-> "queued", lease |-> None, age |-> 0]
        ELSE f.entry[m]]]

\* Mutant: everything that does not run is tried again.
CandidatesAll(f) == {m \in Entries(f) : f.entry[m].status # "running"}

Candidates(f) == {m \in Entries(f) : f.entry[m].status \in {"queued", "waiting"}}

Position(f, m) == CHOOSE i \in DOMAIN f.order : f.order[i] = m

\* The candidate with the highest priority, the first enqueued among equals.
IsBest(f, m) ==
    /\ m \in Candidates(f)
    /\ \A d \in Candidates(f) \ {m} :
          \/ Priority[m] > Priority[d]
          \/ Priority[m] = Priority[d] /\ Position(f, m) < Position(f, d)

\* Lease ids that no file, copy or scheduler knows.
Copies == {file} \cup {mem[p] : p \in {q \in Procs : mem[q] # None}}
Known == UNION {{f.entry[m].lease : m \in Entries(f)} : f \in Copies}
NewLeases == {i \in LeaseIds : i \notin Known /\ \A p \in Schedulers : held[p] # i}

\* The least one stands for all of them: ids are only compared.
IsNewLease(i) == i \in NewLeases /\ \A j \in NewLeases : i <= j

Leased(f, m, i) ==
    [f EXCEPT !.entry[m] = [status |-> "running", lease |-> i, age |-> 0],
              !.status = "running"]

\* Mutant: every release counts as the end.
ReleasedCompleted(f, m, s) ==
    [f EXCEPT !.entry[m] = [status |-> "completed", lease |-> None, age |-> 0]]

\* release_mission_lease: the entry gets status s.
Released(f, m, s) ==
    [f EXCEPT !.entry[m] = [status |-> s, lease |-> None, age |-> 0]]

(***************************************************************************)
(* run_mission_scheduler_iteration                                         *)
(***************************************************************************)
Keep(p, f, next) ==
    /\ mem' = [mem EXCEPT ![p] = f]
    /\ pc' = [pc EXCEPT ![p] = next]

\* Stop, pause, nothing to do: the iteration saves and ends.
BeginIdle(p) ==
    LET f == Recover(file) IN
    /\ pc[p] = "idle"
    /\ \/ file.stop /\ Keep(p, [f EXCEPT !.status = "stopped"], "save")
       \/ ~file.stop /\ file.pause /\ Keep(p, [f EXCEPT !.status = "paused"], "save")
       \/ ~file.stop /\ ~file.pause /\ Candidates(f) = {}
            /\ Keep(p, [f EXCEPT !.status = "idle"], "save")
    /\ UNCHANGED <<file, cur, held, result, done, crashes>>

BeginDispatch(p) ==
    LET f == Recover(file) IN
    /\ pc[p] = "idle" /\ ~file.stop /\ ~file.pause
    /\ \E m \in Candidates(f), i \in LeaseIds :
          /\ IsBest(f, m) /\ IsNewLease(i)
          /\ Keep(p, Leased(f, m, i), "save")
          /\ cur' = [cur EXCEPT ![p] = m]
          /\ held' = [held EXCEPT ![p] = i]
    /\ UNCHANGED <<file, result, done, crashes>>

\* save_mission_scheduler_state, before the event.
Save(p) ==
    /\ pc[p] = "save"
    /\ file' = mem[p]
    /\ pc' = [pc EXCEPT ![p] = "publish"]
    /\ UNCHANGED <<mem, cur, held, result, done, crashes>>

\* After the event the same copy is saved with last_event_id.  A dispatched
\* mission is driven then; otherwise the iteration ends.
SaveAgain(p) ==
    /\ pc[p] = "publish"
    /\ file' = mem[p]
    /\ mem' = [mem EXCEPT ![p] = None]
    /\ pc' = [pc EXCEPT ![p] = IF cur[p] # None THEN "drive" ELSE "idle"]
    /\ UNCHANGED <<cur, held, result, done, crashes>>

\* driver.run_mission: the mission ends completed, ends blocked, waits for its
\* operator, stops at its iteration limit, or the driver raises.  A mission that
\* is done stays so, and raises when it does not pass validate_mission: each
\* time, once its expires_at has passed.
Drive(p) ==
    /\ pc[p] = "drive"
    /\ \E o \in IF cur[p] \in done
                THEN {"completed", "error"} ELSE Outcomes :
          /\ result' = [result EXCEPT ![p] = o]
          /\ done' = IF o = "completed" THEN done \cup {cur[p]} ELSE done
    /\ pc' = [pc EXCEPT ![p] = "reload"]
    /\ UNCHANGED <<file, mem, cur, held, crashes>>

OwnsLease(p) == file.entry[cur[p]].lease = held[p]

\* Load again, release, save.  An exception, a lease that is no longer ours
\* included, puts the mission back into the queue if the lease is still ours.
Finish(p) ==
    LET m == cur[p]
        failed == result[p] = "error" \/ ~OwnsLease(p)
        back == IF OwnsLease(p) THEN Released(file, m, "queued") ELSE file
    IN
    /\ pc[p] = "reload" /\ m \in Entries(file)
    /\ IF failed
       THEN Keep(p, [back EXCEPT !.status = "blocked"], "save")
       ELSE Keep(p, [Released(file, m, result[p]) EXCEPT !.status = "running"], "save")
    /\ cur' = [cur EXCEPT ![p] = None]
    /\ held' = [held EXCEPT ![p] = None]
    /\ result' = [result EXCEPT ![p] = None]
    /\ UNCHANGED <<file, done, crashes>>

\* A command's save has removed the entry: what the iteration makes of it does
\* not pass the validation, so the save raises and the iteration ends.
FinishRaises(p) ==
    /\ pc[p] = "reload" /\ cur[p] \notin Entries(file)
    /\ pc' = [pc EXCEPT ![p] = "idle"]
    /\ cur' = [cur EXCEPT ![p] = None]
    /\ held' = [held EXCEPT ![p] = None]
    /\ result' = [result EXCEPT ![p] = None]
    /\ UNCHANGED <<file, mem, done, crashes>>

(***************************************************************************)
(* The command line: enqueue_mission, request_mission_scheduler_action     *)
(***************************************************************************)
Requested(f, a) ==
    CASE a = "pause"  -> [f EXCEPT !.pause = TRUE, !.status = "paused"]
      [] a = "resume" -> [f EXCEPT !.pause = FALSE, !.stop = FALSE, !.status = "idle"]
      [] a = "stop"   -> [f EXCEPT !.stop = TRUE, !.status = "stopping"]

RequestAction(o, a) ==
    /\ pc[o] = "idle"
    /\ Keep(o, Requested(file, a), "command")
    /\ UNCHANGED <<file, cur, held, result, done, crashes>>

\* A mission whose own file is completed is enqueued as completed.
Enqueue(o, m) ==
    /\ pc[o] = "idle"
    /\ m \notin Entries(file)
    /\ Keep(o, [file EXCEPT
                  !.order = Append(@, m),
                  !.entry[m] = [status |-> IF m \in done THEN "completed" ELSE "queued",
                                lease |-> None, age |-> 0]], "command")
    /\ UNCHANGED <<file, cur, held, result, done, crashes>>

SaveCommand(o) ==
    /\ pc[o] = "command"
    /\ file' = mem[o]
    /\ mem' = [mem EXCEPT ![o] = None]
    /\ pc' = [pc EXCEPT ![o] = "idle"]
    /\ UNCHANGED <<cur, held, result, done, crashes>>

(***************************************************************************)
(* Crashes and time                                                        *)
(***************************************************************************)
Crash(p) ==
    /\ pc[p] # "idle" /\ crashes < MaxCrashes
    /\ crashes' = crashes + 1
    /\ pc' = [pc EXCEPT ![p] = "idle"]
    /\ mem' = [mem EXCEPT ![p] = None]
    /\ cur' = [q \in Schedulers |-> IF q = p THEN None ELSE cur[q]]
    /\ held' = [q \in Schedulers |-> IF q = p THEN None ELSE held[q]]
    /\ result' = [q \in Schedulers |-> IF q = p THEN None ELSE result[q]]
    /\ UNCHANGED <<file, done>>

Aged(f) ==
    [f EXCEPT !.entry = [m \in Missions |->
        IF f.entry[m] # None /\ f.entry[m].lease # None /\ f.entry[m].age < LeaseTicks
        THEN [f.entry[m] EXCEPT !.age = @ + 1]
        ELSE f.entry[m]]]

\* Every copy of a lease gets older.
Tick ==
    /\ file' = Aged(file)
    /\ mem' = [p \in Procs |-> IF mem[p] = None THEN None ELSE Aged(mem[p])]
    /\ UNCHANGED <<pc, cur, held, result, done, crashes>>

\* An iteration that has begun.
Iterate(p) ==
    \/ Save(p)
    \/ SaveAgain(p)
    \/ Drive(p)
    \/ Finish(p)
    \/ FinishRaises(p)

Step(p) == BeginIdle(p) \/ BeginDispatch(p) \/ Iterate(p)

Command(o) ==
    \/ \E a \in Requests[o] : RequestAction(o, a)
    \/ \E m \in Missions : Enqueue(o, m)
    \/ SaveCommand(o)

Next ==
    \/ \E p \in Schedulers : Step(p)
    \/ \E o \in Operators : Command(o)
    \/ \E p \in Procs : Crash(p)
    \/ Tick

Spec == Init /\ [][Next]_vars

\* An iteration that has begun goes on, its driver returns (it has an iteration
\* limit), and time passes.  Nothing makes anybody begin another iteration.
FairSpec == Spec /\ WF_vars(Tick) /\ \A p \in Schedulers : WF_vars(Iterate(p))

(***************************************************************************)
(* Properties                                                              *)
(***************************************************************************)
\* Entries have the statuses validate_mission_scheduler_state accepts, the
\* order lists them, and exactly the running ones have a lease.
FileOK(f) ==
    /\ f \in Files
    /\ Range(f.order) = Entries(f)
    /\ \A m \in Entries(f) : f.entry[m].status = "running" <=> f.entry[m].lease # None

TypeOK ==
    /\ FileOK(file)
    /\ pc \in [Procs -> {"idle", "save", "publish", "drive", "reload", "command"}]
    /\ mem \in [Procs -> Files \cup {None}]
    /\ \A p \in Procs : mem[p] # None => FileOK(mem[p])
    /\ cur \in [Schedulers -> Missions \cup {None}]
    /\ held \in [Schedulers -> LeaseIds \cup {None}]
    /\ result \in [Schedulers -> Outcomes \cup {None}]
    /\ done \subseteq Missions
    /\ crashes \in 0..MaxCrashes

\* With one scheduler and no commands, whatever crashes happen, a mission that
\* the file says has ended is never queued or run again (the candidates and
\* the recovery leave it alone, and every save keeps it).
EndsOnce ==
    [][\A m \in Missions : file.entry[m] # None /\ file.entry[m].status \in Terminal =>
          file'.entry[m] = file.entry[m]]_file

\* However schedulers and commands overwrite each other's saves, the file never
\* claims that a mission has completed when it has not (Finish, Enqueue).
CompletedIsDone ==
    \A m \in Entries(file) : file.entry[m].status = "completed" => m \in done

\* Iterations are begun again and again: run_mission_scheduler without a limit,
\* or an operator who starts it again.
KeepsRunning == []<>(\E p \in Schedulers : pc[p] # "idle")

\* The driver does not raise for m for ever, as it does when m has expired.
StopsRaising(m) == <>[](\A p \in Schedulers : cur[p] = m => result[p] # "error")

\* A mission that has completed while its scheduler crashed before it could
\* record that, or whose drive raised, is recorded after all, once the lease has
\* run out, if the scheduler keeps running, the driver stops raising for it and
\* no other mission has at least its priority.
Recorded ==
    \A m \in Missions :
        (\A d \in Missions \ {m} : Priority[m] > Priority[d]) =>
            (KeepsRunning /\ StopsRaising(m) => (m \in done ~> file.entry[m].status \in Terminal))
=============================================================================
