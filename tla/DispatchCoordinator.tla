------------------------- MODULE DispatchCoordinator -------------------------
(***************************************************************************)
(* The dispatch coordinator (core/runtime/runtime_dispatch_coordinator.py) *)
(* leases registered workers to mission entries.  Its operations are       *)
(* functions on a loaded state: the caller loads the file, applies one     *)
(* operation and saves the result.  An operation publishes its event on    *)
(* the event bus before it returns, so before the caller saves; the worker *)
(* files it reads are written by the workers themselves.                   *)
(***************************************************************************)
EXTENDS Naturals, FiniteSets

CONSTANTS
    Workers,        \* worker ids
    Missions,       \* mission entries: mission_id with entry_id
    Fits,           \* for each entry, the workers whose tags cover it
    Seconds,        \* lease durations
    Fresh,          \* HEARTBEAT_FRESH_SECONDS
    Reports,        \* what the workers' files may say
    MaxTime,        \* bound: the clock, in seconds
    MaxLeases,      \* bound: number of leases announced
    None            \* no value

VARIABLES
    coord,      \* the coordinator's file: records and leases
    work,       \* the result of an operation that is not saved yet
    bus,        \* keys of the events on the bus that are about leases
    worker,     \* the workers' own files
    now         \* the clock

vars == <<coord, work, bus, worker, now>>

\* What a worker's file says; "leased" is a running worker that has a
\* current_lease of its own scheduler, "broken" a file that does not load.
Health == {"idle", "leased", "paused", "failed", "stopped", "broken"}

RecordStatuses == {"available", "busy", "paused", "stale", "failed", "stopped"}

LeaseStatuses == {"active", "completed", "expired", "failed"}

\* A lease id is the fingerprint of worker, mission entry and the second of
\* the acquisition.
LeaseIds == Workers \X Missions \X (0..MaxTime)

Records == [status: RecordStatuses, lease: LeaseIds \cup {None}]
Leases == [status: LeaseStatuses, expires: Nat]

\* What the coordinator's file holds.
States == [rec: [Workers -> Records \cup {None}], lease: [LeaseIds -> Leases \cup {None}]]

CoordinatorAssumption ==
    /\ Fits \in [Missions -> SUBSET Workers]
    /\ Seconds \subseteq Nat \ {0}
    /\ Reports \subseteq Health
    /\ Fresh \in Nat /\ MaxTime \in Nat /\ MaxLeases \in Nat
    /\ None \notin LeaseIds /\ None \notin Records /\ None \notin Leases
    /\ None \notin States

Init ==
    /\ coord = [rec |-> [w \in Workers |-> None],
                lease |-> [l \in LeaseIds |-> None]]
    /\ work = None
    /\ bus = {}
    /\ worker = [w \in Workers |-> [health |-> "idle", beat |-> 0]]
    /\ now = 0

Registered(c) == {w \in Workers : c.rec[w] # None}
Known(c) == {l \in LeaseIds : c.lease[l] # None}
Active(c) == {l \in Known(c) : c.lease[l].status = "active"}

(***************************************************************************)
(* register_worker                                                         *)
(***************************************************************************)
\* The status projected from the worker's file at registration.
Projected(w) ==
    CASE worker[w].health = "failed"  -> "failed"
      [] worker[w].health = "stopped" -> "stopped"
      [] worker[w].health = "paused"  -> "paused"
      [] worker[w].health = "leased"  -> "busy"
      [] OTHER                        -> "available"

RegisterWorker(w) ==
    /\ work = None
    /\ w \notin Registered(coord) /\ worker[w].health # "broken"
    /\ work' = [coord EXCEPT !.rec[w] =
                    [status |-> Projected(w), lease |-> None]]
    /\ UNCHANGED <<coord, bus, worker, now>>

(***************************************************************************)
(* select_available_worker: _recover_expired_leases, then refresh_workers  *)
(***************************************************************************)
Overdue(c) == {l \in Active(c) : c.lease[l].expires <= now}

\* Mutant: only the lease is marked, the worker's record keeps it.
RecoveredLeaseOnly(c) ==
    [c EXCEPT !.lease = [l \in LeaseIds |->
                           IF l \in Overdue(c)
                           THEN [c.lease[l] EXCEPT !.status = "expired"]
                           ELSE c.lease[l]]]

\* The lease expires and its worker is free.
Recovered(c) ==
    [rec |-> [w \in Workers |->
                IF \E l \in Overdue(c) : l[1] = w
                THEN [status |-> "available", lease |-> None]
                ELSE c.rec[w]],
     lease |-> [l \in LeaseIds |->
                  IF l \in Overdue(c)
                  THEN [c.lease[l] EXCEPT !.status = "expired"]
                  ELSE c.lease[l]]]

IsFresh(w) == now - worker[w].beat <= Fresh

\* Mutant: the status of the last refresh is good enough.
RefreshKept(r, w) == r.status

\* The status refresh_workers gives the record of a registered worker.
Refresh(r, w) ==
    IF worker[w].health = "broken" THEN "failed"
    ELSE IF ~IsFresh(w) THEN "stale"
    ELSE IF worker[w].health \in {"failed", "stopped", "paused"} THEN worker[w].health
    ELSE IF r.lease # None THEN "busy"
    ELSE "available"

Refreshed(c) ==
    [c EXCEPT !.rec = [w \in Workers |->
        IF c.rec[w] = None
        THEN None
        ELSE [c.rec[w] EXCEPT !.status = Refresh(c.rec[w], w)]]]

Selectable(c, m) == {w \in Registered(c) \cap Fits[m] : c.rec[w].status = "available"}

\* refresh_workers, or select_available_worker by a caller that only asks.
RefreshWorkers ==
    /\ work = None
    /\ work' \in {Refreshed(coord), Refreshed(Recovered(coord))}
    /\ UNCHANGED <<coord, bus, worker, now>>

(***************************************************************************)
(* acquire_worker_lease, complete_worker_lease                             *)
(***************************************************************************)
\* c with worker w leased to entry m for s seconds.
Leased(c, w, m, s) ==
    [rec |-> [c.rec EXCEPT ![w] = [status |-> "busy", lease |-> <<w, m, now>>]],
     lease |-> [c.lease EXCEPT ![<<w, m, now>>] =
                  [status |-> "active", expires |-> now + s]]]

\* The score that orders the candidates (weight and reliability) is left open.
AcquireLease(m, s) ==
    /\ work = None /\ Cardinality({e \in bus : e[1] = "assigned"}) < MaxLeases
    /\ LET c == Refreshed(Recovered(coord)) IN
       \E w \in Selectable(c, m) :
          /\ work' = Leased(c, w, m, s)
          /\ bus' = bus \cup {<<"assigned", <<w, m, now>>>>}
    /\ UNCHANGED <<coord, worker, now>>

NoWorkerAvailable(m) ==
    /\ work = None
    /\ LET c == Refreshed(Recovered(coord)) IN
          /\ Selectable(c, m) = {}
          /\ work' = c
    /\ UNCHANGED <<coord, bus, worker, now>>

\* The lease ends with status o and its worker is free again.
Ended(c, l, o) ==
    [rec |-> [c.rec EXCEPT ![l[1]] =
                [status |-> IF o = "failed" THEN "failed" ELSE "available",
                 lease |-> None]],
     lease |-> [c.lease EXCEPT ![l].status = o]]

\* An answer for a lease that is no longer active changes nothing.
Completed(c, l, o) == IF l \in Active(c) THEN Ended(c, l, o) ELSE c

\* Mutant: only success is announced.
AnsweredSuccess(c, l, o) ==
    IF l \in Active(c) /\ o = "completed" THEN {<<o, l>>} ELSE {}

\* The keys complete_worker_lease publishes.
Answered(c, l, o) == IF l \in Active(c) THEN {<<o, l>>} ELSE {}

CompleteLease(l, o) ==
    /\ work = None
    /\ l \in Known(coord)
    /\ work' = Completed(coord, l, o)
    /\ bus' = bus \cup Answered(coord, l, o)
    /\ UNCHANGED <<coord, worker, now>>

(***************************************************************************)
(* save_dispatch_coordinator_state and the world around                    *)
(***************************************************************************)
\* validate_worker_record: a busy worker has an active_lease_id.
Valid(c) == \A w \in Registered(c) : c.rec[w].status = "busy" => c.rec[w].lease # None

SaveState ==
    /\ work # None /\ Valid(work)
    /\ coord' = work
    /\ work' = None
    /\ UNCHANGED <<bus, worker, now>>

SaveRefused ==
    /\ work # None /\ ~Valid(work)
    /\ work' = None
    /\ UNCHANGED <<coord, bus, worker, now>>

\* The caller ends before it has saved; the event stays on the bus.
Crash ==
    /\ work # None
    /\ work' = None
    /\ UNCHANGED <<coord, bus, worker, now>>

\* A worker writes its own file.  A report or a tick between an operation and
\* its save changes nothing the save looks at, so they come before or after.
WorkerReports(w, h) ==
    /\ work = None
    /\ worker' = [worker EXCEPT ![w] = [health |-> h, beat |-> now]]
    /\ UNCHANGED <<coord, work, bus, now>>

Tick ==
    /\ work = None
    /\ now < MaxTime
    /\ now' = now + 1
    /\ UNCHANGED <<coord, work, bus, worker>>

Next ==
    \/ \E w \in Workers : RegisterWorker(w)
    \/ RefreshWorkers
    \/ \E m \in Missions, s \in Seconds : AcquireLease(m, s)
    \/ \E m \in Missions : NoWorkerAvailable(m)
    \/ \E l \in LeaseIds, o \in {"completed", "failed"} : CompleteLease(l, o)
    \/ SaveState
    \/ SaveRefused
    \/ Crash
    \/ \E w \in Workers, h \in Reports : WorkerReports(w, h)
    \/ Tick

Spec == Init /\ [][Next]_vars

(***************************************************************************)
(* Properties                                                              *)
(***************************************************************************)
\* Records and leases have the statuses the coordinator's validation knows,
\* also in a state that is not saved yet.
TypeOK ==
    /\ coord \in States
    /\ work \in States \cup {None}
    /\ worker \in [Workers -> [health: Health, beat: 0..MaxTime]]
    /\ now \in 0..MaxTime

\* The leases and the workers' records agree: the active lease of a worker is
\* the one its record names, so no worker serves two entries, and no late or
\* repeated answer frees a worker that has been leased again
\* (acquire_worker_lease, complete_worker_lease, _recover_expired_leases).
OneLease ==
    \A w \in Registered(coord) :
        {l \in Active(coord) : l[1] = w} = {coord.rec[w].lease} \ {None}

\* What the file says has been announced: every lease with dispatch.assigned,
\* every answered lease with its answer, whatever crashes lie between
\* (_publish_event comes before the caller's save).  The converse fails: a
\* crash leaves events about leases that no file knows.
Announced ==
    \A l \in Known(coord) :
        /\ <<"assigned", l>> \in bus
        /\ coord.lease[l].status \in {"completed", "failed"} =>
              <<coord.lease[l].status, l>> \in bus

\* A lease is only given to a worker that is alive at that moment, by its own
\* file and a fresh heartbeat and not by the status stored at the last
\* refresh, and that has no lease left that still runs
\* (select_available_worker refreshes before it selects).
GivenToLive ==
    [][\A w \in Workers, m \in Missions :
          LET l == <<w, m, now>> IN
          work = None /\ work' # None /\ l \in Active(work') /\ l \notin Active(coord) =>
              /\ worker[w].health \in {"idle", "leased"} /\ IsFresh(w)
              /\ {k \in Active(coord) : k[1] = w} \subseteq Overdue(coord)]_vars
=============================================================================
