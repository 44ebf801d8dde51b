---------------------------- MODULE MissionLayer ----------------------------
(***************************************************************************)
(* The mission layer: the mission scheduler, the mission daemon that runs  *)
(* its iterations, the dispatch coordinator, and the event bus on which    *)
(* all of them publish.  Each keeps a file of its own, and what it learns  *)
(* from another one is an open choice in its module.                       *)
(***************************************************************************)
EXTENDS MissionScheduler

CONSTANTS
    DaemonRequests, DaemonOutcomes, MaxAttempts, MaxLoops, MaxFaults,
    Workers, Fits, Seconds, Fresh, Reports, MaxTime, MaxLeases,
    Writers, Keys, NoKey, Torn, Empty, MaxCalls

VARIABLES
    dfile, dpc, mode, dmem, from, outcome, dbus, faults,
    coord, work, cbus, worker, now,
    bus, temp, bpc, bcopy, event, handle, calls, acked

daemonVars == <<dfile, dpc, mode, dmem, from, outcome, dbus, faults>>
coordinatorVars == <<coord, work, cbus, worker, now>>
busVars == <<bus, temp, bpc, bcopy, event, handle, calls, acked>>

Daemon == INSTANCE MissionDaemon
    WITH Requests <- DaemonRequests, Outcomes <- DaemonOutcomes,
         file <- dfile, pc <- dpc, mem <- dmem, bus <- dbus

Coord == INSTANCE DispatchCoordinator WITH bus <- cbus

Bus == INSTANCE EventBus WITH pc <- bpc, copy <- bcopy

\* An iteration is over only when all of it has happened
\* (run_mission_daemon_iteration).
CompletedFully == Daemon!CompletedFully

\* The missions are scheduled once in an iteration, also across a resumption
\* (resume_phase).
SchedulerOnce == Daemon!SchedulerOnce

\* An iteration that a process works on is completed, unless something else
\* interrupts it (run_mission_daemon_iteration).
IterationEnds == Daemon!IterationEnds

\* Leases and workers' records agree (acquire_lease, _recover_expired_leases).
OneLease == Coord!OneLease

\* What the coordinator's file says has been announced: the event is published
\* before the file is saved.
Announced == Coord!Announced

\* A lease is only given to a live worker that has none
\* (select_available_worker).
GivenToLive == Coord!GivenToLive

\* A readable bus holds each idempotency key once, numbered without a gap
\* (publish, _validate).
KeyOnce == Bus!KeyOnce

\* An event that publish reported to its caller is in the bus from then on
\* (save_event_bus_state comes before the return).
Durable == Bus!Durable
=============================================================================
