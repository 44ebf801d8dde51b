---------------------------- MODULE MissionDaemon ----------------------------
(***************************************************************************)
(* The mission daemon (core/runtime/runtime_mission_daemon.py and          *)
(* runtime_mission_daemon_recovery.py).  One iteration runs the mission    *)
(* scheduler, then the replanning engine, then publishes one event; a      *)
(* checkpoint in the daemon's file before and after each of them lets an   *)
(* iteration that a crash has cut go on where it stopped.  run_mission_    *)
(* daemon decides whether to recover before it iterates; the mission       *)
(* session also runs single iterations without that decision.  One process *)
(* at a time works on the file.  Commands set the request flags of the     *)
(* file; a command's load and save are one step here.  The recovery policy *)
(* is the default one.  Left out: the events about recovery itself, the    *)
(* counters that health reports, and failures marked critical.             *)
(***************************************************************************)
EXTENDS Naturals, FiniteSets

CONSTANTS
    Requests,       \* actions the operators ask for
    Outcomes,       \* what a scheduler iteration may answer, as a daemon status
    MaxAttempts,    \* daemon_recovery_max_attempts
    MaxLoops,       \* bound: number of iterations
    MaxFaults,      \* bound: crashes and exceptions together
    None            \* no copy in memory

VARIABLES
    file,       \* the daemon's file
    pc,         \* where the daemon process is
    mode,       \* "run", its "last" iteration, or a single one, "once"
    mem,        \* the state the process works on
    from,       \* resume_phase of the iteration
    outcome,    \* daemon_status the iteration has worked out
    bus,        \* events published: status and iteration
    faults      \* crashes and exceptions so far

vars == <<file, pc, mode, mem, from, outcome, bus, faults>>

Phases == {"idle", "scheduler_pending", "scheduler_completed", "replanning_pending",
           "replanning_completed", "event_publish_pending", "event_published",
           "iteration_completed"}

Statuses == {"created", "starting", "running", "idle", "paused", "stopping",
             "stopped", "blocked", "failed"}

\* What the daemon's file holds; scheduled and replanned are its
\* last_scheduler_completed_iteration and last_replanning_completed_iteration.
Files ==
    [phase : Phases, loop : 0..MaxLoops, checkpoint : 0..MaxLoops,
     sched : Statuses, status : Statuses,
     recovery : {"not_required", "recovering", "recovered", "blocked"},
     attempts : 0..MaxAttempts, pause : BOOLEAN, stop : BOOLEAN,
     scheduled : 0..MaxLoops, replanned : 0..MaxLoops]

DaemonAssumption ==
    /\ Requests \subseteq {"pause", "resume", "stop"}
    /\ Outcomes # {}
    /\ Outcomes \subseteq {"running", "idle", "paused", "blocked", "failed", "stopped"}
    /\ MaxAttempts \in Nat \ {0} /\ MaxLoops \in Nat /\ MaxFaults \in Nat
    /\ None \notin Files

Init ==
    /\ file = [phase |-> "idle", loop |-> 0, checkpoint |-> 0, sched |-> "idle",
               status |-> "created", recovery |-> "not_required", attempts |-> 0,
               pause |-> FALSE, stop |-> FALSE, scheduled |-> 0, replanned |-> 0]
    /\ pc = "down" /\ mode = "once" /\ mem = None
    /\ from = "idle" /\ outcome = "idle"
    /\ bus = {} /\ faults = 0

(***************************************************************************)
(* recovery_decision                                                       *)
(***************************************************************************)
Required(f) == f.status \in {"starting", "running", "blocked", "failed", "stopping"}

\* validate_iteration_checkpoint
CheckpointValid(f) == f.phase = "idle" \/ (f.checkpoint >= 1 /\ f.checkpoint = f.loop)

Recoverable(f) ==
    /\ f.status # "failed"
    /\ ~f.stop /\ ~f.pause
    /\ f.attempts < MaxAttempts
    /\ CheckpointValid(f)

(***************************************************************************)
(* run_mission_daemon, up to its loop                                      *)
(***************************************************************************)
Store(f) == file' = f /\ mem' = f

StartBlocked ==
    /\ pc = "down" /\ Required(file) /\ ~Recoverable(file)
    /\ file' = [file EXCEPT !.recovery = "blocked"]
    /\ UNCHANGED <<pc, mode, mem, from, outcome, bus, faults>>

StartRecovery ==
    /\ pc = "down" /\ Required(file) /\ Recoverable(file)
    /\ Store([file EXCEPT !.attempts = @ + 1, !.recovery = "recovering"])
    /\ pc' = "recovering" /\ mode' = "run"
    /\ UNCHANGED <<from, outcome, bus, faults>>

Recovered ==
    /\ pc = "recovering"
    /\ Store([mem EXCEPT !.recovery = "recovered", !.status = "running"])
    /\ pc' = "starting"
    /\ UNCHANGED <<mode, from, outcome, bus, faults>>

\* Nothing to recover; an earlier blocked recovery still keeps the daemon down.
StartClean ==
    /\ pc = "down" /\ ~Required(file) /\ file.recovery # "blocked"
    /\ mem' = file
    /\ pc' = "starting" /\ mode' = "run"
    /\ UNCHANGED <<file, from, outcome, bus, faults>>

Starting ==
    /\ pc = "starting"
    /\ Store([mem EXCEPT !.status = "starting"])
    /\ pc' = "iterate"
    /\ UNCHANGED <<mode, from, outcome, bus, faults>>

StartOnce ==
    /\ pc = "down"
    /\ pc' = "iterate" /\ mode' = "once"
    /\ UNCHANGED <<file, mem, from, outcome, bus, faults>>

(***************************************************************************)
(* run_mission_daemon_iteration                                            *)
(***************************************************************************)
Resuming(f) == f.phase \notin {"idle", "iteration_completed"}

\* The state an iteration starts with: a new one gets the next number.
Entered(f) == IF Resuming(f) THEN f ELSE [f EXCEPT !.loop = @ + 1]

\* _checkpoint: the phase, and the number of the iteration if the checkpoint
\* has none yet (setdefault).
Checkpoint(f, phase) ==
    [f EXCEPT !.phase = phase, !.checkpoint = IF @ = 0 THEN f.loop ELSE @]

\* Mutant: scheduler_reused without the phases after the first.
SchedulerReusedFirst(phase) == phase = "scheduler_completed"

SchedulerReused(phase) ==
    phase \in {"scheduler_completed", "replanning_pending", "replanning_completed",
               "event_publish_pending", "event_published"}

ReplanningReused(phase) ==
    phase \in {"replanning_completed", "event_publish_pending", "event_published"}

Quit == pc' = "down" /\ mem' = None /\ from' = "idle" /\ outcome' = "idle"

\* The iteration returns f; the loop of run_mission_daemon ends after its last
\* iteration and when the daemon has stopped or failed.
Return(f) ==
    /\ file' = f
    /\ IF mode = "run" /\ f.status \notin {"stopped", "failed"}
       THEN pc' = "between" /\ mem' = f /\ from' = "idle" /\ outcome' = "idle"
       ELSE Quit

\* Stop and pause: the status is saved before the event is published.
Halt ==
    /\ pc = "iterate" /\ (file.stop \/ file.pause)
    /\ Resuming(file) \/ file.loop < MaxLoops
    /\ Store([Entered(file) EXCEPT !.status = IF file.stop THEN "stopped" ELSE "paused"])
    /\ pc' = "halted"
    /\ UNCHANGED <<mode, from, outcome, bus, faults>>

AnnounceHalt ==
    /\ pc = "halted"
    /\ bus' = bus \cup {[status |-> mem.status, loop |-> mem.loop]}
    /\ Return(mem)
    /\ UNCHANGED <<mode, faults>>

Enter ==
    /\ pc = "iterate" /\ ~file.stop /\ ~file.pause
    /\ Resuming(file) \/ file.loop < MaxLoops
    /\ from' = file.phase
    /\ IF SchedulerReused(file.phase)
       THEN /\ mem' = file /\ file' = file
            /\ outcome' = file.sched
            /\ pc' = "replan_pending"
       ELSE /\ Store(Checkpoint(Entered(file), "scheduler_pending"))
            /\ outcome' = outcome
            /\ pc' = "schedule"
    /\ UNCHANGED <<mode, bus, faults>>

\* run_mission_scheduler_iteration has returned.
RunScheduler ==
    /\ pc = "schedule"
    /\ outcome' \in Outcomes
    /\ pc' = "scheduled"
    /\ UNCHANGED <<file, mode, mem, from, bus, faults>>

\* It has raised: the daemon is failed and the phase stays scheduler_pending.
SchedulerRaises ==
    /\ pc = "schedule" /\ faults < MaxFaults
    /\ Return([mem EXCEPT !.status = "failed"])
    /\ faults' = faults + 1
    /\ UNCHANGED <<mode, bus>>

SchedulerCompleted ==
    /\ pc = "scheduled"
    /\ Store([Checkpoint(mem, "scheduler_completed") EXCEPT
                !.scheduled = mem.loop, !.sched = outcome])
    /\ pc' = "replan_pending"
    /\ UNCHANGED <<mode, from, outcome, bus, faults>>

\* This checkpoint is written for an iteration that resumes, too.
ReplanningPending ==
    /\ pc = "replan_pending"
    /\ Store(Checkpoint(mem, "replanning_pending"))
    /\ pc' = IF ReplanningReused(from) THEN "replanned" ELSE "replan"
    /\ UNCHANGED <<mode, from, outcome, bus, faults>>

\* The engine returns, or raises and the daemon is blocked.
RunReplanning ==
    /\ pc = "replan"
    /\ \/ outcome' = outcome /\ faults' = faults
       \/ faults < MaxFaults /\ outcome' = "blocked" /\ faults' = faults + 1
    /\ pc' = "replanned"
    /\ UNCHANGED <<file, mode, mem, from, bus>>

ReplanningCompleted ==
    /\ pc = "replanned"
    /\ Store([Checkpoint(mem, "replanning_completed") EXCEPT
                !.replanned = IF ReplanningReused(from) THEN @ ELSE mem.loop])
    /\ pc' = "heartbeat"
    /\ UNCHANGED <<mode, from, outcome, bus, faults>>

\* Mutant: an iteration whose scheduler has stopped or failed ends here.
HeartbeatReturns ==
    /\ pc = "heartbeat"
    /\ IF outcome \in {"stopped", "failed"}
       THEN Return([mem EXCEPT !.status = outcome])
       ELSE /\ Store([mem EXCEPT !.status = outcome])
            /\ pc' = "event_pending" /\ UNCHANGED <<from, outcome>>
    /\ UNCHANGED <<mode, bus, faults>>

Heartbeat ==
    /\ pc = "heartbeat"
    /\ Store([mem EXCEPT !.status = outcome])
    /\ pc' = "event_pending"
    /\ UNCHANGED <<mode, from, outcome, bus, faults>>

EventPending ==
    /\ pc = "event_pending"
    /\ Store(Checkpoint(mem, "event_publish_pending"))
    /\ pc' = "publish"
    /\ UNCHANGED <<mode, from, outcome, bus, faults>>

\* Mutant: the event of an earlier iteration counts for this one.
PublishEventOnce ==
    /\ pc = "publish"
    /\ bus' = IF bus = {} THEN {[status |-> outcome, loop |-> mem.loop]} ELSE bus
    /\ pc' = "published"
    /\ UNCHANGED <<file, mode, mem, from, outcome, faults>>

\* The idempotency key is the topic, which the status gives, and the iteration.
PublishEvent ==
    /\ pc = "publish"
    /\ bus' = bus \cup {[status |-> outcome, loop |-> mem.loop]}
    /\ pc' = "published"
    /\ UNCHANGED <<file, mode, mem, from, outcome, faults>>

EventPublished ==
    /\ pc = "published"
    /\ Store(Checkpoint(mem, "event_published"))
    /\ pc' = "complete"
    /\ UNCHANGED <<mode, from, outcome, bus, faults>>

IterationCompleted ==
    /\ pc = "complete"
    /\ Return(Checkpoint(mem, "iteration_completed"))
    /\ UNCHANGED <<mode, bus, faults>>

(***************************************************************************)
(* The loop, the commands, crashes                                         *)
(***************************************************************************)
NextIteration ==
    /\ pc = "between"
    /\ pc' = "iterate"
    /\ mode' = IF mem.stop THEN "last" ELSE mode
    /\ UNCHANGED <<file, mem, from, outcome, bus, faults>>

\* max_iterations or idle_exit_after: the loop asks itself to stop, on its copy
\* of the state.
LimitReached ==
    /\ pc = "between"
    /\ Store([mem EXCEPT !.stop = TRUE, !.status = "stopping"])
    /\ pc' = "iterate" /\ mode' = "last"
    /\ UNCHANGED <<from, outcome, bus, faults>>

Request(a) ==
    /\ file' = CASE a = "pause"  -> [file EXCEPT !.pause = TRUE, !.status = "paused"]
                 [] a = "resume" -> [file EXCEPT !.pause = FALSE, !.stop = FALSE,
                                                 !.status = "idle"]
                 [] a = "stop"   -> [file EXCEPT !.stop = TRUE, !.status = "stopping"]
    /\ UNCHANGED <<pc, mode, mem, from, outcome, bus, faults>>

Crash ==
    /\ pc # "down" /\ faults < MaxFaults
    /\ faults' = faults + 1
    /\ Quit
    /\ UNCHANGED <<file, mode, bus>>

Iteration ==
    \/ Halt
    \/ AnnounceHalt
    \/ Enter
    \/ RunScheduler
    \/ SchedulerRaises
    \/ SchedulerCompleted
    \/ ReplanningPending
    \/ RunReplanning
    \/ ReplanningCompleted
    \/ Heartbeat
    \/ EventPending
    \/ PublishEvent
    \/ EventPublished
    \/ IterationCompleted

Loop ==
    \/ StartBlocked
    \/ StartRecovery
    \/ Recovered
    \/ StartClean
    \/ Starting
    \/ NextIteration
    \/ LimitReached

Next ==
    \/ Iteration
    \/ Loop
    \/ StartOnce
    \/ Crash
    \/ \E a \in Requests : Request(a)

Spec == Init /\ [][Next]_vars

\* A process that runs goes on.  Nothing makes anybody start one: the mission
\* session runs a limited number of single iterations and an operator starts the
\* daemon.
FairSpec ==
    /\ Spec
    /\ WF_vars(Iteration)
    /\ WF_vars(Recovered \/ Starting \/ NextIteration)

(***************************************************************************)
(* Properties                                                              *)
(***************************************************************************)
\* The daemon's file only holds the statuses its validation accepts, and the
\* recovery attempts stay within their limit.
TypeOK ==
    /\ file \in Files /\ mem \in Files \cup {None}
    /\ pc \in {"down", "recovering", "starting", "iterate", "halted", "schedule",
               "scheduled", "replan_pending", "replan", "replanned", "heartbeat",
               "event_pending", "publish", "published", "complete", "between"}
    /\ mode \in {"run", "last", "once"}
    /\ from \in Phases /\ outcome \in Statuses
    /\ bus \subseteq [status : Statuses, loop : 0..MaxLoops]
    /\ faults \in 0..MaxFaults

\* The missions are not scheduled twice in one iteration: once the file says
\* that the scheduler has completed for it, no crash, recovery, pause or stop
\* makes the iteration run the scheduler again.
SchedulerOnce == [][pc = "schedule" /\ pc' = "scheduled" => file.scheduled < mem.loop]_vars

\* An iteration is over only when all of it has happened: whatever crashes,
\* resumptions and requests came in between, if the phase says that the event
\* was published, the last iteration that replanned is the last one that
\* scheduled, and its event is on the bus.
CompletedFully ==
    file.phase \in {"event_published", "iteration_completed"} =>
        /\ file.scheduled = file.replanned
        /\ \E e \in bus : e.loop = file.replanned

\* A process that is up while an iteration is unfinished, its own or one that a
\* crash or an exception had cut in any phase, completes it, unless another crash
\* or exception comes, or somebody stops or pauses the daemon.
IterationEnds ==
    \A n \in 0..MaxFaults :
        (pc # "down" /\ Resuming(file) /\ faults = n) ~>
            (file.phase = "iteration_completed" \/ faults > n \/ file.stop \/ file.pause)

\* The checkpoint of every iteration is one that recovery accepts.
CheckpointUsable == CheckpointValid(file)
=============================================================================
