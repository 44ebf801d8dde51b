----------------------------- MODULE MCProgress -----------------------------
(***************************************************************************)
(* What happens in the end, and what survives the restarts of a single     *)
(* process: the repository with a scheduler that lists it, one mission     *)
(* scheduler that works off its missions, the mission daemon without       *)
(* requests, and a bus with one writer.  part is the one that moves, the   *)
(* others stay as they begin, and the fairness is that of their modules.   *)
(* The coordinator promises nothing of the kind and never moves.           *)
(*                                                                         *)
(* The second mission of the queue is the more urgent one.                 *)
(***************************************************************************)
EXTENDS MissionLayer, TLC

CONSTANTS Ids, Clients, NoTask, NoCopy, MaxDeps, p1, m1, m2

VARIABLES part, tasks, copy, deleted

repositoryVars == <<tasks, copy, deleted>>
progressVars == <<part, repositoryVars, vars, daemonVars, coordinatorVars, busVars>>

Repository == INSTANCE TaskRepository

NoRequests == <<>>
Urgency == m1 :> 1 @@ m2 :> 0
Queue == <<m2, m1>>
Fitting == [m \in Missions |-> Workers]

ASSUME
    /\ Repository!RepositoryAssumption
    /\ SchedulerAssumption
    /\ Daemon!DaemonAssumption
    /\ Bus!BusAssumption

ProgressInit ==
    /\ part \in {"repository", "scheduler", "daemon", "bus"}
    /\ Repository!Init /\ Init /\ Daemon!Init /\ Coord!Init /\ Bus!Init

RepositoryPart(step) ==
    /\ part = "repository" /\ step
    /\ UNCHANGED <<part, vars, daemonVars, coordinatorVars, busVars>>

SchedulerPart(step) ==
    /\ part = "scheduler" /\ step
    /\ UNCHANGED <<part, repositoryVars, daemonVars, coordinatorVars, busVars>>

DaemonPart(step) ==
    /\ part = "daemon" /\ step
    /\ UNCHANGED <<part, repositoryVars, vars, coordinatorVars, busVars>>

BusPart(step) ==
    /\ part = "bus" /\ step
    /\ UNCHANGED <<part, repositoryVars, vars, daemonVars, coordinatorVars>>

ProgressNext ==
    \/ RepositoryPart(Repository!Next)
    \/ SchedulerPart(Next)
    \/ DaemonPart(Daemon!Next)
    \/ BusPart(Bus!Next)

ProgressSpec ==
    /\ ProgressInit /\ [][ProgressNext]_progressVars
    /\ WF_progressVars(RepositoryPart(Repository!List))
    /\ WF_progressVars(SchedulerPart(Tick))
    /\ WF_progressVars(SchedulerPart(Iterate(p1)))
    /\ WF_progressVars(DaemonPart(Daemon!Iteration))
    /\ WF_progressVars(DaemonPart(Daemon!Recovered \/ Daemon!Starting \/ Daemon!NextIteration))

\* A task whose dependencies stay finished does not stay blocked
\* (_refresh_blocked_status).
Unblocked == Repository!Unblocked
=============================================================================
