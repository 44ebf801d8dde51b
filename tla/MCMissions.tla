----------------------------- MODULE MCMissions -----------------------------
(***************************************************************************)
(* The mission layer's safety.  The parts share no state, so TLC explores  *)
(* one at a time: part is the one that moves, the others stay as they      *)
(* begin.                                                                  *)
(*                                                                         *)
(* A scheduler process and two operators, one of which only enqueues its   *)
(* mission; a daemon of two iterations, cut twice, with every request; two *)
(* workers that fit the mission; two writers of one bus.                   *)
(***************************************************************************)
EXTENDS MissionLayer, TLC

CONSTANTS o1, o2, m1

VARIABLE part

missionsVars == <<part, vars, daemonVars, coordinatorVars, busVars>>

Asked == o1 :> {"pause", "resume", "stop"} @@ o2 :> {}
Urgency == m1 :> 0
Fitting == m1 :> Workers
Unqueued == <<>>

ASSUME
    /\ SchedulerAssumption
    /\ Daemon!DaemonAssumption
    /\ Coord!CoordinatorAssumption
    /\ Bus!BusAssumption

MissionsInit ==
    /\ part \in {"scheduler", "daemon", "coordinator", "bus"}
    /\ Init /\ Daemon!Init /\ Coord!Init /\ Bus!Init

SchedulerStep ==
    /\ part = "scheduler" /\ Next
    /\ UNCHANGED <<part, daemonVars, coordinatorVars, busVars>>

DaemonStep ==
    /\ part = "daemon" /\ Daemon!Next
    /\ UNCHANGED <<part, vars, coordinatorVars, busVars>>

CoordinatorStep ==
    /\ part = "coordinator" /\ Coord!Next
    /\ UNCHANGED <<part, vars, daemonVars, busVars>>

BusStep ==
    /\ part = "bus" /\ Bus!Next
    /\ UNCHANGED <<part, vars, daemonVars, coordinatorVars>>

\* No publication is left.
BusRests == part = "bus" /\ calls = MaxCalls /\ UNCHANGED missionsVars

MissionsNext == SchedulerStep \/ DaemonStep \/ CoordinatorStep \/ BusStep \/ BusRests

MissionsSpec == MissionsInit /\ [][MissionsNext]_missionsVars
=============================================================================
