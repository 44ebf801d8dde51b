---------------------------- MODULE SchedulerIds ----------------------------
(* The task ids the ready queue, the worker pool and the dispatcher share. *)
EXTENDS Integers, FiniteSets

CONSTANTS
    TaskIds,      \* task ids
    NoId          \* Python's None where a task id is expected

ASSUME NoIdAssumption == NoId \notin TaskIds
=============================================================================
