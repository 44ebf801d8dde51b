--------------------------- MODULE MCSchedulerApi ---------------------------
(***************************************************************************)
(* Everything a caller may do with the queue and with the pool, the        *)
(* methods that no dispatcher uses included (upsert, cancel, assign).      *)
(* Without a dispatcher the two share no state, so TLC explores one at a   *)
(* time: part is the one that moves, the other stays as it begins.         *)
(***************************************************************************)
EXTENDS MCTaskQueue, WorkerPool

VARIABLE part

Init == QueueInit /\ PoolInit /\ part \in {"queue", "pool"}

QueueStep == part = "queue" /\ ApiNext /\ UNCHANGED <<part, poolVars>>

PoolStep == part = "pool" /\ PoolNext /\ UNCHANGED <<part, queueVars>>

Next == QueueStep \/ PoolStep

Spec == Init /\ [][Next]_<<part, queueVars, poolVars>>
=============================================================================
