----------------------------- MODULE SlotTable ------------------------------
(***************************************************************************)
(* What the worker pool promises its callers: a table of slots in which a  *)
(* task is taken on only by an empty slot and only when no slot has it.    *)
(* The pool's two indexes and its busy flags are how it keeps the promise  *)
(* without searching the table.                                            *)
(***************************************************************************)
EXTENDS SchedulerIds

CONSTANT Slots
VARIABLE occupant      \* slot -> the task that runs in it, or NoId

Init == occupant = [w \in Slots |-> NoId]

Take(w, t) ==
    /\ occupant[w] = NoId
    /\ \A v \in Slots : occupant[v] # t
    /\ occupant' = [occupant EXCEPT ![w] = t]

Free(w) ==
    /\ occupant[w] # NoId
    /\ occupant' = [occupant EXCEPT ![w] = NoId]

Next == \E w \in Slots : Free(w) \/ \E t \in TaskIds : Take(w, t)

Spec == Init /\ [][Next]_occupant
=============================================================================
