----------------------------- MODULE AtomicStore -----------------------------
(***************************************************************************)
(* What the store lock promises to its users: tasks.json changes as if     *)
(* every transaction were a single step on the file it finds.              *)
(***************************************************************************)
CONSTANTS
    Empty,              \* no task
    Ops,                \* the changes a transaction makes
    Apply(_, _)         \* Apply(op, tasks): the tasks after the change op

VARIABLES
    file,               \* the contents of the file
    unreadable          \* a read of the file has failed at some time

vars == <<file, unreadable>>

Init == file = Empty /\ unreadable = FALSE

Transaction(op) == file' = Apply(op, file) /\ UNCHANGED unreadable

\* A file that could not be read counts as an empty one.
Fault == unreadable' = TRUE /\ UNCHANGED file

\* ... and the transaction that failed to read it saves it as such.
Wipe(op) == unreadable /\ file' = Apply(op, Empty) /\ UNCHANGED unreadable

Next == Fault \/ \E op \in Ops : Transaction(op) \/ Wipe(op)

Spec == Init /\ [][Next]_vars
=============================================================================
