-------------------------- MODULE TransactionClaim ---------------------------
(***************************************************************************)
(* What execute_transactional_active_plan promises to its callers, when    *)
(* one request is invoked several times: one invocation at most gets past  *)
(* the transaction directory, and only that one answers with an outcome.   *)
(* ActiveTransaction implements this, for one transaction_id;              *)
(* OperatorSession takes these steps for several.                          *)
(***************************************************************************)
CONSTANTS
    Calls,      \* the invocations
    Nobody,     \* the directory has not been made
    Gone        \* it has, by an invocation that stopped without an outcome

VARIABLES
    owner,      \* the invocation that made the directory
    result      \* the transaction_status each invocation answers, or "none"

vars == <<owner, result>>

Outcomes == {"committed", "rolled_back", "rollback_failed"}

Statuses == Outcomes \cup {"none", "blocked"}

Init == owner = Nobody /\ result = [x \in Calls |-> "none"]

Claim(x) ==
    /\ owner = Nobody /\ result[x] = "none"
    /\ owner' = x
    /\ UNCHANGED result

\* A refusal, also of the owner, whose snapshot is incomplete.
Block(x) ==
    /\ result[x] = "none"
    /\ result' = [result EXCEPT ![x] = "blocked"]
    /\ owner' = IF owner = x THEN Gone ELSE owner

Finish(x, status) ==
    /\ owner = x /\ result[x] = "none"
    /\ result' = [result EXCEPT ![x] = status]
    /\ UNCHANGED owner

\* The owner's process ends.
Lose(x) ==
    /\ owner = x /\ result[x] = "none"
    /\ owner' = Gone
    /\ UNCHANGED result

Next ==
    \E x \in Calls :
        Claim(x) \/ Block(x) \/ Lose(x) \/ \E status \in Outcomes : Finish(x, status)

Spec == Init /\ [][Next]_vars
=============================================================================
