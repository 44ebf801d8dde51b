----------------------------- MODULE MCSessions -----------------------------
(***************************************************************************)
(* The operator session and the session leases share no state, so TLC      *)
(* explores one at a time: part is the one that moves, the other stays as  *)
(* it begins.                                                              *)
(*                                                                         *)
(* The operator session: one input for each action, and another one for    *)
(* the invocation, with another invocation_request_id.  The leases: two    *)
(* owners, and leases that run out at once or later.                       *)
(***************************************************************************)
EXTENDS Sessions, TLC

VARIABLE part

sessionVars == <<part, vars, leaseVars>>

InputTypes == "i1" :> 1 @@ "i2" :> 2 @@ "i3" :> 3 @@ "i4" :> 4 @@ "i5" :> 5
              @@ "i6" :> 6 @@ "other6" :> 6

InputIds == DOMAIN InputTypes

InputTransactions == [i \in InputIds |-> IF i = "other6" THEN "other" ELSE "first"]

ASSUME SessionAssumption /\ Lease!LeaseAssumption

SessionsInit == part \in {"operator", "lease"} /\ Init /\ Lease!Init

OperatorStep == part = "operator" /\ Next /\ UNCHANGED <<part, leaseVars>>

LeaseStep == part = "lease" /\ Lease!Next /\ UNCHANGED <<part, vars>>

SessionsNext == OperatorStep \/ LeaseStep

SessionsSpec == SessionsInit /\ [][SessionsNext]_sessionVars

\* Clients and invocations are interchangeable.
SessionSymmetry == Permutations(Clients) \cup Permutations(Calls)
=============================================================================
