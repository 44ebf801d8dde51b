------------------------------ MODULE Sessions ------------------------------
(***************************************************************************)
(* The runtime's sessions: the operator session and the lease registry     *)
(* that says which owner may work on one.  The session commands do not ask *)
(* the registry, so the two share no state.                                *)
(***************************************************************************)
EXTENDS OperatorSession

CONSTANTS Owners, Ttls, ZombieAfter, NoLease, NoSession, MaxTick, MaxGeneration

VARIABLES session, leases, now, told, ousted

leaseVars == <<session, leases, now, told, ousted>>

Lease == INSTANCE SessionLease

\* At most the lease the session names is active (acquire_lease).
OneActiveLease == Lease!OneActiveLease

\* An owner that was promised the session and not taken over still has it
\* (acquire_lease, renew_lease, takeover_session).
OwnerRecorded == Lease!OwnerRecorded
=============================================================================
