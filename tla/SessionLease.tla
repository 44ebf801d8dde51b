---------------------------- MODULE SessionLease -----------------------------
(***************************************************************************)
(* RuntimeSessionLeaseRegistry (core/runtime/runtime_session_lease.py).    *)
(*                                                                         *)
(* The registry grants leases of a session to owners, against a clock its  *)
(* callers pass in.  Every method is one step and ends with a save of the  *)
(* whole registry; takeover_session saves once more in between, where a    *)
(* crash loses the rest of it.  Sessions do not share state, so the module *)
(* follows one.                                                            *)
(*                                                                         *)
(* A lease id is a fingerprint of session, owner and generation, and the   *)
(* generation starts at 1 again whenever no lease is active: an owner gets *)
(* the same id for different leases.                                       *)
(***************************************************************************)
EXTENDS Naturals

CONSTANTS
    Owners,
    Ttls,           \* the ttl_ticks of calls
    ZombieAfter,    \* zombie_after_ticks
    NoLease,        \* no such lease; no lease id in the session
    NoSession,      \* the session is not registered
    MaxTick,        \* bound on the clock
    MaxGeneration   \* bound on the generations

SessionStatuses == {"registered", "active", "expired", "zombie", "transferred", "released"}
LeaseStatuses == {"active", "expired", "released", "transferred"}

Ticks == 0 .. MaxTick
LeaseIds == Owners \X (1 .. MaxGeneration)
Expiries == {t + ttl : t \in Ticks, ttl \in Ttls}

Sessions == [status : SessionStatuses, lease : LeaseIds \cup {NoLease},
             heartbeat : Ticks, created : Ticks]
Leases == [status : LeaseStatuses, expires : Expiries]

LeaseAssumption ==
    /\ Ttls \subseteq Nat \ {0}
    /\ ZombieAfter \in Nat \ {0}
    /\ MaxTick \in Nat \ {0}
    /\ MaxGeneration \in Nat \ {0}
    /\ NoLease \notin LeaseIds \cup Leases
    /\ NoSession \notin Sessions

VARIABLES
    session,    \* _sessions: status, lease_id, last_heartbeat_tick, created_tick
    leases,     \* _leases: lease id -> status and expires_tick
    now,        \* the callers' current_tick
    told,       \* observability: the expires_tick each owner was last told
    ousted      \* observability: owners whose lease was transferred

vars == <<session, leases, now, told, ousted>>

\* Sessions and leases have the registry's statuses; lease ids, heartbeats and
\* expiries stay in their ranges.
TypeOK ==
    /\ session \in Sessions \cup {NoSession}
    /\ leases \in [LeaseIds -> Leases \cup {NoLease}]
    /\ now \in Ticks
    /\ told \in [Owners -> Expiries \cup {0}]
    /\ ousted \in SUBSET Owners

Init ==
    /\ session = NoSession
    /\ leases = [l \in LeaseIds |-> NoLease]
    /\ now = 1
    /\ told = [o \in Owners |-> 0]
    /\ ousted = {}

-----------------------------------------------------------------------------
Registered == session # NoSession

NewSession == [status |-> "registered", lease |-> NoLease, heartbeat |-> now, created |-> now]

\* The session, registered when it was not.
SessionOrNew == IF Registered THEN session ELSE NewSession

IsActive(l) == l # NoLease /\ leases[l] # NoLease /\ leases[l].status = "active"

Expired(l) == now > leases[l].expires

\* The session names a lease that is active and has not run out.
CurrentActive == Registered /\ IsActive(session.lease) /\ ~Expired(session.lease)

-----------------------------------------------------------------------------
(* register_session.  For a known session only fields that nothing here    *)
(* reads are updated.                                                      *)
RegisterSession ==
    /\ session' = SessionOrNew
    /\ UNCHANGED <<leases, now, told, ousted>>

\* Mutant: the lease that is replaced stays active.
RetiredKept(o) == leases

\* What becomes of the lease the session had: expired when it has run out,
\* transferred when it goes to another owner.
Retired(o) ==
    IF ~Registered \/ ~IsActive(session.lease) THEN leases
    ELSE IF Expired(session.lease)
         THEN [leases EXCEPT ![session.lease].status = "expired"]
    ELSE IF session.lease[1] # o
         THEN [leases EXCEPT ![session.lease].status = "transferred"]
    ELSE leases

Generation(o) ==
    IF ~CurrentActive THEN 1
    ELSE session.lease[2] + (IF session.lease[1] = o THEN 0 ELSE 1)

\* The new lease in place of the old one.  acquire_lease does not touch the
\* heartbeat.
Grant(o, ttl, status) ==
    LET id == <<o, Generation(o)>>
    IN  /\ id \in LeaseIds
        /\ leases' = [Retired(o) EXCEPT ![id] = [status |-> "active", expires |-> now + ttl]]
        /\ session' = [SessionOrNew EXCEPT !.status = status, !.lease = id]
        /\ UNCHANGED now

\* Mutant: an owner that misses its heartbeats has lost the lease.
CanAcquireZombie(o) == CurrentActive /\ session.status # "zombie" => session.lease[1] = o

\* acquire_lease: another owner's active lease is respected.
CanAcquire(o) == CurrentActive => session.lease[1] = o

AcquireLease(o, ttl) ==
    /\ CanAcquire(o)
    /\ Grant(o, ttl, "active")
    /\ told' = [told EXCEPT ![o] = now + ttl]
    /\ ousted' = ousted \ {o}

Oust(o) == ousted' = (IF CurrentActive THEN ousted \cup {session.lease[1]} ELSE ousted) \ {o}

\* takeover_session: acquire_lease with force.
TakeoverSession(o, ttl) ==
    /\ Grant(o, ttl, "transferred")
    /\ Oust(o)
    /\ told' = [told EXCEPT ![o] = now + ttl]

\* The owner's process ends after acquire_lease has saved.
TakeoverCrash(o, ttl) ==
    /\ Grant(o, ttl, "active")
    /\ Oust(o)
    /\ told' = [told EXCEPT ![o] = 0]

-----------------------------------------------------------------------------
(* renew_lease, heartbeat, release_lease: the caller names the lease id,   *)
(* which may be that of an old lease.                                      *)

RenewLease(l, ttl, beat) ==
    /\ IsActive(l) /\ ~Expired(l)
    /\ leases' = [leases EXCEPT ![l].expires = now + ttl]
    /\ session' = [session EXCEPT !.status = "active", !.lease = l,
                                  !.heartbeat = IF beat THEN now ELSE @]
    /\ told' = [told EXCEPT ![l[1]] = now + ttl]
    /\ UNCHANGED <<now, ousted>>

\* The renewal comes too late: lease and session expire, and it is refused.
RenewTooLate(l) ==
    /\ IsActive(l) /\ Expired(l)
    /\ leases' = [leases EXCEPT ![l].status = "expired"]
    /\ session' = [session EXCEPT !.status = "expired"]
    /\ UNCHANGED <<now, told, ousted>>

\* heartbeat: the session's own lease is renewed, if it is the caller's.
Heartbeat(ttl) ==
    /\ Registered
    /\ IsActive(session.lease)
    /\ RenewLease(session.lease, ttl, TRUE) \/ RenewTooLate(session.lease)

\* release_lease: any lease of the caller, in any status; the session becomes
\* released even when it has another lease by now.
ReleaseLease(l) ==
    /\ leases[l] # NoLease
    /\ leases' = [leases EXCEPT ![l].status = "released"]
    /\ session' = [session EXCEPT !.status = "released"]
    /\ told' = IF session.lease # l /\ session.lease[1] = l[1] THEN told
               ELSE [told EXCEPT ![l[1]] = 0]
    /\ UNCHANGED <<now, ousted>>

-----------------------------------------------------------------------------
(* tick: detect_expired, then detect_zombies.                              *)

Watched(s) == s # NoSession /\ s.status \notin {"released", "zombie"}

RunsOut == Watched(session) /\ IsActive(session.lease) /\ Expired(session.lease)

\* A heartbeat of tick 0 counts as none.
LastSign(s) == IF s.heartbeat <= 0 THEN s.created ELSE s.heartbeat

Stale(s) == now >= LastSign(s) + ZombieAfter

Tick ==
    LET afterExpired == IF RunsOut THEN [session EXCEPT !.status = "expired"] ELSE session
    IN  /\ leases' = IF RunsOut THEN [leases EXCEPT ![session.lease].status = "expired"]
                                ELSE leases
        /\ session' = IF Watched(afterExpired) /\ Stale(afterExpired)
                      THEN [afterExpired EXCEPT !.status = "zombie"] ELSE afterExpired
        /\ UNCHANGED <<now, told, ousted>>

TimePasses ==
    /\ now < MaxTick
    /\ now' = now + 1
    /\ UNCHANGED <<session, leases, told, ousted>>

-----------------------------------------------------------------------------
Next ==
    \/ RegisterSession
    \/ \E o \in Owners, ttl \in Ttls :
          AcquireLease(o, ttl) \/ TakeoverSession(o, ttl) \/ TakeoverCrash(o, ttl)
    \/ \E l \in LeaseIds, ttl \in Ttls, beat \in BOOLEAN : RenewLease(l, ttl, beat)
    \/ \E l \in LeaseIds : RenewTooLate(l) \/ ReleaseLease(l)
    \/ \E ttl \in Ttls : Heartbeat(ttl)
    \/ Tick
    \/ TimePasses

Spec == Init /\ [][Next]_vars

-----------------------------------------------------------------------------
(* Correctness.                                                            *)

\* At most the lease the session names is active, although lease ids are used
\* again and old ones can be renewed and released.
OneActiveLease ==
    \A l \in LeaseIds : IsActive(l) => Registered /\ session.lease = l

\* An owner that was told it holds the session until some tick, and was not
\* taken over since, is still the one the registry knows of: so no two owners
\* act for the session at a time.
OwnerRecorded ==
    \A o \in Owners : told[o] >= now /\ o \notin ousted =>
        /\ CurrentActive
        /\ session.lease[1] = o
        /\ leases[session.lease].expires = told[o]
=============================================================================
