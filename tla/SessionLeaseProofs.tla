-------------------------- MODULE SessionLeaseProofs --------------------------
(***************************************************************************)
(* Proofs about the lease registry, for any owners, ttls and bounds.       *)
(*                                                                         *)
(* OneActiveLease and OwnerRecorded need each other: a lease is only       *)
(* renewed while it is active, so it is the session's (OneActiveLease),    *)
(* and the owner that is told of it is the one recorded.  What makes the   *)
(* pair inductive is that leases exist only in a registered session, and   *)
(* that an owner whose call failed was told tick 0, which has passed.      *)
(***************************************************************************)
EXTENDS Sessions, TLAPS

\* A lease that exists belongs to a registered session.
LeasesOfSession == \A l \in Lease!LeaseIds : leases[l] # NoLease => Lease!Registered

LeaseInv ==
    /\ Lease!TypeOK
    /\ now >= 1
    /\ LeasesOfSession
    /\ Lease!OneActiveLease
    /\ Lease!OwnerRecorded

-----------------------------------------------------------------------------
LEMMA ExpiriesNat == Lease!LeaseAssumption => Lease!Expiries \subseteq Nat
  BY DEF Lease!LeaseAssumption, Lease!Expiries, Lease!Ticks

LEMMA ExpiryOfNow ==
  ASSUME Lease!LeaseAssumption, Lease!TypeOK, NEW ttl \in Ttls
  PROVE  now + ttl \in Lease!Expiries /\ now + ttl \in Nat /\ now + ttl > now
  BY DEF Lease!LeaseAssumption, Lease!TypeOK, Lease!Expiries, Lease!Ticks

LEMMA LeaseInitInv == Lease!LeaseAssumption /\ Lease!Init => LeaseInv
  BY DEF Lease!LeaseAssumption, Lease!Init, LeaseInv, Lease!TypeOK, Lease!Ticks,
     LeasesOfSession, Lease!OneActiveLease, Lease!OwnerRecorded, Lease!IsActive,
     Lease!Registered

LEMMA SessionOrNewTyped ==
  ASSUME Lease!LeaseAssumption, Lease!TypeOK
  PROVE  Lease!SessionOrNew \in Lease!Sessions
  BY DEF Lease!LeaseAssumption, Lease!TypeOK, Lease!SessionOrNew, Lease!NewSession,
     Lease!Sessions, Lease!Registered, Lease!SessionStatuses

\* The leases after the old one has been retired for owner o: the others are as
\* they were, and an active one is the lease o gets again.
LEMMA RetiredTyped ==
  ASSUME Lease!LeaseAssumption, LeaseInv, NEW o \in Owners
  PROVE  /\ Lease!Retired(o) \in [Lease!LeaseIds -> Lease!Leases \cup {NoLease}]
         /\ \A l \in Lease!LeaseIds : (Lease!Retired(o)[l] = NoLease) = (leases[l] = NoLease)
  <1>1. CASE ~Lease!Registered \/ ~Lease!IsActive(session.lease)
    BY <1>1 DEF Lease!Retired, LeaseInv, Lease!TypeOK
  <1>2. CASE Lease!Registered /\ Lease!IsActive(session.lease)
    <2>1. session.lease \in Lease!LeaseIds /\ leases[session.lease] \in Lease!Leases
      BY <1>2 DEF LeaseInv, Lease!TypeOK, Lease!Registered, Lease!IsActive, Lease!Sessions
    <2>2. \A s \in {"expired", "transferred"} :
             [leases[session.lease] EXCEPT !.status = s] \in Lease!Leases
      BY <2>1 DEF Lease!Leases, Lease!LeaseStatuses
    <2> QED
      BY <2>1, <2>2 DEF Lease!Retired, LeaseInv, Lease!TypeOK, Lease!LeaseAssumption
  <1> QED
    BY <1>1, <1>2

LEMMA RetiredActive ==
  ASSUME Lease!LeaseAssumption, LeaseInv, NEW o \in Owners,
         NEW l \in Lease!LeaseIds,
         Lease!Retired(o)[l] # NoLease, Lease!Retired(o)[l].status = "active"
  PROVE  l = <<o, Lease!Generation(o)>>
  <1>1. /\ Lease!Registered /\ Lease!IsActive(session.lease)
        /\ l = session.lease /\ session.lease \in Lease!LeaseIds
    <2>1. CASE Lease!IsActive(l)
      BY <2>1 DEF LeaseInv, Lease!OneActiveLease
    <2>2. CASE ~Lease!IsActive(l)
      <3>1. Lease!Retired(o)[l] # leases[l]
        BY <2>2, RetiredTyped DEF Lease!IsActive, Lease!LeaseAssumption
      <3>2. Lease!Registered /\ Lease!IsActive(session.lease)
        BY <3>1 DEF Lease!Retired
      <3>3. session.lease \in Lease!LeaseIds /\ leases[session.lease] \in Lease!Leases
        BY <3>2 DEF LeaseInv, Lease!TypeOK, Lease!Registered, Lease!IsActive, Lease!Sessions
      <3> QED
        BY <2>2, <3>1, <3>2, <3>3 DEF Lease!Retired, LeaseInv, Lease!TypeOK, Lease!Leases
    <2> QED
      BY <2>1, <2>2
  <1>2. leases[session.lease] \in Lease!Leases
    BY <1>1 DEF LeaseInv, Lease!TypeOK, Lease!IsActive
  <1>3. ~Lease!Expired(session.lease) /\ session.lease[1] = o
    BY <1>1, <1>2 DEF Lease!Retired, LeaseInv, Lease!TypeOK, Lease!Leases
  <1> QED
    BY <1>1, <1>3 DEF Lease!Generation, Lease!CurrentActive, Lease!LeaseIds, LeaseInv,
       Lease!TypeOK

\* What a grant leaves: the session names the new lease, which is o's, is
\* active and has not run out, and no other lease is active.
LEMMA GrantEffect ==
  ASSUME Lease!LeaseAssumption, LeaseInv, NEW o \in Owners, NEW ttl \in Ttls,
         NEW status \in Lease!SessionStatuses, Lease!Grant(o, ttl, status)
  PROVE  /\ session' \in Lease!Sessions /\ session'.lease[1] = o
         /\ leases' \in [Lease!LeaseIds -> Lease!Leases \cup {NoLease}]
         /\ leases'[session'.lease].expires = now + ttl
         /\ Lease!CurrentActive'
         /\ Lease!OneActiveLease' /\ LeasesOfSession'
         /\ now' = now
  <1> DEFINE id == <<o, Lease!Generation(o)>>
             new == [status |-> "active", expires |-> now + ttl]
  <1>1. id \in Lease!LeaseIds /\ new \in Lease!Leases /\ new # NoLease
    BY ExpiryOfNow DEF Lease!Grant, LeaseInv, Lease!Leases, Lease!LeaseStatuses,
       Lease!LeaseAssumption
  <1>2. leases' = [Lease!Retired(o) EXCEPT ![id] = new] /\ now' = now
    BY DEF Lease!Grant
  <1>3. session' \in Lease!Sessions /\ session'.lease = id /\ session' # NoSession
    BY <1>1, SessionOrNewTyped DEF Lease!Grant, Lease!Sessions, LeaseInv, Lease!LeaseAssumption
  <1>4. leases' \in [Lease!LeaseIds -> Lease!Leases \cup {NoLease}] /\ leases'[id] = new
    BY <1>1, <1>2, RetiredTyped
  <1>5. Lease!CurrentActive' /\ leases'[session'.lease].expires = now + ttl
    <2>1. Lease!Registered' /\ Lease!IsActive(session.lease)'
      BY <1>1, <1>3, <1>4 DEF Lease!Registered, Lease!IsActive, Lease!LeaseAssumption
    <2>2. ~Lease!Expired(session.lease)'
      BY <1>2, <1>3, <1>4, ExpiryOfNow
         DEF Lease!Expired, LeaseInv, Lease!TypeOK, Lease!LeaseAssumption, Lease!Ticks
    <2> QED
      BY <1>3, <1>4, <2>1, <2>2 DEF Lease!CurrentActive
  <1>6. \A l \in Lease!LeaseIds : l # id => leases'[l] = Lease!Retired(o)[l]
    BY <1>1, <1>2, RetiredTyped
  <1>7. Lease!OneActiveLease'
    <2> SUFFICES ASSUME NEW l \in Lease!LeaseIds, Lease!IsActive(l)', l # id
                 PROVE  FALSE
      BY <1>3 DEF Lease!OneActiveLease, Lease!Registered
    <2> QED
      BY <1>6, RetiredActive DEF Lease!IsActive
  <1>8. LeasesOfSession'
    BY <1>3 DEF LeasesOfSession, Lease!Registered
  <1> QED
    BY <1>2, <1>3, <1>4, <1>5, <1>7, <1>8

LEMMA AcquireKeepsInv ==
  ASSUME Lease!LeaseAssumption, LeaseInv, NEW o \in Owners, NEW ttl \in Ttls,
         Lease!AcquireLease(o, ttl)
  PROVE  LeaseInv'
  <1>1. Lease!Grant(o, ttl, "active") /\ "active" \in Lease!SessionStatuses
    BY DEF Lease!AcquireLease, Lease!SessionStatuses
  <1>2. Lease!TypeOK' /\ now' >= 1
    BY <1>1, GrantEffect, ExpiryOfNow DEF Lease!AcquireLease, LeaseInv, Lease!TypeOK
  <1>3. Lease!OwnerRecorded'
    <2> SUFFICES ASSUME NEW p \in Owners, told'[p] >= now, p \notin ousted'
                 PROVE  p = o /\ told'[o] = now + ttl
      BY <1>1, GrantEffect DEF Lease!OwnerRecorded
    <2>1. told'[o] = now + ttl
      BY DEF Lease!AcquireLease, LeaseInv, Lease!TypeOK
    <2>2. CASE p # o
      <3>1. told[p] >= now /\ p \notin ousted
        BY <2>2 DEF Lease!AcquireLease, LeaseInv, Lease!TypeOK
      <3>2. Lease!CurrentActive /\ session.lease[1] = p
        BY <3>1 DEF LeaseInv, Lease!OwnerRecorded
      <3> QED
        BY <2>2, <3>2 DEF Lease!AcquireLease, Lease!CanAcquire
    <2> QED
      BY <2>1, <2>2
  <1> QED
    BY <1>1, <1>2, <1>3, GrantEffect DEF LeaseInv

\* Whoever lost the lease by the takeover is ousted.
LEMMA OustEffect ==
  ASSUME Lease!LeaseAssumption, LeaseInv, NEW o \in Owners, Lease!Oust(o),
         NEW p \in Owners, p # o, p \notin ousted'
  PROVE  ~(told[p] >= now)
  BY DEF LeaseInv, Lease!OwnerRecorded, Lease!Oust

LEMMA OustTyped ==
  ASSUME Lease!LeaseAssumption, Lease!TypeOK, NEW o \in Owners, Lease!Oust(o)
  PROVE  ousted' \in SUBSET Owners
  <1>1. Lease!CurrentActive => session.lease[1] \in Owners
    BY DEF Lease!TypeOK, Lease!CurrentActive, Lease!Registered, Lease!IsActive, Lease!Sessions,
       Lease!LeaseIds
  <1> QED
    BY <1>1 DEF Lease!TypeOK, Lease!Oust

LEMMA TakeoverKeepsInv ==
  ASSUME Lease!LeaseAssumption, LeaseInv, NEW o \in Owners, NEW ttl \in Ttls,
         Lease!TakeoverSession(o, ttl) \/ Lease!TakeoverCrash(o, ttl)
  PROVE  LeaseInv'
  <1>1. PICK status \in Lease!SessionStatuses, till \in {now + ttl, 0} :
           Lease!Grant(o, ttl, status) /\ Lease!Oust(o) /\ told' = [told EXCEPT ![o] = till]
    BY DEF Lease!TakeoverSession, Lease!TakeoverCrash, Lease!SessionStatuses
  <1>2. Lease!TypeOK' /\ now' >= 1
    BY <1>1, GrantEffect, ExpiryOfNow, OustTyped DEF LeaseInv, Lease!TypeOK
  <1>3. Lease!OwnerRecorded'
    <2> SUFFICES ASSUME NEW p \in Owners, told'[p] >= now, p \notin ousted'
                 PROVE  p = o /\ told'[o] = now + ttl
      BY <1>1, GrantEffect DEF Lease!OwnerRecorded
    <2>1. p = o
      BY <1>1, OustEffect DEF LeaseInv, Lease!TypeOK
    <2>2. told'[o] = till /\ now \in Nat /\ now >= 1
      BY <1>1 DEF LeaseInv, Lease!TypeOK, Lease!Ticks, Lease!LeaseAssumption
    <2> QED
      BY <2>1, <2>2
  <1> QED
    BY <1>1, <1>2, <1>3, GrantEffect DEF LeaseInv

\* An active lease is the session's, whatever id the caller named.
LEMMA ActiveIsSessions ==
  ASSUME Lease!LeaseAssumption, LeaseInv, NEW l \in Lease!LeaseIds, Lease!IsActive(l)
  PROVE  /\ Lease!Registered /\ session \in Lease!Sessions /\ session.lease = l
         /\ leases[l] \in Lease!Leases /\ leases[l].status = "active" /\ l[1] \in Owners
  BY DEF LeaseInv, Lease!TypeOK, Lease!OneActiveLease, Lease!IsActive, Lease!Registered,
     Lease!LeaseIds

LEMMA RenewKeepsInv ==
  ASSUME Lease!LeaseAssumption, LeaseInv, NEW l \in Lease!LeaseIds, NEW ttl \in Ttls,
         NEW beat \in BOOLEAN, Lease!RenewLease(l, ttl, beat)
  PROVE  LeaseInv'
  <1> DEFINE renewed == [leases[l] EXCEPT !.expires = now + ttl]
  <1>1. /\ Lease!IsActive(l) /\ session.lease = l
        /\ session \in Lease!Sessions /\ session # NoSession
    BY ActiveIsSessions DEF Lease!RenewLease, Lease!LeaseAssumption
  <1>2. /\ renewed \in Lease!Leases /\ renewed # NoLease
        /\ renewed.status = "active" /\ renewed.expires = now + ttl
    BY <1>1, ActiveIsSessions, ExpiryOfNow DEF LeaseInv, Lease!Leases, Lease!LeaseAssumption
  <1>3. leases' = [leases EXCEPT ![l] = renewed] /\ UNCHANGED <<now, ousted>>
    BY DEF Lease!RenewLease
  <1>4. session' \in Lease!Sessions /\ session'.lease = l /\ session' # NoSession
    BY <1>1 DEF Lease!RenewLease, Lease!Sessions, Lease!SessionStatuses, Lease!LeaseAssumption,
       LeaseInv, Lease!TypeOK
  <1>5. Lease!TypeOK' /\ now' >= 1
    BY <1>2, <1>3, <1>4, ExpiryOfNow DEF LeaseInv, Lease!TypeOK, Lease!RenewLease,
       Lease!LeaseIds
  <1>6. Lease!OneActiveLease' /\ LeasesOfSession'
    BY <1>1, <1>3, <1>4
       DEF Lease!OneActiveLease, LeasesOfSession, Lease!IsActive, Lease!Registered, LeaseInv,
          Lease!TypeOK
  <1>7. Lease!OwnerRecorded'
    <2>1. Lease!CurrentActive' /\ leases'[session'.lease].expires = now + ttl
      BY <1>1, <1>2, <1>3, <1>4, ExpiryOfNow
         DEF Lease!CurrentActive, Lease!IsActive, Lease!Registered, Lease!Expired, LeaseInv,
            Lease!TypeOK, Lease!Ticks, Lease!LeaseAssumption
    <2>2. told' = [told EXCEPT ![l[1]] = now + ttl]
      BY DEF Lease!RenewLease
    <2> QED
      BY <1>1, <1>3, <1>4, <2>1, <2>2 DEF Lease!OwnerRecorded, LeaseInv, Lease!TypeOK,
         Lease!LeaseIds
  <1> QED
    BY <1>5, <1>6, <1>7 DEF LeaseInv

\* A lease becomes inactive and the session's status changes: the other leases
\* and the lease the session names are as they were.
LEMMA StatusChange ==
  ASSUME Lease!LeaseAssumption, LeaseInv, Lease!Registered,
         NEW l \in Lease!LeaseIds, leases[l] # NoLease,
         NEW ended \in Lease!LeaseStatuses \ {"active"}, NEW status \in Lease!SessionStatuses,
         leases' = [leases EXCEPT ![l].status = ended],
         session' = [session EXCEPT !.status = status],
         UNCHANGED now
  PROVE  /\ session' \in Lease!Sessions /\ session'.lease = session.lease
         /\ leases' \in [Lease!LeaseIds -> Lease!Leases \cup {NoLease}]
         /\ Lease!OneActiveLease' /\ LeasesOfSession'
         /\ Lease!CurrentActive /\ session.lease # l =>
               Lease!CurrentActive' /\ leases'[session.lease] = leases[session.lease]
  <1>1. [leases[l] EXCEPT !.status = ended] \in Lease!Leases
    BY DEF LeaseInv, Lease!TypeOK, Lease!Leases
  <1>2. leases'[l] = [leases[l] EXCEPT !.status = ended] /\ leases'[l].status = ended
    BY DEF LeaseInv, Lease!TypeOK, Lease!Leases
  <1>3. session' \in Lease!Sessions /\ session'.lease = session.lease /\ session' # NoSession
    BY DEF LeaseInv, Lease!TypeOK, Lease!Sessions, Lease!Registered, Lease!LeaseAssumption
  <1>4. leases' \in [Lease!LeaseIds -> Lease!Leases \cup {NoLease}]
    BY <1>1 DEF LeaseInv, Lease!TypeOK
  <1>5. Lease!OneActiveLease' /\ LeasesOfSession'
    BY <1>2, <1>3 DEF Lease!OneActiveLease, LeasesOfSession, Lease!IsActive, Lease!Registered,
       LeaseInv, Lease!TypeOK
  <1>6. Lease!CurrentActive /\ session.lease # l =>
           Lease!CurrentActive' /\ leases'[session.lease] = leases[session.lease]
    BY <1>3 DEF Lease!CurrentActive, Lease!IsActive, Lease!Registered, Lease!Expired, LeaseInv,
       Lease!TypeOK, Lease!Sessions
  <1> QED
    BY <1>3, <1>4, <1>5, <1>6

\* Once the session's lease has run out, nobody counts on it.
LEMMA ExpiredNotTold ==
  ASSUME LeaseInv, ~Lease!CurrentActive, UNCHANGED <<now, told, ousted>>
  PROVE  Lease!OwnerRecorded'
  BY DEF LeaseInv, Lease!OwnerRecorded

LEMMA RenewTooLateKeepsInv ==
  ASSUME Lease!LeaseAssumption, LeaseInv, NEW l \in Lease!LeaseIds, Lease!RenewTooLate(l)
  PROVE  LeaseInv'
  <1>1. ~Lease!CurrentActive /\ Lease!Registered /\ leases[l] # NoLease
    BY ActiveIsSessions DEF Lease!RenewTooLate, Lease!CurrentActive, Lease!IsActive
  <1>2. /\ leases' = [leases EXCEPT ![l].status = "expired"]
        /\ session' = [session EXCEPT !.status = "expired"]
        /\ UNCHANGED <<now, told, ousted>>
        /\ "expired" \in Lease!LeaseStatuses \ {"active"} /\ "expired" \in Lease!SessionStatuses
    BY DEF Lease!RenewTooLate, Lease!LeaseStatuses, Lease!SessionStatuses
  <1>3. /\ session' \in Lease!Sessions
        /\ leases' \in [Lease!LeaseIds -> Lease!Leases \cup {NoLease}]
        /\ Lease!OneActiveLease' /\ LeasesOfSession'
    BY <1>1, <1>2, StatusChange
  <1> QED
    BY <1>1, <1>2, <1>3, ExpiredNotTold DEF LeaseInv, Lease!TypeOK

LEMMA ReleaseKeepsInv ==
  ASSUME Lease!LeaseAssumption, LeaseInv, NEW l \in Lease!LeaseIds, Lease!ReleaseLease(l)
  PROVE  LeaseInv'
  <1>1. Lease!Registered /\ leases[l] # NoLease
    BY DEF Lease!ReleaseLease, LeaseInv, LeasesOfSession
  <1>2. /\ leases' = [leases EXCEPT ![l].status = "released"]
        /\ session' = [session EXCEPT !.status = "released"]
        /\ UNCHANGED <<now, ousted>>
        /\ "released" \in Lease!LeaseStatuses \ {"active"} /\ "released" \in Lease!SessionStatuses
    BY DEF Lease!ReleaseLease, Lease!LeaseStatuses, Lease!SessionStatuses
  <1>3. /\ session' \in Lease!Sessions
        /\ leases' \in [Lease!LeaseIds -> Lease!Leases \cup {NoLease}]
        /\ Lease!OneActiveLease' /\ LeasesOfSession' /\ session'.lease = session.lease
        /\ Lease!CurrentActive /\ session.lease # l =>
              Lease!CurrentActive' /\ leases'[session.lease] = leases[session.lease]
    BY <1>1, <1>2, StatusChange
  <1>4. told' \in [Owners -> Lease!Expiries \cup {0}] /\ l[1] \in Owners
    BY DEF Lease!ReleaseLease, LeaseInv, Lease!TypeOK, Lease!LeaseIds
  <1>5. Lease!OwnerRecorded'
    <2> SUFFICES ASSUME NEW p \in Owners, told'[p] >= now, p \notin ousted
                 PROVE  /\ Lease!CurrentActive' /\ session'.lease[1] = p
                        /\ leases'[session'.lease].expires = told'[p]
      BY <1>2 DEF Lease!OwnerRecorded
    <2>1. CASE session.lease # l /\ session.lease[1] = l[1]
      BY <1>2, <1>3, <2>1 DEF Lease!ReleaseLease, LeaseInv, Lease!OwnerRecorded
    <2>2. CASE ~(session.lease # l /\ session.lease[1] = l[1])
      <3>1. told' = [told EXCEPT ![l[1]] = 0]
        BY <2>2 DEF Lease!ReleaseLease
      <3>2. p # l[1] /\ told[p] >= now /\ told'[p] = told[p]
        BY <1>4, <3>1 DEF LeaseInv, Lease!TypeOK, Lease!Ticks, Lease!LeaseAssumption
      <3>3. Lease!CurrentActive /\ session.lease[1] = p /\ leases[session.lease].expires = told[p]
        BY <3>2 DEF LeaseInv, Lease!OwnerRecorded
      <3> QED
        BY <1>3, <3>2, <3>3
    <2> QED
      BY <2>1, <2>2
  <1> QED
    BY <1>2, <1>3, <1>4, <1>5 DEF LeaseInv, Lease!TypeOK

LEMMA TickKeepsInv ==
  ASSUME Lease!LeaseAssumption, LeaseInv, Lease!Tick
  PROVE  LeaseInv'
  <1>1. CASE session = NoSession
    <2>1. session' = session /\ leases' = leases /\ UNCHANGED <<now, told, ousted>>
      BY <1>1 DEF Lease!Tick, Lease!RunsOut, Lease!Watched
    <2> QED
      BY <2>1 DEF LeaseInv, Lease!TypeOK, LeasesOfSession, Lease!OneActiveLease,
         Lease!OwnerRecorded, Lease!CurrentActive, Lease!IsActive, Lease!Registered,
         Lease!Expired
  <1>2. CASE Lease!Registered /\ Lease!RunsOut
    <2> DEFINE l == session.lease
    <2>1. l \in Lease!LeaseIds /\ leases[l] # NoLease /\ ~Lease!CurrentActive
      BY <1>2 DEF Lease!RunsOut, Lease!IsActive, Lease!Registered, Lease!CurrentActive,
         LeaseInv, Lease!TypeOK, Lease!Sessions
    <2>2. PICK status \in Lease!SessionStatuses : session' = [session EXCEPT !.status = status]
      BY <1>2 DEF Lease!Tick, Lease!SessionStatuses, LeaseInv, Lease!TypeOK, Lease!Sessions,
         Lease!Registered
    <2>3. /\ leases' = [leases EXCEPT ![l].status = "expired"]
          /\ UNCHANGED <<now, told, ousted>>
          /\ "expired" \in Lease!LeaseStatuses \ {"active"}
      BY <1>2 DEF Lease!Tick, Lease!LeaseStatuses
    <2>4. /\ session' \in Lease!Sessions
          /\ leases' \in [Lease!LeaseIds -> Lease!Leases \cup {NoLease}]
          /\ Lease!OneActiveLease' /\ LeasesOfSession'
      BY <1>2, <2>1, <2>2, <2>3, StatusChange
    <2> QED
      BY <2>1, <2>3, <2>4, ExpiredNotTold DEF LeaseInv, Lease!TypeOK
  <1>3. CASE Lease!Registered /\ ~Lease!RunsOut
    <2>1. leases' = leases /\ UNCHANGED <<now, told, ousted>>
      BY <1>3 DEF Lease!Tick
    <2>2. session' \in Lease!Sessions /\ session'.lease = session.lease /\ session' # NoSession
      BY <1>3 DEF Lease!Tick, Lease!SessionStatuses, LeaseInv, Lease!TypeOK, Lease!Sessions,
         Lease!Registered, Lease!LeaseAssumption
    <2> QED
      BY <1>3, <2>1, <2>2
         DEF LeaseInv, Lease!TypeOK, LeasesOfSession, Lease!OneActiveLease, Lease!OwnerRecorded,
             Lease!CurrentActive, Lease!IsActive, Lease!Registered, Lease!Expired
  <1> QED
    BY <1>1, <1>2, <1>3 DEF Lease!Registered

LEMMA RegisterKeepsInv ==
  ASSUME Lease!LeaseAssumption, LeaseInv, Lease!RegisterSession
  PROVE  LeaseInv'
  <1>1. /\ session' \in Lease!Sessions /\ session' # NoSession
        /\ Lease!Registered => session' = session
    BY SessionOrNewTyped DEF Lease!RegisterSession, LeaseInv, Lease!LeaseAssumption,
       Lease!SessionOrNew
  <1>2. UNCHANGED <<leases, now, told, ousted>>
    BY DEF Lease!RegisterSession
  <1> QED
    BY <1>1, <1>2 DEF LeaseInv, Lease!TypeOK, LeasesOfSession, Lease!OneActiveLease,
       Lease!OwnerRecorded, Lease!CurrentActive, Lease!IsActive, Lease!Registered, Lease!Expired

LEMMA TimeKeepsInv ==
  ASSUME Lease!LeaseAssumption, LeaseInv, Lease!TimePasses
  PROVE  LeaseInv'
  <1>1. Lease!TypeOK' /\ now' >= 1 /\ LeasesOfSession' /\ Lease!OneActiveLease'
    BY DEF Lease!LeaseAssumption, LeaseInv, Lease!TypeOK, Lease!TimePasses, Lease!Ticks,
       LeasesOfSession, Lease!OneActiveLease, Lease!IsActive, Lease!Registered
  <1>2. Lease!OwnerRecorded'
    <2> SUFFICES ASSUME NEW o \in Owners, told[o] >= now + 1, o \notin ousted
                 PROVE  /\ Lease!CurrentActive' /\ session.lease[1] = o
                        /\ leases[session.lease].expires = told[o]
      BY DEF Lease!TimePasses, Lease!OwnerRecorded
    <2>1. told[o] \in Nat /\ now \in Nat
      BY ExpiriesNat DEF LeaseInv, Lease!TypeOK, Lease!Ticks, Lease!LeaseAssumption
    <2>2. Lease!CurrentActive /\ session.lease[1] = o /\ leases[session.lease].expires = told[o]
      BY <2>1 DEF LeaseInv, Lease!OwnerRecorded
    <2> QED
      BY <2>1, <2>2 DEF Lease!CurrentActive, Lease!Registered, Lease!IsActive, Lease!Expired,
         Lease!TimePasses
  <1> QED
    BY <1>1, <1>2 DEF LeaseInv

LEMMA LeaseNextInv ==
  ASSUME Lease!LeaseAssumption, LeaseInv, [Lease!Next]_Lease!vars
  PROVE  LeaseInv'
  <1>1. ASSUME NEW ttl \in Ttls, Lease!Heartbeat(ttl)
        PROVE  LeaseInv'
    <2>1. session.lease \in Lease!LeaseIds
      BY <1>1 DEF Lease!Heartbeat, Lease!Registered, Lease!IsActive, LeaseInv, Lease!TypeOK,
         Lease!Sessions
    <2> QED
      BY <1>1, <2>1, RenewKeepsInv, RenewTooLateKeepsInv DEF Lease!Heartbeat
  <1>2. CASE UNCHANGED Lease!vars
    BY <1>2 DEF Lease!vars, LeaseInv, Lease!TypeOK, LeasesOfSession, Lease!OneActiveLease,
       Lease!OwnerRecorded, Lease!CurrentActive, Lease!IsActive, Lease!Registered, Lease!Expired
  <1> QED
    BY <1>1, <1>2, RegisterKeepsInv, AcquireKeepsInv, TakeoverKeepsInv, RenewKeepsInv,
       RenewTooLateKeepsInv, ReleaseKeepsInv, TickKeepsInv, TimeKeepsInv DEF Lease!Next

-----------------------------------------------------------------------------
\* The registry's sessions and leases keep their statuses and ranges.
THEOREM LeaseTyped ==
  ASSUME Lease!LeaseAssumption PROVE Lease!Spec => []Lease!TypeOK
  <1>1. Lease!Init => LeaseInv
    BY LeaseInitInv
  <1>2. LeaseInv /\ [Lease!Next]_Lease!vars => LeaseInv'
    BY LeaseNextInv
  <1>3. LeaseInv => Lease!TypeOK
    BY DEF LeaseInv
  <1> QED
    BY <1>1, <1>2, <1>3, PTL DEF Lease!Spec

\* At most the lease the session names is active, although owners get the same
\* lease id again and callers renew and release old ones (acquire_lease,
\* renew_lease, release_lease, tick).
THEOREM LeaseUnique ==
  ASSUME Lease!LeaseAssumption PROVE Lease!Spec => []OneActiveLease
  <1>1. Lease!Init => LeaseInv
    BY LeaseInitInv
  <1>2. LeaseInv /\ [Lease!Next]_Lease!vars => LeaseInv'
    BY LeaseNextInv
  <1>3. LeaseInv => OneActiveLease
    BY DEF LeaseInv, OneActiveLease
  <1> QED
    BY <1>1, <1>2, <1>3, PTL DEF Lease!Spec

\* An owner that was told it holds the session until some tick, and was not
\* taken over since, is the one the registry records until then: the promise
\* of acquire_lease, takeover_session and renew_lease.
THEOREM LeasePromise ==
  ASSUME Lease!LeaseAssumption PROVE Lease!Spec => []OwnerRecorded
  <1>1. Lease!Init => LeaseInv
    BY LeaseInitInv
  <1>2. LeaseInv /\ [Lease!Next]_Lease!vars => LeaseInv'
    BY LeaseNextInv
  <1>3. LeaseInv => OwnerRecorded
    BY DEF LeaseInv, OwnerRecorded
  <1> QED
    BY <1>1, <1>2, <1>3, PTL DEF Lease!Spec

-----------------------------------------------------------------------------
\* The registry has o's lease as the session's, active and not run out.
Holds(o) == Lease!CurrentActive /\ session.lease[1] = o

\* What a step may do to the holder of the session: it holds the session still,
\* it was taken over, its lease was released by name, or its time is over.
HandedOver(o) ==
    \/ Holds(o)'
    \/ o \in ousted'
    \/ leases'[session.lease].status = "released"
    \/ now' > leases[session.lease].expires

LEMMA HolderFacts ==
  ASSUME LeaseInv, NEW o \in Owners, Holds(o)
  PROVE  /\ session \in Lease!Sessions /\ session # NoSession
         /\ session.lease \in Lease!LeaseIds /\ session.lease # NoLease
         /\ leases[session.lease] \in Lease!Leases /\ leases[session.lease] # NoLease
         /\ leases[session.lease].status = "active"
         /\ ~(now > leases[session.lease].expires)
  BY DEF Holds, LeaseInv, Lease!TypeOK, Lease!CurrentActive, Lease!IsActive, Lease!Registered,
     Lease!Expired, Lease!Sessions

\* The session's lease and the clock are as they were, whatever became of the
\* session's status and of the other leases.
LEMMA HoldsStill ==
  ASSUME LeaseInv, NEW o \in Owners, Holds(o),
         session' # NoSession, session'.lease = session.lease,
         leases'[session.lease] = leases[session.lease], now' = now
  PROVE  Holds(o)'
  BY HolderFacts
     DEF Holds, Lease!CurrentActive, Lease!IsActive, Lease!Registered, Lease!Expired

LEMMA LeaseStep ==
  ASSUME Lease!LeaseAssumption, LeaseInv, [Lease!Next]_Lease!vars, NEW o \in Owners, Holds(o)
  PROVE  HandedOver(o)
  <1>1. CASE Lease!RegisterSession
    BY <1>1, HolderFacts, HoldsStill
       DEF Lease!RegisterSession, Lease!SessionOrNew, Lease!Registered, HandedOver
  <1>2. ASSUME NEW p \in Owners, NEW ttl \in Ttls, Lease!AcquireLease(p, ttl)
        PROVE  HandedOver(o)
    <2>1. p = o /\ Lease!Grant(p, ttl, "active") /\ "active" \in Lease!SessionStatuses
      BY <1>2 DEF Lease!AcquireLease, Lease!CanAcquire, Holds, Lease!SessionStatuses
    <2> QED
      BY <2>1, GrantEffect DEF HandedOver, Holds
  <1>3. ASSUME NEW p \in Owners, NEW ttl \in Ttls,
               Lease!TakeoverSession(p, ttl) \/ Lease!TakeoverCrash(p, ttl)
        PROVE  HandedOver(o)
    <2>1. PICK status \in Lease!SessionStatuses : Lease!Grant(p, ttl, status) /\ Lease!Oust(p)
      BY <1>3 DEF Lease!TakeoverSession, Lease!TakeoverCrash, Lease!SessionStatuses
    <2>2. CASE p = o
      BY <2>1, <2>2, GrantEffect DEF HandedOver, Holds
    <2>3. CASE p # o
      BY <2>1, <2>3 DEF Lease!Oust, HandedOver, Holds
    <2> QED
      BY <2>2, <2>3
  <1>4. ASSUME NEW l \in Lease!LeaseIds, NEW ttl \in Ttls, NEW beat \in BOOLEAN,
               Lease!RenewLease(l, ttl, beat)
        PROVE  HandedOver(o)
    <2> DEFINE renewed == [leases[l] EXCEPT !.expires = now + ttl]
    <2>1. session.lease = l /\ l # NoLease
      BY <1>4, ActiveIsSessions DEF Lease!RenewLease, Lease!IsActive
    <2>2. /\ leases'[l] = renewed /\ renewed # NoLease
          /\ renewed.status = "active" /\ renewed.expires = now + ttl
      <3>1. renewed \in Lease!Leases
        BY <2>1, HolderFacts, ExpiryOfNow DEF LeaseInv, Lease!Leases
      <3> QED
        BY <1>4, <2>1, <3>1, HolderFacts
           DEF Lease!RenewLease, LeaseInv, Lease!TypeOK, Lease!Leases, Lease!LeaseAssumption
    <2>3. /\ session' # NoSession /\ session'.lease = l /\ now' = now
      <3>1. /\ session' = [session EXCEPT !.status = "active", !.lease = l,
                                          !.heartbeat = IF beat THEN now ELSE @]
            /\ now' = now
        BY <1>4 DEF Lease!RenewLease
      <3>2. session' \in Lease!Sessions /\ session'.lease = l
        BY <3>1, HolderFacts DEF Lease!Sessions, Lease!SessionStatuses, LeaseInv, Lease!TypeOK
      <3> QED
        BY <3>1, <3>2 DEF Lease!LeaseAssumption
    <2>4. ~(now > now + ttl)
      BY ExpiryOfNow DEF LeaseInv, Lease!TypeOK, Lease!Ticks, Lease!LeaseAssumption
    <2> QED
      BY <2>1, <2>2, <2>3, <2>4
         DEF HandedOver, Holds, Lease!CurrentActive, Lease!IsActive, Lease!Registered,
             Lease!Expired
  <1>5. ASSUME NEW l \in Lease!LeaseIds, Lease!RenewTooLate(l)
        PROVE  HandedOver(o)
    BY <1>5, ActiveIsSessions DEF Lease!RenewTooLate, Holds, Lease!CurrentActive
  <1>6. ASSUME NEW l \in Lease!LeaseIds, Lease!ReleaseLease(l)
        PROVE  HandedOver(o)
    <2>1. CASE l = session.lease
      BY <1>6, <2>1, HolderFacts
         DEF Lease!ReleaseLease, LeaseInv, Lease!TypeOK, Lease!Leases, HandedOver
    <2>2. CASE l # session.lease
      <3>1. /\ session' = [session EXCEPT !.status = "released"]
            /\ leases'[session.lease] = leases[session.lease] /\ now' = now
        BY <1>6, <2>2, HolderFacts DEF Lease!ReleaseLease, LeaseInv, Lease!TypeOK
      <3>2. session' \in Lease!Sessions /\ session'.lease = session.lease
        BY <3>1, HolderFacts DEF Lease!Sessions, Lease!SessionStatuses
      <3> QED
        BY <3>1, <3>2, HoldsStill DEF HandedOver, Lease!LeaseAssumption
    <2> QED
      BY <2>1, <2>2
  <1>7. ASSUME NEW ttl \in Ttls, Lease!Heartbeat(ttl)
        PROVE  HandedOver(o)
    <2>1. session.lease \in Lease!LeaseIds
      BY HolderFacts
    <2> QED
      BY <1>4, <1>5, <1>7, <2>1 DEF Lease!Heartbeat
  <1>8. CASE Lease!Tick
    <2>1. ~Lease!RunsOut
      BY DEF Lease!RunsOut, Holds, Lease!CurrentActive
    <2>2. leases' = leases /\ now' = now
      BY <1>8, <2>1 DEF Lease!Tick
    <2>3. session' \in Lease!Sessions /\ session'.lease = session.lease
      BY <1>8, <2>1, HolderFacts DEF Lease!Tick, Lease!Sessions, Lease!SessionStatuses
    <2> QED
      BY <2>2, <2>3, HoldsStill DEF HandedOver, Lease!LeaseAssumption
  <1>9. CASE Lease!TimePasses
    BY <1>9, HolderFacts
       DEF Lease!TimePasses, HandedOver, Holds, Lease!CurrentActive, Lease!IsActive,
           Lease!Registered, Lease!Expired
  <1>10. CASE UNCHANGED Lease!vars
    BY <1>10, HolderFacts, HoldsStill DEF Lease!vars, HandedOver
  <1> QED
    BY <1>1, <1>2, <1>3, <1>4, <1>5, <1>6, <1>7, <1>8, <1>9, <1>10 DEF Lease!Next

\* An owner loses an unexpired lease only to takeover_session or to a release
\* of that very lease: not by being declared a zombie, not by the release of an
\* older lease that marks the whole session released, and not by anybody's
\* acquire_lease after either.
THEOREM LeaseKept ==
  ASSUME Lease!LeaseAssumption
  PROVE  Lease!Spec => [][\A o \in Owners : Holds(o) => HandedOver(o)]_Lease!vars
  <1>1. Lease!Init => LeaseInv
    BY LeaseInitInv
  <1>2. LeaseInv /\ [Lease!Next]_Lease!vars => LeaseInv'
    BY LeaseNextInv
  <1>3. LeaseInv /\ [Lease!Next]_Lease!vars
           => [\A o \in Owners : Holds(o) => HandedOver(o)]_Lease!vars
    BY LeaseStep
  <1> QED
    BY <1>1, <1>2, <1>3, PTL DEF Lease!Spec
=============================================================================
