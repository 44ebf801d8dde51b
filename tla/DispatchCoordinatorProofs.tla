---------------------- MODULE DispatchCoordinatorProofs ----------------------
(***************************************************************************)
(* Proofs about the dispatch coordinator, for any workers, mission         *)
(* entries, lease durations and clock.                                     *)
(*                                                                         *)
(* Every operation is a function on a state, so the invariant is one of    *)
(* states (Agree, Told) and is kept by each function; it holds of the file *)
(* and of the result that is not saved yet.  OneLease says nothing of      *)
(* workers that are not registered: Agree adds that an active lease has a  *)
(* record, without which registering a worker could break it.              *)
(***************************************************************************)
EXTENDS MissionLayer, TLAPS

\* The record of a worker and its active lease name each other.
Agree(c) ==
    /\ \A l \in Coord!Active(c) : c.rec[l[1]] # None /\ c.rec[l[1]].lease = l
    /\ \A w \in Coord!Registered(c) : c.rec[w].lease # None =>
          c.rec[w].lease \in Coord!Active(c) /\ c.rec[w].lease[1] = w

\* The events b tell of every lease of c and of how it ended.
Told(c, b) ==
    \A l \in Coord!Known(c) :
        /\ <<"assigned", l>> \in b
        /\ c.lease[l].status \in {"completed", "failed"} => <<c.lease[l].status, l>> \in b

CoordInv ==
    /\ Coord!TypeOK
    /\ Agree(coord) /\ Told(coord, cbus)
    /\ work # None => Agree(work) /\ Told(work, cbus)

-----------------------------------------------------------------------------
(* The functions on states.                                                *)

LEMMA StateFields ==
  ASSUME NEW c \in Coord!States
  PROVE  /\ c.rec \in [Workers -> Coord!Records \cup {None}]
         /\ c.lease \in [Coord!LeaseIds -> Coord!Leases \cup {None}]
         /\ \A l \in Coord!LeaseIds : l[1] \in Workers
         /\ \A w \in Coord!Registered(c) : w \in Workers /\ c.rec[w] \in Coord!Records
         /\ \A l \in Coord!Known(c) : l \in Coord!LeaseIds /\ c.lease[l] \in Coord!Leases
         /\ Coord!Active(c) \subseteq Coord!Known(c)
  BY DEF Coord!States, Coord!LeaseIds, Coord!Registered, Coord!Known,
     Coord!Active

\* The leases that have run out expire and their workers are free; nothing else
\* changes.
LEMMA RecoveredState ==
  ASSUME Coord!CoordinatorAssumption, NEW c \in Coord!States, Agree(c)
  PROVE  /\ Coord!Recovered(c) \in Coord!States
         /\ Coord!Known(Coord!Recovered(c)) = Coord!Known(c)
         /\ Coord!Active(Coord!Recovered(c)) = Coord!Active(c) \ Coord!Overdue(c)
         /\ \A l \in Coord!Known(c) :
               Coord!Recovered(c).lease[l].status \in {c.lease[l].status, "expired"}
         /\ Coord!Registered(Coord!Recovered(c)) = Coord!Registered(c)
         /\ Agree(Coord!Recovered(c))
  <1> DEFINE d == Coord!Recovered(c)
  <1>1. \A l \in Coord!LeaseIds : d.lease[l] = IF l \in Coord!Overdue(c)
                                         THEN [c.lease[l] EXCEPT !.status = "expired"]
                                         ELSE c.lease[l]
    BY DEF Coord!Recovered
  <1>2. \A w \in Workers : d.rec[w] = IF \E l \in Coord!Overdue(c) : l[1] = w
                                      THEN [status |-> "available", lease |-> None]
                                      ELSE c.rec[w]
    BY DEF Coord!Recovered
  <1>3. \A l \in Coord!Overdue(c) :
           l \in Coord!Active(c) /\ l \in Coord!Known(c) /\ l \in Coord!LeaseIds
    BY DEF Coord!Overdue, Coord!Active, Coord!Known
  <1>4. \A l \in Coord!Overdue(c) :
           /\ [c.lease[l] EXCEPT !.status = "expired"] \in Coord!Leases
           /\ [c.lease[l] EXCEPT !.status = "expired"].status = "expired"
    BY <1>3, StateFields DEF Coord!Leases, Coord!LeaseStatuses
  <1>5. d.lease \in [Coord!LeaseIds -> Coord!Leases \cup {None}]
    BY <1>4, StateFields DEF Coord!Recovered
  <1>6. [status |-> "available", lease |-> None] \in Coord!Records
    BY DEF Coord!Records, Coord!RecordStatuses
  <1>7. d.rec \in [Workers -> Coord!Records \cup {None}]
    BY <1>6, StateFields DEF Coord!Recovered
  <1>8. d \in Coord!States
    BY <1>5, <1>7 DEF Coord!Recovered, Coord!States
  <1>9. Coord!Known(d) = Coord!Known(c)
    BY <1>1, <1>3, <1>4 DEF Coord!Known, Coord!CoordinatorAssumption
  <1>10. Coord!Active(d) = Coord!Active(c) \ Coord!Overdue(c)
    BY <1>1, <1>3, <1>4, <1>9 DEF Coord!Active, Coord!Known
  <1>11. \A l \in Coord!Known(c) : d.lease[l].status \in {c.lease[l].status, "expired"}
    BY <1>1, <1>4 DEF Coord!Known
  <1>12. Coord!Registered(d) = Coord!Registered(c)
    BY <1>2, <1>3, <1>6, StateFields DEF Coord!Registered,
       Coord!CoordinatorAssumption, Agree
  <1>13. Agree(d)
    <2>1. ASSUME NEW l \in Coord!Active(d)
          PROVE  d.rec[l[1]] # None /\ d.rec[l[1]].lease = l
      <3>1. l \in Coord!Active(c) /\ l \notin Coord!Overdue(c) /\ l[1] \in Workers
        BY <1>10, StateFields DEF Coord!Active, Coord!Known
      <3>2. ~\E k \in Coord!Overdue(c) : k[1] = l[1]
        BY <1>3, <3>1 DEF Agree
      <3> QED
        BY <1>2, <3>1, <3>2 DEF Agree
    <2>2. ASSUME NEW w \in Coord!Registered(d), d.rec[w].lease # None
          PROVE  d.rec[w].lease \in Coord!Active(d) /\ d.rec[w].lease[1] = w
      <3>1. w \in Workers /\ w \in Coord!Registered(c) /\ d.rec[w] = c.rec[w]
            /\ ~\E k \in Coord!Overdue(c) : k[1] = w
        BY <1>2, <1>12, <2>2 DEF Coord!Registered
      <3> QED
        BY <1>10, <2>2, <3>1 DEF Agree
    <2> QED
      BY <2>1, <2>2 DEF Agree
  <1> QED
    BY <1>8, <1>9, <1>10, <1>11, <1>12, <1>13

\* refresh_workers gives statuses; an available worker is alive and has no
\* lease.
LEMMA RefreshedState ==
  ASSUME Coord!CoordinatorAssumption, Coord!TypeOK, NEW c \in Coord!States, Agree(c)
  PROVE  /\ Coord!Refreshed(c) \in Coord!States
         /\ Coord!Refreshed(c).lease = c.lease
         /\ Coord!Known(Coord!Refreshed(c)) = Coord!Known(c)
         /\ Coord!Active(Coord!Refreshed(c)) = Coord!Active(c)
         /\ Coord!Registered(Coord!Refreshed(c)) = Coord!Registered(c)
         /\ Agree(Coord!Refreshed(c))
         /\ \A w \in Coord!Registered(c) : Coord!Refreshed(c).rec[w].status = "available" =>
               /\ c.rec[w].lease = None /\ Coord!Refreshed(c).rec[w].lease = None
               /\ worker[w].health \in {"idle", "leased"} /\ Coord!IsFresh(w)
  <1> DEFINE d == Coord!Refreshed(c)
             new(w) == [c.rec[w] EXCEPT !.status = Coord!Refresh(c.rec[w], w)]
  <1>1. d.lease = c.lease /\ d = [rec |-> d.rec, lease |-> c.lease]
    BY DEF Coord!Refreshed, Coord!States
  <1>2. d.rec = [w \in Workers |-> IF c.rec[w] = None THEN None ELSE new(w)]
    BY DEF Coord!Refreshed, Coord!States
  <1>3. ASSUME NEW w \in Coord!Registered(c)
        PROVE  /\ w \in Workers /\ c.rec[w] # None /\ new(w) \in Coord!Records /\ new(w) # None
               /\ new(w).lease = c.rec[w].lease /\ new(w).status = Coord!Refresh(c.rec[w], w)
    <2>1. w \in Workers /\ c.rec[w] \in Coord!Records /\ c.rec[w] # None
      BY StateFields DEF Coord!Registered
    <2>2. Coord!Refresh(c.rec[w], w) \in Coord!RecordStatuses
      BY DEF Coord!Refresh, Coord!RecordStatuses
    <2>3. new(w) \in Coord!Records /\ new(w).lease = c.rec[w].lease
          /\ new(w).status = Coord!Refresh(c.rec[w], w)
      BY <2>1, <2>2 DEF Coord!Records
    <2> QED
      BY <2>1, <2>3 DEF Coord!CoordinatorAssumption
  <1> HIDE DEF d, new
  <1>4. d.rec \in [Workers -> Coord!Records \cup {None}]
    BY <1>2, <1>3 DEF Coord!Registered
  <1>5. d \in Coord!States
    BY <1>1, <1>4, StateFields DEF Coord!States
  <1>6. Coord!Registered(d) = Coord!Registered(c)
    BY <1>2, <1>3 DEF Coord!Registered
  <1>7. Coord!Known(d) = Coord!Known(c) /\ Coord!Active(d) = Coord!Active(c)
    BY <1>1 DEF Coord!Known, Coord!Active
  <1>8. \A w \in Coord!Registered(c) : d.rec[w] = new(w)
    BY <1>2, <1>3
  <1>9. Agree(d)
    <2>1. ASSUME NEW l \in Coord!Active(d)
          PROVE  d.rec[l[1]] # None /\ d.rec[l[1]].lease = l
      <3>1. l \in Coord!Active(c) /\ l[1] \in Coord!Registered(c) /\ c.rec[l[1]].lease = l
        BY <1>7, StateFields DEF Agree, Coord!Registered
      <3> QED
        BY <1>3, <1>8, <3>1
    <2>2. ASSUME NEW w \in Coord!Registered(d), d.rec[w].lease # None
          PROVE  d.rec[w].lease \in Coord!Active(d) /\ d.rec[w].lease[1] = w
      BY <1>3, <1>6, <1>7, <1>8, <2>2 DEF Agree
    <2> QED
      BY <2>1, <2>2 DEF Agree
  <1>10. ASSUME NEW w \in Coord!Registered(c), d.rec[w].status = "available"
         PROVE  /\ c.rec[w].lease = None /\ d.rec[w].lease = None
                /\ worker[w].health \in {"idle", "leased"} /\ Coord!IsFresh(w)
    <2>1. Coord!Refresh(c.rec[w], w) = "available" /\ w \in Workers
      BY <1>3, <1>8, <1>10
    <2>2. worker[w].health \in Coord!Health
      BY <2>1 DEF Coord!TypeOK
    <2>3. c.rec[w].lease = None /\ worker[w].health \in {"idle", "leased"} /\ Coord!IsFresh(w)
      BY <2>1, <2>2 DEF Coord!Refresh, Coord!Health
    <2> QED
      BY <1>3, <1>8, <2>3
  <1> QED
    BY <1>1, <1>5, <1>6, <1>7, <1>9, <1>10 DEF d

\* What a caller of select_available_worker sees.
LEMMA SelectedState ==
  ASSUME Coord!CoordinatorAssumption, Coord!TypeOK, Agree(coord),
         NEW c, c = Coord!Refreshed(Coord!Recovered(coord))
  PROVE  /\ c \in Coord!States /\ Agree(c)
         /\ Coord!Known(c) = Coord!Known(coord)
         /\ Coord!Active(c) = Coord!Active(coord) \ Coord!Overdue(coord)
         /\ \A l \in Coord!Known(coord) : c.lease[l].status \in {coord.lease[l].status, "expired"}
         /\ \A w \in Coord!Registered(c) : c.rec[w].status = "available" =>
               /\ c.rec[w].lease = None
               /\ worker[w].health \in {"idle", "leased"} /\ Coord!IsFresh(w)
  BY RecoveredState, RefreshedState DEF Coord!TypeOK

\* A free worker gets a lease, named by its record.
LEMMA LeasedState ==
  ASSUME Coord!CoordinatorAssumption, Coord!TypeOK, NEW c \in Coord!States, Agree(c),
         NEW w \in Coord!Registered(c), c.rec[w].lease = None,
         NEW m \in Missions, NEW s \in Seconds
  PROVE  /\ Coord!Leased(c, w, m, s) \in Coord!States
         /\ Coord!Known(Coord!Leased(c, w, m, s)) = Coord!Known(c) \cup {<<w, m, now>>}
         /\ Coord!Active(Coord!Leased(c, w, m, s)) = Coord!Active(c) \cup {<<w, m, now>>}
         /\ Coord!Leased(c, w, m, s).lease[<<w, m, now>>].status = "active"
         /\ \A l \in Coord!Known(c) :
               l # <<w, m, now>> => Coord!Leased(c, w, m, s).lease[l] = c.lease[l]
         /\ Agree(Coord!Leased(c, w, m, s))
  <1> DEFINE id == <<w, m, now>>
             d == Coord!Leased(c, w, m, s)
             rec == [status |-> "busy", lease |-> id]
             lease == [status |-> "active", expires |-> now + s]
  <1>1. id \in Coord!LeaseIds /\ id[1] = w /\ w \in Workers
    BY DEF Coord!LeaseIds, Coord!Registered, Coord!TypeOK
  <1>2. rec \in Coord!Records /\ rec # None /\ lease \in Coord!Leases /\ lease # None
    BY <1>1 DEF Coord!Records, Coord!RecordStatuses, Coord!Leases,
       Coord!LeaseStatuses, Coord!CoordinatorAssumption, Coord!TypeOK
  <1>3. d = [rec |-> [c.rec EXCEPT ![w] = rec], lease |-> [c.lease EXCEPT ![id] = lease]]
    BY DEF Coord!Leased
  <1>4. d \in Coord!States
    BY <1>1, <1>2, <1>3, StateFields DEF Coord!States
  <1>5. /\ \A l \in Coord!LeaseIds : d.lease[l] = IF l = id THEN lease ELSE c.lease[l]
        /\ \A v \in Workers : d.rec[v] = IF v = w THEN rec ELSE c.rec[v]
    BY <1>1, <1>3, StateFields
  <1> HIDE DEF d, id, rec
  <1>6. Coord!Known(d) = Coord!Known(c) \cup {id} /\ Coord!Active(d) = Coord!Active(c) \cup {id}
    BY <1>1, <1>2, <1>5 DEF Coord!Known, Coord!Active
  <1>7. \A l \in Coord!Active(c) : l[1] # w /\ l[1] \in Workers /\ l \in Coord!LeaseIds
    BY StateFields DEF Agree, Coord!Active, Coord!Known,
       Coord!CoordinatorAssumption
  <1>8. rec.lease = id
    BY DEF rec
  <1>9. Agree(d)
    <2>1. ASSUME NEW l \in Coord!Active(d)
          PROVE  d.rec[l[1]] # None /\ d.rec[l[1]].lease = l
      BY <1>1, <1>2, <1>5, <1>6, <1>7, <1>8 DEF Agree
    <2>2. ASSUME NEW v \in Coord!Registered(d), d.rec[v].lease # None
          PROVE  d.rec[v].lease \in Coord!Active(d) /\ d.rec[v].lease[1] = v
      BY <1>1, <1>5, <1>6, <1>8, <2>2 DEF Agree, Coord!Registered
    <2> QED
      BY <2>1, <2>2 DEF Agree
  <1>10. \A l \in Coord!Known(c) : l # id => d.lease[l] = c.lease[l]
    BY <1>5 DEF Coord!Known
  <1> QED
    BY <1>1, <1>4, <1>5, <1>6, <1>9, <1>10 DEF d, id

\* An answer for an active lease ends it and frees its worker.
LEMMA EndedState ==
  ASSUME Coord!CoordinatorAssumption, NEW c \in Coord!States, Agree(c), NEW l \in Coord!Active(c),
         NEW o \in {"completed", "failed"}
  PROVE  /\ Coord!Ended(c, l, o) \in Coord!States
         /\ Coord!Known(Coord!Ended(c, l, o)) = Coord!Known(c)
         /\ Coord!Active(Coord!Ended(c, l, o)) = Coord!Active(c) \ {l}
         /\ Coord!Ended(c, l, o).lease[l].status = o
         /\ \A k \in Coord!Known(c) : k # l => Coord!Ended(c, l, o).lease[k] = c.lease[k]
         /\ Agree(Coord!Ended(c, l, o))
  <1> DEFINE d == Coord!Ended(c, l, o)
             w == l[1]
             rec == [status |-> IF o = "failed" THEN "failed" ELSE "available", lease |-> None]
             lease == [c.lease[l] EXCEPT !.status = o]
  <1>1. l \in Coord!LeaseIds /\ l \in Coord!Known(c) /\ w \in Workers /\ c.lease[l] \in Coord!Leases
    BY StateFields DEF Coord!Active, Coord!Known
  <1>2. /\ rec \in Coord!Records /\ rec # None /\ rec.lease = None
        /\ lease \in Coord!Leases /\ lease # None /\ lease.status = o
    BY <1>1 DEF Coord!Records, Coord!RecordStatuses, Coord!Leases,
       Coord!LeaseStatuses, Coord!CoordinatorAssumption
  <1>3. d = [rec |-> [c.rec EXCEPT ![w] = rec], lease |-> [c.lease EXCEPT ![l] = lease]]
    BY DEF Coord!Ended
  <1>4. d \in Coord!States
    BY <1>1, <1>2, <1>3, StateFields DEF Coord!States
  <1>5. /\ \A k \in Coord!LeaseIds : d.lease[k] = IF k = l THEN lease ELSE c.lease[k]
        /\ \A v \in Workers : d.rec[v] = IF v = w THEN rec ELSE c.rec[v]
    BY <1>1, <1>3, StateFields
  <1> HIDE DEF d, rec, lease
  <1>6. Coord!Known(d) = Coord!Known(c) /\ Coord!Active(d) = Coord!Active(c) \ {l}
    BY <1>1, <1>2, <1>5 DEF Coord!Known, Coord!Active
  <1>7. \A k \in Coord!Active(c) : k # l => k[1] # w /\ k[1] \in Workers /\ k \in Coord!LeaseIds
    BY StateFields DEF Agree, Coord!Active, Coord!Known
  <1>8. Agree(d)
    <2>1. ASSUME NEW k \in Coord!Active(d)
          PROVE  d.rec[k[1]] # None /\ d.rec[k[1]].lease = k
      BY <1>5, <1>6, <1>7 DEF Agree
    <2>2. ASSUME NEW v \in Coord!Registered(d), d.rec[v].lease # None
          PROVE  d.rec[v].lease \in Coord!Active(d) /\ d.rec[v].lease[1] = v
      <3>1. v \in Workers /\ v # w /\ d.rec[v] = c.rec[v] /\ v \in Coord!Registered(c)
        BY <1>2, <1>5, <2>2 DEF Coord!Registered
      <3>2. c.rec[v].lease \in Coord!Active(c) /\ c.rec[v].lease[1] = v
        BY <2>2, <3>1 DEF Agree
      <3> QED
        BY <1>6, <3>1, <3>2
    <2> QED
      BY <2>1, <2>2 DEF Agree
  <1>9. \A k \in Coord!Known(c) : k # l => d.lease[k] = c.lease[k]
    BY <1>5 DEF Coord!Known
  <1> QED
    BY <1>1, <1>2, <1>4, <1>5, <1>6, <1>8, <1>9 DEF d

-----------------------------------------------------------------------------
(* The steps.                                                              *)

LEMMA CoordInitInv == Coord!CoordinatorAssumption /\ Coord!Init => CoordInv
  <1> SUFFICES ASSUME Coord!CoordinatorAssumption, Coord!Init
               PROVE  CoordInv
    OBVIOUS
  <1>1. /\ coord \in Coord!States /\ Coord!Known(coord) = {}
        /\ Coord!Active(coord) = {} /\ Coord!Registered(coord) = {}
    BY DEF Coord!Init, Coord!States, Coord!Known, Coord!Active,
       Coord!Registered
  <1>2. Coord!TypeOK
    BY <1>1 DEF Coord!Init, Coord!TypeOK, Coord!CoordinatorAssumption,
       Coord!Health
  <1> QED
    BY <1>1, <1>2 DEF Coord!Init, CoordInv, Agree, Told

\* An operation leaves the file alone and a good result to be saved.
LEMMA OperationKeepsInv ==
  ASSUME Coord!CoordinatorAssumption, CoordInv, UNCHANGED <<coord, worker, now>>,
         cbus \subseteq cbus', work' \in Coord!States, Agree(work'), Told(work', cbus')
  PROVE  CoordInv'
  <1>1. Coord!TypeOK'
    BY DEF CoordInv, Coord!TypeOK
  <1>2. Agree(coord)' /\ Told(coord, cbus)'
    BY DEF CoordInv, Agree, Told, Coord!Active, Coord!Known, Coord!Registered
  <1>3. Agree(work)' /\ Told(work, cbus)'
    BY DEF Agree, Told, Coord!Active, Coord!Known, Coord!Registered
  <1> QED
    BY <1>1, <1>2, <1>3 DEF CoordInv

\* Events about the leases of a state that only lets some expire.
LEMMA ToldStays ==
  ASSUME NEW c, NEW d, NEW b, Told(c, b), Coord!Known(d) = Coord!Known(c),
         \A l \in Coord!Known(c) : d.lease[l].status \in {c.lease[l].status, "expired"}
  PROVE  Told(d, b)
  BY DEF Told

LEMMA RegisterKeepsInv ==
  ASSUME Coord!CoordinatorAssumption, CoordInv, NEW w \in Workers, Coord!RegisterWorker(w)
  PROVE  CoordInv'
  <1> DEFINE rec == [status |-> Coord!Projected(w), lease |-> None]
             d == [coord EXCEPT !.rec[w] = rec]
  <1>1. coord \in Coord!States /\ Agree(coord) /\ Told(coord, cbus) /\ w \notin Coord!Registered(coord)
    BY DEF CoordInv, Coord!TypeOK, Coord!RegisterWorker
  <1>2. rec \in Coord!Records /\ rec # None /\ rec.lease = None
    BY DEF Coord!Projected, Coord!Records, Coord!RecordStatuses,
       Coord!CoordinatorAssumption
  <1>3. /\ d = [rec |-> [coord.rec EXCEPT ![w] = rec], lease |-> coord.lease]
        /\ d \in Coord!States
    BY <1>1, <1>2 DEF Coord!States
  <1>4. /\ \A v \in Workers : d.rec[v] = IF v = w THEN rec ELSE coord.rec[v]
        /\ d.lease = coord.lease
    BY <1>1, <1>3, StateFields
  <1>5. work' = d /\ UNCHANGED <<coord, cbus, worker, now>>
    BY DEF Coord!RegisterWorker
  <1> HIDE DEF d, rec
  <1>6. Coord!Known(d) = Coord!Known(coord) /\ Coord!Active(d) = Coord!Active(coord)
    BY <1>4 DEF Coord!Known, Coord!Active
  <1>7. Agree(d)
    BY <1>1, <1>2, <1>4, <1>6, StateFields DEF Agree, Coord!Registered
  <1>8. Told(d, cbus)
    BY <1>1, <1>4, <1>6 DEF Told
  <1> QED
    BY <1>3, <1>5, <1>7, <1>8, OperationKeepsInv

LEMMA RefreshKeepsInv ==
  ASSUME Coord!CoordinatorAssumption, CoordInv,
         Coord!RefreshWorkers \/ \E m \in Missions : Coord!NoWorkerAvailable(m)
  PROVE  CoordInv'
  <1>1. /\ work' \in {Coord!Refreshed(coord), Coord!Refreshed(Coord!Recovered(coord))}
        /\ UNCHANGED <<coord, cbus, worker, now>>
    BY DEF Coord!RefreshWorkers, Coord!NoWorkerAvailable
  <1>2. coord \in Coord!States /\ Agree(coord) /\ Told(coord, cbus) /\ Coord!TypeOK
    BY DEF CoordInv, Coord!TypeOK
  <1>3. CASE work' = Coord!Refreshed(coord)
    <2>1. /\ work' \in Coord!States /\ Agree(work') /\ Coord!Known(work') = Coord!Known(coord)
          /\ work'.lease = coord.lease
      BY <1>2, <1>3, RefreshedState
    <2>2. Told(work', cbus)
      BY <1>2, <2>1 DEF Told
    <2> QED
      BY <1>1, <2>1, <2>2, OperationKeepsInv
  <1>4. CASE work' = Coord!Refreshed(Coord!Recovered(coord))
    <2>1. /\ work' \in Coord!States /\ Agree(work') /\ Coord!Known(work') = Coord!Known(coord)
          /\ \A l \in Coord!Known(coord) :
                work'.lease[l].status \in {coord.lease[l].status, "expired"}
      BY <1>2, <1>4, SelectedState
    <2>2. Told(work', cbus)
      BY <1>2, <2>1, ToldStays
    <2> QED
      BY <1>1, <2>1, <2>2, OperationKeepsInv
  <1> QED
    BY <1>1, <1>3, <1>4

LEMMA AcquireKeepsInv ==
  ASSUME Coord!CoordinatorAssumption, CoordInv, NEW m \in Missions, NEW s \in Seconds,
         Coord!AcquireLease(m, s)
  PROVE  CoordInv'
  <1> DEFINE c == Coord!Refreshed(Coord!Recovered(coord))
  <1>1. PICK w \in Coord!Selectable(c, m) :
           /\ work' = Coord!Leased(c, w, m, s)
           /\ cbus' = cbus \cup {<<"assigned", <<w, m, now>>>>}
    BY DEF Coord!AcquireLease
  <1>2. UNCHANGED <<coord, worker, now>>
    BY DEF Coord!AcquireLease
  <1>3. Coord!TypeOK /\ Agree(coord) /\ Told(coord, cbus)
    BY DEF CoordInv
  <1> DEFINE id == <<w, m, now>>
  <1>4. /\ c \in Coord!States /\ Agree(c) /\ Coord!Known(c) = Coord!Known(coord)
        /\ \A l \in Coord!Known(coord) : c.lease[l].status \in {coord.lease[l].status, "expired"}
        /\ w \in Coord!Registered(c) /\ c.rec[w].lease = None
    BY <1>3, SelectedState DEF Coord!Selectable
  <1>5. Told(c, cbus)
    BY <1>3, <1>4, ToldStays
  <1> HIDE DEF c
  <1>6. /\ work' \in Coord!States /\ Agree(work')
        /\ Coord!Known(work') = Coord!Known(c) \cup {id}
        /\ work'.lease[id].status = "active"
        /\ \A l \in Coord!Known(c) : l # id => work'.lease[l] = c.lease[l]
    BY <1>1, <1>3, <1>4, LeasedState
  <1>7. Told(work', cbus')
    BY <1>1, <1>5, <1>6 DEF Told
  <1> QED
    BY <1>1, <1>2, <1>6, <1>7, OperationKeepsInv

LEMMA CompleteKeepsInv ==
  ASSUME Coord!CoordinatorAssumption, CoordInv, NEW l \in Coord!LeaseIds,
         NEW o \in {"completed", "failed"}, Coord!CompleteLease(l, o)
  PROVE  CoordInv'
  <1>1. coord \in Coord!States /\ Agree(coord) /\ Told(coord, cbus)
    BY DEF CoordInv, Coord!TypeOK
  <1>2. /\ work' = Coord!Completed(coord, l, o) /\ cbus' = cbus \cup Coord!Answered(coord, l, o)
        /\ UNCHANGED <<coord, worker, now>>
    BY DEF Coord!CompleteLease
  <1>3. CASE l \in Coord!Active(coord)
    <2>1. work' = Coord!Ended(coord, l, o) /\ cbus' = cbus \cup {<<o, l>>}
      BY <1>2, <1>3 DEF Coord!Completed, Coord!Answered
    <2>2. /\ work' \in Coord!States /\ Agree(work')
          /\ Coord!Known(work') = Coord!Known(coord)
          /\ work'.lease[l].status = o
          /\ \A k \in Coord!Known(coord) : k # l => work'.lease[k] = coord.lease[k]
      BY <1>1, <1>3, <2>1, EndedState
    <2>3. Told(work', cbus')
      BY <1>1, <2>1, <2>2 DEF Told
    <2> QED
      BY <1>2, <2>1, <2>2, <2>3, OperationKeepsInv
  <1>4. CASE l \notin Coord!Active(coord)
    BY <1>1, <1>2, <1>4, OperationKeepsInv DEF Coord!Completed, Coord!Answered
  <1> QED
    BY <1>3, <1>4

LEMMA CoordNextInv ==
  ASSUME Coord!CoordinatorAssumption, CoordInv, [Coord!Next]_Coord!vars
  PROVE  CoordInv'
  <1>1. CASE Coord!SaveState
    <2>1. work \in Coord!States /\ coord' = work /\ work' = None /\ UNCHANGED <<cbus, worker, now>>
      BY <1>1 DEF Coord!SaveState, CoordInv, Coord!TypeOK
    <2>2. Coord!TypeOK'
      BY <2>1 DEF CoordInv, Coord!TypeOK
    <2>3. Agree(coord)' /\ Told(coord, cbus)'
      BY <1>1, <2>1 DEF Coord!SaveState, CoordInv, Agree, Told, Coord!Active,
         Coord!Known, Coord!Registered
    <2> QED
      BY <2>1, <2>2, <2>3 DEF CoordInv
  <1>2. CASE Coord!SaveRefused \/ Coord!Crash
    <2>1. work' = None /\ UNCHANGED <<coord, cbus, worker, now>>
      BY <1>2 DEF Coord!SaveRefused, Coord!Crash
    <2> QED
      BY <2>1 DEF CoordInv, Coord!TypeOK, Agree, Told, Coord!Active,
         Coord!Known, Coord!Registered
  <1>3. ASSUME NEW w \in Workers, NEW h \in Reports, Coord!WorkerReports(w, h)
        PROVE  CoordInv'
    <2>1. Coord!TypeOK'
      BY <1>3 DEF Coord!WorkerReports, CoordInv, Coord!TypeOK,
         Coord!CoordinatorAssumption
    <2>2. UNCHANGED <<coord, work, cbus>>
      BY <1>3 DEF Coord!WorkerReports
    <2> QED
      BY <2>1, <2>2 DEF CoordInv, Agree, Told, Coord!Active, Coord!Known,
         Coord!Registered
  <1>4. CASE Coord!Tick
    <2>1. Coord!TypeOK'
      BY <1>4 DEF Coord!Tick, CoordInv, Coord!TypeOK,
         Coord!CoordinatorAssumption
    <2>2. UNCHANGED <<coord, work, cbus>>
      BY <1>4 DEF Coord!Tick
    <2> QED
      BY <2>1, <2>2 DEF CoordInv, Agree, Told, Coord!Active, Coord!Known,
         Coord!Registered
  <1>5. CASE UNCHANGED Coord!vars
    BY <1>5 DEF Coord!vars, CoordInv, Coord!TypeOK, Agree, Told, Coord!Active,
       Coord!Known, Coord!Registered
  <1> QED
    BY <1>1, <1>2, <1>3, <1>4, <1>5, RegisterKeepsInv, RefreshKeepsInv, AcquireKeepsInv,
       CompleteKeepsInv DEF Coord!Next

-----------------------------------------------------------------------------
\* One lease is added to those that have not run out, for a worker that is alive
\* and has none of them.
LEMMA AcquireEffect ==
  ASSUME Coord!CoordinatorAssumption, CoordInv, NEW m \in Missions, NEW s \in Seconds,
         Coord!AcquireLease(m, s)
  PROVE  \E w \in Workers :
            /\ worker[w].health \in {"idle", "leased"} /\ Coord!IsFresh(w)
            /\ Coord!Active(work') = (Coord!Active(coord) \ Coord!Overdue(coord)) \cup {<<w, m, now>>}
            /\ \A k \in Coord!Active(coord) \ Coord!Overdue(coord) : k[1] # w
  <1> DEFINE c == Coord!Refreshed(Coord!Recovered(coord))
  <1>1. PICK w \in Coord!Selectable(c, m) : work' = Coord!Leased(c, w, m, s)
    BY DEF Coord!AcquireLease
  <1>2. Coord!TypeOK /\ Agree(coord)
    BY DEF CoordInv
  <1>3. /\ c \in Coord!States /\ Agree(c) /\ Coord!Active(c) = Coord!Active(coord) \ Coord!Overdue(coord)
        /\ w \in Coord!Registered(c) /\ c.rec[w].lease = None /\ w \in Workers
        /\ worker[w].health \in {"idle", "leased"} /\ Coord!IsFresh(w)
    BY <1>2, SelectedState DEF Coord!Selectable, Coord!Registered
  <1> HIDE DEF c
  <1>4. Coord!Active(work') = Coord!Active(c) \cup {<<w, m, now>>}
    <2>1. /\ Coord!TypeOK /\ c \in Coord!States /\ Agree(c)
          /\ w \in Coord!Registered(c) /\ c.rec[w].lease = None
      BY <1>2, <1>3
    <2> QED
      BY <1>1, <2>1, LeasedState, Zenon
  <1>5. \A k \in Coord!Active(c) : k \in Coord!LeaseIds /\ c.rec[k[1]].lease = k
    BY <1>3 DEF Agree, Coord!Active, Coord!Known
  <1>6. \A k \in Coord!Active(c) : k[1] # w
    BY <1>3, <1>5 DEF Coord!CoordinatorAssumption
  <1> QED
    BY <1>3, <1>4, <1>6

\* A lease that appears in a result is given to a live worker whose earlier
\* leases have run out.
LEMMA GivenStep ==
  ASSUME Coord!CoordinatorAssumption, CoordInv, [Coord!Next]_Coord!vars,
         NEW w \in Workers, NEW m \in Missions, NEW l, l = <<w, m, now>>,
         work = None, work' # None, l \in Coord!Active(work'), l \notin Coord!Active(coord)
  PROVE  /\ worker[w].health \in {"idle", "leased"} /\ Coord!IsFresh(w)
         /\ {k \in Coord!Active(coord) : k[1] = w} \subseteq Coord!Overdue(coord)
  <1>1. coord \in Coord!States /\ Agree(coord) /\ Coord!TypeOK
    BY DEF CoordInv, Coord!TypeOK
  <1>2. ASSUME NEW n \in Missions, NEW s \in Seconds, Coord!AcquireLease(n, s)
        PROVE  /\ worker[w].health \in {"idle", "leased"} /\ Coord!IsFresh(w)
               /\ {k \in Coord!Active(coord) : k[1] = w} \subseteq Coord!Overdue(coord)
    <2>1. PICK v \in Workers :
             /\ worker[v].health \in {"idle", "leased"} /\ Coord!IsFresh(v)
             /\ Coord!Active(work') = (Coord!Active(coord) \ Coord!Overdue(coord)) \cup {<<v, n, now>>}
             /\ \A k \in Coord!Active(coord) \ Coord!Overdue(coord) : k[1] # v
      BY <1>2, AcquireEffect
    <2>2. l = <<v, n, now>> /\ v = w
      BY <2>1
    <2> QED
      BY <2>1, <2>2
  <1>3. ASSUME NEW v \in Workers, Coord!RegisterWorker(v)
        PROVE  Coord!Active(work') \subseteq Coord!Active(coord)
    <2>1. work'.lease = coord.lease
      BY <1>1, <1>3 DEF Coord!RegisterWorker, Coord!States
    <2> QED
      BY <2>1 DEF Coord!Active, Coord!Known
  <1>4. ASSUME Coord!RefreshWorkers \/ \E n \in Missions : Coord!NoWorkerAvailable(n)
        PROVE  Coord!Active(work') \subseteq Coord!Active(coord)
    <2>1. work' \in {Coord!Refreshed(coord), Coord!Refreshed(Coord!Recovered(coord))}
      BY <1>4 DEF Coord!RefreshWorkers, Coord!NoWorkerAvailable
    <2> QED
      BY <1>1, <2>1, RefreshedState, SelectedState
  <1>5. ASSUME NEW k \in Coord!LeaseIds, NEW o \in {"completed", "failed"}, Coord!CompleteLease(k, o)
        PROVE  Coord!Active(work') \subseteq Coord!Active(coord)
    BY <1>1, <1>5, EndedState DEF Coord!CompleteLease, Coord!Completed
  <1>6. ASSUME Coord!SaveState \/ Coord!SaveRefused \/ Coord!Crash
               \/ (\E v \in Workers, h \in Reports : Coord!WorkerReports(v, h))
               \/ Coord!Tick \/ UNCHANGED Coord!vars
        PROVE  FALSE
    BY <1>6 DEF Coord!SaveState, Coord!SaveRefused, Coord!Crash,
       Coord!WorkerReports, Coord!Tick, Coord!vars
  <1> QED
    BY <1>2, <1>3, <1>4, <1>5, <1>6 DEF Coord!Next

LEMMA AgreeOneLease ==
  ASSUME Coord!CoordinatorAssumption, CoordInv
  PROVE  Coord!OneLease
  <1>1. coord \in Coord!States /\ Agree(coord)
    BY DEF CoordInv, Coord!TypeOK
  <1> SUFFICES ASSUME NEW w \in Coord!Registered(coord)
               PROVE  {l \in Coord!Active(coord) : l[1] = w} = {coord.rec[w].lease} \ {None}
    BY DEF Coord!OneLease
  <1>2. \A l \in Coord!Active(coord) : l # None
    BY <1>1, StateFields DEF Coord!CoordinatorAssumption, Coord!Active,
       Coord!Known
  <1>3. ASSUME NEW l \in Coord!Active(coord), l[1] = w
        PROVE  l = coord.rec[w].lease
    BY <1>1, <1>3 DEF Agree
  <1>4. coord.rec[w].lease # None => /\ coord.rec[w].lease \in Coord!Active(coord)
                                     /\ coord.rec[w].lease[1] = w
    BY <1>1 DEF Agree
  <1> QED
    BY <1>2, <1>3, <1>4

-----------------------------------------------------------------------------
\* The coordinator's file and every unsaved result are well formed.
THEOREM CoordinatorTyped ==
  ASSUME Coord!CoordinatorAssumption PROVE Coord!Spec => []Coord!TypeOK
  <1>1. Coord!Init => CoordInv
    BY CoordInitInv
  <1>2. CoordInv /\ [Coord!Next]_Coord!vars => CoordInv'
    BY CoordNextInv
  <1>3. CoordInv => Coord!TypeOK
    BY DEF CoordInv
  <1> QED
    BY <1>1, <1>2, <1>3, PTL DEF Coord!Spec

\* In every file the coordinator saves, the active lease of a worker is the one
\* its record names: no worker serves two entries, and no late or repeated
\* answer frees a worker that has been leased again (acquire_worker_lease,
\* complete_worker_lease, _recover_expired_leases).
THEOREM CoordinatorOneLease ==
  ASSUME Coord!CoordinatorAssumption PROVE Coord!Spec => []OneLease
  <1>1. Coord!Init => CoordInv
    BY CoordInitInv
  <1>2. CoordInv /\ [Coord!Next]_Coord!vars => CoordInv'
    BY CoordNextInv
  <1>3. CoordInv => OneLease
    BY AgreeOneLease DEF OneLease
  <1> QED
    BY <1>1, <1>2, <1>3, PTL DEF Coord!Spec

\* What the file says of leases has been published before, whatever crashes lie
\* between an operation and its save (_publish_event).
THEOREM CoordinatorAnnounced ==
  ASSUME Coord!CoordinatorAssumption PROVE Coord!Spec => []Announced
  <1>1. Coord!Init => CoordInv
    BY CoordInitInv
  <1>2. CoordInv /\ [Coord!Next]_Coord!vars => CoordInv'
    BY CoordNextInv
  <1>3. CoordInv => Announced
    BY DEF CoordInv, Told, Announced, Coord!Announced
  <1> QED
    BY <1>1, <1>2, <1>3, PTL DEF Coord!Spec

\* A lease is only given to a worker that is alive by its own file and has no
\* lease left that still runs (select_available_worker).
THEOREM CoordinatorGivesToLive ==
  ASSUME Coord!CoordinatorAssumption PROVE Coord!Spec => GivenToLive
  <1> DEFINE Given ==
        \A w \in Workers, m \in Missions :
            LET l == <<w, m, now>> IN
            work = None /\ work' # None /\ l \in Coord!Active(work') /\ l \notin Coord!Active(coord) =>
                /\ worker[w].health \in {"idle", "leased"} /\ Coord!IsFresh(w)
                /\ {k \in Coord!Active(coord) : k[1] = w} \subseteq Coord!Overdue(coord)
  <1>1. Coord!Init => CoordInv
    BY CoordInitInv
  <1>2. CoordInv /\ [Coord!Next]_Coord!vars => CoordInv'
    BY CoordNextInv
  <1>3. CoordInv /\ [Coord!Next]_Coord!vars => [Given]_Coord!vars
    BY GivenStep
  <1>4. GivenToLive <=> [][Given]_Coord!vars
    BY DEF GivenToLive, Coord!GivenToLive
  <1> QED
    BY <1>1, <1>2, <1>3, <1>4, PTL DEF Coord!Spec

-----------------------------------------------------------------------------
\* What may become of a lease: it stays, an answer ends it while it is active,
\* or it expires when it has run out.
Fate(a, b) ==
    \/ b = a
    \/ /\ a.status = "active" /\ b.expires = a.expires
       /\ \/ b.status \in {"completed", "failed"}
          \/ b.status = "expired" /\ a.expires <= now

\* d keeps every lease of c.  Only a lease of this very second may be given out
\* again, because its id is the same.
Follows(c, d) ==
    \A l \in Coord!Known(c) : l \in Coord!Known(d) /\ (l[3] # now => Fate(c.lease[l], d.lease[l]))

FollowsInv == work # None => Follows(coord, work)

LEMMA SameFollows ==
  ASSUME NEW c, NEW d, d.lease = c.lease
  PROVE  Follows(c, d)
  BY DEF Follows, Fate, Coord!Known

LEMMA RecoveredFate ==
  ASSUME NEW c \in Coord!States, NEW l \in Coord!Known(c)
  PROVE  Fate(c.lease[l], Coord!Recovered(c).lease[l])
  <1>1. l \in Coord!LeaseIds /\ c.lease[l] \in Coord!Leases
    BY StateFields
  <1>2. Coord!Recovered(c).lease[l] = IF l \in Coord!Overdue(c)
                                      THEN [c.lease[l] EXCEPT !.status = "expired"]
                                      ELSE c.lease[l]
    BY <1>1 DEF Coord!Recovered
  <1> QED
    BY <1>1, <1>2 DEF Fate, Coord!Overdue, Coord!Active, Coord!Leases

LEMMA SelectedFollows ==
  ASSUME Coord!CoordinatorAssumption, CoordInv
  PROVE  /\ Follows(coord, Coord!Refreshed(Coord!Recovered(coord)))
         /\ \A l \in Coord!Known(coord) :
               Fate(coord.lease[l], Coord!Refreshed(Coord!Recovered(coord)).lease[l])
  <1>1. Coord!TypeOK /\ coord \in Coord!States /\ Agree(coord)
    BY DEF CoordInv, Coord!TypeOK
  <1>2. /\ Coord!Recovered(coord) \in Coord!States /\ Agree(Coord!Recovered(coord))
        /\ Coord!Known(Coord!Recovered(coord)) = Coord!Known(coord)
    BY <1>1, RecoveredState
  <1>3. /\ Coord!Refreshed(Coord!Recovered(coord)).lease = Coord!Recovered(coord).lease
        /\ Coord!Known(Coord!Refreshed(Coord!Recovered(coord))) = Coord!Known(coord)
    BY <1>1, <1>2, RefreshedState
  <1>4. \A l \in Coord!Known(coord) : Fate(coord.lease[l], Coord!Recovered(coord).lease[l])
    BY <1>1, RecoveredFate
  <1> QED
    BY <1>3, <1>4 DEF Follows

LEMMA AcquiredFollows ==
  ASSUME Coord!CoordinatorAssumption, CoordInv, NEW m \in Missions, NEW s \in Seconds,
         Coord!AcquireLease(m, s)
  PROVE  Follows(coord, work')
  <1> DEFINE c == Coord!Refreshed(Coord!Recovered(coord))
  <1>1. PICK w \in Coord!Selectable(c, m) : work' = Coord!Leased(c, w, m, s)
    BY DEF Coord!AcquireLease
  <1>2. Coord!TypeOK /\ Agree(coord)
    BY DEF CoordInv
  <1>3. /\ c \in Coord!States /\ Agree(c) /\ Coord!Known(c) = Coord!Known(coord)
        /\ w \in Coord!Registered(c) /\ c.rec[w].lease = None
    BY <1>2, SelectedState DEF Coord!Selectable
  <1>4. \A l \in Coord!Known(coord) : Fate(coord.lease[l], c.lease[l])
    BY SelectedFollows
  <1> HIDE DEF c
  <1>5. /\ Coord!Known(work') = Coord!Known(c) \cup {<<w, m, now>>}
        /\ \A l \in Coord!Known(c) : l # <<w, m, now>> => work'.lease[l] = c.lease[l]
    BY <1>1, <1>2, <1>3, LeasedState
  <1> QED
    BY <1>3, <1>4, <1>5 DEF Follows

LEMMA AnsweredFollows ==
  ASSUME Coord!CoordinatorAssumption, CoordInv, NEW l \in Coord!LeaseIds,
         NEW o \in {"completed", "failed"}, Coord!CompleteLease(l, o)
  PROVE  Follows(coord, work')
  <1>1. coord \in Coord!States /\ Agree(coord) /\ work' = Coord!Completed(coord, l, o)
    BY DEF CoordInv, Coord!TypeOK, Coord!CompleteLease
  <1>2. CASE l \notin Coord!Active(coord)
    BY <1>1, <1>2, SameFollows DEF Coord!Completed
  <1>3. CASE l \in Coord!Active(coord)
    <2>1. /\ Coord!Known(work') = Coord!Known(coord)
          /\ \A k \in Coord!Known(coord) : k # l => work'.lease[k] = coord.lease[k]
      BY <1>1, <1>3, EndedState DEF Coord!Completed
    <2>2. coord.lease[l] \in Coord!Leases /\ coord.lease[l].status = "active"
      BY <1>1, <1>3, StateFields DEF Coord!Active
    <2>3. work'.lease[l] = [coord.lease[l] EXCEPT !.status = o]
      BY <1>1, <1>3, StateFields DEF Coord!Completed, Coord!Ended
    <2>4. Fate(coord.lease[l], work'.lease[l])
      <3>1. work'.lease[l].status = o /\ work'.lease[l].expires = coord.lease[l].expires
        BY <2>2, <2>3 DEF Coord!Leases
      <3> QED
        BY <2>2, <3>1 DEF Fate
    <2> QED
      BY <2>1, <2>4 DEF Follows, Fate
  <1> QED
    BY <1>2, <1>3

\* An operation's result follows the file it was made from.
LEMMA OperationFollows ==
  ASSUME Coord!CoordinatorAssumption, CoordInv, [Coord!Next]_Coord!vars, work = None,
         work' # None
  PROVE  Follows(coord, work') /\ coord' = coord /\ now' = now
  <1>1. CASE \E w \in Workers : Coord!RegisterWorker(w)
    <2>1. PICK w \in Workers : Coord!RegisterWorker(w)
      BY <1>1
    <2>2. work'.lease = coord.lease /\ coord' = coord /\ now' = now
      BY <2>1 DEF Coord!RegisterWorker, CoordInv, Coord!TypeOK, Coord!States
    <2> QED
      BY <2>2, SameFollows
  <1>2. CASE Coord!RefreshWorkers \/ \E m \in Missions : Coord!NoWorkerAvailable(m)
    <2>1. /\ work' \in {Coord!Refreshed(coord), Coord!Refreshed(Coord!Recovered(coord))}
          /\ coord' = coord /\ now' = now
      BY <1>2 DEF Coord!RefreshWorkers, Coord!NoWorkerAvailable
    <2>2. Coord!Refreshed(coord).lease = coord.lease
      BY RefreshedState DEF CoordInv, Coord!TypeOK
    <2> QED
      BY <2>1, <2>2, SelectedFollows, SameFollows
  <1>3. CASE \E m \in Missions, s \in Seconds : Coord!AcquireLease(m, s)
    BY <1>3, AcquiredFollows DEF Coord!AcquireLease
  <1>4. CASE \E l \in Coord!LeaseIds, o \in {"completed", "failed"} : Coord!CompleteLease(l, o)
    BY <1>4, AnsweredFollows DEF Coord!CompleteLease
  <1>5. CASE \/ Coord!SaveState \/ Coord!SaveRefused \/ Coord!Crash
             \/ (\E w \in Workers, h \in Reports : Coord!WorkerReports(w, h))
             \/ Coord!Tick \/ UNCHANGED Coord!vars
    BY <1>5 DEF Coord!SaveState, Coord!SaveRefused, Coord!Crash, Coord!WorkerReports,
       Coord!Tick, Coord!vars
  <1> QED
    BY <1>1, <1>2, <1>3, <1>4, <1>5 DEF Coord!Next

\* While a result waits for its save, the file and the clock stay; the save puts
\* the result in the file.
LEMMA WaitingStep ==
  ASSUME [Coord!Next]_Coord!vars, work # None
  PROVE  /\ now' = now
         /\ coord' = coord \/ coord' = work
         /\ work' = None \/ (work' = work /\ coord' = coord)
  BY DEF Coord!Next, Coord!vars, Coord!RegisterWorker, Coord!RefreshWorkers,
     Coord!AcquireLease, Coord!NoWorkerAvailable, Coord!CompleteLease, Coord!SaveState,
     Coord!SaveRefused, Coord!Crash, Coord!WorkerReports, Coord!Tick

LEMMA FollowsNextInv ==
  ASSUME Coord!CoordinatorAssumption, CoordInv, FollowsInv, [Coord!Next]_Coord!vars
  PROVE  FollowsInv' /\ Follows(coord, coord')
  <1>1. CASE work # None
    <2>1. Follows(coord, coord')
      BY <1>1, WaitingStep, SameFollows DEF FollowsInv
    <2>2. FollowsInv'
      BY <1>1, WaitingStep DEF FollowsInv, Follows, Fate, Coord!Known
    <2> QED
      BY <2>1, <2>2
  <1>2. CASE work = None /\ work' # None
    <2>1. Follows(coord, work') /\ coord' = coord /\ now' = now
      BY <1>2, OperationFollows
    <2> QED
      BY <2>1, SameFollows DEF FollowsInv, Follows, Fate, Coord!Known
  <1>3. CASE work = None /\ work' = None
    <2>1. coord' = coord
      BY <1>3 DEF Coord!Next, Coord!vars, Coord!RegisterWorker, Coord!RefreshWorkers,
         Coord!AcquireLease, Coord!NoWorkerAvailable, Coord!CompleteLease, Coord!SaveState,
         Coord!SaveRefused, Coord!Crash, Coord!WorkerReports, Coord!Tick
    <2> QED
      BY <1>3, <2>1, SameFollows DEF FollowsInv
  <1> QED
    BY <1>1, <1>2, <1>3

\* The coordinator's file never forgets a lease and never reopens one: a lease
\* that has ended keeps its end, however often and however late it is answered,
\* an active one ends by an answer or after it has run out, and a crash before a
\* save takes nothing back.  The exception is a lease that has ended within the
\* second in which it was given: the same lease id may be given again.
THEOREM CoordinatorLeasesFinal ==
  ASSUME Coord!CoordinatorAssumption
  PROVE  Coord!Spec => [][Follows(coord, coord')]_Coord!vars
  <1>1. Coord!Init => CoordInv /\ FollowsInv
    BY CoordInitInv DEF FollowsInv, Coord!Init
  <1>2. CoordInv /\ FollowsInv /\ [Coord!Next]_Coord!vars => CoordInv' /\ FollowsInv'
    BY CoordNextInv, FollowsNextInv
  <1>3. CoordInv /\ FollowsInv /\ [Coord!Next]_Coord!vars
           => [Follows(coord, coord')]_Coord!vars
    BY FollowsNextInv
  <1> QED
    BY <1>1, <1>2, <1>3, PTL DEF Coord!Spec
=============================================================================
