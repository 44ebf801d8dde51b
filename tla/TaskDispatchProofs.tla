------------------------ MODULE TaskDispatchProofs --------------------------
(***************************************************************************)
(* Proofs about the ready queue, the worker pool and the dispatch rounds   *)
(* and requests that use them, for any keys, priorities, workers, threads, *)
(* requests and any bound on the number of entries.                        *)
(*                                                                         *)
(* The queue.  StoreInv (types, reachability, distinct sequence numbers)   *)
(* holds of all calls, upsert_task included.  RankInv adds what            *)
(* upsert_task breaks: the stored status, priority and created_at of a     *)
(* queued task are those of one of its heap entries.  QueueStep collects   *)
(* the calls with arbitrary arguments, so that one lemma serves every      *)
(* caller.                                                                 *)
(*                                                                         *)
(* The pool.  PoolInv is inductive for every mix of calls, assign          *)
(* included.  The converse of IndexSound, IndexComplete, is lost as soon   *)
(* as assign books a task twice; it is inductive together with PoolInv for *)
(* the callers that only acquire, and it is what makes the pool a          *)
(* SlotTable.                                                              *)
(*                                                                         *)
(* The dispatcher.  Whatever a thread does, the queue sees one of its own  *)
(* calls and the pool one of acquire and the two releases, so the          *)
(* invariants of the two components carry over.  SlotAccounted needs them: *)
(* a release frees the only slot of the id it names because the by-task    *)
(* index is complete.                                                      *)
(***************************************************************************)
EXTENDS TaskDispatch, SequenceTheorems, TLAPS

-----------------------------------------------------------------------------
(***************************************************************************)
(* The ready queue                                                         *)
(***************************************************************************)

StoreInv == QueueTypeOK /\ QueuedReachable /\ SequenceDistinct

RankInv == StoreInv /\ CurrentEntry /\ QueuedStatus

\* A call of the queue, whatever its arguments.
QueueStep ==
    \/ \E k \in Keys, p \in Priorities, c \in Times, o \in BOOLEAN, n \in Nat :
          Enqueue(k, "queued", p, c, n, o)
    \/ \E k \in Keys, p \in Priorities : Requeue(k, p) \/ UpdatePriority(k, p)
    \/ \E e \in heap : PopNext(e) \/ PeekNext(e)
    \/ DrainStale
    \/ \E k \in Keys :
          Cancel(k) \/ MarkFinished(k) \/ MarkFailed(k) \/ Remove(k) \/ IncrementRetry(k)

-----------------------------------------------------------------------------
(* The heap order.                                                         *)

LEMMA EntryTypes ==
  ASSUME QueueTypeOK, NEW e \in heap
  PROVE  /\ e.priority \in Int /\ e.created \in Nat /\ e.seq \in Nat
         /\ e.priority \in Priorities /\ e.created \in Times /\ e.key \in Keys
  BY OrderAssumption DEF QueueTypeOK, HeapEntries

\* The entries before the head are stale: their keys are not queued.
LEMMA PassedStale ==
  ASSUME StoreInv, NEW e \in heap, IsHead(e), NEW d \in Passed(e)
  PROVE  d.key \notin queued /\ d \in heap
  <1>1. d \in heap /\ Before(d, e)
    BY DEF Passed
  <1>2. ASSUME d \in Live PROVE FALSE
    <2>1. d = e \/ Before(e, d)
      BY <1>2 DEF IsHead
    <2> QED
      BY <1>1, <2>1, EntryTypes DEF Before, StoreInv
  <1>3. QueuedReachable
    BY DEF StoreInv
  <1> QED
    BY <1>1, <1>2, <1>3 DEF Live, QueuedReachable, Stored

-----------------------------------------------------------------------------
(* Each kind of update.                                                    *)

LEMMA PushKeepsStoreInv ==
  ASSUME StoreInv, NEW k \in Keys, NEW rec \in TaskRecords, Push(k, rec)
  PROVE  StoreInv'
  <1> USE DEF StoreInv, QueueTypeOK, Push
  <1> DEFINE e == [priority |-> rec.priority, created |-> rec.created, seq |-> seq, key |-> k]
  <1>1. e \in HeapEntries
    BY DEF TaskRecords, HeapEntries
  <1>2. QueueTypeOK'
    BY <1>1
  <1>3. QueuedReachable'
    <2> SUFFICES ASSUME NEW j \in queued'
                 PROVE  tasks'[j] # NoTask /\ j \in Keys /\ \E d \in heap' : d.key = j
      BY DEF QueuedReachable, Stored
    <2>1. CASE j = k
      <3>1. e \in heap' /\ e.key = k
        OBVIOUS
      <3> QED
        BY <2>1, <3>1, NoTaskAssumption
    <2>2. CASE j # k
      BY <2>2 DEF QueuedReachable, Stored
    <2> QED
      BY <2>1, <2>2
  <1>4. SequenceDistinct'
    <2>1. \A d \in heap : d.seq \in Nat /\ d.seq < seq
      BY EntryTypes DEF SequenceDistinct
    <2> QED
      BY <2>1 DEF SequenceDistinct
  <1> QED
    BY <1>2, <1>3, <1>4

\* The calls that push nothing drop entries of keys they do not leave queued.
LEMMA ShrinkKeepsStoreInv ==
  ASSUME StoreInv, NEW D, heap' = heap \ D, UNCHANGED seq,
         queued' \subseteq queued, \A k \in queued' : \A d \in D : d.key # k,
         tasks' \in [Keys -> TaskRecords \cup {NoTask}],
         \A k \in queued' : tasks'[k] # NoTask
  PROVE  StoreInv'
  BY DEF StoreInv, QueueTypeOK, QueuedReachable, SequenceDistinct, Stored

LEMMA PushKeepsRankInv ==
  ASSUME RankInv, NEW k \in Keys, NEW rec \in TaskRecords,
         rec.status = "queued", Push(k, rec)
  PROVE  RankInv'
  <1>1. StoreInv'
    BY PushKeepsStoreInv DEF RankInv
  <1> USE DEF RankInv, StoreInv, QueueTypeOK, Push
  <1> DEFINE e == [priority |-> rec.priority, created |-> rec.created, seq |-> seq, key |-> k]
  <1>2. CurrentEntry'
    <2> SUFFICES ASSUME NEW j \in queued'
                 PROVE  \E d \in heap' : /\ d.key = j
                                        /\ d.priority = tasks'[j].priority
                                        /\ d.created = tasks'[j].created
      BY DEF CurrentEntry
    <2>1. CASE j = k
      <3>1. e \in heap' /\ e.key = k /\ e.priority = rec.priority /\ e.created = rec.created
        OBVIOUS
      <3>2. tasks'[j] = rec
        BY <2>1
      <3> QED
        BY <2>1, <3>1, <3>2
    <2>2. CASE j # k
      <3>1. j \in queued /\ tasks'[j] = tasks[j]
        BY <2>2
      <3> QED
        BY <3>1 DEF CurrentEntry
    <2> QED
      BY <2>1, <2>2
  <1>3. QueuedStatus'
    BY NoTaskAssumption DEF QueuedStatus, Stored
  <1> QED
    BY <1>1, <1>2, <1>3

\* A queued task that stays queued keeps its record; one that leaves, or was
\* not there, does not claim to be queued.
LEMMA ShrinkKeepsRankInv ==
  ASSUME RankInv, StoreInv', NEW D, heap' = heap \ D,
         queued' \subseteq queued, \A k \in queued' : \A d \in D : d.key # k,
         \A k \in queued' : /\ tasks'[k].status = tasks[k].status
                           /\ tasks'[k].priority = tasks[k].priority
                           /\ tasks'[k].created = tasks[k].created,
         \A k \in Keys \ queued' : tasks'[k] = NoTask \/ tasks'[k].status # "queued"
  PROVE  RankInv'
  <1>1. CurrentEntry'
    BY DEF RankInv, CurrentEntry
  <1>2. QueuedStatus'
    BY DEF RankInv, StoreInv, QueueTypeOK, QueuedStatus, QueuedReachable, Stored
  <1> QED
    BY <1>1, <1>2 DEF RankInv

-----------------------------------------------------------------------------
(* Records.                                                                *)

\* Changing one field of a stored task gives a record with the others kept.
LEMMA StatusUpdate ==
  ASSUME NEW r \in TaskRecords, NEW st \in Statuses
  PROVE  [r EXCEPT !.status = st] \in TaskRecords /\ [r EXCEPT !.status = st].status = st
  <1>1. [r EXCEPT !.status = st] \in TaskRecords
    BY DEF TaskRecords
  <1>2. [r EXCEPT !.status = st].status = st
    BY DEF TaskRecords
  <1> QED
    BY <1>1, <1>2

LEMMA PriorityUpdate ==
  ASSUME NEW r \in TaskRecords, NEW p \in Priorities
  PROVE  /\ [r EXCEPT !.priority = p] \in TaskRecords
         /\ [r EXCEPT !.priority = p].status = r.status
  <1>1. [r EXCEPT !.priority = p] \in TaskRecords
    BY DEF TaskRecords
  <1>2. [r EXCEPT !.priority = p].status = r.status
    BY DEF TaskRecords
  <1> QED
    BY <1>1, <1>2

LEMMA RequeueUpdate ==
  ASSUME NEW r \in TaskRecords, NEW p \in Priorities
  PROVE  /\ [r EXCEPT !.status = "queued", !.priority = p] \in TaskRecords
         /\ [r EXCEPT !.status = "queued", !.priority = p].status = "queued"
  <1>1. [r EXCEPT !.status = "queued", !.priority = p] \in TaskRecords
    BY DEF TaskRecords, Statuses
  <1>2. [r EXCEPT !.status = "queued", !.priority = p].status = "queued"
    BY DEF TaskRecords
  <1> QED
    BY <1>1, <1>2

LEMMA RetryUpdate ==
  ASSUME NEW r \in TaskRecords
  PROVE  /\ [r EXCEPT !.retries = @ + 1] \in TaskRecords
         /\ [r EXCEPT !.retries = @ + 1].status = r.status
         /\ [r EXCEPT !.retries = @ + 1].priority = r.priority
         /\ [r EXCEPT !.retries = @ + 1].created = r.created
  <1>1. [r EXCEPT !.retries = @ + 1] \in TaskRecords
    BY DEF TaskRecords
  <1>2. [r EXCEPT !.retries = @ + 1].status = r.status
    BY DEF TaskRecords
  <1>3. [r EXCEPT !.retries = @ + 1].priority = r.priority
    BY DEF TaskRecords
  <1>4. [r EXCEPT !.retries = @ + 1].created = r.created
    BY DEF TaskRecords
  <1> QED
    BY <1>1, <1>2, <1>3, <1>4

LEMMA StoredTyped ==
  ASSUME QueueTypeOK, NEW k \in Stored
  PROVE  k \in Keys /\ tasks[k] \in TaskRecords
  BY DEF QueueTypeOK, Stored

-----------------------------------------------------------------------------
(* Each call.                                                              *)

LEMMA EnqueueKeeps ==
  ASSUME RankInv, NEW k \in Keys, NEW p \in Priorities, NEW c \in Times,
         NEW n \in Nat, NEW o, Enqueue(k, "queued", p, c, n, o)
  PROVE  RankInv'
  <1> DEFINE rec == [status |-> "queued", priority |-> p, created |-> c, retries |-> n]
  <1>1. rec \in TaskRecords /\ rec.status = "queued"
    BY DEF TaskRecords, Statuses
  <1>2. Push(k, rec)
    BY DEF Enqueue
  <1> QED
    BY <1>1, <1>2, PushKeepsRankInv

LEMMA RequeueKeeps ==
  ASSUME RankInv, NEW k, NEW p \in Priorities, Requeue(k, p)
  PROVE  RankInv'
  <1>1. k \in Keys /\ tasks[k] \in TaskRecords
    BY StoredTyped DEF Requeue, CanRequeue, RankInv, StoreInv
  <1> QED
    BY <1>1, RequeueUpdate, PushKeepsRankInv DEF Requeue

LEMMA PopKeeps ==
  ASSUME RankInv, NEW e \in heap, PopNext(e)
  PROVE  RankInv'
  <1>1. e.key \in Stored /\ e.key \in queued /\ IsHead(e)
    BY EntryTypes DEF PopNext, IsHead, Live, Stored, RankInv, StoreInv
  <1>2. e.key \in Keys /\ tasks[e.key] \in TaskRecords
    BY <1>1, StoredTyped DEF RankInv, StoreInv
  <1> DEFINE r == [tasks[e.key] EXCEPT !.status = "running"]
  <1>3. r \in TaskRecords /\ r.status = "running"
    BY <1>2, StatusUpdate DEF Statuses
  <1>4. tasks' = [tasks EXCEPT ![e.key] = r]
    BY DEF PopNext
  <1> DEFINE D == Passed(e) \cup {e}
  <1>5. heap' = heap \ D /\ UNCHANGED seq
    BY DEF PopNext
  <1>6. /\ queued' \subseteq queued /\ e.key \notin queued'
        /\ \A k \in queued' : \A d \in D : d.key # k
    BY DEF PopNext
  <1>7. queued' = queued \ {e.key}
    BY <1>1, PassedStale DEF PopNext, RankInv
  <1> HIDE DEF r, D
  <1>8. tasks' \in [Keys -> TaskRecords \cup {NoTask}]
    BY <1>2, <1>3, <1>4 DEF RankInv, StoreInv, QueueTypeOK
  <1>9. \A k \in Keys : k # e.key => tasks'[k] = tasks[k]
    BY <1>2, <1>4 DEF RankInv, StoreInv, QueueTypeOK
  <1>10. tasks'[e.key] = r
    BY <1>2, <1>4 DEF RankInv, StoreInv, QueueTypeOK
  <1>11. \A k \in queued' : k \in Keys /\ k # e.key /\ tasks[k] # NoTask
    BY <1>6 DEF RankInv, StoreInv, QueuedReachable, Stored
  <1>12. StoreInv'
    BY <1>5, <1>6, <1>8, <1>9, <1>11, ShrinkKeepsStoreInv DEF RankInv
  <1>13. \A k \in Keys \ queued' : tasks'[k] = NoTask \/ tasks'[k].status # "queued"
    BY <1>3, <1>7, <1>9, <1>10 DEF RankInv, QueuedStatus, Stored
  <1> QED
    BY <1>5, <1>6, <1>9, <1>11, <1>12, <1>13, ShrinkKeepsRankInv

LEMMA PeekKeeps ==
  ASSUME RankInv, NEW e \in heap, PeekNext(e)
  PROVE  RankInv'
  <1> DEFINE D == Passed(e)
  <1>1. heap' = heap \ D /\ UNCHANGED <<seq, tasks>>
    BY DEF PeekNext
  <1>2. queued' = queued /\ \A k \in queued' : \A d \in D : d.key # k
    BY PassedStale DEF PeekNext, RankInv
  <1> HIDE DEF D
  <1>3. StoreInv'
    BY <1>1, <1>2, ShrinkKeepsStoreInv DEF RankInv, StoreInv, QueueTypeOK, QueuedReachable,
       Stored
  <1> QED
    BY <1>1, <1>2, <1>3, ShrinkKeepsRankInv DEF RankInv, QueuedStatus, Stored

LEMMA DrainKeeps ==
  ASSUME RankInv, DrainStale
  PROVE  RankInv'
  <1>1. queued = {}
    BY DEF DrainStale, Live, RankInv, StoreInv, QueuedReachable, Stored
  <1>2. heap' = heap \ heap /\ queued' = {} /\ UNCHANGED <<seq, tasks>>
    BY <1>1 DEF DrainStale
  <1>3. StoreInv'
    BY <1>2, ShrinkKeepsStoreInv DEF RankInv, StoreInv, QueueTypeOK
  <1> QED
    BY <1>1, <1>2, <1>3, ShrinkKeepsRankInv DEF RankInv, QueuedStatus, Stored

\* The calls that replace the record of one stored task and push nothing:
\* they either leave it unqueued with a status other than "queued", or keep
\* the status, priority and created_at of a task that stays queued.
LEMMA ReplaceKeeps ==
  ASSUME RankInv, NEW k \in Stored, NEW r \in TaskRecords \cup {NoTask},
         tasks' = [tasks EXCEPT ![k] = r], UNCHANGED <<heap, seq>>,
         \/ queued' = queued \ {k} /\ (r = NoTask \/ r.status # "queued")
         \/ /\ queued' = queued /\ r # NoTask /\ r.status = tasks[k].status
            /\ k \in queued => r.priority = tasks[k].priority /\ r.created = tasks[k].created
  PROVE  RankInv'
  <1>0. StoreInv /\ QueueTypeOK /\ QueuedReachable /\ QueuedStatus
    BY DEF RankInv, StoreInv
  <1>1. k \in Keys
    BY <1>0, StoredTyped
  <1>2. tasks' \in [Keys -> TaskRecords \cup {NoTask}]
    BY <1>0, <1>1 DEF QueueTypeOK
  <1>3. tasks'[k] = r /\ \A j \in Keys : j # k => tasks'[j] = tasks[j]
    BY <1>0, <1>1 DEF QueueTypeOK
  <1> DEFINE D == {}
  <1>4. /\ queued' \subseteq queued /\ heap' = heap \ D
        /\ \A j \in queued' : \A d \in D : d.key # j
    OBVIOUS
  <1> HIDE DEF D
  <1>5. \A j \in queued : j \in Keys /\ tasks[j] # NoTask
    BY <1>0 DEF QueuedReachable, Stored
  <1>6. k \in queued' => /\ r # NoTask /\ r.status = tasks[k].status
                         /\ r.priority = tasks[k].priority
                         /\ r.created = tasks[k].created
    <2>1. CASE queued' = queued \ {k}
      BY <2>1
    <2>2. CASE queued' = queued /\ r # NoTask /\ r.status = tasks[k].status
      BY <2>2
    <2> QED
      BY <2>1, <2>2
  <1>7. StoreInv'
    <2>1. \A j \in queued' : tasks'[j] # NoTask
      BY <1>3, <1>4, <1>5, <1>6
    <2> QED
      BY <1>0, <1>2, <1>4, <2>1, ShrinkKeepsStoreInv
  <1>8. \A j \in queued' : /\ tasks'[j].status = tasks[j].status
                          /\ tasks'[j].priority = tasks[j].priority
                          /\ tasks'[j].created = tasks[j].created
    <2> SUFFICES ASSUME NEW j \in queued'
                 PROVE  /\ tasks'[j].status = tasks[j].status
                        /\ tasks'[j].priority = tasks[j].priority
                        /\ tasks'[j].created = tasks[j].created
      OBVIOUS
    <2>1. CASE j = k
      BY <1>3, <1>6, <2>1
    <2>2. CASE j # k
      <3>1. tasks'[j] = tasks[j]
        BY <1>3, <1>4, <1>5, <2>2
      <3> QED
        BY <3>1
    <2> QED
      BY <2>1, <2>2
  <1>9. \A j \in Keys \ queued' : tasks'[j] = NoTask \/ tasks'[j].status # "queued"
    <2> SUFFICES ASSUME NEW j \in Keys \ queued'
                 PROVE  tasks'[j] = NoTask \/ tasks'[j].status # "queued"
      OBVIOUS
    <2>1. CASE j = k
      <3>1. k \notin queued => tasks[k].status # "queued"
        BY <1>0, <1>1 DEF QueuedStatus
      <3> QED
        BY <1>3, <2>1, <3>1
    <2>2. CASE j # k
      <3>1. j \notin queued /\ tasks'[j] = tasks[j]
        BY <1>3, <2>2
      <3> QED
        BY <1>0, <3>1 DEF QueuedStatus, Stored
    <2> QED
      BY <2>1, <2>2
  <1> QED
    BY <1>4, <1>7, <1>8, <1>9, ShrinkKeepsRankInv

LEMMA UnmarkKeeps ==
  ASSUME RankInv, NEW k, NEW st \in Statuses \ {"queued"}, Unmark(k, st)
  PROVE  RankInv'
  <1>1. k \in Stored /\ tasks[k] \in TaskRecords
    BY StoredTyped DEF Unmark, RankInv, StoreInv
  <1> DEFINE r == [tasks[k] EXCEPT !.status = st]
  <1>2. r \in TaskRecords /\ r.status = st
    BY <1>1, StatusUpdate
  <1>3. tasks' = [tasks EXCEPT ![k] = r]
    BY DEF Unmark
  <1> HIDE DEF r
  <1> QED
    BY <1>1, <1>2, <1>3, ReplaceKeeps DEF Unmark

LEMMA RemoveKeeps ==
  ASSUME RankInv, NEW k, Remove(k)
  PROVE  RankInv'
  BY ReplaceKeeps DEF Remove

LEMMA IncrementKeeps ==
  ASSUME RankInv, NEW k, IncrementRetry(k)
  PROVE  RankInv'
  <1>1. k \in Stored /\ tasks[k] \in TaskRecords
    BY StoredTyped DEF IncrementRetry, RankInv, StoreInv
  <1> DEFINE r == [tasks[k] EXCEPT !.retries = @ + 1]
  <1>2. /\ r \in TaskRecords /\ r.status = tasks[k].status
        /\ r.priority = tasks[k].priority /\ r.created = tasks[k].created
    BY <1>1, RetryUpdate
  <1>3. tasks' = [tasks EXCEPT ![k] = r]
    BY DEF IncrementRetry
  <1> HIDE DEF r
  <1> QED
    BY <1>1, <1>2, <1>3, ReplaceKeeps, NoTaskAssumption DEF IncrementRetry

LEMMA UpdatePriorityKeeps ==
  ASSUME RankInv, NEW k, NEW p \in Priorities, UpdatePriority(k, p)
  PROVE  RankInv'
  <1>1. k \in Stored /\ k \in Keys /\ tasks[k] \in TaskRecords
    BY StoredTyped DEF UpdatePriority, RankInv, StoreInv
  <1> DEFINE r == [tasks[k] EXCEPT !.priority = p]
  <1>2. r \in TaskRecords /\ r.status = tasks[k].status
    BY <1>1, PriorityUpdate
  <1>3. CASE k \in queued
    <2>1. Push(k, r)
      BY <1>3 DEF UpdatePriority
    <2>2. r.status = "queued"
      BY <1>1, <1>2, <1>3 DEF RankInv, QueuedStatus
    <2> QED
      BY <1>1, <1>2, <2>1, <2>2, PushKeepsRankInv
  <1>4. CASE k \notin queued
    <2>1. tasks' = [tasks EXCEPT ![k] = r] /\ UNCHANGED <<heap, queued, seq>>
      BY <1>4 DEF UpdatePriority
    <2> HIDE DEF r
    <2> QED
      BY <1>1, <1>2, <1>4, <2>1, ReplaceKeeps, NoTaskAssumption
  <1> QED
    BY <1>3, <1>4

\* Every call of the queue keeps the ranking invariant.
LEMMA QueueStepInv == RankInv /\ [QueueStep]_queueVars => RankInv'
  <1> SUFFICES ASSUME RankInv, [QueueStep]_queueVars
               PROVE  RankInv'
    OBVIOUS
  <1>1. ASSUME NEW k \in Keys, NEW p \in Priorities, NEW c \in Times,
               NEW o \in BOOLEAN, NEW n \in Nat, Enqueue(k, "queued", p, c, n, o)
        PROVE  RankInv'
    BY <1>1, EnqueueKeeps
  <1>2. ASSUME NEW k \in Keys, NEW p \in Priorities, Requeue(k, p) \/ UpdatePriority(k, p)
        PROVE  RankInv'
    BY <1>2, RequeueKeeps, UpdatePriorityKeeps
  <1>3. ASSUME NEW e \in heap, PopNext(e) \/ PeekNext(e)
        PROVE  RankInv'
    BY <1>3, PopKeeps, PeekKeeps
  <1>4. CASE DrainStale
    BY <1>4, DrainKeeps
  <1>5. ASSUME NEW k \in Keys,
               Cancel(k) \/ MarkFinished(k) \/ MarkFailed(k) \/ Remove(k) \/ IncrementRetry(k)
        PROVE  RankInv'
    BY <1>5, UnmarkKeeps, RemoveKeeps, IncrementKeeps
       DEF Cancel, MarkFinished, MarkFailed, Statuses
  <1>6. CASE UNCHANGED queueVars
    BY <1>6 DEF queueVars, RankInv, StoreInv, QueueTypeOK, QueuedReachable,
       SequenceDistinct, CurrentEntry, QueuedStatus, Stored
  <1> QED
    BY <1>1, <1>2, <1>3, <1>4, <1>5, <1>6 DEF QueueStep

LEMMA QueueInitInv == QueueInit => RankInv
  BY DEF QueueInit, RankInv, StoreInv, QueueTypeOK, QueuedReachable,
     SequenceDistinct, CurrentEntry, QueuedStatus, Stored

LEMMA QueueNextIsStep == QueueNext => QueueStep
  <1>1. Addressable \subseteq Keys
    BY DEF Addressable, Stored
  <1> QED
    BY <1>1, KeyAssumption DEF QueueNext, PushCalls, DeliveryCalls, TaskCalls, QueueStep

-----------------------------------------------------------------------------
(* What the invariant gives.                                               *)

\* A queue whose every queued task has an entry with its current rank hands
\* out the first of the current ranks, or a stale higher one.
LEMMA RankInvHead == RankInv => HeadRanksFirst
  <1> SUFFICES ASSUME RankInv, NEW e \in heap, IsHead(e), NEW k \in queued
               PROVE  \/ e.priority > tasks[k].priority
                      \/ e.priority = tasks[k].priority /\ e.created <= tasks[k].created
    BY DEF HeadRanksFirst
  <1>1. PICK d \in heap : /\ d.key = k /\ d.priority = tasks[k].priority
                          /\ d.created = tasks[k].created
    BY DEF RankInv, CurrentEntry
  <1>2. d \in Live
    BY <1>1 DEF Live, RankInv, StoreInv, QueuedReachable, Stored
  <1>3. d = e \/ Before(e, d)
    BY <1>2 DEF IsHead
  <1> QED
    BY <1>1, <1>3, EntryTypes DEF Before, RankInv, StoreInv

\* For any keys, priorities and number of calls: the queue keeps its types,
\* and no queued task is ever out of pop_next's reach.
THEOREM QueueReachable ==
  QueueSpec => [](QueueTypeOK /\ QueuedReachable /\ SequenceDistinct)
  <1>1. QueueInit => RankInv
    BY QueueInitInv
  <1>2. RankInv /\ [QueueNext]_queueVars => RankInv'
    BY QueueStepInv, QueueNextIsStep
  <1>3. RankInv => QueueTypeOK /\ QueuedReachable /\ SequenceDistinct
    BY DEF RankInv, StoreInv
  <1> QED
    BY <1>1, <1>2, <1>3, PTL DEF QueueSpec

\* pop_next honours the current rank of every queued task: what it takes
\* ranks at least as high as each of them.
THEOREM QueueOrder == QueueSpec => [](HeadRanksFirst /\ CurrentEntry /\ QueuedStatus)
  <1>1. QueueInit => RankInv
    BY QueueInitInv
  <1>2. RankInv /\ [QueueNext]_queueVars => RankInv'
    BY QueueStepInv, QueueNextIsStep
  <1>3. RankInv => HeadRanksFirst /\ CurrentEntry /\ QueuedStatus
    BY RankInvHead DEF RankInv
  <1> QED
    BY <1>1, <1>2, <1>3, PTL DEF QueueSpec

\* The stored status is the truth about the queue after any number of calls:
\* cancel, mark_finished, mark_failed and pop_next leave no task that says
\* "queued" and is not, or the other way round.
THEOREM StatusTrue == QueueSpec => []QueuedStatus
  BY QueueOrder, PTL

-----------------------------------------------------------------------------
(* With upsert_task.                                                       *)

\* One record is replaced, nothing is pushed, and a key that stays queued stays
\* stored.
LEMMA ReplaceKeepsStore ==
  ASSUME StoreInv, NEW k \in Keys, NEW r \in TaskRecords \cup {NoTask},
         tasks' = [tasks EXCEPT ![k] = r], UNCHANGED <<heap, seq>>,
         queued' \subseteq queued, k \in queued' => r # NoTask
  PROVE  StoreInv'
  <1>1. /\ tasks' \in [Keys -> TaskRecords \cup {NoTask}] /\ tasks'[k] = r
        /\ \A j \in Keys : j # k => tasks'[j] = tasks[j]
    BY DEF StoreInv, QueueTypeOK
  <1>2. \A j \in queued' : tasks'[j] # NoTask
    BY <1>1 DEF StoreInv, QueuedReachable, Stored
  <1> DEFINE D == {}
  <1>3. heap' = heap \ D /\ \A j \in queued' : \A d \in D : d.key # j
    OBVIOUS
  <1> HIDE DEF D
  <1> QED
    BY <1>1, <1>2, <1>3, ShrinkKeepsStoreInv

\* Every call of the queue, upsert_task included, keeps types, reachability and
\* distinct sequence numbers.
LEMMA ApiStepStore ==
  ASSUME StoreInv, [QueueStep \/ UpsertCall]_queueVars
  PROVE  StoreInv'
  <1>0. QueueTypeOK
    BY DEF StoreInv
  <1>1. ASSUME NEW k \in Keys, NEW p \in Priorities, NEW c \in Times,
               NEW o \in BOOLEAN, NEW n \in Nat, Enqueue(k, "queued", p, c, n, o)
        PROVE  StoreInv'
    <2>1. [status |-> "queued", priority |-> p, created |-> c, retries |-> n] \in TaskRecords
      BY DEF TaskRecords, Statuses
    <2> QED
      BY <1>1, <2>1, PushKeepsStoreInv DEF Enqueue
  <1>2. ASSUME NEW k \in Keys, NEW p \in Priorities, Requeue(k, p)
        PROVE  StoreInv'
    <2>1. tasks[k] \in TaskRecords
      BY <1>0, <1>2, StoredTyped DEF Requeue, CanRequeue
    <2> QED
      BY <1>2, <2>1, RequeueUpdate, PushKeepsStoreInv DEF Requeue
  <1>3. ASSUME NEW k \in Keys, NEW p \in Priorities, UpdatePriority(k, p)
        PROVE  StoreInv'
    <2>1. tasks[k] \in TaskRecords
      BY <1>0, <1>3, StoredTyped DEF UpdatePriority
    <2> DEFINE r == [tasks[k] EXCEPT !.priority = p]
    <2>2. r \in TaskRecords /\ r # NoTask
      BY <2>1, PriorityUpdate, NoTaskAssumption
    <2>3. \/ Push(k, r)
          \/ tasks' = [tasks EXCEPT ![k] = r] /\ UNCHANGED <<heap, queued, seq>>
      BY <1>3 DEF UpdatePriority
    <2> HIDE DEF r
    <2> QED
      BY <2>2, <2>3, PushKeepsStoreInv, ReplaceKeepsStore
  <1>4. ASSUME NEW e \in heap, PopNext(e)
        PROVE  StoreInv'
    <2>1. e.key \in Keys /\ tasks[e.key] \in TaskRecords
      BY <1>0, <1>4, EntryTypes, StoredTyped DEF PopNext, IsHead, Live, Stored
    <2> DEFINE r == [tasks[e.key] EXCEPT !.status = "running"]
               D == Passed(e) \cup {e}
    <2>2. r \in TaskRecords /\ r # NoTask
      BY <2>1, StatusUpdate, NoTaskAssumption DEF Statuses
    <2>3. /\ tasks' = [tasks EXCEPT ![e.key] = r]
          /\ heap' = heap \ D /\ UNCHANGED seq
          /\ queued' \subseteq queued /\ \A k \in queued' : \A d \in D : d.key # k
      BY <1>4 DEF PopNext
    <2> HIDE DEF r, D
    <2>4. /\ tasks' \in [Keys -> TaskRecords \cup {NoTask}]
          /\ \A k \in queued' : tasks'[k] # NoTask
      BY <2>1, <2>2, <2>3 DEF StoreInv, QueueTypeOK, QueuedReachable, Stored
    <2> QED
      BY <2>3, <2>4, ShrinkKeepsStoreInv
  <1>5. ASSUME NEW e \in heap, PeekNext(e)
        PROVE  StoreInv'
    <2> DEFINE D == Passed(e)
    <2>1. /\ heap' = heap \ D /\ UNCHANGED <<seq, tasks>>
          /\ queued' \subseteq queued /\ \A k \in queued' : \A d \in D : d.key # k
      BY <1>5 DEF PeekNext
    <2> HIDE DEF D
    <2> QED
      BY <2>1, ShrinkKeepsStoreInv DEF StoreInv, QueueTypeOK, QueuedReachable, Stored
  <1>6. CASE DrainStale
    <2>1. queued = {}
      BY <1>6 DEF DrainStale, Live, StoreInv, QueuedReachable, Stored
    <2>2. heap' = heap \ heap /\ queued' = {} /\ UNCHANGED <<seq, tasks>>
      BY <1>6, <2>1 DEF DrainStale
    <2> QED
      BY <2>2, ShrinkKeepsStoreInv DEF StoreInv, QueueTypeOK
  <1>7. ASSUME NEW k \in Keys, NEW st \in Statuses, Unmark(k, st)
        PROVE  StoreInv'
    <2>1. tasks[k] \in TaskRecords
      BY <1>0, <1>7, StoredTyped DEF Unmark
    <2> DEFINE r == [tasks[k] EXCEPT !.status = st]
    <2>2. r \in TaskRecords
      BY <2>1, StatusUpdate
    <2>3. /\ tasks' = [tasks EXCEPT ![k] = r] /\ UNCHANGED <<heap, seq>>
          /\ queued' = queued \ {k}
      BY <1>7 DEF Unmark
    <2> HIDE DEF r
    <2> QED
      BY <2>2, <2>3, ReplaceKeepsStore
  <1>8. ASSUME NEW k \in Keys, Remove(k)
        PROVE  StoreInv'
    BY <1>8, ReplaceKeepsStore DEF Remove
  <1>9. ASSUME NEW k \in Keys, IncrementRetry(k)
        PROVE  StoreInv'
    <2>1. tasks[k] \in TaskRecords
      BY <1>0, <1>9, StoredTyped DEF IncrementRetry
    <2> DEFINE r == [tasks[k] EXCEPT !.retries = @ + 1]
    <2>2. r \in TaskRecords /\ r # NoTask
      BY <2>1, RetryUpdate, NoTaskAssumption
    <2>3. tasks' = [tasks EXCEPT ![k] = r] /\ UNCHANGED <<heap, queued, seq>>
      BY <1>9 DEF IncrementRetry
    <2> HIDE DEF r
    <2> QED
      BY <2>2, <2>3, ReplaceKeepsStore
  <1>10. ASSUME NEW k \in Keys, NEW p \in Priorities, NEW c \in Times,
                NEW st \in {"queued", "blocked"}, Upsert(k, st, p, c, 0)
         PROVE  StoreInv'
    <2> DEFINE r == [status |-> st, priority |-> p, retries |-> 0,
                     created |-> IF k \in Stored THEN tasks[k].created ELSE c]
    <2>1. k \in Stored => tasks[k].created \in Times
      BY <1>0, StoredTyped DEF TaskRecords
    <2>2. r \in TaskRecords /\ r # NoTask
      BY <2>1, NoTaskAssumption DEF TaskRecords, Statuses
    <2>3. tasks' = [tasks EXCEPT ![k] = r] /\ UNCHANGED <<heap, queued, seq>>
      BY <1>10 DEF Upsert
    <2> HIDE DEF r
    <2> QED
      BY <2>2, <2>3, ReplaceKeepsStore
  <1>11. CASE UNCHANGED queueVars
    BY <1>11 DEF queueVars, StoreInv, QueueTypeOK, QueuedReachable, SequenceDistinct, Stored
  <1>12. CASE UpsertCall
    BY <1>10, <1>12 DEF UpsertCall
  <1>13. CASE QueueStep
    BY <1>1, <1>2, <1>3, <1>4, <1>5, <1>6, <1>7, <1>8, <1>9, <1>13
       DEF QueueStep, Cancel, MarkFinished, MarkFailed, Statuses
  <1> QED
    BY <1>11, <1>12, <1>13

\* Whatever calls the queue gets, upsert_task included, which changes a stored
\* task behind the heap's back, no queued task is out of pop_next's reach.
THEOREM ApiReachable == QueueInit /\ [][ApiNext]_queueVars => []QueuedReachable
  <1>1. QueueInit => StoreInv
    BY QueueInitInv DEF RankInv
  <1>2. StoreInv /\ [ApiNext]_queueVars => StoreInv'
    BY ApiStepStore, QueueNextIsStep DEF ApiNext
  <1>3. StoreInv => QueuedReachable
    BY DEF StoreInv
  <1> QED
    BY <1>1, <1>2, <1>3, PTL

-----------------------------------------------------------------------------
(* Work identities.                                                        *)

\* Only enqueue stores a key that was not stored, and it has looked for the
\* work identity among all the stored tasks, whatever their status.
LEMMA WorkStep ==
  ASSUME QueueTypeOK, OneTaskPerWork, QueueStep
  PROVE  OneTaskPerWork'
  <1>1. ASSUME NEW k \in Keys, NEW p \in Priorities, NEW c \in Times,
               NEW o \in BOOLEAN, NEW n \in Nat, Enqueue(k, "queued", p, c, n, o)
        PROVE  OneTaskPerWork'
    <2>1. ~SemanticDuplicate(k)
      BY <1>1 DEF Enqueue, CanEnqueue
    <2>2. \A j \in Stored' : j = k \/ j \in Stored
      BY <1>1 DEF Enqueue, Push, QueueTypeOK, Stored
    <2> QED
      BY <2>1, <2>2 DEF SemanticDuplicate, OneTaskPerWork
  <1>2. CASE ~ \E k \in Keys, p \in Priorities, c \in Times, o \in BOOLEAN, n \in Nat :
                 Enqueue(k, "queued", p, c, n, o)
    <2>1. Stored' \subseteq Stored
      <3> USE DEF QueueTypeOK, Stored
      <3>1. ASSUME NEW k \in Keys, NEW p \in Priorities, Requeue(k, p) \/ UpdatePriority(k, p)
            PROVE  Stored' \subseteq Stored
        BY <3>1 DEF Requeue, CanRequeue, UpdatePriority, Push
      <3>2. ASSUME NEW e \in heap, PopNext(e) \/ PeekNext(e)
            PROVE  Stored' \subseteq Stored
        BY <3>2 DEF PopNext, PeekNext, IsHead, Live
      <3>3. ASSUME NEW k \in Keys,
                   \/ Cancel(k) \/ MarkFinished(k) \/ MarkFailed(k)
                   \/ Remove(k) \/ IncrementRetry(k)
            PROVE  Stored' \subseteq Stored
        BY <3>3 DEF Cancel, MarkFinished, MarkFailed, Unmark, Remove, IncrementRetry
      <3>4. CASE DrainStale
        BY <3>4 DEF DrainStale
      <3> QED
        BY <1>2, <3>1, <3>2, <3>3, <3>4 DEF QueueStep
    <2> QED
      BY <2>1 DEF OneTaskPerWork
  <1> QED
    BY <1>1, <1>2

\* enqueue never admits the same work twice: two stored tasks, queued,
\* running or ended, never share a canonical work identity.
THEOREM WorkAdmittedOnce == QueueSpec => []OneTaskPerWork
  <1>1. QueueInit => RankInv /\ OneTaskPerWork
    BY QueueInitInv DEF QueueInit, OneTaskPerWork, Stored
  <1>2. RankInv /\ OneTaskPerWork /\ [QueueNext]_queueVars => (RankInv /\ OneTaskPerWork)'
    <2> SUFFICES ASSUME RankInv, OneTaskPerWork, [QueueNext]_queueVars
                 PROVE  (RankInv /\ OneTaskPerWork)'
      OBVIOUS
    <2>1. RankInv'
      BY QueueStepInv, QueueNextIsStep
    <2>2. CASE QueueNext
      BY <2>1, <2>2, WorkStep, QueueNextIsStep DEF RankInv, StoreInv
    <2>3. CASE UNCHANGED queueVars
      BY <2>1, <2>3 DEF queueVars, OneTaskPerWork, Stored
    <2> QED
      BY <2>2, <2>3
  <1> QED
    BY <1>1, <1>2, PTL DEF QueueSpec

-----------------------------------------------------------------------------
(* Key resolution.                                                         *)

LEMMA OnlyMember ==
  ASSUME NEW S, Only(S) # NoKey
  PROVE  Only(S) \in S
  BY DEF Only

\* _resolve_key returns the key of a stored task with the id it was asked for
\* and, when it was asked within a session, of that session or of none.
LEMMA ResolveSound ==
  ASSUME NEW t, NEW s, Resolve(t, s) # NoKey
  PROVE  /\ Resolve(t, s) \in Stored
         /\ TaskOf[Resolve(t, s)] = t
         /\ s # NoSession => SessionOf[Resolve(t, s)] \in {s, NoSession}
  <1>1. CASE s # NoSession /\ Plain(t, s) # {}
    BY <1>1, OnlyMember DEF Resolve, Plain
  <1>2. CASE ~(s # NoSession /\ Plain(t, s) # {}) /\ Plain(t, NoSession) # {}
    BY <1>2, OnlyMember DEF Resolve, Plain
  <1>3. CASE ~(s # NoSession /\ Plain(t, s) # {}) /\ Plain(t, NoSession) = {}
    BY <1>3, OnlyMember DEF Resolve, Matches
  <1> QED
    BY <1>1, <1>2, <1>3

\* The key "session::task" is unique: among the keys without a branch there is
\* at most one for a task id in a session, so the first two look-ups of
\* _resolve_key never give up on a key that is there.
LEMMA PlainUnique ==
  ASSUME NEW t, NEW s, Plain(t, s) # {}
  PROVE  Only(Plain(t, s)) \in Plain(t, s)
  <1>1. PICK k \in Plain(t, s) : TRUE
    OBVIOUS
  <1>2. Plain(t, s) = {k}
    BY <1>1, KeyAssumption DEF Plain, Stored
  <1> QED
    BY <1>2 DEF Only

\* A call scoped to a session acts on a task of that session or on one without
\* a session, whatever tasks with the same id other sessions store.
THEOREM ResolveIsolates == QueueSpec => []SessionIsolation
  <1>1. SessionIsolation
    BY ResolveSound, KeyAssumption DEF SessionIsolation
  <1> QED
    BY <1>1, PTL

\* A call within a session reaches the task the session stored under the id,
\* even when other sessions store tasks with the same id.
SessionFirst ==
  \A k \in Stored \ Branched :
     SessionOf[k] # NoSession => Resolve(TaskOf[k], SessionOf[k]) = k

THEOREM ResolveFindsOwn == QueueSpec => []SessionFirst
  <1>1. SessionFirst
    <2> SUFFICES ASSUME NEW k \in Stored \ Branched, SessionOf[k] # NoSession
                 PROVE  Resolve(TaskOf[k], SessionOf[k]) = k
      BY DEF SessionFirst
    <2>1. k \in Plain(TaskOf[k], SessionOf[k])
      BY DEF Plain
    <2>2. Only(Plain(TaskOf[k], SessionOf[k])) \in Plain(TaskOf[k], SessionOf[k])
      BY <2>1, PlainUnique
    <2>3. Only(Plain(TaskOf[k], SessionOf[k])) = k
      BY <2>2, KeyAssumption DEF Plain, Stored
    <2> QED
      BY <2>1, <2>3 DEF Resolve
  <1> QED
    BY <1>1, PTL

-----------------------------------------------------------------------------
(***************************************************************************)
(* The worker pool                                                         *)
(***************************************************************************)

PoolInv == PoolTypeOK /\ SlotsAgree /\ IndexSound

USE DEF NoWorker

LEMMA WorkersNonzero == Workers \subseteq Nat \ {0}
  BY MaxWorkersAssumption DEF Workers

\* Booking a worker whose slot is idle keeps the three structures in step.
LEMMA OccupyKeepsPoolInv ==
  ASSUME PoolInv, NEW w \in Workers, NEW t \in TaskIds,
         slots[w] = NoId, Occupy(w, t)
  PROVE  PoolInv'
  BY WorkersNonzero, NoIdAssumption
     DEF PoolInv, PoolTypeOK, SlotsAgree, IndexSound, GetRunning, Occupy

\* So does releasing a worker that holds a record.
LEMMA ReleaseKeepsPoolInv ==
  ASSUME PoolInv, NEW w \in Workers, ReleaseByWorker(w)
  PROVE  PoolInv'
  BY WorkersNonzero, NoIdAssumption
     DEF PoolInv, PoolTypeOK, SlotsAgree, IndexSound, GetRunning, ReleaseByWorker

LEMMA PoolInitInv == PoolInit => PoolInv
  BY WorkersNonzero, NoIdAssumption
     DEF PoolInit, PoolInv, PoolTypeOK, SlotsAgree, IndexSound, GetRunning

LEMMA PoolNextInv == PoolInv /\ [PoolNext]_poolVars => PoolInv'
  <1> SUFFICES ASSUME PoolInv, [PoolNext]_poolVars
               PROVE  PoolInv'
    OBVIOUS
  <1>1. ASSUME NEW t \in TaskIds, Acquire(t)
        PROVE  PoolInv'
    <2>1. PICK w \in Workers : FirstIdle(w) /\ Occupy(w, t)
      BY <1>1 DEF Acquire
    <2> QED
      BY <2>1, OccupyKeepsPoolInv DEF FirstIdle, IdleSlots
  <1>2. ASSUME NEW w \in Workers, NEW t \in TaskIds, Assign(w, t)
        PROVE  PoolInv'
    BY <1>2, OccupyKeepsPoolInv DEF Assign
  <1>3. ASSUME NEW w \in Workers, ReleaseByWorker(w)
        PROVE  PoolInv'
    BY <1>3, ReleaseKeepsPoolInv
  <1>4. ASSUME NEW t \in TaskIds, ReleaseByTask(t)
        PROVE  PoolInv'
    <2>1. byTask[t] \in Workers
      BY <1>4 DEF ReleaseByTask, GetRunning, PoolInv, PoolTypeOK
    <2> QED
      BY <1>4, <2>1, ReleaseKeepsPoolInv DEF ReleaseByTask
  <1>5. CASE UNCHANGED poolVars
    BY <1>5 DEF poolVars, PoolInv, PoolTypeOK, SlotsAgree, IndexSound, GetRunning
  <1> QED
    BY <1>1, <1>2, <1>3, <1>4, <1>5 DEF PoolNext

\* Whatever calls are made, in whatever order, the pool's structures keep
\* their types, the busy flags agree with the records, and the by-task index
\* points only at workers that run the task.
THEOREM PoolConsistent == PoolSpec => [](PoolTypeOK /\ SlotsAgree /\ IndexSound)
  <1>1. PoolInit => PoolInv
    BY PoolInitInv
  <1>2. PoolInv /\ [PoolNext]_poolVars => PoolInv'
    BY PoolNextInv
  <1>3. PoolInv => PoolTypeOK /\ SlotsAgree /\ IndexSound
    BY DEF PoolInv
  <1> QED
    BY <1>1, <1>2, <1>3, PTL DEF PoolSpec

\* release_by_task never frees the slot of another task: the worker that the
\* index of any pool gives for a task id runs that task, even when assign has
\* booked the id twice.
THEOREM IndexNeverWrong == PoolSpec => []IndexSound
  BY PoolConsistent, PTL

-----------------------------------------------------------------------------
(* Callers that do not use assign.                                         *)

AcquireInv == PoolInv /\ IndexComplete

LEMMA AcquireNextInv == AcquireInv /\ [AcquireNext]_poolVars => AcquireInv'
  <1> SUFFICES ASSUME AcquireInv, [AcquireNext]_poolVars
               PROVE  IndexComplete'
    BY PoolNextInv DEF AcquireInv, AcquireNext, PoolNext
  <1> USE DEF AcquireInv, PoolInv, PoolTypeOK, IndexComplete
  <1>1. ASSUME NEW t \in TaskIds, Acquire(t)
        PROVE  IndexComplete'
    <2>1. PICK w \in Workers : FirstIdle(w) /\ Occupy(w, t)
      BY <1>1 DEF Acquire
    <2>2. byTask[t] = NoWorker
      BY <1>1 DEF Acquire, GetRunning
    <2>3. SUFFICES ASSUME NEW v \in Workers, byWorker'[v] # NoId
                   PROVE  byTask'[byWorker'[v]] = v
      OBVIOUS
    <2>4. CASE v = w
      BY <2>1, <2>4 DEF Occupy
    <2>5. CASE v # w
      <3>1. byWorker'[v] = byWorker[v] /\ byTask[byWorker[v]] = v
        BY <2>1, <2>3, <2>5 DEF Occupy
      <3>2. byWorker[v] # t
        BY <2>2, <3>1, WorkersNonzero
      <3> QED
        BY <2>1, <3>1, <3>2 DEF Occupy
    <2> QED
      BY <2>4, <2>5
  <1>2. ASSUME NEW w \in Workers, ReleaseByWorker(w)
        PROVE  IndexComplete'
    BY <1>2 DEF ReleaseByWorker
  <1>3. ASSUME NEW t \in TaskIds, ReleaseByTask(t)
        PROVE  IndexComplete'
    <2>1. byTask[t] \in Workers
      BY <1>3 DEF ReleaseByTask, GetRunning
    <2> QED
      BY <1>2, <1>3, <2>1 DEF ReleaseByTask
  <1>4. CASE UNCHANGED poolVars
    BY <1>4 DEF poolVars
  <1> QED
    BY <1>1, <1>2, <1>3, <1>4 DEF AcquireNext

\* Without assign every record is reachable by its task id, so a task id
\* occupies at most one slot.
THEOREM PoolComplete == AcquireSpec => [](IndexComplete /\ OneSlotPerTask)
  <1>1. PoolInit => AcquireInv
    BY PoolInitInv DEF PoolInit, AcquireInv, IndexComplete
  <1>2. AcquireInv /\ [AcquireNext]_poolVars => AcquireInv'
    BY AcquireNextInv
  <1>3. AcquireInv => IndexComplete /\ OneSlotPerTask
    BY DEF AcquireInv, IndexComplete, OneSlotPerTask
  <1> QED
    BY <1>1, <1>2, <1>3, PTL DEF AcquireSpec

-----------------------------------------------------------------------------
(* Refinement.                                                             *)

\* An acquire is a Take of the table: the index test and the flag test are
\* together as strong as a search of the table.
LEMMA AcquireIsTake ==
  ASSUME AcquireInv, NEW t \in TaskIds, Acquire(t)
  PROVE  \E w \in Workers : Table!Take(w, t)
  <1>1. PICK w \in Workers : FirstIdle(w) /\ Occupy(w, t)
    BY DEF Acquire
  <1>2. byWorker[w] = NoId
    BY <1>1 DEF FirstIdle, IdleSlots, AcquireInv, PoolInv, SlotsAgree
  <1>3. ASSUME NEW v \in Workers
        PROVE  byWorker[v] # t
    BY <1>3, WorkersNonzero, NoIdAssumption
       DEF Acquire, GetRunning, AcquireInv, IndexComplete
  <1> QED
    BY <1>1, <1>2, <1>3 DEF Table!Take, Occupy

LEMMA ReleaseIsFree ==
  ASSUME NEW w, ReleaseByWorker(w)
  PROVE  Table!Free(w)
  BY DEF ReleaseByWorker, Table!Free

LEMMA AcquireRefinesTake ==
  ASSUME AcquireInv, [AcquireNext]_poolVars
  PROVE  [Table!Next]_byWorker
  <1>1. ASSUME NEW t \in TaskIds, Acquire(t)
        PROVE  Table!Next
    BY <1>1, AcquireIsTake DEF Table!Next
  <1>2. ASSUME NEW w \in Workers, ReleaseByWorker(w)
        PROVE  Table!Next
    BY <1>2, ReleaseIsFree DEF Table!Next
  <1>3. ASSUME NEW t \in TaskIds, ReleaseByTask(t)
        PROVE  Table!Next
    <2>1. byTask[t] \in Workers
      BY <1>3 DEF ReleaseByTask, GetRunning, AcquireInv, PoolInv, PoolTypeOK
    <2> QED
      BY <1>3, <2>1, ReleaseIsFree DEF ReleaseByTask, Table!Next
  <1>4. CASE UNCHANGED poolVars
    BY <1>4 DEF poolVars
  <1> QED
    BY <1>1, <1>2, <1>3, <1>4 DEF AcquireNext

\* The pool, used without assign, implements the slot table.
THEOREM PoolRefinesTable == AcquireSpec => PoolImplementsTable
  <1>1. PoolInit => Table!Init
    BY DEF PoolInit, Table!Init
  <1>2. PoolInit => AcquireInv
    BY PoolInitInv DEF PoolInit, AcquireInv, IndexComplete
  <1>3. AcquireInv /\ [AcquireNext]_poolVars => AcquireInv'
    BY AcquireNextInv
  <1>4. AcquireInv /\ [AcquireNext]_poolVars => [Table!Next]_byWorker
    BY AcquireRefinesTake
  <1> QED
    BY <1>1, <1>2, <1>3, <1>4, PTL DEF AcquireSpec, PoolImplementsTable, Table!Spec

HIDE DEF NoWorker

-----------------------------------------------------------------------------
(***************************************************************************)
(* Dispatch rounds and requests                                            *)
(***************************************************************************)

\* The part of TypeOK about the threads.
ThreadTypes ==
    /\ pc \in [Threads -> PCs]
    /\ item \in [Threads -> Clones \cup {NoKey}]
    /\ \A t \in Threads : pc[t] \notin Between => item[t] \in Clones
    /\ back \in [Threads -> {"idle", "outcome", "unblock"}]
    /\ results \in [Threads -> Seq(Clones)]
    /\ \A t \in Threads :
          pc[t] \in {"handle", "outcome"} \/ back[t] = "outcome" => results[t] # <<>>
    /\ requests \in Nat
    /\ abandoned \subseteq TaskIds

-----------------------------------------------------------------------------
(* Names.                                                                  *)

\* A task id resolves to a stored key or to none.
LEMMA ResolveStored ==
  ASSUME NEW id, NEW s, Resolve(id, s) # NoKey
  PROVE  Resolve(id, s) \in Stored /\ Resolve(id, s) \in Keys
  BY OnlyMember DEF Resolve, Plain, Matches, Stored

LEMMA ItemTyped ==
  ASSUME ThreadTypes, NEW t \in Threads, pc[t] \notin Between
  PROVE  /\ item[t] \in Clones /\ item[t].key \in Keys
         /\ item[t].priority \in Priorities /\ Id(t) \in TaskIds
  BY KeyAssumption DEF ThreadTypes, Clones, Id

LEMMA HeadTyped ==
  ASSUME ThreadTypes, NEW t \in Threads, pc[t] \in {"handle", "outcome"}
  PROVE  /\ results[t] # <<>> /\ results[t] \in Seq(Clones)
         /\ Head(results[t]) \in Clones /\ Head(results[t]).key \in Keys
         /\ Head(results[t]).priority \in Priorities
  <1>1. results[t] # <<>> /\ results[t] \in Seq(Clones)
    BY DEF ThreadTypes
  <1>2. Head(results[t]) \in Clones
    BY <1>1, HeadTailProperties
  <1> QED
    BY <1>1, <1>2 DEF Clones

LEMMA AnyPriorityTyped == AnyPriority \in Priorities
  BY OrderAssumption DEF AnyPriority

-----------------------------------------------------------------------------
(* Every step is a call of the queue, or none.                             *)

LEMMA RequeueCallStep ==
  ASSUME NEW t, item[t].priority \in Priorities, RequeueCall(t)
  PROVE  [QueueStep]_queueVars
  BY DEF RequeueCall, CanRequeue, Stored, QueueStep

LEMMA RemoveCallStep ==
  ASSUME NEW t, RemoveCall(t)
  PROVE  [QueueStep]_queueVars
  BY ResolveStored DEF RemoveCall, KeyOf, QueueStep

LEMMA CancelCallStep ==
  ASSUME NEW k, CancelCall(k)
  PROVE  [QueueStep]_queueVars
  BY ResolveStored DEF CancelCall, QueueStep

LEMMA RoundQueue ==
  ASSUME ThreadTypes, QueueTypeOK, NEW t \in Threads, RoundStep(t)
  PROVE  [QueueStep]_queueVars
  <1>1. CASE Pop(t)
    BY <1>1 DEF Pop, QueueStep
  <1>2. CASE PopNone(t)
    BY <1>2 DEF PopNone, QueueStep
  <1>3. CASE GiveBack(t)
    <2>1. item[t].priority \in Priorities
      BY <1>3, ItemTyped DEF GiveBack, At, Between
    <2> QED
      BY <1>3, <2>1, RequeueCallStep DEF GiveBack
  <1>4. CASE ExecuteCollapse(t)
    BY <1>4, CancelCallStep DEF ExecuteCollapse
  <1>5. CASE UNCHANGED queueVars
    BY <1>5
  <1> QED
    BY <1>1, <1>2, <1>3, <1>4, <1>5
       DEF RoundStep, CheckFree, AcquireSlot, AcquireFails, Execute, ExecuteSync,
           Outcome, RoundRaises

LEMMA SettleQueue ==
  ASSUME ThreadTypes, QueueTypeOK, NEW t \in Threads, SettleStep(t)
  PROVE  [QueueStep]_queueVars
  <1>1. CASE MarkFinishedCall(t)
    BY <1>1, ResolveStored DEF MarkFinishedCall, KeyOf, QueueStep
  <1>2. CASE IncrementCall(t)
    BY <1>2, ResolveStored DEF IncrementCall, KeyOf, QueueStep
  <1>3. CASE MarkFailedCall(t)
    BY <1>3, ResolveStored DEF MarkFailedCall, KeyOf, QueueStep
  <1>4. CASE Retry(t) \/ RequeueReady(t)
    <2>1. item[t].priority \in Priorities
      BY <1>4, ItemTyped DEF Retry, RequeueReady, At, Between
    <2> QED
      BY <1>4, <2>1, RequeueCallStep DEF Retry, RequeueReady
  <1>5. CASE UNCHANGED queueVars
    BY <1>5
  <1> QED
    BY <1>1, <1>2, <1>3, <1>4, <1>5
       DEF SettleStep, Finish, Fail, MarkFinishedDenied, Reread, RepoFailed,
           RepoFinished, Unblock, Unblocked, ReleaseForRequeue, ReleaseOnly

LEMMA SyncQueue ==
  ASSUME ThreadTypes, QueueTypeOK, NEW t \in Threads, SyncStep(t)
  PROVE  [QueueStep]_queueVars
  <1>1. CASE Drop(t) \/ Block(t)
    BY <1>1, RemoveCallStep DEF Drop, Block
  <1>2. CASE Admit(t)
    <2>1. item[t].key \in Keys /\ item[t].priority \in Priorities
      BY <1>2, ItemTyped DEF Admit, At, Between
    <2>2. MaxRetries[item[t].key] \in Nat
      BY <2>1, KeyAssumption
    <2>3. PICK c \in Times, n \in 0 .. MaxRetries[item[t].key], o \in BOOLEAN :
            \/ Enqueue(item[t].key, "queued", item[t].priority, c, n, o)
            \/ UNCHANGED queueVars
      BY <1>2 DEF Admit
    <2>4. n \in Nat
      BY <2>2
    <2> QED
      BY <2>1, <2>3, <2>4 DEF QueueStep
  <1>3. CASE UNCHANGED queueVars
    BY <1>3
  <1> QED
    BY <1>1, <1>2, <1>3 DEF SyncStep, Free, Forget

LEMMA RequestQueue ==
  ASSUME NEW t \in Threads, NewRequest(t)
  PROVE  [QueueStep]_queueVars
  <1>1. CASE PauseRequest(t) \/ CancelRequest(t)
    BY <1>1, CancelCallStep DEF PauseRequest, CancelRequest
  <1>2. CASE PriorityRequest(t)
    BY <1>2, ResolveStored DEF PriorityRequest, QueueStep
  <1>3. CASE UNCHANGED queueVars
    BY <1>3
  <1> QED
    BY <1>1, <1>2, <1>3 DEF NewRequest, BlockRequest, ForgetRequest, SyncRequest

\* The queue sees a sequence of its own calls, whatever the threads do.
LEMMA NextQueue ==
  ASSUME ThreadTypes, QueueTypeOK, [Next]_vars
  PROVE  [QueueStep]_queueVars
  BY RoundQueue, SettleQueue, SyncQueue, RequestQueue
     DEF Next, ThreadStep, Rest, Begin, vars

-----------------------------------------------------------------------------
(* Every step is an acquire or a release of the pool, or neither.          *)

LEMMA ReleaseCallStep ==
  ASSUME NEW t, Id(t) \in TaskIds, ReleaseCall(t)
  PROVE  [AcquireNext]_poolVars
  BY DEF ReleaseCall, AcquireNext

LEMMA NextPool ==
  ASSUME ThreadTypes, [Next]_vars
  PROVE  [AcquireNext]_poolVars
  <1>1. ASSUME NEW t \in Threads, AcquireSlot(t)
        PROVE  [AcquireNext]_poolVars
    <2>1. Id(t) \in TaskIds
      BY <1>1, ItemTyped DEF AcquireSlot, At, Between
    <2> QED
      BY <1>1, <2>1 DEF AcquireSlot, AcquireNext
  <1>2. ASSUME NEW t \in Threads,
               \/ Finish(t) \/ Fail(t) \/ RepoFailed(t) \/ RepoFinished(t)
               \/ ReleaseForRequeue(t) \/ ReleaseOnly(t) \/ Free(t) \/ Forget(t)
        PROVE  [AcquireNext]_poolVars
    <2>1. Id(t) \in TaskIds
      BY <1>2, ItemTyped DEF Finish, Fail, RepoFailed, RepoFinished,
         ReleaseForRequeue, ReleaseOnly, Free, Forget, At, Between
    <2>2. ReleaseCall(t) \/ UNCHANGED poolVars
      BY <1>2 DEF Finish, Fail, RepoFailed, RepoFinished, ReleaseForRequeue,
         ReleaseOnly, Free, Forget, ReleaseThen
    <2> QED
      BY <2>1, <2>2, ReleaseCallStep
  <1>3. CASE UNCHANGED poolVars
    BY <1>3
  <1> QED
    BY <1>1, <1>2, <1>3
       DEF Next, ThreadStep, RoundStep, SettleStep, SyncStep, NewRequest, Rest, vars,
           Begin, CheckFree, Pop, PopNone, AcquireFails, GiveBack, Execute,
           ExecuteSync, ExecuteCollapse, Outcome, RoundRaises, MarkFinishedCall,
           MarkFinishedDenied, IncrementCall, Reread, Retry, MarkFailedCall,
           Unblock, Unblocked, RequeueReady, PauseRequest, CancelRequest,
           PriorityRequest, BlockRequest, ForgetRequest, SyncRequest, Drop,
           Block, Admit

-----------------------------------------------------------------------------
(* The threads keep their types.                                           *)

Backs == {"idle", "outcome", "unblock"}

LEMMA GotoTypes ==
  ASSUME ThreadTypes, NEW t \in Threads, NEW l \in PCs, Goto(t, l),
         l \notin Between => item[t] \in Clones,
         l \in {"handle", "outcome"} => results[t] # <<>>,
         UNCHANGED results, requests' \in Nat, UNCHANGED abandoned
  PROVE  ThreadTypes'
  BY DEF ThreadTypes, Goto

LEMMA DoneTypes ==
  ASSUME ThreadTypes, NEW t \in Threads, NEW l \in Between, Done(t, l),
         NEW r \in Seq(Clones), results' = [results EXCEPT ![t] = r],
         l \in {"handle", "outcome"} => r # <<>>,
         requests' \in Nat, abandoned' \subseteq TaskIds
  PROVE  ThreadTypes'
  BY DEF ThreadTypes, Done, Between, PCs, RoundPCs, SettlePCs

LEMMA AboutTypes ==
  ASSUME ThreadTypes, NEW t \in Threads, NEW l \in PCs \ {"handle", "outcome"},
         NEW k \in Keys, NEW p \in Priorities, NEW b \in Backs, About(t, l, k, p, b),
         NEW r \in Seq(Clones), results' = [results EXCEPT ![t] = r],
         b = "outcome" => r # <<>>, requests' \in Nat, UNCHANGED abandoned
  PROVE  ThreadTypes'
  <1>1. [key |-> k, priority |-> p] \in Clones
    BY DEF Clones
  <1> QED
    BY <1>1 DEF ThreadTypes, About, Backs

LEMMA SameResults ==
  ASSUME ThreadTypes, NEW t \in Threads, UNCHANGED results
  PROVE  results' = [results EXCEPT ![t] = results[t]] /\ results[t] \in Seq(Clones)
  BY DEF ThreadTypes

LEMMA HomeTyped ==
  ASSUME NEW t
  PROVE  /\ Home(t) \in Between /\ Home(t) \in PCs
         /\ Home(t) \in {"handle", "outcome"} => results[t] # <<>>
  BY DEF Home, Between, PCs, RoundPCs

LEMMA BranchesTyped ==
  ASSUME NEW k, NEW l \in SyncBranches(k)
  PROVE  l \in PCs \ {"handle", "outcome"}
  BY DEF SyncBranches, PCs, SyncPCs

LEMMA RaiseTypes ==
  ASSUME ThreadTypes, NEW t \in Threads, Raise(t), UNCHANGED requests
  PROVE  ThreadTypes'
  <1>1. PendingIds(t) \subseteq TaskIds
    <2>1. \A i \in DOMAIN results[t] : results[t][i] \in Clones
      BY DEF ThreadTypes
    <2> QED
      BY <2>1, KeyAssumption DEF PendingIds, Clones
  <1>2. requests' \in Nat /\ abandoned' \subseteq TaskIds
    BY <1>1 DEF ThreadTypes, Raise
  <1>3. <<>> \in Seq(Clones)
    OBVIOUS
  <1> QED
    BY <1>2, <1>3, DoneTypes DEF Raise, Between

\* The steps of a round.
LEMMA RoundTypes ==
  ASSUME ThreadTypes, QueueTypeOK, NEW t \in Threads, RoundStep(t) \/ Begin(t)
  PROVE  ThreadTypes'
  <1>0. requests \in Nat /\ abandoned \subseteq TaskIds /\ results[t] \in Seq(Clones)
    BY DEF ThreadTypes
  <1> USE DEF At
  <1>1. CASE Begin(t)
    BY <1>0, <1>1, GotoTypes DEF Begin, PCs, RoundPCs, Between
  <1>2. CASE CheckFree(t)
    <2> DEFINE l == IF HasFreeSlot THEN "pop" ELSE Home(t)
    <2>1. /\ l \in PCs /\ l \in Between
          /\ l \in {"handle", "outcome"} => results[t] # <<>>
      BY HomeTyped DEF PCs, RoundPCs, Between
    <2>2. Goto(t, l) /\ UNCHANGED <<results, requests, abandoned>>
      BY <1>2 DEF CheckFree
    <2> HIDE DEF l
    <2> QED
      BY <1>0, <2>1, <2>2, GotoTypes
  <1>3. CASE Pop(t)
    <2>1. PICK e \in heap :
            PopNext(e) /\ About(t, "acquire", e.key, tasks[e.key].priority, "idle")
      BY <1>3 DEF Pop
    <2>2. e.key \in Keys /\ tasks[e.key].priority \in Priorities
      BY <2>1 DEF QueueTypeOK, HeapEntries, TaskRecords, PopNext, IsHead, Live
    <2> QED
      BY <1>0, <1>3, <2>1, <2>2, SameResults, AboutTypes
         DEF Pop, PCs, RoundPCs, Backs
  <1>4. CASE PopNone(t)
    BY <1>0, <1>4, HomeTyped, GotoTypes DEF PopNone
  <1>5. CASE AcquireSlot(t)
    <2>1. item[t] \in Clones
      BY <1>5, ItemTyped DEF AcquireSlot, Between
    <2> DEFINE r == Append(results[t], item[t])
    <2>2. r \in Seq(Clones) /\ r # <<>>
      BY <1>0, <2>1, AppendProperties
    <2>3. results' = [results EXCEPT ![t] = r]
      BY <1>5 DEF AcquireSlot
    <2> HIDE DEF r
    <2> QED
      BY <1>0, <1>5, <2>2, <2>3, DoneTypes DEF AcquireSlot, Between
  <1>6. CASE AcquireFails(t)
    <2>1. item[t] \in Clones
      BY <1>6, ItemTyped DEF AcquireFails, Between
    <2> QED
      BY <1>0, <1>6, <2>1, GotoTypes DEF AcquireFails, PCs, RoundPCs
  <1>7. CASE GiveBack(t)
    BY <1>0, <1>7, HomeTyped, SameResults, DoneTypes DEF GiveBack
  <1>8. CASE Execute(t)
    <2>1. results[t] # <<>>
      BY <1>8, HeadTyped DEF Execute
    <2> QED
      BY <1>0, <1>8, <2>1, GotoTypes DEF Execute, PCs, RoundPCs, Between
  <1>9. CASE ExecuteSync(t)
    <2> DEFINE k == Head(results[t]).key
    <2>1. k \in Keys /\ results[t] # <<>>
      BY <1>9, HeadTyped DEF ExecuteSync
    <2>2. PICK l \in SyncBranches(k), p \in Priorities : About(t, l, k, p, "outcome")
      BY <1>9 DEF ExecuteSync
    <2> HIDE DEF k
    <2> QED
      BY <1>0, <1>9, <2>1, <2>2, BranchesTyped, SameResults, AboutTypes
         DEF ExecuteSync, Backs
  <1>10. CASE ExecuteCollapse(t)
    <2> DEFINE k == Head(results[t]).key
    <2>1. k \in Keys /\ results[t] # <<>>
      BY <1>10, HeadTyped DEF ExecuteCollapse
    <2>2. About(t, "free", k, AnyPriority, "outcome")
      BY <1>10 DEF ExecuteCollapse
    <2> HIDE DEF k
    <2> QED
      BY <1>0, <1>10, <2>1, <2>2, AnyPriorityTyped, SameResults, AboutTypes
         DEF ExecuteCollapse, PCs, SyncPCs, Backs
  <1>11. CASE Outcome(t)
    <2> DEFINE h == Head(results[t])
               r == Tail(results[t])
    <2>1. h.key \in Keys /\ h.priority \in Priorities /\ results[t] # <<>>
      BY <1>11, HeadTyped DEF Outcome
    <2>2. r \in Seq(Clones)
      BY <1>0, <2>1, HeadTailProperties
    <2>3. PICK l \in OutcomePCs : About(t, l, h.key, h.priority, "idle")
      BY <1>11 DEF Outcome
    <2>4. results' = [results EXCEPT ![t] = r]
      BY <1>11 DEF Outcome
    <2>5. l \in PCs \ {"handle", "outcome"}
      BY DEF PCs, OutcomePCs
    <2> HIDE DEF h, r
    <2> QED
      BY <1>0, <1>11, <2>1, <2>2, <2>3, <2>4, <2>5, AboutTypes DEF Outcome, Backs
  <1>12. CASE RoundRaises(t)
    BY <1>0, <1>12, RaiseTypes DEF RoundRaises
  <1> QED
    BY <1>1, <1>2, <1>3, <1>4, <1>5, <1>6, <1>7, <1>8, <1>9, <1>10, <1>11, <1>12
       DEF RoundStep

\* The steps that settle a result.
LEMMA SettleTypes ==
  ASSUME ThreadTypes, QueueTypeOK, NEW t \in Threads, SettleStep(t)
  PROVE  ThreadTypes'
  <1>0. requests \in Nat /\ abandoned \subseteq TaskIds /\ results[t] \in Seq(Clones)
    BY DEF ThreadTypes
  <1>1. /\ {"markFinished", "repoFinished", "increment", "repoFailed", "reread",
           "requeueReady", "retry", "markFailed"} \subseteq PCs \ {"handle", "outcome"}
        /\ "unblock" \in Between \ {"handle", "outcome"}
    BY DEF PCs, SettlePCs, Between
  <1> USE DEF At
  <1>2. CASE Finish(t)
    <2>1. item[t] \in Clones
      BY <1>2, ItemTyped DEF Finish, Between
    <2> QED
      BY <1>0, <1>1, <1>2, <2>1, GotoTypes DEF Finish, ReleaseThen
  <1>3. CASE Fail(t)
    <2>1. item[t] \in Clones
      BY <1>3, ItemTyped DEF Fail, Between
    <2> QED
      BY <1>0, <1>1, <1>3, <2>1, GotoTypes DEF Fail, ReleaseThen
  <1>4. CASE MarkFinishedCall(t) \/ IncrementCall(t) \/ Retry(t) \/ MarkFailedCall(t)
    <2>1. item[t] \in Clones
      BY <1>4, ItemTyped DEF MarkFinishedCall, IncrementCall, Retry, MarkFailedCall, Between
    <2>2. /\ \E l \in {"repoFinished", "reread", "repoFailed"} : Goto(t, l)
          /\ UNCHANGED <<results, requests, abandoned>>
      BY <1>4 DEF MarkFinishedCall, IncrementCall, Retry, MarkFailedCall
    <2> QED
      BY <1>0, <1>1, <2>1, <2>2, GotoTypes
  <1>5. CASE MarkFinishedDenied(t)
    BY <1>0, <1>5, RaiseTypes DEF MarkFinishedDenied
  <1>6. CASE Reread(t)
    <2>1. item[t] \in Clones /\ item[t].key \in Keys
      BY <1>6, ItemTyped DEF Reread, Between
    <2>2. CASE KeyOf(t) = NoKey
      BY <1>0, <1>1, <1>6, <2>1, <2>2, GotoTypes DEF Reread
    <2>3. CASE KeyOf(t) # NoKey
      <3>1. tasks[KeyOf(t)].priority \in Priorities
        BY <2>3, ResolveStored DEF KeyOf, QueueTypeOK, TaskRecords, Stored
      <3>2. \E l \in {"retry", "markFailed"} :
              About(t, l, item[t].key, tasks[KeyOf(t)].priority, "idle")
        BY <1>6, <2>3 DEF Reread
      <3> QED
        BY <1>0, <1>1, <1>6, <2>1, <3>1, <3>2, SameResults, AboutTypes
           DEF Reread, Backs
    <2> QED
      BY <2>2, <2>3
  <1>7. CASE RepoFailed(t) \/ Unblocked(t) \/ RequeueReady(t) \/ ReleaseOnly(t)
    <2>1. Done(t, Home(t)) /\ UNCHANGED <<results, requests, abandoned>>
      BY <1>7 DEF RepoFailed, Unblocked, RequeueReady, ReleaseOnly
    <2> QED
      BY <1>0, <2>1, HomeTyped, SameResults, DoneTypes
  <1>8. CASE RepoFinished(t)
    <2>1. UNCHANGED <<results, requests, abandoned>>
      BY <1>8 DEF RepoFinished
    <2>2. CASE Done(t, "unblock")
      BY <1>0, <1>1, <2>1, <2>2, SameResults, DoneTypes
    <2>3. CASE Done(t, Home(t))
      BY <1>0, <2>1, <2>3, HomeTyped, SameResults, DoneTypes
    <2> QED
      BY <1>8, <2>2, <2>3 DEF RepoFinished
  <1>9. CASE Unblock(t)
    <2>1. PICK k \in Keys, p \in Priorities :
            \E l \in SyncBranches(k) : About(t, l, k, p, "unblock")
      BY <1>9 DEF Unblock
    <2>2. UNCHANGED <<results, abandoned>> /\ requests' \in Nat
      BY <1>0, <1>9 DEF Unblock
    <2> QED
      BY <2>1, <2>2, BranchesTyped, SameResults, AboutTypes DEF Backs
  <1>10. CASE ReleaseForRequeue(t)
    <2>1. UNCHANGED <<results, requests, abandoned>>
      BY <1>10 DEF ReleaseForRequeue
    <2>2. item[t] \in Clones
      BY <1>10, ItemTyped DEF ReleaseForRequeue, Between
    <2>3. CASE Goto(t, "requeueReady")
      BY <1>0, <1>1, <2>1, <2>2, <2>3, GotoTypes
    <2>4. CASE Done(t, Home(t))
      BY <1>0, <2>1, <2>4, HomeTyped, SameResults, DoneTypes
    <2> QED
      BY <1>10, <2>3, <2>4 DEF ReleaseForRequeue
  <1> QED
    BY <1>2, <1>3, <1>4, <1>5, <1>6, <1>7, <1>8, <1>9, <1>10 DEF SettleStep

\* The synchronisation calls and the requests that start them.
LEMMA SyncTypes ==
  ASSUME ThreadTypes, NEW t \in Threads, SyncStep(t)
  PROVE  ThreadTypes'
  <1>0. /\ requests \in Nat /\ abandoned \subseteq TaskIds /\ results[t] \in Seq(Clones)
        /\ back[t] \in Between
        /\ back[t] \in {"handle", "outcome"} => results[t] # <<>>
    BY DEF ThreadTypes, Between
  <1> USE DEF At
  <1>1. CASE Free(t) \/ Drop(t) \/ Admit(t)
    <2>1. Done(t, back[t]) /\ UNCHANGED <<results, requests, abandoned>>
      BY <1>1 DEF Free, Drop, Admit
    <2> QED
      BY <1>0, <2>1, SameResults, DoneTypes
  <1>2. CASE Forget(t) \/ Block(t)
    <2>1. item[t] \in Clones
      BY <1>2, ItemTyped DEF Forget, Block, Between
    <2>2. /\ Goto(t, "drop") \/ Goto(t, "free") \/ Done(t, back[t])
          /\ UNCHANGED <<results, requests, abandoned>>
      BY <1>2 DEF Forget, Block
    <2>3. CASE Done(t, back[t])
      BY <1>0, <2>2, <2>3, SameResults, DoneTypes
    <2> QED
      BY <1>0, <2>1, <2>2, <2>3, GotoTypes DEF PCs, SyncPCs
  <1> QED
    BY <1>1, <1>2 DEF SyncStep

LEMMA RequestTypes ==
  ASSUME ThreadTypes, NEW t \in Threads, NewRequest(t)
  PROVE  ThreadTypes'
  <1>0. requests' \in Nat /\ UNCHANGED <<results, abandoned>>
    BY DEF ThreadTypes, NewRequest, PauseRequest, CancelRequest, PriorityRequest,
       BlockRequest, ForgetRequest, SyncRequest, Request
  <1>1. CASE PauseRequest(t) \/ PriorityRequest(t)
    BY <1>0, <1>1, GotoTypes DEF PauseRequest, PriorityRequest, PCs, Between
  <1>2. CASE CancelRequest(t) \/ BlockRequest(t) \/ ForgetRequest(t)
    <2>1. PICK k \in Keys, l \in {"free", "forget"} : About(t, l, k, AnyPriority, "idle")
      BY <1>2 DEF CancelRequest, BlockRequest, ForgetRequest
    <2> QED
      BY <1>0, <2>1, AnyPriorityTyped, SameResults, AboutTypes DEF PCs, SyncPCs, Backs
  <1>3. CASE SyncRequest(t)
    <2>1. PICK k \in Keys, p \in Priorities :
            \E l \in SyncBranches(k) : About(t, l, k, p, "idle")
      BY <1>3 DEF SyncRequest
    <2> QED
      BY <1>0, <2>1, BranchesTyped, SameResults, AboutTypes DEF Backs
  <1> QED
    BY <1>1, <1>2, <1>3 DEF NewRequest

LEMMA NextTypes ==
  ASSUME ThreadTypes, QueueTypeOK, [Next]_vars
  PROVE  ThreadTypes'
  <1>1. CASE UNCHANGED vars
    BY <1>1 DEF vars, threadVars, ThreadTypes
  <1> QED
    BY <1>1, RoundTypes, SettleTypes, SyncTypes, RequestTypes DEF Next, ThreadStep, Rest

-----------------------------------------------------------------------------
(* Theorems.                                                               *)

DispatchInv == ThreadTypes /\ RankInv /\ AcquireInv

LEMMA DispatchInitInv == Init => DispatchInv
  <1>1. Init => RankInv
    BY QueueInitInv DEF Init
  <1>2. Init => AcquireInv
    BY PoolInitInv DEF Init, PoolInit, AcquireInv, IndexComplete
  <1>3. Init => ThreadTypes
    BY DEF Init, ThreadTypes, PCs, Between
  <1> QED
    BY <1>1, <1>2, <1>3 DEF DispatchInv

LEMMA DispatchNextInv == DispatchInv /\ [Next]_vars => DispatchInv'
  <1> SUFFICES ASSUME DispatchInv, [Next]_vars
               PROVE  DispatchInv'
    OBVIOUS
  <1>1. QueueTypeOK /\ ThreadTypes
    BY DEF DispatchInv, RankInv, StoreInv
  <1>2. RankInv'
    BY <1>1, NextQueue, QueueStepInv DEF DispatchInv
  <1>3. AcquireInv'
    BY <1>1, NextPool, AcquireNextInv DEF DispatchInv
  <1>4. ThreadTypes'
    BY <1>1, NextTypes
  <1> QED
    BY <1>2, <1>3, <1>4 DEF DispatchInv

\* Any number of threads: every variable of the dispatcher, the queue and
\* the pool keeps its type through rounds, requests and exceptions.
THEOREM DispatchTyped == Spec => []TypeOK
  <1>1. DispatchInv => TypeOK
    BY DEF DispatchInv, RankInv, StoreInv, AcquireInv, PoolInv, ThreadTypes, TypeOK
  <1> QED
    BY <1>1, DispatchInitInv, DispatchNextInv, PTL DEF Spec

\* The queue's promises survive every interleaving of rounds and requests: no
\* queued task becomes unreachable, and the head ranks first.
THEOREM DispatchQueue == Spec => [](QueuedReachable /\ QueuedStatus /\ HeadRanksFirst)
  <1>1. DispatchInv => QueuedReachable /\ QueuedStatus /\ HeadRanksFirst
    BY RankInvHead DEF DispatchInv, RankInv, StoreInv
  <1> QED
    BY <1>1, DispatchInitInv, DispatchNextInv, PTL DEF Spec

-----------------------------------------------------------------------------
(* Slots.                                                                  *)

SlotInv == DispatchInv /\ SlotAccounted

LEMMA OthersOwe ==
  ASSUME NEW u \in Threads,
         pc'[u] = pc[u], item'[u] = item[u], results'[u] = results[u]
  PROVE  Owes(u)' = Owes(u)
  BY DEF Owes, PendingIds, Id

\* release_by_task leaves no slot busy with the id it names, because the
\* index is complete.
LEMMA ReleaseFrees ==
  ASSUME AcquireInv, NEW t, Id(t) \in TaskIds, ReleaseCall(t), NEW w \in Workers,
         byWorker'[w] # NoId
  PROVE  byWorker'[w] = byWorker[w] /\ byWorker[w] # Id(t)
  <1>1. CASE GetRunning(Id(t))
    <2>1. byTask[Id(t)] \in Workers /\ ReleaseByWorker(byTask[Id(t)])
      BY <1>1 DEF ReleaseCall, ReleaseByTask, GetRunning, AcquireInv, PoolInv, PoolTypeOK
    <2> QED
      BY <2>1 DEF ReleaseByWorker, AcquireInv, IndexComplete, PoolInv, PoolTypeOK
  <1>2. CASE ~GetRunning(Id(t))
    BY <1>2, WorkersNonzero
       DEF ReleaseCall, GetRunning, NoWorker, poolVars, AcquireInv, IndexComplete
  <1> QED
    BY <1>1, <1>2

\* A step of thread t moves no other thread.
Alone(t) ==
    \A u \in Threads \ {t} :
        pc'[u] = pc[u] /\ item'[u] = item[u] /\ results'[u] = results[u]

LEMMA AloneMoves ==
  ASSUME ThreadTypes, NEW t \in Threads,
         \/ \E l : Goto(t, l) \/ Done(t, l)
         \/ \E l, k, p, b : About(t, l, k, p, b),
         \/ UNCHANGED results
         \/ \E r : results' = [results EXCEPT ![t] = r]
  PROVE  Alone(t)
  BY DEF ThreadTypes, Goto, Done, About, Alone

LEMMA AloneOwes ==
  ASSUME ThreadTypes, NEW t \in Threads, Alone(t)
  PROVE  \A u \in Threads \ {t} : Owes(u)' = Owes(u)
  BY OthersOwe DEF Alone

\* A step after which everything owed is still owed or names a task whose
\* slot the step releases.
LEMMA SlotsFollow ==
  ASSUME DispatchInv, SlotAccounted, NEW t \in Threads, Alone(t),
         abandoned \subseteq abandoned',
         \/ /\ UNCHANGED poolVars
            /\ Owes(t) \subseteq Owes(t)' \cup abandoned'
         \/ /\ ReleaseCall(t) /\ Id(t) \in TaskIds
            /\ Owes(t) \subseteq Owes(t)' \cup abandoned' \cup {Id(t)}
  PROVE  SlotAccounted'
  <1>1. AcquireInv /\ ThreadTypes
    BY DEF DispatchInv
  <1>2. \A u \in Threads \ {t} : Owes(u)' = Owes(u)
    BY <1>1, AloneOwes
  <1>3. CASE UNCHANGED poolVars /\ Owes(t) \subseteq Owes(t)' \cup abandoned'
    <2>1. Owed \subseteq Owed'
      BY <1>2, <1>3 DEF Owed
    <2> QED
      BY <1>3, <2>1 DEF SlotAccounted, poolVars
  <1>4. CASE /\ ReleaseCall(t) /\ Id(t) \in TaskIds
             /\ Owes(t) \subseteq Owes(t)' \cup abandoned' \cup {Id(t)}
    <2>1. Owed \subseteq Owed' \cup {Id(t)}
      BY <1>2, <1>4 DEF Owed
    <2> SUFFICES ASSUME NEW w \in Workers, byWorker'[w] # NoId
                 PROVE  byWorker'[w] \in Owed'
      BY DEF SlotAccounted
    <2>2. byWorker'[w] = byWorker[w] /\ byWorker[w] # Id(t)
      BY <1>1, <1>4, ReleaseFrees
    <2> QED
      BY <2>1, <2>2 DEF SlotAccounted
  <1> QED
    BY <1>3, <1>4

\* The steps of a thread that is not about to settle a result and that leave
\* its results alone.
Quiet(t) ==
    /\ pc[t] \notin OutcomePCs
    /\ UNCHANGED <<results, abandoned>>
    /\ \/ UNCHANGED poolVars
       \/ ReleaseCall(t) /\ pc[t] \notin Between

LEMMA QuietKeeps ==
  ASSUME SlotInv, NEW t \in Threads, Alone(t), Quiet(t)
  PROVE  SlotAccounted'
  <1>1. ThreadTypes
    BY DEF SlotInv, DispatchInv
  <1>2. Owes(t) \subseteq Owes(t)'
    BY DEF Owes, PendingIds, Quiet
  <1>3. pc[t] \notin Between => Id(t) \in TaskIds
    BY <1>1, ItemTyped
  <1> QED
    BY <1>2, <1>3, SlotsFollow DEF Quiet, SlotInv

LEMMA AcquireKeeps ==
  ASSUME SlotInv, NEW t \in Threads, AcquireSlot(t)
  PROVE  SlotAccounted'
  <1>1. ThreadTypes /\ Alone(t)
    BY AloneMoves DEF AcquireSlot, SlotInv, DispatchInv
  <1>2. /\ pc[t] = "acquire" /\ item[t] \in Clones /\ Id(t) \in TaskIds
        /\ results[t] \in Seq(Clones)
    BY <1>1, ItemTyped DEF AcquireSlot, At, Between, ThreadTypes
  <1> DEFINE r == Append(results[t], item[t])
  <1>3. results'[t] = r /\ UNCHANGED abandoned
    BY <1>1 DEF AcquireSlot, ThreadTypes
  <1>4. /\ r \in Seq(Clones) /\ Len(r) = Len(results[t]) + 1 /\ r[Len(r)] = item[t]
        /\ \A i \in 1 .. Len(results[t]) : r[i] = results[t][i]
    BY <1>2, AppendProperties
  <1> HIDE DEF r
  <1>5. /\ DOMAIN r = 1 .. Len(r) /\ DOMAIN results[t] = 1 .. Len(results[t])
        /\ Len(results[t]) \in Nat
    BY <1>2, <1>4, LenProperties
  <1>6. Owes(t) = PendingIds(t)
    BY <1>2 DEF Owes, OutcomePCs
  <1>7. PendingIds(t) \subseteq PendingIds(t)'
    BY <1>3, <1>4, <1>5 DEF PendingIds
  <1>8. Id(t) \in PendingIds(t)'
    BY <1>3, <1>4, <1>5 DEF PendingIds, Id
  <1>9. Owed \cup {Id(t)} \subseteq Owed'
    BY <1>1, <1>3, <1>6, <1>7, <1>8, AloneOwes DEF Owed, Owes
  <1>10. PICK w \in Workers : Occupy(w, Id(t))
    BY DEF AcquireSlot, Acquire
  <1>11. \A v \in Workers : byWorker'[v] \in {byWorker[v], Id(t)}
    BY <1>10 DEF Occupy, SlotInv, DispatchInv, AcquireInv, PoolInv, PoolTypeOK
  <1> QED
    BY <1>9, <1>11 DEF SlotAccounted, SlotInv

LEMMA OutcomeKeeps ==
  ASSUME SlotInv, NEW t \in Threads, Outcome(t)
  PROVE  SlotAccounted'
  <1>1. PICK l \in OutcomePCs :
          About(t, l, Head(results[t]).key, Head(results[t]).priority, "idle")
    BY DEF Outcome
  <1>2. ThreadTypes /\ Alone(t)
    BY <1>1, AloneMoves DEF Outcome, SlotInv, DispatchInv
  <1>3. /\ pc[t] = "outcome" /\ results[t] # <<>> /\ results[t] \in Seq(Clones)
        /\ results'[t] = Tail(results[t]) /\ UNCHANGED <<abandoned, poolVars>>
    BY <1>2, HeadTyped DEF Outcome, At, ThreadTypes
  <1>4. pc'[t] = l /\ item'[t].key = Head(results[t]).key
    BY <1>1, <1>2 DEF About, ThreadTypes
  <1>5. Owes(t) \subseteq Owes(t)'
    <2> SUFFICES ASSUME NEW i \in DOMAIN results[t]
                 PROVE  TaskOf[results[t][i].key] \in Owes(t)'
      BY <1>3 DEF Owes, PendingIds, OutcomePCs
    <2>1. i \in 1 .. Len(results[t]) /\ Len(results[t]) \in Nat
      BY <1>3, LenProperties
    <2>2. CASE i = 1
      BY <1>3, <1>4, <2>2 DEF Owes, Id
    <2>3. CASE i # 1
      <3>1. /\ Tail(results[t]) \in Seq(Clones)
            /\ Len(Tail(results[t])) = Len(results[t]) - 1
            /\ \A j \in 1 .. Len(Tail(results[t])) : Tail(results[t])[j] = results[t][j + 1]
        BY <1>3, HeadTailProperties
      <3>2. i - 1 \in 1 .. Len(Tail(results[t])) /\ (i - 1) + 1 = i
        BY <2>1, <2>3, <3>1
      <3>3. i - 1 \in DOMAIN results'[t] /\ results'[t][i - 1] = results[t][i]
        BY <1>3, <3>1, <3>2, LenProperties
      <3> QED
        BY <3>3 DEF Owes, PendingIds
    <2> QED
      BY <2>2, <2>3
  <1> QED
    BY <1>2, <1>3, <1>5, SlotsFollow DEF SlotInv

LEMMA RaiseKeeps ==
  ASSUME SlotInv, NEW t \in Threads, Raise(t), pc[t] \notin OutcomePCs,
         UNCHANGED poolVars
  PROVE  SlotAccounted'
  <1>1. ThreadTypes /\ Alone(t)
    BY AloneMoves DEF Raise, SlotInv, DispatchInv
  <1>2. abandoned \subseteq abandoned' /\ Owes(t) \subseteq abandoned'
    BY DEF Raise, Owes
  <1> QED
    BY <1>1, <1>2, SlotsFollow DEF SlotInv

\* complete_task, fail_task and the two finalize actions that only release.
LEMMA SettleKeeps ==
  ASSUME SlotInv, NEW t \in Threads,
         Finish(t) \/ Fail(t) \/ ReleaseForRequeue(t) \/ ReleaseOnly(t)
  PROVE  SlotAccounted'
  <1>1. /\ pc[t] \in OutcomePCs /\ ReleaseCall(t) /\ UNCHANGED <<results, abandoned>>
        /\ \E l : Goto(t, l) \/ Done(t, l)
    BY DEF Finish, Fail, ReleaseForRequeue, ReleaseOnly, ReleaseThen, At, OutcomePCs
  <1>2. ThreadTypes /\ Alone(t)
    BY <1>1, AloneMoves DEF SlotInv, DispatchInv
  <1>3. Id(t) \in TaskIds
    BY <1>1, <1>2, ItemTyped DEF OutcomePCs, Between
  <1>4. Owes(t) \subseteq Owes(t)' \cup {Id(t)}
    BY <1>1 DEF Owes, PendingIds
  <1> QED
    BY <1>1, <1>2, <1>3, <1>4, SlotsFollow DEF SlotInv

\* Every other step is quiet.
LEMMA QuietRound ==
  ASSUME ThreadTypes, NEW t \in Threads,
         \/ Begin(t) \/ CheckFree(t) \/ Pop(t) \/ PopNone(t) \/ AcquireFails(t)
         \/ GiveBack(t) \/ Execute(t) \/ ExecuteSync(t) \/ ExecuteCollapse(t)
  PROVE  Quiet(t) /\ Alone(t)
  <1> USE DEF Quiet, Alone, ThreadTypes, At, OutcomePCs, poolVars
  <1>1. CASE Begin(t)
    BY <1>1 DEF Begin, Goto
  <1>2. CASE CheckFree(t)
    BY <1>2 DEF CheckFree, Goto
  <1>3. CASE Pop(t)
    BY <1>3 DEF Pop, About
  <1>4. CASE PopNone(t)
    BY <1>4 DEF PopNone, Goto
  <1>5. CASE AcquireFails(t)
    BY <1>5 DEF AcquireFails, Goto
  <1>6. CASE GiveBack(t)
    BY <1>6 DEF GiveBack, Done
  <1>7. CASE Execute(t)
    BY <1>7 DEF Execute, Goto
  <1>8. CASE ExecuteSync(t)
    BY <1>8 DEF ExecuteSync, About
  <1>9. CASE ExecuteCollapse(t)
    BY <1>9 DEF ExecuteCollapse, About
  <1> QED
    BY <1>1, <1>2, <1>3, <1>4, <1>5, <1>6, <1>7, <1>8, <1>9

LEMMA QuietSettle ==
  ASSUME ThreadTypes, NEW t \in Threads,
         \/ MarkFinishedCall(t) \/ IncrementCall(t) \/ Reread(t) \/ Retry(t)
         \/ MarkFailedCall(t) \/ RepoFailed(t) \/ RepoFinished(t) \/ Unblock(t)
         \/ Unblocked(t) \/ RequeueReady(t)
  PROVE  Quiet(t) /\ Alone(t)
  <1> USE DEF Quiet, Alone, ThreadTypes, At, OutcomePCs, poolVars
  <1>1. CASE MarkFinishedCall(t)
    BY <1>1 DEF MarkFinishedCall, Goto
  <1>2. CASE IncrementCall(t)
    BY <1>2 DEF IncrementCall, Goto
  <1>3. CASE Reread(t)
    BY <1>3 DEF Reread, Goto, About
  <1>4. CASE Retry(t)
    BY <1>4 DEF Retry, Goto
  <1>5. CASE MarkFailedCall(t)
    BY <1>5 DEF MarkFailedCall, Goto
  <1>6. CASE RepoFailed(t)
    BY <1>6 DEF RepoFailed, Done, Between
  <1>7. CASE RepoFinished(t)
    BY <1>7 DEF RepoFinished, Done, Between
  <1>8. CASE Unblock(t)
    BY <1>8 DEF Unblock, About
  <1>9. CASE Unblocked(t)
    BY <1>9 DEF Unblocked, Done
  <1>10. CASE RequeueReady(t)
    BY <1>10 DEF RequeueReady, Done
  <1> QED
    BY <1>1, <1>2, <1>3, <1>4, <1>5, <1>6, <1>7, <1>8, <1>9, <1>10

LEMMA QuietRequest ==
  ASSUME ThreadTypes, NEW t \in Threads,
         NewRequest(t) \/ SyncStep(t)
  PROVE  Quiet(t) /\ Alone(t)
  <1> USE DEF Quiet, Alone, ThreadTypes, At, OutcomePCs, poolVars
  <1>1. CASE PauseRequest(t)
    BY <1>1 DEF PauseRequest, Goto, Request
  <1>2. CASE CancelRequest(t)
    BY <1>2 DEF CancelRequest, About, Request
  <1>3. CASE PriorityRequest(t)
    BY <1>3 DEF PriorityRequest, Goto, Request
  <1>4. CASE ForgetRequest(t)
    BY <1>4 DEF ForgetRequest, About, Request
  <1>5. CASE SyncRequest(t) \/ BlockRequest(t)
    BY <1>5 DEF SyncRequest, BlockRequest, About, Request
  <1>6. CASE Free(t)
    BY <1>6 DEF Free, Done, Between
  <1>7. CASE Forget(t)
    BY <1>7 DEF Forget, Goto, Between
  <1>8. CASE Drop(t)
    BY <1>8 DEF Drop, Done
  <1>9. CASE Block(t)
    BY <1>9 DEF Block, Goto, Done
  <1>10. CASE Admit(t)
    BY <1>10 DEF Admit, Done
  <1> QED
    BY <1>1, <1>2, <1>3, <1>4, <1>5, <1>6, <1>7, <1>8, <1>9, <1>10 DEF NewRequest, SyncStep

LEMMA SlotNextInv == SlotInv /\ [Next]_vars => SlotInv'
  <1> SUFFICES ASSUME SlotInv, [Next]_vars
               PROVE  SlotAccounted'
    BY DispatchNextInv DEF SlotInv
  <1>1. ThreadTypes
    BY DEF SlotInv, DispatchInv
  <1>2. ASSUME NEW t \in Threads, RoundStep(t) \/ Begin(t)
        PROVE  SlotAccounted'
    <2>1. CASE RoundRaises(t)
      BY <2>1, RaiseKeeps DEF RoundRaises, RaisePCs, OutcomePCs
    <2> QED
      BY <1>1, <1>2, <2>1, AcquireKeeps, OutcomeKeeps, QuietRound, QuietKeeps DEF RoundStep
  <1>3. ASSUME NEW t \in Threads, SettleStep(t)
        PROVE  SlotAccounted'
    <2>1. CASE MarkFinishedDenied(t)
      BY <2>1, RaiseKeeps DEF MarkFinishedDenied, At, OutcomePCs
    <2> QED
      BY <1>1, <1>3, <2>1, SettleKeeps, QuietSettle, QuietKeeps DEF SettleStep
  <1>4. ASSUME NEW t \in Threads, NewRequest(t) \/ SyncStep(t)
        PROVE  SlotAccounted'
    BY <1>1, <1>4, QuietRequest, QuietKeeps
  <1>5. CASE UNCHANGED vars
    BY <1>5 DEF vars, threadVars, poolVars, SlotAccounted, SlotInv, Owed, Owes,
       PendingIds, Id
  <1> QED
    BY <1>2, <1>3, <1>4, <1>5 DEF Next, ThreadStep, Rest

\* For any number of threads, workers and requests, no slot leaks: a busy
\* slot belongs to a task some thread still has to settle or to a round that
\* an exception ended.
THEOREM SlotsAccounted == Spec => []SlotAccounted
  <1>1. Init => SlotAccounted
    BY DEF Init, PoolInit, SlotAccounted
  <1>2. Init => SlotInv
    BY <1>1, DispatchInitInv DEF SlotInv
  <1>3. SlotInv => SlotAccounted
    BY DEF SlotInv
  <1> QED
    BY <1>2, <1>3, SlotNextInv, PTL DEF Spec

\* Dispatch uses the pool as a slot table: under every interleaving a task is
\* taken on only by an empty slot and only when no slot has it.
THEOREM DispatchRefinesTable == Spec => PoolImplementsTable
  <1>1. Init => Table!Init
    BY DEF Init, PoolInit, Table!Init
  <1>2. DispatchInv /\ [Next]_vars => [Table!Next]_byWorker
    BY NextPool, AcquireRefinesTake DEF DispatchInv
  <1> QED
    BY <1>1, <1>2, DispatchInitInv, DispatchNextInv, PTL
       DEF Spec, PoolImplementsTable, Table!Spec

-----------------------------------------------------------------------------
(* Popped tasks.                                                           *)

LEMMA ThreadAlone ==
  ASSUME ThreadTypes, NEW t \in Threads, ThreadStep(t) \/ NewRequest(t) \/ Begin(t)
  PROVE  Alone(t)
  <1>1. CASE AcquireSlot(t) \/ Outcome(t) \/ RoundRaises(t) \/ MarkFinishedDenied(t)
    BY <1>1, AloneMoves DEF AcquireSlot, Outcome, RoundRaises, MarkFinishedDenied, Raise
  <1>2. CASE Finish(t) \/ Fail(t) \/ ReleaseForRequeue(t) \/ ReleaseOnly(t)
    BY <1>2, AloneMoves DEF Finish, Fail, ReleaseThen, ReleaseForRequeue, ReleaseOnly
  <1> QED
    BY <1>1, <1>2, QuietRound, QuietSettle, QuietRequest
       DEF ThreadStep, RoundStep, SettleStep

\* Another stored task has the task id of k: a session's, or a branch's.
Ambiguous(k) == \E j \in Stored \ {k} : TaskOf[j] = TaskOf[k]

LEMMA ResolveUnambiguous ==
  ASSUME NEW k \in Stored, ~Ambiguous(k)
  PROVE  Resolve(TaskOf[k], NoSession) = k
  <1>1. Plain(TaskOf[k], NoSession) \subseteq {k} /\ Matches(TaskOf[k], NoSession) = {k}
    BY DEF Ambiguous, Plain, Matches, Stored
  <1>2. Plain(TaskOf[k], NoSession) # {} => Plain(TaskOf[k], NoSession) = {k}
    BY <1>1
  <1>3. Only({k}) = k
    BY DEF Only
  <1> QED
    BY <1>1, <1>2, <1>3 DEF Resolve

\* What a popped task may become in one step.
Kept(k) ==
    \/ InFlight(k)' \/ Dispatched(k)' \/ k \in queued'
    \/ k \notin Stored' \/ tasks'[k].status # "running"
    \/ Ambiguous(k)

LEMMA PoppedStep ==
  ASSUME ThreadTypes, QueueTypeOK, [Next]_vars, NEW k \in Keys, InFlight(k)
  PROVE  Kept(k)
  <1>1. PICK t \in Threads : pc[t] \in {"acquire", "giveback"} /\ item[t].key = k
    BY DEF InFlight
  <1>2. ASSUME NEW u \in Threads \ {t}, Alone(u)
        PROVE  Kept(k)
    BY <1>1, <1>2 DEF Alone, Kept, InFlight
  <1>3. ASSUME ThreadStep(t) \/ NewRequest(t) \/ Begin(t)
        PROVE  AcquireSlot(t) \/ AcquireFails(t) \/ GiveBack(t)
    <2>1. ~(NewRequest(t) \/ Begin(t))
      BY <1>1
         DEF NewRequest, PauseRequest, CancelRequest, PriorityRequest, BlockRequest,
             ForgetRequest, SyncRequest, Request, Begin, At
    <2>2. ~SyncStep(t)
      BY <1>1 DEF SyncStep, Free, Forget, Drop, Block, Admit, At
    <2>3. ~SettleStep(t)
      BY <1>1
         DEF SettleStep, Finish, Fail, MarkFinishedCall, MarkFinishedDenied, IncrementCall,
             Reread, Retry, MarkFailedCall, RepoFailed, RepoFinished, Unblock, Unblocked,
             ReleaseForRequeue, RequeueReady, ReleaseOnly, At
    <2>4. ~(\/ CheckFree(t) \/ Pop(t) \/ PopNone(t) \/ Execute(t) \/ ExecuteSync(t)
            \/ ExecuteCollapse(t) \/ Outcome(t) \/ RoundRaises(t))
      BY <1>1
         DEF CheckFree, Pop, PopNone, Execute, ExecuteSync, ExecuteCollapse, Outcome,
             RoundRaises, RaisePCs, At
    <2> QED
      BY <1>3, <2>1, <2>2, <2>3, <2>4 DEF ThreadStep, RoundStep
  <1>4. CASE AcquireSlot(t)
    <2>1. results[t] \in Seq(Clones) /\ item[t] \in Clones
      BY <1>1, ItemTyped DEF ThreadTypes, Between
    <2> DEFINE r == Append(results[t], item[t])
    <2>2. Len(r) \in DOMAIN r /\ r[Len(r)] = item[t]
      BY <2>1
    <2>3. results'[t] = r
      BY <1>4 DEF AcquireSlot, ThreadTypes
    <2> HIDE DEF r
    <2> QED
      BY <1>1, <2>2, <2>3 DEF Kept, Dispatched
  <1>5. CASE AcquireFails(t)
    BY <1>1, <1>5 DEF AcquireFails, Goto, Kept, InFlight, ThreadTypes
  <1>6. CASE GiveBack(t)
    <2> SUFFICES ASSUME k \in Stored, ~Ambiguous(k), k \notin queued
                 PROVE  k \in queued'
      <3>1. CASE k \in queued
        BY <1>6, <3>1 DEF GiveBack, RequeueCall, Requeue, Push, queueVars, Kept
      <3>2. CASE k \notin Stored
        BY <1>6, <3>2
           DEF GiveBack, RequeueCall, CanRequeue, Requeue, Push, queueVars, Kept, Stored,
               QueueTypeOK
      <3> QED
        BY <3>1, <3>2 DEF Kept
    <2>1. KeyOf(t) = k /\ CanRequeue(k)
      BY <1>1, ResolveUnambiguous DEF KeyOf, Id, CanRequeue
    <2> QED
      BY <1>6, <2>1 DEF GiveBack, RequeueCall, Requeue, Push
  <1>7. CASE UNCHANGED vars
    BY <1>1, <1>7 DEF vars, threadVars, Kept, InFlight
  <1> QED
    BY <1>2, <1>3, <1>4, <1>5, <1>6, <1>7, ThreadAlone DEF Next, Rest

\* A popped task is not lost between dispatch_once's pop and its acquire: it
\* stays in its thread's hands until it is dispatched, queued again or taken
\* out by a request, unless another stored task has its task id, by which alone
\* dispatch_once names it when it gives it back.
THEOREM PoppedNotLost == Spec => [][\A k \in Keys : InFlight(k) => Kept(k)]_vars
  <1>1. ThreadTypes /\ QueueTypeOK /\ [Next]_vars
           => [\A k \in Keys : InFlight(k) => Kept(k)]_vars
    BY PoppedStep
  <1>2. DispatchInv => ThreadTypes /\ QueueTypeOK
    BY DEF DispatchInv, RankInv, StoreInv
  <1> QED
    BY <1>1, <1>2, DispatchInitInv, DispatchNextInv, PTL DEF Spec
=============================================================================
