---------------------------- MODULE MissionProofs ----------------------------
(***************************************************************************)
(* The mission scheduler's file, for any missions, schedulers, operators   *)
(* and crashes.  Every process may save a copy that is older than the      *)
(* file, so the invariant speaks of every copy: SchedulerInv says that     *)
(* each one is well formed and claims no completion that has not happened. *)
(*                                                                         *)
(* The iterations of the mission daemon, for any number of crashes,        *)
(* exceptions and requests and any answers of the scheduler.               *)
(*                                                                         *)
(* The checkpoint of the daemon's file decides what an iteration that      *)
(* resumes may skip, so the invariant says what each phase of the file     *)
(* promises (PhaseInv), that the process is where the phase says           *)
(* (DaemonPlaceInv) and that requests, which write the file beside the     *)
(* process, leave alone what the two must agree on (AgreeInv).             *)
(***************************************************************************)
EXTENDS MissionLayer, TLAPS

-----------------------------------------------------------------------------
(***************************************************************************)
(* The mission scheduler                                                   *)
(***************************************************************************)

-----------------------------------------------------------------------------
(* Operations on a loaded state.                                           *)

\* f with one entry replaced.
LEMMA EntryReplaced ==
  ASSUME SchedulerAssumption, NEW f, FileOK(f), NEW m \in Entries(f), NEW e \in Entry,
         e.status = "running" <=> e.lease # None
  PROVE  /\ FileOK([f EXCEPT !.entry[m] = e])
         /\ [f EXCEPT !.entry[m] = e].entry = [f.entry EXCEPT ![m] = e]
         /\ Entries([f EXCEPT !.entry[m] = e]) = Entries(f)
  <1> DEFINE g == [f EXCEPT !.entry[m] = e]
  <1>1. f \in Files /\ m \in Missions /\ f.entry \in [Missions -> Entry \cup {None}]
    BY DEF FileOK, Files, Entries
  <1>2. /\ g.entry = [f.entry EXCEPT ![m] = e] /\ g.order = f.order
        /\ g.pause = f.pause /\ g.stop = f.stop /\ g.status = f.status
    BY <1>1 DEF Files
  <1>3. g.entry \in [Missions -> Entry \cup {None}]
    BY <1>1, <1>2
  <1>4. g \in Files
    BY <1>1, <1>3 DEF Files
  <1>5. Entries(g) = Entries(f)
    BY <1>1, <1>2 DEF Entries, SchedulerAssumption
  <1>6. \A d \in Entries(g) : g.entry[d].status = "running" <=> g.entry[d].lease # None
    BY <1>1, <1>2, <1>5 DEF FileOK, Entries
  <1> QED
    BY <1>2, <1>4, <1>5, <1>6 DEF FileOK

\* f with another status and other requests.
LEMMA StatusReplaced ==
  ASSUME NEW f, FileOK(f), NEW s \in SchedulerStatuses
  PROVE  /\ FileOK([f EXCEPT !.status = s])
         /\ [f EXCEPT !.status = s].entry = f.entry
  <1>1. /\ [f EXCEPT !.status = s] \in Files /\ [f EXCEPT !.status = s].entry = f.entry
        /\ [f EXCEPT !.status = s].order = f.order
    BY DEF FileOK, Files
  <1> QED
    BY <1>1 DEF FileOK, Entries

LEMMA RequestedFacts ==
  ASSUME NEW f, FileOK(f), NEW a \in {"pause", "resume", "stop"}
  PROVE  FileOK(Requested(f, a)) /\ Requested(f, a).entry = f.entry
  <1>1. /\ Requested(f, a) \in Files /\ Requested(f, a).entry = f.entry
        /\ Requested(f, a).order = f.order
    BY DEF FileOK, Files, Requested, SchedulerStatuses
  <1> QED
    BY <1>1 DEF FileOK, Entries

\* f with all entries replaced one by one.
LEMMA EntriesReplaced ==
  ASSUME SchedulerAssumption, NEW f, FileOK(f),
         NEW new \in [Missions -> Entry \cup {None}],
         \A m \in Missions : new[m] = None <=> f.entry[m] = None,
         \A m \in Missions : new[m] # None =>
            (new[m].status = "running" <=> new[m].lease # None)
  PROVE  FileOK([f EXCEPT !.entry = new]) /\ [f EXCEPT !.entry = new].entry = new
  <1>1. /\ [f EXCEPT !.entry = new] \in Files /\ [f EXCEPT !.entry = new].entry = new
        /\ [f EXCEPT !.entry = new].order = f.order
    BY DEF FileOK, Files
  <1> QED
    BY <1>1 DEF FileOK, Entries

LEMMA FreeEntry ==
  ASSUME SchedulerAssumption, NEW s \in EntryStatuses, s # "running"
  PROVE  /\ [status |-> s, lease |-> None, age |-> 0] \in Entry
         /\ [status |-> s, lease |-> None, age |-> 0] # None
  BY DEF Entry, SchedulerAssumption

LEMMA RecoverFacts ==
  ASSUME SchedulerAssumption, NEW f, FileOK(f)
  PROVE  /\ FileOK(Recover(f))
         /\ \A m \in Missions :
              \/ Recover(f).entry[m] = f.entry[m]
              \/ /\ m \in Entries(f) /\ f.entry[m].status = "running"
                 /\ Recover(f).entry[m] = [status |-> "queued", lease |-> None, age |-> 0]
  <1> DEFINE free == [status |-> "queued", lease |-> None, age |-> 0]
             new == [m \in Missions |-> IF m \in RunOut(f) THEN free ELSE f.entry[m]]
  <1>1. free \in Entry /\ free # None /\ free.status = "queued" /\ free.lease = None
    BY FreeEntry DEF EntryStatuses
  <1>2. f.entry \in [Missions -> Entry \cup {None}]
    BY DEF FileOK, Files
  <1> HIDE DEF free
  <1>3. new \in [Missions -> Entry \cup {None}]
    BY <1>1, <1>2
  <1>4. \A m \in Missions : /\ new[m] = None <=> f.entry[m] = None
                            /\ \/ new[m] = f.entry[m]
                               \/ /\ m \in Entries(f) /\ f.entry[m].status = "running"
                                  /\ new[m] = free
    BY <1>1 DEF RunOut, Entries
  <1>5. \A m \in Missions : new[m] # None => (new[m].status = "running" <=> new[m].lease # None)
    BY <1>1, <1>4 DEF FileOK, Entries
  <1>6. Recover(f) = [f EXCEPT !.entry = new]
    BY DEF Recover, free
  <1> HIDE DEF new
  <1>7. FileOK(Recover(f)) /\ Recover(f).entry = new
    BY <1>3, <1>4, <1>5, <1>6, EntriesReplaced
  <1> QED
    BY <1>4, <1>7 DEF free

LEMMA AgedFacts ==
  ASSUME SchedulerAssumption, NEW f, FileOK(f)
  PROVE  /\ FileOK(Aged(f))
         /\ \A m \in Missions :
              \/ Aged(f).entry[m] = f.entry[m]
              \/ /\ m \in Entries(f) /\ f.entry[m].lease # None
                 /\ Aged(f).entry[m] # None
                 /\ Aged(f).entry[m].status = f.entry[m].status
  <1> DEFINE new == [m \in Missions |->
                IF f.entry[m] # None /\ f.entry[m].lease # None /\ f.entry[m].age < LeaseTicks
                THEN [f.entry[m] EXCEPT !.age = @ + 1]
                ELSE f.entry[m]]
  <1>1. ASSUME NEW m \in Missions
        PROVE  /\ new[m] \in Entry \cup {None} /\ (new[m] = None <=> f.entry[m] = None)
               /\ \/ new[m] = f.entry[m]
                  \/ /\ m \in Entries(f) /\ f.entry[m].lease # None
                     /\ new[m].status = f.entry[m].status /\ new[m].lease = f.entry[m].lease
    <2>1. f.entry[m] \in Entry \cup {None}
      BY DEF FileOK, Files
    <2>2. CASE f.entry[m] # None /\ f.entry[m].lease # None /\ f.entry[m].age < LeaseTicks
      <3>1. f.entry[m].age + 1 \in 0..LeaseTicks
        BY <2>1, <2>2 DEF Entry, SchedulerAssumption
      <3>2. /\ [f.entry[m] EXCEPT !.age = @ + 1] \in Entry
            /\ [f.entry[m] EXCEPT !.age = @ + 1].status = f.entry[m].status
            /\ [f.entry[m] EXCEPT !.age = @ + 1].lease = f.entry[m].lease
        BY <2>1, <2>2, <3>1 DEF Entry
      <3> QED
        BY <2>2, <3>2 DEF Entries, SchedulerAssumption
    <2>3. CASE ~(f.entry[m] # None /\ f.entry[m].lease # None /\ f.entry[m].age < LeaseTicks)
      BY <2>1, <2>3
    <2> QED
      BY <2>2, <2>3
  <1>2. new \in [Missions -> Entry \cup {None}]
    BY <1>1
  <1>3. Aged(f) = [f EXCEPT !.entry = new]
    BY DEF Aged
  <1> HIDE DEF new
  <1>4. \A m \in Missions : new[m] # None => (new[m].status = "running" <=> new[m].lease # None)
    BY <1>1 DEF FileOK, Entries
  <1>5. FileOK(Aged(f)) /\ Aged(f).entry = new
    BY <1>1, <1>2, <1>3, <1>4, EntriesReplaced
  <1> QED
    BY <1>1, <1>5 DEF Entries

LEMMA LeasedFacts ==
  ASSUME SchedulerAssumption, NEW f, FileOK(f), NEW m \in Entries(f), NEW i \in LeaseIds
  PROVE  /\ FileOK(Leased(f, m, i))
         /\ \A d \in Missions : d # m => Leased(f, m, i).entry[d] = f.entry[d]
         /\ Leased(f, m, i).entry[m].status = "running"
  <1> DEFINE e == [status |-> "running", lease |-> i, age |-> 0]
             g == [f EXCEPT !.entry[m] = e]
  <1>1. e \in Entry /\ e.status = "running" /\ e.lease # None
    BY DEF Entry, EntryStatuses, SchedulerAssumption
  <1> HIDE DEF e
  <1>2. FileOK(g) /\ g.entry = [f.entry EXCEPT ![m] = e]
    BY <1>1, EntryReplaced
  <1>3. f.entry \in [Missions -> Entry \cup {None}] /\ m \in Missions
    BY DEF FileOK, Files, Entries
  <1>4. Leased(f, m, i) = [g EXCEPT !.status = "running"]
    BY DEF Leased, e
  <1> HIDE DEF g
  <1>5. FileOK(Leased(f, m, i)) /\ Leased(f, m, i).entry = g.entry
    BY <1>2, <1>4, StatusReplaced DEF SchedulerStatuses
  <1> QED
    BY <1>1, <1>2, <1>3, <1>5

LEMMA ReleasedFacts ==
  ASSUME SchedulerAssumption, NEW f, FileOK(f), NEW m \in Entries(f),
         NEW s \in EntryStatuses, s # "running"
  PROVE  /\ FileOK(Released(f, m, s))
         /\ \A d \in Missions : d # m => Released(f, m, s).entry[d] = f.entry[d]
         /\ Released(f, m, s).entry[m].status = s
  <1> DEFINE e == [status |-> s, lease |-> None, age |-> 0]
  <1>1. e \in Entry /\ e.status = s /\ e.lease = None
    BY FreeEntry
  <1> HIDE DEF e
  <1>2. Released(f, m, s) = [f EXCEPT !.entry[m] = e]
    BY DEF Released, e
  <1>3. /\ FileOK(Released(f, m, s))
        /\ Released(f, m, s).entry = [f.entry EXCEPT ![m] = e]
    BY <1>1, <1>2, EntryReplaced
  <1>4. f.entry \in [Missions -> Entry \cup {None}] /\ m \in Missions
    BY DEF FileOK, Files, Entries
  <1> QED
    BY <1>1, <1>3, <1>4

-----------------------------------------------------------------------------
(* The invariant.                                                          *)

\* A process that is about to save has something to save, one that drives a
\* mission has a lease on it, and an outcome is kept until the release only.
PlaceInv ==
    /\ \A p \in Procs : pc[p] \in {"save", "publish", "command"} => mem[p] # None
    /\ \A p \in Schedulers :
          /\ pc[p] \in {"drive", "reload"} => cur[p] # None
          /\ pc[p] = "reload" <=> result[p] # None
          /\ cur[p] # None => held[p] # None

Honest(f, finished) ==
    \A m \in Missions : f.entry[m] # None /\ f.entry[m].status = "completed" => m \in finished

\* Every copy of the file that may be saved is honest, and so is what a driver
\* has answered.
HonestInv ==
    /\ Honest(file, done)
    /\ \A p \in Procs : mem[p] # None => Honest(mem[p], done)
    /\ \A p \in Schedulers : result[p] = "completed" => cur[p] \in done

SchedulerInv == TypeOK /\ PlaceInv /\ HonestInv

\* A process takes a new copy.
LEMMA KeepStep ==
  ASSUME SchedulerAssumption, SchedulerInv, NEW p \in Procs, NEW f, FileOK(f),
         Honest(f, done), NEW next \in {"save", "command"}, Keep(p, f, next),
         UNCHANGED <<file, done, crashes>>,
         cur' \in [Schedulers -> Missions \cup {None}],
         held' \in [Schedulers -> LeaseIds \cup {None}],
         result' \in [Schedulers -> Outcomes \cup {None}],
         \A q \in Schedulers : cur'[q] # None => held'[q] # None,
         \A q \in Schedulers : q = p => result'[q] = None,
         \A q \in Schedulers : q # p => cur'[q] = cur[q] /\ result'[q] = result[q]
  PROVE  SchedulerInv'
  <1> USE DEF SchedulerInv
  <1>1. f \in Files /\ f # None
    BY DEF FileOK, SchedulerAssumption
  <1>2. /\ mem' = [mem EXCEPT ![p] = f] /\ pc' = [pc EXCEPT ![p] = next]
        /\ mem \in [Procs -> Files \cup {None}]
    BY DEF Keep, TypeOK
  <1>3. mem' \in [Procs -> Files \cup {None}]
    BY <1>1, <1>2
  <1>4. \A q \in Procs : /\ mem'[q] = IF q = p THEN f ELSE mem[q]
                         /\ pc'[q] = IF q = p THEN next ELSE pc[q]
    BY <1>2 DEF TypeOK
  <1>5. pc' \in [Procs -> {"idle", "save", "publish", "drive", "reload", "command"}]
    BY <1>2 DEF TypeOK
  <1>6. Schedulers \subseteq Procs
    BY DEF Procs
  <1>7. TypeOK'
    BY <1>3, <1>4, <1>5 DEF TypeOK, FileOK, Entries
  <1>8. PlaceInv'
    BY <1>1, <1>4, <1>6 DEF PlaceInv
  <1>9. \A q \in Procs : mem'[q] # None => Honest(mem'[q], done)
    BY <1>4 DEF HonestInv
  <1>10. \A q \in Schedulers : result'[q] = "completed" => cur'[q] \in done
    BY <1>6 DEF HonestInv, SchedulerAssumption, Outcomes
  <1>11. HonestInv'
    BY <1>9, <1>10 DEF HonestInv, Honest
  <1> QED
    BY <1>7, <1>8, <1>11

-----------------------------------------------------------------------------
(* The iterations.                                                         *)

\* What an iteration finds after it has recovered the leases is as honest as
\* the file.
LEMMA RecoverHonest ==
  ASSUME SchedulerAssumption, FileOK(file), Honest(file, done)
  PROVE  FileOK(Recover(file)) /\ Honest(Recover(file), done)
  BY RecoverFacts DEF Honest

LEMMA BeginIdleStep ==
  ASSUME SchedulerAssumption, SchedulerInv, NEW p \in Schedulers, BeginIdle(p)
  PROVE  SchedulerInv'
  <1> DEFINE f == Recover(file)
  <1>1. FileOK(f) /\ Honest(f, done)
    BY RecoverHonest DEF SchedulerInv, TypeOK, HonestInv
  <1>2. PICK s \in {"stopped", "paused", "idle"} : Keep(p, [f EXCEPT !.status = s], "save")
    BY DEF BeginIdle
  <1> DEFINE g == [f EXCEPT !.status = s]
  <1> HIDE DEF f
  <1>3. FileOK(g) /\ g.entry = f.entry
    BY <1>1, StatusReplaced DEF SchedulerStatuses
  <1>4. Honest(g, done)
    BY <1>1, <1>3 DEF Honest
  <1> HIDE DEF g
  <1>5. /\ UNCHANGED <<file, cur, held, result, done, crashes>> /\ p \in Procs
        /\ result[p] = None
    BY DEF BeginIdle, Procs, SchedulerInv, PlaceInv
  <1>6. Keep(p, g, "save")
    BY <1>2 DEF g
  <1> QED
    BY <1>3, <1>4, <1>5, <1>6, KeepStep DEF SchedulerInv, TypeOK, PlaceInv

LEMMA BeginDispatchStep ==
  ASSUME SchedulerAssumption, SchedulerInv, NEW p \in Schedulers, BeginDispatch(p)
  PROVE  SchedulerInv'
  <1> DEFINE f == Recover(file)
  <1>1. FileOK(f) /\ Honest(f, done)
    BY RecoverHonest DEF SchedulerInv, TypeOK, HonestInv
  <1>2. PICK m \in Candidates(f), i \in LeaseIds :
           /\ Keep(p, Leased(f, m, i), "save")
           /\ cur' = [cur EXCEPT ![p] = m]
           /\ held' = [held EXCEPT ![p] = i]
    BY DEF BeginDispatch
  <1> DEFINE g == Leased(f, m, i)
  <1> HIDE DEF f
  <1>3. m \in Entries(f) /\ m \in Missions
    BY DEF Candidates, Entries
  <1>4. /\ FileOK(g) /\ g.entry[m].status = "running"
        /\ \A d \in Missions : d # m => g.entry[d] = f.entry[d]
    BY <1>1, <1>3, LeasedFacts
  <1>5. Honest(g, done)
    BY <1>1, <1>4 DEF Honest
  <1>6. Keep(p, g, "save")
    BY <1>2
  <1> HIDE DEF g
  <1>7. UNCHANGED <<file, result, done, crashes>> /\ p \in Procs /\ result[p] = None
    BY DEF BeginDispatch, Procs, SchedulerInv, PlaceInv
  <1>8. /\ cur' \in [Schedulers -> Missions \cup {None}]
        /\ held' \in [Schedulers -> LeaseIds \cup {None}]
        /\ \A q \in Schedulers : q # p => cur'[q] = cur[q] /\ held'[q] = held[q]
        /\ cur'[p] = m /\ held'[p] = i
    BY <1>2, <1>3 DEF SchedulerInv, TypeOK
  <1>9. \A q \in Schedulers : cur'[q] # None => held'[q] # None
    BY <1>8 DEF SchedulerInv, PlaceInv, SchedulerAssumption
  <1> QED
    BY <1>4, <1>5, <1>6, <1>7, <1>8, <1>9, KeepStep DEF SchedulerInv, TypeOK

\* A save: the file is a process's copy, which it keeps or drops.
LEMMA SavesStep ==
  ASSUME SchedulerAssumption, SchedulerInv, NEW p \in Procs,
         mem[p] # None, file' = mem[p], mem' = mem \/ mem' = [mem EXCEPT ![p] = None],
         NEW next \in {"idle", "publish", "drive"}, pc' = [pc EXCEPT ![p] = next],
         next = "publish" => mem' = mem,
         next = "drive" /\ p \in Schedulers => cur[p] # None,
         p \in Schedulers => pc[p] # "reload",
         UNCHANGED <<cur, held, result, done, crashes>>
  PROVE  SchedulerInv'
  <1> USE DEF SchedulerInv
  <1>1. FileOK(mem[p]) /\ Honest(mem[p], done)
    BY DEF TypeOK, HonestInv
  <1>2. \A q \in Procs : /\ mem'[q] # None => mem'[q] = mem[q]
                         /\ q # p => mem'[q] = mem[q]
                         /\ pc'[q] = IF q = p THEN next ELSE pc[q]
    BY DEF TypeOK
  <1>3. mem' \in [Procs -> Files \cup {None}]
    BY DEF TypeOK
  <1>4. pc' \in [Procs -> {"idle", "save", "publish", "drive", "reload", "command"}]
    BY DEF TypeOK
  <1>5. Schedulers \subseteq Procs
    BY DEF Procs
  <1>6. \A q \in Procs : mem'[q] # None => FileOK(mem'[q]) /\ Honest(mem'[q], done)
    BY <1>2 DEF TypeOK, HonestInv
  <1>7. TypeOK'
    BY <1>1, <1>3, <1>4, <1>6 DEF TypeOK, FileOK, Entries
  <1>8. PlaceInv'
    BY <1>2, <1>5 DEF PlaceInv
  <1>9. HonestInv'
    BY <1>1, <1>6 DEF HonestInv, Honest
  <1> QED
    BY <1>7, <1>8, <1>9

LEMMA SaveStep ==
  ASSUME SchedulerAssumption, SchedulerInv, NEW p \in Schedulers, Save(p)
  PROVE  SchedulerInv'
  <1>1. /\ p \in Procs /\ pc[p] = "save" /\ mem[p] # None /\ file' = mem[p] /\ mem' = mem
        /\ pc' = [pc EXCEPT ![p] = "publish"]
        /\ UNCHANGED <<cur, held, result, done, crashes>>
    BY DEF Save, Procs, SchedulerInv, PlaceInv
  <1> QED
    BY <1>1, SavesStep

LEMMA SaveAgainStep ==
  ASSUME SchedulerAssumption, SchedulerInv, NEW p \in Schedulers, SaveAgain(p)
  PROVE  SchedulerInv'
  <1> DEFINE next == IF cur[p] # None THEN "drive" ELSE "idle"
  <1>1. /\ p \in Procs /\ pc[p] = "publish" /\ mem[p] # None /\ file' = mem[p]
        /\ mem' = [mem EXCEPT ![p] = None] /\ pc' = [pc EXCEPT ![p] = next]
        /\ UNCHANGED <<cur, held, result, done, crashes>>
    BY DEF SaveAgain, Procs, SchedulerInv, PlaceInv
  <1>2. next \in {"idle", "drive"} /\ (next = "drive" => cur[p] # None)
    OBVIOUS
  <1> HIDE DEF next
  <1> QED
    BY <1>1, <1>2, SavesStep

LEMMA DriveStep ==
  ASSUME SchedulerAssumption, SchedulerInv, NEW p \in Schedulers, Drive(p)
  PROVE  SchedulerInv'
  <1> USE DEF SchedulerInv
  <1>1. PICK o \in Outcomes :
           /\ result' = [result EXCEPT ![p] = o]
           /\ done' = IF o = "completed" THEN done \cup {cur[p]} ELSE done
    BY DEF Drive, Outcomes
  <1>2. /\ p \in Procs /\ pc[p] = "drive" /\ cur[p] # None /\ o # None
        /\ pc' = [pc EXCEPT ![p] = "reload"] /\ Schedulers \subseteq Procs
        /\ UNCHANGED <<file, mem, cur, held, crashes>>
    BY DEF Drive, Procs, PlaceInv, SchedulerAssumption
  <1>3. cur[p] \in Missions
    BY <1>2 DEF TypeOK
  <1>4. /\ done \subseteq done' /\ done' \subseteq Missions
        /\ o = "completed" => cur[p] \in done'
    BY <1>1, <1>3 DEF TypeOK
  <1>5. result' \in [Schedulers -> Outcomes \cup {None}]
    BY <1>1 DEF TypeOK
  <1>6. \A q \in Schedulers : result'[q] = IF q = p THEN o ELSE result[q]
    BY <1>1 DEF TypeOK
  <1>7. \A q \in Procs : pc'[q] = IF q = p THEN "reload" ELSE pc[q]
    BY <1>2 DEF TypeOK
  <1>8. pc' \in [Procs -> {"idle", "save", "publish", "drive", "reload", "command"}]
    BY <1>2 DEF TypeOK
  <1>9. TypeOK'
    BY <1>2, <1>4, <1>5, <1>8 DEF TypeOK, FileOK, Entries
  <1>10. PlaceInv'
    BY <1>2, <1>6, <1>7 DEF PlaceInv
  <1>11. \A q \in Schedulers : result'[q] = "completed" => cur'[q] \in done'
    BY <1>2, <1>4, <1>6 DEF HonestInv
  <1>12. HonestInv'
    BY <1>2, <1>4, <1>11 DEF HonestInv, Honest
  <1> QED
    BY <1>9, <1>10, <1>12

\* The release: what the second half of an iteration makes of the file.
LEMMA FinishFacts ==
  ASSUME SchedulerAssumption, SchedulerInv, NEW p \in Schedulers, Finish(p)
  PROVE  \E f : /\ Keep(p, f, "save") /\ FileOK(f) /\ Honest(f, done)
                /\ \A m \in Missions :
                     \/ f.entry[m] = file.entry[m]
                     \/ file.entry[m] # None /\ file.entry[m].status = "running"
  <1> USE DEF SchedulerInv
  <1> DEFINE m == cur[p]
             e == file.entry
  <1>1. /\ m \in Entries(file) /\ m \in Missions /\ FileOK(file) /\ Honest(file, done)
        /\ result[p] # None /\ result[p] \in Outcomes /\ held[p] # None
    BY DEF Finish, TypeOK, HonestInv, PlaceInv, Entries, SchedulerAssumption
  <1>2. CASE ~OwnsLease(p)
    <2> DEFINE g == [file EXCEPT !.status = "blocked"]
    <2>1. Keep(p, g, "save")
      BY <1>2 DEF Finish
    <2>2. FileOK(g) /\ g.entry = e
      BY <1>1, StatusReplaced DEF SchedulerStatuses
    <2>3. Honest(g, done)
      BY <1>1, <2>2 DEF Honest
    <2> HIDE DEF g
    <2> QED
      BY <2>1, <2>2, <2>3
  <1>3. ASSUME OwnsLease(p), NEW s \in EntryStatuses, s # "running",
               s = "completed" => m \in done, NEW t \in SchedulerStatuses,
               Keep(p, [Released(file, m, s) EXCEPT !.status = t], "save")
        PROVE  \E f : /\ Keep(p, f, "save") /\ FileOK(f) /\ Honest(f, done)
                      /\ \A d \in Missions :
                           \/ f.entry[d] = file.entry[d]
                           \/ file.entry[d] # None /\ file.entry[d].status = "running"
    <2> DEFINE r == Released(file, m, s)
               g == [r EXCEPT !.status = t]
    <2>1. /\ FileOK(r) /\ r.entry[m].status = s
          /\ \A d \in Missions : d # m => r.entry[d] = e[d]
      BY <1>1, <1>3, ReleasedFacts
    <2>2. e[m] # None /\ e[m].status = "running"
      BY <1>1, <1>3 DEF OwnsLease, FileOK, Entries
    <2> HIDE DEF r, m
    <2>3. FileOK(g) /\ g.entry = r.entry
      BY <1>3, <2>1, StatusReplaced
    <2>4. Keep(p, g, "save")
      BY <1>3 DEF r, m
    <2> HIDE DEF g
    <2>5. Honest(g, done)
      BY <1>1, <1>3, <2>1, <2>3 DEF Honest
    <2> QED
      BY <2>1, <2>2, <2>3, <2>4, <2>5
  <1>4. CASE OwnsLease(p) /\ result[p] = "error"
    <2>1. Keep(p, [Released(file, m, "queued") EXCEPT !.status = "blocked"], "save")
      BY <1>4 DEF Finish
    <2> QED
      BY <1>3, <1>4, <2>1 DEF EntryStatuses, SchedulerStatuses
  <1>5. CASE OwnsLease(p) /\ result[p] # "error"
    <2>1. Keep(p, [Released(file, m, result[p]) EXCEPT !.status = "running"], "save")
      BY <1>5 DEF Finish
    <2>2. result[p] \in EntryStatuses /\ result[p] # "running"
      BY <1>1, <1>5 DEF Outcomes, EntryStatuses, Terminal
    <2>3. result[p] = "completed" => m \in done
      BY DEF HonestInv
    <2> QED
      BY <1>3, <1>5, <2>1, <2>2, <2>3 DEF SchedulerStatuses
  <1> QED
    BY <1>2, <1>4, <1>5

LEMMA FinishStep ==
  ASSUME SchedulerAssumption, SchedulerInv, NEW p \in Schedulers, Finish(p)
  PROVE  SchedulerInv'
  <1>1. PICK f : Keep(p, f, "save") /\ FileOK(f) /\ Honest(f, done)
    BY FinishFacts
  <1>2. /\ UNCHANGED <<file, done, crashes>> /\ p \in Procs
        /\ cur' = [cur EXCEPT ![p] = None] /\ held' = [held EXCEPT ![p] = None]
        /\ result' = [result EXCEPT ![p] = None]
    BY DEF Finish, Procs
  <1>3. /\ cur' \in [Schedulers -> Missions \cup {None}]
        /\ held' \in [Schedulers -> LeaseIds \cup {None}]
        /\ result' \in [Schedulers -> Outcomes \cup {None}]
        /\ cur'[p] = None /\ result'[p] = None
        /\ \A q \in Schedulers : q # p =>
              cur'[q] = cur[q] /\ held'[q] = held[q] /\ result'[q] = result[q]
    BY <1>2 DEF SchedulerInv, TypeOK
  <1>4. \A q \in Schedulers : cur'[q] # None => held'[q] # None
    BY <1>3 DEF SchedulerInv, PlaceInv
  <1> QED
    BY <1>1, <1>2, <1>3, <1>4, KeepStep

\* A process starts again: an iteration that raises, a crash.
LEMMA ForgetStep ==
  ASSUME SchedulerAssumption, SchedulerInv, NEW p \in Procs,
         pc' = [pc EXCEPT ![p] = "idle"],
         mem' = mem \/ mem' = [mem EXCEPT ![p] = None],
         cur' = [q \in Schedulers |-> IF q = p THEN None ELSE cur[q]],
         held' = [q \in Schedulers |-> IF q = p THEN None ELSE held[q]],
         result' = [q \in Schedulers |-> IF q = p THEN None ELSE result[q]],
         crashes' \in 0..MaxCrashes, UNCHANGED <<file, done>>
  PROVE  SchedulerInv'
  <1> USE DEF SchedulerInv
  <1>1. Schedulers \subseteq Procs
    BY DEF Procs
  <1>2. /\ cur' \in [Schedulers -> Missions \cup {None}]
        /\ held' \in [Schedulers -> LeaseIds \cup {None}]
        /\ result' \in [Schedulers -> Outcomes \cup {None}]
    BY DEF TypeOK
  <1>3. mem' \in [Procs -> Files \cup {None}]
    BY DEF TypeOK
  <1>4. pc' \in [Procs -> {"idle", "save", "publish", "drive", "reload", "command"}]
    BY DEF TypeOK
  <1>5. \A q \in Procs : /\ mem'[q] # None => mem'[q] = mem[q]
                         /\ q # p => mem'[q] = mem[q]
                         /\ pc'[q] = IF q = p THEN "idle" ELSE pc[q]
    BY DEF TypeOK
  <1>6. \A q \in Procs : mem'[q] # None => FileOK(mem'[q]) /\ Honest(mem'[q], done)
    BY <1>5 DEF TypeOK, HonestInv
  <1>7. TypeOK'
    BY <1>2, <1>3, <1>4, <1>6 DEF TypeOK, FileOK, Entries
  <1>8. PlaceInv'
    BY <1>1, <1>5 DEF PlaceInv
  <1>9. \A q \in Schedulers : result'[q] = "completed" => cur'[q] \in done
    BY DEF HonestInv, SchedulerAssumption, Outcomes
  <1>10. HonestInv'
    BY <1>6, <1>9 DEF HonestInv, Honest
  <1> QED
    BY <1>7, <1>8, <1>10

LEMMA FinishRaisesStep ==
  ASSUME SchedulerAssumption, SchedulerInv, NEW p \in Schedulers, FinishRaises(p)
  PROVE  SchedulerInv'
  <1>1. /\ p \in Procs /\ pc' = [pc EXCEPT ![p] = "idle"] /\ mem' = mem
        /\ crashes' = crashes /\ UNCHANGED <<file, done>>
    BY DEF FinishRaises, Procs
  <1>2. /\ cur' = [q \in Schedulers |-> IF q = p THEN None ELSE cur[q]]
        /\ held' = [q \in Schedulers |-> IF q = p THEN None ELSE held[q]]
        /\ result' = [q \in Schedulers |-> IF q = p THEN None ELSE result[q]]
    BY DEF FinishRaises, SchedulerInv, TypeOK
  <1>3. crashes' \in 0..MaxCrashes
    BY <1>1 DEF SchedulerInv, TypeOK
  <1> QED
    BY <1>1, <1>2, <1>3, ForgetStep

LEMMA CrashStep ==
  ASSUME SchedulerAssumption, SchedulerInv, NEW p \in Procs, Crash(p)
  PROVE  SchedulerInv'
  <1>1. crashes' \in 0..MaxCrashes
    BY DEF Crash, SchedulerInv, TypeOK, SchedulerAssumption
  <1> QED
    BY <1>1, ForgetStep DEF Crash

-----------------------------------------------------------------------------
(* Commands and time.                                                      *)

LEMMA RequestActionStep ==
  ASSUME SchedulerAssumption, SchedulerInv, NEW o \in Operators, NEW a \in Requests[o],
         RequestAction(o, a)
  PROVE  SchedulerInv'
  <1> DEFINE f == Requested(file, a)
  <1>1. a \in {"pause", "resume", "stop"} /\ o \in Procs
    BY DEF SchedulerAssumption, Procs
  <1>2. FileOK(f) /\ f.entry = file.entry
    BY <1>1, RequestedFacts DEF SchedulerInv, TypeOK
  <1>3. Honest(f, done)
    BY <1>2 DEF SchedulerInv, HonestInv, Honest
  <1>4. /\ Keep(o, f, "command") /\ pc[o] = "idle"
        /\ UNCHANGED <<file, cur, held, result, done, crashes>>
    BY DEF RequestAction
  <1> HIDE DEF f
  <1>5. \A q \in Schedulers : q = o => result[q] = None
    BY <1>4 DEF SchedulerInv, PlaceInv
  <1> QED
    BY <1>1, <1>2, <1>3, <1>4, <1>5, KeepStep DEF SchedulerInv, TypeOK, PlaceInv

LEMMA EnqueueStep ==
  ASSUME SchedulerAssumption, SchedulerInv, NEW o \in Operators, NEW m \in Missions,
         Enqueue(o, m)
  PROVE  SchedulerInv'
  <1> DEFINE s == IF m \in done THEN "completed" ELSE "queued"
             e == [status |-> s, lease |-> None, age |-> 0]
             g == [file EXCEPT !.order = Append(@, m), !.entry[m] = e]
  <1>1. e \in Entry /\ e.status = s /\ e.lease = None /\ e # None
    <2>1. s \in EntryStatuses /\ s # "running"
      BY DEF EntryStatuses, Terminal
    <2> HIDE DEF s
    <2> QED
      BY <2>1, FreeEntry
  <1>2. /\ Keep(o, g, "command") /\ pc[o] = "idle" /\ m \notin Entries(file)
        /\ UNCHANGED <<file, cur, held, result, done, crashes>>
    BY DEF Enqueue
  <1> HIDE DEF e
  <1>3. /\ file \in Files /\ file.order \in Seq(Missions)
        /\ file.entry \in [Missions -> Entry \cup {None}]
        /\ Range(file.order) = Entries(file)
    BY DEF SchedulerInv, TypeOK, FileOK, Files
  <1>4. /\ g.order = Append(file.order, m) /\ g.entry = [file.entry EXCEPT ![m] = e]
        /\ g.pause = file.pause /\ g.stop = file.stop /\ g.status = file.status
    BY <1>3 DEF Files
  <1>5. g.order \in Seq(Missions) /\ g.entry \in [Missions -> Entry \cup {None}]
    BY <1>1, <1>3, <1>4
  <1>6. g \in Files
    BY <1>3, <1>4, <1>5 DEF Files
  <1>7. Range(g.order) = Range(file.order) \cup {m}
    BY <1>3, <1>4 DEF Range
  <1> HIDE DEF g
  <1>8. Entries(g) = Entries(file) \cup {m}
    BY <1>1, <1>3, <1>4 DEF Entries
  <1>9. \A d \in Entries(g) : g.entry[d].status = "running" <=> g.entry[d].lease # None
    <2>1. \A d \in Entries(file) :
             file.entry[d].status = "running" <=> file.entry[d].lease # None
      BY DEF SchedulerInv, TypeOK, FileOK
    <2>2. \A d \in Entries(file) : d # m /\ g.entry[d] = file.entry[d]
      BY <1>2, <1>3, <1>4 DEF Entries
    <2>3. g.entry[m] = e /\ e.status # "running"
      BY <1>1, <1>3, <1>4
    <2> QED
      BY <1>1, <1>8, <2>1, <2>2, <2>3
  <1>10. FileOK(g)
    BY <1>3, <1>6, <1>7, <1>8, <1>9 DEF FileOK
  <1>11. Honest(g, done)
    BY <1>1, <1>3, <1>4 DEF SchedulerInv, HonestInv, Honest
  <1>12. \A q \in Schedulers : q = o => result[q] = None
    BY <1>2 DEF SchedulerInv, PlaceInv
  <1>13. o \in Procs
    BY DEF Procs
  <1> QED
    BY <1>2, <1>10, <1>11, <1>12, <1>13, KeepStep DEF SchedulerInv, TypeOK, PlaceInv

LEMMA SaveCommandStep ==
  ASSUME SchedulerAssumption, SchedulerInv, NEW o \in Operators, SaveCommand(o)
  PROVE  SchedulerInv'
  <1>1. /\ o \in Procs /\ pc[o] = "command" /\ mem[o] # None /\ file' = mem[o]
        /\ mem' = [mem EXCEPT ![o] = None] /\ pc' = [pc EXCEPT ![o] = "idle"]
        /\ UNCHANGED <<cur, held, result, done, crashes>>
    BY DEF SaveCommand, Procs, SchedulerInv, PlaceInv
  <1> QED
    BY <1>1, SavesStep

LEMMA TickStep ==
  ASSUME SchedulerAssumption, SchedulerInv, Tick
  PROVE  SchedulerInv'
  <1> USE DEF SchedulerInv
  <1>1. \A f : FileOK(f) => FileOK(Aged(f)) /\ Aged(f) # None
    BY AgedFacts DEF FileOK, SchedulerAssumption
  <1>2. \A f : FileOK(f) /\ Honest(f, done) => Honest(Aged(f), done)
    BY AgedFacts DEF Honest, Entries
  <1>3. /\ file' = Aged(file) /\ UNCHANGED <<pc, cur, held, result, done, crashes>>
        /\ mem' = [p \in Procs |-> IF mem[p] = None THEN None ELSE Aged(mem[p])]
    BY DEF Tick
  <1>4. FileOK(file') /\ Honest(file', done)
    BY <1>1, <1>2, <1>3 DEF TypeOK, HonestInv
  <1>5. \A p \in Procs : /\ mem'[p] = None <=> mem[p] = None
                         /\ mem'[p] # None => FileOK(mem'[p]) /\ Honest(mem'[p], done)
    BY <1>1, <1>2, <1>3 DEF TypeOK, HonestInv
  <1>6. mem' \in [Procs -> Files \cup {None}]
    BY <1>3, <1>5 DEF FileOK
  <1>7. TypeOK'
    BY <1>3, <1>4, <1>5, <1>6 DEF TypeOK, FileOK, Entries
  <1>8. PlaceInv'
    BY <1>3, <1>5 DEF PlaceInv
  <1>9. HonestInv'
    BY <1>3, <1>4, <1>5 DEF HonestInv, Honest
  <1> QED
    BY <1>7, <1>8, <1>9

-----------------------------------------------------------------------------
(* The invariant holds.                                                    *)

LEMMA SchedulerInit ==
  ASSUME SchedulerAssumption, Init
  PROVE  SchedulerInv
  <1> DEFINE e == [status |-> "queued", lease |-> None, age |-> 0]
  <1>1. e \in Entry /\ e # None /\ e.status = "queued" /\ e.lease = None
    BY FreeEntry DEF EntryStatuses
  <1> HIDE DEF e
  <1>2. file = [order |-> Initial,
                entry |-> [m \in Missions |-> IF m \in Range(Initial) THEN e ELSE None],
                pause |-> FALSE, stop |-> FALSE, status |-> "created"]
    BY DEF Init, e
  <1>3. file \in Files
    BY <1>1, <1>2 DEF Files, SchedulerAssumption, SchedulerStatuses
  <1>4. Range(Initial) \subseteq Missions
    BY DEF Range, SchedulerAssumption
  <1>5. Entries(file) = Range(file.order)
    BY <1>1, <1>2, <1>4 DEF Entries
  <1>6. \A m \in Entries(file) : file.entry[m] = e
    BY <1>2 DEF Entries
  <1>7. FileOK(file)
    BY <1>1, <1>3, <1>5, <1>6 DEF FileOK
  <1>8. /\ pc = [p \in Procs |-> "idle"] /\ mem = [p \in Procs |-> None]
        /\ cur = [p \in Schedulers |-> None] /\ held = [p \in Schedulers |-> None]
        /\ result = [p \in Schedulers |-> None] /\ done = {} /\ crashes = 0
    BY DEF Init
  <1>9. /\ pc \in [Procs -> {"idle", "save", "publish", "drive", "reload", "command"}]
        /\ mem \in [Procs -> Files \cup {None}]
        /\ cur \in [Schedulers -> Missions \cup {None}]
        /\ held \in [Schedulers -> LeaseIds \cup {None}]
        /\ result \in [Schedulers -> Outcomes \cup {None}]
        /\ crashes \in 0..MaxCrashes
    BY <1>8 DEF SchedulerAssumption
  <1>10. TypeOK
    BY <1>7, <1>8, <1>9 DEF TypeOK
  <1>11. PlaceInv
    BY <1>8 DEF PlaceInv, Procs
  <1>12. HonestInv
    BY <1>1, <1>6, <1>8 DEF HonestInv, Honest, Entries, SchedulerAssumption, Outcomes
  <1> QED
    BY <1>10, <1>11, <1>12 DEF SchedulerInv

LEMMA SchedulerNext ==
  ASSUME SchedulerAssumption, SchedulerInv, [Next]_vars
  PROVE  SchedulerInv'
  <1>1. CASE \E p \in Schedulers : Step(p)
    BY <1>1, BeginIdleStep, BeginDispatchStep, SaveStep, SaveAgainStep, DriveStep,
       FinishStep, FinishRaisesStep DEF Step, Iterate
  <1>2. CASE \E o \in Operators : Command(o)
    BY <1>2, RequestActionStep, EnqueueStep, SaveCommandStep DEF Command
  <1>3. CASE \E p \in Procs : Crash(p)
    BY <1>3, CrashStep
  <1>4. CASE Tick
    BY <1>4, TickStep
  <1>5. CASE UNCHANGED vars
    BY <1>5 DEF vars, SchedulerInv, TypeOK, PlaceInv, HonestInv, Honest, FileOK, Entries
  <1> QED
    BY <1>1, <1>2, <1>3, <1>4, <1>5 DEF Next

\* The invariant of the mission scheduler: every copy of the file that may still
\* be saved is well formed and honest.
LEMMA SchedulerInvariant ==
  ASSUME SchedulerAssumption PROVE Spec => []SchedulerInv
  <1>1. Init => SchedulerInv
    BY SchedulerInit
  <1>2. SchedulerInv /\ [Next]_vars => SchedulerInv'
    BY SchedulerNext
  <1> QED
    BY <1>1, <1>2, PTL DEF Spec

\* Whatever iterations, commands and crashes overwrite, the file is one that
\* validate_mission_scheduler_state accepts.
THEOREM SchedulerTyped ==
  ASSUME SchedulerAssumption PROVE Spec => []TypeOK
  BY SchedulerInvariant, PTL DEF SchedulerInv

\* The file never claims that a mission has completed when its own file does not
\* (the release after the driver, enqueue_mission).
THEOREM SchedulerHonest ==
  ASSUME SchedulerAssumption PROVE Spec => []CompletedIsDone
  <1>1. SchedulerInv => CompletedIsDone
    BY DEF SchedulerInv, HonestInv, Honest, CompletedIsDone, Entries
  <1> QED
    BY <1>1, SchedulerInvariant, PTL

-----------------------------------------------------------------------------
(* One scheduler and no commands.                                          *)

\* g has every mission that f says has ended, as it is there.
Ended(f, g) ==
    \A m \in Missions : f.entry[m] # None /\ f.entry[m].status \in Terminal =>
        g.entry[m] = f.entry[m]

\* What the one process that saves may save.
AloneInv == \A p \in Procs : mem[p] # None => Ended(file, mem[p])

LEMMA AgedEnded ==
  ASSUME SchedulerAssumption, NEW f, FileOK(f)
  PROVE  Ended(f, Aged(f))
  BY AgedFacts DEF Ended, FileOK, Entries, Terminal

LEMMA AgedBothEnded ==
  ASSUME SchedulerAssumption, NEW f, FileOK(f), NEW g, FileOK(g), Ended(f, g)
  PROVE  Ended(Aged(f), Aged(g))
  <1> SUFFICES ASSUME NEW m \in Missions, Aged(f).entry[m] # None,
                      Aged(f).entry[m].status \in Terminal
               PROVE  Aged(g).entry[m] = Aged(f).entry[m]
    BY DEF Ended
  <1>1. f.entry[m] # None /\ f.entry[m].status \in Terminal
    BY AgedFacts DEF Entries
  <1>2. f.entry[m] = Aged(f).entry[m] /\ g.entry[m] = f.entry[m]
    BY <1>1, AgedEnded DEF Ended
  <1>3. Aged(g).entry[m] = g.entry[m]
    BY <1>1, <1>2, AgedEnded DEF Ended
  <1> QED
    BY <1>2, <1>3

\* Both halves of an iteration leave the missions that have ended alone.
LEMMA CopyEnded ==
  ASSUME SchedulerAssumption, SchedulerInv, NEW p \in Schedulers,
         BeginIdle(p) \/ BeginDispatch(p) \/ Finish(p)
  PROVE  \E f : mem' = [mem EXCEPT ![p] = f] /\ Ended(file, f)
  <1> DEFINE f == Recover(file)
  <1>1. FileOK(file)
    BY DEF SchedulerInv, TypeOK
  <1>2. FileOK(f) /\ Ended(file, f)
    BY <1>1, RecoverFacts DEF Ended, Terminal
  <1>3. CASE BeginIdle(p)
    <2>1. PICK s \in {"stopped", "paused", "idle"} : Keep(p, [f EXCEPT !.status = s], "save")
      BY <1>3 DEF BeginIdle
    <2> HIDE DEF f
    <2>2. [f EXCEPT !.status = s].entry = f.entry
      BY <1>2, StatusReplaced DEF SchedulerStatuses
    <2> QED
      BY <1>2, <2>1, <2>2 DEF Keep, Ended
  <1>4. CASE BeginDispatch(p)
    <2>1. PICK m \in Candidates(f), i \in LeaseIds : Keep(p, Leased(f, m, i), "save")
      BY <1>4 DEF BeginDispatch
    <2> HIDE DEF f
    <2>2. m \in Entries(f) /\ f.entry[m].status \notin Terminal
      BY DEF Candidates, Terminal
    <2>3. \A d \in Missions : d # m => Leased(f, m, i).entry[d] = f.entry[d]
      BY <1>2, <2>2, LeasedFacts
    <2>4. Ended(file, Leased(f, m, i))
      BY <1>2, <2>2, <2>3 DEF Ended
    <2> QED
      BY <2>1, <2>4 DEF Keep
  <1>5. CASE Finish(p)
    BY <1>5, FinishFacts DEF Keep, Ended, Terminal
  <1> QED
    BY <1>3, <1>4, <1>5

LEMMA AloneNext ==
  ASSUME SchedulerAssumption, NEW p, Schedulers = {p}, Operators = {},
         SchedulerInv, AloneInv, [Next]_vars
  PROVE  AloneInv' /\ Ended(file, file')
  <1>1. Procs = {p} /\ mem \in [Procs -> Files \cup {None}]
    BY DEF Procs, SchedulerInv, TypeOK
  <1>2. Ended(file, file)
    BY DEF Ended
  <1>3. ASSUME UNCHANGED file, mem'[p] = None \/ mem'[p] = mem[p]
        PROVE  AloneInv' /\ Ended(file, file')
    BY <1>1, <1>2, <1>3 DEF AloneInv, Ended
  <1>4. ASSUME BeginIdle(p) \/ BeginDispatch(p) \/ Finish(p)
        PROVE  AloneInv' /\ Ended(file, file')
    <2>1. PICK f : mem' = [mem EXCEPT ![p] = f] /\ Ended(file, f)
      BY <1>4, CopyEnded
    <2>2. mem'[p] = f /\ file' = file
      BY <1>1, <1>4, <2>1 DEF BeginIdle, BeginDispatch, Finish
    <2> QED
      BY <1>1, <1>2, <2>1, <2>2 DEF AloneInv, Ended
  <1>5. ASSUME Save(p) \/ SaveAgain(p)
        PROVE  AloneInv' /\ Ended(file, file')
    <2>1. file' = mem[p] /\ mem[p] # None /\ (mem'[p] = None \/ mem'[p] = mem[p])
      BY <1>1, <1>5 DEF Save, SaveAgain, SchedulerInv, PlaceInv
    <2>2. Ended(file, file') /\ Ended(mem[p], mem[p])
      BY <1>1, <2>1 DEF AloneInv, Ended
    <2> QED
      BY <1>1, <2>1, <2>2 DEF AloneInv, Ended
  <1>6. ASSUME Drive(p) \/ FinishRaises(p) \/ Crash(p) \/ UNCHANGED vars
        PROVE  AloneInv' /\ Ended(file, file')
    BY <1>1, <1>3, <1>6 DEF Drive, FinishRaises, Crash, vars
  <1>7. ASSUME Tick
        PROVE  AloneInv' /\ Ended(file, file')
    <2>1. /\ file' = Aged(file) /\ FileOK(file)
          /\ mem'[p] = IF mem[p] = None THEN None ELSE Aged(mem[p])
      BY <1>1, <1>7 DEF Tick, SchedulerInv, TypeOK
    <2>2. Ended(file, file')
      BY <2>1, AgedEnded
    <2>3. mem'[p] # None => Ended(file', mem'[p])
      BY <1>1, <2>1, AgedBothEnded DEF AloneInv, SchedulerInv, TypeOK
    <2> QED
      BY <1>1, <2>2, <2>3 DEF AloneInv, Ended
  <1> QED
    BY <1>1, <1>4, <1>5, <1>6, <1>7 DEF Next, Step, Iterate, Command

\* With one scheduler and no commands, whatever crashes, a mission that the file
\* says has ended stays as it is: no iteration queues or runs it again.
THEOREM SchedulerEndsOnce ==
  ASSUME SchedulerAssumption, NEW p, Schedulers = {p}, Operators = {}
  PROVE  Spec => EndsOnce
  <1>1. Init => AloneInv
    BY DEF Init, AloneInv
  <1>2. SchedulerInv /\ AloneInv /\ [Next]_vars =>
           AloneInv' /\ [\A m \in Missions :
                            file.entry[m] # None /\ file.entry[m].status \in Terminal =>
                               file'.entry[m] = file.entry[m]]_file
    BY AloneNext DEF Ended
  <1> QED
    BY <1>1, <1>2, SchedulerInvariant, PTL DEF Spec, EndsOnce

-----------------------------------------------------------------------------
(***************************************************************************)
(* The mission daemon                                                      *)
(***************************************************************************)

AgreeInv ==
    dmem # None => /\ dmem.phase = dfile.phase /\ dmem.loop = dfile.loop
                   /\ dmem.scheduled = dfile.scheduled /\ dmem.replanned = dfile.replanned

Event(loop) == \E e \in dbus : e.loop = loop

\* What the phase in the file says of the results that the file keeps.
PhaseInv ==
    /\ ~Daemon!Resuming(dfile) =>
          dfile.scheduled = dfile.replanned /\ dfile.scheduled <= dfile.loop
    /\ dfile.phase = "scheduler_pending" => dfile.scheduled < dfile.loop
    /\ Daemon!SchedulerReused(dfile.phase) => dfile.scheduled = dfile.loop
    /\ Daemon!ReplanningReused(dfile.phase) => dfile.replanned = dfile.loop
    /\ dfile.phase \in {"event_published", "iteration_completed"} => Event(dfile.replanned)

\* Where the process is, and what the file says there.
DaemonPlaceInv ==
    /\ dpc \notin {"down", "iterate"} => dmem # None
    /\ dpc \in {"schedule", "scheduled"} => dfile.phase = "scheduler_pending"
    /\ dpc = "replan_pending" => Daemon!SchedulerReused(dfile.phase)
    /\ dpc \in {"replan", "replanned"} => dfile.phase = "replanning_pending"
    /\ dpc \in {"replan_pending", "replanned"} /\ Daemon!ReplanningReused(from) =>
          dfile.replanned = dfile.loop
    /\ dpc \in {"schedule", "scheduled", "replan"} => ~Daemon!ReplanningReused(from)
    /\ dpc \in {"heartbeat", "event_pending"} => dfile.phase = "replanning_completed"
    /\ dpc \in {"publish", "published"} => dfile.phase = "event_publish_pending"
    /\ dpc = "published" => Event(dfile.loop)
    /\ dpc = "complete" => dfile.phase = "event_published"

DaemonInv == Daemon!TypeOK /\ AgreeInv /\ PhaseInv /\ DaemonPlaceInv

-----------------------------------------------------------------------------
(* Types.                                                                  *)

LEMMA StateTypes ==
  ASSUME Daemon!DaemonAssumption, NEW f \in Daemon!Files
  PROVE  /\ f.phase \in Daemon!Phases /\ f.loop \in Nat /\ f.loop <= MaxLoops
         /\ f.checkpoint \in 0..MaxLoops
         /\ f.sched \in Daemon!Statuses /\ f.status \in Daemon!Statuses
         /\ f.attempts \in Nat /\ f.pause \in BOOLEAN /\ f.stop \in BOOLEAN
         /\ f.scheduled \in Nat /\ f.replanned \in Nat
         /\ f # None /\ MaxLoops \in Nat
  BY DEF Daemon!Files, Daemon!DaemonAssumption

LEMMA CheckpointFacts ==
  ASSUME Daemon!DaemonAssumption, NEW f \in Daemon!Files, NEW phase \in Daemon!Phases
  PROVE  /\ Daemon!Checkpoint(f, phase) \in Daemon!Files
         /\ Daemon!Checkpoint(f, phase).phase = phase
         /\ Daemon!Checkpoint(f, phase).loop = f.loop
         /\ Daemon!Checkpoint(f, phase).scheduled = f.scheduled
         /\ Daemon!Checkpoint(f, phase).replanned = f.replanned
         /\ Daemon!Checkpoint(f, phase).status = f.status
         /\ Daemon!Checkpoint(f, phase).stop = f.stop
         /\ Daemon!Checkpoint(f, phase).sched = f.sched
  BY DEF Daemon!Checkpoint, Daemon!Files, Daemon!DaemonAssumption

LEMMA EnteredFacts ==
  ASSUME Daemon!DaemonAssumption, NEW f \in Daemon!Files,
         Daemon!Resuming(f) \/ f.loop < MaxLoops
  PROVE  /\ Daemon!Entered(f) \in Daemon!Files
         /\ Daemon!Entered(f).phase = f.phase
         /\ Daemon!Entered(f).scheduled = f.scheduled
         /\ Daemon!Entered(f).replanned = f.replanned
         /\ Daemon!Entered(f).loop = IF Daemon!Resuming(f) THEN f.loop ELSE f.loop + 1
  BY DEF Daemon!Entered, Daemon!Files, Daemon!DaemonAssumption

LEMMA ReturnFacts ==
  ASSUME Daemon!DaemonAssumption, NEW f \in Daemon!Files, Daemon!Return(f)
  PROVE  /\ dfile' = f /\ from' = "idle" /\ outcome' = "idle"
         /\ \/ dpc' = "between" /\ dmem' = f
            \/ dpc' = "down" /\ dmem' = None
  BY DEF Daemon!Return, Daemon!Quit

-----------------------------------------------------------------------------
(* One lemma for each group of steps.                                      *)

\* The process starts, loops and recovers: the results in the file stay.
LEMMA LoopKeeps ==
  ASSUME Daemon!DaemonAssumption, DaemonInv, Daemon!Loop \/ Daemon!StartOnce
  PROVE  DaemonInv'
  <1> USE DEF DaemonInv
  <1>1. /\ dfile \in Daemon!Files /\ dmem \in Daemon!Files \cup {None}
        /\ dpc \notin {"down", "iterate"} => dmem \in Daemon!Files
    BY DEF Daemon!TypeOK, DaemonPlaceInv
  <1>2. CASE Daemon!StartBlocked
    <2>1. /\ dfile' = [dfile EXCEPT !.recovery = "blocked"]
          /\ UNCHANGED <<dpc, mode, dmem, from, outcome, dbus, faults>>
      BY <1>2 DEF Daemon!StartBlocked
    <2>2. dfile' \in Daemon!Files /\ dfile'.phase = dfile.phase /\ dfile'.loop = dfile.loop
          /\ dfile'.scheduled = dfile.scheduled /\ dfile'.replanned = dfile.replanned
      BY <1>1, <2>1 DEF Daemon!Files
    <2> QED
      BY <2>1, <2>2 DEF Daemon!TypeOK, AgreeInv, PhaseInv, DaemonPlaceInv, Event,
         Daemon!Resuming, Daemon!SchedulerReused, Daemon!ReplanningReused
  <1>3. CASE \/ Daemon!StartRecovery \/ Daemon!Recovered \/ Daemon!Starting
             \/ Daemon!LimitReached \/ Daemon!StartClean
    <2>1. /\ dfile' \in Daemon!Files /\ dmem' = dfile' /\ dfile'.phase = dfile.phase
          /\ dfile'.loop = dfile.loop /\ dfile'.scheduled = dfile.scheduled
          /\ dfile'.replanned = dfile.replanned
      <3>1. CASE Daemon!StartRecovery
        <4>1. dfile.attempts + 1 \in 0..MaxAttempts
          BY <1>1, <3>1 DEF Daemon!StartRecovery, Daemon!Recoverable, Daemon!Files,
             Daemon!DaemonAssumption
        <4> QED
          BY <1>1, <3>1, <4>1 DEF Daemon!StartRecovery, Daemon!Store, Daemon!Files
      <3>2. CASE Daemon!Recovered
        BY <1>1, <3>2 DEF Daemon!Recovered, Daemon!Store, Daemon!Files, AgreeInv,
           Daemon!Statuses, Daemon!DaemonAssumption
      <3>3. CASE Daemon!Starting
        BY <1>1, <3>3 DEF Daemon!Starting, Daemon!Store, Daemon!Files, AgreeInv,
           Daemon!Statuses, Daemon!DaemonAssumption
      <3>4. CASE Daemon!LimitReached
        BY <1>1, <3>4 DEF Daemon!LimitReached, Daemon!Store, Daemon!Files, AgreeInv,
           Daemon!Statuses, Daemon!DaemonAssumption
      <3>5. CASE Daemon!StartClean
        BY <1>1, <3>5 DEF Daemon!StartClean
      <3> QED
        BY <1>3, <3>1, <3>2, <3>3, <3>4, <3>5
    <2>2. /\ dpc' \in {"recovering", "starting", "iterate"} /\ mode' \in {"run", "last", mode}
          /\ UNCHANGED <<from, outcome, dbus, faults>>
      BY <1>3 DEF Daemon!StartRecovery, Daemon!Recovered, Daemon!Starting, Daemon!LimitReached,
         Daemon!StartClean
    <2>3. dmem' # None
      BY <2>1, StateTypes
    <2> QED
      BY <2>1, <2>2, <2>3 DEF Daemon!TypeOK, AgreeInv, PhaseInv, DaemonPlaceInv, Event,
         Daemon!Resuming, Daemon!SchedulerReused, Daemon!ReplanningReused
  <1>4. CASE Daemon!NextIteration \/ Daemon!StartOnce
    <2>1. /\ dpc' = "iterate" /\ mode' \in {"last", "once", mode}
          /\ UNCHANGED <<dfile, dmem, from, outcome, dbus, faults>>
      BY <1>4 DEF Daemon!NextIteration, Daemon!StartOnce
    <2> QED
      BY <2>1 DEF Daemon!TypeOK, AgreeInv, PhaseInv, DaemonPlaceInv, Event
  <1> QED
    BY <1>2, <1>3, <1>4 DEF Daemon!Loop

\* Stop and pause count an iteration without running it.
LEMMA HaltKeeps ==
  ASSUME Daemon!DaemonAssumption, DaemonInv, Daemon!Halt \/ Daemon!AnnounceHalt
  PROVE  DaemonInv'
  <1> USE DEF DaemonInv
  <1>1. dfile \in Daemon!Files /\ (dpc = "halted" => dmem \in Daemon!Files)
    BY DEF Daemon!TypeOK, DaemonPlaceInv
  <1>2. CASE Daemon!Halt
    <2> DEFINE f == [Daemon!Entered(dfile) EXCEPT
                       !.status = IF dfile.stop THEN "stopped" ELSE "paused"]
    <2>1. /\ Daemon!Entered(dfile) \in Daemon!Files /\ Daemon!Entered(dfile).phase = dfile.phase
          /\ Daemon!Entered(dfile).scheduled = dfile.scheduled
          /\ Daemon!Entered(dfile).replanned = dfile.replanned
          /\ Daemon!Entered(dfile).loop =
                IF Daemon!Resuming(dfile) THEN dfile.loop ELSE dfile.loop + 1
      BY <1>1, <1>2, EnteredFacts DEF Daemon!Halt
    <2>2. /\ f \in Daemon!Files /\ f.phase = dfile.phase
          /\ f.scheduled = dfile.scheduled /\ f.replanned = dfile.replanned
          /\ f.loop = IF Daemon!Resuming(dfile) THEN dfile.loop ELSE dfile.loop + 1
      BY <2>1 DEF Daemon!Files, Daemon!Statuses
    <2>3. /\ dfile' = f /\ dmem' = f /\ dpc' = "halted"
          /\ UNCHANGED <<mode, from, outcome, dbus, faults>>
      BY <1>2 DEF Daemon!Halt, Daemon!Store
    <2> HIDE DEF f
    <2>4. /\ f # None /\ f.loop \in Nat /\ f.scheduled \in Nat /\ dfile.loop \in Nat
      BY <1>1, <2>2, StateTypes
    <2> QED
      BY <2>2, <2>3, <2>4 DEF Daemon!TypeOK, AgreeInv, PhaseInv, DaemonPlaceInv, Event,
         Daemon!Resuming, Daemon!SchedulerReused, Daemon!ReplanningReused, Daemon!Phases,
         Daemon!Statuses
  <1>3. CASE Daemon!AnnounceHalt
    <2>1. /\ dfile' = dmem /\ from' = "idle" /\ outcome' = "idle"
          /\ \/ dpc' = "between" /\ dmem' = dmem
             \/ dpc' = "down" /\ dmem' = None
      BY <1>1, <1>3, ReturnFacts DEF Daemon!AnnounceHalt
    <2>2. /\ dbus \subseteq dbus' /\ UNCHANGED <<mode, faults>>
          /\ dbus' \subseteq [status : Daemon!Statuses, loop : 0..MaxLoops]
      BY <1>1, <1>3 DEF Daemon!AnnounceHalt, Daemon!TypeOK, Daemon!Files
    <2>3. dmem \in Daemon!Files /\ dmem # None
      BY <1>1, <1>3, StateTypes DEF Daemon!AnnounceHalt
    <2> QED
      BY <2>1, <2>2, <2>3 DEF Daemon!TypeOK, AgreeInv, PhaseInv, DaemonPlaceInv, Event,
         Daemon!Resuming, Daemon!SchedulerReused, Daemon!ReplanningReused, Daemon!Phases,
         Daemon!Statuses
  <1> QED
    BY <1>2, <1>3

\* An iteration begins or resumes, and the scheduler runs.
LEMMA SchedulerKeeps ==
  ASSUME Daemon!DaemonAssumption, DaemonInv,
         \/ Daemon!Enter \/ Daemon!RunScheduler
         \/ Daemon!SchedulerRaises \/ Daemon!SchedulerCompleted
  PROVE  DaemonInv'
  <1> USE DEF DaemonInv
  <1>1. dfile \in Daemon!Files /\ (dpc \in {"schedule", "scheduled"} => dmem \in Daemon!Files)
    BY DEF Daemon!TypeOK, DaemonPlaceInv
  <1>2. CASE Daemon!Enter /\ Daemon!SchedulerReused(dfile.phase)
    <2>1. /\ dmem' = dfile /\ dfile' = dfile /\ from' = dfile.phase /\ outcome' = dfile.sched
          /\ dpc' = "replan_pending" /\ UNCHANGED <<mode, dbus, faults>>
      BY <1>2 DEF Daemon!Enter
    <2>2. dfile # None /\ dfile.sched \in Daemon!Statuses
      BY <1>1, StateTypes
    <2> QED
      BY <1>1, <1>2, <2>1, <2>2 DEF Daemon!TypeOK, AgreeInv, PhaseInv, DaemonPlaceInv, Event,
         Daemon!Resuming, Daemon!SchedulerReused, Daemon!ReplanningReused, Daemon!Phases,
         Daemon!Statuses
  <1>3. CASE Daemon!Enter /\ ~Daemon!SchedulerReused(dfile.phase)
    <2> DEFINE f == Daemon!Checkpoint(Daemon!Entered(dfile), "scheduler_pending")
    <2>1. /\ Daemon!Entered(dfile) \in Daemon!Files
          /\ Daemon!Entered(dfile).scheduled = dfile.scheduled
          /\ Daemon!Entered(dfile).replanned = dfile.replanned
          /\ Daemon!Entered(dfile).loop =
                IF Daemon!Resuming(dfile) THEN dfile.loop ELSE dfile.loop + 1
      BY <1>1, <1>3, EnteredFacts DEF Daemon!Enter
    <2>2. /\ f \in Daemon!Files /\ f.phase = "scheduler_pending"
          /\ f.scheduled = dfile.scheduled /\ f.replanned = dfile.replanned
          /\ f.loop = IF Daemon!Resuming(dfile) THEN dfile.loop ELSE dfile.loop + 1
      BY <2>1, CheckpointFacts DEF Daemon!Phases
    <2>3. /\ dfile' = f /\ dmem' = f /\ from' = dfile.phase
          /\ dpc' = "schedule" /\ UNCHANGED <<mode, outcome, dbus, faults>>
      BY <1>3 DEF Daemon!Enter, Daemon!Store
    <2> HIDE DEF f
    <2>4. /\ f # None /\ f.loop \in Nat /\ f.scheduled \in Nat /\ dfile.loop \in Nat
          /\ dfile.phase \in Daemon!Phases
      BY <1>1, <2>2, StateTypes
    <2>5. f.scheduled < f.loop
      BY <1>3, <2>2, <2>4 DEF PhaseInv, Daemon!Resuming, Daemon!SchedulerReused, Daemon!Phases
    <2> QED
      BY <2>2, <2>3, <2>4, <2>5 DEF Daemon!TypeOK, AgreeInv, PhaseInv, DaemonPlaceInv, Event,
         Daemon!Resuming, Daemon!SchedulerReused, Daemon!ReplanningReused, Daemon!Phases,
         Daemon!Statuses
  <1>4. CASE Daemon!RunScheduler
    <2>1. /\ dpc = "schedule" /\ dpc' = "scheduled" /\ outcome' \in DaemonOutcomes
          /\ UNCHANGED <<dfile, mode, dmem, from, dbus, faults>>
      BY <1>4 DEF Daemon!RunScheduler
    <2>2. outcome' \in Daemon!Statuses
      BY <2>1 DEF Daemon!DaemonAssumption, Daemon!Statuses
    <2> QED
      BY <2>1, <2>2 DEF Daemon!TypeOK, AgreeInv, PhaseInv, DaemonPlaceInv, Event,
         Daemon!Resuming, Daemon!SchedulerReused, Daemon!ReplanningReused, Daemon!Phases,
         Daemon!Statuses
  <1>5. CASE Daemon!SchedulerRaises
    <2> DEFINE f == [dmem EXCEPT !.status = "failed"]
    <2>1. dmem \in Daemon!Files /\ dmem # None
      BY <1>1, <1>5, StateTypes DEF Daemon!SchedulerRaises
    <2>2. /\ f \in Daemon!Files /\ f.phase = dfile.phase /\ f.loop = dfile.loop
          /\ f.scheduled = dfile.scheduled /\ f.replanned = dfile.replanned
      BY <2>1 DEF Daemon!Files, AgreeInv, Daemon!Statuses
    <2>3. /\ Daemon!Return(f) /\ UNCHANGED <<mode, dbus>>
          /\ faults' = faults + 1 /\ faults < MaxFaults
      BY <1>5 DEF Daemon!SchedulerRaises
    <2> HIDE DEF f
    <2>4. /\ dfile' = f /\ from' = "idle" /\ outcome' = "idle"
          /\ \/ dpc' = "between" /\ dmem' = f
             \/ dpc' = "down" /\ dmem' = None
      BY <2>2, <2>3, ReturnFacts
    <2>5. f # None /\ faults' \in 0..MaxFaults
      BY <2>2, <2>3, StateTypes DEF Daemon!TypeOK, Daemon!DaemonAssumption
    <2> QED
      BY <2>2, <2>3, <2>4, <2>5 DEF Daemon!TypeOK, AgreeInv, PhaseInv, DaemonPlaceInv, Event,
         Daemon!Resuming, Daemon!SchedulerReused, Daemon!ReplanningReused, Daemon!Phases,
         Daemon!Statuses
  <1>6. CASE Daemon!SchedulerCompleted
    <2> DEFINE g == Daemon!Checkpoint(dmem, "scheduler_completed")
               f == [g EXCEPT !.scheduled = dmem.loop, !.sched = outcome]
    <2>1. dmem \in Daemon!Files /\ dmem # None
      BY <1>1, <1>6, StateTypes DEF Daemon!SchedulerCompleted
    <2>2. /\ g \in Daemon!Files /\ g.phase = "scheduler_completed" /\ g.loop = dfile.loop
          /\ g.replanned = dfile.replanned
      BY <2>1, CheckpointFacts DEF Daemon!Phases, AgreeInv
    <2>3. dfile' = f /\ dmem' = f /\ dpc' = "replan_pending" /\ dpc = "scheduled"
          /\ UNCHANGED <<mode, from, outcome, dbus, faults>>
      BY <1>6 DEF Daemon!SchedulerCompleted, Daemon!Store
    <2> HIDE DEF g
    <2>4. /\ f \in Daemon!Files /\ f.phase = "scheduler_completed" /\ f.loop = dfile.loop
          /\ f.replanned = dfile.replanned /\ f.scheduled = dfile.loop
      BY <2>1, <2>2 DEF Daemon!Files, AgreeInv, Daemon!TypeOK
    <2> HIDE DEF f
    <2>5. f # None
      BY <2>4, StateTypes
    <2> QED
      BY <2>3, <2>4, <2>5 DEF Daemon!TypeOK, AgreeInv, PhaseInv, DaemonPlaceInv, Event,
         Daemon!Resuming, Daemon!SchedulerReused, Daemon!ReplanningReused, Daemon!Phases,
         Daemon!Statuses
  <1> QED
    BY <1>2, <1>3, <1>4, <1>5, <1>6

\* The replanning engine runs, or its result is kept.
LEMMA ReplanningKeeps ==
  ASSUME Daemon!DaemonAssumption, DaemonInv,
         \/ Daemon!ReplanningPending \/ Daemon!RunReplanning
         \/ Daemon!ReplanningCompleted \/ Daemon!Heartbeat
  PROVE  DaemonInv'
  <1> USE DEF DaemonInv
  <1>1. /\ dfile \in Daemon!Files
        /\ dpc \in {"replan_pending", "replanned", "heartbeat"} => dmem \in Daemon!Files
    BY DEF Daemon!TypeOK, DaemonPlaceInv
  <1>2. CASE Daemon!ReplanningPending
    <2> DEFINE f == Daemon!Checkpoint(dmem, "replanning_pending")
    <2>1. dmem \in Daemon!Files /\ dmem # None
      BY <1>1, <1>2, StateTypes DEF Daemon!ReplanningPending
    <2>2. /\ f \in Daemon!Files /\ f.phase = "replanning_pending" /\ f.loop = dfile.loop
          /\ f.scheduled = dfile.scheduled /\ f.replanned = dfile.replanned
      BY <2>1, CheckpointFacts DEF Daemon!Phases, AgreeInv
    <2>3. /\ dfile' = f /\ dmem' = f /\ dpc = "replan_pending"
          /\ dpc' = IF Daemon!ReplanningReused(from) THEN "replanned" ELSE "replan"
          /\ UNCHANGED <<mode, from, outcome, dbus, faults>>
      BY <1>2 DEF Daemon!ReplanningPending, Daemon!Store
    <2> HIDE DEF f
    <2>4. f # None
      BY <2>2, StateTypes
    <2> QED
      BY <2>2, <2>3, <2>4 DEF Daemon!TypeOK, AgreeInv, PhaseInv, DaemonPlaceInv, Event,
         Daemon!Resuming, Daemon!SchedulerReused, Daemon!ReplanningReused, Daemon!Phases,
         Daemon!Statuses
  <1>3. CASE Daemon!RunReplanning
    <2>1. /\ dpc = "replan" /\ dpc' = "replanned" /\ outcome' \in {outcome, "blocked"}
          /\ UNCHANGED <<dfile, mode, dmem, from, dbus>>
      BY <1>3 DEF Daemon!RunReplanning
    <2>2. outcome' \in Daemon!Statuses
      BY <2>1 DEF Daemon!TypeOK, Daemon!Statuses
    <2>3. faults' \in 0..MaxFaults
      BY <1>3 DEF Daemon!RunReplanning, Daemon!TypeOK, Daemon!DaemonAssumption
    <2> QED
      BY <2>1, <2>2, <2>3 DEF Daemon!TypeOK, AgreeInv, PhaseInv, DaemonPlaceInv, Event,
         Daemon!Resuming, Daemon!SchedulerReused, Daemon!ReplanningReused, Daemon!Phases,
         Daemon!Statuses
  <1>4. CASE Daemon!ReplanningCompleted
    <2> DEFINE g == Daemon!Checkpoint(dmem, "replanning_completed")
               f == [g EXCEPT !.replanned =
                       IF Daemon!ReplanningReused(from) THEN @ ELSE dmem.loop]
    <2>1. dmem \in Daemon!Files /\ dmem # None /\ dpc = "replanned"
      BY <1>1, <1>4, StateTypes DEF Daemon!ReplanningCompleted
    <2>2. /\ g \in Daemon!Files /\ g.phase = "replanning_completed" /\ g.loop = dfile.loop
          /\ g.replanned = dfile.replanned /\ g.scheduled = dfile.scheduled
      BY <2>1, CheckpointFacts DEF Daemon!Phases, AgreeInv
    <2>3. dfile' = f /\ dmem' = f /\ dpc' = "heartbeat"
          /\ UNCHANGED <<mode, from, outcome, dbus, faults>>
      BY <1>4 DEF Daemon!ReplanningCompleted, Daemon!Store
    <2>4. Daemon!ReplanningReused(from) => g.replanned = dfile.loop
      BY <2>1, <2>2 DEF DaemonPlaceInv
    <2>5. dmem.loop = dfile.loop /\ dmem.loop \in 0..MaxLoops
      BY <2>1 DEF AgreeInv, Daemon!Files
    <2> HIDE DEF g
    <2>6. /\ f \in Daemon!Files /\ f.phase = "replanning_completed" /\ f.loop = dfile.loop
          /\ f.scheduled = dfile.scheduled /\ f.replanned = dfile.loop
      BY <2>2, <2>4, <2>5 DEF Daemon!Files
    <2> HIDE DEF f
    <2>7. f # None
      BY <2>6, StateTypes
    <2> QED
      BY <2>1, <2>3, <2>6, <2>7 DEF Daemon!TypeOK, AgreeInv, PhaseInv, DaemonPlaceInv, Event,
         Daemon!Resuming, Daemon!SchedulerReused, Daemon!ReplanningReused, Daemon!Phases,
         Daemon!Statuses
  <1>5. CASE Daemon!Heartbeat
    <2> DEFINE f == [dmem EXCEPT !.status = outcome]
    <2>1. dmem \in Daemon!Files /\ dmem # None
      BY <1>1, <1>5, StateTypes DEF Daemon!Heartbeat
    <2>2. /\ f \in Daemon!Files /\ f.phase = dfile.phase /\ f.loop = dfile.loop
          /\ f.scheduled = dfile.scheduled /\ f.replanned = dfile.replanned
      BY <2>1 DEF Daemon!Files, AgreeInv, Daemon!TypeOK
    <2>3. /\ dfile' = f /\ dmem' = f /\ dpc = "heartbeat" /\ dpc' = "event_pending"
          /\ UNCHANGED <<mode, from, outcome, dbus, faults>>
      BY <1>5 DEF Daemon!Heartbeat, Daemon!Store
    <2> HIDE DEF f
    <2>4. f # None
      BY <2>2, StateTypes
    <2> QED
      BY <2>2, <2>3, <2>4 DEF Daemon!TypeOK, AgreeInv, PhaseInv, DaemonPlaceInv, Event,
         Daemon!Resuming, Daemon!SchedulerReused, Daemon!ReplanningReused, Daemon!Phases,
         Daemon!Statuses
  <1> QED
    BY <1>2, <1>3, <1>4, <1>5

\* The event, and the end of the iteration.
LEMMA EventKeeps ==
  ASSUME Daemon!DaemonAssumption, DaemonInv,
         \/ Daemon!EventPending \/ Daemon!PublishEvent
         \/ Daemon!EventPublished \/ Daemon!IterationCompleted
  PROVE  DaemonInv'
  <1> USE DEF DaemonInv
  <1>1. /\ dfile \in Daemon!Files
        /\ dpc \in {"event_pending", "publish", "published", "complete"} =>
              dmem \in Daemon!Files
    BY DEF Daemon!TypeOK, DaemonPlaceInv
  <1>2. CASE Daemon!EventPending
    <2> DEFINE f == Daemon!Checkpoint(dmem, "event_publish_pending")
    <2>1. dmem \in Daemon!Files /\ dmem # None
      BY <1>1, <1>2, StateTypes DEF Daemon!EventPending
    <2>2. /\ f \in Daemon!Files /\ f.phase = "event_publish_pending" /\ f.loop = dfile.loop
          /\ f.scheduled = dfile.scheduled /\ f.replanned = dfile.replanned
      BY <2>1, CheckpointFacts DEF Daemon!Phases, AgreeInv
    <2>3. /\ dfile' = f /\ dmem' = f /\ dpc = "event_pending" /\ dpc' = "publish"
          /\ UNCHANGED <<mode, from, outcome, dbus, faults>>
      BY <1>2 DEF Daemon!EventPending, Daemon!Store
    <2> HIDE DEF f
    <2>4. f # None
      BY <2>2, StateTypes
    <2> QED
      BY <2>2, <2>3, <2>4 DEF Daemon!TypeOK, AgreeInv, PhaseInv, DaemonPlaceInv, Event,
         Daemon!Resuming, Daemon!SchedulerReused, Daemon!ReplanningReused, Daemon!Phases,
         Daemon!Statuses
  <1>3. CASE Daemon!PublishEvent
    <2> DEFINE e == [status |-> outcome, loop |-> dmem.loop]
    <2>1. dmem \in Daemon!Files /\ dmem.loop = dfile.loop /\ dmem.loop \in 0..MaxLoops
      BY <1>1, <1>3, StateTypes DEF Daemon!PublishEvent, AgreeInv, Daemon!Files
    <2>2. /\ dpc = "publish" /\ dpc' = "published" /\ dbus' = dbus \cup {e}
          /\ UNCHANGED <<dfile, mode, dmem, from, outcome, faults>>
      BY <1>3 DEF Daemon!PublishEvent
    <2>3. e.loop = dfile.loop /\ e \in dbus'
      BY <2>1, <2>2
    <2>4. dbus' \subseteq [status : Daemon!Statuses, loop : 0..MaxLoops]
      BY <2>1, <2>2 DEF Daemon!TypeOK
    <2> HIDE DEF e
    <2>5. Event(dfile.loop)' /\ dbus \subseteq dbus'
      BY <2>2, <2>3 DEF Event
    <2> QED
      BY <2>2, <2>4, <2>5 DEF Daemon!TypeOK, AgreeInv, PhaseInv, DaemonPlaceInv, Event,
         Daemon!Resuming, Daemon!SchedulerReused, Daemon!ReplanningReused, Daemon!Phases,
         Daemon!Statuses
  <1>4. CASE Daemon!EventPublished
    <2> DEFINE f == Daemon!Checkpoint(dmem, "event_published")
    <2>1. dmem \in Daemon!Files /\ dmem # None
      BY <1>1, <1>4, StateTypes DEF Daemon!EventPublished
    <2>2. /\ f \in Daemon!Files /\ f.phase = "event_published" /\ f.loop = dfile.loop
          /\ f.scheduled = dfile.scheduled /\ f.replanned = dfile.replanned
      BY <2>1, CheckpointFacts DEF Daemon!Phases, AgreeInv
    <2>3. /\ dfile' = f /\ dmem' = f /\ dpc = "published" /\ dpc' = "complete"
          /\ UNCHANGED <<mode, from, outcome, dbus, faults>>
      BY <1>4 DEF Daemon!EventPublished, Daemon!Store
    <2> HIDE DEF f
    <2>4. f # None
      BY <2>2, StateTypes
    <2> QED
      BY <2>2, <2>3, <2>4 DEF Daemon!TypeOK, AgreeInv, PhaseInv, DaemonPlaceInv, Event,
         Daemon!Resuming, Daemon!SchedulerReused, Daemon!ReplanningReused, Daemon!Phases,
         Daemon!Statuses
  <1>5. CASE Daemon!IterationCompleted
    <2> DEFINE f == Daemon!Checkpoint(dmem, "iteration_completed")
    <2>1. dmem \in Daemon!Files /\ dpc = "complete"
      BY <1>1, <1>5, StateTypes DEF Daemon!IterationCompleted
    <2>2. /\ f \in Daemon!Files /\ f.phase = "iteration_completed" /\ f.loop = dfile.loop
          /\ f.scheduled = dfile.scheduled /\ f.replanned = dfile.replanned
      BY <2>1, StateTypes, CheckpointFacts DEF Daemon!Phases, AgreeInv
    <2>3. Daemon!Return(f) /\ UNCHANGED <<mode, dbus, faults>>
      BY <1>5 DEF Daemon!IterationCompleted
    <2> HIDE DEF f
    <2>4. /\ dfile' = f /\ from' = "idle" /\ outcome' = "idle"
          /\ \/ dpc' = "between" /\ dmem' = f
             \/ dpc' = "down" /\ dmem' = None
      BY <2>2, <2>3, ReturnFacts
    <2>5. f # None /\ f.loop \in Nat
      BY <2>2, StateTypes
    <2> QED
      BY <2>1, <2>2, <2>3, <2>4, <2>5 DEF Daemon!TypeOK, AgreeInv, PhaseInv, DaemonPlaceInv,
         Event, Daemon!Resuming, Daemon!SchedulerReused, Daemon!ReplanningReused, Daemon!Phases,
         Daemon!Statuses
  <1> QED
    BY <1>2, <1>3, <1>4, <1>5

\* A request writes beside the process, a crash loses its copy.
LEMMA OutsideKeeps ==
  ASSUME Daemon!DaemonAssumption, DaemonInv,
         Daemon!Crash \/ (\E a \in DaemonRequests : Daemon!Request(a))
  PROVE  DaemonInv'
  <1> USE DEF DaemonInv
  <1>1. CASE Daemon!Crash
    <2>1. /\ dpc' = "down" /\ dmem' = None /\ from' = "idle" /\ outcome' = "idle"
          /\ UNCHANGED <<dfile, mode, dbus>>
      BY <1>1 DEF Daemon!Crash, Daemon!Quit
    <2>2. faults' \in 0..MaxFaults
      BY <1>1 DEF Daemon!Crash, Daemon!TypeOK, Daemon!DaemonAssumption
    <2> QED
      BY <2>1, <2>2 DEF Daemon!TypeOK, AgreeInv, PhaseInv, DaemonPlaceInv, Event,
         Daemon!Resuming, Daemon!SchedulerReused, Daemon!ReplanningReused, Daemon!Phases,
         Daemon!Statuses
  <1>2. ASSUME NEW a \in DaemonRequests, Daemon!Request(a)
        PROVE  DaemonInv'
    <2>1. dfile \in Daemon!Files /\ a \in {"pause", "resume", "stop"}
      BY DEF Daemon!TypeOK, Daemon!DaemonAssumption
    <2>2. /\ dfile' \in Daemon!Files /\ dfile'.phase = dfile.phase /\ dfile'.loop = dfile.loop
          /\ dfile'.scheduled = dfile.scheduled /\ dfile'.replanned = dfile.replanned
      BY <1>2, <2>1 DEF Daemon!Request, Daemon!Files, Daemon!Statuses
    <2>3. UNCHANGED <<dpc, mode, dmem, from, outcome, dbus, faults>>
      BY <1>2 DEF Daemon!Request
    <2> QED
      BY <2>2, <2>3 DEF Daemon!TypeOK, AgreeInv, PhaseInv, DaemonPlaceInv, Event,
         Daemon!Resuming, Daemon!SchedulerReused, Daemon!ReplanningReused, Daemon!Phases,
         Daemon!Statuses
  <1> QED
    BY <1>1, <1>2

LEMMA DaemonStep ==
  Daemon!DaemonAssumption /\ DaemonInv /\ [Daemon!Next]_Daemon!vars => DaemonInv'
  <1>1. ASSUME DaemonInv, UNCHANGED Daemon!vars PROVE DaemonInv'
    BY <1>1 DEF Daemon!vars, DaemonInv, Daemon!TypeOK, AgreeInv, PhaseInv, DaemonPlaceInv, Event
  <1> QED
    BY <1>1, LoopKeeps, HaltKeeps, SchedulerKeeps, ReplanningKeeps, EventKeeps, OutsideKeeps
       DEF Daemon!Next, Daemon!Iteration

LEMMA DaemonInit == Daemon!DaemonAssumption /\ Daemon!Init => DaemonInv
  <1> SUFFICES ASSUME Daemon!DaemonAssumption, Daemon!Init PROVE DaemonInv
    OBVIOUS
  <1>1. dfile \in Daemon!Files
    BY DEF Daemon!Init, Daemon!Files, Daemon!Phases, Daemon!Statuses, Daemon!DaemonAssumption
  <1>2. Daemon!TypeOK
    BY <1>1 DEF Daemon!Init, Daemon!TypeOK, Daemon!Phases, Daemon!Statuses,
       Daemon!DaemonAssumption
  <1> QED
    BY <1>2 DEF Daemon!Init, DaemonInv, AgreeInv, PhaseInv, DaemonPlaceInv, Daemon!Resuming,
       Daemon!SchedulerReused, Daemon!ReplanningReused

LEMMA DaemonInvariant ==
  ASSUME Daemon!DaemonAssumption
  PROVE  Daemon!Spec => []DaemonInv
  BY DaemonInit, DaemonStep, PTL DEF Daemon!Spec

-----------------------------------------------------------------------------
(* The theorems.                                                           *)

\* The file only ever holds what its validation accepts, and recovery is
\* never attempted more often than daemon_recovery_max_attempts.
THEOREM DaemonTyped ==
  ASSUME Daemon!DaemonAssumption
  PROVE  Daemon!Spec => []Daemon!TypeOK
  <1>1. DaemonInv => Daemon!TypeOK
    BY DEF DaemonInv
  <1> QED
    BY <1>1, DaemonInvariant, PTL

\* An iteration that the file says is over has scheduled, replanned and
\* published, whatever crashes, resumptions and requests it went through.
THEOREM DaemonCompletes ==
  ASSUME Daemon!DaemonAssumption
  PROVE  Daemon!Spec => []CompletedFully
  <1>1. DaemonInv => CompletedFully
    BY DEF DaemonInv, PhaseInv, CompletedFully, Daemon!CompletedFully, Event,
       Daemon!Resuming, Daemon!SchedulerReused, Daemon!ReplanningReused
  <1> QED
    BY <1>1, DaemonInvariant, PTL

\* The mission scheduler runs at most once for an iteration that has its
\* result: neither a crash nor a recovery repeats it.
THEOREM DaemonSchedulesOnce ==
  ASSUME Daemon!DaemonAssumption
  PROVE  Daemon!Spec => SchedulerOnce
  <1>1. DaemonInv =>
          [dpc = "schedule" /\ dpc' = "scheduled" => dfile.scheduled < dmem.loop]_Daemon!vars
    BY DEF DaemonInv, DaemonPlaceInv, PhaseInv, AgreeInv
  <1> QED
    BY <1>1, DaemonInvariant, PTL DEF SchedulerOnce, Daemon!SchedulerOnce

-----------------------------------------------------------------------------
(* The file never goes back.                                               *)

\* What one step does to the results that the file keeps.
Onward ==
    /\ dfile'.loop >= dfile.loop
    /\ dfile'.scheduled >= dfile.scheduled
    /\ dfile'.replanned >= dfile.replanned
    /\ dfile'.loop # dfile.loop => dfile'.loop = dfile.loop + 1 /\ ~Daemon!Resuming(dfile)
    /\ dfile'.loop = dfile.loop /\ Daemon!SchedulerReused(dfile.phase) =>
          \/ Daemon!SchedulerReused(dfile'.phase)
          \/ dfile'.phase = "iteration_completed"

\* No iteration has replanned that has not begun.
ReplannedInv == dfile.replanned <= dfile.loop

SameResults == /\ dfile'.phase = dfile.phase /\ dfile'.loop = dfile.loop
               /\ dfile'.scheduled = dfile.scheduled /\ dfile'.replanned = dfile.replanned

LEMMA SameIsOnward ==
  ASSUME Daemon!DaemonAssumption, DaemonInv, ReplannedInv, SameResults
  PROVE  Onward /\ ReplannedInv'
  <1>1. dfile.loop \in Nat /\ dfile.scheduled \in Nat /\ dfile.replanned \in Nat
    BY StateTypes DEF DaemonInv, Daemon!TypeOK
  <1> QED
    BY <1>1 DEF SameResults, Onward, ReplannedInv

\* The steps that leave the results alone: they write another field, or none.
LEMMA ResultsStay ==
  ASSUME Daemon!DaemonAssumption, DaemonInv,
         \/ Daemon!Loop \/ Daemon!StartOnce \/ Daemon!AnnounceHalt \/ Daemon!RunScheduler
         \/ Daemon!SchedulerRaises \/ Daemon!RunReplanning \/ Daemon!Heartbeat
         \/ Daemon!PublishEvent \/ Daemon!Crash \/ \E a \in DaemonRequests : Daemon!Request(a)
  PROVE  SameResults
  <1> USE DEF SameResults
  <1>1. dfile \in Daemon!Files /\ (dpc \notin {"down", "iterate"} => dmem \in Daemon!Files)
    BY DEF DaemonInv, Daemon!TypeOK, DaemonPlaceInv
  <1>2. dpc \notin {"down", "iterate"} =>
           /\ dmem.phase = dfile.phase /\ dmem.loop = dfile.loop
           /\ dmem.scheduled = dfile.scheduled /\ dmem.replanned = dfile.replanned
    BY DEF DaemonInv, AgreeInv, DaemonPlaceInv
  <1>3. CASE Daemon!Loop \/ Daemon!StartOnce
    BY <1>1, <1>2, <1>3
       DEF Daemon!Loop, Daemon!StartBlocked, Daemon!StartRecovery, Daemon!Recovered,
           Daemon!StartClean, Daemon!Starting, Daemon!NextIteration, Daemon!LimitReached,
           Daemon!StartOnce, Daemon!Store, Daemon!Files
  <1>4. CASE Daemon!AnnounceHalt \/ Daemon!SchedulerRaises
    BY <1>1, <1>2, <1>4
       DEF Daemon!AnnounceHalt, Daemon!SchedulerRaises, Daemon!Return, Daemon!Files
  <1>5. CASE Daemon!RunScheduler \/ Daemon!RunReplanning \/ Daemon!PublishEvent \/ Daemon!Crash
    BY <1>5 DEF Daemon!RunScheduler, Daemon!RunReplanning, Daemon!PublishEvent, Daemon!Crash
  <1>6. CASE Daemon!Heartbeat
    BY <1>1, <1>2, <1>6 DEF Daemon!Heartbeat, Daemon!Store, Daemon!Files
  <1>7. ASSUME NEW a \in DaemonRequests, Daemon!Request(a)
        PROVE  SameResults
    BY <1>1, <1>7 DEF Daemon!Request, Daemon!Files, Daemon!DaemonAssumption
  <1> QED
    BY <1>3, <1>4, <1>5, <1>6, <1>7

\* The checkpoints, and the step that gives an iteration its number.
LEMMA CheckpointsOnward ==
  ASSUME Daemon!DaemonAssumption, DaemonInv, ReplannedInv,
         \/ Daemon!Halt \/ Daemon!Enter \/ Daemon!SchedulerCompleted
         \/ Daemon!ReplanningPending \/ Daemon!ReplanningCompleted \/ Daemon!EventPending
         \/ Daemon!EventPublished \/ Daemon!IterationCompleted
  PROVE  Onward /\ ReplannedInv'
  <1> USE DEF Onward, ReplannedInv, Daemon!Resuming, Daemon!SchedulerReused
  <1>1. dfile \in Daemon!Files /\ (dpc \notin {"down", "iterate"} => dmem \in Daemon!Files)
    BY DEF DaemonInv, Daemon!TypeOK, DaemonPlaceInv
  <1>2. /\ dfile.loop \in Nat /\ dfile.scheduled \in Nat /\ dfile.replanned \in Nat
        /\ dfile.phase \in Daemon!Phases
    BY <1>1, StateTypes
  <1>3. dpc \notin {"down", "iterate"} =>
           /\ dmem.phase = dfile.phase /\ dmem.loop = dfile.loop
           /\ dmem.scheduled = dfile.scheduled /\ dmem.replanned = dfile.replanned
    BY DEF DaemonInv, AgreeInv, DaemonPlaceInv
  <1>4. CASE Daemon!Halt \/ Daemon!Enter
    <2> DEFINE f == Daemon!Entered(dfile)
    <2>1. Daemon!Resuming(dfile) \/ dfile.loop < MaxLoops
      BY <1>4 DEF Daemon!Halt, Daemon!Enter
    <2>2. /\ f \in Daemon!Files /\ f.phase = dfile.phase
          /\ f.scheduled = dfile.scheduled /\ f.replanned = dfile.replanned
          /\ f.loop = IF Daemon!Resuming(dfile) THEN dfile.loop ELSE dfile.loop + 1
      BY <1>1, <2>1, EnteredFacts
    <2> HIDE DEF f
    <2>3. CASE Daemon!Halt
      <3>1. dfile' = [f EXCEPT !.status = IF dfile.stop THEN "stopped" ELSE "paused"]
        BY <2>3 DEF Daemon!Halt, Daemon!Store, f
      <3>2. /\ dfile'.phase = f.phase /\ dfile'.loop = f.loop
            /\ dfile'.scheduled = f.scheduled /\ dfile'.replanned = f.replanned
        BY <2>2, <3>1 DEF Daemon!Files
      <3> QED
        BY <1>2, <2>2, <3>2
    <2>4. CASE Daemon!Enter /\ Daemon!SchedulerReused(dfile.phase)
      BY <1>2, <2>4 DEF Daemon!Enter
    <2>5. CASE Daemon!Enter /\ ~Daemon!SchedulerReused(dfile.phase)
      <3>1. dfile' = Daemon!Checkpoint(f, "scheduler_pending")
        BY <2>5 DEF Daemon!Enter, Daemon!Store, f
      <3>2. /\ dfile'.loop = f.loop /\ dfile'.scheduled = f.scheduled
            /\ dfile'.replanned = f.replanned
        BY <2>2, <3>1, CheckpointFacts DEF Daemon!Phases
      <3> QED
        BY <1>2, <2>2, <2>5, <3>2
    <2> QED
      BY <1>4, <2>3, <2>4, <2>5
  <1>5. CASE Daemon!SchedulerCompleted
    <2> DEFINE f == Daemon!Checkpoint(dmem, "scheduler_completed")
    <2>1. dmem \in Daemon!Files /\ dfile.phase = "scheduler_pending"
      BY <1>1, <1>5 DEF Daemon!SchedulerCompleted, DaemonInv, DaemonPlaceInv
    <2>2. /\ f \in Daemon!Files /\ f.phase = "scheduler_completed"
          /\ f.loop = dmem.loop /\ f.replanned = dmem.replanned
      BY <2>1, CheckpointFacts DEF Daemon!Phases
    <2>3. dfile' = [f EXCEPT !.scheduled = dmem.loop, !.sched = outcome]
      BY <1>5 DEF Daemon!SchedulerCompleted, Daemon!Store
    <2> HIDE DEF f
    <2>4. /\ dfile'.loop = dmem.loop /\ dfile'.scheduled = dmem.loop
          /\ dfile'.replanned = dmem.replanned /\ dfile'.phase = "scheduler_completed"
      BY <2>2, <2>3 DEF Daemon!Files
    <2>5. dfile.scheduled < dfile.loop
      BY <2>1 DEF DaemonInv, PhaseInv
    <2> QED
      BY <1>2, <1>3, <1>5, <2>4, <2>5 DEF Daemon!SchedulerCompleted
  <1>6. CASE Daemon!ReplanningCompleted
    <2> DEFINE f == Daemon!Checkpoint(dmem, "replanning_completed")
               r == IF Daemon!ReplanningReused(from) THEN f.replanned ELSE dmem.loop
    <2>1. dmem \in Daemon!Files /\ dfile.phase = "replanning_pending"
      BY <1>1, <1>6 DEF Daemon!ReplanningCompleted, DaemonInv, DaemonPlaceInv
    <2>2. /\ f \in Daemon!Files /\ f.loop = dmem.loop /\ f.scheduled = dmem.scheduled
          /\ f.replanned = dmem.replanned /\ f.phase = "replanning_completed"
      BY <2>1, CheckpointFacts DEF Daemon!Phases
    <2>3. dfile' = [f EXCEPT !.replanned = r]
      BY <1>6 DEF Daemon!ReplanningCompleted, Daemon!Store
    <2> HIDE DEF f, r
    <2>4. /\ dfile'.loop = dmem.loop /\ dfile'.scheduled = dmem.scheduled
          /\ dfile'.replanned = r /\ dfile'.phase = "replanning_completed"
      BY <2>2, <2>3 DEF Daemon!Files
    <2> QED
      BY <1>2, <1>3, <1>6, <2>2, <2>4 DEF Daemon!ReplanningCompleted, r
  <1>7. CASE \/ Daemon!ReplanningPending \/ Daemon!EventPending \/ Daemon!EventPublished
             \/ Daemon!IterationCompleted
    <2>1. /\ dmem \in Daemon!Files
          /\ dmem.phase = dfile.phase /\ dmem.loop = dfile.loop
          /\ dmem.scheduled = dfile.scheduled /\ dmem.replanned = dfile.replanned
      BY <1>1, <1>3, <1>7
         DEF Daemon!ReplanningPending, Daemon!EventPending, Daemon!EventPublished,
             Daemon!IterationCompleted
    <2>2. PICK phase \in {"replanning_pending", "event_publish_pending", "event_published",
                          "iteration_completed"} :
              dfile' = Daemon!Checkpoint(dmem, phase)
      BY <1>7
         DEF Daemon!ReplanningPending, Daemon!EventPending, Daemon!EventPublished,
             Daemon!IterationCompleted, Daemon!Store, Daemon!Return
    <2>3. /\ dfile'.phase = phase /\ dfile'.loop = dmem.loop
          /\ dfile'.scheduled = dmem.scheduled /\ dfile'.replanned = dmem.replanned
      BY <2>1, <2>2, CheckpointFacts DEF Daemon!Phases
    <2> QED
      BY <1>2, <2>1, <2>3
  <1> QED
    BY <1>4, <1>5, <1>6, <1>7

\* Through crashes, resumptions and requests the daemon's file never goes back:
\* an iteration is numbered after the one before is over, none is skipped, and
\* while it lasts a checkpoint at which the scheduler has run is followed by no
\* checkpoint at which it has not.
THEOREM DaemonOnward ==
  ASSUME Daemon!DaemonAssumption
  PROVE  Daemon!Spec => [][Onward]_Daemon!vars
  <1>1. Daemon!Init => ReplannedInv
    BY DEF Daemon!Init, ReplannedInv
  <1>2. DaemonInv /\ ReplannedInv /\ [Daemon!Next]_Daemon!vars
           => [Onward]_Daemon!vars /\ ReplannedInv'
    <2>1. DaemonInv /\ ReplannedInv /\ Daemon!Next => Onward /\ ReplannedInv'
      BY SameIsOnward, ResultsStay, CheckpointsOnward DEF Daemon!Next, Daemon!Iteration
    <2> QED
      BY <2>1 DEF Daemon!vars, ReplannedInv
  <1> QED
    BY <1>1, <1>2, DaemonInvariant, PTL DEF Daemon!Spec
=============================================================================
