---------------------- MODULE ActiveTransactionProofs -----------------------
(***************************************************************************)
(* What an invocation's answer means, for every bundle, every tree and any *)
(* number of invocations.                                                  *)
(***************************************************************************)
EXTENDS ActiveTransaction, TLAPS

\* The phases between mkdir and the answer.
Active == {"snapshot", "mutate", "validate", "compare", "rollback", "environment"}

Owns(p) == pc[p] \in Active \/ Claimed(p)

\* The transaction directory has one owner for good, and exists as long as
\* anyone owns it.
OwnerInv ==
    /\ \A p \in Procs : Owns(p) => workspace
    /\ \A p, q \in Procs : Owns(p) /\ Owns(q) => p = q

PathAt(i) == Files[i].path

Snapped(p) == \A i \in Indices : snap[p][PathAt(i)] = before[p][PathAt(i)]

\* An invocation that may still claim has an up-to-date listing as long as
\* nobody has claimed.
ListInv == ~workspace => \A p \in Procs : pc[p] = "claim" => before[p] = disk

SnapshotInv(p) ==
    /\ before[p] = disk
    /\ \A i \in Indices : i < at[p] => snap[p][PathAt(i)] = before[p][PathAt(i)]

MutateInv(p) ==
    /\ Snapped(p)
    /\ \A i \in Indices : i < at[p] => disk[PathAt(i)] = Candidate(i)
    /\ \A f \in Outside : disk[f] = before[p][f]

ValidateInv(p) ==
    /\ Snapped(p)
    /\ \A i \in Indices : disk[PathAt(i)] = Candidate(i)

CompareInv(p) ==
    /\ Snapped(p)
    /\ \A i \in Indices : PathAt(i) \notin TestsTouch => disk[PathAt(i)] = Candidate(i)

RollbackInv(p) ==
    /\ Snapped(p)
    /\ intact[p] =>
          \A i \in Indices : i > at[p] => disk[PathAt(i)] = before[p][PathAt(i)]

Kept(p, f) == before[p][f] \in Contents \cup {Missing} => disk[f] = before[p][f]

EnvironmentInv(p) ==
    /\ Snapped(p)
    /\ intact[p] => /\ \A i \in Indices : disk[PathAt(i)] = before[p][PathAt(i)]
                    /\ \A f \in Outside : f \notin todo[p] => Kept(p, f)

\* Where an owner stops, either nothing has changed or all is copied.
StopInv(p) ==
    Claimed(p) => Snapped(p) \/ \A i \in Indices : disk[PathAt(i)] = before[p][PathAt(i)]

AnswerInv(p) ==
    /\ result[p] # "none" => pc[p] = "done"
    /\ result[p] \in {"committed", "rolled_back"} => Claimed(p)
    /\ result[p] = "rolled_back" => \A f \in Watched : Kept(p, f)
    /\ result[p] = "committed" =>
          /\ \A i \in Indices :
                PathAt(i) \notin TestsTouch => disk[PathAt(i)] = Candidate(i)
          /\ Compared(p)

PhaseInv(p) ==
    /\ pc[p] \in {"start", "list", "claim"} => at[p] = 1
    /\ pc[p] = "snapshot" => SnapshotInv(p)
    /\ pc[p] = "mutate" => MutateInv(p)
    /\ pc[p] = "validate" => ValidateInv(p)
    /\ pc[p] = "compare" => CompareInv(p)
    /\ pc[p] = "rollback" => RollbackInv(p)
    /\ pc[p] = "environment" => EnvironmentInv(p)
    /\ pc[p] \in Active \ {"snapshot"} => Claimed(p)
    /\ StopInv(p)
    /\ AnswerInv(p)

TransactionInv ==
    /\ TypeOK
    /\ OwnerInv
    /\ ListInv
    /\ \A p \in Procs : PhaseInv(p)

-----------------------------------------------------------------------------
(* Facts about the bundle.                                                 *)

\* The loops over the files have at least one iteration, and every index has
\* a path and a candidate of its own.
LEMMA BundleFacts ==
    /\ Len(Files) \in Nat \ {0}
    /\ Indices = 1 .. Len(Files)
    /\ \A i \in Indices : /\ PathAt(i) \in Targets /\ PathAt(i) \in Paths
                          /\ PathAt(i) \in Watched /\ PathAt(i) \notin Outside
                          /\ Candidate(i) \in Contents \cup {Missing}
    /\ \A f \in Targets : \E i \in Indices : f = PathAt(i)
    /\ \A i, j \in Indices : PathAt(i) = PathAt(j) => i = j
    /\ Outside \subseteq Paths
    /\ Targets \subseteq Paths
    /\ \A f \in Watched : f \in Outside \/ f \in Targets
  <1>1. /\ Len(Files) \in Nat \ {0}
        /\ Indices = 1 .. Len(Files)
    BY BundleAssumption DEF Indices
  <1>2. Targets \subseteq Watched /\ Watched \subseteq Paths
    BY BundleAssumption
  <1>3. ASSUME NEW i \in Indices
        PROVE  /\ PathAt(i) \in Targets
               /\ Candidate(i) \in Contents \cup {Missing}
    <2> DEFINE File == [path : Paths, op : {"create", "replace", "delete"},
                        data : Contents]
    <2>1. Files \in Seq(File)
      BY BundleAssumption
    <2>2. Files[i] \in File
      <3> HIDE DEF File
      <3> QED
        BY <2>1 DEF Indices
    <2> QED
      BY <2>2 DEF PathAt, Targets, Candidate
  <1>4. \A f \in Targets : \E i \in Indices : f = PathAt(i)
    BY DEF Targets, PathAt
  <1>5. \A i, j \in Indices : PathAt(i) = PathAt(j) => i = j
    BY BundleAssumption DEF PathAt
  <1> QED
    BY <1>1, <1>2, <1>3, <1>4, <1>5 DEF Outside

-----------------------------------------------------------------------------
(* What a step of one invocation leaves alone.                             *)

Same(q) ==
    /\ pc'[q] = pc[q] /\ at'[q] = at[q] /\ before'[q] = before[q]
    /\ snap'[q] = snap[q] /\ intact'[q] = intact[q] /\ todo'[q] = todo[q]
    /\ result'[q] = result[q]

Step(p) == Invocation(p) \/ Crash(p)

\* Another invocation's variables do not change.
LEMMA OthersSame ==
    ASSUME TypeOK, NEW p \in Procs, Step(p), NEW q \in Procs, q # p
    PROVE  Same(q)
  <1> USE DEF TypeOK, Same, Enter, Answer, Blocked, local
  <1>1. CASE Deny(p) \/ Verify(p) \/ List(p) \/ Claim(p) \/ ClaimFails(p)
    BY <1>1 DEF Deny, Verify, List, Claim, ClaimFails
  <1>2. CASE Snapshot(p) \/ SnapshotFails(p)
    BY <1>2 DEF Snapshot, SnapshotFails
  <1>3. CASE Mutate(p) \/ MutateFails(p)
    BY <1>3 DEF Mutate, MutateFails, Undo
  <1>4. CASE ValidatePasses(p) \/ ValidateFails(p) \/ Commit(p) \/ CompareFails(p)
    BY <1>4 DEF ValidatePasses, ValidateFails, Commit, CompareFails, Undo
  <1>5. CASE Restore(p) \/ RestoreFails(p)
    BY <1>5 DEF Restore, RestoreFails, NextRollback
  <1>6. CASE RestoreOutside(p)
    BY <1>6 DEF RestoreOutside, NextOutside
  <1>7. CASE RestoreOutsideFails(p) \/ Report(p) \/ Crash(p)
    BY <1>7 DEF RestoreOutsideFails, NextOutside, Report, Crash
  <1> QED
    BY <1>1, <1>2, <1>3, <1>4, <1>5, <1>6, <1>7 DEF Step, Invocation

\* Only the owner of the transaction directory changes files.
LEMMA OnlyActiveWrites ==
    ASSUME NEW p \in Procs, Step(p), disk' # disk
    PROVE  pc[p] \in Active
  BY DEF Step, Invocation, Active, At, Blocked, Deny, Verify, List, Claim, ClaimFails,
         Snapshot, SnapshotFails, Mutate, MutateFails, ValidatePasses, ValidateFails,
         Commit, CompareFails, Restore, RestoreFails, RestoreOutside,
         RestoreOutsideFails, Report, Crash

-----------------------------------------------------------------------------
(* Type correctness.                                                       *)

\* A step keeps every variable in its type.  What a rollback puts back has
\* been copied: that needs the phase invariant.
LEMMA StepType ==
    ASSUME TypeOK, NEW p \in Procs, PhaseInv(p), Step(p)
    PROVE  TypeOK'
  <1> DEFINE LoopOK == pc'[p] \in Loops => at'[p] \in Indices
             TreeOK == disk' \in [Paths -> Entries] /\ workspace' \in BOOLEAN
             PcOK == pc' \in [Procs -> Phases] /\ at' \in [Procs -> 0 .. Len(Files)]
             CopyOK == /\ before' \in [Procs -> [Paths -> Entries]]
                       /\ snap' \in [Procs -> [Targets -> Entries \cup {NotCopied}]]
             AnswerOK == /\ intact' \in [Procs -> BOOLEAN]
                         /\ todo' \in [Procs -> SUBSET Outside]
                         /\ result' \in [Procs -> Statuses]
  <1> SUFFICES LoopOK /\ TreeOK /\ PcOK /\ CopyOK /\ AnswerOK
    <2>1. ASSUME NEW q \in Procs, LoopOK
          PROVE  pc'[q] \in Loops => at'[q] \in Indices
      BY <2>1, OthersSame DEF Same, TypeOK
    <2> QED
      BY <2>1 DEF TypeOK
  <1>1. /\ Len(Files) \in Nat \ {0} /\ Indices = 1 .. Len(Files)
        /\ 1 \in Indices /\ Len(Files) \in Indices
        /\ \A k \in Indices : k \in 0 .. Len(Files)
        /\ \A k \in Indices : k # Len(Files) => k + 1 \in Indices
        /\ \A k \in Indices : k # 1 => k - 1 \in Indices
        /\ 0 \in 0 .. Len(Files)
        /\ Outside \subseteq Paths
    BY BundleFacts
  <1>2. ASSUME pc[p] \in Loops
        PROVE  /\ at[p] \in Indices
               /\ Files[at[p]].path \in Targets /\ Files[at[p]].path \in Paths
               /\ disk[Files[at[p]].path] \in Entries
               /\ before[p][Files[at[p]].path] \in Entries
               /\ Candidate(at[p]) \in Entries
    BY <1>2, BundleFacts DEF TypeOK, PathAt, Entries
  <1> USE DEF TypeOK, Enter, At, Phases, Statuses, Loops, local
  <1>3. CASE Deny(p) \/ Verify(p) \/ ClaimFails(p) \/ SnapshotFails(p)
    BY <1>3 DEF Deny, Verify, ClaimFails, SnapshotFails, Blocked, Answer
  <1>4. CASE List(p)
    BY <1>4 DEF List
  <1>5. CASE Claim(p)
    <2>1. at[p] \in Indices
      BY <1>1, <1>5 DEF PhaseInv, Claim
    <2> QED
      BY <1>5, <2>1 DEF Claim
  <1>6. CASE Snapshot(p)
    <2>1. CopyOK /\ TreeOK /\ AnswerOK
      BY <1>2, <1>6 DEF Snapshot
    <2>2. LoopOK /\ PcOK
      BY <1>1, <1>2, <1>6 DEF Snapshot
    <2> QED
      BY <2>1, <2>2
  <1>7. CASE Mutate(p) \/ MutateFails(p)
    <2>1. TreeOK /\ CopyOK /\ AnswerOK
      BY <1>2, <1>7 DEF Mutate, MutateFails
    <2>2. LoopOK /\ PcOK
      BY <1>1, <1>2, <1>7 DEF Mutate, MutateFails, Undo
    <2> QED
      BY <2>1, <2>2
  <1>8. CASE ValidatePasses(p) \/ ValidateFails(p)
    <2>1. TreeOK
      BY <1>8 DEF ValidatePasses, ValidateFails, TestsRun
    <2>2. LoopOK /\ PcOK
      BY <1>1, <1>8 DEF ValidatePasses, ValidateFails, Undo
    <2>3. CopyOK /\ AnswerOK
      BY <1>8 DEF ValidatePasses, ValidateFails
    <2> QED
      BY <2>1, <2>2, <2>3
  <1>9. CASE Commit(p) \/ CompareFails(p) \/ Report(p) \/ Crash(p)
    <2>1. LoopOK /\ PcOK
      BY <1>1, <1>9 DEF Commit, CompareFails, Report, Crash, Undo, Answer
    <2>2. TreeOK /\ CopyOK /\ AnswerOK
      BY <1>9 DEF Commit, CompareFails, Report, Crash, Answer
    <2> QED
      BY <2>1, <2>2
  <1>10. CASE Restore(p) \/ RestoreFails(p)
    <2>1. at[p] \in Indices /\ pc[p] = "rollback"
      BY <1>10 DEF Restore, RestoreFails
    <2>2. snap[p][Files[at[p]].path] = before[p][Files[at[p]].path]
      BY <2>1 DEF PhaseInv, RollbackInv, Snapped, PathAt
    <2>3. TreeOK
      BY <1>2, <1>10, <2>1, <2>2 DEF Restore, RestoreFails
    <2>4. PathsListed(p) \in SUBSET Outside /\ NextRollback(p)
      BY <1>10 DEF PathsListed, Restore, RestoreFails
    <2>5. LoopOK /\ PcOK
      <3>1. CASE at[p] = 1
        BY <1>1, <2>1, <2>4, <3>1 DEF NextRollback
      <3>2. CASE at[p] # 1
        BY <1>1, <2>1, <2>4, <3>2 DEF NextRollback
      <3> QED
        BY <3>1, <3>2
    <2>6. todo' \in [Procs -> SUBSET Outside]
      BY <2>4 DEF NextRollback
    <2>7. CopyOK /\ AnswerOK
      BY <1>10, <2>6 DEF Restore, RestoreFails
    <2> QED
      BY <2>3, <2>5, <2>7
  <1>11. CASE RestoreOutside(p)
    <2>1. PICK f \in todo[p] :
             /\ \/ disk' = [disk EXCEPT ![f] = Missing]
                \/ disk' = [disk EXCEPT ![f] = before[p][f]]
                \/ disk' = disk
             /\ NextOutside(p, f)
      BY <1>11 DEF RestoreOutside
    <2>2. f \in Paths /\ before[p][f] \in Entries /\ Missing \in Entries
      BY <1>1 DEF Entries
    <2>3. disk' \in [Paths -> Entries]
      BY <2>1, <2>2
    <2>4. intact' = intact
      BY <1>11 DEF RestoreOutside
    <2> QED
      BY <2>1, <2>3, <2>4 DEF NextOutside
  <1>12. CASE RestoreOutsideFails(p)
    BY <1>12 DEF RestoreOutsideFails, NextOutside
  <1> QED
    BY <1>3, <1>4, <1>5, <1>6, <1>7, <1>8, <1>9, <1>10, <1>11, <1>12
       DEF Step, Invocation

-----------------------------------------------------------------------------
(* One owner.                                                              *)

\* mkdir is the only way to become the owner, and the directory is never
\* removed.
LEMMA OwnerChange ==
    ASSUME TypeOK, NEW p \in Procs, Step(p)
    PROVE  /\ workspace' \in BOOLEAN
           /\ workspace => workspace'
           /\ Owns(p)' => Owns(p) \/ (~workspace /\ workspace')
  <1> USE DEF TypeOK, Owns, Claimed, Active, At, Enter, Answer, Blocked, local
  <1>1. CASE Deny(p) \/ Verify(p) \/ List(p) \/ Claim(p) \/ ClaimFails(p)
    BY <1>1 DEF Deny, Verify, List, Claim, ClaimFails
  <1>2. CASE Snapshot(p) \/ SnapshotFails(p) \/ Mutate(p) \/ MutateFails(p)
    BY <1>2 DEF Snapshot, SnapshotFails, Mutate, MutateFails, Undo
  <1>3. CASE ValidatePasses(p) \/ ValidateFails(p) \/ Commit(p) \/ CompareFails(p)
    BY <1>3 DEF ValidatePasses, ValidateFails, Commit, CompareFails, Undo
  <1>4. CASE Restore(p) \/ RestoreFails(p)
    BY <1>4 DEF Restore, RestoreFails, NextRollback
  <1>5. CASE RestoreOutside(p) \/ RestoreOutsideFails(p) \/ Report(p)
    BY <1>5 DEF RestoreOutside, RestoreOutsideFails, NextOutside, Report
  <1>6. CASE Crash(p)
    BY <1>6 DEF Crash
  <1> QED
    BY <1>1, <1>2, <1>3, <1>4, <1>5, <1>6 DEF Step, Invocation

\* The transaction directory keeps its one owner.
LEMMA OwnerStep ==
    ASSUME TypeOK, OwnerInv, NEW p \in Procs, Step(p)
    PROVE  OwnerInv'
  <1>1. ASSUME NEW q \in Procs, q # p
        PROVE  Owns(q)' <=> Owns(q)
    BY <1>1, OthersSame DEF Same, Owns, Claimed
  <1>2. workspace \in BOOLEAN /\ workspace' \in BOOLEAN
    BY OwnerChange DEF TypeOK
  <1> QED
    BY <1>1, <1>2, OwnerChange DEF OwnerInv

\* A listing taken while nobody owns the directory stays up to date until
\* somebody does.
LEMMA ListStep ==
    ASSUME TypeOK, OwnerInv, ListInv, NEW p \in Procs, Step(p)
    PROVE  ListInv'
  <1> SUFFICES ASSUME ~workspace', NEW q \in Procs, pc'[q] = "claim"
               PROVE  before'[q] = disk'
    BY DEF ListInv
  <1>1. ~workspace
    BY OwnerChange
  <1>2. disk' = disk
    BY <1>1, OnlyActiveWrites DEF OwnerInv, Owns
  <1>3. CASE q # p
    BY <1>1, <1>2, <1>3, OthersSame DEF Same, ListInv
  <1>4. CASE q = p
    <2>1. ~(pc[p] \in Active)
      BY <1>1 DEF OwnerInv, Owns
    <2>2. Deny(p) \/ Verify(p) \/ List(p) \/ Claim(p) \/ ClaimFails(p) \/ Crash(p)
      BY <2>1 DEF Step, Invocation, Active, At, Snapshot, SnapshotFails, Mutate,
                  MutateFails, ValidatePasses, ValidateFails, Commit, CompareFails,
                  Restore, RestoreFails, RestoreOutside, RestoreOutsideFails, Report
    <2> QED
      BY <1>2, <1>4, <2>2 DEF TypeOK, Deny, Verify, List, Claim, ClaimFails, Crash,
                              Blocked, Answer, Enter, At
  <1> QED
    BY <1>3, <1>4

-----------------------------------------------------------------------------
(* The other invocations.                                                  *)

\* Only the owner's phase says anything of the tree, and nobody but the owner
\* changes it.
LEMMA OtherPhases ==
    ASSUME TransactionInv, NEW p \in Procs, Step(p), NEW q \in Procs, q # p
    PROVE  PhaseInv(q)'
  <1>1. Same(q)
    BY OthersSame DEF TransactionInv
  <1>2. PhaseInv(q)
    BY DEF TransactionInv
  <1>3. CASE disk' = disk
    BY <1>1, <1>2, <1>3 DEF PhaseInv, SnapshotInv, MutateInv, ValidateInv, CompareInv,
       RollbackInv, EnvironmentInv, StopInv, AnswerInv, Snapped, Claimed, Kept, Compared,
       Same
  <1>4. CASE disk' # disk
    <2>1. ~Owns(q)
      BY <1>4, OnlyActiveWrites DEF TransactionInv, OwnerInv, Owns
    <2> QED
      BY <1>1, <1>2, <2>1 DEF PhaseInv, StopInv, AnswerInv, Claimed, Owns, Active, Same
  <1> QED
    BY <1>3, <1>4
-----------------------------------------------------------------------------
(* The invocation that moves.                                              *)

\* A running invocation has not answered, so what an answer means is at stake
\* only when it is given.
LEMMA NoAnswerYet ==
    ASSUME NEW p \in Procs, PhaseInv(p), pc[p] # "done", result'[p] = result[p]
    PROVE  AnswerInv(p)'
  BY DEF PhaseInv, AnswerInv

\* A change of the tree or of the phase leaves what has been copied.
LEMMA KeepCopies ==
    ASSUME NEW p \in Procs, before'[p] = before[p], snap'[p] = snap[p]
    PROVE  /\ Claimed(p)' <=> Claimed(p)
           /\ Snapped(p)' <=> Snapped(p)
           /\ Snapped(p) => StopInv(p)'
  BY DEF Claimed, Snapped, StopInv

\* Before the first change of a file nothing but the copies is at stake.
LEMMA EarlyPhases ==
    ASSUME TransactionInv, NEW p \in Procs,
           Deny(p) \/ Verify(p) \/ List(p) \/ Claim(p) \/ ClaimFails(p)
    PROVE  PhaseInv(p)'
  <1>1. PhaseInv(p) /\ TypeOK /\ OwnerInv /\ ListInv
    BY DEF TransactionInv
  <1>2. /\ pc[p] \in {"start", "list", "claim"} /\ at[p] = 1
        /\ at' = at /\ snap' = snap /\ disk' = disk
    BY <1>1 DEF PhaseInv, Deny, Verify, List, Claim, ClaimFails, At, Blocked, local
  <1>3. CASE Deny(p) \/ ClaimFails(p)
    <2>1. /\ pc'[p] = "done" /\ result'[p] = "blocked"
          /\ before' = before
      BY <1>1, <1>3 DEF TypeOK, Deny, ClaimFails, Blocked, Answer, Enter, local
    <2>2. StopInv(p)'
      BY <1>1, <1>2, <2>1 DEF PhaseInv, StopInv, Snapped, Claimed
    <2> QED
      BY <2>1, <2>2 DEF PhaseInv, AnswerInv, Active
  <1>4. CASE Verify(p)
    <2>1. pc'[p] = "list" /\ result' = result /\ before' = before
      BY <1>1, <1>4 DEF TypeOK, Verify, Enter, local
    <2>2. StopInv(p)'
      BY <1>1, <1>2, <2>1 DEF PhaseInv, StopInv, Snapped, Claimed
    <2>3. AnswerInv(p)'
      BY <1>1, <1>2, <2>1, NoAnswerYet
    <2> QED
      BY <1>2, <2>1, <2>2, <2>3 DEF PhaseInv, Active
  <1>5. CASE List(p)
    <2>1. pc'[p] = "claim" /\ result' = result /\ before'[p] = disk
      BY <1>1, <1>5 DEF TypeOK, List, Enter
    <2>2. StopInv(p)'
      BY <1>2, <2>1 DEF StopInv
    <2>3. AnswerInv(p)'
      BY <1>1, <1>2, <2>1, NoAnswerYet
    <2> QED
      BY <1>2, <2>1, <2>2, <2>3 DEF PhaseInv, Active
  <1>6. CASE Claim(p)
    <2>1. /\ pc'[p] = "snapshot" /\ result' = result /\ before' = before
          /\ before[p] = disk
      BY <1>1, <1>6 DEF TypeOK, Claim, At, Enter, local, ListInv
    <2>2. SnapshotInv(p)'
      BY <1>2, <2>1, BundleFacts DEF SnapshotInv
    <2>3. StopInv(p)'
      BY <1>2, <2>1 DEF StopInv
    <2>4. AnswerInv(p)'
      BY <1>1, <1>2, <2>1, NoAnswerYet
    <2> QED
      BY <2>1, <2>2, <2>3, <2>4 DEF PhaseInv, Active
  <1> QED
    BY <1>3, <1>4, <1>5, <1>6

\* The copies are taken of an unchanged tree, and complete when the first
\* file is changed.
LEMMA SnapshotPhase ==
    ASSUME TransactionInv, NEW p \in Procs, Snapshot(p) \/ SnapshotFails(p)
    PROVE  PhaseInv(p)'
  <1>1. PhaseInv(p) /\ TypeOK
    BY DEF TransactionInv
  <1>2. /\ pc[p] = "snapshot" /\ SnapshotInv(p) /\ disk' = disk /\ before' = before
        /\ at[p] \in Indices
    BY <1>1 DEF Snapshot, SnapshotFails, At, PhaseInv, Blocked, local, TypeOK, Loops
  <1>3. StopInv(p)'
    BY <1>2 DEF StopInv, SnapshotInv
  <1>4. CASE SnapshotFails(p)
    <2>1. pc'[p] = "done" /\ result'[p] = "blocked"
      BY <1>1, <1>4 DEF TypeOK, SnapshotFails, Blocked, Answer, Enter
    <2> QED
      BY <1>3, <2>1 DEF PhaseInv, AnswerInv, Active
  <1>5. CASE Snapshot(p)
    <2>1. AnswerInv(p)'
      BY <1>1, <1>2, <1>5, NoAnswerYet DEF Snapshot
    <2>2. PathAt(at[p]) \in Targets /\ disk[PathAt(at[p])] \in Entries
      BY <1>1, <1>2, BundleFacts DEF TypeOK
    <2>3. /\ snap'[p][PathAt(at[p])] = disk[PathAt(at[p])]
          /\ \A f \in Targets : f # PathAt(at[p]) => snap'[p][f] = snap[p][f]
      BY <1>1, <1>5, <2>2 DEF Snapshot, TypeOK, PathAt
    <2>4. Claimed(p)'
      BY <2>2, <2>3, TreeAssumption DEF Claimed
    <2>5. \A i \in Indices : i < at[p] \/ i = at[p] =>
             snap'[p][PathAt(i)] = before[p][PathAt(i)]
      BY <1>2, <2>3, BundleFacts DEF SnapshotInv
    <2>6. CASE at[p] = Len(Files)
      <3>1. pc'[p] = "mutate" /\ at'[p] = 1
        BY <1>1, <1>5, <2>6 DEF Snapshot, Enter, TypeOK
      <3>2. Snapped(p)'
        BY <1>2, <2>5, <2>6, BundleFacts DEF Snapped
      <3>3. MutateInv(p)'
        BY <1>2, <3>1, <3>2, BundleFacts DEF MutateInv, SnapshotInv
      <3> QED
        BY <1>3, <2>1, <2>4, <3>1, <3>3 DEF PhaseInv, Active
    <2>7. CASE at[p] # Len(Files)
      <3>1. pc'[p] = "snapshot" /\ at'[p] = at[p] + 1
        BY <1>1, <1>2, <1>5, <2>7 DEF Snapshot, TypeOK
      <3>2. \A i \in Indices : i < at[p] + 1 => i < at[p] \/ i = at[p]
        BY <1>2, BundleFacts
      <3>3. SnapshotInv(p)'
        BY <1>2, <2>5, <3>1, <3>2 DEF SnapshotInv
      <3> QED
        BY <1>3, <2>1, <3>1, <3>3 DEF PhaseInv, Active
    <2> QED
      BY <2>6, <2>7
  <1> QED
    BY <1>4, <1>5

\* Every exception after the copies leads to the rollback, with nothing
\* restored yet.
LEMMA UndoPhase ==
    ASSUME TransactionInv, NEW p \in Procs,
           pc[p] \in {"mutate", "validate", "compare"}, Undo(p),
           before' = before, snap' = snap, result' = result
    PROVE  PhaseInv(p)'
  <1>1. PhaseInv(p) /\ TypeOK
    BY DEF TransactionInv
  <1>2. Snapped(p) /\ Claimed(p)
    BY <1>1 DEF PhaseInv, MutateInv, ValidateInv, CompareInv, Active
  <1>3. pc'[p] = "rollback" /\ at'[p] = Len(Files)
    BY <1>1 DEF Undo, Enter, TypeOK
  <1>4. Snapped(p)' /\ Claimed(p)' /\ StopInv(p)'
    BY <1>2, KeepCopies
  <1>5. RollbackInv(p)'
    BY <1>3, <1>4, BundleFacts DEF RollbackInv
  <1>6. AnswerInv(p)'
    BY <1>1, NoAnswerYet
  <1> QED
    BY <1>3, <1>4, <1>5, <1>6 DEF PhaseInv, Active

\* The loop leaves the candidates it has passed in place and the other files
\* alone.
LEMMA MutatePhase ==
    ASSUME TransactionInv, NEW p \in Procs, Mutate(p) \/ MutateFails(p)
    PROVE  PhaseInv(p)'
  <1>1. PhaseInv(p) /\ TypeOK
    BY DEF TransactionInv
  <1>2. CASE MutateFails(p)
    BY <1>2, UndoPhase DEF MutateFails, At
  <1>3. CASE Mutate(p)
    <2>1. /\ pc[p] = "mutate" /\ MutateInv(p) /\ Claimed(p) /\ at[p] \in Indices
          /\ before' = before /\ snap' = snap /\ result' = result
      BY <1>1, <1>3 DEF Mutate, At, PhaseInv, Active, TypeOK, Loops
    <2>2. Snapped(p)' /\ Claimed(p)' /\ StopInv(p)' /\ AnswerInv(p)'
      BY <1>1, <2>1, KeepCopies, NoAnswerYet DEF MutateInv
    <2>3. /\ disk'[PathAt(at[p])] = Candidate(at[p])
          /\ \A f \in Paths : f # PathAt(at[p]) => disk'[f] = disk[f]
      BY <1>1, <1>3, <2>1, BundleFacts DEF Mutate, TypeOK, PathAt
    <2>4. \A i \in Indices : i < at[p] \/ i = at[p] => disk'[PathAt(i)] = Candidate(i)
      BY <2>1, <2>3, BundleFacts DEF MutateInv
    <2>5. \A f \in Outside : disk'[f] = before'[p][f]
      BY <2>1, <2>3, BundleFacts DEF MutateInv
    <2>6. CASE at[p] = Len(Files)
      <3>1. pc'[p] = "validate"
        BY <1>1, <1>3, <2>6 DEF Mutate, Enter, TypeOK
      <3>2. ValidateInv(p)'
        BY <2>1, <2>2, <2>4, <2>6, BundleFacts DEF ValidateInv
      <3> QED
        BY <2>2, <3>1, <3>2 DEF PhaseInv, Active
    <2>7. CASE at[p] # Len(Files)
      <3>1. pc'[p] = "mutate" /\ at'[p] = at[p] + 1
        BY <1>1, <1>3, <2>1, <2>7 DEF Mutate, TypeOK
      <3>2. \A i \in Indices : i < at[p] + 1 => i < at[p] \/ i = at[p]
        BY <2>1, BundleFacts
      <3>3. MutateInv(p)'
        BY <2>2, <2>4, <2>5, <3>1, <3>2 DEF MutateInv
      <3> QED
        BY <2>2, <3>1, <3>3 DEF PhaseInv, Active
    <2> QED
      BY <2>6, <2>7
  <1> QED
    BY <1>2, <1>3

\* The tests write nothing but the paths they touch.
LEMMA ValidatePhase ==
    ASSUME TransactionInv, NEW p \in Procs, ValidatePasses(p) \/ ValidateFails(p)
    PROVE  PhaseInv(p)'
  <1>1. PhaseInv(p) /\ TypeOK
    BY DEF TransactionInv
  <1>2. CASE ValidateFails(p)
    BY <1>2, UndoPhase DEF ValidateFails, At
  <1>3. CASE ValidatePasses(p)
    <2>1. /\ pc[p] = "validate" /\ ValidateInv(p) /\ Claimed(p)
          /\ before' = before /\ snap' = snap /\ result' = result
      BY <1>1, <1>3 DEF ValidatePasses, At, PhaseInv, Active, local
    <2>2. pc'[p] = "compare"
      BY <1>1, <1>3 DEF ValidatePasses, Enter, TypeOK
    <2>3. Snapped(p)' /\ Claimed(p)' /\ StopInv(p)' /\ AnswerInv(p)'
      BY <1>1, <2>1, KeepCopies, NoAnswerYet DEF ValidateInv
    <2>4. \A f \in Paths : f \notin TestsTouch => disk'[f] = disk[f]
      BY <1>3 DEF ValidatePasses, TestsRun
    <2>5. CompareInv(p)'
      BY <2>1, <2>3, <2>4, BundleFacts DEF CompareInv, ValidateInv
    <2> QED
      BY <2>2, <2>3, <2>5 DEF PhaseInv, Active
  <1> QED
    BY <1>2, <1>3

\* A commit is answered when the candidates and the listing hold.
LEMMA ComparePhase ==
    ASSUME TransactionInv, NEW p \in Procs, Commit(p) \/ CompareFails(p)
    PROVE  PhaseInv(p)'
  <1>1. PhaseInv(p) /\ TypeOK
    BY DEF TransactionInv
  <1>2. CASE CompareFails(p)
    BY <1>2, UndoPhase DEF CompareFails, At
  <1>3. CASE Commit(p)
    <2>1. /\ pc[p] = "compare" /\ CompareInv(p) /\ Claimed(p) /\ Compared(p)
          /\ before' = before /\ snap' = snap /\ disk' = disk
      BY <1>1, <1>3 DEF Commit, At, PhaseInv, Active, local
    <2>2. pc'[p] = "done" /\ result'[p] = "committed"
      BY <1>1, <1>3 DEF Commit, Answer, Enter, TypeOK
    <2>3. Claimed(p)' /\ StopInv(p)'
      BY <2>1, KeepCopies DEF CompareInv
    <2>4. AnswerInv(p)'
      BY <2>1, <2>2, <2>3 DEF AnswerInv, CompareInv, Compared
    <2> QED
      BY <2>2, <2>3, <2>4 DEF PhaseInv, Active
  <1> QED
    BY <1>2, <1>3

\* Each iteration restores a file or gives up the claim to have restored
\* everything; what is not listed afterwards was never there.
LEMMA RollbackPhase ==
    ASSUME TransactionInv, NEW p \in Procs, Restore(p) \/ RestoreFails(p)
    PROVE  PhaseInv(p)'
  <1>1. PhaseInv(p) /\ TypeOK
    BY DEF TransactionInv
  <1>2. /\ pc[p] = "rollback" /\ RollbackInv(p) /\ Claimed(p) /\ at[p] \in Indices
        /\ before' = before /\ snap' = snap /\ result' = result
        /\ NextRollback(p)
    BY <1>1 DEF Restore, RestoreFails, At, PhaseInv, Active, TypeOK, Loops
  <1>3. Snapped(p)' /\ Claimed(p)' /\ StopInv(p)' /\ AnswerInv(p)'
    BY <1>1, <1>2, KeepCopies, NoAnswerYet DEF RollbackInv
  <1>4. \A f \in Paths : f # PathAt(at[p]) => disk'[f] = disk[f]
    BY <1>1 DEF Restore, RestoreFails, PathAt, TypeOK
  <1>5. intact'[p] => /\ intact[p]
                      /\ disk'[PathAt(at[p])] = before[p][PathAt(at[p])]
    <2>1. CASE Restore(p)
      <3>1. disk'[PathAt(at[p])] = snap[p][PathAt(at[p])]
        BY <1>1, <1>2, <2>1, BundleFacts DEF Restore, PathAt, TypeOK
      <3> QED
        BY <1>2, <2>1, <3>1 DEF Restore, RollbackInv, Snapped
    <2>2. CASE RestoreFails(p)
      BY <1>1, <2>2 DEF RestoreFails, TypeOK
    <2> QED
      BY <2>1, <2>2
  <1>6. intact'[p] => \A i \in Indices : i > at[p] \/ i = at[p] =>
                         disk'[PathAt(i)] = before[p][PathAt(i)]
    BY <1>2, <1>4, <1>5, BundleFacts DEF RollbackInv
  <1>7. CASE at[p] = 1
    <2>1. pc'[p] = "environment" /\ todo'[p] = PathsListed(p)
      BY <1>1, <1>2, <1>7 DEF NextRollback, Enter, TypeOK
    <2>2. \A i \in Indices : i > at[p] \/ i = at[p]
      BY <1>7, BundleFacts
    <2>3. \A f \in Outside : f \notin todo'[p] => Kept(p, f)'
      BY <1>2, <1>4, <2>1, BundleFacts DEF PathsListed, Kept
    <2>4. EnvironmentInv(p)'
      BY <1>2, <1>3, <1>6, <2>2, <2>3 DEF EnvironmentInv
    <2> QED
      BY <1>3, <2>1, <2>4 DEF PhaseInv, Active
  <1>8. CASE at[p] # 1
    <2>1. pc'[p] = "rollback" /\ at'[p] = at[p] - 1
      BY <1>1, <1>2, <1>8 DEF NextRollback, TypeOK
    <2>2. \A i \in Indices : i > at[p] - 1 => i > at[p] \/ i = at[p]
      BY <1>2, BundleFacts
    <2>3. RollbackInv(p)'
      BY <1>2, <1>3, <1>6, <2>1, <2>2 DEF RollbackInv
    <2> QED
      BY <1>3, <2>1, <2>3 DEF PhaseInv, Active
  <1> QED
    BY <1>7, <1>8

\* _restore_environment keeps the candidates and settles one path at a time.
LEMMA EnvironmentPhase ==
    ASSUME TransactionInv, NEW p \in Procs,
           RestoreOutside(p) \/ RestoreOutsideFails(p) \/ Report(p)
    PROVE  PhaseInv(p)'
  <1>1. PhaseInv(p) /\ TypeOK
    BY DEF TransactionInv
  <1>2. /\ pc[p] = "environment" /\ EnvironmentInv(p) /\ Claimed(p)
        /\ before' = before /\ snap' = snap
    BY <1>1 DEF RestoreOutside, RestoreOutsideFails, Report, NextOutside, At, PhaseInv,
                Active, local
  <1>3. Snapped(p)' /\ Claimed(p)' /\ StopInv(p)'
    BY <1>2, KeepCopies DEF EnvironmentInv
  <1>4. CASE RestoreOutside(p)
    <2>1. PICK f \in todo[p] :
             /\ \/ /\ before[p][f] = Missing
                   /\ disk' = [disk EXCEPT ![f] = Missing]
                \/ /\ IsFile(before[p][f])
                   /\ disk' = [disk EXCEPT ![f] = before[p][f]]
                \/ /\ before[p][f] \in {Dir, FullDir}
                   /\ disk' = disk
             /\ NextOutside(p, f)
      BY <1>4 DEF RestoreOutside
    <2>2. f \in Outside /\ f \in Paths
      BY <1>1, BundleFacts DEF TypeOK
    <2>3. \A g \in Paths : g # f => disk'[g] = disk[g]
      BY <1>1, <2>1 DEF TypeOK
    <2>4. Kept(p, f)'
      BY <1>1, <1>2, <2>1, <2>2, TreeAssumption DEF Kept, TypeOK, IsFile
    <2>5. /\ pc'[p] = "environment" /\ intact' = intact /\ result' = result
          /\ todo'[p] = todo[p] \ {f}
      BY <1>1, <1>2, <1>4, <2>1 DEF RestoreOutside, NextOutside, TypeOK
    <2>6. \A i \in Indices : disk'[PathAt(i)] = disk[PathAt(i)]
      BY <2>2, <2>3, BundleFacts
    <2>7. intact[p] => \A g \in Outside : g \notin todo'[p] => Kept(p, g)'
      BY <1>2, <2>3, <2>4, <2>5, BundleFacts DEF EnvironmentInv, Kept
    <2>8. EnvironmentInv(p)'
      BY <1>2, <1>3, <2>5, <2>6, <2>7 DEF EnvironmentInv
    <2>9. AnswerInv(p)'
      BY <1>1, <1>2, <2>5, NoAnswerYet
    <2> QED
      BY <1>3, <2>5, <2>8, <2>9 DEF PhaseInv, Active
  <1>5. CASE RestoreOutsideFails(p)
    <2>1. pc'[p] = "environment" /\ ~intact'[p] /\ result' = result
      BY <1>1, <1>2, <1>5 DEF RestoreOutsideFails, NextOutside, TypeOK
    <2>2. EnvironmentInv(p)' /\ AnswerInv(p)'
      BY <1>1, <1>2, <1>3, <2>1, NoAnswerYet DEF EnvironmentInv
    <2> QED
      BY <1>3, <2>1, <2>2 DEF PhaseInv, Active
  <1>6. CASE Report(p)
    <2>1. /\ pc'[p] = "done" /\ disk' = disk /\ todo[p] = {}
          /\ result'[p] = IF intact[p] THEN "rolled_back" ELSE "rollback_failed"
      BY <1>1, <1>6 DEF Report, Answer, Enter, TypeOK
    <2>2. intact[p] => \A f \in Watched : Kept(p, f)'
      BY <1>2, <2>1, BundleFacts DEF EnvironmentInv, Kept
    <2>3. AnswerInv(p)'
      BY <1>3, <2>1, <2>2 DEF AnswerInv
    <2> QED
      BY <1>3, <2>1, <2>3 DEF PhaseInv, Active
  <1> QED
    BY <1>4, <1>5, <1>6

\* Wherever a process stops, the copies that are there stay.
LEMMA CrashPhase ==
    ASSUME TransactionInv, NEW p \in Procs, Crash(p)
    PROVE  PhaseInv(p)'
  <1>1. PhaseInv(p) /\ TypeOK
    BY DEF TransactionInv
  <1>2. /\ pc[p] # "done" /\ pc'[p] = "crashed" /\ disk' = disk /\ before' = before
        /\ snap' = snap /\ result' = result
    BY <1>1 DEF Crash, Enter, TypeOK, local
  <1>3. StopInv(p)' /\ AnswerInv(p)'
    BY <1>1, <1>2, NoAnswerYet DEF PhaseInv, StopInv, Snapped, Claimed
  <1> QED
    BY <1>2, <1>3 DEF PhaseInv, Active

-----------------------------------------------------------------------------
(* The theorems.                                                           *)

\* At the start nobody owns anything.
LEMMA InitTransaction == Init => TransactionInv
  <1> SUFFICES ASSUME Init PROVE TransactionInv
    OBVIOUS
  <1>1. disk \in [Paths -> Entries] /\ 1 \in 0 .. Len(Files)
    BY TreeAssumption, BundleFacts DEF Init
  <1>2. TypeOK
    BY <1>1 DEF Init, TypeOK, Phases, Loops, Statuses
  <1>3. \A p \in Procs : ~Claimed(p) /\ pc[p] = "start"
    BY DEF Init, Claimed
  <1>4. OwnerInv /\ ListInv
    BY <1>3 DEF OwnerInv, ListInv, Owns, Active
  <1>5. \A p \in Procs : PhaseInv(p)
    BY <1>3 DEF Init, PhaseInv, StopInv, AnswerInv, Active
  <1> QED
    BY <1>2, <1>4, <1>5 DEF TransactionInv

\* Every step of any invocation keeps the invariant of all of them.
LEMMA StepTransaction == TransactionInv /\ [Next]_vars => TransactionInv'
  <1> SUFFICES ASSUME TransactionInv, [Next]_vars PROVE TransactionInv'
    OBVIOUS
  <1>1. CASE UNCHANGED vars
    BY <1>1 DEF vars, TransactionInv, TypeOK, OwnerInv, ListInv, Owns, PhaseInv,
       SnapshotInv, MutateInv, ValidateInv, CompareInv, RollbackInv, EnvironmentInv,
       StopInv, AnswerInv, Snapped, Claimed, Kept, Compared
  <1>2. ASSUME NEW p \in Procs, Step(p)
        PROVE  TransactionInv'
    <2>1. PhaseInv(p) /\ TypeOK /\ OwnerInv /\ ListInv
      BY DEF TransactionInv
    <2>2. TypeOK' /\ OwnerInv' /\ ListInv'
      BY <1>2, <2>1, StepType, OwnerStep, ListStep
    <2>3. PhaseInv(p)'
      BY <1>2, EarlyPhases, SnapshotPhase, MutatePhase, ValidatePhase, ComparePhase,
         RollbackPhase, EnvironmentPhase, CrashPhase DEF Step, Invocation
    <2>4. ASSUME NEW q \in Procs PROVE PhaseInv(q)'
      BY <1>2, <2>3, OtherPhases
    <2> QED
      BY <2>2, <2>4 DEF TransactionInv
  <1> QED
    BY <1>1, <1>2 DEF Next, Ended, Step

\* The invariant of a transaction, from which every property follows: one
\* owner, what its phase has done to the tree, what it has copied, and what
\* an answer means.
THEOREM Transaction == Spec => []TransactionInv
  BY InitTransaction, StepTransaction, PTL DEF Spec

\* Every variable of an invocation keeps its type; in particular a rollback
\* writes back only what was read from the tree, never a missing copy.
THEOREM TypeCorrect == Spec => []TypeOK
  <1>1. TransactionInv => TypeOK
    BY DEF TransactionInv
  <1> QED
    BY <1>1, Transaction, PTL

\* What execute_transactional_active_plan answers is true for good: after
\* "rolled_back" every candidate and every file beside one is what it was, and
\* after "committed" every candidate is in place and nothing beside it has
\* changed, whatever other invocations of the request do.
THEOREM AnswersExact == Spec => [](RolledBackExact /\ CommittedExact)
  <1>1. TransactionInv => RolledBackExact /\ CommittedExact
    BY DEF TransactionInv, PhaseInv, AnswerInv, RolledBackExact, CommittedExact, Kept,
           Compared, PathAt
  <1> QED
    BY <1>1, Transaction, PTL

\* "committed" stays true: every candidate the tests do not write is in place
\* and every file beside one looks as it was listed, however many invocations
\* of the request follow.
THEOREM CommittedStays == Spec => []CommittedExact
  BY AnswersExact, PTL

\* A request changes files in one invocation at most, and wherever that one
\* stops the transaction directory holds the original of every changed file.
THEOREM SingleUseRecoverable == Spec => [](SingleUse /\ Recoverable)
  <1>1. TransactionInv => SingleUse
    BY DEF TransactionInv, OwnerInv, Owns, SingleUse
  <1>2. TransactionInv => Recoverable
    <2> SUFFICES ASSUME TransactionInv, NEW p \in Procs, Claimed(p),
                        NEW f \in Targets, disk[f] # before[p][f]
                 PROVE  snap[p][f] = before[p][f]
      BY DEF Recoverable
    <2>1. PICK i \in Indices : f = PathAt(i)
      BY BundleFacts
    <2> QED
      BY <2>1 DEF TransactionInv, PhaseInv, StopInv, Snapped
  <1> QED
    BY <1>1, <1>2, Transaction, PTL

\* The invocation that had the transaction directory has answered or stopped.
Over(p) == Claimed(p) /\ pc[p] \in {"done", "crashed"}

\* Its answer is the last word on the tree: when the invocation that has taken
\* the copies has answered or stopped, no invocation of the request changes a
\* file any more, although nothing marks the directory as used up.
THEOREM TreeFinal ==
  Spec => [][\A p \in Procs : Over(p) => Over(p)' /\ UNCHANGED disk]_vars
  <1>1. TransactionInv /\ [Next]_vars =>
           [\A p \in Procs : Over(p) => Over(p)' /\ UNCHANGED disk]_vars
    <2> SUFFICES ASSUME TransactionInv, Next, NEW p \in Procs, Over(p)
                 PROVE  Over(p)' /\ UNCHANGED disk
      OBVIOUS
    <2>1. CASE UNCHANGED vars
      BY <2>1 DEF vars, Over, Claimed
    <2>2. ASSUME NEW q \in Procs, Step(q)
          PROVE  Over(p)' /\ UNCHANGED disk
      <3>1. q # p
        BY <2>2
           DEF Over, Step, Invocation, At, Deny, Verify, List, Claim, ClaimFails, Snapshot,
               SnapshotFails, Mutate, MutateFails, ValidatePasses, ValidateFails, Commit,
               CompareFails, Restore, RestoreFails, RestoreOutside, RestoreOutsideFails,
               Report, Crash
      <3>2. Over(p)'
        BY <2>2, <3>1, OthersSame DEF TransactionInv, Same, Over, Claimed
      <3>3. pc[q] \notin Active
        BY <3>1 DEF TransactionInv, OwnerInv, Owns, Over
      <3> QED
        BY <2>2, <3>2, <3>3, OnlyActiveWrites
    <2> QED
      BY <2>1, <2>2 DEF Next, Ended, Step
  <1> QED
    BY <1>1, Transaction, PTL DEF Spec

-----------------------------------------------------------------------------
(* To its callers: one claim, one outcome.                                 *)

\* The owner of the directory, at work or with an outcome, is one invocation,
\* and an invocation answers once.
ClaimInv ==
    /\ \A p \in Procs : Owning(p) => workspace
    /\ \A p, q \in Procs : Owning(p) /\ Owning(q) => p = q
    /\ \A p \in Procs : result[p] # "none" => pc[p] = "done"

\* What a step of p is to the callers.
Stays(p) == Owning(p)' = Owning(p) /\ workspace' = workspace /\ result' = result

Refused(p) ==
    /\ ~Owning(p)' /\ workspace' = workspace /\ result[p] = "none"
    /\ result' = [result EXCEPT ![p] = "blocked"]

Claims(p) ==
    /\ ~workspace /\ workspace' /\ Owning(p)'
    /\ result[p] = "none" /\ result' = result

Ends(p) ==
    /\ Owning(p) /\ Owning(p)' /\ workspace' = workspace /\ result[p] = "none"
    /\ \E status \in Once!Outcomes : result' = [result EXCEPT ![p] = status]

Stops(p) ==
    /\ Owning(p) /\ ~Owning(p)' /\ workspace' = workspace
    /\ result[p] = "none" /\ result' = result

\* Every step is of one of these five kinds.
LEMMA StepKinds ==
    ASSUME TypeOK, ClaimInv, NEW p \in Procs, Step(p)
    PROVE  Stays(p) \/ Refused(p) \/ Claims(p) \/ Ends(p) \/ Stops(p)
  <1>1. result[p] = "none"
    BY DEF ClaimInv, Step, Invocation, At, Deny, Verify, List, Claim, ClaimFails,
           Snapshot, SnapshotFails, Mutate, MutateFails, ValidatePasses, ValidateFails,
           Commit, CompareFails, Restore, RestoreFails, RestoreOutside,
           RestoreOutsideFails, Report, Crash
  <1> USE <1>1 DEF TypeOK, Owning, At, Enter, Answer, Blocked, local
  <1>2. CASE Deny(p) \/ ClaimFails(p) \/ SnapshotFails(p)
    BY <1>2 DEF Refused, Deny, ClaimFails, SnapshotFails
  <1>3. CASE Verify(p) \/ List(p)
    BY <1>3 DEF Stays, Verify, List
  <1>4. CASE Claim(p)
    BY <1>4 DEF Claims, Claim
  <1>5. CASE Snapshot(p) \/ Mutate(p) \/ MutateFails(p)
    BY <1>5 DEF Stays, Snapshot, Mutate, MutateFails, Undo
  <1>6. CASE ValidatePasses(p) \/ ValidateFails(p) \/ CompareFails(p)
    BY <1>6 DEF Stays, ValidatePasses, ValidateFails, CompareFails, Undo
  <1>7. CASE Restore(p) \/ RestoreFails(p)
    BY <1>7 DEF Stays, Restore, RestoreFails, NextRollback
  <1>8. CASE RestoreOutside(p) \/ RestoreOutsideFails(p)
    BY <1>8 DEF Stays, RestoreOutside, RestoreOutsideFails, NextOutside
  <1>9. CASE Commit(p) \/ Report(p)
    BY <1>9 DEF Ends, Commit, Report, Once!Outcomes
  <1>10. CASE Crash(p)
    BY <1>10 DEF Stays, Stops, Crash
  <1> QED
    BY <1>2, <1>3, <1>4, <1>5, <1>6, <1>7, <1>8, <1>9, <1>10 DEF Step, Invocation

LEMMA OthersOwning ==
    ASSUME TypeOK, NEW p \in Procs, Step(p), NEW q \in Procs, q # p
    PROVE  Owning(q)' <=> Owning(q)
  BY OthersSame DEF Same, Owning

\* An answer is given by the step that ends the invocation.
LEMMA AnswerEnds ==
    ASSUME TypeOK, NEW p \in Procs, Step(p), result[p] # "none" => pc[p] = "done"
    PROVE  result'[p] # "none" => pc'[p] = "done"
  <1> USE DEF TypeOK, At, Enter, Answer, Blocked, local
  <1>1. CASE Deny(p) \/ Verify(p) \/ List(p) \/ Claim(p) \/ ClaimFails(p)
    BY <1>1 DEF Deny, Verify, List, Claim, ClaimFails
  <1>2. CASE Snapshot(p) \/ SnapshotFails(p) \/ Mutate(p) \/ MutateFails(p)
    BY <1>2 DEF Snapshot, SnapshotFails, Mutate, MutateFails, Undo
  <1>3. CASE ValidatePasses(p) \/ ValidateFails(p) \/ Commit(p) \/ CompareFails(p)
    BY <1>3 DEF ValidatePasses, ValidateFails, Commit, CompareFails, Undo
  <1>4. CASE Restore(p) \/ RestoreFails(p)
    BY <1>4 DEF Restore, RestoreFails, NextRollback
  <1>5. CASE RestoreOutside(p) \/ RestoreOutsideFails(p) \/ Report(p)
    BY <1>5 DEF RestoreOutside, RestoreOutsideFails, NextOutside, Report
  <1>6. CASE Crash(p)
    BY <1>6 DEF Crash
  <1> QED
    BY <1>1, <1>2, <1>3, <1>4, <1>5, <1>6 DEF Step, Invocation

LEMMA ClaimStep ==
    ASSUME TypeOK, ClaimInv, NEW p \in Procs, Step(p)
    PROVE  ClaimInv'
  <1>1. \A q \in Procs : q # p => (Owning(q)' <=> Owning(q))
    BY OthersOwning
  <1>2. workspace \in BOOLEAN /\ workspace' \in BOOLEAN
    BY OwnerChange DEF TypeOK
  <1>3. /\ workspace => workspace'
        /\ Owning(p)' => Owning(p) \/ (~workspace /\ workspace')
    BY <1>2, StepKinds, OwnerChange DEF Stays, Refused, Claims, Ends, Stops
  <1>4. \A q \in Procs : result'[q] # "none" => pc'[q] = "done"
    BY OthersSame, AnswerEnds DEF Same, ClaimInv
  <1> QED
    BY <1>1, <1>2, <1>3, <1>4 DEF ClaimInv

\* The owner the callers see.
LEMMA OwnerSeen ==
    ASSUME ClaimInv
    PROVE  /\ ~workspace => TheOwner = Nobody
           /\ \A p \in Procs : Owning(p) => TheOwner = p
           /\ workspace /\ (\A p \in Procs : ~Owning(p)) => TheOwner = Gone
           /\ \A p \in Procs : TheOwner = p => Owning(p)
  BY OwnerAssumption DEF ClaimInv, TheOwner

LEMMA OwnerSeenNext ==
    ASSUME ClaimInv'
    PROVE  /\ ~workspace' => TheOwner' = Nobody
           /\ \A p \in Procs : Owning(p)' => TheOwner' = p
           /\ workspace' /\ (\A p \in Procs : ~Owning(p)') => TheOwner' = Gone
           /\ \A p \in Procs : TheOwner' = p => Owning(p)'
  BY OwnerAssumption DEF ClaimInv, TheOwner

LEMMA StepOnce ==
    ASSUME TypeOK, ClaimInv, NEW p \in Procs, Step(p)
    PROVE  [Once!Next]_<<TheOwner, result>>
  <1>1. ClaimInv' /\ workspace \in BOOLEAN /\ workspace' \in BOOLEAN
    BY ClaimStep, OwnerChange DEF TypeOK
  <1>2. \A q \in Procs : q # p => (Owning(q)' <=> Owning(q))
    BY OthersOwning
  <1>3. ASSUME Owning(p)' <=> Owning(p), workspace' = workspace
        PROVE  TheOwner' = TheOwner
    BY <1>1, <1>2, <1>3, OwnerSeen, OwnerSeenNext
  <1>4. CASE Stays(p)
    BY <1>3, <1>4 DEF Stays
  <1>5. CASE Refused(p)
    <2>1. CASE Owning(p)
      <3>1. TheOwner = p /\ TheOwner' = Gone
        BY <1>1, <1>2, <1>5, <2>1, OwnerSeen, OwnerSeenNext DEF Refused, ClaimInv
      <3> QED
        BY <1>5, <3>1 DEF Refused, Once!Block, Once!Next
    <2>2. CASE ~Owning(p)
      <3>1. TheOwner # p /\ TheOwner' = TheOwner
        BY <1>3, <1>5, <2>2, OwnerSeen DEF Refused
      <3> QED
        BY <1>5, <3>1 DEF Refused, Once!Block, Once!Next
    <2> QED
      BY <2>1, <2>2
  <1>6. CASE Claims(p)
    <2>1. TheOwner = Nobody /\ TheOwner' = p
      BY <1>1, <1>6, OwnerSeen, OwnerSeenNext DEF Claims
    <2> QED
      BY <1>6, <2>1 DEF Claims, Once!Claim, Once!Next
  <1>7. CASE Ends(p)
    <2>1. TheOwner = p /\ TheOwner' = p
      BY <1>1, <1>7, OwnerSeen, OwnerSeenNext DEF Ends
    <2> QED
      BY <1>7, <2>1 DEF Ends, Once!Finish, Once!Next
  <1>8. CASE Stops(p)
    <2>1. TheOwner = p /\ TheOwner' = Gone
      BY <1>1, <1>2, <1>8, OwnerSeen, OwnerSeenNext DEF Stops, ClaimInv
    <2> QED
      BY <1>8, <2>1 DEF Stops, Once!Lose, Once!Next
  <1> QED
    BY <1>4, <1>5, <1>6, <1>7, <1>8, StepKinds

\* execute_transactional_active_plan implements TransactionClaim: however often
\* and from however many processes a request is invoked, one invocation claims
\* it, and only that one answers with an outcome, once.
THEOREM OneClaimOneOutcome == Spec => ClaimedOnce
  <1>1. Init => Once!Init /\ ClaimInv
    BY DEF Init, Once!Init, ClaimInv, TheOwner, Owning
  <1>2. TypeOK /\ ClaimInv /\ [Next]_vars => ClaimInv'
    <2>1. ASSUME ClaimInv, UNCHANGED vars PROVE ClaimInv'
      BY <2>1 DEF vars, ClaimInv, Owning
    <2> QED
      BY <2>1, ClaimStep DEF Next, Ended, Step
  <1>3. TypeOK /\ ClaimInv /\ [Next]_vars => [Once!Next]_<<TheOwner, result>>
    <2>1. ASSUME UNCHANGED vars PROVE UNCHANGED <<TheOwner, result>>
      BY <2>1 DEF vars, TheOwner, Owning
    <2> QED
      BY <2>1, StepOnce DEF Next, Ended, Step
  <1> QED
    BY <1>1, <1>2, <1>3, TypeCorrect, PTL DEF Spec, ClaimedOnce, Once!Spec, Once!vars
=============================================================================
