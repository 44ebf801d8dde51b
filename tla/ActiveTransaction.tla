------------------------- MODULE ActiveTransaction --------------------------
(***************************************************************************)
(* execute_transactional_active_plan of                                    *)
(* core/runtime/runtime_transactional_active_execution.py.                 *)
(*                                                                         *)
(* An invocation applies a bundle of file changes to a source tree and     *)
(* answers blocked, committed, rolled_back or rollback_failed.  It checks  *)
(* the files' expected pre-state, lists the directories around them, makes *)
(* a workspace directory named after the transaction, copies the files     *)
(* there, changes them one by one, validates (compiles, runs the approved  *)
(* tests), compares the directories with the listing, and undoes all of it *)
(* when any of that raises.                                                *)
(*                                                                         *)
(* There is no lock and no recovery: an invocation is a process that may   *)
(* stop between any two file operations, and the same request may be       *)
(* invoked again at any time.  Several invocations of one request run      *)
(* here.  Every file operation may fail; the tests may write files.        *)
(***************************************************************************)
EXTENDS Integers, Sequences, FiniteSets

CONSTANTS
    Procs,        \* invocations of the request
    Paths,        \* the paths of the tree that matter
    Watched,      \* the children of the candidates' parent directories
    Files,        \* the bundle: a sequence of [path, op, data]
    Expected,     \* path -> expected_pre_state
    Contents,     \* what a regular file holds
    Missing,      \* no such path
    Dir,          \* an empty directory
    FullDir,      \* a directory with entries
    NotCopied,    \* no snapshot file
    TestsTouch,   \* the paths the approved tests may write
    InitDisks,    \* the trees an invocation may find
    Nobody,       \* the transaction directory has no owner yet
    Gone          \* its owner has stopped without an outcome

Entries == Contents \cup {Missing, Dir, FullDir}

Indices == DOMAIN Files

Targets == {Files[i].path : i \in Indices}

\* What the bundle leaves at its i-th path.
Candidate(i) == IF Files[i].op = "delete" THEN Missing ELSE Files[i].data

\* The files next to the candidates: listed before and after.
Outside == Watched \ Targets

\* The gate refuses an empty bundle, two entries for one path and an unknown
\* operation, and a candidate's own directory is always listed.
ASSUME BundleAssumption ==
    /\ Files \in Seq([path : Paths, op : {"create", "replace", "delete"},
                      data : Contents])
    /\ Files # <<>>
    /\ \A i, j \in Indices : Files[i].path = Files[j].path => i = j
    /\ Targets \subseteq Watched /\ Watched \subseteq Paths
    /\ Expected \in [Targets -> Contents \cup {Missing}]

ASSUME TreeAssumption ==
    /\ Missing \notin Contents /\ Dir \notin Contents /\ FullDir \notin Contents
    /\ Missing # Dir /\ Missing # FullDir /\ Dir # FullDir
    /\ NotCopied \notin Entries
    /\ TestsTouch \subseteq Paths
    /\ InitDisks \subseteq [Paths -> Entries]

ASSUME OwnerAssumption == Nobody \notin Procs /\ Gone \notin Procs /\ Nobody # Gone

VARIABLES
    disk,         \* the source tree
    workspace,    \* the transaction directory exists
    pc,           \* the phase each invocation is in
    at,           \* the index of its loop over the files
    before,       \* its environment_before: Paths -> entry
    snap,         \* its snapshot files: the paths it has copied -> entry
    intact,       \* its rollback_ok
    todo,         \* the paths _restore_environment has still to visit
    result        \* its transaction_status, or "none"

vars == <<disk, workspace, pc, at, before, snap, intact, todo, result>>
local == <<at, before, snap, intact, todo>>

Phases == {"start", "list", "claim", "snapshot", "mutate", "validate", "compare",
           "rollback", "environment", "done", "crashed"}

\* The phases in which an invocation is at one of the files.
Loops == {"snapshot", "mutate", "rollback"}

Statuses == {"none", "blocked", "committed", "rolled_back", "rollback_failed"}

\* No loop over the bundle leaves it, and every entry of the tree is one the
\* file system can hold: a rollback never writes back a copy that is missing.
TypeOK ==
    /\ disk \in [Paths -> Entries]
    /\ workspace \in BOOLEAN
    /\ pc \in [Procs -> Phases]
    /\ at \in [Procs -> 0 .. Len(Files)]
    /\ \A p \in Procs : pc[p] \in Loops => at[p] \in Indices
    /\ before \in [Procs -> [Paths -> Entries]]
    /\ snap \in [Procs -> [Targets -> Entries \cup {NotCopied}]]
    /\ intact \in [Procs -> BOOLEAN]
    /\ todo \in [Procs -> SUBSET Outside]
    /\ result \in [Procs -> Statuses]

Init ==
    /\ disk \in InitDisks
    /\ workspace = FALSE
    /\ pc = [p \in Procs |-> "start"]
    /\ at = [p \in Procs |-> 1]
    /\ before = [p \in Procs |-> disk]
    /\ snap = [p \in Procs |-> [f \in Targets |-> NotCopied]]
    /\ intact = [p \in Procs |-> TRUE]
    /\ todo = [p \in Procs |-> {}]
    /\ result = [p \in Procs |-> "none"]
-----------------------------------------------------------------------------
(* Steps of one invocation.                                                *)

At(p, phase) == pc[p] = phase

Enter(p, phase) == pc' = [pc EXCEPT ![p] = phase]

Answer(p, status) ==
    /\ Enter(p, "done")
    /\ result' = [result EXCEPT ![p] = status]

\* Every refusal before the first change of a file.
Blocked(p) == Answer(p, "blocked") /\ UNCHANGED <<disk, workspace, local>>

IsFile(x) == x \in Contents

\* The pre-state the bundle expects of its i-th file, and the one its
\* operation needs.
PreState(i) ==
    LET f == Files[i].path
    IN  /\ disk[f] = Expected[f]
        /\ IF Files[i].op = "create" THEN disk[f] = Missing ELSE IsFile(disk[f])

\* The gate over request, authorization and bundle refuses, or a file is not
\* in its expected pre-state.
Deny(p) == At(p, "start") /\ Blocked(p)

Verify(p) ==
    /\ At(p, "start")
    /\ \A i \in Indices : PreState(i)
    /\ Enter(p, "list")
    /\ UNCHANGED <<disk, workspace, local, result>>

\* environment_before = _directory_snapshot(parents)
List(p) ==
    /\ At(p, "list")
    /\ before' = [before EXCEPT ![p] = disk]
    /\ Enter(p, "claim")
    /\ UNCHANGED <<disk, workspace, at, snap, intact, todo, result>>

\* transaction_dir.mkdir(exist_ok=False)
Claim(p) ==
    /\ At(p, "claim")
    /\ ~workspace
    /\ workspace' = TRUE
    /\ Enter(p, "snapshot")
    /\ UNCHANGED <<disk, local, result>>

\* Mutant: the refused invocation answers as if it had undone its work.
ClaimFailsRolledBack(p) ==
    /\ At(p, "claim")
    /\ Answer(p, "rolled_back")
    /\ UNCHANGED <<disk, workspace, local>>

\* mkdir raises: the directory is there, or cannot be made.
ClaimFails(p) == At(p, "claim") /\ Blocked(p)

\* Mutant: the loop ends one file early.
SnapshotShort(p) ==
    /\ At(p, "snapshot")
    /\ LET f == Files[at[p]].path
       IN  snap' = [snap EXCEPT ![p][f] = disk[f]]
    /\ IF at[p] >= Len(Files) - 1
       THEN Enter(p, "mutate") /\ at' = [at EXCEPT ![p] = 1]
       ELSE at' = [at EXCEPT ![p] = @ + 1] /\ UNCHANGED pc
    /\ UNCHANGED <<disk, workspace, before, intact, todo, result>>

\* The loop that copies the files into the transaction directory.
Snapshot(p) ==
    /\ At(p, "snapshot")
    /\ LET f == Files[at[p]].path
       IN  snap' = [snap EXCEPT ![p][f] = disk[f]]
    /\ IF at[p] = Len(Files)
       THEN Enter(p, "mutate") /\ at' = [at EXCEPT ![p] = 1]
       ELSE at' = [at EXCEPT ![p] = @ + 1] /\ UNCHANGED pc
    /\ UNCHANGED <<disk, workspace, before, intact, todo, result>>

\* "recoverable_snapshot_incomplete"
SnapshotFails(p) == At(p, "snapshot") /\ Blocked(p)

\* Mutant: only the files the loop has finished with are undone.
UndoFinished(p) ==
    /\ Enter(p, "rollback")
    /\ at' = [at EXCEPT ![p] = IF At(p, "mutate") /\ @ > 1 THEN @ - 1 ELSE Len(Files)]

\* An exception after the snapshot: undo, last file first.
Undo(p) ==
    /\ Enter(p, "rollback")
    /\ at' = [at EXCEPT ![p] = Len(Files)]

\* The loop that writes or deletes the candidates, each one verified.
Mutate(p) ==
    /\ At(p, "mutate")
    /\ disk' = [disk EXCEPT ![Files[at[p]].path] = Candidate(at[p])]
    /\ IF at[p] = Len(Files)
       THEN Enter(p, "validate") /\ at' = [at EXCEPT ![p] = 1]
       ELSE at' = [at EXCEPT ![p] = @ + 1] /\ UNCHANGED pc
    /\ UNCHANGED <<workspace, before, snap, intact, todo, result>>

\* The write or the delete raises, or the check after it does.
MutateFails(p) ==
    /\ At(p, "mutate")
    /\ \/ UNCHANGED disk
       \/ disk' = [disk EXCEPT ![Files[at[p]].path] = Candidate(at[p])]
    /\ Undo(p)
    /\ UNCHANGED <<workspace, before, snap, intact, todo, result>>

\* The approved tests leave what they like at the paths they touch.
TestsRun ==
    \E effect \in [TestsTouch -> Entries] :
        disk' = [f \in Paths |-> IF f \in TestsTouch THEN effect[f] ELSE disk[f]]

\* No profile, or compile and tests pass.
ValidatePasses(p) ==
    /\ At(p, "validate")
    /\ UNCHANGED disk \/ TestsRun
    /\ Enter(p, "compare")
    /\ UNCHANGED <<workspace, local, result>>

\* Compilation fails, or the tests fail or time out.
ValidateFails(p) ==
    /\ At(p, "validate")
    /\ UNCHANGED disk \/ TestsRun
    /\ Undo(p)
    /\ UNCHANGED <<workspace, before, snap, intact, todo, result>>

\* comparable(): a file's hash and a directory's existence, not its entries.
Looks(x) == IF x = FullDir THEN Dir ELSE x

\* Mutant: only what was listed before is compared.
ComparedListed(p) ==
    \A f \in Outside :
        before[p][f] # Missing => Looks(disk[f]) = Looks(before[p][f])

Compared(p) == \A f \in Outside : Looks(disk[f]) = Looks(before[p][f])

Commit(p) ==
    /\ At(p, "compare")
    /\ Compared(p)
    /\ Answer(p, "committed")
    /\ UNCHANGED <<disk, workspace, local>>

\* "unexpected_scope_outside_change", or the listing raises.
CompareFails(p) ==
    /\ At(p, "compare")
    /\ Undo(p)
    /\ UNCHANGED <<disk, workspace, before, snap, intact, todo, result>>

-----------------------------------------------------------------------------
(* Rollback.                                                               *)

\* What stands in the way of writing or deleting a file at path f.
Obstructed(f) == disk[f] \in {Dir, FullDir}

PathsListed(p) == {f \in Outside : disk[f] # Missing \/ before[p][f] # Missing}

\* Mutant: one iteration too many.
NextRollbackPast(p) ==
    IF at[p] = 0
    THEN /\ Enter(p, "environment")
         /\ todo' = [todo EXCEPT ![p] = PathsListed(p)]
         /\ UNCHANGED at
    ELSE /\ at' = [at EXCEPT ![p] = @ - 1]
         /\ UNCHANGED <<pc, todo>>

\* One iteration of the rollback loop, whatever came of it; after the last
\* one _restore_environment lists the directories again.
NextRollback(p) ==
    IF at[p] = 1
    THEN /\ Enter(p, "environment")
         /\ at' = [at EXCEPT ![p] = 0]
         /\ todo' = [todo EXCEPT ![p] = PathsListed(p)]
    ELSE /\ at' = [at EXCEPT ![p] = @ - 1]
         /\ UNCHANGED <<pc, todo>>

\* The snapshot of every file is put back, changed or not.
Restore(p) ==
    /\ At(p, "rollback")
    /\ LET f == Files[at[p]].path
       IN  /\ ~Obstructed(f)
           /\ disk' = [disk EXCEPT ![f] = snap[p][f]]
    /\ NextRollback(p)
    /\ UNCHANGED <<workspace, before, snap, intact, result>>

\* The restore raises before or after the replacement; the loop goes on.
RestoreFails(p) ==
    /\ At(p, "rollback")
    /\ LET f == Files[at[p]].path
       IN  \/ UNCHANGED disk
           \/ ~Obstructed(f) /\ disk' = [disk EXCEPT ![f] = snap[p][f]]
    /\ intact' = [intact EXCEPT ![p] = FALSE]
    /\ NextRollback(p)
    /\ UNCHANGED <<workspace, before, snap, result>>

NextOutside(p, f) ==
    /\ todo' = [todo EXCEPT ![p] = @ \ {f}]
    /\ UNCHANGED <<workspace, pc, at, before, snap, result>>

\* _restore_environment on one path: a file that was not listed before is
\* deleted, an empty directory removed; a listed file is written again; a
\* listed directory only has to exist, as anything.
RestoreOutside(p) ==
    /\ At(p, "environment")
    /\ \E f \in todo[p] :
          /\ \/ /\ before[p][f] = Missing /\ disk[f] # FullDir
                /\ disk' = [disk EXCEPT ![f] = Missing]
             \/ /\ IsFile(before[p][f]) /\ ~Obstructed(f)
                /\ disk' = [disk EXCEPT ![f] = before[p][f]]
             \/ /\ before[p][f] \in {Dir, FullDir} /\ disk[f] # Missing
                /\ UNCHANGED disk
          /\ NextOutside(p, f)
    /\ UNCHANGED intact

\* The same when it raises.
RestoreOutsideFails(p) ==
    /\ At(p, "environment")
    /\ \E f \in todo[p] : NextOutside(p, f)
    /\ intact' = [intact EXCEPT ![p] = FALSE]
    /\ UNCHANGED disk

Report(p) ==
    /\ At(p, "environment")
    /\ todo[p] = {}
    /\ Answer(p, IF intact[p] THEN "rolled_back" ELSE "rollback_failed")
    /\ UNCHANGED <<disk, workspace, local>>

\* The process ends: killed, or by an exception no handler catches (an
\* interrupt, a directory that cannot be listed).
Crash(p) ==
    /\ pc[p] \notin {"done", "crashed"}
    /\ Enter(p, "crashed")
    /\ UNCHANGED <<disk, workspace, local, result>>

-----------------------------------------------------------------------------
Invocation(p) ==
    \/ Deny(p) \/ Verify(p) \/ List(p) \/ Claim(p) \/ ClaimFails(p)
    \/ Snapshot(p) \/ SnapshotFails(p) \/ Mutate(p) \/ MutateFails(p)
    \/ ValidatePasses(p) \/ ValidateFails(p) \/ Commit(p) \/ CompareFails(p)
    \/ Restore(p) \/ RestoreFails(p) \/ RestoreOutside(p)
    \/ RestoreOutsideFails(p) \/ Report(p)

Ended == (\A p \in Procs : pc[p] \in {"done", "crashed"}) /\ UNCHANGED vars

Next == Ended \/ \E p \in Procs : Invocation(p) \/ Crash(p)

Spec == Init /\ [][Next]_vars

-----------------------------------------------------------------------------
(* Correctness.                                                            *)

\* The phases of an invocation that owns the transaction directory.
Claimed(p) == \E f \in Targets : snap[p][f] # NotCopied

\* "rolled_back" means that no byte differs: every candidate and every file
\* next to one is what it was, whichever step failed, whatever was half done
\* and whatever the tests wrote.
RolledBackExact ==
    \A p \in Procs : result[p] = "rolled_back" =>
        \A f \in Watched :
            before[p][f] \in Contents \cup {Missing} => disk[f] = before[p][f]

\* "committed" means that every candidate is in place, unless the tests wrote
\* over it, and nothing next to one has changed.
CommittedExact ==
    \A p \in Procs : result[p] = "committed" =>
        /\ \A i \in Indices :
              Files[i].path \notin TestsTouch => disk[Files[i].path] = Candidate(i)
        /\ \A f \in Outside : Looks(disk[f]) = Looks(before[p][f])

\* A request changes files at most once, however often it is invoked and
\* wherever an invocation crashed.
SingleUse == \A p, q \in Procs : Claimed(p) /\ Claimed(q) => p = q

\* Wherever the owner of the transaction directory stops, the directory
\* holds the original of every candidate that differs from it.
Recoverable ==
    \A p \in Procs : Claimed(p) =>
        \A f \in Targets : disk[f] # before[p][f] => snap[p][f] = before[p][f]

\* The invocation that is past the transaction directory, at work or answered.
Owning(p) ==
    \/ pc[p] \in {"snapshot", "mutate", "validate", "compare", "rollback", "environment"}
    \/ result[p] \in {"committed", "rolled_back", "rollback_failed"}

TheOwner ==
    IF ~workspace THEN Nobody
    ELSE IF \E p \in Procs : Owning(p) THEN CHOOSE p \in Procs : Owning(p) ELSE Gone

\* To its callers a transaction is a single claim and, from the claimant alone,
\* a single outcome.
Once == INSTANCE TransactionClaim WITH Calls <- Procs, owner <- TheOwner
ClaimedOnce == Once!Spec
=============================================================================
