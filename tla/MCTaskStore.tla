---------------------------- MODULE MCTaskStore -----------------------------
(***************************************************************************)
(* The modules about tasks.json: the store lock, the repository on top of  *)
(* it and the search for cycles.  They meet only in what they promise each *)
(* other (a method of the repository is one step because transactions are  *)
(* atomic; HasCycle is what the search computes), so every behaviour of    *)
(* all of them is made of behaviours of each, and TLC explores one at a    *)
(* time: part is the one that moves, the others stay as they begin.        *)
(*                                                                         *)
(* The lock: two processes, one of them with two threads; transactions     *)
(* that add or drop one task, and one that changes every task it finds.    *)
(***************************************************************************)
EXTENDS TaskStore, TLC

CONSTANTS t1, t2, t3, p1, p2

VARIABLE part

storeVars == <<part, vars, repositoryVars, cyclesVars>>

Owners == t1 :> p1 @@ t2 :> p1 @@ t3 :> p2

Stored == SUBSET ({"x", "y"} \X {"blocked", "queued"})

NoTasks == {}

Changes == ({"add", "drop"} \X {"x", "y"}) \cup {<<"refresh">>}

Changed(op, stored) ==
    CASE op[1] = "add" -> stored \cup {<<op[2], "blocked">>}
      [] op[1] = "drop" -> {r \in stored : r[1] # op[2]}
      [] OTHER -> {<<r[1], "queued">> : r \in stored}

ASSUME LockAssumption /\ Repo!RepositoryAssumption

StoreInit ==
    /\ part \in {"lock", "repository", "cycles"}
    /\ Init /\ Repo!Init /\ Cycles!Init
    /\ part # "cycles" => graph = <<>>

LockStep ==
    /\ part = "lock" /\ Next
    /\ UNCHANGED <<part, repositoryVars, cyclesVars>>

RepositoryStep ==
    /\ part = "repository" /\ Repo!Next
    /\ UNCHANGED <<part, vars, cyclesVars>>

CyclesStep ==
    /\ part = "cycles" /\ Cycles!Next
    /\ UNCHANGED <<part, vars, repositoryVars>>

\* The search is over.
Answered == part = "cycles" /\ answer # "none" /\ UNCHANGED storeVars

StoreNext == LockStep \/ RepositoryStep \/ CyclesStep \/ Answered

StoreSpec == StoreInit /\ [][StoreNext]_storeVars

IdSymmetry == Permutations(Ids)
=============================================================================
