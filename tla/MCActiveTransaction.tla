------------------------ MODULE MCActiveTransaction -------------------------
(* A bundle that replaces a file, creates one and deletes one, in a         *)
(* directory with another file and a subdirectory.                          *)
EXTENDS ActiveTransaction, TLC

CONSTANTS replaced, created, deleted, file, sub, elsewhere, old, new

MCFiles == <<[path |-> replaced, op |-> "replace", data |-> new],
             [path |-> created, op |-> "create", data |-> new],
             [path |-> deleted, op |-> "delete", data |-> new]>>

MCExpected == replaced :> old @@ created :> Missing @@ deleted :> old

MCTree == MCExpected @@ file :> old @@ elsewhere :> Missing

\* The tree the bundle was made for, with and without the subdirectory, and
\* one in which a candidate has changed since.
MCInitDisks ==
    {MCTree @@ sub :> Missing, MCTree @@ sub :> Dir,
     [MCTree EXCEPT ![replaced] = new] @@ sub :> Missing}

InvocationSymmetry == Permutations(Procs)
=============================================================================
