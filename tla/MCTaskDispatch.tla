--------------------------- MODULE MCTaskDispatch ---------------------------
(* Two tasks with ids of their own and two threads.                        *)
EXTENDS TaskDispatch, TLC

CONSTANTS k1, k2, t1, t2, a, b

MCTaskOf == k1 :> t1 @@ k2 :> t2

MCSessionOf == k1 :> NoSession @@ k2 :> NoSession

MCWorkIdentity == k1 :> NoIdentity @@ k2 :> NoIdentity

MCMaxRetries == k1 :> 0 @@ k2 :> 1

\* Threads that may do the same things are interchangeable; used by the
\* safety run only.
ThreadSymmetry == Permutations(Threads)
=============================================================================
