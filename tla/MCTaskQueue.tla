---------------------------- MODULE MCTaskQueue -----------------------------
(* A queue that two sessions share: a task of session s1, and two branches *)
(* of session s2 that do the same work, one under the same task id.        *)
EXTENDS TaskQueue, TLC

CONSTANTS kPlain, kBranch, kTwin, t1, t2, s1, s2, work

MCKeys == {kPlain, kBranch, kTwin}

MCTaskOf == kPlain :> t1 @@ kBranch :> t1 @@ kTwin :> t2

MCSessionOf == kPlain :> s1 @@ kBranch :> s2 @@ kTwin :> s2

MCBranched == {kBranch, kTwin}

MCWorkIdentity == kPlain :> NoIdentity @@ kBranch :> work @@ kTwin :> work

MCMaxRetries == kPlain :> 1 @@ kBranch :> 0 @@ kTwin :> 0
=============================================================================
