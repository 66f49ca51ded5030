--------------------------- MODULE MCRaftSnapshot ---------------------------
(* TLC instance of RaftSnapshot: the leader and the slow follower f2 take   *)
(* snapshots, f1 does not.                                                  *)
EXTENDS RaftSnapshot, TLC

CONSTANTS f1, f2

Distances == (Leader :> 1) @@ (f1 :> 0) @@ (f2 :> 1)
=============================================================================
