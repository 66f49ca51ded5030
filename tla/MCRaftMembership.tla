-------------------------- MODULE MCRaftMembership --------------------------
(* TLC instance of RaftMembership.                                          *)
EXTENDS RaftMembership, TLC
=============================================================================
