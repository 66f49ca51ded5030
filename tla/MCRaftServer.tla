---------------------------- MODULE MCRaftServer ----------------------------
(* TLC instances of RaftServer. *)
EXTENDS RaftServer, TLC

\* Permutations of the servers that respect every bound on single servers.
Perms == {p \in Permutations(Server) :
             \A S \in {Electors, Beating, Hearing} : {p[i] : i \in S} = S}
=============================================================================
