-------------------------- MODULE MCServerThreads --------------------------
(* TLC instance of ServerThreads.                                           *)
EXTENDS ServerThreads, TLC
=============================================================================
