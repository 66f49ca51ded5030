----------------------------- MODULE MCAsioRpc -----------------------------
(* TLC instance of AsioRpc.                                                 *)
EXTENDS AsioRpc, TLC
=============================================================================
