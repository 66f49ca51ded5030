---------------------------- MODULE MCFsLogStore ----------------------------
(* TLC instances of FsLogStore: a short entry and a long one, and stores    *)
(* that may be exchanged.                                                   *)
EXTENDS FsLogStore, TLC

CONSTANT Long  \* the entry whose serialized form is longer

MixedSizes == [e \in Entry |-> IF e = Long THEN 2 ELSE 1]
Perms == Permutations(Store)
=============================================================================
