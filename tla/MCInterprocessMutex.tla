------------------------ MODULE MCInterprocessMutex ------------------------
(***************************************************************************)
(* Two processes, one with two instances, and files and LockInfos enough   *)
(* for each instance to have its own.                                      *)
(***************************************************************************)
EXTENDS InterprocessMutex

CONSTANTS p1, p2, i1, i2, i3

MCHome == [i \in {i1, i2, i3} |-> IF i = i3 THEN p2 ELSE p1]
=============================================================================
