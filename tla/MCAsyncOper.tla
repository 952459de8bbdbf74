---------------------------- MODULE MCAsyncOper ----------------------------
(***************************************************************************)
(* AsyncOper for model checking: two sockets, the first with operations in *)
(* both directions, so that two operations share a socket and a third one  *)
(* must not be touched by what happens to it.                              *)
(***************************************************************************)
EXTENDS AsyncOper

CONSTANTS k1, k2

MCSockets == {k1, k2}
MCSlots   == {<<k1, "read">>, <<k1, "write">>, <<k2, "read">>}
=============================================================================
