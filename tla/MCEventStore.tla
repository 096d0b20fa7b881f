---------------------------- MODULE MCEventStore ----------------------------
(***************************************************************************)
(* EventStore with values TLC can check: the clients are interchangeable,  *)
(* and the truncation indexes are the ones that hit, miss or cross the     *)
(* short streams of the bounds.                                            *)
(***************************************************************************)
EXTENDS EventStore, TLC

FrontAndBack == {-2, 0, 2, 3}
Front == {2, 3}

Interchangeable == Permutations(Clients)
=============================================================================
