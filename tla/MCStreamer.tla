----------------------------- MODULE MCStreamer -----------------------------
(***************************************************************************)
(* Streamer with values TLC can check: a subscription from the beginning   *)
(* of the stream (0), and one from its last event (-1).                    *)
(***************************************************************************)
EXTENDS Streamer, TLC

FromStart == {0}
FromStartOrEnd == {0, -1}

Interchangeable == Permutations(Subs)
=============================================================================
