------------------------------ MODULE MCLinks -------------------------------
(***************************************************************************)
(* Links with a projecter of two streams and one of the second of them.    *)
(***************************************************************************)
EXTENDS Links

CONSTANTS p1, p2

MCTargets == (p1 :> <<"$all", "$type">>) @@ (p2 :> <<"$type">>)
Interchangeable == Permutations(Sources)
=============================================================================
