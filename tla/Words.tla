------------------------------- MODULE Words -------------------------------
(***************************************************************************)
(* Go's uint64 and int64, scaled down.  A position of a stream is a        *)
(* uint64, a paging argument an int64, and the code converts between the   *)
(* two and subtracts unsigned numbers, so both keep their width here:      *)
(* Half stands for 2^63, and sums and differences wrap around.             *)
(***************************************************************************)
EXTENDS Integers

CONSTANT Half    \* 2^63 in the code

ASSUME HalfAssumption == Half \in Nat /\ Half > 1

Word == 2 * Half                \* how many values a uint64 has

Uint64 == 0 .. Word - 1
Int64  == -Half .. Half - 1

AppendOnly == Word - 1          \* ^uint64(0)
AllEvents  == Half - 1          \* int64(AppendOnly >> 1)

(* uint64(i) and int64(u): two's complement. *)
ToUint(i) == IF i < 0 THEN i + Word ELSE i
ToInt(u)  == IF u < Half THEN u ELSE u - Word

(* Unsigned addition and subtraction. *)
Plus(u, v)  == IF u + v < Word THEN u + v ELSE u + v - Word
Minus(u, v) == IF u >= v THEN u - v ELSE u - v + Word
=============================================================================
