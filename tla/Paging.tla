------------------------------- MODULE Paging -------------------------------
(***************************************************************************)
(* Which positions a paged read of a stream asks for:                      *)
(* driver.GenerateStreamIDs, used by every Read of both stores.  The       *)
(* stream holds the positions first .. last (both 0 when it is empty),     *)
(* "after" is the position to start behind, counted from the end of the    *)
(* stream when negative, and a negative count reads backwards.             *)
(***************************************************************************)
EXTENDS Words, Sequences

Smaller(i, j) == IF i < j THEN i ELSE j
Larger(i, j)  == IF i > j THEN i ELSE j
Abs(i)        == IF i < 0 THEN -i ELSE i
Least(S)      == CHOOSE i \in S : \A j \in S : i <= j

(* The first position of the box and how many follow it; external. *)
PagerBox(first, last, after, count) ==
  LET start == IF after < 0 THEN ToUint(ToInt(last) + after + 1)
               ELSE IF after < ToInt(first) THEN first
               ELSE Plus(after, 1)
      size  == CASE count > 0 -> Smaller(count, ToInt(Minus(last, start)) + 1)
                 [] count < 0 /\ after >= 0 -> Larger(count, ToInt(Minus(first, start)))
                 [] count < 0 /\ after < 0  -> Larger(count, ToInt(Minus(first, start)) - 1)
                 [] count = 0 -> 0
      empty == size = 0 \/ (start < first /\ size < 0) \/ (start > last /\ size > 0)
  IN  IF empty THEN [start |-> 0, size |-> 0] ELSE [start |-> start, size |-> size]

-----------------------------------------------------------------------------
(* Variants of the definition below with a plausible mistake in them. *)

StopsBeforeTheLast(first, last, after, count) ==
  LET box == PagerBox(first, last, after, count)
  IN  [i \in 1 .. Larger(Abs(box.size) - 1, 0) |->
         IF box.size < 0 THEN box.start - i + 1 ELSE box.start + i - 1]

CountsUpOnly(first, last, after, count) ==
  LET box == PagerBox(first, last, after, count)
  IN  [i \in 1 .. Abs(box.size) |-> ToUint(box.start + i - 1)]

CountsDownOnly(first, last, after, count) ==
  LET box == PagerBox(first, last, after, count)
  IN  [i \in 1 .. Abs(box.size) |-> Minus(box.start, i - 1)]

-----------------------------------------------------------------------------
(* The list the loop builds: it counts from start towards the end (or the  *)
(* beginning) of the stream, and stops behind the last position that has   *)
(* no neighbour inside first .. last.                                      *)
GenerateStreamIDs(first, last, after, count) ==
  LET box   == PagerBox(first, last, after, count)
      at(i) == IF box.size > 0 THEN Plus(box.start, i - 1) ELSE Minus(box.start, i - 1)
      size  == Abs(box.size)
      stops == {i \in 1 .. size : i = size \/ at(i + 1) < first \/ at(i + 1) > last}
  IN  IF first = 0 \/ last = 0 \/ box.size = 0 THEN <<>>
      ELSE [i \in 1 .. Least(stops) |-> at(i)]
=============================================================================
