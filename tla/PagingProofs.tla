---------------------------- MODULE PagingProofs ----------------------------
(***************************************************************************)
(* What GenerateStreamIDs returns, for words of every width.               *)
(***************************************************************************)
EXTENDS Paging, SequenceTheorems, WellFoundedInduction, TLAPS

(* A sequence as a function on its positions. *)
LEMMA AsFunction ==
  ASSUME NEW S, NEW seq \in Seq(S)
  PROVE  /\ Len(seq) \in Nat
         /\ \A i \in 1 .. Len(seq) : seq[i] \in S
         /\ seq # <<>> => Len(seq) > 0
<1>1. Len(seq) \in Nat /\ seq \in [1 .. Len(seq) -> S]
  BY LenProperties
<1>2. seq # <<>> => Len(seq) > 0
  BY <1>1, EmptySeq
<1> QED BY <1>1, <1>2

(* The first position a page read forwards asks for.                       *)
From(first, after) == Larger(first - 1, after)

(* PagerBox starts a forward page behind the cursor, or at the first       *)
(* position of the stream when the cursor is before it, and never sizes it *)
(* beyond the end (math.PagerBox, as driver.GenerateStreamIDs calls it).   *)
LEMMA ForwardBox ==
  ASSUME NEW last \in 1 .. AllEvents, NEW first \in 1 .. last,
         NEW after \in 0 .. last, NEW count \in 1 .. AllEvents
  PROVE  LET n == Smaller(count, last - From(first, after))
         IN  PagerBox(first, last, after, count) =
               IF n = 0 THEN [start |-> 0, size |-> 0]
               ELSE [start |-> From(first, after) + 1, size |-> n]
<1> DEFINE from  == From(first, after)
           start == IF after < first THEN first ELSE Plus(after, 1)
           size  == Smaller(count, ToInt(Minus(last, start)) + 1)
<1>0. Half \in Nat /\ Half > 1 /\ Word = 2 * Half /\ AllEvents = Half - 1
  BY HalfAssumption DEF Word, AllEvents
<1>1. from \in 0 .. last /\ from >= first - 1
  BY DEF From, Larger
<1>2. start = from + 1
  BY <1>0 DEF From, Larger, Plus
<1>3. size = Smaller(count, last - from)
  <2>1. CASE from < last
    BY <1>0, <1>1, <1>2, <2>1 DEF Minus, ToInt, Smaller
  <2>2. CASE from = last
    BY <1>0, <1>1, <1>2, <2>2 DEF Minus, ToInt, Smaller
  <2> QED BY <1>1, <2>1, <2>2
<1>4. ToInt(first) = first
  BY <1>0 DEF ToInt
<1>5. size \in 0 .. last - from
  BY <1>1, <1>3 DEF Smaller
<1>6. PagerBox(first, last, after, count) =
        IF size = 0 \/ (start < first /\ size < 0) \/ (start > last /\ size > 0)
        THEN [start |-> 0, size |-> 0] ELSE [start |-> start, size |-> size]
  BY <1>4 DEF PagerBox
<1> QED BY <1>1, <1>2, <1>3, <1>5, <1>6

(* A page read forwards holds the positions behind the cursor, in order,   *)
(* as many as were asked for and exist (driver.GenerateStreamIDs).         *)
THEOREM PageForward ==
  ASSUME NEW last \in 1 .. AllEvents, NEW first \in 1 .. last,
         NEW after \in 0 .. last, NEW count \in 1 .. AllEvents
  PROVE  GenerateStreamIDs(first, last, after, count) =
           [i \in 1 .. Smaller(count, last - From(first, after)) |-> From(first, after) + i]
<1> DEFINE from  == From(first, after)
           n     == Smaller(count, last - from)
           box   == PagerBox(first, last, after, count)
           at(i) == IF box.size > 0 THEN Plus(box.start, i - 1) ELSE Minus(box.start, i - 1)
           size  == Abs(box.size)
           stops == {i \in 1 .. size : i = size \/ at(i + 1) < first \/ at(i + 1) > last}
<1>0. Half \in Nat /\ Half > 1 /\ Word = 2 * Half /\ AllEvents = Half - 1
  BY HalfAssumption DEF Word, AllEvents
<1>1. from \in first - 1 .. last /\ n \in 0 .. last - from
  BY DEF From, Larger, Smaller
<1>2. GenerateStreamIDs(first, last, after, count) =
        IF box.size = 0 THEN <<>> ELSE [i \in 1 .. Least(stops) |-> at(i)]
  BY DEF GenerateStreamIDs
<1>3. CASE n = 0
  <2>1. box.size = 0
    BY ForwardBox, <1>3
  <2> QED BY <1>2, <1>3, <2>1
<1>4. CASE n > 0
  <2>1. box = [start |-> from + 1, size |-> n]
    BY ForwardBox, <1>4
  <2>2. box.size = n /\ box.start = from + 1 /\ size = n
    BY <1>1, <1>4, <2>1 DEF Abs
  <2> HIDE DEF box, size, n, from
  <2>3. \A i \in 1 .. n + 1 : at(i) = from + i
    BY <1>0, <1>1, <1>4, <2>2 DEF Plus
  <2>4. stops = {n}
    BY <1>1, <1>4, <2>2, <2>3
  <2>5. Least(stops) = n
    BY <1>1, <2>4 DEF Least
  <2> HIDE DEF stops
  <2>6. box.size # 0
    BY <1>1, <1>4, <2>2
  <2>7. GenerateStreamIDs(first, last, after, count) = [i \in 1 .. n |-> at(i)]
    BY <1>2, <2>5, <2>6
  <2>8. \A i \in 1 .. n : at(i) = from + i
    BY <1>1, <2>3
  <2> HIDE DEF at
  <2>9. GenerateStreamIDs(first, last, after, count) = [i \in 1 .. n |-> from + i]
    BY <2>7, <2>8
  <2> QED BY <2>9 DEF n, from
<1> QED BY <1>1, <1>3, <1>4
-----------------------------------------------------------------------------
LEMMA HalfIs == Half \in Nat /\ Half > 1 /\ Word = 2 * Half /\ AllEvents = Half - 1
  BY HalfAssumption DEF Word, AllEvents

LEMMA LeastIs ==
  ASSUME NEW S \in SUBSET Nat, S # {}
  PROVE  Least(S) \in S /\ \A j \in S : Least(S) <= j
<1> DEFINE less == {pair \in Nat \X Nat : pair[1] < pair[2]}
<1>1. IsWellFoundedOn(less, Nat)
  BY NatLessThanWellFounded DEF OpToRel
<1>2. PICK m \in S : \A j \in S : <<j, m>> \notin less
  <2> HIDE DEF less
  <2> QED BY <1>1, WFMin
<1>3. ASSUME NEW j \in S PROVE m <= j
  <2>1. j \in Nat /\ m \in Nat
    OBVIOUS
  <2>2. <<j, m>> \notin less
    BY <1>2
  <2>3. ~(j < m)
    BY <2>1, <2>2
  <2> QED BY <2>1, <2>3
<1> QED BY <1>3 DEF Least

(* A page that begins at a position from, at most one before the window,   *)
(* and goes up: PagerBox's size is the number of positions the loop        *)
(* returns.                                                                *)
LEMMA LoopUp ==
  ASSUME NEW last \in 1 .. AllEvents, NEW first \in 1 .. last, NEW from \in first - 1 .. last,
         NEW n \in 1 .. last - from + 1, NEW after \in Int64, NEW count \in Int64,
         PagerBox(first, last, after, count) = [start |-> from, size |-> n]
  PROVE  GenerateStreamIDs(first, last, after, count) = [i \in 1 .. n |-> from + i - 1]
<1> DEFINE box   == PagerBox(first, last, after, count)
           at(i) == IF box.size > 0 THEN Plus(box.start, i - 1) ELSE Minus(box.start, i - 1)
           stops == {i \in 1 .. Abs(box.size) : i = Abs(box.size) \/ at(i + 1) < first \/ at(i + 1) > last}
<1>1. GenerateStreamIDs(first, last, after, count) =
        IF box.size = 0 THEN <<>> ELSE [i \in 1 .. Least(stops) |-> at(i)]
  BY DEF GenerateStreamIDs
<1>2. box.size = n /\ box.start = from /\ Abs(box.size) = n
  BY DEF Abs
<1> HIDE DEF box
<1>3. \A i \in 1 .. n + 1 : at(i) = from + i - 1
  BY <1>2, HalfIs DEF Plus
<1>4. stops = {n}
  BY <1>2, <1>3
<1>5. Least(stops) = n
  BY <1>4 DEF Least
<1> HIDE DEF stops, at
<1>6. GenerateStreamIDs(first, last, after, count) = [i \in 1 .. n |-> at(i)]
  BY <1>1, <1>2, <1>5
<1> QED BY <1>3, <1>6

(* ... and one that goes down, from at most one behind the window.         *)
LEMMA LoopDown ==
  ASSUME NEW last \in 1 .. AllEvents, NEW first \in 1 .. last, NEW from \in first .. last + 1,
         NEW size \in Int, size < 0, from + size + 1 >= first,
         NEW after \in Int64, NEW count \in Int64,
         PagerBox(first, last, after, count) = [start |-> from, size |-> size]
  PROVE  GenerateStreamIDs(first, last, after, count) = [i \in 1 .. -size |-> from - i + 1]
<1> DEFINE n == -size
<1> DEFINE box   == PagerBox(first, last, after, count)
           at(i) == IF box.size > 0 THEN Plus(box.start, i - 1) ELSE Minus(box.start, i - 1)
           stops == {i \in 1 .. Abs(box.size) : i = Abs(box.size) \/ at(i + 1) < first \/ at(i + 1) > last}
<1>1. GenerateStreamIDs(first, last, after, count) =
        IF box.size = 0 THEN <<>> ELSE [i \in 1 .. Least(stops) |-> at(i)]
  BY DEF GenerateStreamIDs
<1>2. box.size = -n /\ box.start = from /\ Abs(box.size) = n /\ ~(box.size > 0)
      /\ n \in 1 .. from - first + 1
  BY DEF Abs
<1> HIDE DEF box, n
<1>3. \A i \in 1 .. n + 1 : at(i) = from - i + 1
  BY <1>2, HalfIs DEF Minus
<1>4. stops = {n}
  BY <1>2, <1>3
<1>5. Least(stops) = n
  BY <1>4 DEF Least
<1>6. box.size # 0
  BY <1>2 DEF n
<1> HIDE DEF stops, at
<1>7. GenerateStreamIDs(first, last, after, count) = [i \in 1 .. n |-> at(i)]
  BY <1>1, <1>5, <1>6
<1> QED BY <1>2, <1>3, <1>7 DEF n

(* ... and one that begins where the next position is outside the window:  *)
(* the loop stops behind the first.                                        *)
LEMMA LoopOnce ==
  ASSUME NEW last \in 1 .. AllEvents, NEW first \in 1 .. last, NEW from \in Uint64,
         NEW size \in Int, size # 0,
         LET next == IF size > 0 THEN Plus(from, 1) ELSE Minus(from, 1)
         IN  next < first \/ next > last,
         NEW after \in Int64, NEW count \in Int64,
         PagerBox(first, last, after, count) = [start |-> from, size |-> size]
  PROVE  GenerateStreamIDs(first, last, after, count) = <<from>>
<1> DEFINE box   == PagerBox(first, last, after, count)
           at(i) == IF box.size > 0 THEN Plus(box.start, i - 1) ELSE Minus(box.start, i - 1)
           stops == {i \in 1 .. Abs(box.size) : i = Abs(box.size) \/ at(i + 1) < first \/ at(i + 1) > last}
<1>1. GenerateStreamIDs(first, last, after, count) =
        IF box.size = 0 THEN <<>> ELSE [i \in 1 .. Least(stops) |-> at(i)]
  BY DEF GenerateStreamIDs
<1>2. box.size = size /\ box.start = from /\ Abs(box.size) \in Nat /\ Abs(box.size) >= 1
  BY DEF Abs
<1> HIDE DEF box
<1>3. at(1) = from /\ (at(2) < first \/ at(2) > last)
  BY <1>2, HalfIs DEF Plus, Minus, Uint64
<1>4. 1 \in stops /\ stops \in SUBSET Nat /\ \A i \in stops : 1 <= i
  BY <1>2, <1>3
<1> HIDE DEF stops, at
<1>5. Least(stops) = 1
  <2>1. Least(stops) \in stops /\ Least(stops) <= 1 /\ 1 <= Least(stops) /\ Least(stops) \in Nat
    BY <1>4, LeastIs
  <2> QED BY <2>1
<1>6. GenerateStreamIDs(first, last, after, count) = [i \in 1 .. 1 |-> at(i)]
  BY <1>1, <1>2, <1>5
<1>7. [i \in 1 .. 1 |-> at(i)] = <<at(1)>>
  OBVIOUS
<1> QED BY <1>3, <1>6, <1>7

(* A page counted from the end starts at the position that far from it and *)
(* goes up or down, as far as was asked for and the window reaches, when   *)
(* that is at most one position before it (driver.GenerateStreamIDs).      *)
LEMMA PageBackward ==
  ASSUME NEW last \in 1 .. AllEvents, NEW first \in 1 .. last,
         NEW after \in Int64, after < 0, NEW count \in Int64, last + after + 1 >= first - 1
  PROVE  LET from == last + after + 1
         IN  GenerateStreamIDs(first, last, after, count) =
               IF count > 0 THEN [i \in 1 .. Smaller(count, last - from + 1) |-> from + i - 1]
               ELSE [i \in 1 .. Smaller(-count, from - first + 1) |-> from - i + 1]
<1> DEFINE from == last + after + 1
           up   == Smaller(count, last - from + 1)
           down == Smaller(-count, from - first + 1)
           size == CASE count > 0 -> Smaller(count, ToInt(Minus(last, from)) + 1)
                     [] count < 0 /\ after >= 0 -> Larger(count, ToInt(Minus(first, from)))
                     [] count < 0 /\ after < 0  -> Larger(count, ToInt(Minus(first, from)) - 1)
                     [] count = 0 -> 0
<1>0. last \in Nat /\ first \in Nat /\ after \in Int /\ count \in Int /\ from \in first - 1 .. last
  BY HalfIs DEF Int64
<1>1. ToUint(ToInt(last) + after + 1) = from
  BY <1>0, HalfIs DEF ToInt, ToUint
<1>2. PagerBox(first, last, after, count) =
        IF size = 0 \/ (from < first /\ size < 0) \/ (from > last /\ size > 0)
        THEN [start |-> 0, size |-> 0] ELSE [start |-> from, size |-> size]
  BY <1>1 DEF PagerBox
<1>3. CASE count > 0
  <2>1. ToInt(Minus(last, from)) = last - from
    BY <1>0, HalfIs DEF ToInt, Minus
  <2>2. up \in 1 .. last - from + 1 /\ size = up
    BY <1>0, <1>3, <2>1 DEF Smaller
  <2> HIDE DEF up, size, from
  <2>3. PagerBox(first, last, after, count) = [start |-> from, size |-> up]
    BY <1>0, <1>2, <2>2
  <2>4. GenerateStreamIDs(first, last, after, count) = [i \in 1 .. up |-> from + i - 1]
    BY <1>0, <2>2, <2>3, LoopUp
  <2> QED BY <1>3, <2>4 DEF up, from
<1>4. CASE count < 0 /\ from >= first
  <2>1. ToInt(Minus(first, from)) = first - from
    BY <1>0, <1>4, HalfIs DEF ToInt, Minus
  <2>2. down \in 1 .. from - first + 1 /\ size = -down
    BY <1>0, <1>4, <2>1 DEF Smaller, Larger
  <2>3. ~(count > 0)
    BY <1>0, <1>4
  <2> HIDE DEF down, size, from
  <2>4. PagerBox(first, last, after, count) = [start |-> from, size |-> size]
    BY <1>0, <1>2, <2>2
  <2>5. size \in Int /\ size < 0 /\ from + size + 1 >= first /\ down = -size
    BY <1>0, <2>2
  <2>6. GenerateStreamIDs(first, last, after, count) = [i \in 1 .. -size |-> from - i + 1]
    BY <1>0, <2>4, <2>5, LoopDown
  <2>7. GenerateStreamIDs(first, last, after, count) = [i \in 1 .. down |-> from - i + 1]
    BY <2>5, <2>6
  <2> QED BY <2>3, <2>7 DEF down, from
<1>5. CASE count = 0
  <2>1. size = 0 /\ ~(count > 0)
    BY <1>5
  <2>2. down = 0
    <3>1. count <= 0 /\ count >= 0
      BY <1>5
    <3>2. -count = 0
      BY <1>0, <3>1
    <3>3. from - first + 1 >= 0
      BY <1>0
    <3> QED BY <1>0, <3>2, <3>3 DEF Smaller
  <2> HIDE DEF down, size, from
  <2>3. PagerBox(first, last, after, count).size = 0
    BY <1>2, <2>1
  <2>4. GenerateStreamIDs(first, last, after, count) = <<>>
    BY <2>3 DEF GenerateStreamIDs
  <2>5. [i \in 1 .. down |-> from - i + 1] = <<>>
    BY <2>2
  <2>6. GenerateStreamIDs(first, last, after, count) = [i \in 1 .. down |-> from - i + 1]
    BY <2>4, <2>5
  <2> QED BY <2>1, <2>6 DEF down, from
<1>6. CASE count < 0 /\ from = first - 1
  <2>1. ToInt(Minus(first, from)) = 1
    BY <1>0, <1>6, HalfIs DEF ToInt, Minus
  <2>2. size = 0 /\ ~(count > 0)
    BY <1>0, <1>6, <2>1 DEF Larger
  <2>3. down = 0
    BY <1>0, <1>6 DEF Smaller
  <2> HIDE DEF down, size, from
  <2>4. PagerBox(first, last, after, count).size = 0
    BY <1>2, <2>2
  <2>5. GenerateStreamIDs(first, last, after, count) = <<>>
    BY <2>4 DEF GenerateStreamIDs
  <2>6. [i \in 1 .. down |-> from - i + 1] = <<>>
    BY <2>3
  <2> QED BY <2>2, <2>5, <2>6 DEF down, from
<1>7. (count > 0 \/ count < 0 \/ count = 0) /\ (from >= first \/ from = first - 1)
  BY <1>0
<1> QED BY <1>3, <1>4, <1>5, <1>6, <1>7

(* ... for every way to count from the end: further out of the window the  *)
(* page is one position the stream does not have, or empty                 *)
(* (driver.GenerateStreamIDs).                                             *)
THEOREM PageFromEnd ==
  ASSUME NEW last \in 1 .. AllEvents, NEW first \in 1 .. last,
         NEW after \in Int64, after < 0, NEW count \in Int64
  PROVE  LET from == last + after + 1
             up   == [i \in 1 .. Smaller(count, last - from + 1) |-> from + i - 1]
             down == [i \in 1 .. Smaller(-count, from - first + 1) |-> from - i + 1]
         IN  GenerateStreamIDs(first, last, after, count) =
               IF count = 0 \/ from < 0 THEN <<>>
               ELSE IF from < first - 1 THEN <<from>>
               ELSE IF count > 0 THEN up ELSE down
<1> DEFINE from  == last + after + 1
           page  == GenerateStreamIDs(first, last, after, count)
           box   == PagerBox(first, last, after, count)
           start == ToUint(from)
           size  == CASE count > 0 -> Smaller(count, ToInt(Minus(last, start)) + 1)
                      [] count < 0 /\ after >= 0 -> Larger(count, ToInt(Minus(first, start)))
                      [] count < 0 /\ after < 0  -> Larger(count, ToInt(Minus(first, start)) - 1)
                      [] count = 0 -> 0
<1>0. last \in Nat /\ first \in Nat /\ after \in Int /\ count \in Int /\ from \in Int
      /\ from <= last /\ from >= last + 1 - Half
  BY HalfIs DEF Int64
<1>1. box = IF size = 0 \/ (start < first /\ size < 0) \/ (start > last /\ size > 0)
            THEN [start |-> 0, size |-> 0] ELSE [start |-> start, size |-> size]
  <2>1. ToInt(last) = last
    BY HalfIs DEF ToInt
  <2> QED BY <2>1 DEF PagerBox
<1>2. box.size = 0 => page = <<>>
  BY DEF GenerateStreamIDs
<1>3. CASE count = 0
  <2>1. size = 0
    BY <1>3
  <2> HIDE DEF size, from
  <2>2. box.size = 0
    BY <1>1, <2>1
  <2> QED BY <1>2, <1>3, <2>2 DEF from
<1>4. CASE count # 0 /\ from < 0
  <2>1. start = from + Word /\ start > last /\ start >= first
    BY <1>0, <1>4, HalfIs DEF ToUint
  <2>2. count > 0 => size > 0 /\ size \in Int
    <3>1. ToInt(Minus(last, start)) = last - from
      BY <1>0, <1>4, <2>1, HalfIs DEF Minus, ToInt
    <3> QED BY <1>0, <1>4, <3>1 DEF Smaller
  <2>3. count < 0 => size > 0 /\ size \in Int
    <3>1. ToInt(Minus(first, start)) = first - from
      BY <1>0, <1>4, <2>1, HalfIs DEF Minus, ToInt
    <3> QED BY <1>0, <1>4, <3>1 DEF Larger
  <2>4. size > 0 /\ size \in Int /\ start \in Int
    BY <1>0, <1>4, <2>1, <2>2, <2>3, HalfIs
  <2> HIDE DEF size, start
  <2>5. box = [start |-> 0, size |-> 0]
    BY <1>1, <2>1, <2>4
  <2>6. page = <<>>
    BY <1>2, <2>5
  <2>7. count = 0 \/ from < 0
    BY <1>4
  <2> HIDE DEF page, from, box
  <2> QED BY <2>6, <2>7 DEF page, from
<1>5. CASE count # 0 /\ from >= 0 /\ from < first - 1
  <2>1. start = from /\ start \in Uint64
    BY <1>0, <1>5, HalfIs DEF ToUint, Uint64
  <2>2. size > 0 /\ size \in Int
    <3>1. CASE count > 0
      <4>1. ToInt(Minus(last, start)) = last - from
        BY <1>0, <1>5, <2>1, HalfIs DEF Minus, ToInt
      <4> QED BY <1>0, <3>1, <4>1 DEF Smaller
    <3>2. CASE count < 0
      <4>1. ToInt(Minus(first, start)) = first - from
        BY <1>0, <1>5, <2>1, HalfIs DEF Minus, ToInt
      <4> QED BY <1>0, <1>5, <3>2, <4>1 DEF Larger
    <3> QED BY <1>0, <1>5, <3>1, <3>2
  <2>3. Plus(start, 1) < first
    BY <1>0, <1>5, <2>1, HalfIs DEF Plus
  <2>4. start <= last
    BY <1>0, <2>1
  <2> HIDE DEF size, start, from
  <2>5. box = [start |-> start, size |-> size]
    BY <1>0, <1>1, <2>1, <2>2, <2>4
  <2>6. page = <<start>>
    BY <2>1, <2>2, <2>3, <2>5, LoopOnce
  <2>7. ~(count = 0 \/ from < 0) /\ from < first - 1
    BY <1>0, <1>5
  <2> HIDE DEF page
  <2> QED BY <2>1, <2>6, <2>7 DEF page, from
<1>6. CASE count # 0 /\ from >= first - 1
  <2>1. page = IF count > 0 THEN [i \in 1 .. Smaller(count, last - from + 1) |-> from + i - 1]
               ELSE [i \in 1 .. Smaller(-count, from - first + 1) |-> from - i + 1]
    BY <1>6, PageBackward
  <2>2. ~(count = 0 \/ from < 0) /\ ~(from < first - 1)
    BY <1>0, <1>6
  <2>3. count > 0 \/ (count < 0 /\ ~(count > 0))
    BY <1>0, <1>6
  <2> HIDE DEF page, from, box
  <2>4. CASE count > 0
    BY <1>6, <2>1, <2>2, <2>4 DEF page, from
  <2>5. CASE count < 0 /\ ~(count > 0)
    BY <1>6, <2>1, <2>2, <2>5 DEF page, from
  <2> QED BY <2>3, <2>4, <2>5
<1>7. count = 0 \/ from < 0 \/ (from >= 0 /\ from < first - 1) \/ from >= first - 1
  BY <1>0
<1> QED BY <1>3, <1>4, <1>5, <1>6, <1>7

(* A page read backwards from a cursor begins at the position behind it    *)
(* and goes down (driver.GenerateStreamIDs).                               *)
THEOREM PageDown ==
  ASSUME NEW last \in 1 .. AllEvents, NEW first \in 1 .. last,
         NEW after \in 0 .. last, NEW count \in Int64, count < 0
  PROVE  GenerateStreamIDs(first, last, after, count) =
           [i \in 1 .. Smaller(-count, Larger(after + 1 - first, 0)) |-> after + 2 - i]
<1> DEFINE box   == PagerBox(first, last, after, count)
           start == IF after < first THEN first ELSE Plus(after, 1)
           size  == Larger(count, ToInt(Minus(first, start)))
           down  == Smaller(-count, Larger(after + 1 - first, 0))
<1>0. last \in Nat /\ first \in Nat /\ after \in Int /\ count \in Int /\ after \in Int64
  BY HalfIs DEF Int64
<1>1. box = IF size = 0 \/ (start < first /\ size < 0) \/ (start > last /\ size > 0)
            THEN [start |-> 0, size |-> 0] ELSE [start |-> start, size |-> size]
  <2>1. ToInt(first) = first
    BY HalfIs DEF ToInt
  <2> QED BY <1>0, <2>1 DEF PagerBox
<1>2. CASE after < first
  <2>1. size = 0
    BY <1>0, <1>2, HalfIs DEF Minus, ToInt, Larger
  <2>2. down = 0
    BY <1>0, <1>2 DEF Smaller, Larger
  <2> HIDE DEF size, start, down
  <2>3. GenerateStreamIDs(first, last, after, count) = <<>>
    BY <1>1, <2>1 DEF GenerateStreamIDs
  <2>4. [i \in 1 .. down |-> after + 2 - i] = <<>>
    BY <2>2
  <2> QED BY <2>3, <2>4 DEF down
<1>3. CASE after >= first
  <2>1. start = after + 1
    BY <1>0, <1>3, HalfIs DEF Plus
  <2>2. ToInt(Minus(first, start)) = first - after - 1
    BY <1>0, <1>3, <2>1, HalfIs DEF Minus, ToInt
  <2>3. size = -down /\ down \in 1 .. after + 1 - first
    BY <1>0, <1>3, <2>2 DEF Larger, Smaller
  <2> HIDE DEF size, start, down
  <2>4. box = [start |-> after + 1, size |-> size] /\ size \in Int /\ size < 0
    BY <1>0, <1>1, <1>3, <2>1, <2>3
  <2>5. after + 1 \in first .. last + 1 /\ after + 1 + size + 1 >= first
    BY <1>0, <1>3, <2>3
  <2>6. GenerateStreamIDs(first, last, after, count) = [i \in 1 .. -size |-> after + 1 - i + 1]
    BY <1>0, <2>4, <2>5, LoopDown
  <2>7. -size = down /\ \A i \in 1 .. down : after + 1 - i + 1 = after + 2 - i
    BY <1>0, <2>3
  <2>8. GenerateStreamIDs(first, last, after, count) = [i \in 1 .. down |-> after + 2 - i]
    BY <2>6, <2>7
  <2> QED BY <2>8 DEF down
<1> QED BY <1>0, <1>2, <1>3

(* A page from a cursor behind the stream is the position behind the       *)
(* cursor, whichever way it is read (driver.GenerateStreamIDs).            *)
THEOREM PageBehind ==
  ASSUME NEW last \in 1 .. AllEvents, NEW first \in 1 .. last,
         NEW after \in last + 1 .. AllEvents, NEW count \in Int64, count # 0
  PROVE  GenerateStreamIDs(first, last, after, count) = <<after + 1>>
<1> DEFINE box   == PagerBox(first, last, after, count)
           start == after + 1
           size  == IF count > 0 THEN Smaller(count, ToInt(Minus(last, start)) + 1)
                    ELSE Larger(count, ToInt(Minus(first, start)))
<1>0. last \in Nat /\ first \in Nat /\ after \in Nat /\ count \in Int /\ after \in Int64
      /\ start \in Uint64 /\ start \in Nat /\ start > last + 1
  BY HalfIs DEF Int64, Uint64
<1>1. box = IF size = 0 \/ (start < first /\ size < 0) \/ (start > last /\ size > 0)
            THEN [start |-> 0, size |-> 0] ELSE [start |-> start, size |-> size]
  <2>1. ToInt(first) = first /\ Plus(after, 1) = start /\ ~(after < first) /\ after >= 0 /\ ~(after < 0)
    BY <1>0, HalfIs DEF ToInt, Plus
  <2>2. CASE count > 0 /\ ~(count < 0) /\ count # 0
    BY <2>1, <2>2 DEF PagerBox
  <2>3. CASE count < 0 /\ ~(count > 0) /\ count # 0
    BY <2>1, <2>3 DEF PagerBox
  <2> QED BY <1>0, <2>2, <2>3
<1>2. ToInt(Minus(last, start)) = last - start /\ ToInt(Minus(first, start)) = first - start
  BY <1>0, HalfIs DEF Minus, ToInt
<1>3. size < 0 /\ size \in Int
  BY <1>0, <1>2 DEF Smaller, Larger
<1>4. Minus(start, 1) > last
  BY <1>0 DEF Minus
<1> HIDE DEF size, start
<1>5. box = [start |-> start, size |-> size]
  BY <1>0, <1>1, <1>3
<1>6. size # 0 /\ ~(size > 0)
  BY <1>3
<1>7. GenerateStreamIDs(first, last, after, count) = <<start>>
  BY <1>0, <1>3, <1>4, <1>5, <1>6, LoopOnce
<1> QED BY <1>7 DEF start

(* A page that has only positions of the stream, in whatever order, is not *)
(* longer than the stream.                                                 *)
LEMMA PageInStream ==
  ASSUME NEW last \in 0 .. AllEvents, NEW first \in 0 .. last,
         NEW after \in Int64, NEW count \in Int64,
         \A i \in 1 .. Len(GenerateStreamIDs(first, last, after, count)) :
            GenerateStreamIDs(first, last, after, count)[i] \in 1 .. last
  PROVE  /\ GenerateStreamIDs(first, last, after, count) \in Seq(1 .. last)
         /\ Len(GenerateStreamIDs(first, last, after, count)) \in 0 .. AllEvents
<1> DEFINE page  == GenerateStreamIDs(first, last, after, count)
           box   == PagerBox(first, last, after, count)
           at(i) == IF box.size > 0 THEN Plus(box.start, i - 1) ELSE Minus(box.start, i - 1)
           stops == {i \in 1 .. Abs(box.size) : i = Abs(box.size) \/ at(i + 1) < first \/ at(i + 1) > last}
           n     == Least(stops)
<1>1. page = IF first = 0 \/ last = 0 \/ box.size = 0 THEN <<>> ELSE [i \in 1 .. n |-> at(i)]
  BY DEF GenerateStreamIDs
<1>2. CASE first = 0 \/ last = 0 \/ box.size = 0
  <2>1. page = <<>>
    BY <1>1, <1>2
  <2> HIDE DEF page
  <2>2. page \in Seq(1 .. last) /\ Len(page) = 0
    BY <2>1
  <2> QED BY <2>2, HalfIs DEF page
<1>3. CASE ~(first = 0 \/ last = 0 \/ box.size = 0)
  <2>1. box.start \in Nat /\ box.size \in Int /\ box.size <= AllEvents
    <3> DEFINE start == IF after < 0 THEN ToUint(ToInt(last) + after + 1)
                        ELSE IF after < ToInt(first) THEN first
                        ELSE Plus(after, 1)
               size  == CASE count > 0 -> Smaller(count, ToInt(Minus(last, start)) + 1)
                          [] count < 0 /\ after >= 0 -> Larger(count, ToInt(Minus(first, start)))
                          [] count < 0 /\ after < 0  -> Larger(count, ToInt(Minus(first, start)) - 1)
                          [] count = 0 -> 0
    <3>1. box = IF size = 0 \/ (start < first /\ size < 0) \/ (start > last /\ size > 0)
                THEN [start |-> 0, size |-> 0] ELSE [start |-> start, size |-> size]
      BY DEF PagerBox
    <3>2. start \in Uint64
      BY HalfIs DEF ToInt, ToUint, Plus, Int64, Uint64
    <3> HIDE DEF start
    <3>3. /\ ToInt(Minus(last, start)) \in Int /\ ToInt(Minus(first, start)) \in Int
          /\ ToInt(Minus(first, start)) <= AllEvents
      BY <3>2, HalfIs DEF ToInt, Minus, Uint64
    <3>4. count \in Int /\ count <= AllEvents /\ after \in Int
      BY HalfIs DEF Int64
    <3>5. size \in Int /\ size <= AllEvents
      BY <3>3, <3>4, HalfIs DEF Smaller, Larger
    <3> HIDE DEF size
    <3>6. start \in Nat
      BY <3>2, HalfIs DEF Uint64
    <3> QED BY <3>1, <3>5, <3>6, HalfIs
  <2> HIDE DEF box
  <2>2. Abs(box.size) \in Nat /\ Abs(box.size) >= 1
    BY <1>3, <2>1 DEF Abs
  <2>3. stops \in SUBSET Nat /\ Abs(box.size) \in stops
    BY <2>2
  <2>4. n \in stops
    <3> HIDE DEF stops
    <3> QED BY <2>3, LeastIs
  <2>5. n \in 1 .. Abs(box.size)
    BY <2>4
  <2> HIDE DEF n, stops
  <2>6. page = [i \in 1 .. n |-> at(i)]
    BY <1>1, <1>3
  <2> HIDE DEF page
  <2>7. Len(page) = n /\ \A i \in 1 .. n : page[i] = at(i) /\ at(i) \in 1 .. last
    <3>1. n \in Nat
      BY <2>2, <2>5
    <3>2. DOMAIN page = 1 .. n
      BY <2>6
    <3>3. Len(page) = n
      BY <2>6, <3>1
    <3>4. \A i \in 1 .. n : page[i] = at(i)
      BY <2>6
    <3> QED BY <3>3, <3>4 DEF page
  <2>8. page \in Seq(1 .. last)
    BY <2>2, <2>5, <2>6, <2>7
  <2>9. n <= AllEvents
    <3>1. CASE box.size > 0
      BY <2>1, <2>5, <3>1, HalfIs DEF Abs
    <3>2. CASE box.size < 0
      <4>1. \A i \in 1 .. n : Minus(box.start, i - 1) \in 1 .. last
        BY <2>1, <2>7, <3>2
      <4>2. 1 \in 1 .. n
        BY <2>2, <2>5
      <4>3. box.start \in 1 .. last
        BY <2>1, <4>1, <4>2 DEF Minus
      <4>4. CASE n > box.start
        <5>1. box.start + 1 \in 1 .. n
          BY <2>1, <2>2, <2>5, <4>4
        <5>2. Minus(box.start, box.start + 1 - 1) = 0
          BY <2>1 DEF Minus
        <5> QED BY <2>1, <4>1, <5>1, <5>2
      <4>5. CASE n <= box.start
        BY <2>1, <2>2, <2>5, <4>3, <4>5, HalfIs
      <4> QED BY <2>1, <2>2, <2>5, <4>4, <4>5
    <3> QED BY <1>3, <2>1, <3>1, <3>2
  <2>10. n \in 0 .. AllEvents
    BY <2>2, <2>5, <2>9, HalfIs
  <2> QED BY <2>7, <2>8, <2>10 DEF page
<1> QED BY <1>2, <1>3
=============================================================================
