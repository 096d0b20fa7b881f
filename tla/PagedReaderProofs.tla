------------------------- MODULE PagedReaderProofs --------------------------
(***************************************************************************)
(* PagedReader's invariants, for words of every width and streams of every *)
(* length they can number.                                                 *)
(***************************************************************************)
EXTENDS PagedReader, PagingProofs

(* The window is a window, and what was read lies in it, up to the cursor. *)
Window ==
  /\ last \in 0 .. MaxLast
  /\ first \in 0 .. last
  /\ first = 0 => last = 0
  /\ after \in Int64 /\ count \in Int64

ReadRun ==
  /\ read \in Seq(1 .. last)
  /\ \A i \in 1 .. Len(read) : read[i] = read[1] + i - 1
  /\ read # <<>> => after = read[Len(read)] /\ after >= first /\ count > 0

IInv == Window /\ ReadRun

LEMMA Bounds ==
  /\ Half \in Nat /\ Half > 1 /\ AllEvents = Half - 1 /\ Word = 2 * Half
  /\ MaxLast \in 0 .. AllEvents
  BY HalfAssumption, MaxLastAssumption DEF AllEvents, Word

(* The page NextPage reads. *)
LEMMA NextPageIs ==
  ASSUME Window, after \in 0 .. last, count > 0, first > 0
  PROVE  /\ From(first, after) \in 0 .. last
         /\ Smaller(count, last - From(first, after)) \in 0 .. last - From(first, after)
         /\ Page = [i \in 1 .. Smaller(count, last - From(first, after)) |-> From(first, after) + i]
<1>1. last \in 1 .. AllEvents /\ first \in 1 .. last /\ count \in 1 .. AllEvents
  BY Bounds DEF Window, Int64
<1>2. PICK l \in 1 .. AllEvents, f \in 1 .. last, n \in 1 .. AllEvents : l = last /\ f = first /\ n = count
  BY <1>1
<1>3. Page = [i \in 1 .. Smaller(count, last - From(first, after)) |-> From(first, after) + i]
  BY <1>1, PageForward DEF Page
<1> QED BY <1>1, <1>3, Bounds DEF From, Larger, Smaller

LEMMA InitIInv == Init => IInv
  BY Bounds DEF Init, IInv, Window, ReadRun

LEMMA NextPageIInv == IInv /\ NextPage => IInv'
<1> SUFFICES ASSUME IInv, NextPage PROVE IInv'
  OBVIOUS
<1> DEFINE from == From(first, after)
           n    == Smaller(count, last - from)
<1>1. Window /\ after \in 0 .. last /\ count > 0 /\ last \in Nat /\ first \in Nat
  BY Bounds DEF IInv, NextPage, Window
<1>2. first > 0
  <2>1. CASE first = 0
    <3>1. Page = <<>>
      BY <2>1 DEF Page, GenerateStreamIDs
    <3> QED BY <3>1 DEF NextPage
  <2> QED BY <1>1, <2>1 DEF Window
<1>3. /\ from \in 0 .. last /\ n \in 0 .. last - from
      /\ Page = [i \in 1 .. n |-> from + i]
      /\ from \in Nat /\ n \in Nat
  BY <1>1, <1>2, NextPageIs
<1>4. n > 0
  BY <1>3 DEF NextPage
<1>5. Page \in Seq(1 .. last) /\ Len(Page) = n /\ \A i \in 1 .. n : Page[i] = from + i
  <2> HIDE DEF n, from
  <2> QED BY <1>1, <1>3 DEF Window
<1>6. after' = from + n /\ read' = read \o Page /\ UNCHANGED <<first, last, count>>
  BY <1>4, <1>5 DEF NextPage
<1>7. from >= first - 1 /\ (after >= first => from = after)
  BY <1>1, <1>2 DEF From, Larger, Window
<1> HIDE DEF n, from
<1>8. Window'
  BY <1>1, <1>3, <1>6, Bounds DEF Window, Int64
<1>9. ReadRun'
  <2>1. /\ read \in Seq(1 .. last) /\ read' \in Seq(1 .. last')
        /\ \A i \in 1 .. Len(read) : read[i] \in 1 .. last
    <3>1. read \in Seq(1 .. last) /\ read' \in Seq(1 .. last')
      BY <1>5, <1>6 DEF IInv, ReadRun
    <3> QED BY <3>1, AsFunction
  <2>2. /\ Len(read) \in Nat
        /\ Len(read') = Len(read) + n
        /\ \A i \in 1 .. Len(read') : read'[i] = IF i <= Len(read) THEN read[i] ELSE Page[i - Len(read)]
    <3>1. /\ Len(read \o Page) = Len(read) + Len(Page)
          /\ \A i \in 1 .. Len(read) + Len(Page) :
               (read \o Page)[i] = IF i <= Len(read) THEN read[i] ELSE Page[i - Len(read)]
      BY <1>5, <2>1, ConcatProperties
    <3>2. Len(read) \in Nat
      BY <2>1, AsFunction
    <3> QED BY <1>5, <1>6, <3>1, <3>2
  <2>3. \A i \in 1 .. Len(read) : read'[i] = read[i]
    BY <1>3, <2>2
  <2>4. \A i \in Len(read) + 1 .. Len(read) + n : read'[i] = from + i - Len(read)
    <3> TAKE i \in Len(read) + 1 .. Len(read) + n
    <3>1. i \in Int /\ i - Len(read) \in 1 .. n /\ i \in 1 .. Len(read') /\ ~(i <= Len(read))
      BY <1>3, <2>2
    <3>2. read'[i] = Page[i - Len(read)] /\ Page[i - Len(read)] = from + (i - Len(read))
      BY <1>5, <2>2, <3>1
    <3> QED BY <1>3, <2>2, <3>1, <3>2
  <2>5. CASE read = <<>>
    <3>1. Len(read) = 0 /\ Len(read') = n
      BY <1>3, <2>2, <2>5
    <3>2. \A i \in 1 .. n : read'[i] = from + i
      BY <1>3, <2>4, <3>1
    <3>3. \A i \in 1 .. n : read'[i] = read'[1] + i - 1
      BY <1>3, <1>4, <3>2
    <3>4. after' = read'[n] /\ after' >= first'
      BY <1>1, <1>2, <1>3, <1>4, <1>6, <1>7, <3>2
    <3> QED BY <1>1, <1>6, <2>1, <3>1, <3>3, <3>4 DEF ReadRun
  <2>6. CASE read # <<>>
    <3>1. Len(read) \in Nat \ {0} /\ from = read[Len(read)] /\ after >= first
      BY <1>7, <2>1, <2>6, AsFunction DEF IInv, ReadRun
    <3>2. from = read[1] + Len(read) - 1
      BY <3>1 DEF IInv, ReadRun
    <3>3. read[1] \in 1 .. last
      BY <2>1, <3>1
    <3>4. ASSUME NEW i \in 1 .. Len(read') PROVE read'[i] = read'[1] + i - 1
      <4>1. read'[1] = read[1] /\ 1 \in 1 .. Len(read)
        BY <2>3, <3>1
      <4>2. CASE i <= Len(read)
        BY <2>3, <3>1, <4>1, <4>2 DEF IInv, ReadRun
      <4>3. CASE i > Len(read)
        <5>1. i \in Len(read) + 1 .. Len(read) + n
          BY <2>2, <4>3
        <5>2. read'[i] = from + i - Len(read)
          BY <2>4, <5>1
        <5>3. read[1] \in Int /\ Len(read) \in Int /\ i \in Int
          BY <1>1, <1>3, <2>2, <3>1, <3>3, <5>1
        <5> QED BY <3>2, <4>1, <5>2, <5>3
      <4> QED BY <2>2, <4>2, <4>3
    <3>5. after' = read'[Len(read')] /\ after' >= first' /\ count' > 0
      <4>1. Len(read') = Len(read) + n /\ Len(read') \in Len(read) + 1 .. Len(read) + n
        BY <1>1, <1>3, <1>4, <2>2 DEF Window
      <4>2. read'[Len(read')] = from + n
        <5>1. read'[Len(read')] = from + Len(read') - Len(read)
          BY <2>4, <4>1
        <5> QED BY <1>3, <3>1, <4>1, <5>1
      <4> QED BY <1>1, <1>2, <1>3, <1>4, <1>6, <1>7, <4>2 DEF Window
    <3> QED BY <2>1, <3>4, <3>5 DEF ReadRun
  <2> QED BY <2>5, <2>6
<1> QED BY <1>8, <1>9 DEF IInv

LEMMA GrowIInv == IInv /\ Grow => IInv'
<1> SUFFICES ASSUME IInv, Grow PROVE IInv'
  OBVIOUS
<1>1. Window'
  BY Bounds DEF IInv, Window, Grow
<1>2. ReadRun'
  <2>1. read' \in Seq(1 .. last')
    BY DEF IInv, ReadRun, Window, Grow
  <2>2. read' # <<>> => after' >= first'
    BY DEF IInv, ReadRun, Window, Grow
  <2> QED BY <2>1, <2>2 DEF IInv, ReadRun, Grow
<1> QED BY <1>1, <1>2 DEF IInv

LEMMA SpecIInv == Spec => []IInv
<1>1. IInv /\ [Next]_vars => IInv'
  <2>1. IInv /\ UNCHANGED vars => IInv'
    BY DEF IInv, Window, ReadRun, vars
  <2> QED BY <2>1, NextPageIInv, GrowIInv DEF Next
<1> QED BY <1>1, InitIInv, PTL DEF Spec

-----------------------------------------------------------------------------
(* The page from a cursor behind the stream. *)
LEMMA BehindIs ==
  ASSUME IInv, first > 0, after >= 0, ~(after <= last), count # 0
  PROVE  Page = <<after + 1>>
<1>1. last \in 1 .. AllEvents /\ first \in 1 .. last /\ count \in Int64
  BY Bounds DEF IInv, Window
<1>2. after \in last + 1 .. AllEvents
  BY <1>1, Bounds DEF IInv, Window, Int64
<1> QED BY <1>1, <1>2, PageBehind DEF Page

(* A forward page is the run of positions behind the cursor, for every     *)
(* stream, cursor and page size; behind the stream it is the one position  *)
(* behind the cursor (driver.GenerateStreamIDs).                           *)
THEOREM ForwardPageCorrect == Spec => []ForwardPage
<1>1. IInv => ForwardPage
  <2> SUFFICES ASSUME IInv, first > 0, after >= 0, count > 0 PROVE ForwardPage
    BY DEF ForwardPage
  <2>1. CASE after <= last
    <3>1. after \in 0 .. last
      BY <2>1 DEF IInv, Window, Int64
    <3> QED BY <2>1, <3>1, NextPageIs DEF IInv, ForwardPage, From
  <2>2. CASE ~(after <= last)
    BY <2>2, BehindIs DEF ForwardPage
  <2> QED BY <2>1, <2>2
<1> QED BY <1>1, SpecIInv, PTL

(* A page read backwards begins behind the cursor and goes down to the     *)
(* first position, for every stream, cursor and page size                  *)
(* (driver.GenerateStreamIDs).                                             *)
THEOREM BackwardPageCorrect == Spec => []BackwardPage
<1>1. IInv => BackwardPage
  <2> SUFFICES ASSUME IInv, first > 0, after >= 0, count < 0 PROVE BackwardPage
    BY DEF BackwardPage
  <2>1. CASE after <= last
    <3>1. last \in 1 .. AllEvents /\ first \in 1 .. last /\ after \in 0 .. last /\ count \in Int64
      BY <2>1, Bounds DEF IInv, Window, Int64
    <3> QED BY <2>1, <3>1, PageDown DEF BackwardPage, Page
  <2>2. CASE ~(after <= last)
    BY <2>2, BehindIs DEF BackwardPage
  <2> QED BY <2>1, <2>2
<1> QED BY <1>1, SpecIInv, PTL

(* A reader that pages to the end misses nothing and repeats nothing, for  *)
(* every stream that grows meanwhile and every page size.                  *)
THEOREM PagesJoinUpCorrect == Spec => []PagesJoinUp
<1>1. IInv => PagesJoinUp
  <2> SUFFICES ASSUME IInv, read # <<>>, Page = <<>> PROVE after = last
    BY DEF IInv, ReadRun, PagesJoinUp
  <2>1. Len(read) \in Nat \ {0} /\ after \in 1 .. last /\ after >= first /\ count > 0
    <3>1. /\ Len(read) \in Nat /\ Len(read) > 0
          /\ \A i \in 1 .. Len(read) : read[i] \in 1 .. last
      BY AsFunction DEF IInv, ReadRun
    <3> QED BY <3>1 DEF IInv, ReadRun
  <2>2. first > 0
    BY <2>1 DEF IInv, Window
  <2>3. Smaller(count, last - From(first, after)) = 0
    BY <2>1, <2>2, NextPageIs DEF IInv
  <2> QED BY <2>1, <2>2, <2>3 DEF Smaller, From, Larger, IInv, Window, Int64
<1> QED BY <1>1, SpecIInv, PTL

(* A page counted from the end is the run its arguments describe, inside   *)
(* the window, one step before it, and further out, where it is one        *)
(* position the stream does not have or empty: for every stream, cursor    *)
(* and page size (driver.GenerateStreamIDs).                               *)
THEOREM PageFromTheEndCorrect == Spec => []PageFromTheEnd
<1>1. IInv => PageFromTheEnd
  <2> SUFFICES ASSUME IInv, first > 0, after < 0 PROVE PageFromTheEnd
    BY DEF PageFromTheEnd
  <2>1. last \in 1 .. AllEvents /\ first \in 1 .. last /\ after \in Int64 /\ count \in Int64
    BY Bounds DEF IInv, Window
  <2> QED BY <2>1, PageFromEnd DEF PageFromTheEnd, Page
<1> QED BY <1>1, SpecIInv, PTL

(* The window and what was read stay words (GenerateStreamIDs).            *)
THEOREM TypeCorrect == Spec => []TypeOK
<1>1. IInv => TypeOK
  <2> SUFFICES ASSUME IInv PROVE TypeOK
    OBVIOUS
  <2>1. first \in Uint64 /\ last \in Uint64 /\ 1 .. last \subseteq Uint64
    BY Bounds DEF IInv, Window, Uint64
  <2>2. read \in Seq(Uint64)
    BY <2>1, SeqMonotonic DEF IInv, ReadRun
  <2> QED BY <2>1, <2>2 DEF IInv, Window, TypeOK
<1> QED BY <1>1, SpecIInv, PTL
=============================================================================
