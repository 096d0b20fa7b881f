-------------------------- MODULE EventStoreProofs --------------------------
(***************************************************************************)
(* EventStore's types and its main guarantees, for every set of clients,   *)
(* every width of the words and every bound.                               *)
(***************************************************************************)
EXTENDS EventStore, PagingProofs

LEMMA Numbers ==
  /\ Half \in Nat /\ Half > 1 /\ Word = 2 * Half
  /\ AllEvents = Half - 1 /\ AppendOnly = Word - 1
  /\ MaxEvents \in Nat /\ MaxEvents <= AllEvents /\ MaxRaise \in Nat
  BY HalfAssumption, BoundsAssumption DEF Word, AllEvents, AppendOnly

-----------------------------------------------------------------------------
(* Facts about logs. *)

LEMMA LogFacts ==
  ASSUME NEW l \in Logs
  PROVE  /\ l.events \in Seq(1 .. MaxEvents)
         /\ Len(l.events) \in Nat
         /\ l.events # <<>> <=> Len(l.events) > 0
         /\ \A i \in 1 .. Len(l.events) : l.events[i] \in 1 .. MaxEvents
         /\ l.first \in Nat /\ l.first > 0 /\ l.first < Word
         /\ LastIndex(l) \in Nat /\ LastIndex(l) = l.first + Len(l.events) - 1
         /\ l = [first |-> l.first, events |-> l.events]
<1>1. l.events \in Seq(1 .. MaxEvents) /\ l.first \in Uint64 \ {0}
  BY DEF Logs
<1>2. /\ Len(l.events) \in Nat
      /\ l.events # <<>> => Len(l.events) > 0
      /\ \A i \in 1 .. Len(l.events) : l.events[i] \in 1 .. MaxEvents
  BY <1>1, AsFunction
<1>3. l.first \in Nat /\ l.first > 0 /\ l.first < Word
  BY <1>1, Numbers DEF Uint64
<1>4. l.events = <<>> => Len(l.events) = 0
  OBVIOUS
<1> QED BY <1>1, <1>2, <1>3, <1>4 DEF LastIndex, Logs

(* A page of the whole stream is all its positions. *)
LEMMA AllPositions ==
  ASSUME NEW l \in Logs, LastIndex(l) <= AllEvents
  PROVE  IF l.events = <<>>
         THEN Positions(l, 0, AllEvents) = <<>>
         ELSE Positions(l, 0, AllEvents) = [i \in 1 .. Len(l.events) |-> l.first - 1 + i]
<1>1. CASE l.events = <<>>
  BY <1>1 DEF Positions, FirstIndex, GenerateStreamIDs
<1>2. CASE l.events # <<>>
  <2> DEFINE n == Len(l.events)
  <2>1. /\ n \in Nat /\ n > 0 /\ l.first \in Nat /\ l.first > 0
        /\ LastIndex(l) = l.first + n - 1
    BY <1>2, LogFacts
  <2>2. /\ LastIndex(l) \in 1 .. AllEvents /\ l.first \in 1 .. LastIndex(l)
        /\ 0 \in 0 .. LastIndex(l) /\ AllEvents \in 1 .. AllEvents
    BY <2>1, Numbers
  <2>3. Positions(l, 0, AllEvents) =
          [i \in 1 .. Smaller(AllEvents, LastIndex(l) - From(l.first, 0)) |-> From(l.first, 0) + i]
    <3>1. FirstIndex(l) = l.first
      BY <1>2 DEF FirstIndex
    <3>2. GenerateStreamIDs(l.first, LastIndex(l), 0, AllEvents) =
            [i \in 1 .. Smaller(AllEvents, LastIndex(l) - From(l.first, 0)) |-> From(l.first, 0) + i]
      <4>1. \A last \in 1 .. AllEvents : \A first \in 1 .. last :
              GenerateStreamIDs(first, last, 0, AllEvents) =
                [i \in 1 .. Smaller(AllEvents, last - From(first, 0)) |-> From(first, 0) + i]
        <5> TAKE last \in 1 .. AllEvents
        <5> TAKE first \in 1 .. last
        <5>1. 0 \in 0 .. last /\ AllEvents \in 1 .. AllEvents
          BY <2>2
        <5> QED BY <5>1, PageForward
      <4> QED BY <2>2, <4>1
    <3> QED BY <3>1, <3>2 DEF Positions
  <2>4. From(l.first, 0) = l.first - 1 /\ Smaller(AllEvents, LastIndex(l) - (l.first - 1)) = n
    BY <2>1, <2>2, Numbers DEF From, Larger, Smaller
  <2> QED BY <1>2, <2>3, <2>4
<1> QED BY <1>1, <1>2

(* A read of the whole stream returns all of it (eventLog.Read in Load). *)
LEMMA ReadAll ==
  ASSUME NEW l \in Logs, LastIndex(l) <= AllEvents
  PROVE  Read(l, 0, AllEvents) = l.events
<1>1. CASE l.events = <<>>
  BY <1>1, AllPositions DEF Read, ReadStreamN
<1>2. CASE l.events # <<>>
  <2> DEFINE n == Len(l.events)
             index == [i \in 1 .. n |-> l.first - 1 + i]
  <2>1. n \in Nat /\ l.first \in Nat
    BY LogFacts
  <2>2. Positions(l, 0, AllEvents) = index
    BY <1>2, AllPositions
  <2>3. Len(index) = n /\ \A i \in 1 .. n : index[i] = l.first - 1 + i
    BY <2>1
  <2>4. Read(l, 0, AllEvents) = [i \in 1 .. n |-> l.events[index[i] - l.first + 1]]
    BY <2>2, <2>3 DEF Read, ReadStreamN, EventAt
  <2>5. \A i \in 1 .. n : index[i] - l.first + 1 = i
    BY <2>1, <2>3
  <2> HIDE DEF index
  <2>6. Read(l, 0, AllEvents) = [i \in 1 .. n |-> l.events[i]]
    BY <2>4, <2>5
  <2>7. l.events \in [1 .. n -> 1 .. MaxEvents]
    BY LogFacts, LenProperties
  <2> QED BY <2>6, <2>7
<1> QED BY <1>1, <1>2

(* An append moves nothing that is there (eventLog.Append). *)
LEMMA AppendFacts ==
  ASSUME NEW l \in Logs, NEW ids \in Seq(1 .. MaxEvents)
  PROVE  LET m == AppendTo(l, ids)
         IN  /\ m \in Logs
             /\ m.first = l.first
             /\ LastIndex(m) = LastIndex(l) + Len(ids)
             /\ m.events = <<>> => l.events = <<>>
             /\ \A p \in l.first .. LastIndex(l) : EventAt(m, p) = EventAt(l, p)
             /\ \A i \in 1 .. Len(ids) : EventAt(m, LastIndex(l) + i) = ids[i]
<1> DEFINE m == AppendTo(l, ids)
<1>1. Len(ids) \in Nat
  BY AsFunction
<1>2. /\ l.events \in Seq(1 .. MaxEvents) /\ Len(l.events) \in Nat /\ l.first \in Nat
      /\ l.first > 0 /\ LastIndex(l) = l.first + Len(l.events) - 1
  BY LogFacts
<1>3. m \in Logs /\ m.first = l.first /\ m.events = l.events \o ids
  <2>1. l.events \o ids \in Seq(1 .. MaxEvents)
    BY <1>2, ConcatProperties
  <2>2. m.first = l.first /\ m.events = l.events \o ids
    BY DEF AppendTo, Logs
  <2> QED BY <2>1, <2>2 DEF AppendTo, Logs
<1>4. /\ Len(m.events) = Len(l.events) + Len(ids)
      /\ \A i \in 1 .. Len(l.events) + Len(ids) :
           m.events[i] = IF i <= Len(l.events) THEN l.events[i] ELSE ids[i - Len(l.events)]
  BY <1>2, <1>3, ConcatProperties
<1> HIDE DEF m
<1>5. LastIndex(m) = LastIndex(l) + Len(ids)
  BY <1>1, <1>2, <1>3, <1>4 DEF LastIndex
<1>6. m.events = <<>> => l.events = <<>>
  BY <1>1, <1>2, <1>3, <1>4, LogFacts
<1>7. \A p \in l.first .. LastIndex(l) : EventAt(m, p) = EventAt(l, p)
  <2> TAKE p \in l.first .. LastIndex(l)
  <2>1. p - l.first + 1 \in 1 .. Len(l.events)
    BY <1>2
  <2> QED BY <1>1, <1>2, <1>3, <1>4, <2>1 DEF EventAt
<1>8. \A i \in 1 .. Len(ids) : EventAt(m, LastIndex(l) + i) = ids[i]
  <2> TAKE i \in 1 .. Len(ids)
  <2> DEFINE j == Len(l.events) + i
  <2>1. /\ LastIndex(l) + i - l.first + 1 = j
        /\ j \in 1 .. Len(l.events) + Len(ids) /\ ~(j <= Len(l.events)) /\ j - Len(l.events) = i
    BY <1>1, <1>2
  <2> HIDE DEF j
  <2>2. m.events[j] = ids[i]
    BY <1>4, <2>1
  <2> DEFINE q == LastIndex(l) + i
  <2>3. q - m.first + 1 = j
    BY <1>1, <1>2, <1>3, <2>1
  <2> HIDE DEF q
  <2>4. EventAt(m, q) = ids[i]
    BY <2>2, <2>3 DEF EventAt
  <2> QED BY <2>4 DEF q
<1> QED BY <1>3, <1>5, <1>6, <1>7, <1>8 DEF m

(* A truncation moves nothing it leaves (eventLog.Truncate). *)
LEMMA TruncateFacts ==
  ASSUME NEW l \in Logs, LastIndex(l) <= AllEvents, NEW index \in Int, CanTruncate(l, index)
  PROVE  LET m == Truncate(l, index)
         IN  /\ m \in Logs
             /\ m.events # <<>>
             /\ m.first >= l.first
             /\ LastIndex(m) <= LastIndex(l)
             /\ \A p \in m.first .. LastIndex(m) : EventAt(m, p) = EventAt(l, p)
<1> DEFINE m == Truncate(l, index)
           n == Len(l.events)
           p == IF index < 0 THEN -index ELSE index
<1>1. /\ l.events \in Seq(1 .. MaxEvents) /\ n \in Nat /\ l.first \in Nat
      /\ l.first > 0 /\ l.first < Word /\ LastIndex(l) = l.first + n - 1
      /\ \A i \in 1 .. n : l.events[i] \in 1 .. MaxEvents
  BY LogFacts
<1>2. p \in l.first .. LastIndex(l) /\ p \in Int
  BY DEF CanTruncate
<1> DEFINE k == p - l.first + 1
<1>3. k \in 1 .. n /\ k \in Int
  BY <1>1, <1>2
<1> HIDE DEF n, p, k
<1>4. CASE index < 0
  <2>1. m.first = l.first /\ m.events = SubSeq(l.events, 1, k) /\ m = [first |-> m.first, events |-> m.events]
    <3>1. m = [l EXCEPT !.events = SubSeq(l.events, 1, k)]
      BY <1>4 DEF Truncate, TruncateBack, p, k
    <3> QED BY <3>1 DEF Logs
  <2>2. /\ m.events \in Seq(1 .. MaxEvents) /\ Len(m.events) = k
        /\ \A i \in 1 .. k : m.events[i] = l.events[i]
    <3>1. \A i \in 1 .. k : l.events[i] \in 1 .. MaxEvents
      BY <1>1, <1>3
    <3>2. /\ SubSeq(l.events, 1, k) \in Seq(1 .. MaxEvents)
          /\ Len(SubSeq(l.events, 1, k)) = IF 1 <= k THEN k - 1 + 1 ELSE 0
          /\ \A i \in 1 .. k - 1 + 1 : SubSeq(l.events, 1, k)[i] = l.events[1 + i - 1]
      BY <1>3, <3>1, SubSeqProperties
    <3> QED BY <1>3, <2>1, <3>2
  <2> HIDE DEF m
  <2>3. m \in Logs
    BY <2>1, <2>2 DEF Logs
  <2>4. LastIndex(m) = l.first + k - 1
    BY <2>1, <2>2 DEF LastIndex
  <2>5. \A q \in m.first .. LastIndex(m) : EventAt(m, q) = EventAt(l, q)
    <3> TAKE q \in m.first .. LastIndex(m)
    <3>1. q - l.first + 1 \in 1 .. k
      BY <1>1, <1>3, <2>1, <2>4
    <3> QED BY <2>1, <2>2, <3>1 DEF EventAt
  <2>6. m.events # <<>>
    BY <1>3, <2>2
  <2> QED BY <1>1, <1>3, <2>1, <2>3, <2>4, <2>5, <2>6 DEF m
<1>5. CASE ~(index < 0)
  <2>1. m.first = p /\ m.events = SubSeq(l.events, k, n) /\ m = [first |-> m.first, events |-> m.events]
    BY <1>5 DEF Truncate, TruncateFront, n, p, k
  <2>2. /\ m.events \in Seq(1 .. MaxEvents) /\ Len(m.events) = n - k + 1
        /\ \A i \in 1 .. n - k + 1 : m.events[i] = l.events[k + i - 1]
    <3>1. \A i \in k .. n : l.events[i] \in 1 .. MaxEvents
      BY <1>1, <1>3
    <3>2. /\ SubSeq(l.events, k, n) \in Seq(1 .. MaxEvents)
          /\ Len(SubSeq(l.events, k, n)) = IF k <= n THEN n - k + 1 ELSE 0
          /\ \A i \in 1 .. n - k + 1 : SubSeq(l.events, k, n)[i] = l.events[k + i - 1]
      BY <1>1, <1>3, <3>1, SubSeqProperties
    <3> QED BY <1>1, <1>3, <2>1, <3>2
  <2> HIDE DEF m
  <2>3. p \in Nat /\ p > 0 /\ p <= LastIndex(l) /\ p >= l.first /\ p = l.first + k - 1
    BY <1>1, <1>2, LogFacts DEF k
  <2>4. LastIndex(m) = LastIndex(l)
    <3>1. LastIndex(m) = p + (n - k + 1) - 1
      BY <2>1, <2>2 DEF LastIndex
    <3>2. LastIndex(l) = l.first + n - 1 /\ n \in Nat /\ l.first \in Nat /\ k \in Int
      BY <1>1, <1>3
    <3> QED BY <2>3, <3>1, <3>2
  <2>5. \A q \in m.first .. LastIndex(m) : EventAt(m, q) = EventAt(l, q)
    <3> TAKE q \in m.first .. LastIndex(m)
    <3>1. q \in p .. l.first + n - 1
      BY <1>1, <2>1, <2>4
    <3> DEFINE i == q - p + 1
    <3>2. i \in 1 .. n - k + 1 /\ k + i - 1 = q - l.first + 1
      <4>1. n \in Nat /\ l.first \in Nat /\ k \in Int
        BY <1>1, <1>3
      <4> QED BY <2>3, <3>1, <4>1
    <3>3. EventAt(m, q) = m.events[i] /\ EventAt(l, q) = l.events[q - l.first + 1]
      BY <2>1 DEF EventAt
    <3> HIDE DEF i
    <3> QED BY <2>2, <3>2, <3>3
  <2>6. m \in Logs
    <3>1. p \in Uint64 \ {0}
      BY <1>1, <1>2, <2>3, Numbers DEF Uint64
    <3> QED BY <2>1, <2>2, <3>1 DEF Logs
  <2>7. m.events # <<>>
    BY <1>1, <1>3, <2>2
  <2>8. LastIndex(l) \in Nat
    BY LogFacts
  <2> QED BY <2>1, <2>3, <2>4, <2>5, <2>6, <2>7, <2>8 DEF m
<1> QED BY <1>4, <1>5 DEF m

-----------------------------------------------------------------------------
(* Facts about aggregates. *)

Entries == [id : 1 .. MaxEvents, pos : Uint64]

LEMMA WordFacts ==
  /\ \A u, v \in Uint64 : Plus(u, v) \in Uint64 /\ Minus(u, v) \in Uint64
  /\ \A u, v \in Uint64 : u >= v => Minus(u, v) = u - v
  /\ \A u, v \in Uint64 : u + v < Word => Plus(u, v) = u + v
  BY Numbers DEF Uint64, Plus, Minus

LEMMA AggregateFacts ==
  ASSUME NEW a \in Aggregates
  PROVE  /\ a.events \in Seq(Entries)
         /\ Len(a.events) \in Nat
         /\ \A i \in 1 .. Len(a.events) : a.events[i] \in Entries
         /\ a.firstIndex \in Nat /\ a.firstIndex < Word
         /\ a.lastIndex \in Nat /\ a.lastIndex < Word
         /\ Committed(a) \in Nat
         /\ a.firstIndex <= a.lastIndex => Committed(a) = a.lastIndex - a.firstIndex
<1>1. a.events \in Seq(Entries) /\ a.firstIndex \in Uint64 /\ a.lastIndex \in Uint64
  BY DEF Aggregates, Entries
<1>2. Len(a.events) \in Nat /\ \A i \in 1 .. Len(a.events) : a.events[i] \in Entries
  BY <1>1, AsFunction
<1>3. Committed(a) \in Uint64 /\ (a.firstIndex <= a.lastIndex => Committed(a) = a.lastIndex - a.firstIndex)
  BY <1>1, Numbers DEF Committed, Minus, Uint64
<1> QED BY <1>1, <1>2, <1>3, Numbers DEF Uint64

(* Events(true), when it does not panic (IsAggregate.Events). *)
LEMMA UncommittedFacts ==
  ASSUME NEW a \in Aggregates, ~EventsPanics(a)
  PROVE  /\ Committed(a) \in 0 .. Len(a.events)
         /\ Uncommitted(a) \in Seq(Entries)
         /\ Len(Uncommitted(a)) = Len(a.events) - Committed(a)
         /\ \A i \in 1 .. Len(Uncommitted(a)) : Uncommitted(a)[i] = a.events[Committed(a) + i]
<1> DEFINE k == Committed(a)
           n == Len(a.events)
<1>1. k \in Nat /\ n \in Nat /\ k <= n /\ \A i \in 1 .. n : a.events[i] \in Entries
  BY AggregateFacts DEF EventsPanics
<1>2. Uncommitted(a) = SubSeq(a.events, k + 1, n)
  BY DEF Uncommitted
<1> HIDE DEF k, n
<1>3. \A i \in k + 1 .. n : a.events[i] \in Entries
  BY <1>1
<1>4. /\ SubSeq(a.events, k + 1, n) \in Seq(Entries)
      /\ Len(SubSeq(a.events, k + 1, n)) = IF k + 1 <= n THEN n - (k + 1) + 1 ELSE 0
      /\ \A i \in 1 .. n - (k + 1) + 1 : SubSeq(a.events, k + 1, n)[i] = a.events[k + 1 + i - 1]
  BY <1>1, <1>3, SubSeqProperties
<1>5. \A i \in 1 .. n - k : Uncommitted(a)[i] = a.events[k + i]
  <2> TAKE i \in 1 .. n - k
  <2>1. i \in 1 .. n - (k + 1) + 1 /\ k + 1 + i - 1 = k + i
    BY <1>1
  <2> QED BY <1>2, <1>4, <2>1
<1>6. Uncommitted(a) \in Seq(Entries) /\ Len(Uncommitted(a)) = n - k /\ k \in 0 .. n
  BY <1>1, <1>2, <1>4
<1> QED BY <1>5, <1>6 DEF k, n

(* The ids of a batch, or of a part of it. *)
LEMMA IdsFacts ==
  ASSUME NEW batch \in Seq(Entries)
  PROVE  /\ IdsOf(batch) \in Seq(1 .. MaxEvents)
         /\ Len(IdsOf(batch)) = Len(batch)
         /\ \A i \in 1 .. Len(batch) : IdsOf(batch)[i] = batch[i].id
<1>1. Len(batch) \in Nat /\ \A i \in 1 .. Len(batch) : batch[i].id \in 1 .. MaxEvents
  <2>1. Len(batch) \in Nat /\ \A i \in 1 .. Len(batch) : batch[i] \in Entries
    BY AsFunction
  <2> QED BY <2>1 DEF Entries
<1> QED BY <1>1 DEF IdsOf

(* Numbering part of the uncommitted events (eventLog.Append). *)
LEMMA StampsFacts ==
  ASSUME NEW a \in Aggregates, NEW l \in Logs, LastIndex(l) <= AllEvents, ~EventsPanics(a),
         NEW n \in 0 .. Len(a.events) - Committed(a)
  PROVE  LET b == Stamps(a, l, n)
         IN  /\ Len(a.events) <= AllEvents + MaxEvents => b \in Aggregates
             /\ b.firstIndex = a.firstIndex /\ b.lastIndex = a.lastIndex
             /\ Len(b.events) = Len(a.events)
             /\ \A i \in 1 .. Committed(a) : b.events[i] = a.events[i]
             /\ \A i \in 1 .. Len(a.events) : b.events[i].id = a.events[i].id
             /\ \A i \in Committed(a) + 1 .. Committed(a) + n :
                  b.events[i] = [id |-> a.events[i].id, pos |-> Plus(LastIndex(l), i - Committed(a))]
<1> DEFINE b == Stamps(a, l, n)
           k == Committed(a)
           m == Len(a.events)
<1>1. /\ m \in Nat /\ k \in 0 .. m /\ n \in Nat /\ k + n <= m
      /\ \A i \in 1 .. m : a.events[i] \in Entries
  BY AggregateFacts, UncommittedFacts
<1>2. /\ b = [a EXCEPT !.events = b.events]
      /\ b.events = [i \in 1 .. m |->
           IF i \in k + 1 .. k + n
           THEN [a.events[i] EXCEPT !.pos = Plus(LastIndex(l), i - k)] ELSE a.events[i]]
  BY DEF Stamps, Aggregates
<1>3. b.firstIndex = a.firstIndex /\ b.lastIndex = a.lastIndex
  BY <1>2 DEF Aggregates
<1> HIDE DEF b, k, m
<1>4. \A i \in 1 .. m : b.events[i].id = a.events[i].id
  BY <1>1, <1>2 DEF Entries
<1>5. \A i \in 1 .. k : b.events[i] = a.events[i]
  BY <1>1, <1>2
<1>6. \A i \in k + 1 .. k + n : b.events[i] = [id |-> a.events[i].id, pos |-> Plus(LastIndex(l), i - k)]
  <2> TAKE i \in k + 1 .. k + n
  <2>1. i \in 1 .. m
    BY <1>1
  <2>2. b.events[i] = [a.events[i] EXCEPT !.pos = Plus(LastIndex(l), i - k)] /\ a.events[i] \in Entries
    BY <1>1, <1>2, <2>1
  <2> QED BY <2>2 DEF Entries
<1>7. Len(b.events) = m
  BY <1>1, <1>2
<1>8. ASSUME m <= AllEvents + MaxEvents PROVE b \in Aggregates
  <2>1. \A i \in 1 .. m : b.events[i] \in Entries
    <3> TAKE i \in 1 .. m
    <3>1. CASE i \in k + 1 .. k + n
      <4>1. i - k \in Uint64 /\ LastIndex(l) \in Uint64
        <5>1. LastIndex(l) \in Nat
          BY LogFacts
        <5>2. i \in Int /\ i - k >= 1 /\ i - k <= AllEvents + MaxEvents
          BY <1>1, <1>8, <3>1, Numbers
        <5> QED BY <1>1, <5>1, <5>2, Numbers DEF Uint64
      <4>2. Plus(LastIndex(l), i - k) \in Uint64
        BY <4>1, WordFacts
      <4>3. a.events[i].id \in 1 .. MaxEvents
        BY <1>1 DEF Entries
      <4>4. b.events[i] = [id |-> a.events[i].id, pos |-> Plus(LastIndex(l), i - k)]
        BY <1>6, <3>1
      <4> QED BY <4>2, <4>3, <4>4 DEF Entries
    <3>2. CASE i \notin k + 1 .. k + n
      BY <1>1, <1>2, <3>2
    <3> QED BY <3>1, <3>2
  <2>2. b.events \in Seq(Entries)
    <3>1. b.events \in [1 .. m -> Entries]
      BY <1>2, <2>1
    <3> QED BY <1>1, <3>1
  <2> QED BY <1>2, <2>2 DEF Aggregates, Entries
<1> QED BY <1>3, <1>4, <1>5, <1>6, <1>7, <1>8 DEF b, k, m

(* Raise adds behind what is there (event.Raise). *)
LEMMA RaiseFacts ==
  ASSUME NEW a \in Aggregates, NEW ids \in Seq(1 .. MaxEvents),
         Len(a.events) + Len(ids) <= AllEvents + MaxEvents
  PROVE  LET b == RaiseOn(a, ids)
         IN  /\ b \in Aggregates
             /\ b.firstIndex = a.firstIndex /\ b.lastIndex = a.lastIndex
             /\ Len(b.events) = Len(a.events) + Len(ids)
             /\ \A i \in 1 .. Len(a.events) : b.events[i] = a.events[i]
<1> DEFINE b == RaiseOn(a, ids)
           new == PosStartAt(a, ids)
<1>1. /\ Len(ids) \in Nat /\ \A i \in 1 .. Len(ids) : ids[i] \in 1 .. MaxEvents
      /\ a.events \in Seq(Entries) /\ Len(a.events) \in Nat /\ a.lastIndex \in Uint64
  BY AsFunction, AggregateFacts DEF Aggregates
<1>2. new \in Seq(Entries) /\ Len(new) = Len(ids)
  <2>1. \A i \in 1 .. Len(ids) : Plus(a.lastIndex, i) \in Uint64
    <3> TAKE i \in 1 .. Len(ids)
    <3>1. i \in Uint64
      BY <1>1, Numbers DEF Uint64
    <3> QED BY <1>1, <3>1, WordFacts
  <2>2. new \in [1 .. Len(ids) -> Entries]
    BY <1>1, <2>1 DEF PosStartAt, Entries
  <2> QED BY <1>1, <2>2
<1>3. b = [a EXCEPT !.events = b.events] /\ b.events = a.events \o new
  BY DEF RaiseOn, Aggregates
<1>4. b.firstIndex = a.firstIndex /\ b.lastIndex = a.lastIndex
  BY <1>3 DEF Aggregates
<1> HIDE DEF b, new
<1>5. /\ b.events \in Seq(Entries) /\ Len(b.events) = Len(a.events) + Len(new)
      /\ \A i \in 1 .. Len(a.events) + Len(new) :
           b.events[i] = IF i <= Len(a.events) THEN a.events[i] ELSE new[i - Len(a.events)]
  <2>1. /\ a.events \o new \in Seq(Entries) /\ Len(a.events \o new) = Len(a.events) + Len(new)
        /\ \A i \in 1 .. Len(a.events) + Len(new) :
             (a.events \o new)[i] = IF i <= Len(a.events) THEN a.events[i] ELSE new[i - Len(a.events)]
    BY <1>1, <1>2, ConcatProperties
  <2>2. b.events = a.events \o new
    BY <1>3
  <2> QED BY <2>1, <2>2
<1>6. b \in Aggregates
  BY <1>3, <1>5 DEF Aggregates, Entries
<1>7. \A i \in 1 .. Len(a.events) : b.events[i] = a.events[i]
  BY <1>1, <1>2, <1>5
<1> QED BY <1>2, <1>4, <1>5, <1>6, <1>7 DEF b

-----------------------------------------------------------------------------
(* How an aggregate's knowledge of the stream survives what happens to     *)
(* either.                                                                 *)

Knows(a, l) == Tracks(a, l) \/ Behind(a, l)

(* Others append. *)
LEMMA KnowsAfterAppend ==
  ASSUME NEW a \in Aggregates, NEW l \in Logs, NEW ids \in Seq(1 .. MaxEvents), Knows(a, l)
  PROVE  Knows(a, AppendTo(l, ids))
<1> DEFINE m == AppendTo(l, ids)
<1>1. /\ m.first = l.first /\ LastIndex(m) = LastIndex(l) + Len(ids)
      /\ \A p \in l.first .. LastIndex(l) : EventAt(m, p) = EventAt(l, p)
  BY AppendFacts
<1>2. Len(ids) \in Nat /\ LastIndex(l) \in Nat /\ a.lastIndex \in Nat /\ l.first \in Nat
  BY AsFunction, LogFacts, AggregateFacts
<1> HIDE DEF m
<1>3. Behind(a, l) => Knows(a, m)
  BY <1>1, <1>2 DEF Behind, Knows
<1>4. ASSUME Tracks(a, l) PROVE Knows(a, m)
  <2>1. \A p \in l.first .. a.lastIndex : EventAt(m, p) = EventAt(l, p)
    BY <1>1, <1>2, <1>4 DEF Tracks
  <2> QED BY <1>1, <1>2, <1>4, <2>1 DEF Tracks, Knows
<1> QED BY <1>3, <1>4 DEF Knows, m

(* Others truncate, and the last event stays. *)
LEMMA KnowsAfterTruncate ==
  ASSUME NEW a \in Aggregates, NEW l \in Logs, LastIndex(l) <= AllEvents, NEW index \in Int,
         CanTruncate(l, index), Knows(a, l), LastIndex(Truncate(l, index)) >= LastIndex(l)
  PROVE  Knows(a, Truncate(l, index))
<1> DEFINE m == Truncate(l, index)
<1>1. /\ m \in Logs /\ m.first >= l.first /\ LastIndex(m) <= LastIndex(l)
      /\ \A p \in m.first .. LastIndex(m) : EventAt(m, p) = EventAt(l, p)
  BY TruncateFacts
<1> HIDE DEF m
<1>2. /\ LastIndex(l) \in Nat /\ LastIndex(m) \in Nat /\ a.lastIndex \in Nat /\ a.firstIndex \in Nat
      /\ l.first \in Nat /\ m.first \in Nat
  BY <1>1, LogFacts, AggregateFacts
<1>3. LastIndex(m) = LastIndex(l)
  BY <1>1, <1>2 DEF m
<1>4. Behind(a, l) => Knows(a, m)
  BY <1>3 DEF Behind, Knows
<1>5. ASSUME Tracks(a, l) PROVE Knows(a, m)
  <2>1. \A p \in m.first .. a.lastIndex : p \in l.first .. a.lastIndex /\ EventAt(m, p) = EventAt(l, p)
    BY <1>1, <1>2, <1>3, <1>5 DEF Tracks
  <2> QED BY <1>1, <1>2, <1>3, <1>5, <2>1 DEF Tracks, Knows
<1> QED BY <1>4, <1>5 DEF Knows, m

(* The client itself changes only what is uncommitted. *)
LEMMA KnowsAfterChange ==
  ASSUME NEW a \in Aggregates, NEW b \in Aggregates, NEW l \in Logs, Knows(a, l),
         b.firstIndex = a.firstIndex, b.lastIndex = a.lastIndex, Len(b.events) >= Len(a.events),
         \A i \in 1 .. Len(a.events) : i <= Committed(a) => b.events[i] = a.events[i]
  PROVE  Knows(b, l)
<1>1. CASE Behind(a, l)
  BY <1>1 DEF Behind, Knows
<1>2. CASE Tracks(a, l)
  <2>1. /\ a.firstIndex \in Nat /\ a.lastIndex \in Nat /\ Len(a.events) \in Nat /\ Len(b.events) \in Nat
        /\ l.first \in Nat
    BY AggregateFacts, LogFacts
  <2>2. Committed(a) = a.lastIndex - a.firstIndex
    BY <1>2, AggregateFacts DEF Tracks
  <2>3. ASSUME NEW p \in l.first .. a.lastIndex
        PROVE  b.events[p - a.firstIndex] = a.events[p - a.firstIndex]
    <3> DEFINE i == p - a.firstIndex
    <3>1. i \in 1 .. Len(a.events) /\ i <= Committed(a)
      BY <1>2, <2>1, <2>2 DEF Tracks
    <3> HIDE DEF i
    <3>2. b.events[i] = a.events[i]
      BY <3>1
    <3> QED BY <3>2 DEF i
  <2>4. \A p \in l.first .. b.lastIndex : b.events[p - b.firstIndex] = [id |-> EventAt(l, p), pos |-> p]
    <3>1. \A p \in l.first .. a.lastIndex : a.events[p - a.firstIndex] = [id |-> EventAt(l, p), pos |-> p]
      BY <1>2 DEF Tracks
    <3> QED BY <2>3, <3>1, b.firstIndex = a.firstIndex, b.lastIndex = a.lastIndex
  <2>5. b.lastIndex - b.firstIndex <= Len(b.events)
    <3>1. a.lastIndex - a.firstIndex <= Len(a.events)
      BY <1>2 DEF Tracks
    <3> QED BY <2>1, <3>1
  <2>6. Tracks(b, l)
    BY <1>2, <2>4, <2>5 DEF Tracks
  <2> QED BY <2>6 DEF Knows
<1> QED BY <1>1, <1>2 DEF Knows

(* A new aggregate knows any stream: it has seen nothing. *)
LEMMA NewAggregateFacts ==
  /\ NewAggregate \in Aggregates
  /\ NewAggregate.firstIndex = 0 /\ NewAggregate.lastIndex = 0 /\ Len(NewAggregate.events) = 0
  /\ \A l \in Logs : Knows(NewAggregate, l)
<1>1. NewAggregate \in Aggregates
  BY Numbers DEF NewAggregate, Aggregates, Uint64
<1>2. NewAggregate.firstIndex = 0 /\ NewAggregate.lastIndex = 0 /\ Len(NewAggregate.events) = 0
  BY DEF NewAggregate
<1>3. ASSUME NEW l \in Logs PROVE Tracks(NewAggregate, l)
  <2>1. l.first \in Nat /\ l.first > 0 /\ LastIndex(l) \in Nat
    BY LogFacts
  <2> QED BY <1>2, <2>1 DEF Tracks
<1> QED BY <1>1, <1>2, <1>3 DEF Knows

(* Load: the stream l is read with the first index h some earlier FirstIndex *)
(* returned.                                                                 *)
LoadedFrom(h, l) == AppendOn(Start(NewAggregate, Minus(h, 1)), l.events)

LEMMA LoadedIs ==
  ASSUME NEW l \in Logs, NEW h \in Uint64
  PROVE  LET a == LoadedFrom(h, l)
             f == Minus(h, 1)
             n == Len(l.events)
         IN  /\ a.firstIndex = f
             /\ a.events = [i \in 1 .. n |-> [id |-> l.events[i], pos |-> Plus(f, i)]]
             /\ a.lastIndex = Plus(f, n)
             /\ a = [events |-> a.events, firstIndex |-> a.firstIndex, lastIndex |-> a.lastIndex]
<1> DEFINE a == LoadedFrom(h, l)
           n == Len(l.events)
           f == Minus(h, 1)
<1>1. n \in Nat /\ \A i \in 1 .. n : l.events[i] \in 1 .. MaxEvents
  BY LogFacts
<1> DEFINE b   == Start(NewAggregate, f)
           new == PosStartAt(b, l.events)
<1> HIDE DEF f
<1>2. /\ b = [events |-> b.events, firstIndex |-> b.firstIndex, lastIndex |-> b.lastIndex]
      /\ b.events = <<>> /\ b.firstIndex = f /\ b.lastIndex = f
  <2>1. b = [events |-> <<>>, firstIndex |-> f, lastIndex |-> f]
    BY DEF Start, NewAggregate
  <2> HIDE DEF b
  <2> QED BY <2>1
<1> HIDE DEF b
<1>3. new = [i \in 1 .. n |-> [id |-> l.events[i], pos |-> Plus(f, i)]]
  BY <1>2 DEF PosStartAt
<1>4. new \in Seq({[id |-> l.events[i], pos |-> Plus(f, i)] : i \in 1 .. n})
  BY <1>1, <1>3
<1>5. <<>> \o new = new
  BY <1>4, ConcatEmptySeq
<1> HIDE DEF new, n
<1>6. a = [b EXCEPT !.events = b.events \o new, !.lastIndex = Plus(b.lastIndex, n)]
  BY DEF AppendOn, LoadedFrom, b, new, n, f
<1> HIDE DEF a
<1>7. a = [events |-> b.events \o new, firstIndex |-> b.firstIndex, lastIndex |-> Plus(b.lastIndex, n)]
  BY <1>2, <1>6
<1>8. /\ a.firstIndex = f
      /\ a.events = [i \in 1 .. n |-> [id |-> l.events[i], pos |-> Plus(f, i)]]
      /\ a.lastIndex = Plus(f, n)
      /\ a = [events |-> a.events, firstIndex |-> a.firstIndex, lastIndex |-> a.lastIndex]
  BY <1>2, <1>3, <1>5, <1>7
<1> QED BY <1>8 DEF a, f, n

(* A first index that is still right makes the aggregate track the stream;   *)
(* one that is too low leaves it behind.                                     *)
LEMMA LoadedFacts ==
  ASSUME NEW l \in Logs, LastIndex(l) <= AllEvents, l.events # <<>>,
         NEW h \in Uint64, h <= l.first
  PROVE  LET a == LoadedFrom(h, l)
         IN  /\ a \in Aggregates
             /\ Len(a.events) <= AllEvents
             /\ a.lastIndex = Version(a)
             /\ Knows(a, l)
<1> DEFINE a == LoadedFrom(h, l)
           n == Len(l.events)
           f == Minus(h, 1)
<1>1. /\ n \in Nat /\ n > 0 /\ l.first \in Nat /\ l.first > 0 /\ LastIndex(l) = l.first + n - 1
      /\ \A i \in 1 .. n : l.events[i] \in 1 .. MaxEvents
  BY LogFacts
<1>2. n <= AllEvents /\ l.first <= AllEvents /\ n \in Uint64 /\ 1 \in Uint64
  BY <1>1, Numbers DEF Uint64
<1>3. f \in Uint64 /\ f = IF h = 0 THEN Word - 1 ELSE h - 1
  BY Numbers DEF Minus, Uint64
<1>4. /\ a.firstIndex = f
      /\ a.events = [i \in 1 .. n |-> [id |-> l.events[i], pos |-> Plus(f, i)]]
      /\ a.lastIndex = Plus(f, n)
      /\ a = [events |-> a.events, firstIndex |-> a.firstIndex, lastIndex |-> a.lastIndex]
  BY LoadedIs
<1> HIDE DEF a, n, f
<1>5. a.lastIndex = IF h = 0 THEN n - 1 ELSE h - 1 + n
  <2>1. a.lastIndex = IF f + n < Word THEN f + n ELSE f + n - Word
    BY <1>4 DEF Plus
  <2>2. h \in Nat /\ n \in Nat /\ n > 0 /\ h + n <= Half + Half - 1 /\ Word = Half + Half /\ Half \in Nat
    BY <1>1, <1>2, Numbers DEF Uint64
  <2> QED BY <1>3, <2>1, <2>2
<1>6. Len(a.events) = n
  BY <1>1, <1>4
<1>7. a \in Aggregates
  <2>1. \A i \in 1 .. n : Plus(f, i) \in Uint64
    <3> TAKE i \in 1 .. n
    <3>1. i \in Uint64
      BY <1>1, <1>2, Numbers DEF Uint64
    <3> QED BY <1>3, <3>1, WordFacts
  <2>2. a.events \in [1 .. n -> Entries]
    BY <1>1, <1>4, <2>1 DEF Entries
  <2>3. a.events \in Seq(Entries)
    BY <1>1, <2>2
  <2>4. a.lastIndex \in Uint64
    BY <1>2, <1>3, <1>4, WordFacts
  <2> QED BY <1>3, <1>4, <2>3, <2>4 DEF Aggregates, Entries
<1>8. a.lastIndex = Version(a)
  BY <1>4, <1>6 DEF Version
<1>9. h < l.first => Knows(a, l)
  BY <1>1, <1>5 DEF Behind, Knows, Uint64
<1>10. ASSUME h = l.first PROVE Knows(a, l)
  <2>1. f = l.first - 1 /\ a.lastIndex = LastIndex(l)
    BY <1>1, <1>3, <1>5, <1>10
  <2>2. ASSUME NEW p \in l.first .. LastIndex(l)
        PROVE  a.events[p - f] = [id |-> EventAt(l, p), pos |-> p]
    <3> DEFINE i == p - f
    <3>1. i \in 1 .. n /\ i = p - l.first + 1 /\ p = f + i /\ p < Word /\ i \in Uint64
      <4>1. /\ p \in Nat /\ p >= l.first /\ p <= l.first + n - 1 /\ f = l.first - 1
            /\ n \in Nat /\ l.first \in Nat /\ f \in Int
        BY <1>1, <2>1
      <4>2. i = p - l.first + 1 /\ i \in Int
        BY <4>1
      <4> HIDE DEF i
      <4>3. i >= 1 /\ i <= n /\ p = f + i
        BY <4>1, <4>2
      <4>4. i \in Uint64
        <5>1. n <= Word - 1 /\ Word \in Int
          BY <1>2, Numbers DEF Uint64
        <5>2. n \in Int /\ i \in Int /\ i >= 1 /\ i <= n
          BY <4>1, <4>2, <4>3
        <5>3. i >= 0 /\ i <= Word - 1
          BY <5>1, <5>2
        <5> QED BY <5>1, <5>2, <5>3 DEF Uint64
      <4>5. p < Word
        BY <1>1, <4>1, Numbers
      <4> QED BY <4>1, <4>2, <4>3, <4>4, <4>5
    <3> HIDE DEF i
    <3>2. a.events[i] = [id |-> l.events[i], pos |-> Plus(f, i)]
      BY <1>4, <3>1
    <3>3. Plus(f, i) = p
      BY <1>3, <3>1, WordFacts
    <3> QED BY <3>1, <3>2, <3>3 DEF EventAt, i
  <2> QED BY <1>1, <1>4, <1>6, <2>1, <2>2 DEF Tracks, Knows
<1>11. h < l.first \/ h = l.first
  BY <1>1, Numbers DEF Uint64
<1>12. Len(a.events) <= AllEvents /\ Knows(a, l)
  BY <1>2, <1>6, <1>9, <1>10, <1>11
<1> QED BY <1>7, <1>8, <1>12 DEF a

(* Save: whoever appends at the version it tracks goes on tracking the      *)
(* stream, or is behind it when the stream had been truncated at the front. *)
LEMMA SavedFacts ==
  ASSUME NEW a \in Aggregates, NEW l \in Logs, Tracks(a, l), a.lastIndex = LastIndex(l),
         ~EventsPanics(a), LastIndex(l) + Len(Uncommitted(a)) <= AllEvents
  PROVE  Knows(Commit(Stamps(a, l, Len(Uncommitted(a)))), AppendTo(l, IdsOf(Uncommitted(a))))
<1> DEFINE k     == Committed(a)
           batch == Uncommitted(a)
           n     == Len(batch)
           s     == Stamps(a, l, n)
           b     == Commit(s)
           ids   == IdsOf(batch)
           m     == AppendTo(l, ids)
<1>1. /\ k \in 0 .. Len(a.events) /\ batch \in Seq(Entries) /\ n = Len(a.events) - k
      /\ \A i \in 1 .. n : batch[i] = a.events[k + i]
  BY UncommittedFacts
<1>2. /\ a.firstIndex \in Nat /\ a.lastIndex \in Nat /\ Len(a.events) \in Nat
      /\ k = a.lastIndex - a.firstIndex /\ a.firstIndex < l.first
      /\ \A p \in l.first .. a.lastIndex :
           a.events[p - a.firstIndex] = [id |-> EventAt(l, p), pos |-> p]
  BY AggregateFacts DEF Tracks
<1>3. /\ ids \in Seq(1 .. MaxEvents) /\ Len(ids) = n
      /\ \A i \in 1 .. n : ids[i] = batch[i].id
  BY <1>1, IdsFacts
<1>4. /\ l.first \in Nat /\ l.first > 0 /\ LastIndex(l) \in Nat /\ LastIndex(l) <= AllEvents
      /\ n \in Nat /\ k \in Nat /\ LastIndex(l) + n <= AllEvents /\ LastIndex(l) = a.lastIndex
  BY <1>1, <1>2, LogFacts, Numbers
<1>5. n \in 0 .. Len(a.events) - Committed(a)
  BY <1>1, <1>2, <1>4
<1> HIDE DEF n, batch, ids
<1>6. /\ s.firstIndex = a.firstIndex /\ s.lastIndex = a.lastIndex /\ Len(s.events) = Len(a.events)
      /\ \A i \in 1 .. k : s.events[i] = a.events[i]
      /\ \A i \in k + 1 .. k + n :
           s.events[i] = [id |-> a.events[i].id, pos |-> Plus(LastIndex(l), i - k)]
  BY <1>4, <1>5, StampsFacts
<1>7. s = [events |-> s.events, firstIndex |-> s.firstIndex, lastIndex |-> s.lastIndex]
  <2>1. s = [a EXCEPT !.events = s.events]
    BY DEF Stamps, Aggregates
  <2> HIDE DEF s
  <2> QED BY <2>1 DEF Aggregates
<1> HIDE DEF s, k
<1>8. b.events = s.events /\ b.firstIndex = a.firstIndex /\ b.lastIndex = Len(a.events)
  BY <1>6, <1>7 DEF Commit
<1>9. /\ m.first = l.first /\ LastIndex(m) = LastIndex(l) + n
      /\ \A p \in l.first .. LastIndex(l) : EventAt(m, p) = EventAt(l, p)
      /\ \A i \in 1 .. n : EventAt(m, LastIndex(l) + i) = ids[i]
  BY <1>3, AppendFacts
<1> HIDE DEF b, m
<1>10. LastIndex(m) = a.firstIndex + Len(a.events)
  <2>1. LastIndex(m) = a.lastIndex + n /\ n = Len(a.events) - k /\ k = a.lastIndex - a.firstIndex
    BY <1>1, <1>2, <1>4, <1>9
  <2>2. a.firstIndex \in Nat /\ a.lastIndex \in Nat /\ Len(a.events) \in Nat /\ n \in Nat /\ k \in Nat
    BY <1>2, <1>4
  <2>3. a.lastIndex + n = a.firstIndex + Len(a.events)
    <3>1. PICK f \in Nat, t \in Nat, e \in Nat :
            f = a.firstIndex /\ t = a.lastIndex /\ e = Len(a.events)
      BY <2>2
    <3>2. n = e - k /\ k = t - f
      BY <2>1, <3>1
    <3>3. n = e - (t - f)
      BY <3>2
    <3>4. t + n = f + e
      BY <3>3
    <3> QED BY <3>1, <3>4
  <2> QED BY <2>1, <2>3
<1>11. a.firstIndex > 0 => Behind(b, m)
  BY <1>2, <1>8, <1>10 DEF Behind
<1>12. ASSUME a.firstIndex = 0 PROVE Tracks(b, m)
  <2>1. k = LastIndex(l) /\ LastIndex(m) = Len(a.events) /\ Len(a.events) = k + n
    BY <1>1, <1>2, <1>4, <1>10, <1>12
  <2>2. ASSUME NEW p \in m.first .. LastIndex(m)
        PROVE  b.events[p] = [id |-> EventAt(m, p), pos |-> p]
    <3>1. CASE p <= k
      <4>1. p \in l.first .. LastIndex(l) /\ p \in l.first .. a.lastIndex /\ p \in 1 .. k /\ p - a.firstIndex = p
        BY <1>4, <1>9, <1>12, <2>1, <3>1
      <4> QED BY <1>2, <1>6, <1>8, <1>9, <4>1
    <3>2. CASE ~(p <= k)
      <4> DEFINE i == p - k
      <4>1. i \in 1 .. n /\ p = k + i /\ p \in k + 1 .. k + n /\ p = LastIndex(l) + i
        BY <1>4, <1>9, <2>1, <3>2
      <4>2. b.events[p] = [id |-> a.events[p].id, pos |-> Plus(LastIndex(l), i)]
        BY <1>6, <1>8, <4>1
      <4>3. Plus(LastIndex(l), i) = p
        <5>1. /\ LastIndex(l) \in Uint64 /\ i \in Uint64 /\ LastIndex(l) + i = p
              /\ LastIndex(l) + i < Word
          BY <1>4, <4>1, Numbers DEF Uint64
        <5> HIDE DEF i
        <5> QED BY <5>1, WordFacts
      <4> HIDE DEF i
      <4>4. EventAt(m, p) = ids[i] /\ ids[i] = batch[i].id /\ batch[i] = a.events[p]
        BY <1>1, <1>3, <1>9, <4>1
      <4> QED BY <4>2, <4>3, <4>4
    <3> QED BY <3>1, <3>2
  <2>3. /\ b.firstIndex = 0 /\ b.lastIndex = LastIndex(m) /\ LastIndex(m) \in Nat
        /\ Len(b.events) = LastIndex(m) /\ 0 < m.first
    BY <1>2, <1>4, <1>6, <1>8, <1>9, <1>12, <2>1
  <2>4. ASSUME NEW p \in m.first .. b.lastIndex
        PROVE  b.events[p - b.firstIndex] = [id |-> EventAt(m, p), pos |-> p]
    <3>1. p - b.firstIndex = p /\ p \in m.first .. LastIndex(m)
      BY <1>4, <1>9, <2>3
    <3> QED BY <2>2, <3>1
  <2> QED BY <2>3, <2>4 DEF Tracks
<1>13. Knows(b, m)
  BY <1>2, <1>11, <1>12 DEF Knows
<1> QED BY <1>13 DEF b, m, s, ids, n, batch, k

-----------------------------------------------------------------------------
(* The inductive invariant.  TracksOrBehind alone is not inductive: a Load  *)
(* under way must still hold its new aggregate and a first index that is    *)
(* not too high, an aggregate must not outgrow the words, and a Save about  *)
(* to append must have something to append.                                 *)
ClientOK(c) ==
  /\ Len(agg[c].events) <= AllEvents + raised
  /\ pc[c] \in {"first", "read"} => agg[c] = NewAggregate
  /\ pc[c] = "read" => head[c] <= log.first
  /\ pc[c] = "append" => ~EventsPanics(agg[c]) /\ Uncommitted(agg[c]) # <<>>
  /\ pc[c] \in {"callback", "append"} =>
       /\ op[c] = "create" => agg[c].lastIndex = 0
       /\ op[c] = "update" => log.events # <<>>
  /\ uncut[c] => Knows(agg[c], log)

IInv == TypeOK /\ \A c \in Clients : ClientOK(c)

LEMMA InitIInv == Init => IInv
<1> SUFFICES ASSUME Init PROVE IInv
  OBVIOUS
<1>1. /\ EmptyLog.events = <<>> /\ EmptyLog.first = 1
      /\ EmptyLog = [first |-> 1, events |-> <<>>]
  BY DEF EmptyLog
<1>2. log \in Logs /\ log.events = <<>> /\ log.first = 1 /\ LastIndex(log) = 0
  <2>1. log.events = <<>> /\ log.first = 1 /\ log = EmptyLog
    BY <1>1 DEF Init
  <2>2. 1 \in Uint64 \ {0} /\ <<>> \in Seq(1 .. MaxEvents) /\ Len(<<>>) = 0
    BY Numbers DEF Uint64
  <2>3. EmptyLog \in Logs
    BY <1>1, <2>2 DEF Logs
  <2> QED BY <2>1, <2>2, <2>3 DEF LastIndex
<1>3. TypeOK
  <2>1. 0 \in Uint64 /\ 0 \in 0 .. MaxEvents
    BY Numbers DEF Uint64
  <2> QED BY <1>2, <2>1, NewAggregateFacts, Numbers
           DEF Init, TypeOK, Steps, Operations, Results
<1>4. ASSUME NEW c \in Clients PROVE ClientOK(c)
  <2>1. pc[c] = "idle" /\ agg[c] = NewAggregate /\ raised = 0
    BY DEF Init
  <2> QED BY <1>2, <2>1, NewAggregateFacts, Numbers DEF ClientOK
<1> QED BY <1>3, <1>4 DEF IInv

(* What happens to the stream in a step, and what that leaves alone. *)
LogStep ==
  \/ log' = log
  \/ \E ids \in Seq(1 .. MaxEvents) : log' = AppendTo(log, ids)
  \/ \E index \in Int : CanTruncate(log, index) /\ log' = Truncate(log, index)

LEMMA LogStepFacts ==
  ASSUME IInv, LogStep, LastIndex(log') <= AllEvents
  PROVE  /\ log' \in Logs
         /\ log'.events = <<>> => log'.first = 1 /\ log.events = <<>>
         /\ log'.first >= log.first
         /\ \A a \in Aggregates :
              Knows(a, log) /\ LastIndex(log') >= LastIndex(log) => Knows(a, log')
<1>1. /\ log \in Logs /\ LastIndex(log) <= AllEvents /\ log.first \in Nat
      /\ log.events = <<>> => log.first = 1
  BY LogFacts DEF IInv, TypeOK
<1>2. CASE log' = log
  BY <1>1, <1>2
<1>3. ASSUME NEW ids \in Seq(1 .. MaxEvents), log' = AppendTo(log, ids)
      PROVE  /\ log' \in Logs /\ log'.first = log.first
             /\ log'.events = <<>> => log.events = <<>>
             /\ \A a \in Aggregates : Knows(a, log) => Knows(a, log')
  BY <1>1, <1>3, AppendFacts, KnowsAfterAppend
<1>4. ASSUME NEW index \in Int, CanTruncate(log, index), log' = Truncate(log, index)
      PROVE  /\ log' \in Logs /\ log'.first >= log.first
             /\ log'.events # <<>>
             /\ \A a \in Aggregates :
                  Knows(a, log) /\ LastIndex(log') >= LastIndex(log) => Knows(a, log')
  BY <1>1, <1>4, TruncateFacts, KnowsAfterTruncate
<1> QED BY <1>1, <1>2, <1>3, <1>4 DEF LogStep

(* A client that takes no part in a step keeps its invariant. *)
LEMMA Bystander ==
  ASSUME IInv, LogStep, LastIndex(log') <= AllEvents,
         raised' \in Nat, raised' >= raised,
         NEW d \in Clients,
         pc'[d] = pc[d], op'[d] = op[d], agg'[d] = agg[d], head'[d] = head[d],
         uncut'[d] => uncut[d] /\ LastIndex(log') >= LastIndex(log)
  PROVE  ClientOK(d)'
<1>1. /\ log' \in Logs
      /\ log'.events = <<>> => log.events = <<>>
      /\ log'.first >= log.first
      /\ \A a \in Aggregates :
           Knows(a, log) /\ LastIndex(log') >= LastIndex(log) => Knows(a, log')
  BY LogStepFacts
<1>2. agg[d] \in Aggregates /\ head[d] \in Nat /\ raised \in Nat
  BY Numbers DEF IInv, TypeOK, Uint64
<1>3. log \in Logs /\ log.first \in Nat /\ log'.first \in Nat /\ Len(agg[d].events) \in Nat
  BY <1>1, <1>2, LogFacts, AggregateFacts DEF IInv, TypeOK
<1>4. ClientOK(d)
  BY DEF IInv
<1>5. Len(agg'[d].events) <= AllEvents + raised'
  BY <1>2, <1>3, <1>4, Numbers DEF ClientOK
<1>6. pc'[d] = "read" => head'[d] <= log'.first
  BY <1>1, <1>2, <1>3, <1>4 DEF ClientOK
<1>7. uncut'[d] => Knows(agg'[d], log')
  BY <1>1, <1>2, <1>4 DEF ClientOK
<1> QED BY <1>1, <1>4, <1>5, <1>6, <1>7 DEF ClientOK

(* The end of an operation. *)
LEMMA ReturnFacts ==
  ASSUME TypeOK, NEW c \in Clients, NEW result \in Results, Return(c, result)
  PROVE  /\ pc' \in [Clients -> Steps]
         /\ op' \in [Clients -> Operations \cup {"none", "save"}]
         /\ head' \in [Clients -> Uint64]
         /\ err' \in [Clients -> Results]
         /\ pc'[c] = "idle"
         /\ \A d \in Clients \ {c} : pc'[d] = pc[d] /\ op'[d] = op[d] /\ head'[d] = head[d]
<1>1. 0 \in Uint64
  BY Numbers DEF Uint64
<1> QED BY <1>1 DEF Return, TypeOK, Steps

(* What a step of client c must show. *)
LocalTypes ==
  /\ pc' \in [Clients -> Steps]
  /\ op' \in [Clients -> Operations \cup {"none", "save"}]
  /\ agg' \in [Clients -> Aggregates]
  /\ head' \in [Clients -> Uint64]
  /\ err' \in [Clients -> Results]
  /\ uncut' \in [Clients -> BOOLEAN]
  /\ fresh' \in [Clients -> BOOLEAN]
OthersStay(c) ==
  \A d \in Clients \ {c} :
    /\ pc'[d] = pc[d] /\ op'[d] = op[d] /\ agg'[d] = agg[d] /\ head'[d] = head[d]
    /\ uncut'[d] => uncut[d] /\ LastIndex(log') >= LastIndex(log)
StreamStep ==
  /\ LogStep /\ LastIndex(log') <= AllEvents
  /\ raised' \in 0 .. MaxEvents /\ raised' >= raised

LEMMA StepKeeps ==
  ASSUME IInv, StreamStep, LocalTypes, NEW c \in Clients, OthersStay(c), ClientOK(c)'
  PROVE  IInv'
<1>1. log' \in Logs /\ (log'.events = <<>> => log'.first = 1)
  BY LogStepFacts DEF StreamStep
<1>2. TypeOK'
  BY <1>1 DEF TypeOK, StreamStep, LocalTypes
<1>3. ASSUME NEW d \in Clients \ {c} PROVE ClientOK(d)'
  <2>1. raised' \in Nat
    BY Numbers DEF StreamStep
  <2> QED BY <2>1, Bystander DEF StreamStep, OthersStay
<1>4. \A d \in Clients : ClientOK(d)'
  BY <1>3
<1> QED BY <1>2, <1>4 DEF IInv

(* Nothing happens to the stream. *)
LEMMA QuietStream ==
  ASSUME IInv, log' = log, raised' = raised
  PROVE  StreamStep /\ LastIndex(log') = LastIndex(log) /\ LastIndex(log') >= LastIndex(log)
<1>1. log \in Logs /\ LastIndex(log) <= AllEvents /\ raised \in 0 .. MaxEvents
  BY DEF IInv, TypeOK
<1>2. LastIndex(log) \in Nat /\ raised \in Nat
  BY <1>1, LogFacts, Numbers
<1> QED BY <1>1, <1>2 DEF StreamStep, LogStep

(* Nothing happens but that c goes to another step of an operation. *)
LEMMA QuietStep ==
  ASSUME IInv, log' = log, raised' = raised, LocalTypes, NEW c \in Clients,
         \A d \in Clients \ {c} :
           pc'[d] = pc[d] /\ op'[d] = op[d] /\ agg'[d] = agg[d] /\ head'[d] = head[d] /\ uncut'[d] = uncut[d],
         ClientOK(c)'
  PROVE  IInv'
<1>1. StreamStep /\ LastIndex(log') >= LastIndex(log)
  BY QuietStream
<1>2. OthersStay(c)
  BY <1>1 DEF OthersStay
<1> QED BY <1>1, <1>2, StepKeeps

-----------------------------------------------------------------------------
(* One lemma for each action. *)

LEMMA BeginKeeps ==
  ASSUME IInv, NEW c \in Clients, NEW o \in Operations, Begin(c, o)
  PROVE  IInv'
<1>1. log' = log /\ raised' = raised /\ LocalTypes
  BY NewAggregateFacts DEF Begin, LocalTypes, IInv, TypeOK, Steps, Results
<1>2. \A d \in Clients \ {c} :
         pc'[d] = pc[d] /\ op'[d] = op[d] /\ agg'[d] = agg[d] /\ head'[d] = head[d] /\ uncut'[d] = uncut[d]
  BY DEF Begin, IInv, TypeOK
<1>3. ClientOK(c)'
  <2>1. pc'[c] = "first" /\ agg'[c] = NewAggregate /\ raised' \in Nat /\ log' \in Logs
    BY <1>1, Numbers DEF Begin, IInv, TypeOK
  <2>2. Len(agg'[c].events) = 0 /\ Knows(agg'[c], log')
    BY <2>1, NewAggregateFacts
  <2>3. Len(agg'[c].events) <= AllEvents + raised'
    <3>1. \A i \in Nat : 0 <= AllEvents + i
      BY Numbers
    <3> QED BY <2>1, <2>2, <3>1
  <2> QED BY <2>1, <2>2, <2>3 DEF ClientOK
<1> QED BY <1>1, <1>2, <1>3, QuietStep

LEMMA ResumeKeeps ==
  ASSUME IInv, NEW c \in Clients, Resume(c)
  PROVE  IInv'
<1>1. log' = log /\ raised' = raised /\ LocalTypes
  BY DEF Resume, LocalTypes, IInv, TypeOK, Steps, Results
<1>2. \A d \in Clients \ {c} :
         pc'[d] = pc[d] /\ op'[d] = op[d] /\ agg'[d] = agg[d] /\ head'[d] = head[d] /\ uncut'[d] = uncut[d]
  BY DEF Resume, IInv, TypeOK
<1>3. ClientOK(c)'
  <2>1. pc'[c] = "callback" /\ op'[c] = "save" /\ agg'[c] = agg[c] /\ uncut'[c] = uncut[c]
    BY DEF Resume, IInv, TypeOK
  <2>2. ClientOK(c)
    BY DEF IInv
  <2> QED BY <1>1, <2>1, <2>2 DEF ClientOK
<1> QED BY <1>1, <1>2, <1>3, QuietStep

LEMMA LoadFirstKeeps ==
  ASSUME IInv, NEW c \in Clients, LoadFirst(c)
  PROVE  IInv'
<1>1. FirstIndex(log) \in Uint64 /\ FirstIndex(log) <= log.first
  <2>1. log \in Logs /\ log.first \in Uint64 /\ log.first \in Nat /\ 0 \in Uint64
    BY Numbers DEF IInv, TypeOK, Logs, Uint64
  <2> QED BY <2>1 DEF FirstIndex
<1>2. log' = log /\ raised' = raised /\ LocalTypes
  BY <1>1 DEF LoadFirst, LocalTypes, IInv, TypeOK, Steps
<1>3. \A d \in Clients \ {c} :
         pc'[d] = pc[d] /\ op'[d] = op[d] /\ agg'[d] = agg[d] /\ head'[d] = head[d] /\ uncut'[d] = uncut[d]
  BY DEF LoadFirst, IInv, TypeOK
<1>4. ClientOK(c)'
  <2>1. /\ pc[c] = "first" /\ pc'[c] = "read" /\ agg'[c] = agg[c] /\ uncut'[c] = uncut[c]
        /\ head'[c] = FirstIndex(log)
    BY DEF LoadFirst, IInv, TypeOK
  <2>2. ClientOK(c)
    BY DEF IInv
  <2> QED BY <1>1, <1>2, <2>1, <2>2 DEF ClientOK
<1> QED BY <1>2, <1>3, <1>4, QuietStep

LEMMA LoadFailsKeeps ==
  ASSUME IInv, NEW c \in Clients, LoadFails(c)
  PROVE  IInv'
<1>1. Return(c, "read") /\ "read" \in Results
  BY DEF LoadFails, Results
<1>2. log' = log /\ raised' = raised /\ agg' = agg /\ uncut' = uncut
  BY DEF LoadFails
<1>3. LocalTypes
  BY <1>1, <1>2, ReturnFacts DEF LocalTypes, IInv, TypeOK, LoadFails
<1>4. ClientOK(c)'
  <2>1. ClientOK(c) /\ pc'[c] = "idle"
    BY <1>1, ReturnFacts DEF IInv
  <2> QED BY <1>2, <2>1 DEF ClientOK
<1> QED BY <1>1, <1>2, <1>3, <1>4, ReturnFacts, QuietStep DEF IInv

LEMMA CallbackFailsKeeps ==
  ASSUME IInv, NEW c \in Clients, CallbackFails(c)
  PROVE  IInv'
<1>1. Return(c, "callback") /\ "callback" \in Results
  BY DEF CallbackFails, Results
<1>2. log' = log /\ raised' = raised /\ agg' = agg /\ uncut' = uncut
  BY DEF CallbackFails
<1>3. LocalTypes
  BY <1>1, <1>2, ReturnFacts DEF LocalTypes, IInv, TypeOK, CallbackFails
<1>4. ClientOK(c)'
  <2>1. ClientOK(c) /\ pc'[c] = "idle"
    BY <1>1, ReturnFacts DEF IInv
  <2> QED BY <1>2, <2>1 DEF ClientOK
<1> QED BY <1>1, <1>2, <1>3, <1>4, ReturnFacts, QuietStep DEF IInv

LEMMA SaveRefusedKeeps ==
  ASSUME IInv, NEW c \in Clients, SaveRefused(c)
  PROVE  IInv'
<1>1. Return(c, "wrong version") /\ "wrong version" \in Results
  BY DEF SaveRefused, Results
<1>2. log' = log /\ raised' = raised /\ agg' = agg /\ uncut' = uncut
  BY DEF SaveRefused
<1>3. LocalTypes
  BY <1>1, <1>2, ReturnFacts DEF LocalTypes, IInv, TypeOK, SaveRefused
<1>4. ClientOK(c)'
  <2>1. ClientOK(c) /\ pc'[c] = "idle"
    BY <1>1, ReturnFacts DEF IInv
  <2> QED BY <1>2, <2>1 DEF ClientOK
<1> QED BY <1>1, <1>2, <1>3, <1>4, ReturnFacts, QuietStep DEF IInv

LEMMA SaveKeeps ==
  ASSUME IInv, NEW c \in Clients, Save(c)
  PROVE  IInv'
<1>1. log' = log /\ raised' = raised /\ agg' = agg /\ uncut' = uncut /\ fresh' = fresh
  BY DEF Save
<1>2. ClientOK(c) /\ pc[c] = "callback"
  BY DEF IInv, Save
<1>3. ASSUME NEW result \in Results, Return(c, result) PROVE IInv'
  <2>1. LocalTypes
    BY <1>1, <1>3, ReturnFacts DEF LocalTypes, IInv, TypeOK
  <2>2. ClientOK(c)'
    <3>1. pc'[c] = "idle"
      BY <1>3, ReturnFacts DEF IInv
    <3> QED BY <1>1, <1>2, <3>1 DEF ClientOK
  <2> QED BY <1>1, <1>3, <2>1, <2>2, ReturnFacts, QuietStep DEF IInv
<1>4. ASSUME ~EventsPanics(agg[c]), Uncommitted(agg[c]) # <<>>,
             pc' = [pc EXCEPT ![c] = "append"], UNCHANGED <<op, head, err>>
      PROVE  IInv'
  <2>1. LocalTypes
    BY <1>1, <1>4 DEF LocalTypes, IInv, TypeOK, Steps
  <2>2. \A d \in Clients \ {c} :
           pc'[d] = pc[d] /\ op'[d] = op[d] /\ agg'[d] = agg[d] /\ head'[d] = head[d] /\ uncut'[d] = uncut[d]
    BY <1>1, <1>4 DEF IInv, TypeOK
  <2>3. ClientOK(c)'
    <3>1. pc'[c] = "append" /\ op'[c] = op[c]
      BY <1>4 DEF IInv, TypeOK
    <3> QED BY <1>1, <1>2, <1>4, <3>1 DEF ClientOK
  <2> QED BY <1>1, <2>1, <2>2, <2>3, QuietStep
<1>5. {"should exist", "panic", "ok"} \subseteq Results
  BY DEF Results
<1> QED BY <1>3, <1>4, <1>5 DEF Save

LEMMA LoadReadKeeps ==
  ASSUME IInv, NEW c \in Clients, LoadRead(c)
  PROVE  IInv'
<1>1. /\ log' = log /\ raised' = raised /\ fresh' = fresh
      /\ uncut' = [uncut EXCEPT ![c] = TRUE] /\ pc[c] = "read"
  BY DEF LoadRead
<1>2. /\ log \in Logs /\ LastIndex(log) <= AllEvents /\ head[c] \in Uint64 /\ raised \in Nat
      /\ agg \in [Clients -> Aggregates] /\ op[c] \in Operations \cup {"none", "save"}
      /\ uncut' \in [Clients -> BOOLEAN] /\ fresh' \in [Clients -> BOOLEAN] /\ uncut'[c] = TRUE
      /\ \A d \in Clients \ {c} : uncut'[d] = uncut[d]
  BY <1>1, Numbers DEF IInv, TypeOK
<1>3. ClientOK(c) /\ agg[c] = NewAggregate /\ head[c] <= log.first
  BY <1>1 DEF IInv, ClientOK
<1>4. Read(log, 0, AllEvents) = log.events
  BY <1>2, ReadAll
<1>5. Loaded(c) = LoadedFrom(head[c], log)
  BY <1>3, <1>4 DEF Loaded, LoadedFrom
<1> DEFINE b == agg'[c]
<1>6. ASSUME agg' \in [Clients -> Aggregates], \A d \in Clients \ {c} : agg'[d] = agg[d],
             Len(b.events) <= AllEvents, Knows(b, log),
             NEW result \in Results, Return(c, result)
      PROVE  IInv'
  <2>1. LocalTypes
    BY <1>2, <1>6, ReturnFacts DEF LocalTypes, IInv
  <2>2. ClientOK(c)'
    <3>1. Len(b.events) \in Nat /\ Len(b.events) <= AllEvents + raised'
      BY <1>1, <1>2, <1>6, AggregateFacts, Numbers
    <3> QED BY <1>1, <1>6, <3>1, ReturnFacts DEF ClientOK, IInv
  <2> QED BY <1>1, <1>2, <1>6, <2>1, <2>2, ReturnFacts, QuietStep DEF IInv
<1>7. ASSUME agg' \in [Clients -> Aggregates], \A d \in Clients \ {c} : agg'[d] = agg[d],
             Len(b.events) <= AllEvents, Knows(b, log), Continue(c),
             op[c] = "create" => b.lastIndex = 0,
             op[c] = "update" => log.events # <<>>
      PROVE  IInv'
  <2>1. pc'[c] = "callback" /\ \A d \in Clients \ {c} : pc'[d] = pc[d]
    BY <1>7 DEF Continue, IInv, TypeOK
  <2>2. LocalTypes
    BY <1>2, <1>7 DEF LocalTypes, Continue, IInv, TypeOK, Steps
  <2>3. ClientOK(c)'
    <3>1. Len(b.events) \in Nat /\ Len(b.events) <= AllEvents + raised'
      BY <1>1, <1>2, <1>7, AggregateFacts, Numbers
    <3>2. op' = op
      BY <1>7 DEF Continue
    <3> QED BY <1>1, <1>7, <2>1, <3>1, <3>2 DEF ClientOK
  <2>4. op' = op /\ head' = head
    BY <1>7 DEF Continue
  <2> QED BY <1>1, <1>2, <1>7, <2>1, <2>2, <2>3, <2>4, QuietStep
<1>8. CASE log.events = <<>>
  <2>1. agg' = agg /\ (IF op[c] \in {"create", "upsert"} THEN Continue(c) ELSE Return(c, "not found"))
    BY <1>4, <1>8 DEF LoadRead
  <2>2. /\ b = NewAggregate /\ Len(b.events) = 0 /\ 0 <= AllEvents /\ b.lastIndex = 0 /\ Knows(b, log)
        /\ agg' \in [Clients -> Aggregates] /\ \A d \in Clients \ {c} : agg'[d] = agg[d]
    <3>1. b = NewAggregate /\ agg' \in [Clients -> Aggregates] /\ \A d \in Clients \ {c} : agg'[d] = agg[d]
      BY <1>2, <1>3, <2>1
    <3>2. 0 <= AllEvents
      BY Numbers
    <3> HIDE DEF b
    <3> QED BY <1>2, <3>1, <3>2, NewAggregateFacts
  <2>3. "not found" \in Results
    BY DEF Results
  <2> HIDE DEF b
  <2> QED BY <1>6, <1>7, <2>1, <2>2, <2>3
<1>9. CASE log.events # <<>>
  <2>1. /\ agg' = [agg EXCEPT ![c] = Loaded(c)]
        /\ IF Admits(op[c], Loaded(c)) = "ok"
           THEN Continue(c) ELSE Return(c, Admits(op[c], Loaded(c)))
    BY <1>4, <1>9 DEF LoadRead
  <2>2. /\ Loaded(c) \in Aggregates /\ Len(Loaded(c).events) <= AllEvents
        /\ Loaded(c).lastIndex = Version(Loaded(c)) /\ Knows(Loaded(c), log)
    BY <1>2, <1>3, <1>5, <1>9, LoadedFacts
  <2>3. /\ b = Loaded(c) /\ agg' \in [Clients -> Aggregates]
        /\ \A d \in Clients \ {c} : agg'[d] = agg[d]
    BY <1>2, <2>1, <2>2
  <2>4. Admits(op[c], Loaded(c)) \in {"ok", "should exist", "should not exist"}
    BY DEF Admits
  <2>5. {"ok", "should exist", "should not exist"} \subseteq Results
    BY DEF Results
  <2>6. Admits(op[c], Loaded(c)) = "ok" /\ op[c] = "create" => b.lastIndex = 0
    BY <2>2, <2>3 DEF Admits, NotExists
  <2> HIDE DEF b
  <2> QED BY <1>6, <1>7, <1>9, <2>1, <2>2, <2>3, <2>4, <2>5, <2>6
<1> QED BY <1>8, <1>9

LEMMA IdsInRange ==
  ASSUME TypeOK, NEW n \in Nat, raised + n <= MaxEvents
  PROVE  /\ Ids(n) \in Seq(1 .. MaxEvents) /\ Len(Ids(n)) = n
         /\ raised \in Nat /\ raised + n \in 0 .. MaxEvents /\ raised + n >= raised
<1>1. raised \in Nat
  BY Numbers DEF TypeOK
<1> QED BY <1>1, Numbers DEF Ids

LEMMA RaiseKeeps ==
  ASSUME IInv, NEW c \in Clients, NEW n \in 1 .. MaxRaise, Raise(c, n)
  PROVE  IInv'
<1>1. /\ log' = log /\ pc' = pc /\ op' = op /\ head' = head /\ err' = err /\ uncut' = uncut /\ fresh' = fresh
      /\ raised' = raised + n /\ raised + n <= MaxEvents /\ pc[c] = "callback"
      /\ agg' = [agg EXCEPT ![c] = RaiseOn(agg[c], Ids(n))]
  BY DEF Raise
<1>2. n \in Nat
  BY Numbers
<1>3. /\ Ids(n) \in Seq(1 .. MaxEvents) /\ Len(Ids(n)) = n
      /\ raised \in Nat /\ raised' \in 0 .. MaxEvents /\ raised' >= raised
  BY <1>1, <1>2, IdsInRange DEF IInv
<1> DEFINE a == agg[c]
           b == RaiseOn(a, Ids(n))
<1>4. ClientOK(c) /\ a \in Aggregates /\ Len(a.events) \in Nat /\ Len(a.events) <= AllEvents + raised
  <2>1. ClientOK(c) /\ a \in Aggregates
    BY DEF IInv, TypeOK
  <2> QED BY <2>1, AggregateFacts DEF ClientOK
<1>5. Len(a.events) + Len(Ids(n)) <= AllEvents + MaxEvents
  BY <1>1, <1>2, <1>3, <1>4, Numbers
<1>6. /\ b \in Aggregates /\ b.firstIndex = a.firstIndex /\ b.lastIndex = a.lastIndex
      /\ Len(b.events) = Len(a.events) + n
      /\ \A i \in 1 .. Len(a.events) : b.events[i] = a.events[i]
  BY <1>3, <1>4, <1>5, RaiseFacts
<1>7. agg'[c] = b /\ agg' \in [Clients -> Aggregates] /\ \A d \in Clients \ {c} : agg'[d] = agg[d]
  BY <1>1, <1>6 DEF IInv, TypeOK
<1> HIDE DEF b, a
<1>8. StreamStep
  <2>1. log \in Logs /\ LastIndex(log) <= AllEvents /\ log' = log
    BY <1>1 DEF IInv, TypeOK
  <2> QED BY <1>3, <2>1 DEF StreamStep, LogStep
<1>9. OthersStay(c)
  <2>1. LastIndex(log') >= LastIndex(log)
    <3>1. LastIndex(log) \in Nat
      BY LogFacts DEF IInv, TypeOK
    <3> QED BY <1>1, <3>1
  <2> QED BY <1>1, <1>7, <2>1 DEF OthersStay
<1>10. LocalTypes
  BY <1>1, <1>7 DEF LocalTypes, IInv, TypeOK
<1>11. ClientOK(c)'
  <2>1. Len(b.events) <= AllEvents + raised'
    BY <1>1, <1>2, <1>3, <1>4, <1>6, Numbers
  <2>2. Knows(a, log) => Knows(b, log)
    <3>1. log \in Logs /\ Len(b.events) >= Len(a.events)
      BY <1>2, <1>4, <1>6 DEF IInv, TypeOK
    <3> QED BY <1>4, <1>6, <3>1, KnowsAfterChange
  <2> QED BY <1>1, <1>4, <1>6, <1>7, <2>1, <2>2 DEF ClientOK, a
<1> QED BY <1>8, <1>9, <1>10, <1>11, StepKeeps

LEMMA ChangedFacts ==
  ASSUME TypeOK, NEW savers, Changed(savers)
  PROVE  /\ uncut' \in [Clients -> BOOLEAN] /\ fresh' \in [Clients -> BOOLEAN]
         /\ \A d \in Clients : uncut'[d] => uncut[d] /\ LastIndex(log') >= LastIndex(log)
  BY DEF Changed, TypeOK

(* An append of a batch that fits. *)
LEMMA AppendStep ==
  ASSUME IInv, NEW ids \in Seq(1 .. MaxEvents), HasRoom(Len(ids)), log' = AppendTo(log, ids)
  PROVE  /\ LogStep /\ LastIndex(log') <= AllEvents /\ log' \in Logs
         /\ LastIndex(log) \in Nat /\ LastIndex(log') = LastIndex(log) + Len(ids)
         /\ \A a \in Aggregates : Knows(a, log) => Knows(a, log')
<1>1. log \in Logs /\ LastIndex(log) \in Nat
  BY LogFacts DEF IInv, TypeOK
<1>2. log' \in Logs /\ LastIndex(log') = LastIndex(log) + Len(ids)
  BY <1>1, AppendFacts
<1> QED BY <1>1, <1>2, KnowsAfterAppend DEF LogStep, HasRoom

(* Events that were numbered and not committed. *)
LEMMA StampedKeeps ==
  ASSUME IInv, NEW c \in Clients, ClientOK(c), pc[c] = "append",
         NEW n \in 0 .. Len(Uncommitted(agg[c]))
  PROVE  LET b == Stamps(agg[c], log, n)
         IN  /\ b \in Aggregates /\ Len(b.events) = Len(agg[c].events)
             /\ Knows(agg[c], log) => Knows(b, log)
             /\ Len(agg[c].events) \in Nat /\ Len(agg[c].events) <= AllEvents + raised
             /\ Len(agg[c].events) \in Uint64
<1> DEFINE a == agg[c]
           b == Stamps(a, log, n)
<1>1. /\ a \in Aggregates /\ log \in Logs /\ LastIndex(log) <= AllEvents /\ ~EventsPanics(a)
      /\ Len(a.events) <= AllEvents + raised /\ raised \in Nat /\ raised <= MaxEvents
  BY Numbers DEF IInv, TypeOK, ClientOK
<1> HIDE DEF a
<1>2. Len(a.events) \in Nat /\ Committed(a) \in Nat /\ Committed(a) <= Len(a.events)
  BY <1>1, AggregateFacts DEF EventsPanics
<1>3. Len(Uncommitted(a)) = Len(a.events) - Committed(a)
  BY <1>1, UncommittedFacts
<1>4. n \in 0 .. Len(a.events) - Committed(a)
  BY <1>3 DEF a
<1>5. Len(a.events) <= AllEvents + MaxEvents
  BY <1>1, <1>2, Numbers
<1>6. Len(a.events) \in Uint64
  BY <1>2, <1>5, Numbers DEF Uint64
<1>7. /\ b \in Aggregates /\ b.firstIndex = a.firstIndex /\ b.lastIndex = a.lastIndex
      /\ Len(b.events) = Len(a.events)
      /\ \A i \in 1 .. Committed(a) : b.events[i] = a.events[i]
  BY <1>1, <1>4, <1>5, StampsFacts
<1> HIDE DEF b
<1>8. /\ Len(b.events) >= Len(a.events)
      /\ \A i \in 1 .. Len(a.events) : i <= Committed(a) => b.events[i] = a.events[i]
  BY <1>2, <1>7
<1>9. Knows(a, log) => Knows(b, log)
  BY <1>1, <1>7, <1>8, KnowsAfterChange
<1> QED BY <1>1, <1>2, <1>6, <1>7, <1>9 DEF a, b

LEMMA SaveMarshalFailsKeeps ==
  ASSUME IInv, NEW c \in Clients, NEW n \in 0 .. MaxEvents, SaveMarshalFails(c, n)
  PROVE  IInv'
<1>1. /\ log' = log /\ raised' = raised /\ uncut' = uncut /\ fresh' = fresh
      /\ agg' = [agg EXCEPT ![c] = Stamps(agg[c], log, n)]
      /\ pc[c] = "append" /\ n < Len(Uncommitted(agg[c])) /\ Return(c, "marshal")
  BY DEF SaveMarshalFails
<1>2. ClientOK(c) /\ "marshal" \in Results
  BY DEF IInv, Results
<1>3. n \in 0 .. Len(Uncommitted(agg[c]))
  <2>1. agg[c] \in Aggregates /\ ~EventsPanics(agg[c])
    BY <1>1, <1>2 DEF IInv, TypeOK, ClientOK
  <2>2. Len(Uncommitted(agg[c])) \in Nat
    BY <2>1, UncommittedFacts, AsFunction
  <2> QED BY <1>1, <2>2, Numbers
<1> DEFINE b == Stamps(agg[c], log, n)
<1>4. /\ b \in Aggregates /\ Len(b.events) = Len(agg[c].events)
      /\ Knows(agg[c], log) => Knows(b, log)
  BY <1>1, <1>2, <1>3, StampedKeeps
<1>5. agg' \in [Clients -> Aggregates] /\ agg'[c] = b /\ \A d \in Clients \ {c} : agg'[d] = agg[d]
  BY <1>1, <1>4 DEF IInv, TypeOK
<1> HIDE DEF b
<1>6. LocalTypes
  BY <1>1, <1>2, <1>5, ReturnFacts DEF LocalTypes, IInv, TypeOK
<1>7. ClientOK(c)'
  <2>1. pc'[c] = "idle"
    BY <1>1, <1>2, ReturnFacts DEF IInv
  <2> QED BY <1>1, <1>2, <1>4, <1>5, <2>1 DEF ClientOK
<1>8. \A d \in Clients \ {c} : pc'[d] = pc[d] /\ op'[d] = op[d] /\ head'[d] = head[d] /\ uncut'[d] = uncut[d]
  BY <1>1, <1>2, ReturnFacts DEF IInv
<1> QED BY <1>1, <1>5, <1>6, <1>7, <1>8, QuietStep

LEMMA SaveWriteFailsKeeps ==
  ASSUME IInv, NEW c \in Clients, NEW n \in 0 .. MaxEvents, SaveWriteFails(c, n)
  PROVE  IInv'
<1> DEFINE batch == Uncommitted(agg[c])
           part  == SubSeq(batch, 1, n)
<1>1. /\ raised' = raised /\ Changed({})
      /\ log' = AppendTo(log, IdsOf(part)) /\ HasRoom(n)
      /\ agg' = [agg EXCEPT ![c] = Stamps(agg[c], log, Len(batch))]
      /\ pc[c] = "append" /\ n <= Len(batch) /\ Return(c, "write")
  BY DEF SaveWriteFails
<1>2. ClientOK(c) /\ "write" \in Results /\ raised' \in 0 .. MaxEvents /\ raised' >= raised
  <2>1. raised \in 0 .. MaxEvents /\ raised \in Nat
    BY Numbers DEF IInv, TypeOK
  <2>2. raised' = raised
    BY <1>1
  <2> QED BY <2>1, <2>2 DEF IInv, Results
<1>3. batch \in Seq(Entries) /\ Len(batch) \in Nat
  <2>1. agg[c] \in Aggregates /\ ~EventsPanics(agg[c])
    BY <1>1, <1>2 DEF IInv, TypeOK, ClientOK
  <2> QED BY <2>1, UncommittedFacts, AsFunction
<1> DEFINE b == Stamps(agg[c], log, Len(batch))
<1> HIDE DEF batch
<1>4. /\ b \in Aggregates /\ Len(b.events) = Len(agg[c].events)
      /\ Knows(agg[c], log) => Knows(b, log)
  <2>1. Len(batch) \in 0 .. Len(Uncommitted(agg[c]))
    BY <1>3 DEF batch
  <2> QED BY <1>1, <1>2, <2>1, StampedKeeps
<1>5. IdsOf(part) \in Seq(1 .. MaxEvents) /\ Len(IdsOf(part)) = n
  <2>1. \A i \in 1 .. n : batch[i] \in Entries
    <3>1. \A i \in 1 .. Len(batch) : batch[i] \in Entries
      BY <1>3, AsFunction
    <3>2. n \in Nat
      BY Numbers
    <3> QED BY <1>1, <1>3, <3>1, <3>2
  <2>2. part \in Seq(Entries) /\ Len(part) = n
    <3>1. n \in Nat /\ (1 <= n => n - 1 + 1 = n) /\ (~(1 <= n) => n = 0)
      BY Numbers
    <3> QED BY <2>1, <3>1, SubSeqProperties
  <2> QED BY <2>2, IdsFacts
<1> HIDE DEF b, part
<1>6. /\ LogStep /\ LastIndex(log') <= AllEvents
      /\ \A a \in Aggregates : Knows(a, log) => Knows(a, log')
  BY <1>1, <1>5, AppendStep
<1>7. StreamStep
  BY <1>2, <1>6 DEF StreamStep
<1>8. agg' \in [Clients -> Aggregates] /\ agg'[c] = b /\ \A d \in Clients \ {c} : agg'[d] = agg[d]
  BY <1>1, <1>4 DEF IInv, TypeOK, b
<1>9. /\ uncut' \in [Clients -> BOOLEAN] /\ fresh' \in [Clients -> BOOLEAN]
      /\ \A d \in Clients : uncut'[d] => uncut[d] /\ LastIndex(log') >= LastIndex(log)
  BY <1>1, ChangedFacts DEF IInv
<1>10. LocalTypes
  BY <1>1, <1>2, <1>8, <1>9, ReturnFacts DEF LocalTypes, IInv
<1>11. ClientOK(c)'
  <2>1. pc'[c] = "idle"
    BY <1>1, <1>2, ReturnFacts DEF IInv
  <2> QED BY <1>1, <1>2, <1>4, <1>6, <1>8, <1>9, <2>1 DEF ClientOK
<1>12. OthersStay(c)
  BY <1>1, <1>2, <1>8, <1>9, ReturnFacts DEF OthersStay, IInv
<1> QED BY <1>7, <1>10, <1>11, <1>12, StepKeeps

LEMMA SaveAppendsKeeps ==
  ASSUME IInv, NEW c \in Clients, SaveAppends(c)
  PROVE  IInv'
<1> DEFINE a     == agg[c]
           batch == Uncommitted(a)
           s     == Stamps(a, log, Len(batch))
           b     == Commit(s)
<1>1. /\ raised' = raised /\ Changed(IF a.firstIndex = 0 THEN {c} ELSE {})
      /\ log' = AppendTo(log, IdsOf(batch)) /\ HasRoom(Len(batch))
      /\ agg' = [agg EXCEPT ![c] = b]
      /\ pc[c] = "append" /\ Return(c, "ok") /\ VersionOK(log, a.lastIndex)
  BY DEF SaveAppends, StreamVersion
<1>2. ClientOK(c) /\ "ok" \in Results /\ raised' \in 0 .. MaxEvents /\ raised' >= raised
  <2>1. raised \in 0 .. MaxEvents /\ raised \in Nat
    BY Numbers DEF IInv, TypeOK
  <2>2. raised' = raised
    BY <1>1
  <2> QED BY <2>1, <2>2 DEF IInv, Results
<1>3. /\ a \in Aggregates /\ ~EventsPanics(a) /\ log \in Logs /\ LastIndex(log) <= AllEvents
      /\ LastIndex(log) \in Nat
  BY <1>1, <1>2, LogFacts DEF IInv, TypeOK, ClientOK
<1>4. batch \in Seq(Entries) /\ Len(batch) \in Nat
  BY <1>3, UncommittedFacts, AsFunction
<1>5. /\ s \in Aggregates /\ Len(s.events) = Len(a.events)
      /\ Len(a.events) <= AllEvents + raised /\ Len(a.events) \in Uint64
  <2>1. Len(batch) \in 0 .. Len(Uncommitted(agg[c]))
    BY <1>4
  <2> QED BY <1>1, <1>2, <2>1, StampedKeeps
<1>6. IdsOf(batch) \in Seq(1 .. MaxEvents) /\ Len(IdsOf(batch)) = Len(batch)
  BY <1>4, IdsFacts
<1>7. uncut[c] => Knows(b, log')
  <2> SUFFICES ASSUME uncut[c] PROVE Knows(b, log')
    OBVIOUS
  <2>1. Knows(a, log)
    BY <1>2 DEF ClientOK
  <2>2. a.lastIndex <= LastIndex(log)
    BY <1>3, <2>1, AggregateFacts DEF Knows, Tracks, Behind
  <2>3. a.lastIndex = LastIndex(log)
    BY <1>1, <1>3, <2>2, AggregateFacts, Numbers DEF VersionOK
  <2>4. Tracks(a, log)
    BY <1>3, <2>1, <2>3 DEF Knows, Behind
  <2>5. LastIndex(log) + Len(batch) <= AllEvents
    BY <1>1 DEF HasRoom
  <2>6. Knows(b, AppendTo(log, IdsOf(batch)))
    BY <1>3, <2>3, <2>4, <2>5, SavedFacts
  <2> QED BY <1>1, <2>6
<1> HIDE DEF s, batch
<1>8. b \in Aggregates /\ Len(b.events) = Len(a.events)
  BY <1>5 DEF Commit, Aggregates
<1> HIDE DEF b
<1>9. agg' \in [Clients -> Aggregates] /\ agg'[c] = b /\ \A d \in Clients \ {c} : agg'[d] = agg[d]
  BY <1>1, <1>8 DEF IInv, TypeOK
<1>10. LogStep /\ LastIndex(log') <= AllEvents
  BY <1>1, <1>6, AppendStep
<1>11. StreamStep
  BY <1>2, <1>10 DEF StreamStep
<1>12. /\ uncut' \in [Clients -> BOOLEAN] /\ fresh' \in [Clients -> BOOLEAN]
       /\ \A d \in Clients : uncut'[d] => uncut[d] /\ LastIndex(log') >= LastIndex(log)
  BY <1>1, ChangedFacts DEF IInv
<1>13. LocalTypes
  BY <1>1, <1>2, <1>9, <1>12, ReturnFacts DEF LocalTypes, IInv
<1>14. ClientOK(c)'
  <2>1. pc'[c] = "idle"
    BY <1>1, <1>2, ReturnFacts DEF IInv
  <2> QED BY <1>1, <1>5, <1>7, <1>8, <1>9, <1>12, <2>1 DEF ClientOK
<1>15. OthersStay(c)
  BY <1>1, <1>2, <1>9, <1>12, ReturnFacts DEF OthersStay, IInv
<1> QED BY <1>11, <1>13, <1>14, <1>15, StepKeeps

LEMMA AppendBlindlyKeeps ==
  ASSUME IInv, NEW c \in Clients, NEW n \in 1 .. MaxRaise, NEW k \in 0 .. n, AppendBlindly(c, n, k)
  PROVE  IInv'
<1> DEFINE part == SubSeq(Ids(n), 1, k)
<1>1. /\ pc[c] = "idle" /\ raised + n <= MaxEvents /\ HasRoom(n) /\ raised' = raised + n
      /\ log' = AppendTo(log, part) /\ Changed({}) /\ agg' = agg
      /\ Return(c, "ok") \/ Return(c, "write")
  BY DEF AppendBlindly
<1>2. n \in Nat /\ k \in Nat /\ k <= n
  BY Numbers
<1>3. /\ Ids(n) \in Seq(1 .. MaxEvents) /\ Len(Ids(n)) = n
      /\ raised \in Nat /\ raised' \in 0 .. MaxEvents /\ raised' >= raised
  BY <1>1, <1>2, IdsInRange DEF IInv
<1>4. PICK result \in Results : Return(c, result)
  BY <1>1 DEF Results
<1>5. part \in Seq(1 .. MaxEvents) /\ Len(part) = k
  <2> DEFINE ids == Ids(n)
  <2>1. \A i \in 1 .. k : ids[i] \in 1 .. MaxEvents
    <3>1. \A i \in 1 .. n : ids[i] \in 1 .. MaxEvents
      BY <1>3, AsFunction
    <3> QED BY <1>2, <3>1
  <2>2. (1 <= k => k - 1 + 1 = k) /\ (~(1 <= k) => k = 0)
    BY <1>2
  <2> HIDE DEF ids
  <2>3. SubSeq(ids, 1, k) \in Seq(1 .. MaxEvents) /\ Len(SubSeq(ids, 1, k)) = k
    BY <1>2, <2>1, <2>2, SubSeqProperties
  <2> QED BY <2>3 DEF ids
<1> HIDE DEF part
<1>6. HasRoom(Len(part))
  <2>1. LastIndex(log) \in Nat
    BY LogFacts DEF IInv, TypeOK
  <2> QED BY <1>1, <1>2, <1>5, <2>1, Numbers DEF HasRoom
<1>7. /\ LogStep /\ LastIndex(log') <= AllEvents
      /\ \A a \in Aggregates : Knows(a, log) => Knows(a, log')
  BY <1>1, <1>5, <1>6, AppendStep
<1>8. StreamStep
  BY <1>3, <1>7 DEF StreamStep
<1>9. /\ uncut' \in [Clients -> BOOLEAN] /\ fresh' \in [Clients -> BOOLEAN]
      /\ \A d \in Clients : uncut'[d] => uncut[d] /\ LastIndex(log') >= LastIndex(log)
  BY <1>1, ChangedFacts DEF IInv
<1>10. agg \in [Clients -> Aggregates] /\ ClientOK(c)
  BY DEF IInv, TypeOK
<1>11. LocalTypes
  BY <1>1, <1>4, <1>9, <1>10, ReturnFacts DEF LocalTypes, IInv
<1>12. ClientOK(c)'
  <2>1. pc'[c] = "idle" /\ agg[c] \in Aggregates /\ Len(agg[c].events) \in Nat
    BY <1>4, <1>10, ReturnFacts, AggregateFacts DEF IInv
  <2>2. Len(agg[c].events) <= AllEvents + raised'
    <3>1. Len(agg[c].events) <= AllEvents + raised
      BY <1>10 DEF ClientOK
    <3>2. AllEvents \in Nat /\ raised \in Nat /\ raised' \in Nat /\ raised' >= raised
      BY <1>1, <1>2, <1>3, Numbers
    <3> QED BY <2>1, <3>1, <3>2
  <2> QED BY <1>1, <1>7, <1>9, <1>10, <2>1, <2>2 DEF ClientOK
<1>13. OthersStay(c)
  BY <1>1, <1>4, <1>9, ReturnFacts DEF OthersStay, IInv
<1> QED BY <1>8, <1>11, <1>12, <1>13, StepKeeps

LEMMA TruncateStreamKeeps ==
  ASSUME IInv, NEW c \in Clients, NEW index \in Indexes, TruncateStream(c, index)
  PROVE  IInv'
<1>1. /\ pc[c] = "idle" /\ raised' = raised /\ agg' = agg /\ Changed({})
      /\ Return(c, "no driver") \/ Return(c, "out of range")
      /\ log' = log \/ (CanTruncate(log, index) /\ log' = Truncate(log, index))
  BY DEF TruncateStream
<1>2. PICK result \in Results : Return(c, result)
  BY <1>1 DEF Results
<1>3. index \in Int
  BY InputsAssumption
<1>4. log \in Logs /\ LastIndex(log) \in Nat /\ LastIndex(log) <= AllEvents
  BY LogFacts DEF IInv, TypeOK
<1>5. LogStep /\ LastIndex(log') <= AllEvents
  <2>1. CASE log' = log
    BY <1>4, <2>1 DEF LogStep
  <2>2. CASE CanTruncate(log, index) /\ log' = Truncate(log, index)
    <3>1. log' \in Logs /\ LastIndex(log') <= LastIndex(log)
      BY <1>3, <1>4, <2>2, TruncateFacts
    <3>2. LastIndex(log') \in Nat
      BY <3>1, LogFacts
    <3> QED BY <1>3, <1>4, <2>2, <3>1, <3>2, Numbers DEF LogStep
  <2> QED BY <1>1, <2>1, <2>2
<1>6. StreamStep
  <2>1. raised \in 0 .. MaxEvents /\ raised \in Nat /\ raised' = raised
    <3>1. raised \in 0 .. MaxEvents
      BY DEF IInv, TypeOK
    <3>2. raised' = raised
      BY <1>1
    <3> QED BY <3>1, <3>2
  <2> QED BY <1>5, <2>1 DEF StreamStep
<1>7. /\ uncut' \in [Clients -> BOOLEAN] /\ fresh' \in [Clients -> BOOLEAN]
      /\ \A d \in Clients : uncut'[d] => uncut[d] /\ LastIndex(log') >= LastIndex(log)
  BY <1>1, ChangedFacts DEF IInv
<1>8. agg \in [Clients -> Aggregates] /\ ClientOK(c)
  BY DEF IInv, TypeOK
<1>9. LocalTypes
  BY <1>1, <1>2, <1>7, <1>8, ReturnFacts DEF LocalTypes, IInv
<1>10. ClientOK(c)'
  <2>1. pc'[c] = "idle" /\ agg[c] \in Aggregates
    BY <1>2, <1>8, ReturnFacts DEF IInv
  <2>2. uncut'[c] => Knows(agg[c], log')
    <3>1. \A a \in Aggregates :
            Knows(a, log) /\ LastIndex(log') >= LastIndex(log) => Knows(a, log')
      BY <1>5, LogStepFacts
    <3> QED BY <1>7, <1>8, <2>1, <3>1 DEF ClientOK
  <2> QED BY <1>1, <1>8, <2>1, <2>2 DEF ClientOK
<1>11. OthersStay(c)
  BY <1>1, <1>2, <1>7, ReturnFacts DEF OthersStay, IInv
<1> QED BY <1>6, <1>9, <1>10, <1>11, StepKeeps

LEMMA NextIInv == IInv /\ [Next]_vars => IInv'
<1> SUFFICES ASSUME IInv, [Next]_vars PROVE IInv'
  OBVIOUS
<1>1. CASE UNCHANGED vars
  BY <1>1 DEF vars, IInv, TypeOK, ClientOK
<1>2. ASSUME Next PROVE IInv'
  <2>1. PICK c \in Clients :
          \/ \E o \in Operations : Begin(c, o)
          \/ Resume(c)
          \/ LoadFirst(c)
          \/ LoadRead(c)
          \/ LoadFails(c)
          \/ \E n \in 1 .. MaxRaise : Raise(c, n)
          \/ \E n \in 1 .. MaxRaise : \E k \in 0 .. n : AppendBlindly(c, n, k)
          \/ CallbackFails(c)
          \/ Save(c)
          \/ SaveAppends(c)
          \/ SaveRefused(c)
          \/ \E n \in 0 .. MaxEvents : SaveMarshalFails(c, n) \/ SaveWriteFails(c, n)
          \/ \E index \in Indexes : TruncateStream(c, index)
    BY <1>2 DEF Next
  <2> QED BY <2>1, BeginKeeps, ResumeKeeps, LoadFirstKeeps, LoadReadKeeps, LoadFailsKeeps,
             RaiseKeeps, AppendBlindlyKeeps, CallbackFailsKeeps, SaveKeeps, SaveAppendsKeeps,
             SaveRefusedKeeps, SaveMarshalFailsKeeps, SaveWriteFailsKeeps, TruncateStreamKeeps
<1> QED BY <1>1, <1>2

LEMMA Invariance == Spec => []IInv
  BY InitIInv, NextIInv, PTL DEF Spec

-----------------------------------------------------------------------------
(* The stream, the aggregates and everything else keep their types: no     *)
(* position overflows, and a stream that was written is never empty again. *)
THEOREM TypeCorrect == Spec => []TypeOK
<1>1. IInv => TypeOK
  BY DEF IInv
<1> QED BY Invariance, <1>1, PTL

(* An aggregate tracks the stream or is behind it, whatever the clients do *)
(* between the two halves of Load and before the Append (Load, Save).      *)
THEOREM TracksOrBehindCorrect == Spec => []TracksOrBehind
<1>1. IInv => TracksOrBehind
  BY DEF IInv, ClientOK, Knows, TracksOrBehind
<1> QED BY Invariance, <1>1, PTL

(* Only one action ends a Save well. *)
LEMMA SavesIsSaveAppends ==
  ASSUME IInv, [Next]_vars, NEW c \in Clients, Saves(c)
  PROVE  SaveAppends(c)
<1>1. pc[c] = "append" /\ pc'[c] = "idle" /\ err'[c] = "ok"
  BY DEF Saves
<1>2. pc \in [Clients -> Steps] /\ err \in [Clients -> Results] /\ op \in [Clients -> Operations \cup {"none", "save"}]
  BY DEF IInv, TypeOK
<1>3. Next
  BY <1>1 DEF vars
<1>4. PICK d \in Clients :
        \/ \E o \in Operations : Begin(d, o)
        \/ Resume(d)
        \/ LoadFirst(d)
        \/ LoadRead(d)
        \/ LoadFails(d)
        \/ \E n \in 1 .. MaxRaise : Raise(d, n)
        \/ \E n \in 1 .. MaxRaise : \E k \in 0 .. n : AppendBlindly(d, n, k)
        \/ CallbackFails(d)
        \/ Save(d)
        \/ SaveAppends(d)
        \/ SaveRefused(d)
        \/ \E n \in 0 .. MaxEvents : SaveMarshalFails(d, n) \/ SaveWriteFails(d, n)
        \/ \E index \in Indexes : TruncateStream(d, index)
  BY <1>3 DEF Next
<1>5. CASE d # c
  <2>1. ASSUME NEW e \in {"idle", "first", "read", "callback", "append"}, pc' = [pc EXCEPT ![d] = e]
        PROVE  FALSE
    BY <1>1, <1>2, <1>5, <2>1
  <2>2. ASSUME NEW result, Return(d, result) PROVE FALSE
    BY <2>1, <2>2 DEF Return
  <2>3. ~Continue(d)
    BY <2>1 DEF Continue
  <2>4. pc' # pc
    BY <1>1
  <2> QED BY <1>4, <2>1, <2>2, <2>3, <2>4
          DEF Begin, Resume, LoadFirst, LoadRead, LoadFails, Raise, AppendBlindly, CallbackFails,
              Save, SaveAppends, SaveRefused, SaveMarshalFails, SaveWriteFails, TruncateStream
<1>6. CASE d = c
  <2>1. ~\E result \in {"wrong version", "marshal", "write"} : Return(c, result)
    BY <1>1, <1>2 DEF Return
  <2> QED BY <1>1, <1>4, <1>6, <2>1
          DEF Begin, Resume, LoadFirst, LoadRead, LoadFails, Raise, AppendBlindly, CallbackFails,
              Save, SaveRefused, SaveMarshalFails, SaveWriteFails, TruncateStream
<1> QED BY <1>5, <1>6

(* Who appends at an uncut stream tracks it, to its end. *)
LEMMA SavesAtTheEnd ==
  ASSUME IInv, NEW c \in Clients, SaveAppends(c), uncut[c]
  PROVE  Tracks(agg[c], log) /\ agg[c].lastIndex = LastIndex(log)
<1> DEFINE a == agg[c]
<1>1. a \in Aggregates /\ log \in Logs /\ LastIndex(log) \in Nat /\ LastIndex(log) <= AllEvents /\ Knows(a, log)
  BY LogFacts DEF IInv, TypeOK, ClientOK
<1>2. VersionOK(log, a.lastIndex)
  BY DEF SaveAppends, StreamVersion
<1> HIDE DEF a
<1>3. a.lastIndex <= LastIndex(log)
  BY <1>1, AggregateFacts DEF Knows, Tracks, Behind
<1>4. a.lastIndex = LastIndex(log)
  BY <1>1, <1>2, <1>3, AggregateFacts, Numbers DEF VersionOK
<1>5. Tracks(a, log)
  BY <1>1, <1>4 DEF Knows, Behind
<1> QED BY <1>4, <1>5 DEF a

(* No lost update: whoever saves an aggregate has seen all events of the   *)
(* stream, unless the stream was cut back meanwhile (Load, Save,           *)
(* eventLog.Append).                                                       *)
THEOREM NoLostUpdateCorrect == Spec => NoLostUpdate
<1>1. ASSUME IInv, [Next]_vars, NEW c \in Clients, SavesUncut(c)
      PROVE  SawAll(agg[c], log)
  <2> DEFINE a == agg[c]
  <2>1. SaveAppends(c) /\ uncut[c]
    BY <1>1, SavesIsSaveAppends DEF SavesUncut
  <2>2. Tracks(a, log) /\ a.lastIndex = LastIndex(log)
    BY <1>1, <2>1, SavesAtTheEnd
  <2>3. /\ a.firstIndex \in Nat /\ Len(a.events) \in Nat /\ log.first \in Nat /\ LastIndex(log) \in Nat
    BY <1>1, AggregateFacts, LogFacts DEF IInv, TypeOK
  <2> HIDE DEF a
  <2>4. ASSUME NEW p \in log.first .. LastIndex(log)
        PROVE  p - a.firstIndex \in 1 .. Len(a.events) /\ a.events[p - a.firstIndex].id = EventAt(log, p)
    <3>1. p - a.firstIndex \in 1 .. Len(a.events)
      BY <2>2, <2>3 DEF Tracks
    <3>2. a.events[p - a.firstIndex] = [id |-> EventAt(log, p), pos |-> p]
      BY <2>2 DEF Tracks
    <3> QED BY <3>1, <3>2
  <2> QED BY <2>4 DEF SawAll, a
<1>2. IInv /\ [Next]_vars => [\A c \in Clients : SavesUncut(c) => SawAll(agg[c], log)]_vars
  BY <1>1
<1> QED BY Invariance, <1>2, PTL DEF Spec, NoLostUpdate

(* A creator finds the stream never written, an updater finds events in it *)
(* (Create, Update, NotExists, eventLog.Append).                           *)
THEOREM CreateOnceCorrect == Spec => CreateOnce
<1>1. ASSUME IInv, [Next]_vars, NEW c \in Clients, Saves(c)
      PROVE  (op[c] = "create" => log = EmptyLog) /\ (op[c] = "update" => log # EmptyLog)
  <2>1. SaveAppends(c) /\ pc[c] = "append" /\ ClientOK(c)
    BY <1>1, SavesIsSaveAppends DEF IInv, Saves
  <2>2. ASSUME op[c] = "create" PROVE log = EmptyLog
    <3>1. agg[c].lastIndex = 0 /\ VersionOK(log, agg[c].lastIndex)
      BY <2>1, <2>2 DEF ClientOK, SaveAppends, StreamVersion
    <3>2. LastIndex(log) = 0
      BY <3>1, Numbers DEF VersionOK
    <3>3. log \in Logs /\ log.first \in Nat /\ log.first > 0 /\ Len(log.events) \in Nat
          /\ LastIndex(log) = log.first + Len(log.events) - 1
      BY <1>1, LogFacts DEF IInv, TypeOK
    <3>4. log.first = 1 /\ Len(log.events) = 0
      BY <3>2, <3>3
    <3>5. log.events = <<>> /\ log = [first |-> log.first, events |-> log.events]
      BY <3>3, <3>4, LogFacts
    <3> QED BY <3>4, <3>5 DEF EmptyLog
  <2>3. op[c] = "update" => log # EmptyLog
    BY <2>1 DEF ClientOK, EmptyLog
  <2> QED BY <2>2, <2>3
<1>2. IInv /\ [Next]_vars =>
        [\A c \in Clients : Saves(c) =>
            /\ op[c] = "create" => log = EmptyLog
            /\ op[c] = "update" => log # EmptyLog]_vars
  BY <1>1
<1> QED BY Invariance, <1>2, PTL DEF Spec, CreateOnce
=============================================================================
