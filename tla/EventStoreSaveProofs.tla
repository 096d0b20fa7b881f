------------------------ MODULE EventStoreSaveProofs ------------------------
(***************************************************************************)
(* What EventStore may save is new to the stream, and what it refuses to   *)
(* save was overtaken by a change of the stream: SavableIsNew and          *)
(* RefusedOnlyOnChange, for every set of clients, every width of the       *)
(* words, every bound and any faults and truncations.                      *)
(***************************************************************************)
EXTENDS EventStoreProofs

(* The events of the stream, those an aggregate holds, and those of them   *)
(* it takes for uncommitted.                                               *)
LogIds(l)  == {l.events[p] : p \in 1 .. Len(l.events)}
AggIds(a)  == {a.events[i].id : i \in 1 .. Len(a.events)}
Pending(a) == {a.events[i].id : i \in Committed(a) + 1 .. Len(a.events)}

(* Ids are handed out in order. *)
Raised ==
  /\ LogIds(log) \subseteq 1 .. raised
  /\ \A c \in Clients : AggIds(agg[c]) \subseteq 1 .. raised

Savable(c) == uncut[c] /\ ~Behind(agg[c], log)

(* The uncommitted events of an aggregate that can be saved are in no other *)
(* place, so that no other client can bring them into the stream.           *)
Apart(c) ==
  Savable(c) =>
    /\ Pending(agg[c]) \cap LogIds(log) = {}
    /\ \A d \in Clients \ {c} : Pending(agg[c]) \cap AggIds(agg[d]) = {}

NewInv == Raised /\ \A c \in Clients : Apart(c)

-----------------------------------------------------------------------------
(* Facts about these sets. *)

LEMMA PendingIsPart ==
  ASSUME NEW a \in Aggregates
  PROVE  Pending(a) \subseteq AggIds(a)
<1>1. Committed(a) \in Nat /\ Len(a.events) \in Nat
  BY AggregateFacts
<1>2. Committed(a) + 1 .. Len(a.events) \subseteq 1 .. Len(a.events)
  BY <1>1
<1> QED BY <1>2 DEF Pending, AggIds

LEMMA NothingInNew == AggIds(NewAggregate) = {} /\ Pending(NewAggregate) = {}
<1>1. Len(NewAggregate.events) = 0
  BY NewAggregateFacts
<1>2. Committed(NewAggregate) \in Nat
  BY NewAggregateFacts, AggregateFacts
<1> QED BY <1>1, <1>2 DEF AggIds, Pending

LEMMA AppendedIds ==
  ASSUME NEW l \in Logs, NEW ids \in Seq(1 .. MaxEvents)
  PROVE  LogIds(AppendTo(l, ids)) = LogIds(l) \cup {ids[i] : i \in 1 .. Len(ids)}
<1> DEFINE m == AppendTo(l, ids)
<1>1. l.events \in Seq(1 .. MaxEvents) /\ Len(l.events) \in Nat /\ Len(ids) \in Nat
  BY LogFacts, LenProperties
<1>2. m.events = l.events \o ids
  BY LogFacts DEF AppendTo
<1>3. /\ Len(m.events) = Len(l.events) + Len(ids)
      /\ \A i \in 1 .. Len(l.events) + Len(ids) :
           m.events[i] = IF i <= Len(l.events) THEN l.events[i] ELSE ids[i - Len(l.events)]
  BY <1>1, <1>2, ConcatProperties
<1> HIDE DEF m
<1>4. ASSUME NEW x \in LogIds(m) PROVE x \in LogIds(l) \cup {ids[i] : i \in 1 .. Len(ids)}
  <2>1. PICK p \in 1 .. Len(m.events) : x = m.events[p]
    BY <1>4 DEF LogIds
  <2>2. CASE p <= Len(l.events)
    BY <1>1, <1>3, <2>1, <2>2 DEF LogIds
  <2>3. CASE ~(p <= Len(l.events))
    <3>1. p - Len(l.events) \in 1 .. Len(ids) /\ x = ids[p - Len(l.events)]
      BY <1>1, <1>3, <2>1, <2>3
    <3> QED BY <3>1
  <2> QED BY <2>2, <2>3
<1>5. ASSUME NEW x \in LogIds(l) PROVE x \in LogIds(m)
  BY <1>1, <1>3 DEF LogIds
<1>6. ASSUME NEW i \in 1 .. Len(ids) PROVE ids[i] \in LogIds(m)
  <2>1. PICK k \in 1 .. Len(m.events) : k = Len(l.events) + i
    <3>1. Len(m.events) = Len(l.events) + Len(ids)
      BY <1>3
    <3> QED BY <1>1, <3>1
  <2>2. ~(k <= Len(l.events)) /\ k - Len(l.events) = i
    BY <1>1, <2>1
  <2>3. k \in 1 .. Len(l.events) + Len(ids)
    BY <1>3, <2>1
  <2>4. m.events[k] = IF k <= Len(l.events) THEN l.events[k] ELSE ids[k - Len(l.events)]
    BY <1>3, <2>3
  <2>5. m.events[k] = ids[i]
    BY <2>2, <2>4
  <2> QED BY <2>5 DEF LogIds
<1> QED BY <1>4, <1>5, <1>6 DEF m

LEMMA TruncatedIds ==
  ASSUME NEW l \in Logs, LastIndex(l) <= AllEvents, NEW index \in Int, CanTruncate(l, index)
  PROVE  LogIds(Truncate(l, index)) \subseteq LogIds(l)
<1> DEFINE m == Truncate(l, index)
<1>1. /\ m \in Logs /\ m.first >= l.first /\ LastIndex(m) <= LastIndex(l)
      /\ \A p \in m.first .. LastIndex(m) : EventAt(m, p) = EventAt(l, p)
  BY TruncateFacts
<1> HIDE DEF m
<1> SUFFICES ASSUME NEW i \in 1 .. Len(m.events) PROVE m.events[i] \in LogIds(l)
  BY DEF LogIds, m
<1>2. /\ l.first \in Nat /\ m.first \in Nat /\ Len(l.events) \in Nat /\ Len(m.events) \in Nat
      /\ LastIndex(m) = m.first + Len(m.events) - 1 /\ LastIndex(l) = l.first + Len(l.events) - 1
  BY <1>1, LogFacts
<1> DEFINE p == m.first + i - 1
<1>3. p \in m.first .. LastIndex(m) /\ p - m.first + 1 = i /\ p - l.first + 1 \in 1 .. Len(l.events)
  <2>1. i \in Nat /\ 1 <= i /\ i <= Len(m.events)
    BY <1>2
  <2>2. p \in Nat /\ m.first <= p /\ p <= LastIndex(m) /\ p - m.first + 1 = i
    BY <1>2, <2>1
  <2>3. LastIndex(m) \in Int /\ LastIndex(l) \in Int
    BY <1>2
  <2> HIDE DEF p
  <2>4. l.first <= p /\ p <= LastIndex(l)
    BY <1>1, <1>2, <2>2, <2>3
  <2>5. p - l.first + 1 \in 1 .. Len(l.events)
    BY <1>2, <2>2, <2>4
  <2> QED BY <1>2, <2>2, <2>3, <2>5
<1> HIDE DEF p
<1>4. EventAt(m, p) = EventAt(l, p)
  BY <1>1, <1>3
<1> QED BY <1>3, <1>4 DEF EventAt, LogIds

(* The ids of events raised now. *)
LEMMA FreshIds ==
  ASSUME raised \in Nat, NEW n \in Nat
  PROVE  {Ids(n)[i] : i \in 1 .. Len(Ids(n))} \subseteq raised + 1 .. raised + n
<1>1. Len(Ids(n)) = n /\ \A i \in 1 .. n : Ids(n)[i] = raised + i
  BY DEF Ids
<1> HIDE DEF Ids
<1> QED BY <1>1

LEMMA RaisedIds ==
  ASSUME NEW a \in Aggregates, NEW ids \in Seq(1 .. MaxEvents),
         Len(a.events) + Len(ids) <= AllEvents + MaxEvents
  PROVE  LET b == RaiseOn(a, ids)
             new == {ids[i] : i \in 1 .. Len(ids)}
         IN  /\ AggIds(b) \subseteq AggIds(a) \cup new /\ Pending(b) \subseteq Pending(a) \cup new
             /\ \A i \in 1 .. Len(ids) : b.events[Len(a.events) + i].id = ids[i]
<1> DEFINE b == RaiseOn(a, ids)
           more == PosStartAt(a, ids)
           e(i) == [id |-> ids[i], pos |-> Plus(a.lastIndex, i)]
<1>1. /\ a.events \in Seq(Entries) /\ Len(a.events) \in Nat /\ Committed(a) \in Nat
      /\ Len(ids) \in Nat
  BY AggregateFacts, LenProperties
<1>2. /\ b.firstIndex = a.firstIndex /\ b.lastIndex = a.lastIndex
      /\ Len(b.events) = Len(a.events) + Len(ids)
      /\ \A i \in 1 .. Len(a.events) : b.events[i] = a.events[i]
  BY RaiseFacts
<1>3. more = [i \in 1 .. Len(ids) |-> e(i)]
  BY DEF PosStartAt
<1>4. b.events = a.events \o more
  BY DEF RaiseOn, Aggregates
<1>5. more \in Seq([id : 1 .. MaxEvents, pos : {Plus(a.lastIndex, i) : i \in 1 .. Len(ids)}]) /\ Len(more) = Len(ids)
  <2> DEFINE S == [id : 1 .. MaxEvents, pos : {Plus(a.lastIndex, i) : i \in 1 .. Len(ids)}]
  <2>1. \A i \in 1 .. Len(ids) : e(i) \in S
    <3>1. \A i \in 1 .. Len(ids) : ids[i] \in 1 .. MaxEvents
      BY ElementOfSeq
    <3> QED BY <3>1
  <2>2. [i \in 1 .. Len(ids) |-> e(i)] \in Seq(S)
    <3> HIDE DEF e, S
    <3> QED BY <1>1, <2>1, IsASeq
  <2> HIDE DEF S, more, e
  <2>3. more \in Seq(S)
    BY <1>3, <2>2
  <2>4. DOMAIN more = 1 .. Len(ids) /\ DOMAIN more = 1 .. Len(more) /\ Len(more) \in Nat
    BY <1>3, <2>3, LenProperties
  <2>5. Len(more) = Len(ids)
    BY <1>1, <2>4
  <2> QED BY <2>3, <2>5 DEF S
<1> DEFINE T == Entries \cup [id : 1 .. MaxEvents, pos : {Plus(a.lastIndex, i) : i \in 1 .. Len(ids)}]
<1>6. \A i \in 1 .. Len(ids) : b.events[Len(a.events) + i] = more[i]
  <2> HIDE DEF b, more, e
  <2>1. a.events \in Seq(T) /\ more \in Seq(T)
    <3> DEFINE S == [id : 1 .. MaxEvents, pos : {Plus(a.lastIndex, i) : i \in 1 .. Len(ids)}]
    <3>1. more \in Seq(S) /\ S \subseteq T /\ Entries \subseteq T
      BY <1>5
    <3> HIDE DEF S, T
    <3> QED BY <1>1, <3>1, SeqMonotonic
  <2> HIDE DEF T
  <2>2. \A i \in 1 .. Len(a.events) + Len(more) :
          b.events[i] = IF i <= Len(a.events) THEN a.events[i] ELSE more[i - Len(a.events)]
    BY <1>4, <2>1, ConcatProperties
  <2>3. ASSUME NEW i \in 1 .. Len(ids) PROVE b.events[Len(a.events) + i] = more[i]
    <3>1. PICK k \in 1 .. Len(a.events) + Len(more) : k = Len(a.events) + i
      <4>1. Len(more) = Len(ids)
        BY <1>5
      <4> QED BY <1>1, <4>1
    <3>2. ~(k <= Len(a.events)) /\ k - Len(a.events) = i
      BY <1>1, <3>1
    <3>3. b.events[k] = IF k <= Len(a.events) THEN a.events[k] ELSE more[k - Len(a.events)]
      BY <2>2
    <3>4. b.events[k] = more[i]
      BY <3>2, <3>3
    <3> QED BY <3>1, <3>4
  <2> QED BY <2>3
<1>7. \A i \in 1 .. Len(ids) : b.events[Len(a.events) + i].id = ids[i]
  <2> HIDE DEF b, more
  <2> QED BY <1>3, <1>6
<1> HIDE DEF b, more, e, T
<1>8. ASSUME NEW j \in 1 .. Len(b.events)
      PROVE  \/ j \in 1 .. Len(a.events) /\ b.events[j].id = a.events[j].id
             \/ b.events[j].id \in {ids[i] : i \in 1 .. Len(ids)}
  <2>1. CASE j <= Len(a.events)
    BY <1>1, <1>2, <2>1
  <2>2. CASE ~(j <= Len(a.events))
    <3>1. j - Len(a.events) \in 1 .. Len(ids) /\ Len(a.events) + (j - Len(a.events)) = j
      BY <1>1, <1>2, <2>2
    <3>2. b.events[j].id = ids[j - Len(a.events)]
      BY <1>7, <3>1
    <3> QED BY <3>1, <3>2
  <2> QED BY <2>1, <2>2
<1>9. Committed(b) = Committed(a)
  BY <1>2 DEF Committed
<1>10. AggIds(b) \subseteq AggIds(a) \cup {ids[i] : i \in 1 .. Len(ids)}
  BY <1>8 DEF AggIds
<1>11. ASSUME NEW j \in Committed(b) + 1 .. Len(b.events)
       PROVE  b.events[j].id \in Pending(a) \cup {ids[i] : i \in 1 .. Len(ids)}
  <2>1. j \in 1 .. Len(b.events) /\ (j \in 1 .. Len(a.events) => j \in Committed(a) + 1 .. Len(a.events))
    BY <1>1, <1>2, <1>9
  <2> QED BY <1>8, <2>1 DEF Pending
<1>12. Pending(b) \subseteq Pending(a) \cup {ids[i] : i \in 1 .. Len(ids)}
  BY <1>11 DEF Pending
<1> QED BY <1>7, <1>10, <1>12 DEF b

LEMMA StampedIds ==
  ASSUME NEW a \in Aggregates, NEW l \in Logs, LastIndex(l) <= AllEvents, ~EventsPanics(a),
         NEW n \in 0 .. Len(a.events) - Committed(a)
  PROVE  LET b == Stamps(a, l, n)
         IN  /\ b.firstIndex = a.firstIndex /\ b.lastIndex = a.lastIndex /\ Len(b.events) = Len(a.events)
             /\ AggIds(b) = AggIds(a) /\ Pending(b) = Pending(a)
<1> DEFINE b == Stamps(a, l, n)
<1>1. /\ b.firstIndex = a.firstIndex /\ b.lastIndex = a.lastIndex /\ Len(b.events) = Len(a.events)
      /\ \A i \in 1 .. Len(a.events) : b.events[i].id = a.events[i].id
  BY StampsFacts
<1> HIDE DEF b
<1>2. Committed(b) = Committed(a) /\ Committed(a) \in Nat /\ Len(a.events) \in Nat
  BY <1>1, AggregateFacts DEF Committed
<1>3. \A i \in Committed(a) + 1 .. Len(a.events) : i \in 1 .. Len(a.events)
  BY <1>2
<1>4. AggIds(b) = AggIds(a)
  BY <1>1 DEF AggIds
<1>5. Pending(b) = Pending(a)
  BY <1>1, <1>2, <1>3 DEF Pending
<1> QED BY <1>1, <1>4, <1>5 DEF b

(* A load takes its events from the stream, and takes all for committed.   *)
LEMMA LoadedIds ==
  ASSUME NEW l \in Logs, LastIndex(l) <= AllEvents, l.events # <<>>,
         NEW h \in Uint64, h <= l.first
  PROVE  LET a == LoadedFrom(h, l)
         IN  /\ AggIds(a) \subseteq LogIds(l) /\ Pending(a) = {}
             /\ Committed(a) = Len(a.events) /\ Len(a.events) \in Nat
<1> DEFINE a == LoadedFrom(h, l)
           n == Len(l.events)
<1>1. a \in Aggregates /\ a.lastIndex = Plus(a.firstIndex, Len(a.events))
  BY LoadedFacts DEF Version
<1>2. n \in Nat /\ \A i \in 1 .. n : l.events[i] \in LogIds(l)
  BY LogFacts DEF LogIds
<1>3. a.events = [i \in 1 .. n |-> [id |-> l.events[i], pos |-> Plus(Minus(h, 1), i)]]
  BY LoadedIs
<1>4. Len(a.events) = n /\ \A i \in 1 .. n : a.events[i].id = l.events[i]
  BY <1>2, <1>3
<1>5. AggIds(a) \subseteq LogIds(l)
  BY <1>2, <1>4 DEF AggIds
<1>6. Committed(a) = n
  <2>1. /\ a.firstIndex \in Nat /\ a.firstIndex < Word
        /\ a.lastIndex = Plus(a.firstIndex, n) /\ n <= AllEvents
    BY <1>1, <1>4, AggregateFacts, LoadedFacts
  <2> HIDE DEF a, n
  <2>2. CASE a.firstIndex + n < Word
    BY <1>2, <2>1, <2>2, Numbers DEF Committed, Plus, Minus
  <2>3. CASE ~(a.firstIndex + n < Word)
    BY <1>2, <2>1, <2>3, Numbers DEF Committed, Plus, Minus
  <2> QED BY <2>2, <2>3
<1>7. Pending(a) = {}
  BY <1>2, <1>4, <1>6 DEF Pending
<1> QED BY <1>2, <1>4, <1>5, <1>6, <1>7

-----------------------------------------------------------------------------
(* What a step of client c must show.  It brings nothing into the stream   *)
(* but what its own aggregate holds and what is raised now; and when it is *)
(* left with an aggregate that can be saved, either nothing of that is     *)
(* uncommitted, or it could be saved before, and what has been raised now  *)
(* is in one place.                                                        *)
Fresh == raised + 1 .. raised'

BringsNothing(c) ==
  /\ raised' \in Nat /\ raised' >= raised
  /\ \A d \in Clients \ {c} :
       /\ agg'[d] = agg[d]
       /\ uncut'[d] => uncut[d] /\ LastIndex(log') >= LastIndex(log)
  /\ LogIds(log') \subseteq LogIds(log) \cup AggIds(agg[c]) \cup Fresh
  /\ AggIds(agg'[c]) \subseteq AggIds(agg[c]) \cup LogIds(log) \cup Fresh

StaysApart(c) ==
  Savable(c)' =>
    \/ Pending(agg'[c]) = {}
    \/ /\ Savable(c)
       /\ \/ /\ Pending(agg'[c]) \subseteq Pending(agg[c]) \cup Fresh
             /\ LogIds(log') \subseteq LogIds(log)
          \/ /\ Pending(agg'[c]) \subseteq Pending(agg[c])
             /\ LogIds(log') \subseteq LogIds(log) \cup Fresh

LEMMA StepNewInv ==
  ASSUME TypeOK, TypeOK', NewInv, NEW c \in Clients, BringsNothing(c), StaysApart(c)
  PROVE  NewInv'
<1>1. /\ raised \in Nat /\ raised' \in Nat /\ raised' >= raised
      /\ agg \in [Clients -> Aggregates]
      /\ LastIndex(log) \in Nat /\ LastIndex(log') \in Nat
  BY LogFacts, Numbers DEF TypeOK, BringsNothing
<1>2. /\ 1 .. raised \subseteq 1 .. raised' /\ Fresh \subseteq 1 .. raised'
      /\ Fresh \cap (1 .. raised) = {}
  BY <1>1 DEF Fresh
<1>3. /\ LogIds(log) \subseteq 1 .. raised
      /\ \A d \in Clients : AggIds(agg[d]) \subseteq 1 .. raised
      /\ \A d \in Clients : Pending(agg[d]) \subseteq AggIds(agg[d])
  BY <1>1, PendingIsPart DEF NewInv, Raised
<1>4. Raised'
  <2>1. LogIds(log') \subseteq 1 .. raised'
    BY <1>2, <1>3 DEF BringsNothing
  <2>2. \A d \in Clients : AggIds(agg'[d]) \subseteq 1 .. raised'
    BY <1>2, <1>3 DEF BringsNothing
  <2> QED BY <2>1, <2>2 DEF Raised, LogIds, AggIds
<1>5. ASSUME NEW d \in Clients \ {c} PROVE Apart(d)'
  <2> SUFFICES ASSUME Savable(d)'
               PROVE  /\ Pending(agg'[d]) \cap LogIds(log') = {}
                      /\ \A e \in Clients \ {d} : Pending(agg'[d]) \cap AggIds(agg'[e]) = {}
    BY DEF Apart, Pending, LogIds, AggIds, Committed
  <2>1. agg'[d] = agg[d] /\ Savable(d)
    <3>1. agg'[d] = agg[d] /\ uncut[d] /\ LastIndex(log') >= LastIndex(log)
      BY DEF BringsNothing, Savable
    <3>2. agg[d].lastIndex \in Nat
      BY <1>1, AggregateFacts
    <3>3. ~(agg[d].lastIndex < LastIndex(log'))
      BY <3>1 DEF Savable, Behind
    <3> QED BY <1>1, <3>1, <3>2, <3>3 DEF Savable, Behind
  <2>2. /\ Pending(agg[d]) \cap LogIds(log) = {}
        /\ \A e \in Clients \ {d} : Pending(agg[d]) \cap AggIds(agg[e]) = {}
    BY <2>1 DEF NewInv, Apart
  <2>3. Pending(agg[d]) \cap Fresh = {}
    BY <1>2, <1>3
  <2>4. Pending(agg[d]) \cap LogIds(log') = {}
    BY <2>2, <2>3 DEF BringsNothing
  <2>5. ASSUME NEW e \in Clients \ {d} PROVE Pending(agg[d]) \cap AggIds(agg'[e]) = {}
    <3>1. CASE e = c
      BY <2>2, <2>3, <3>1 DEF BringsNothing
    <3>2. CASE e # c
      BY <2>2, <3>2 DEF BringsNothing
    <3> QED BY <3>1, <3>2
  <2> QED BY <2>1, <2>4, <2>5
<1>6. Apart(c)'
  <2> SUFFICES ASSUME Savable(c)'
               PROVE  /\ Pending(agg'[c]) \cap LogIds(log') = {}
                      /\ \A e \in Clients \ {c} : Pending(agg'[c]) \cap AggIds(agg'[e]) = {}
    BY DEF Apart, Pending, LogIds, AggIds, Committed
  <2>0. \A e \in Clients \ {c} : agg'[e] = agg[e]
    BY DEF BringsNothing
  <2>1. CASE Pending(agg'[c]) = {}
    BY <2>1
  <2>2. CASE Savable(c) /\ Pending(agg'[c]) # {}
    <3>1. /\ Pending(agg[c]) \cap LogIds(log) = {}
          /\ \A e \in Clients \ {c} : Pending(agg[c]) \cap AggIds(agg[e]) = {}
      BY <2>2 DEF NewInv, Apart
    <3>2. Pending(agg[c]) \cap Fresh = {} /\ LogIds(log) \cap Fresh = {}
      BY <1>2, <1>3
    <3>3. \A e \in Clients : Fresh \cap AggIds(agg[e]) = {}
      BY <1>2, <1>3
    <3> QED BY <2>0, <2>2, <3>1, <3>2, <3>3 DEF StaysApart
  <2> QED BY <2>1, <2>2 DEF StaysApart
<1> QED BY <1>4, <1>5, <1>6 DEF NewInv

(* Steps that leave the stream and the aggregates alone, or begin with a   *)
(* new one.                                                                *)
LEMMA QuietNewInv ==
  ASSUME TypeOK, TypeOK', NewInv, NEW c \in Clients,
         log' = log, raised' = raised, uncut' = uncut,
         agg' = agg \/ agg' = [agg EXCEPT ![c] = NewAggregate]
  PROVE  NewInv'
<1>1. raised \in Nat /\ LastIndex(log) \in Nat /\ agg \in [Clients -> Aggregates]
  BY LogFacts, Numbers DEF TypeOK
<1>2. agg'[c] = agg[c] \/ agg'[c] = NewAggregate
  BY <1>1
<1>3. BringsNothing(c)
  BY <1>1, <1>2, NothingInNew DEF BringsNothing
<1>4. StaysApart(c)
  <2>1. CASE agg' = agg
    BY <2>1 DEF StaysApart, Savable, Behind
  <2>2. CASE agg' = [agg EXCEPT ![c] = NewAggregate]
    BY <1>1, <2>2, NothingInNew DEF StaysApart
  <2> QED BY <2>1, <2>2
<1> QED BY <1>3, <1>4, StepNewInv

(* Load: everything it reads is committed. *)
LEMMA LoadReadNewInv ==
  ASSUME IInv, IInv', NewInv, NEW c \in Clients, LoadRead(c)
  PROVE  NewInv'
<1>1. /\ log' = log /\ raised' = raised /\ pc[c] = "read"
      /\ uncut' = [uncut EXCEPT ![c] = TRUE]
  BY DEF LoadRead
<1>2. /\ log \in Logs /\ LastIndex(log) <= AllEvents /\ head[c] \in Uint64 /\ raised \in Nat
      /\ agg \in [Clients -> Aggregates] /\ LastIndex(log) \in Nat /\ uncut \in [Clients -> BOOLEAN]
  <2>1. log \in Logs /\ raised \in Nat
    BY Numbers DEF IInv, TypeOK
  <2> QED BY <2>1, LogFacts DEF IInv, TypeOK
<1>3. agg[c] = NewAggregate /\ head[c] <= log.first
  BY <1>1 DEF IInv, ClientOK
<1>4. Read(log, 0, AllEvents) = log.events
  BY <1>2, ReadAll
<1>5. /\ \A d \in Clients \ {c} : agg'[d] = agg[d]
      /\ AggIds(agg'[c]) \subseteq LogIds(log) /\ Pending(agg'[c]) = {}
  <2>1. CASE log.events = <<>>
    <3>1. agg' = agg
      BY <1>4, <2>1 DEF LoadRead
    <3>2. AggIds(agg'[c]) = {} /\ Pending(agg'[c]) = {}
      BY <1>3, <3>1, NothingInNew
    <3> QED BY <3>1, <3>2
  <2>2. CASE log.events # <<>>
    <3>1. agg' = [agg EXCEPT ![c] = Loaded(c)]
      BY <1>4, <2>2 DEF LoadRead
    <3>2. Loaded(c) = LoadedFrom(head[c], log)
      BY <1>3, <1>4 DEF Loaded, LoadedFrom
    <3>3. AggIds(Loaded(c)) \subseteq LogIds(log) /\ Pending(Loaded(c)) = {}
      BY <1>2, <1>3, <2>2, <3>2, LoadedIds
    <3> QED BY <1>2, <3>1, <3>3
  <2> QED BY <2>1, <2>2
<1>6. BringsNothing(c)
  BY <1>1, <1>2, <1>5 DEF BringsNothing
<1>7. StaysApart(c)
  BY <1>5 DEF StaysApart
<1> QED BY <1>6, <1>7, StepNewInv DEF IInv

LEMMA RaiseNewInv ==
  ASSUME TypeOK, TypeOK', NewInv, NEW c \in Clients, NEW n \in 1 .. MaxRaise, Raise(c, n),
         Len(agg[c].events) <= AllEvents + raised
  PROVE  NewInv'
<1>1. /\ log' = log /\ uncut' = uncut /\ raised' = raised + n /\ raised + n <= MaxEvents
      /\ agg' = [agg EXCEPT ![c] = RaiseOn(agg[c], Ids(n))]
  BY DEF Raise
<1>2. n \in Nat
  BY Numbers
<1>3. /\ Ids(n) \in Seq(1 .. MaxEvents) /\ Len(Ids(n)) = n
      /\ raised \in Nat /\ raised' \in Nat /\ raised' >= raised
  BY <1>1, <1>2, IdsInRange
<1> DEFINE a == agg[c]
           b == RaiseOn(a, Ids(n))
<1>4. a \in Aggregates /\ Len(a.events) \in Nat /\ Len(a.events) <= AllEvents + raised
  BY AggregateFacts DEF TypeOK
<1>5. Len(a.events) + Len(Ids(n)) <= AllEvents + MaxEvents
  BY <1>1, <1>2, <1>3, <1>4, Numbers
<1>6. {Ids(n)[i] : i \in 1 .. Len(Ids(n))} \subseteq Fresh
  BY <1>1, <1>2, <1>3, FreshIds DEF Fresh
<1>7. AggIds(b) \subseteq AggIds(a) \cup Fresh /\ Pending(b) \subseteq Pending(a) \cup Fresh
  BY <1>3, <1>4, <1>5, <1>6, RaisedIds
<1>8. b.lastIndex = a.lastIndex
  BY <1>3, <1>4, <1>5, RaiseFacts
<1>9. agg'[c] = b /\ \A d \in Clients \ {c} : agg'[d] = agg[d]
  BY <1>1 DEF TypeOK
<1>10. LastIndex(log) \in Nat
  BY LogFacts DEF TypeOK
<1> HIDE DEF b
<1>11. BringsNothing(c)
  BY <1>1, <1>3, <1>7, <1>9, <1>10 DEF BringsNothing
<1>12. StaysApart(c)
  BY <1>1, <1>7, <1>8, <1>9 DEF StaysApart, Savable, Behind
<1> QED BY <1>11, <1>12, StepNewInv

(* What a client about to append works with. *)
LEMMA AboutToAppend ==
  ASSUME IInv, NEW c \in Clients, pc[c] = "append"
  PROVE  LET a == agg[c]
             batch == Uncommitted(a)
         IN  /\ a \in Aggregates /\ ~EventsPanics(a)
             /\ log \in Logs /\ LastIndex(log) \in Nat /\ LastIndex(log) <= AllEvents
             /\ raised \in Nat /\ agg \in [Clients -> Aggregates]
             /\ batch \in Seq(Entries) /\ Len(batch) \in Nat
             /\ Len(batch) = Len(a.events) - Committed(a)
             /\ \A i \in 1 .. Len(batch) : batch[i].id \in AggIds(a)
<1> DEFINE a == agg[c]
           batch == Uncommitted(a)
<1>1. /\ a \in Aggregates /\ ~EventsPanics(a) /\ log \in Logs /\ LastIndex(log) <= AllEvents
      /\ raised \in Nat /\ agg \in [Clients -> Aggregates]
  BY Numbers DEF IInv, TypeOK, ClientOK
<1>2. LastIndex(log) \in Nat
  BY <1>1, LogFacts
<1> HIDE DEF a
<1>3. /\ Committed(a) \in 0 .. Len(a.events) /\ batch \in Seq(Entries)
      /\ Len(batch) = Len(a.events) - Committed(a)
      /\ \A i \in 1 .. Len(batch) : batch[i] = a.events[Committed(a) + i]
  BY <1>1, UncommittedFacts
<1>4. Len(batch) \in Nat /\ Len(a.events) \in Nat
  BY <1>1, <1>3, AggregateFacts, LenProperties
<1> HIDE DEF batch
<1>5. ASSUME NEW i \in 1 .. Len(batch) PROVE batch[i].id \in AggIds(a)
  <2>1. Committed(a) + i \in 1 .. Len(a.events)
    BY <1>3, <1>4
  <2> QED BY <1>3, <2>1 DEF AggIds
<1> QED BY <1>1, <1>2, <1>3, <1>4, <1>5 DEF a, batch

LEMMA SaveMarshalFailsNewInv ==
  ASSUME IInv, IInv', NewInv, NEW c \in Clients, NEW n \in 0 .. MaxEvents, SaveMarshalFails(c, n)
  PROVE  NewInv'
<1> DEFINE a == agg[c]
           b == Stamps(a, log, n)
<1>1. /\ log' = log /\ raised' = raised /\ uncut' = uncut /\ pc[c] = "append"
      /\ agg' = [agg EXCEPT ![c] = b] /\ n < Len(Uncommitted(a))
  BY DEF SaveMarshalFails
<1>2. /\ a \in Aggregates /\ ~EventsPanics(a) /\ log \in Logs
      /\ LastIndex(log) \in Nat /\ LastIndex(log) <= AllEvents
      /\ raised \in Nat /\ agg \in [Clients -> Aggregates]
      /\ Len(Uncommitted(a)) \in Nat /\ Len(Uncommitted(a)) = Len(a.events) - Committed(a)
  BY <1>1, AboutToAppend
<1>3. n \in 0 .. Len(a.events) - Committed(a)
  <2>1. n \in Nat
    BY Numbers
  <2> QED BY <1>1, <1>2, <2>1
<1>4. /\ b.lastIndex = a.lastIndex /\ AggIds(b) = AggIds(a) /\ Pending(b) = Pending(a)
  BY <1>2, <1>3, StampedIds
<1>5. agg'[c] = b /\ \A d \in Clients \ {c} : agg'[d] = agg[d]
  BY <1>1, <1>2
<1> HIDE DEF b
<1>6. BringsNothing(c)
  BY <1>1, <1>2, <1>4, <1>5 DEF BringsNothing
<1>7. StaysApart(c)
  BY <1>1, <1>4, <1>5 DEF StaysApart, Savable, Behind
<1> QED BY <1>6, <1>7, StepNewInv DEF IInv

(* A batch of which some events were stored leaves its aggregate behind. *)
LEMMA SaveWriteFailsNewInv ==
  ASSUME IInv, IInv', NewInv, NEW c \in Clients, NEW n \in 0 .. MaxEvents, SaveWriteFails(c, n)
  PROVE  NewInv'
<1> DEFINE a     == agg[c]
           batch == Uncommitted(a)
           part  == SubSeq(batch, 1, n)
           ids   == IdsOf(part)
           b     == Stamps(a, log, Len(batch))
<1>1. /\ raised' = raised /\ pc[c] = "append" /\ n <= Len(batch) /\ HasRoom(n)
      /\ log' = AppendTo(log, ids)
      /\ agg' = [agg EXCEPT ![c] = b]
      /\ VersionOK(log, a.lastIndex)
      /\ Changed({})
  BY DEF SaveWriteFails, StreamVersion
<1>2. /\ a \in Aggregates /\ ~EventsPanics(a) /\ log \in Logs
      /\ LastIndex(log) \in Nat /\ LastIndex(log) <= AllEvents
      /\ raised \in Nat /\ agg \in [Clients -> Aggregates]
      /\ batch \in Seq(Entries) /\ Len(batch) \in Nat /\ Len(batch) = Len(a.events) - Committed(a)
      /\ \A i \in 1 .. Len(batch) : batch[i].id \in AggIds(a)
  BY <1>1, AboutToAppend
<1>3. Len(batch) \in 0 .. Len(a.events) - Committed(a)
  BY <1>2
<1>4. /\ b.lastIndex = a.lastIndex /\ AggIds(b) = AggIds(a) /\ Pending(b) = Pending(a)
  BY <1>2, <1>3, StampedIds
<1>5. agg'[c] = b /\ \A d \in Clients \ {c} : agg'[d] = agg[d]
  BY <1>1, <1>2
<1>6. \A d \in Clients : uncut'[d] => uncut[d] /\ LastIndex(log') >= LastIndex(log)
  BY <1>1, ChangedFacts DEF IInv, TypeOK
<1> HIDE DEF b, batch
<1>7. n \in Nat
  BY Numbers
<1>8. /\ part \in Seq(Entries) /\ Len(part) = n
      /\ \A i \in 1 .. n : part[i] = batch[i]
  <2>1. \A i \in 1 .. n : batch[i] \in Entries
    BY <1>1, <1>2, <1>7, AsFunction
  <2>2. /\ n - 1 + 1 = n /\ (~(1 <= n) => n = 0) /\ \A i \in 1 .. n : 1 + i - 1 = i
    BY <1>7
  <2> QED BY <1>7, <2>1, <2>2, SubSeqProperties
<1> HIDE DEF part
<1>9. /\ ids \in Seq(1 .. MaxEvents) /\ Len(ids) = n
      /\ \A i \in 1 .. n : ids[i] = batch[i].id
  BY <1>8, IdsFacts
<1> HIDE DEF ids
<1>10. LogIds(log') = LogIds(log) \cup {ids[i] : i \in 1 .. n}
  BY <1>1, <1>2, <1>9, AppendedIds
<1>11. {ids[i] : i \in 1 .. n} \subseteq AggIds(a)
  BY <1>1, <1>2, <1>7, <1>9
<1>12. LastIndex(log') = LastIndex(log) + n
  BY <1>1, <1>2, <1>9, AppendFacts
<1>13. BringsNothing(c)
  BY <1>1, <1>2, <1>4, <1>5, <1>6, <1>10, <1>11 DEF BringsNothing
<1>14. StaysApart(c)
  <2> SUFFICES ASSUME Savable(c)'
               PROVE  Savable(c) /\ Pending(b) \subseteq Pending(a) /\ LogIds(log') \subseteq LogIds(log)
    BY <1>5 DEF StaysApart
  <2>1. uncut[c] /\ ~(b.lastIndex < LastIndex(log')) /\ a.lastIndex \in Nat
    BY <1>2, <1>5, <1>6, AggregateFacts DEF Savable, Behind
  <2>2. a.lastIndex = LastIndex(log)
    <3>1. Knows(a, log)
      BY <2>1 DEF IInv, ClientOK
    <3>2. a.lastIndex <= LastIndex(log)
      BY <1>2, <2>1, <3>1 DEF Knows, Tracks, Behind
    <3> QED BY <1>1, <1>2, <2>1, <3>2, Numbers DEF VersionOK
  <2>3. n = 0
    BY <1>2, <1>4, <1>7, <1>12, <2>1, <2>2
  <2>4. LogIds(log') = LogIds(log)
    BY <1>10, <2>3
  <2>5. Savable(c)
    BY <1>2, <2>1, <2>2 DEF Savable, Behind
  <2> QED BY <1>4, <2>4, <2>5
<1> QED BY <1>13, <1>14, StepNewInv DEF IInv

(* A save leaves nothing uncommitted, or its aggregate behind. *)
LEMMA SaveAppendsNewInv ==
  ASSUME IInv, IInv', NewInv, NEW c \in Clients, SaveAppends(c)
  PROVE  NewInv'
<1> DEFINE a     == agg[c]
           batch == Uncommitted(a)
           ids   == IdsOf(batch)
           s     == Stamps(a, log, Len(batch))
           b     == Commit(s)
<1>1. /\ raised' = raised /\ pc[c] = "append"
      /\ log' = AppendTo(log, ids)
      /\ agg' = [agg EXCEPT ![c] = b]
      /\ Changed(IF a.firstIndex = 0 THEN {c} ELSE {})
  BY DEF SaveAppends
<1>2. /\ a \in Aggregates /\ ~EventsPanics(a) /\ log \in Logs
      /\ LastIndex(log) \in Nat /\ LastIndex(log) <= AllEvents
      /\ raised \in Nat /\ agg \in [Clients -> Aggregates]
      /\ batch \in Seq(Entries) /\ Len(batch) \in Nat /\ Len(batch) = Len(a.events) - Committed(a)
      /\ \A i \in 1 .. Len(batch) : batch[i].id \in AggIds(a)
  BY <1>1, AboutToAppend
<1>3. Len(batch) \in 0 .. Len(a.events) - Committed(a)
  BY <1>2
<1>4. /\ s.firstIndex = a.firstIndex /\ Len(s.events) = Len(a.events) /\ AggIds(s) = AggIds(a)
  BY <1>2, <1>3, StampedIds
<1>5. s \in Aggregates
  <2>1. Len(batch) \in 0 .. Len(Uncommitted(agg[c])) /\ ClientOK(c)
    BY <1>2 DEF IInv
  <2> QED BY <1>1, <2>1, StampedKeeps
<1>6. agg'[c] = b /\ \A d \in Clients \ {c} : agg'[d] = agg[d]
  BY <1>1, <1>2
<1>7. \A d \in Clients : uncut'[d] => uncut[d] /\ LastIndex(log') >= LastIndex(log)
  BY <1>1, ChangedFacts DEF IInv
<1> HIDE DEF s
<1>8. b.events = s.events /\ b.firstIndex = s.firstIndex /\ b.lastIndex = Len(s.events)
  BY <1>5 DEF Commit, Aggregates
<1> HIDE DEF b, batch
<1>9. /\ ids \in Seq(1 .. MaxEvents) /\ Len(ids) = Len(batch)
      /\ \A i \in 1 .. Len(batch) : ids[i] = batch[i].id
  BY <1>2, IdsFacts
<1> HIDE DEF ids
<1>10. LogIds(log') = LogIds(log) \cup {ids[i] : i \in 1 .. Len(batch)}
  BY <1>1, <1>2, <1>9, AppendedIds
<1>11. {ids[i] : i \in 1 .. Len(batch)} \subseteq AggIds(a) /\ AggIds(b) = AggIds(a)
  <2>1. AggIds(b) = AggIds(s)
    BY <1>8 DEF AggIds
  <2> QED BY <1>2, <1>4, <1>9, <2>1
<1>12. LastIndex(log') = LastIndex(log) + Len(batch)
  BY <1>1, <1>2, <1>9, AppendFacts
<1>13. BringsNothing(c)
  BY <1>1, <1>2, <1>6, <1>7, <1>10, <1>11 DEF BringsNothing
<1>14. ASSUME Savable(c)' PROVE Pending(b) = {}
  <2>1. uncut[c] /\ ~(b.lastIndex < LastIndex(log'))
    BY <1>6, <1>7, <1>14 DEF Savable, Behind
  <2>2. Tracks(a, log) /\ a.lastIndex = LastIndex(log)
    BY <2>1, SavesAtTheEnd
  <2>3. /\ a.firstIndex \in Nat /\ a.lastIndex \in Nat /\ Len(a.events) \in Nat
        /\ Committed(a) = a.lastIndex - a.firstIndex
    BY <1>2, <2>2, AggregateFacts DEF Tracks
  <2>4. b.firstIndex = 0
    BY <1>2, <1>4, <1>8, <1>12, <2>1, <2>2, <2>3
  <2>5. Committed(b) = Len(b.events)
    BY <1>4, <1>8, <2>3, <2>4 DEF Committed, Minus
  <2>6. Committed(b) + 1 .. Len(b.events) = {}
    BY <1>4, <1>8, <2>3, <2>5
  <2> QED BY <2>6 DEF Pending
<1>15. StaysApart(c)
  BY <1>6, <1>14 DEF StaysApart
<1> QED BY <1>13, <1>15, StepNewInv DEF IInv

LEMMA AppendBlindlyNewInv ==
  ASSUME IInv, IInv', NewInv, NEW c \in Clients, NEW n \in 1 .. MaxRaise, NEW k \in 0 .. n,
         AppendBlindly(c, n, k)
  PROVE  NewInv'
<1> DEFINE part == SubSeq(Ids(n), 1, k)
<1>1. /\ raised' = raised + n /\ raised + n <= MaxEvents /\ log' = AppendTo(log, part)
      /\ agg' = agg /\ Changed({})
  BY DEF AppendBlindly
<1>2. n \in Nat /\ k \in Nat /\ k <= n
  BY Numbers
<1>3. /\ Ids(n) \in Seq(1 .. MaxEvents) /\ Len(Ids(n)) = n
      /\ raised \in Nat /\ raised' \in Nat /\ raised' >= raised
  BY <1>1, <1>2, IdsInRange DEF IInv
<1>4. log \in Logs /\ LastIndex(log) \in Nat /\ agg \in [Clients -> Aggregates]
  BY LogFacts DEF IInv, TypeOK
<1>5. \A d \in Clients : uncut'[d] => uncut[d] /\ LastIndex(log') >= LastIndex(log)
  BY <1>1, ChangedFacts DEF IInv
<1>6. \A i \in 1 .. n : Ids(n)[i] \in Fresh /\ Ids(n)[i] \in 1 .. MaxEvents
  <2>1. {Ids(n)[i] : i \in 1 .. n} \subseteq Fresh
    BY <1>1, <1>2, <1>3, FreshIds DEF Fresh
  <2> QED BY <1>3, <2>1, AsFunction
<1>7. /\ part \in Seq(1 .. MaxEvents) /\ Len(part) = k
      /\ {part[i] : i \in 1 .. Len(part)} \subseteq Fresh
  <2> DEFINE ids == Ids(n)
  <2>1. \A i \in 1 .. k : ids[i] \in 1 .. MaxEvents /\ ids[i] \in Fresh
    BY <1>2, <1>6
  <2>2. /\ k - 1 + 1 = k /\ (~(1 <= k) => k = 0) /\ \A i \in 1 .. k : 1 + i - 1 = i
    BY <1>2
  <2> HIDE DEF ids
  <2>3. /\ SubSeq(ids, 1, k) \in Seq(1 .. MaxEvents) /\ Len(SubSeq(ids, 1, k)) = k
        /\ \A i \in 1 .. k : SubSeq(ids, 1, k)[i] = ids[i]
    BY <1>2, <2>1, <2>2, SubSeqProperties
  <2>4. part = SubSeq(ids, 1, k)
    BY DEF ids
  <2> HIDE DEF part
  <2> QED BY <2>1, <2>3, <2>4
<1> HIDE DEF part
<1>8. LogIds(log') \subseteq LogIds(log) \cup Fresh
  BY <1>1, <1>4, <1>7, AppendedIds
<1>9. LastIndex(log') = LastIndex(log) + k
  BY <1>1, <1>4, <1>7, AppendFacts
<1>10. BringsNothing(c)
  BY <1>1, <1>3, <1>5, <1>8 DEF BringsNothing
<1>11. StaysApart(c)
  <2> SUFFICES ASSUME Savable(c)' PROVE Savable(c)
    BY <1>1, <1>8 DEF StaysApart
  <2>1. uncut[c] /\ ~(agg[c].lastIndex < LastIndex(log')) /\ agg[c].lastIndex \in Nat
    BY <1>1, <1>4, <1>5, AggregateFacts DEF Savable, Behind
  <2>2. ~(agg[c].lastIndex < LastIndex(log))
    BY <1>2, <1>4, <1>9, <2>1
  <2> QED BY <2>1, <2>2 DEF Savable, Behind
<1> QED BY <1>10, <1>11, StepNewInv DEF IInv

LEMMA TruncateStreamNewInv ==
  ASSUME IInv, IInv', NewInv, NEW c \in Clients, NEW index \in Indexes, TruncateStream(c, index)
  PROVE  NewInv'
<1>1. /\ log' = log \/ (CanTruncate(log, index) /\ log' = Truncate(log, index))
      /\ raised' = raised /\ agg' = agg /\ Changed({})
  BY DEF TruncateStream
<1>2. /\ log \in Logs /\ LastIndex(log) \in Nat /\ LastIndex(log) <= AllEvents /\ index \in Int
      /\ agg \in [Clients -> Aggregates] /\ log' \in Logs /\ LastIndex(log') \in Nat
  <2>1. log \in Logs /\ log' \in Logs /\ LastIndex(log) <= AllEvents /\ agg \in [Clients -> Aggregates]
    BY DEF IInv, TypeOK
  <2> QED BY <2>1, LogFacts, InputsAssumption
<1>3. \A d \in Clients : uncut'[d] => uncut[d] /\ LastIndex(log') >= LastIndex(log)
  BY <1>1, ChangedFacts DEF IInv
<1>4. LogIds(log') \subseteq LogIds(log)
  BY <1>1, <1>2, TruncatedIds
<1>5. raised \in Nat
  BY Numbers DEF IInv, TypeOK
<1>6. BringsNothing(c)
  BY <1>1, <1>3, <1>4, <1>5 DEF BringsNothing
<1>7. StaysApart(c)
  <2> SUFFICES ASSUME Savable(c)' PROVE Savable(c)
    BY <1>1, <1>4 DEF StaysApart
  <2>1. /\ uncut[c] /\ ~(agg[c].lastIndex < LastIndex(log')) /\ agg[c].lastIndex \in Nat
        /\ LastIndex(log') >= LastIndex(log)
    BY <1>1, <1>2, <1>3, AggregateFacts DEF Savable, Behind
  <2>2. ~(agg[c].lastIndex < LastIndex(log))
    BY <1>2, <2>1
  <2> QED BY <2>1, <2>2 DEF Savable, Behind
<1> QED BY <1>6, <1>7, StepNewInv DEF IInv

-----------------------------------------------------------------------------
LEMMA InitNewInv == Init => NewInv
<1> SUFFICES ASSUME Init PROVE NewInv
  OBVIOUS
<1>1. \A c \in Clients : agg[c] = NewAggregate
  BY DEF Init
<1>2. LogIds(log) = {}
  <2>1. log.events = <<>> /\ Len(<<>>) = 0
    BY DEF Init, EmptyLog
  <2>2. 1 .. Len(log.events) = {}
    BY <2>1
  <2> QED BY <2>2 DEF LogIds
<1> QED BY <1>1, <1>2, NothingInNew DEF NewInv, Raised, Apart

LEMMA NextNewInv == IInv /\ NewInv /\ [Next]_vars => NewInv'
<1> SUFFICES ASSUME IInv, NewInv, [Next]_vars PROVE NewInv'
  OBVIOUS
<1>1. IInv'
  BY NextIInv
<1>2. ASSUME NEW c \in Clients, NEW o \in Operations, Begin(c, o) PROVE NewInv'
  BY <1>1, <1>2, QuietNewInv DEF Begin, IInv
<1>3. ASSUME NEW c \in Clients,
             \/ Resume(c) \/ LoadFirst(c) \/ LoadFails(c)
             \/ CallbackFails(c) \/ Save(c) \/ SaveRefused(c)
      PROVE  NewInv'
  BY <1>1, <1>3, QuietNewInv
     DEF Resume, LoadFirst, LoadFails, CallbackFails, Save, SaveRefused, IInv
<1>4. ASSUME UNCHANGED vars PROVE NewInv'
  <2>1. log' = log /\ raised' = raised /\ agg' = agg /\ uncut' = uncut
    BY <1>4 DEF vars
  <2>2. Raised'
    BY <2>1 DEF NewInv, Raised
  <2>3. ASSUME NEW c \in Clients PROVE Apart(c)'
    BY <2>1 DEF NewInv, Apart, Savable
  <2> QED BY <2>2, <2>3 DEF NewInv
<1>5. ASSUME NEW c \in Clients, NEW n \in 1 .. MaxRaise, Raise(c, n) PROVE NewInv'
  <2>1. Len(agg[c].events) <= AllEvents + raised
    BY DEF IInv, ClientOK
  <2> QED BY <1>1, <1>5, <2>1, RaiseNewInv DEF IInv
<1> QED BY <1>1, <1>2, <1>3, <1>4, <1>5, LoadReadNewInv, AppendBlindlyNewInv,
           SaveAppendsNewInv, SaveMarshalFailsNewInv, SaveWriteFailsNewInv, TruncateStreamNewInv
        DEF Next

(* What an aggregate that can be saved takes for uncommitted is not in the *)
(* stream, whatever failed before, and however often the save is tried     *)
(* again (eventLog.Append, Save, Commit).                                  *)
THEOREM SavableIsNewCorrect == Spec => []SavableIsNew
<1>1. IInv /\ NewInv => SavableIsNew
  <2> SUFFICES ASSUME IInv, NewInv, NEW c \in Clients, uncut[c], ~Behind(agg[c], log),
                      NEW i \in 1 .. Len(Uncommitted(agg[c])), NEW p \in 1 .. Len(log.events)
               PROVE  Uncommitted(agg[c])[i].id # log.events[p]
    BY DEF SavableIsNew
  <2> DEFINE a == agg[c]
  <2>1. a \in Aggregates /\ Tracks(a, log)
    BY DEF IInv, TypeOK, ClientOK, Knows
  <2>2. ~EventsPanics(a)
    BY <2>1, AggregateFacts DEF Tracks, EventsPanics
  <2> HIDE DEF a
  <2>3. /\ Committed(a) \in 0 .. Len(a.events) /\ Len(a.events) \in Nat
        /\ Len(Uncommitted(a)) = Len(a.events) - Committed(a)
        /\ \A j \in 1 .. Len(Uncommitted(a)) : Uncommitted(a)[j] = a.events[Committed(a) + j]
    BY <2>1, <2>2, UncommittedFacts, AggregateFacts
  <2>4. i \in 1 .. Len(a.events) - Committed(a)
    BY <2>3 DEF a
  <2>5. Committed(a) + i \in Committed(a) + 1 .. Len(a.events)
    BY <2>3, <2>4
  <2>6. Uncommitted(a)[i].id \in Pending(a)
    BY <2>3, <2>4, <2>5 DEF Pending
  <2>7. log.events[p] \in LogIds(log)
    BY DEF LogIds
  <2> QED BY <2>6, <2>7 DEF a, NewInv, Apart, Savable
<1> QED BY <1>1, InitNewInv, NextNewInv, Invariance, PTL DEF Spec
-----------------------------------------------------------------------------
(* No conflicts without a change.  While the stream stays what a client     *)
(* loaded or last saved, its aggregate has the version of the stream, and a *)
(* Load under way has read the first index the stream still has.            *)
AtTheEnd(c) ==
  fresh[c] /\ pc[c] \notin {"first", "read"} => agg[c].lastIndex = LastIndex(log)
FreshOK(c) ==
  /\ pc[c] # "idle" => err[c] = "ok"
  /\ fresh[c] /\ pc[c] = "read" => head[c] = FirstIndex(log)
  /\ AtTheEnd(c)

FreshInv == \A c \in Clients : FreshOK(c)

(* An operation of c ends; what its aggregate says of the stream stays true. *)
LEMMA ReturnsFresh ==
  ASSUME TypeOK, NEW c \in Clients, NEW result \in Results, Return(c, result), AtTheEnd(c)'
  PROVE  FreshOK(c)'
<1>1. pc'[c] = "idle"
  BY ReturnFacts
<1> QED BY <1>1 DEF FreshOK

(* c goes on, and neither the stream nor its version changes. *)
LEMMA StaysAtTheEnd ==
  ASSUME NEW c \in Clients, AtTheEnd(c), log' = log, fresh'[c] => fresh[c],
         pc[c] \notin {"first", "read"},
         agg'[c].lastIndex = agg[c].lastIndex
  PROVE  AtTheEnd(c)'
  BY DEF AtTheEnd

LEMMA LoadReadFresh ==
  ASSUME IInv, FreshInv, NEW c \in Clients, LoadRead(c)
  PROVE  FreshOK(c)'
<1>1. /\ pc[c] = "read" /\ log' = log /\ fresh' = fresh
      /\ \E result \in Results : Continue(c) \/ Return(c, result)
  BY DEF LoadRead, Admits, Results
<1>2. TypeOK /\ FreshOK(c) /\ agg[c] = NewAggregate /\ log \in Logs /\ LastIndex(log) <= AllEvents
  BY <1>1 DEF IInv, FreshInv, TypeOK, ClientOK
<1>3. Read(log, 0, AllEvents) = log.events
  BY <1>2, ReadAll
<1>4. CASE log.events = <<>>
  <2>1. agg' = agg /\ LastIndex(log) = 0
    <3>1. log.first = 1 /\ Len(log.events) = 0
      BY <1>2, <1>4 DEF TypeOK
    <3>2. agg' = agg
      BY <1>3, <1>4 DEF LoadRead
    <3> QED BY <3>1, <3>2 DEF LastIndex
  <2>2. AtTheEnd(c)'
    BY <1>1, <1>2, <2>1, NewAggregateFacts DEF AtTheEnd
  <2> QED BY <1>1, <1>2, <2>2, ReturnsFresh DEF FreshOK, Continue, TypeOK
<1>5. CASE log.events # <<>>
  <2>1. agg'[c] = LoadedFrom(head[c], log)
    BY <1>2, <1>3, <1>5 DEF LoadRead, Loaded, LoadedFrom, TypeOK
  <2>2. ASSUME fresh[c] PROVE agg'[c].lastIndex = LastIndex(log)
    <3> DEFINE n == Len(log.events)
               f == Minus(head[c], 1)
    <3>1. head[c] = log.first
      BY <1>1, <1>2, <1>5, <2>2 DEF FreshOK, FirstIndex
    <3>2. /\ n \in Nat /\ n > 0 /\ log.first \in Nat /\ log.first > 0 /\ log.first < Word
          /\ LastIndex(log) = log.first + n - 1 /\ LastIndex(log) < Word
      BY <1>2, <1>5, LogFacts, Numbers
    <3>3. f = log.first - 1
      BY <3>1, <3>2 DEF Minus
    <3>4. agg'[c].lastIndex = Plus(f, n)
      BY <1>2, <2>1, LoadedIs DEF TypeOK
    <3> HIDE DEF f, n
    <3>5. f + n = LastIndex(log)
      BY <3>2, <3>3
    <3>6. Plus(f, n) = LastIndex(log)
      BY <3>2, <3>5 DEF Plus
    <3> QED BY <3>4, <3>6
  <2>3. AtTheEnd(c)'
    BY <1>1, <2>2 DEF AtTheEnd
  <2> QED BY <1>1, <1>2, <2>3, ReturnsFresh DEF FreshOK, Continue, TypeOK
<1> QED BY <1>4, <1>5

LEMMA SaveAppendsFresh ==
  ASSUME IInv, NEW c \in Clients, SaveAppends(c)
  PROVE  FreshOK(c)'
<1> DEFINE a     == agg[c]
           batch == Uncommitted(a)
           s     == Stamps(a, log, Len(batch))
           b     == Commit(s)
<1>1. /\ log' = AppendTo(log, IdsOf(batch)) /\ HasRoom(Len(batch))
      /\ agg' = [agg EXCEPT ![c] = b]
      /\ pc[c] = "append" /\ Return(c, "ok") /\ VersionOK(log, a.lastIndex)
      /\ Changed(IF a.firstIndex = 0 THEN {c} ELSE {})
  BY DEF SaveAppends, StreamVersion
<1>2. /\ TypeOK /\ ClientOK(c) /\ a \in Aggregates /\ ~EventsPanics(a) /\ log \in Logs
      /\ LastIndex(log) \in Nat /\ LastIndex(log) <= AllEvents
      /\ raised \in Nat /\ raised <= MaxEvents
  <2>1. TypeOK /\ ClientOK(c) /\ a \in Aggregates /\ ~EventsPanics(a) /\ log \in Logs
    BY <1>1 DEF IInv, TypeOK, ClientOK
  <2>2. LastIndex(log) <= AllEvents /\ raised \in 0 .. MaxEvents
    BY <2>1 DEF TypeOK
  <2>3. LastIndex(log) \in Nat
    BY <2>1, LogFacts
  <2> HIDE DEF a
  <2> QED BY <2>1, <2>2, <2>3, Numbers
<1>3. /\ batch \in Seq(Entries) /\ Len(batch) \in Nat /\ Len(a.events) \in Nat
      /\ Len(batch) = Len(a.events) - Committed(a) /\ Committed(a) \in Nat
      /\ Committed(a) <= Len(a.events) /\ a.firstIndex \in Nat /\ a.lastIndex \in Nat
      /\ a.firstIndex <= a.lastIndex => Committed(a) = a.lastIndex - a.firstIndex
  <2>1. /\ batch \in Seq(Entries) /\ Committed(a) \in 0 .. Len(a.events)
        /\ Len(batch) = Len(a.events) - Committed(a)
    BY <1>2, UncommittedFacts
  <2>2. /\ Len(a.events) \in Nat /\ a.firstIndex \in Nat /\ a.lastIndex \in Nat
        /\ a.firstIndex <= a.lastIndex => Committed(a) = a.lastIndex - a.firstIndex
    BY <1>2, AggregateFacts
  <2>3. Len(batch) \in Nat
    BY <2>1, AsFunction
  <2> HIDE DEF a, batch
  <2> QED BY <2>1, <2>2, <2>3
<1>4. s \in Aggregates /\ s.firstIndex = a.firstIndex /\ Len(s.events) = Len(a.events)
  <2>1. Len(batch) \in 0 .. Len(a.events) - Committed(a)
    BY <1>3
  <2>2. Len(a.events) <= AllEvents + MaxEvents
    <3>1. Len(a.events) <= AllEvents + raised
      BY <1>2 DEF ClientOK
    <3> QED BY <1>2, <1>3, <3>1, Numbers
  <2> HIDE DEF a, batch
  <2> QED BY <1>2, <2>1, <2>2, StampsFacts
<1>5. IdsOf(batch) \in Seq(1 .. MaxEvents) /\ Len(IdsOf(batch)) = Len(batch)
  BY <1>3, IdsFacts
<1> HIDE DEF s, batch
<1>6. b \in Aggregates /\ b.firstIndex = a.firstIndex /\ b.lastIndex = Len(a.events)
  <2>1. Len(a.events) \in Uint64
    <3>1. Len(a.events) <= AllEvents + raised
      BY <1>2 DEF ClientOK
    <3> QED BY <1>2, <1>3, <3>1, Numbers DEF Uint64
  <2> QED BY <1>4, <2>1 DEF Commit, Aggregates
<1> HIDE DEF b
<1>7. agg'[c] = b
  BY <1>1, <1>2 DEF TypeOK
<1>8. LastIndex(log') = LastIndex(log) + Len(batch)
  BY <1>1, <1>2, <1>5, AppendFacts
<1>9. ASSUME a.firstIndex = 0 PROVE b.lastIndex = LastIndex(log')
  <2>1. Committed(a) = a.lastIndex /\ a.lastIndex <= Len(a.events)
    BY <1>3, <1>9
  <2>2. Len(a.events) < AppendOnly
    <3>1. Len(a.events) <= AllEvents + raised
      BY <1>2 DEF ClientOK
    <3> QED BY <1>2, <1>3, <3>1, Numbers
  <2>3. a.lastIndex = LastIndex(log)
    BY <1>1, <1>3, <2>1, <2>2, Numbers DEF VersionOK
  <2>4. LastIndex(log) + Len(batch) = Len(a.events)
    <3>1. Len(batch) = Len(a.events) - LastIndex(log)
      BY <1>3, <2>1, <2>3
    <3>2. PICK e \in Nat, t \in Nat : e = Len(a.events) /\ t = LastIndex(log)
      BY <1>2, <1>3
    <3>3. Len(batch) = e - t
      BY <3>1, <3>2
    <3>4. t + Len(batch) = e
      BY <3>3
    <3> QED BY <3>2, <3>4
  <2> QED BY <1>6, <1>8, <2>4
<1>10. ASSUME fresh'[c] PROVE a.firstIndex = 0
  <2>1. ASSUME a.firstIndex # 0 PROVE FALSE
    <3>1. Changed({})
      BY <1>1, <2>1
    <3>2. log' = log
      BY <1>10, <3>1 DEF Changed
    <3>3. batch # <<>>
      BY <1>1, <1>2 DEF ClientOK, batch
    <3>4. LastIndex(log') # LastIndex(log)
      BY <1>2, <1>3, <1>8, <3>3 DEF batch
    <3> QED BY <3>2, <3>4
  <2> QED BY <2>1
<1>11. AtTheEnd(c)'
  BY <1>7, <1>9, <1>10 DEF AtTheEnd
<1> QED BY <1>1, <1>2, <1>11, ReturnsFresh DEF Results

(* Numbering events changes no version. *)
LEMMA StampsVersions ==
  ASSUME NEW a \in Aggregates, NEW l, NEW n
  PROVE  /\ Stamps(a, l, n).firstIndex = a.firstIndex
         /\ Stamps(a, l, n).lastIndex = a.lastIndex
  BY DEF Stamps, Aggregates

LEMMA SaveWriteFailsFresh ==
  ASSUME IInv, FreshInv, NEW c \in Clients, NEW n \in 0 .. MaxEvents, SaveWriteFails(c, n)
  PROVE  FreshOK(c)'
<1> DEFINE batch == Uncommitted(agg[c])
<1>1. /\ log' = AppendTo(log, IdsOf(SubSeq(batch, 1, n)))
      /\ agg' = [agg EXCEPT ![c] = Stamps(agg[c], log, Len(batch))]
      /\ pc[c] = "append" /\ Return(c, "write") /\ Changed({})
  BY DEF SaveWriteFails
<1>2. /\ TypeOK /\ FreshOK(c) /\ agg[c] \in Aggregates /\ log \in Logs
      /\ agg \in [Clients -> Aggregates]
  BY DEF IInv, FreshInv, TypeOK
<1>3. /\ agg'[c].firstIndex = agg[c].firstIndex
      /\ agg'[c].lastIndex = agg[c].lastIndex
  BY <1>1, <1>2, StampsVersions
<1>4. fresh'[c] => fresh[c] /\ log' = log
  BY <1>1 DEF Changed
<1>5. AtTheEnd(c)'
  BY <1>1, <1>2, <1>3, <1>4 DEF AtTheEnd, FreshOK
<1> QED BY <1>1, <1>2, <1>5, ReturnsFresh DEF Results

(* The other clients' aggregates stay as they are; a change of the stream  *)
(* is no longer unknown to them.                                           *)
LEMMA BystanderFresh ==
  ASSUME FreshInv, NEW d \in Clients,
         pc'[d] = pc[d], agg'[d] = agg[d], head'[d] = head[d], err'[d] = err[d],
         fresh'[d] => fresh[d] /\ log' = log
  PROVE  FreshOK(d)'
<1>1. FreshOK(d)
  BY DEF FreshInv
<1> QED BY <1>1 DEF FreshOK, AtTheEnd

OthersUntouched(c) ==
  \A d \in Clients \ {c} :
    /\ pc'[d] = pc[d] /\ agg'[d] = agg[d] /\ head'[d] = head[d] /\ err'[d] = err[d]
    /\ fresh'[d] => fresh[d] /\ log' = log

LEMMA StepFresh ==
  ASSUME FreshInv, NEW c \in Clients, FreshOK(c)', OthersUntouched(c)
  PROVE  FreshInv'
<1>1. ASSUME NEW d \in Clients \ {c} PROVE FreshOK(d)'
  BY <1>1, BystanderFresh DEF OthersUntouched
<1> QED BY <1>1 DEF FreshInv

LEMMA ReturnUntouched ==
  ASSUME TypeOK, NEW c \in Clients, NEW result \in Results, Return(c, result)
  PROVE  \A d \in Clients \ {c} : pc'[d] = pc[d] /\ head'[d] = head[d] /\ err'[d] = err[d]
  BY DEF Return, TypeOK

LEMMA BeginningsFresh ==
  ASSUME IInv, FreshInv, NEW c \in Clients,
         (\E o \in Operations : Begin(c, o)) \/ Resume(c) \/ LoadFirst(c)
  PROVE  FreshInv'
<1>1. FreshOK(c) /\ TypeOK
  BY DEF FreshInv, IInv
<1>2. OthersUntouched(c)
  BY <1>1 DEF OthersUntouched, Begin, Resume, LoadFirst, TypeOK
<1>3. ASSUME NEW o \in Operations, Begin(c, o) PROVE FreshOK(c)'
  BY <1>1, <1>3 DEF Begin, FreshOK, AtTheEnd, TypeOK
<1>4. ASSUME Resume(c) PROVE FreshOK(c)'
  BY <1>1, <1>4 DEF Resume, FreshOK, AtTheEnd, TypeOK
<1>5. ASSUME LoadFirst(c) PROVE FreshOK(c)'
  BY <1>1, <1>5 DEF LoadFirst, FreshOK, AtTheEnd, TypeOK
<1> QED BY <1>2, <1>3, <1>4, <1>5, StepFresh

(* Steps that leave the stream and the versions of the aggregates alone. *)
LEMMA QuietFresh ==
  ASSUME IInv, FreshInv, NEW c \in Clients,
         (\E n \in 1 .. MaxRaise : Raise(c, n)) \/ CallbackFails(c) \/ Save(c) \/ SaveRefused(c)
           \/ \E n \in 0 .. MaxEvents : SaveMarshalFails(c, n)
  PROVE  FreshInv'
<1>1. /\ FreshOK(c) /\ TypeOK /\ agg[c] \in Aggregates /\ agg \in [Clients -> Aggregates]
      /\ pc[c] \in {"callback", "append"}
  BY DEF FreshInv, IInv, TypeOK, Raise, CallbackFails, Save, SaveRefused, SaveMarshalFails
<1>2. log' = log /\ fresh' = fresh
  BY DEF Raise, CallbackFails, Save, SaveRefused, SaveMarshalFails
<1>3. /\ agg'[c].firstIndex = agg[c].firstIndex /\ agg'[c].lastIndex = agg[c].lastIndex
      /\ \A d \in Clients \ {c} : agg'[d] = agg[d]
  <2>1. ASSUME NEW n \in 1 .. MaxRaise, Raise(c, n)
        PROVE  /\ agg'[c].firstIndex = agg[c].firstIndex /\ agg'[c].lastIndex = agg[c].lastIndex
               /\ \A d \in Clients \ {c} : agg'[d] = agg[d]
    <3>1. agg' = [agg EXCEPT ![c] = RaiseOn(agg[c], Ids(n))]
      BY <2>1 DEF Raise
    <3>2. /\ RaiseOn(agg[c], Ids(n)).firstIndex = agg[c].firstIndex
          /\ RaiseOn(agg[c], Ids(n)).lastIndex = agg[c].lastIndex
      BY <1>1 DEF RaiseOn, Aggregates
    <3> QED BY <1>1, <3>1, <3>2
  <2>2. ASSUME NEW n \in 0 .. MaxEvents, SaveMarshalFails(c, n)
        PROVE  /\ agg'[c].firstIndex = agg[c].firstIndex /\ agg'[c].lastIndex = agg[c].lastIndex
               /\ \A d \in Clients \ {c} : agg'[d] = agg[d]
    <3>1. agg' = [agg EXCEPT ![c] = Stamps(agg[c], log, n)]
      BY <2>2 DEF SaveMarshalFails
    <3> QED BY <1>1, <3>1, StampsVersions
  <2>3. ASSUME CallbackFails(c) \/ Save(c) \/ SaveRefused(c) PROVE agg' = agg
    BY <2>3 DEF CallbackFails, Save, SaveRefused
  <2> QED BY <2>1, <2>2, <2>3
<1>4. \/ \E result \in Results : Return(c, result)
      \/ pc' = pc /\ head' = head /\ err' = err
      \/ pc' = [pc EXCEPT ![c] = "append"] /\ head' = head /\ err' = err
  BY DEF Raise, CallbackFails, Save, SaveRefused, SaveMarshalFails, Results
<1>5. \A d \in Clients \ {c} : pc'[d] = pc[d] /\ head'[d] = head[d] /\ err'[d] = err[d]
  BY <1>1, <1>4, ReturnUntouched DEF TypeOK
<1>6. AtTheEnd(c)'
  BY <1>1, <1>2, <1>3, StaysAtTheEnd DEF FreshOK
<1>7. FreshOK(c)'
  <2>1. ASSUME NEW result \in Results, Return(c, result) PROVE FreshOK(c)'
    BY <1>1, <1>6, <2>1, ReturnsFresh
  <2>2. ASSUME pc' = pc, head' = head, err' = err PROVE FreshOK(c)'
    BY <1>1, <1>6, <2>2 DEF FreshOK
  <2>3. ASSUME pc' = [pc EXCEPT ![c] = "append"], head' = head, err' = err PROVE FreshOK(c)'
    BY <1>1, <1>6, <2>3 DEF FreshOK, TypeOK
  <2> QED BY <1>4, <2>1, <2>2, <2>3
<1>8. OthersUntouched(c)
  BY <1>2, <1>3, <1>5 DEF OthersUntouched
<1> QED BY <1>7, <1>8, StepFresh

(* Steps that leave the aggregates alone: a Load that fails has loaded      *)
(* nothing, and a change past the aggregate is news to its own client too.  *)
LEMMA UnknownFresh ==
  ASSUME IInv, FreshInv, NEW c \in Clients,
         \/ LoadFails(c)
         \/ \E n \in 1 .. MaxRaise : \E k \in 0 .. n : AppendBlindly(c, n, k)
         \/ \E index \in Indexes : TruncateStream(c, index)
  PROVE  FreshInv'
<1>1. TypeOK /\ agg' = agg /\ \E result \in Results : Return(c, result)
  BY DEF IInv, LoadFails, AppendBlindly, TruncateStream, Results
<1>2. /\ fresh'[c] => pc[c] = "idle"
      /\ \A d \in Clients : fresh'[d] => fresh[d] /\ log' = log
  <2>1. LoadFails(c) => log' = log /\ fresh' = [fresh EXCEPT ![c] = FALSE]
    BY DEF LoadFails
  <2>2. ~LoadFails(c) => Changed({}) /\ pc[c] = "idle"
    BY DEF AppendBlindly, TruncateStream
  <2> QED BY <1>1, <2>1, <2>2 DEF Changed, TypeOK
<1>3. FreshOK(c)'
  <2>1. AtTheEnd(c)'
    BY <1>1, <1>2 DEF AtTheEnd, FreshInv, FreshOK
  <2> QED BY <1>1, <2>1, ReturnsFresh
<1>4. OthersUntouched(c)
  BY <1>1, <1>2, ReturnUntouched DEF OthersUntouched
<1> QED BY <1>3, <1>4, StepFresh

LEMMA ChangersFresh ==
  ASSUME IInv, FreshInv, NEW c \in Clients,
         LoadRead(c) \/ SaveAppends(c) \/ \E n \in 0 .. MaxEvents : SaveWriteFails(c, n)
  PROVE  FreshInv'
<1>1. TypeOK /\ agg \in [Clients -> Aggregates]
  BY DEF IInv, TypeOK
<1>2. \A d \in Clients \ {c} : agg'[d] = agg[d]
  BY <1>1 DEF LoadRead, SaveAppends, SaveWriteFails
<1>3. (\E result \in Results : Return(c, result)) \/ Continue(c)
  BY DEF LoadRead, Admits, SaveAppends, SaveWriteFails, Results
<1>4. \A d \in Clients \ {c} : pc'[d] = pc[d] /\ head'[d] = head[d] /\ err'[d] = err[d]
  BY <1>1, <1>3, ReturnUntouched DEF Continue, TypeOK
<1>5. \A d \in Clients \ {c} : fresh'[d] => fresh[d] /\ log' = log
  <2>1. LoadRead(c) => log' = log /\ fresh' = fresh
    BY DEF LoadRead
  <2>2. ~LoadRead(c) => Changed({c}) \/ Changed({})
    BY DEF SaveAppends, SaveWriteFails
  <2> QED BY <2>1, <2>2 DEF Changed
<1>6. OthersUntouched(c)
  BY <1>2, <1>4, <1>5 DEF OthersUntouched
<1> QED BY <1>6, LoadReadFresh, SaveAppendsFresh, SaveWriteFailsFresh, StepFresh

LEMMA InitFreshInv == Init => FreshInv
<1>1. LastIndex(EmptyLog) = 0
  BY DEF EmptyLog, LastIndex
<1> QED BY <1>1, NewAggregateFacts DEF Init, FreshInv, FreshOK, AtTheEnd

LEMMA NextFreshInv == IInv /\ FreshInv /\ [Next]_vars => FreshInv'
<1> SUFFICES ASSUME IInv, FreshInv, [Next]_vars PROVE FreshInv'
  OBVIOUS
<1>1. ASSUME UNCHANGED vars PROVE FreshInv'
  BY <1>1 DEF vars, FreshInv, FreshOK, AtTheEnd
<1> QED BY <1>1, BeginningsFresh, QuietFresh, UnknownFresh, ChangersFresh DEF Next

(* A client is refused with ErrWrongVersion only when the stream is not what *)
(* it loaded or last saved: another client changed it, or it did so itself   *)
(* past its aggregate, which the part of a batch that a failed write left    *)
(* behind is as well; or its Load had failed; or its last save was one on a  *)
(* stream truncated at the front (eventLog.Append, Save, Commit).            *)
THEOREM RefusedOnlyOnChangeCorrect == Spec => RefusedOnlyOnChange
<1>1. ASSUME IInv, FreshInv, [Next]_vars, NEW c \in Clients,
             pc[c] = "append", err'[c] = "wrong version", fresh[c]
      PROVE  FALSE
  <2>1. TypeOK /\ err[c] = "ok" /\ agg[c].lastIndex = LastIndex(log)
    BY <1>1 DEF IInv, FreshInv, FreshOK, AtTheEnd
  <2>2. VersionOK(log, StreamVersion(agg[c]))
    BY <2>1 DEF VersionOK, StreamVersion
  <2>3. Next
    BY <1>1, <2>1 DEF vars
  <2>4. PICK d \in Clients :
          \/ \E o \in Operations : Begin(d, o)
          \/ Resume(d)
          \/ LoadFirst(d)
          \/ LoadRead(d)
          \/ LoadFails(d)
          \/ \E n \in 1 .. MaxRaise : Raise(d, n)
          \/ \E n \in 1 .. MaxRaise : \E k \in 0 .. n : AppendBlindly(d, n, k)
          \/ CallbackFails(d)
          \/ Save(d)
          \/ SaveAppends(d)
          \/ SaveRefused(d)
          \/ \E n \in 0 .. MaxEvents : SaveMarshalFails(d, n) \/ SaveWriteFails(d, n)
          \/ \E index \in Indexes : TruncateStream(d, index)
    BY <2>3 DEF Next
  <2>5. ASSUME err'[c] = err[c] PROVE FALSE
    BY <1>1, <2>1, <2>5
  <2>6. ASSUME NEW result, Return(d, result) PROVE d = c /\ result = "wrong version"
    BY <1>1, <2>1, <2>6 DEF Return, TypeOK
  <2>7. ASSUME err' = [err EXCEPT ![d] = "ok"] PROVE FALSE
    BY <1>1, <2>1, <2>7 DEF TypeOK
  <2>8. ~Continue(d) /\ err' # err
    BY <2>5 DEF Continue
  <2>9. ~\E result \in Results \ {"wrong version"} : Return(d, result)
    BY <2>6
  <2>10. ASSUME LoadRead(d) PROVE FALSE
    BY <2>8, <2>9, <2>10 DEF LoadRead, Admits, Results
  <2>11. ASSUME SaveRefused(d) PROVE FALSE
    <3>1. d = c
      BY <2>6, <2>11 DEF SaveRefused
    <3> QED BY <2>2, <2>11, <3>1 DEF SaveRefused
  <2>12. ASSUME Save(d) PROVE FALSE
    BY <2>8, <2>9, <2>12 DEF Save, Results
  <2>13. ASSUME (\E o \in Operations : Begin(d, o)) \/ Resume(d) PROVE FALSE
    BY <2>7, <2>13 DEF Begin, Resume
  <2>14. ASSUME LoadFirst(d) \/ \E n \in 1 .. MaxRaise : Raise(d, n) PROVE FALSE
    BY <2>8, <2>14 DEF LoadFirst, Raise
  <2>15. ASSUME \/ LoadFails(d) \/ CallbackFails(d) \/ SaveAppends(d)
                \/ \E n \in 0 .. MaxEvents : SaveMarshalFails(d, n) \/ SaveWriteFails(d, n)
                \/ \E n \in 1 .. MaxRaise : \E k \in 0 .. n : AppendBlindly(d, n, k)
                \/ \E index \in Indexes : TruncateStream(d, index)
         PROVE FALSE
    BY <2>9, <2>15 DEF LoadFails, CallbackFails, SaveAppends, SaveMarshalFails, SaveWriteFails,
                       AppendBlindly, TruncateStream, Results
  <2> QED BY <2>4, <2>10, <2>11, <2>12, <2>13, <2>14, <2>15
<1>2. IInv /\ FreshInv /\ [Next]_vars =>
        [\A c \in Clients :
           pc[c] = "append" /\ err'[c] = "wrong version" => ~fresh[c]]_vars
  BY <1>1
<1> QED BY Invariance, InitFreshInv, NextFreshInv, <1>2, PTL DEF Spec, RefusedOnlyOnChange

-----------------------------------------------------------------------------
(* Events(true) does not panic of an aggregate that starts at 0 and counts *)
(* no more events as committed than it holds.  A torn Load starts it at    *)
(* 0 - 1 instead, with all it holds committed; it is behind the stream     *)
(* then, is not saved, and Commit does not touch it.                       *)
Calm(a, l) ==
  \/ a.firstIndex = 0 /\ a.lastIndex <= Len(a.events)
  \/ Behind(a, l) /\ ~EventsPanics(a)

CalmInv == \A c \in Clients : log.first = 1 /\ uncut[c] => Calm(agg[c], log)

(* The same version, with more events, of a stream that has grown. *)
LEMMA CalmStays ==
  ASSUME NEW a \in Aggregates, NEW b \in Aggregates, NEW l \in Logs, NEW m \in Logs, Calm(a, l),
         b.firstIndex = a.firstIndex, b.lastIndex = a.lastIndex,
         Len(b.events) >= Len(a.events), LastIndex(m) >= LastIndex(l)
  PROVE  Calm(b, m)
<1>1. /\ Len(a.events) \in Nat /\ Len(b.events) \in Nat /\ a.lastIndex \in Nat
      /\ LastIndex(l) \in Nat /\ LastIndex(m) \in Nat
      /\ Committed(a) \in Nat /\ Committed(b) = Committed(a)
  BY AggregateFacts, LogFacts DEF Committed
<1>2. CASE a.firstIndex = 0 /\ a.lastIndex <= Len(a.events)
  BY <1>1, <1>2 DEF Calm
<1>3. CASE Behind(a, l) /\ ~EventsPanics(a)
  <2>1. Behind(b, m)
    BY <1>1, <1>3 DEF Behind
  <2>2. ~EventsPanics(b)
    BY <1>1, <1>3 DEF EventsPanics
  <2> QED BY <2>1, <2>2 DEF Calm
<1> QED BY <1>2, <1>3 DEF Calm

(* What a step of client c must show. *)
LEMMA StepCalm ==
  ASSUME IInv, IInv', CalmInv, NEW c \in Clients,
         log'.first >= log.first,
         \A d \in Clients \ {c} : /\ agg'[d] = agg[d]
                                  /\ uncut'[d] => uncut[d] /\ LastIndex(log') >= LastIndex(log),
         log'.first = 1 /\ uncut'[c] => Calm(agg'[c], log')
  PROVE  CalmInv'
<1>1. ASSUME NEW d \in Clients \ {c}, log'.first = 1, uncut'[d] PROVE Calm(agg'[d], log')
  <2>1. agg[d] \in Aggregates /\ log \in Logs /\ log' \in Logs
    BY DEF IInv, TypeOK
  <2>2. log.first = 1
    BY <1>1, <2>1, LogFacts
  <2>3. Calm(agg[d], log) /\ LastIndex(log') >= LastIndex(log) /\ agg'[d] = agg[d]
    BY <1>1, <2>2 DEF CalmInv
  <2>4. Len(agg[d].events) \in Nat
    BY <2>1, AggregateFacts
  <2> QED BY <2>1, <2>3, <2>4, CalmStays
<1>2. \A d \in Clients : log'.first = 1 /\ uncut'[d] => Calm(agg'[d], log')
  BY <1>1
<1> QED BY <1>2 DEF CalmInv, Calm, Behind, EventsPanics, Committed

(* Steps after which c's aggregate has the version it had. *)
LEMMA VersionCalm ==
  ASSUME IInv, IInv', CalmInv, NEW c \in Clients,
         log'.first >= log.first,
         \A d \in Clients : uncut'[d] => uncut[d] /\ LastIndex(log') >= LastIndex(log),
         \A d \in Clients \ {c} : agg'[d] = agg[d],
         agg'[c].firstIndex = agg[c].firstIndex, agg'[c].lastIndex = agg[c].lastIndex,
         Len(agg'[c].events) >= Len(agg[c].events)
  PROVE  CalmInv'
<1>1. agg[c] \in Aggregates /\ agg'[c] \in Aggregates /\ log \in Logs /\ log' \in Logs
  BY DEF IInv, TypeOK
<1>2. ASSUME log'.first = 1, uncut'[c] PROVE Calm(agg'[c], log')
  <2>1. log.first = 1 /\ uncut[c] /\ LastIndex(log') >= LastIndex(log)
    BY <1>1, <1>2, LogFacts
  <2> QED BY <1>1, <2>1, CalmStays DEF CalmInv
<1> QED BY <1>2, StepCalm

LEMMA QuietCalm ==
  ASSUME IInv, IInv', CalmInv, NEW c \in Clients,
         \/ \E o \in Operations : Begin(c, o)
         \/ Resume(c) \/ LoadFirst(c) \/ LoadFails(c) \/ CallbackFails(c) \/ Save(c) \/ SaveRefused(c)
  PROVE  CalmInv'
<1>1. log' = log /\ uncut' = uncut /\ (agg' = agg \/ agg' = [agg EXCEPT ![c] = NewAggregate])
  BY DEF Begin, Resume, LoadFirst, LoadFails, CallbackFails, Save, SaveRefused
<1>2. /\ log.first \in Nat /\ LastIndex(log) \in Nat /\ agg \in [Clients -> Aggregates]
      /\ Len(agg[c].events) \in Nat
  BY LogFacts, AggregateFacts DEF IInv, TypeOK
<1>3. CASE agg' = agg
  BY <1>1, <1>2, <1>3, VersionCalm
<1>4. CASE agg' = [agg EXCEPT ![c] = NewAggregate]
  <2>1. Calm(agg'[c], log')
    BY <1>2, <1>4, NewAggregateFacts DEF Calm
  <2> QED BY <1>1, <1>2, <1>4, <2>1, StepCalm
<1> QED BY <1>1, <1>3, <1>4

LEMMA RaiseCalm ==
  ASSUME IInv, IInv', CalmInv, NEW c \in Clients, NEW n \in 1 .. MaxRaise, Raise(c, n)
  PROVE  CalmInv'
<1> DEFINE a == agg[c]
           b == RaiseOn(a, Ids(n))
<1>1. /\ log' = log /\ uncut' = uncut /\ raised + n <= MaxEvents
      /\ agg' = [agg EXCEPT ![c] = b]
  BY DEF Raise
<1>2. n \in Nat /\ raised \in Nat /\ log.first \in Nat /\ LastIndex(log) \in Nat
  BY LogFacts, Numbers DEF IInv, TypeOK
<1>3. Ids(n) \in Seq(1 .. MaxEvents) /\ Len(Ids(n)) = n
  BY <1>1, <1>2, IdsInRange DEF IInv
<1>4. a \in Aggregates /\ Len(a.events) \in Nat /\ Len(a.events) <= AllEvents + raised
  BY AggregateFacts DEF IInv, TypeOK, ClientOK
<1>5. Len(a.events) + Len(Ids(n)) <= AllEvents + MaxEvents
  BY <1>1, <1>2, <1>3, <1>4, Numbers
<1>6. /\ b.firstIndex = a.firstIndex /\ b.lastIndex = a.lastIndex
      /\ Len(b.events) = Len(a.events) + n
  BY <1>3, <1>4, <1>5, RaiseFacts
<1>7. agg'[c] = b /\ \A d \in Clients \ {c} : agg'[d] = agg[d]
  BY <1>1 DEF IInv, TypeOK
<1> HIDE DEF b
<1>8. Len(b.events) >= Len(a.events)
  BY <1>2, <1>4, <1>6
<1> QED BY <1>1, <1>2, <1>6, <1>7, <1>8, VersionCalm

(* An append that fails, with nothing or a part of the batch stored. *)
LEMMA SaveFailsCalm ==
  ASSUME IInv, IInv', CalmInv, NEW c \in Clients, NEW n \in 0 .. MaxEvents,
         SaveMarshalFails(c, n) \/ SaveWriteFails(c, n)
  PROVE  CalmInv'
<1> DEFINE a == agg[c]
           batch == Uncommitted(a)
<1>1. /\ pc[c] = "append"
      /\ \E k \in {n, Len(batch)} : k <= Len(batch) /\ agg' = [agg EXCEPT ![c] = Stamps(a, log, k)]
      /\ \/ log' = log /\ uncut' = uncut
         \/ log'.first = log.first /\ Changed({})
  <2>1. ASSUME SaveMarshalFails(c, n)
        PROVE  n <= Len(batch) /\ pc[c] = "append" /\ log' = log /\ uncut' = uncut
                 /\ agg' = [agg EXCEPT ![c] = Stamps(a, log, n)]
    <3>1. Len(batch) \in Nat /\ n \in Nat
      BY <2>1, AboutToAppend, Numbers DEF SaveMarshalFails
    <3> QED BY <2>1, <3>1 DEF SaveMarshalFails
  <2>2. ASSUME SaveWriteFails(c, n)
        PROVE  Len(batch) <= Len(batch) /\ pc[c] = "append" /\ log'.first = log.first /\ Changed({})
                 /\ agg' = [agg EXCEPT ![c] = Stamps(a, log, Len(batch))]
    <3>1. Len(batch) \in Nat
      BY <2>2, AboutToAppend DEF SaveWriteFails
    <3>2. log'.first = log.first
      BY <2>2 DEF SaveWriteFails, AppendTo, IInv, TypeOK, Logs
    <3> QED BY <2>2, <3>1, <3>2 DEF SaveWriteFails
  <2> QED BY <2>1, <2>2
<1>2. PICK k \in {n, Len(batch)} : k <= Len(batch) /\ agg' = [agg EXCEPT ![c] = Stamps(a, log, k)]
  BY <1>1
<1>3. /\ a \in Aggregates /\ ~EventsPanics(a) /\ log \in Logs
      /\ LastIndex(log) \in Nat /\ LastIndex(log) <= AllEvents /\ log.first \in Nat
      /\ agg \in [Clients -> Aggregates] /\ Len(a.events) \in Nat
      /\ Len(batch) \in Nat /\ Len(batch) = Len(a.events) - Committed(a)
  BY <1>1, AboutToAppend, AggregateFacts, LogFacts
<1>4. k \in 0 .. Len(a.events) - Committed(a)
  BY <1>2, <1>3, Numbers
<1>5. LET b == Stamps(a, log, k)
      IN  b.firstIndex = a.firstIndex /\ b.lastIndex = a.lastIndex /\ Len(b.events) = Len(a.events)
  BY <1>3, <1>4, StampsFacts
<1>6. \A d \in Clients : uncut'[d] => uncut[d] /\ LastIndex(log') >= LastIndex(log)
  <2>1. CASE log' = log /\ uncut' = uncut
    BY <1>3, <2>1
  <2>2. CASE Changed({})
    BY <2>2, ChangedFacts DEF IInv
  <2> QED BY <1>1, <2>1, <2>2
<1>7. log'.first >= log.first
  BY <1>1, <1>3
<1>8. /\ agg'[c] = Stamps(a, log, k) /\ \A d \in Clients \ {c} : agg'[d] = agg[d]
      /\ Len(agg'[c].events) >= Len(agg[c].events)
  BY <1>2, <1>3, <1>5
<1> QED BY <1>5, <1>6, <1>7, <1>8, VersionCalm

(* Whoever saves is not behind, and so starts at 0. *)
LEMMA SaveAppendsCalm ==
  ASSUME IInv, IInv', CalmInv, NEW c \in Clients, SaveAppends(c)
  PROVE  CalmInv'
<1> DEFINE a == agg[c]
           batch == Uncommitted(a)
           s == Stamps(a, log, Len(batch))
<1>1. /\ pc[c] = "append" /\ VersionOK(log, a.lastIndex)
      /\ log' = AppendTo(log, IdsOf(batch))
      /\ agg' = [agg EXCEPT ![c] = Commit(s)]
      /\ Changed(IF a.firstIndex = 0 THEN {c} ELSE {})
  BY DEF SaveAppends, StreamVersion
<1>2. /\ a \in Aggregates /\ ~EventsPanics(a) /\ log \in Logs
      /\ LastIndex(log) \in Nat /\ LastIndex(log) <= AllEvents /\ log.first \in Nat
      /\ agg \in [Clients -> Aggregates] /\ Len(a.events) \in Nat
      /\ Len(batch) \in Nat /\ Len(batch) = Len(a.events) - Committed(a)
      /\ Committed(a) \in Nat /\ a.lastIndex \in Nat
  BY <1>1, AboutToAppend, AggregateFacts, LogFacts
<1>3. log'.first = log.first
  BY <1>1, <1>2 DEF AppendTo, Logs
<1>4. \A d \in Clients : uncut'[d] => uncut[d] /\ LastIndex(log') >= LastIndex(log)
  BY <1>1, ChangedFacts DEF IInv
<1>5. agg'[c] = Commit(s) /\ \A d \in Clients \ {c} : agg'[d] = agg[d]
  BY <1>1, <1>2
<1>6. s.firstIndex = a.firstIndex /\ Len(s.events) = Len(a.events)
  <2>1. Len(batch) \in 0 .. Len(a.events) - Committed(a)
    BY <1>2
  <2> QED BY <1>2, <2>1, StampsFacts
<1>7. s.lastIndex = a.lastIndex
  BY <1>2, StampsVersions
<1>8. Commit(s).firstIndex = a.firstIndex /\ Commit(s).lastIndex = Len(s.events) /\ Commit(s).events = s.events
  BY <1>2, <1>6 DEF Commit, Stamps, Aggregates
<1>9. ASSUME log'.first = 1, uncut'[c] PROVE Calm(agg'[c], log')
  <2>1. Calm(a, log) /\ Knows(a, log)
    BY <1>3, <1>4, <1>9 DEF CalmInv, IInv, ClientOK
  <2>2. a.lastIndex <= LastIndex(log)
    BY <1>2, <2>1 DEF Knows, Tracks, Behind
  <2>3. a.lastIndex = LastIndex(log)
    BY <1>1, <1>2, <2>2, Numbers DEF VersionOK
  <2>4. a.firstIndex = 0
    BY <1>2, <2>1, <2>3 DEF Calm, Behind
  <2> HIDE DEF s
  <2> QED BY <1>2, <1>5, <1>6, <1>8, <2>4 DEF Calm
<1>10. log'.first >= log.first
  BY <1>2, <1>3
<1> QED BY <1>4, <1>5, <1>9, <1>10, StepCalm

(* A change past all aggregates. *)
LEMMA OutsideCalm ==
  ASSUME IInv, IInv', CalmInv, NEW c \in Clients,
         \/ \E n \in 1 .. MaxRaise : \E k \in 0 .. n : AppendBlindly(c, n, k)
         \/ \E index \in Indexes : TruncateStream(c, index)
  PROVE  CalmInv'
<1>1. agg' = agg /\ Changed({})
  BY DEF AppendBlindly, TruncateStream
<1>2. /\ log \in Logs /\ LastIndex(log) <= AllEvents /\ log.first \in Nat
      /\ Len(agg[c].events) \in Nat
  BY LogFacts, AggregateFacts DEF IInv, TypeOK
<1>3. log'.first >= log.first
  <2>1. ASSUME NEW index \in Indexes, TruncateStream(c, index) PROVE log'.first >= log.first
    <3>1. log' = log \/ (CanTruncate(log, index) /\ log' = Truncate(log, index))
      BY <2>1 DEF TruncateStream
    <3>2. index \in Int
      BY InputsAssumption
    <3>3. CASE log' = log
      BY <1>2, <3>3
    <3>4. CASE CanTruncate(log, index) /\ log' = Truncate(log, index)
      BY <1>2, <3>2, <3>4, TruncateFacts
    <3> QED BY <3>1, <3>3, <3>4
  <2>2. ASSUME NEW n \in 1 .. MaxRaise, NEW k \in 0 .. n, AppendBlindly(c, n, k)
        PROVE  log'.first >= log.first
    <3>1. log'.first = log.first
      BY <1>2, <2>2 DEF AppendBlindly, AppendTo, Logs
    <3> QED BY <1>2, <3>1
  <2> QED BY <2>1, <2>2
<1>4. \A d \in Clients : uncut'[d] => uncut[d] /\ LastIndex(log') >= LastIndex(log)
  BY <1>1, ChangedFacts DEF IInv
<1> QED BY <1>1, <1>2, <1>3, <1>4, VersionCalm

LEMMA LoadReadCalm ==
  ASSUME IInv, IInv', CalmInv, NEW c \in Clients, LoadRead(c)
  PROVE  CalmInv'
<1>1. log' = log /\ pc[c] = "read" /\ uncut' = [uncut EXCEPT ![c] = TRUE]
  BY DEF LoadRead
<1>2. /\ log \in Logs /\ LastIndex(log) <= AllEvents /\ head[c] \in Uint64
      /\ agg \in [Clients -> Aggregates] /\ uncut \in [Clients -> BOOLEAN]
      /\ LastIndex(log) \in Nat /\ log.first \in Nat
      /\ agg[c] = NewAggregate /\ head[c] <= log.first
  BY <1>1, LogFacts DEF IInv, TypeOK, ClientOK
<1>3. Read(log, 0, AllEvents) = log.events
  BY <1>2, ReadAll
<1>4. \A d \in Clients \ {c} : agg'[d] = agg[d] /\ (uncut'[d] => uncut[d])
  BY <1>1, <1>2 DEF LoadRead
<1>5. ASSUME log.first = 1 PROVE Calm(agg'[c], log)
  <2>1. CASE log.events = <<>>
    <3>1. agg'[c] = NewAggregate
      BY <1>2, <1>3, <2>1 DEF LoadRead
    <3> QED BY <3>1, NewAggregateFacts DEF Calm
  <2>2. CASE log.events # <<>>
    <3> DEFINE n == Len(log.events)
               f == Minus(head[c], 1)
               a == LoadedFrom(head[c], log)
    <3>1. agg'[c] = a
      <4>1. agg' = [agg EXCEPT ![c] = Loaded(c)]
        BY <1>3, <2>2 DEF LoadRead
      <4>2. Loaded(c) = a
        BY <1>2, <1>3 DEF Loaded, LoadedFrom
      <4> QED BY <1>2, <4>1, <4>2
    <3>2. n \in Nat /\ n > 0 /\ LastIndex(log) = n /\ n < Half
      <4>1. n \in Nat /\ n > 0 /\ LastIndex(log) = 1 + n - 1
        BY <1>2, <1>5, <2>2, LogFacts
      <4> HIDE DEF n
      <4> QED BY <1>2, <4>1, Numbers
    <3>3. a.firstIndex = f /\ a.lastIndex = Plus(f, n) /\ Len(a.events) = n
      <4>1. /\ a.firstIndex = f /\ a.lastIndex = Plus(f, n)
            /\ a.events = [i \in 1 .. n |-> [id |-> log.events[i], pos |-> Plus(f, i)]]
        BY <1>2, LoadedIs
      <4> HIDE DEF a, n, f
      <4> QED BY <3>2, <4>1
    <3> HIDE DEF a, n
    <3>4. head[c] = 0 \/ head[c] = 1
      BY <1>2, <1>5, Numbers DEF Uint64
    <3>5. CASE head[c] = 1
      <4>1. f = 0
        BY <3>5 DEF Minus
      <4>2. Plus(f, n) = n
        BY <3>2, <4>1, Numbers DEF Plus
      <4> QED BY <3>1, <3>2, <3>3, <4>1, <4>2 DEF Calm
    <3>6. CASE head[c] = 0
      <4>1. f = Word - 1
        BY <3>6, Numbers DEF Minus
      <4>2. Plus(f, n) = n - 1
        BY <3>2, <4>1, Numbers DEF Plus
      <4>3. Minus(n - 1, Word - 1) = n
        BY <3>2, Numbers DEF Minus
      <4>4. Behind(a, log) /\ ~EventsPanics(a)
        BY <3>2, <3>3, <4>1, <4>2, <4>3 DEF Behind, EventsPanics, Committed
      <4> QED BY <3>1, <4>4 DEF Calm
    <3> QED BY <3>4, <3>5, <3>6
  <2> QED BY <2>1, <2>2
<1>6. log'.first >= log.first /\ LastIndex(log') >= LastIndex(log)
  BY <1>1, <1>2
<1> QED BY <1>1, <1>4, <1>5, <1>6, StepCalm

LEMMA InitCalmInv == Init => CalmInv
  BY NewAggregateFacts DEF Init, CalmInv, Calm

LEMMA NextCalmInv == IInv /\ IInv' /\ CalmInv /\ [Next]_vars => CalmInv'
<1> SUFFICES ASSUME IInv, IInv', CalmInv, [Next]_vars PROVE CalmInv'
  OBVIOUS
<1>1. ASSUME UNCHANGED vars PROVE CalmInv'
  BY <1>1 DEF vars, CalmInv, Calm, Behind, EventsPanics, Committed
<1> QED BY <1>1, QuietCalm, RaiseCalm, SaveFailsCalm, SaveAppendsCalm, OutsideCalm, LoadReadCalm DEF Next

LEMMA CalmMeansNoPanic == IInv /\ CalmInv => PanicsOnlyTruncated
<1> SUFFICES ASSUME IInv, CalmInv, NEW c \in Clients, log.first = 1, uncut[c]
             PROVE  ~EventsPanics(agg[c])
  BY DEF PanicsOnlyTruncated
<1>1. agg[c] \in Aggregates /\ Calm(agg[c], log)
  BY DEF IInv, TypeOK, CalmInv
<1>2. CASE agg[c].firstIndex = 0 /\ agg[c].lastIndex <= Len(agg[c].events)
  <2>1. Committed(agg[c]) = agg[c].lastIndex /\ agg[c].lastIndex \in Nat /\ Len(agg[c].events) \in Nat
    BY <1>1, <1>2, AggregateFacts
  <2> QED BY <1>2, <2>1 DEF EventsPanics
<1> QED BY <1>1, <1>2 DEF Calm

(* No race and no failure makes Events(true) slice out of bounds: it takes *)
(* a stream that was truncated at the front, or cut back since the load    *)
(* (Load, Save, IsAggregate.Events, Commit).                               *)
THEOREM PanicsOnlyTruncatedCorrect == Spec => []PanicsOnlyTruncated
<1>1. IInv /\ CalmInv => PanicsOnlyTruncated
  BY CalmMeansNoPanic
<1> QED BY Invariance, InitCalmInv, NextCalmInv, <1>1, PTL DEF Spec
=============================================================================
