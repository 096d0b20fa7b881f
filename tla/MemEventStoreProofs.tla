------------------------ MODULE MemEventStoreProofs ------------------------
(***************************************************************************)
(* The memory store keeps the guarantees of the disk store that are about  *)
(* saving, for every set of clients, every width of the words and every    *)
(* bound: no lost update, one creator, and nothing stored twice, although  *)
(* it may store half a batch.                                              *)
(***************************************************************************)
EXTENDS MemEventStore, EventStoreSaveProofs

(* A stream that nobody truncates starts at 1, and is read as it is (Load). *)
LEMMA MemReadAll ==
  ASSUME NEW l \in Logs, l.first = 1, LastIndex(l) <= AllEvents
  PROVE  MemRead(l, 0, AllEvents) = l.events
<1>1. Len(l.events) \in Nat /\ LastIndex(l) = Len(l.events)
  BY LogFacts
<1>2. GenerateStreamIDs(MemFirstIndex(l), MemLastIndex(l), 0, AllEvents) = Positions(l, 0, AllEvents)
  BY <1>1 DEF Positions, MemFirstIndex, MemLastIndex, FirstIndex
<1>3. CASE l.events = <<>>
  BY <1>2, <1>3, AllPositions DEF MemRead, MemReadStreamN
<1>4. CASE l.events # <<>>
  <2> DEFINE n == Len(l.events)
             index == [i \in 1 .. n |-> l.first - 1 + i]
  <2>1. Positions(l, 0, AllEvents) = index
    BY <1>4, AllPositions
  <2>2. Len(index) = n /\ \A i \in 1 .. n : index[i] = i
    BY <1>1
  <2> HIDE DEF index
  <2>3. MemRead(l, 0, AllEvents) = [i \in 1 .. n |-> l.events[i]]
    BY <1>2, <2>1, <2>2 DEF MemRead, MemReadStreamN
  <2>4. l.events \in [1 .. n -> 1 .. MaxEvents]
    BY LogFacts, LenProperties
  <2> QED BY <2>3, <2>4
<1> QED BY <1>3, <1>4

-----------------------------------------------------------------------------
(* The inductive invariant.  Append leaves the positions of the            *)
(* aggregate's own events as they were raised, so an aggregate agrees with *)
(* the stream in the ids of its committed events only; and as nobody       *)
(* truncates, it starts where the stream does.                             *)
Same(a, l) ==
  /\ a.firstIndex = 0
  /\ a.lastIndex <= LastIndex(l) /\ a.lastIndex <= Len(a.events)
  /\ \A i \in 1 .. a.lastIndex : a.events[i].id = l.events[i]

SameOrBehind(a, l) == Same(a, l) \/ Behind(a, l)

MemClientOK(c) ==
  /\ uncut[c]
  /\ Len(agg[c].events) <= AllEvents + raised
  /\ pc[c] \in {"first", "read"} => agg[c] = NewAggregate
  /\ pc[c] = "read" => head[c] <= 1
  /\ pc[c] = "append" => ~EventsPanics(agg[c]) /\ Uncommitted(agg[c]) # <<>>
  /\ pc[c] \in {"callback", "append"} =>
       /\ op[c] = "create" => agg[c].lastIndex = 0
       /\ op[c] = "update" => log.events # <<>>
  /\ SameOrBehind(agg[c], log)

MemIInv == TypeOK /\ log.first = 1 /\ \A c \in Clients : MemClientOK(c)

LEMMA MemLogFacts ==
  ASSUME MemIInv
  PROVE  /\ log \in Logs /\ log.first = 1 /\ LastIndex(log) <= AllEvents
         /\ Len(log.events) \in Nat /\ LastIndex(log) = Len(log.events)
         /\ log.events \in Seq(1 .. MaxEvents)
         /\ raised \in Nat /\ raised <= MaxEvents
         /\ agg \in [Clients -> Aggregates]
<1>1. log \in Logs /\ log.first = 1 /\ LastIndex(log) <= AllEvents /\ raised \in 0 .. MaxEvents
      /\ agg \in [Clients -> Aggregates]
  BY DEF MemIInv, TypeOK
<1>2. Len(log.events) \in Nat /\ LastIndex(log) = log.first + Len(log.events) - 1
      /\ log.events \in Seq(1 .. MaxEvents)
  BY <1>1, LogFacts
<1>3. raised \in Nat /\ raised <= MaxEvents
  BY <1>1, Numbers
<1> QED BY <1>1, <1>2, <1>3

(* What a load leaves tracks the stream as it is read, or is behind it. *)
LEMMA TracksIsSame ==
  ASSUME NEW a \in Aggregates, NEW l \in Logs, l.first = 1, Knows(a, l)
  PROVE  SameOrBehind(a, l)
<1>1. CASE Behind(a, l)
  BY <1>1 DEF SameOrBehind
<1>2. CASE Tracks(a, l)
  <2>1. a.firstIndex = 0 /\ a.lastIndex \in Nat /\ Len(a.events) \in Nat
    BY <1>2, AggregateFacts DEF Tracks
  <2>2. a.lastIndex <= LastIndex(l) /\ a.lastIndex <= Len(a.events)
    BY <1>2, <2>1 DEF Tracks
  <2>3. ASSUME NEW i \in 1 .. a.lastIndex PROVE a.events[i].id = l.events[i]
    <3>1. i - a.firstIndex = i /\ i - l.first + 1 = i /\ i \in l.first .. a.lastIndex
      BY <2>1
    <3>2. a.events[i] = [id |-> EventAt(l, i), pos |-> i] /\ EventAt(l, i) = l.events[i]
      BY <1>2, <3>1 DEF Tracks, EventAt
    <3> QED BY <3>2
  <2> QED BY <2>1, <2>2, <2>3 DEF Same, SameOrBehind
<1> QED BY <1>1, <1>2 DEF Knows

(* Others append. *)
LEMMA SameAfterAppend ==
  ASSUME NEW a \in Aggregates, NEW l \in Logs, l.first = 1,
         NEW ids \in Seq(1 .. MaxEvents), SameOrBehind(a, l)
  PROVE  SameOrBehind(a, AppendTo(l, ids))
<1> DEFINE m == AppendTo(l, ids)
<1>1. /\ m.first = l.first /\ LastIndex(m) = LastIndex(l) + Len(ids)
      /\ \A p \in l.first .. LastIndex(l) : EventAt(m, p) = EventAt(l, p)
  BY AppendFacts
<1>2. Len(ids) \in Nat /\ LastIndex(l) \in Nat /\ a.lastIndex \in Nat
  BY AsFunction, LogFacts, AggregateFacts
<1> HIDE DEF m
<1>3. Behind(a, l) => SameOrBehind(a, m)
  BY <1>1, <1>2 DEF Behind, SameOrBehind
<1>4. ASSUME Same(a, l) PROVE Same(a, m)
  <2>1. a.lastIndex <= LastIndex(m)
    BY <1>1, <1>2, <1>4 DEF Same
  <2>2. ASSUME NEW i \in 1 .. a.lastIndex PROVE m.events[i] = l.events[i]
    <3>1. i \in l.first .. LastIndex(l) /\ i - l.first + 1 = i
      BY <1>2, <1>4 DEF Same
    <3> QED BY <1>1, <3>1 DEF EventAt
  <2> QED BY <1>4, <2>1, <2>2 DEF Same
<1> QED BY <1>3, <1>4 DEF SameOrBehind, m

(* The client itself changes only what is uncommitted. *)
LEMMA SameAfterChange ==
  ASSUME NEW a \in Aggregates, NEW b \in Aggregates, NEW l \in Logs, SameOrBehind(a, l),
         b.firstIndex = a.firstIndex, b.lastIndex = a.lastIndex, Len(b.events) >= Len(a.events),
         \A i \in 1 .. Len(a.events) : b.events[i] = a.events[i]
  PROVE  SameOrBehind(b, l)
<1>1. CASE Behind(a, l)
  BY <1>1 DEF Behind, SameOrBehind
<1>2. CASE Same(a, l)
  <2>1. a.lastIndex \in Nat /\ Len(a.events) \in Nat /\ Len(b.events) \in Nat
    BY AggregateFacts
  <2>2. \A i \in 1 .. a.lastIndex : i \in 1 .. Len(a.events)
    BY <1>2, <2>1 DEF Same
  <2> QED BY <1>2, <2>1, <2>2 DEF Same, SameOrBehind
<1> QED BY <1>1, <1>2 DEF SameOrBehind

LEMMA InitMemIInv == Init => MemIInv
<1> SUFFICES ASSUME Init PROVE MemIInv
  OBVIOUS
<1>1. TypeOK
  BY InitIInv DEF IInv
<1>2. log = EmptyLog /\ log.first = 1 /\ log \in Logs /\ raised = 0
  BY <1>1 DEF Init, EmptyLog, TypeOK
<1>3. ASSUME NEW c \in Clients PROVE MemClientOK(c)
  <2>1. pc[c] = "idle" /\ agg[c] = NewAggregate /\ uncut[c]
    BY DEF Init
  <2>2. Len(agg[c].events) = 0 /\ 0 <= AllEvents + raised
    BY <1>2, <2>1, NewAggregateFacts, Numbers
  <2>3. SameOrBehind(agg[c], log)
    BY <1>2, <2>1, NewAggregateFacts, TracksIsSame
  <2> QED BY <2>1, <2>2, <2>3 DEF MemClientOK
<1> QED BY <1>1, <1>2, <1>3 DEF MemIInv

-----------------------------------------------------------------------------
(* What a step of client c must show: the stream grows, if it changes.     *)
Grows ==
  \/ log' = log
  \/ \E ids \in Seq(1 .. MaxEvents) : HasRoom(Len(ids)) /\ log' = AppendTo(log, ids)

MemStep(c) ==
  /\ Grows
  /\ raised' \in 0 .. MaxEvents /\ raised' >= raised
  /\ LocalTypes
  /\ \A d \in Clients \ {c} :
       pc'[d] = pc[d] /\ op'[d] = op[d] /\ agg'[d] = agg[d] /\ head'[d] = head[d]
  /\ uncut' = uncut
  /\ MemClientOK(c)'

LEMMA GrowsFacts ==
  ASSUME MemIInv, Grows
  PROVE  /\ log' \in Logs /\ log'.first = 1 /\ LastIndex(log') <= AllEvents
         /\ log'.events = <<>> => log.events = <<>>
         /\ LastIndex(log) \in Nat /\ LastIndex(log') \in Nat /\ LastIndex(log') >= LastIndex(log)
         /\ \A a \in Aggregates : SameOrBehind(a, log) => SameOrBehind(a, log')
<1>1. log \in Logs /\ log.first = 1 /\ LastIndex(log) \in Nat /\ LastIndex(log) <= AllEvents
  BY MemLogFacts
<1>2. ASSUME NEW ids \in Seq(1 .. MaxEvents), HasRoom(Len(ids)), log' = AppendTo(log, ids)
      PROVE  /\ log' \in Logs /\ log'.first = 1 /\ LastIndex(log') <= AllEvents
             /\ log'.events = <<>> => log.events = <<>>
             /\ LastIndex(log') \in Nat /\ LastIndex(log') >= LastIndex(log)
             /\ \A a \in Aggregates : SameOrBehind(a, log) => SameOrBehind(a, log')
  <2>1. /\ log' \in Logs /\ log'.first = 1 /\ LastIndex(log') = LastIndex(log) + Len(ids)
        /\ log'.events = <<>> => log.events = <<>>
    BY <1>1, <1>2, AppendFacts
  <2>2. Len(ids) \in Nat
    BY LenProperties
  <2>3. LastIndex(log') <= AllEvents
    BY <1>2, <2>1 DEF HasRoom
  <2>4. LastIndex(log') \in Nat /\ LastIndex(log') >= LastIndex(log)
    BY <1>1, <2>1, <2>2
  <2>5. \A a \in Aggregates : SameOrBehind(a, log) => SameOrBehind(a, log')
    BY <1>1, <1>2, SameAfterAppend
  <2> QED BY <2>1, <2>3, <2>4, <2>5
<1>3. CASE log' = log
  BY <1>1, <1>3
<1> QED BY <1>1, <1>2, <1>3 DEF Grows

LEMMA MemStepKeeps ==
  ASSUME MemIInv, NEW c \in Clients, MemStep(c)
  PROVE  MemIInv'
<1>1. /\ log' \in Logs /\ log'.first = 1 /\ LastIndex(log') <= AllEvents
      /\ log'.events = <<>> => log.events = <<>>
      /\ \A a \in Aggregates : SameOrBehind(a, log) => SameOrBehind(a, log')
  BY GrowsFacts DEF MemStep
<1>2. TypeOK'
  BY <1>1 DEF TypeOK, MemStep, LocalTypes
<1>3. ASSUME NEW d \in Clients \ {c} PROVE MemClientOK(d)'
  <2>1. /\ pc'[d] = pc[d] /\ op'[d] = op[d] /\ agg'[d] = agg[d] /\ head'[d] = head[d]
        /\ uncut'[d] = uncut[d]
    BY DEF MemStep
  <2>2. MemClientOK(d) /\ agg[d] \in Aggregates
    BY DEF MemIInv, TypeOK
  <2>3. Len(agg'[d].events) <= AllEvents + raised'
    <3>1. /\ Len(agg[d].events) \in Nat /\ AllEvents \in Nat
          /\ raised \in Nat /\ raised' \in Nat /\ raised' >= raised
      BY <2>2, AggregateFacts, MemLogFacts, Numbers DEF MemStep
    <3>2. Len(agg[d].events) <= AllEvents + raised
      BY <2>2 DEF MemClientOK
    <3> QED BY <2>1, <3>1, <3>2
  <2>4. SameOrBehind(agg'[d], log')
    BY <1>1, <2>1, <2>2 DEF MemClientOK
  <2> QED BY <1>1, <2>1, <2>2, <2>3, <2>4 DEF MemClientOK
<1>4. MemClientOK(c)'
  BY DEF MemStep
<1>5. \A d \in Clients : MemClientOK(d)'
  BY <1>3, <1>4
<1> QED BY <1>1, <1>2, <1>5 DEF MemIInv

-----------------------------------------------------------------------------
(* One lemma for each action, but one for all that only end an operation.  *)

LEMMA MemQuiet ==
  ASSUME MemIInv, log' = log, raised' = raised, uncut' = uncut
  PROVE  /\ Grows /\ raised' \in 0 .. MaxEvents /\ raised' >= raised
         /\ log' \in Logs /\ raised' \in Nat
<1>1. raised \in 0 .. MaxEvents /\ raised \in Nat /\ log \in Logs
  BY MemLogFacts DEF MemIInv, TypeOK
<1> QED BY <1>1 DEF Grows

LEMMA MemReturns ==
  ASSUME MemIInv, NEW c \in Clients, NEW result \in Results, Return(c, result),
         log' = log, raised' = raised, agg' = agg, uncut' = uncut,
         fresh' \in [Clients -> BOOLEAN]
  PROVE  MemIInv'
<1>1. LocalTypes /\ pc'[c] = "idle"
  BY ReturnFacts DEF LocalTypes, MemIInv, TypeOK
<1>2. MemClientOK(c)'
  <2>1. MemClientOK(c)
    BY DEF MemIInv
  <2> QED BY <1>1, <2>1 DEF MemClientOK
<1>3. \A d \in Clients \ {c} : pc'[d] = pc[d] /\ op'[d] = op[d] /\ head'[d] = head[d]
  BY ReturnFacts DEF MemIInv
<1>4. MemStep(c)
  BY <1>1, <1>2, <1>3, MemQuiet DEF MemStep
<1> QED BY <1>4, MemStepKeeps

LEMMA MemBeginKeeps ==
  ASSUME MemIInv, NEW c \in Clients, NEW o \in Operations, Begin(c, o)
  PROVE  MemIInv'
<1>1. log' = log /\ raised' = raised /\ uncut' = uncut /\ LocalTypes
  BY NewAggregateFacts DEF Begin, LocalTypes, MemIInv, TypeOK, Steps, Results
<1>2. \A d \in Clients \ {c} :
         pc'[d] = pc[d] /\ op'[d] = op[d] /\ agg'[d] = agg[d] /\ head'[d] = head[d]
  BY DEF Begin, MemIInv, TypeOK
<1>3. MemClientOK(c)'
  <2>1. pc'[c] = "first" /\ agg'[c] = NewAggregate /\ uncut'[c]
    BY <1>1 DEF Begin, MemIInv, TypeOK, MemClientOK
  <2>2. SameOrBehind(agg'[c], log')
    BY <1>1, <2>1, MemLogFacts, NewAggregateFacts, TracksIsSame
  <2>3. Len(agg'[c].events) <= AllEvents + raised'
    <3>1. 0 <= AllEvents + raised'
      <4>1. \A i \in Nat : 0 <= AllEvents + i
        BY Numbers
      <4> QED BY <1>1, <4>1, MemLogFacts
    <3>2. Len(agg'[c].events) = 0
      BY <2>1, NewAggregateFacts
    <3> QED BY <3>1, <3>2
  <2> QED BY <2>1, <2>2, <2>3 DEF MemClientOK
<1>4. MemStep(c)
  BY <1>1, <1>2, <1>3, MemQuiet DEF MemStep
<1> QED BY <1>4, MemStepKeeps

LEMMA MemResumeKeeps ==
  ASSUME MemIInv, NEW c \in Clients, Resume(c)
  PROVE  MemIInv'
<1>1. log' = log /\ raised' = raised /\ uncut' = uncut /\ LocalTypes
  BY DEF Resume, LocalTypes, MemIInv, TypeOK, Steps, Results
<1>2. \A d \in Clients \ {c} :
         pc'[d] = pc[d] /\ op'[d] = op[d] /\ agg'[d] = agg[d] /\ head'[d] = head[d]
  BY DEF Resume, MemIInv, TypeOK
<1>3. MemClientOK(c)'
  <2>1. pc'[c] = "callback" /\ op'[c] = "save" /\ agg' = agg /\ MemClientOK(c)
    BY DEF Resume, MemIInv, TypeOK
  <2> QED BY <1>1, <2>1 DEF MemClientOK
<1>4. MemStep(c)
  BY <1>1, <1>2, <1>3, MemQuiet DEF MemStep
<1> QED BY <1>4, MemStepKeeps

LEMMA MemLoadFirstKeeps ==
  ASSUME MemIInv, NEW c \in Clients, MemLoadFirst(c)
  PROVE  MemIInv'
<1>1. /\ pc[c] = "first" /\ log' = log /\ raised' = raised /\ uncut' = uncut /\ agg' = agg /\ op' = op
      /\ pc' = [pc EXCEPT ![c] = "read"] /\ head' = [head EXCEPT ![c] = MemFirstIndex(log)]
  BY DEF MemLoadFirst
<1>2. MemFirstIndex(log) \in Uint64 /\ MemFirstIndex(log) <= 1
  BY Numbers DEF MemFirstIndex, Uint64
<1>3. LocalTypes
  BY <1>2 DEF MemLoadFirst, LocalTypes, MemIInv, TypeOK, Steps
<1>4. \A d \in Clients \ {c} :
         pc'[d] = pc[d] /\ op'[d] = op[d] /\ agg'[d] = agg[d] /\ head'[d] = head[d]
  BY <1>1 DEF MemIInv, TypeOK
<1>5. MemClientOK(c)'
  <2>1. pc'[c] = "read" /\ head'[c] <= 1 /\ MemClientOK(c)
    BY <1>1, <1>2 DEF MemIInv, TypeOK
  <2> QED BY <1>1, <2>1 DEF MemClientOK
<1>6. MemStep(c)
  BY <1>1, <1>3, <1>4, <1>5, MemQuiet DEF MemStep
<1> QED BY <1>6, MemStepKeeps

LEMMA MemSaveKeeps ==
  ASSUME MemIInv, NEW c \in Clients, Save(c)
  PROVE  MemIInv'
<1>1. /\ log' = log /\ raised' = raised /\ agg' = agg /\ uncut' = uncut /\ fresh' = fresh
      /\ pc[c] = "callback"
  BY DEF Save
<1>2. ASSUME NEW result \in Results, Return(c, result) PROVE MemIInv'
  BY <1>1, <1>2, MemReturns DEF MemIInv, TypeOK
<1>3. ASSUME ~EventsPanics(agg[c]), Uncommitted(agg[c]) # <<>>,
             pc' = [pc EXCEPT ![c] = "append"], op' = op, head' = head, err' = err
      PROVE  MemIInv'
  <2>1. LocalTypes
    BY <1>1, <1>3 DEF LocalTypes, MemIInv, TypeOK, Steps
  <2>2. pc'[c] = "append" /\ MemClientOK(c) /\ \A d \in Clients \ {c} : pc'[d] = pc[d]
    BY <1>3 DEF MemIInv, TypeOK
  <2>3. MemClientOK(c)'
    BY <1>1, <1>3, <2>2 DEF MemClientOK
  <2>4. MemStep(c)
    BY <1>1, <1>3, <2>1, <2>2, <2>3, MemQuiet DEF MemStep
  <2> QED BY <2>4, MemStepKeeps
<1>4. {"should exist", "panic", "ok"} \subseteq Results
  BY DEF Results
<1> QED BY <1>2, <1>3, <1>4 DEF Save

(* What the callback of an operation may rely on. *)
LEMMA MemLoadReadKeeps ==
  ASSUME MemIInv, NEW c \in Clients, MemLoadRead(c)
  PROVE  MemIInv'
<1> DEFINE loaded == AppendOn(Start(agg[c], Minus(head[c], 1)), MemRead(log, 0, AllEvents))
           b == agg'[c]
<1>1. /\ log' = log /\ raised' = raised /\ fresh' = fresh
      /\ uncut' = [uncut EXCEPT ![c] = TRUE] /\ pc[c] = "read"
  BY DEF MemLoadRead
<1>2. /\ log \in Logs /\ log.first = 1 /\ LastIndex(log) <= AllEvents /\ raised \in Nat
      /\ agg \in [Clients -> Aggregates]
  BY MemLogFacts
<1>3. /\ agg[c] = NewAggregate /\ head[c] <= log.first /\ head[c] \in Uint64
      /\ fresh' \in [Clients -> BOOLEAN] /\ uncut \in [Clients -> BOOLEAN] /\ uncut[c]
  BY <1>1, <1>2 DEF MemIInv, MemClientOK, TypeOK
<1>4. uncut' = uncut
  BY <1>1, <1>3
<1>5. MemRead(log, 0, AllEvents) = log.events
  BY <1>2, MemReadAll
<1>6. loaded = LoadedFrom(head[c], log)
  BY <1>3, <1>5 DEF LoadedFrom
<1> HIDE DEF loaded
<1>7. ASSUME b \in Aggregates, agg' \in [Clients -> Aggregates],
             \A d \in Clients \ {c} : agg'[d] = agg[d],
             Len(b.events) <= AllEvents, SameOrBehind(b, log),
             LocalTypes, \A d \in Clients \ {c} : pc'[d] = pc[d] /\ op'[d] = op[d] /\ head'[d] = head[d],
             \/ pc'[c] = "idle"
             \/ /\ pc'[c] = "callback" /\ op'[c] = op[c]
                /\ op[c] = "create" => b.lastIndex = 0
                /\ op[c] = "update" => log.events # <<>>
      PROVE  MemIInv'
  <2>1. Len(b.events) <= AllEvents + raised'
    <3>1. Len(b.events) \in Nat /\ AllEvents \in Nat /\ raised' \in Nat
      BY <1>1, <1>2, <1>7, AggregateFacts, Numbers
    <3> HIDE DEF b
    <3> QED BY <1>7, <3>1
  <2>2. MemClientOK(c)'
    BY <1>1, <1>3, <1>4, <1>7, <2>1 DEF MemClientOK
  <2>3. MemStep(c)
    BY <1>1, <1>4, <1>7, <2>2, MemQuiet DEF MemStep
  <2> QED BY <2>3, MemStepKeeps
<1>8. ASSUME b \in Aggregates, agg' \in [Clients -> Aggregates],
             \A d \in Clients \ {c} : agg'[d] = agg[d],
             Len(b.events) <= AllEvents, SameOrBehind(b, log),
             NEW result \in Results, Return(c, result)
      PROVE  MemIInv'
  <2>1. LocalTypes
    BY <1>3, <1>4, <1>8, ReturnFacts DEF LocalTypes, MemIInv
  <2> HIDE DEF b
  <2> QED BY <1>7, <1>8, <2>1, ReturnFacts DEF MemIInv
<1>9. ASSUME b \in Aggregates, agg' \in [Clients -> Aggregates],
             \A d \in Clients \ {c} : agg'[d] = agg[d],
             Len(b.events) <= AllEvents, SameOrBehind(b, log), Continue(c),
             op[c] = "create" => b.lastIndex = 0,
             op[c] = "update" => log.events # <<>>
      PROVE  MemIInv'
  <2>1. pc' = [pc EXCEPT ![c] = "callback"] /\ op' = op /\ head' = head /\ err' = err
    BY <1>9 DEF Continue
  <2>2. pc'[c] = "callback" /\ \A d \in Clients \ {c} : pc'[d] = pc[d]
    BY <2>1 DEF MemIInv, TypeOK
  <2>3. LocalTypes
    BY <1>3, <1>4, <1>9, <2>1 DEF LocalTypes, MemIInv, TypeOK, Steps
  <2> HIDE DEF b
  <2> QED BY <1>7, <1>9, <2>1, <2>2, <2>3
<1>10. CASE log.events = <<>>
  <2>1. agg' = agg /\ (IF op[c] \in {"create", "upsert"} THEN Continue(c) ELSE Return(c, "not found"))
    BY <1>5, <1>10 DEF MemLoadRead
  <2>2. b = NewAggregate
    BY <1>3, <2>1
  <2>3. "not found" \in Results
    BY DEF Results
  <2> HIDE DEF b
  <2>4. b \in Aggregates /\ Len(b.events) <= AllEvents /\ b.lastIndex = 0 /\ SameOrBehind(b, log)
    BY <1>2, <2>2, NewAggregateFacts, TracksIsSame, Numbers
  <2> QED BY <1>2, <1>8, <1>9, <2>1, <2>3, <2>4
<1>11. CASE log.events # <<>>
  <2>1. /\ agg' = [agg EXCEPT ![c] = loaded]
        /\ IF Admits(op[c], loaded) = "ok" THEN Continue(c) ELSE Return(c, Admits(op[c], loaded))
    BY <1>5, <1>11 DEF MemLoadRead, loaded
  <2>2. /\ loaded \in Aggregates /\ Len(loaded.events) <= AllEvents
        /\ loaded.lastIndex = Version(loaded) /\ Knows(loaded, log)
    BY <1>2, <1>3, <1>6, <1>11, LoadedFacts
  <2>3. SameOrBehind(loaded, log)
    BY <1>2, <2>2, TracksIsSame
  <2>4. /\ b = loaded /\ agg' \in [Clients -> Aggregates]
        /\ \A d \in Clients \ {c} : agg'[d] = agg[d]
    BY <1>2, <2>1, <2>2
  <2>5. Admits(op[c], loaded) \in {"ok", "should exist", "should not exist"}
    BY DEF Admits
  <2>6. {"ok", "should exist", "should not exist"} \subseteq Results
    BY DEF Results
  <2>7. Admits(op[c], loaded) = "ok" /\ op[c] = "create" => loaded.lastIndex = 0
    BY <2>2 DEF Admits, NotExists
  <2> HIDE DEF b
  <2> QED BY <1>8, <1>9, <1>11, <2>1, <2>2, <2>3, <2>4, <2>5, <2>6, <2>7
<1> QED BY <1>10, <1>11

LEMMA MemRaiseKeeps ==
  ASSUME MemIInv, NEW c \in Clients, NEW n \in 1 .. MaxRaise, Raise(c, n)
  PROVE  MemIInv'
<1> DEFINE a == agg[c]
           b == RaiseOn(a, Ids(n))
<1>1. /\ log' = log /\ pc' = pc /\ op' = op /\ head' = head /\ err' = err /\ uncut' = uncut /\ fresh' = fresh
      /\ raised' = raised + n /\ raised + n <= MaxEvents /\ pc[c] = "callback"
      /\ agg' = [agg EXCEPT ![c] = b]
  BY DEF Raise
<1>2. n \in Nat
  BY Numbers
<1>3. /\ Ids(n) \in Seq(1 .. MaxEvents) /\ Len(Ids(n)) = n
      /\ raised \in Nat /\ raised' \in 0 .. MaxEvents /\ raised' >= raised
  BY <1>1, <1>2, IdsInRange DEF MemIInv
<1>4. /\ MemClientOK(c) /\ a \in Aggregates /\ Len(a.events) \in Nat
      /\ Len(a.events) <= AllEvents + raised
  <2>1. MemClientOK(c) /\ a \in Aggregates
    BY DEF MemIInv, TypeOK
  <2> QED BY <2>1, AggregateFacts DEF MemClientOK
<1>5. Len(a.events) + Len(Ids(n)) <= AllEvents + MaxEvents
  BY <1>1, <1>2, <1>3, <1>4, Numbers
<1>6. /\ b \in Aggregates /\ b.firstIndex = a.firstIndex /\ b.lastIndex = a.lastIndex
      /\ Len(b.events) = Len(a.events) + n
      /\ \A i \in 1 .. Len(a.events) : b.events[i] = a.events[i]
  BY <1>3, <1>4, <1>5, RaiseFacts
<1>7. agg'[c] = b /\ agg' \in [Clients -> Aggregates] /\ \A d \in Clients \ {c} : agg'[d] = agg[d]
  BY <1>1, <1>6 DEF MemIInv, TypeOK
<1> HIDE DEF b, a
<1>8. LocalTypes
  BY <1>1, <1>7 DEF LocalTypes, MemIInv, TypeOK
<1>9. MemClientOK(c)'
  <2>1. Len(b.events) <= AllEvents + raised'
    <3>1. Len(a.events) \in Nat /\ AllEvents \in Nat /\ raised \in Nat
      BY <1>3, <1>4, Numbers
    <3>2. /\ Len(b.events) = Len(a.events) + n /\ raised' = raised + n
          /\ Len(a.events) <= AllEvents + raised
      BY <1>1, <1>4, <1>6
    <3> QED BY <1>2, <3>1, <3>2
  <2>2. SameOrBehind(b, log)
    <3>1. log \in Logs /\ Len(b.events) >= Len(a.events) /\ SameOrBehind(a, log)
      BY <1>2, <1>4, <1>6, MemLogFacts DEF MemClientOK, a
    <3> QED BY <1>4, <1>6, <3>1, SameAfterChange
  <2> QED BY <1>1, <1>4, <1>6, <1>7, <2>1, <2>2 DEF MemClientOK, a
<1>10. MemStep(c)
  BY <1>1, <1>3, <1>7, <1>8, <1>9 DEF MemStep, Grows
<1> QED BY <1>10, MemStepKeeps

(* The first k of some ids. *)
LEMMA FirstIds ==
  ASSUME NEW ids \in Seq(1 .. MaxEvents), NEW k \in 0 .. Len(ids)
  PROVE  /\ SubSeq(ids, 1, k) \in Seq(1 .. MaxEvents) /\ Len(SubSeq(ids, 1, k)) = k
         /\ \A i \in 1 .. k : SubSeq(ids, 1, k)[i] = ids[i]
<1>1. Len(ids) \in Nat /\ \A i \in 1 .. Len(ids) : ids[i] \in 1 .. MaxEvents
  BY AsFunction
<1>2. k \in Nat /\ \A i \in 1 .. k : ids[i] \in 1 .. MaxEvents
  BY <1>1
<1>3. /\ k - 1 + 1 = k /\ (~(1 <= k) => k = 0) /\ \A i \in 1 .. k : 1 + i - 1 = i
  BY <1>2
<1> QED BY <1>2, <1>3, SubSeqProperties

(* A batch, or a part of it, is stored: the stream grows, and nothing was  *)
(* ever cut off it.                                                        *)
LEMMA MemAppends ==
  ASSUME MemIInv, NEW c \in Clients, NEW batch \in Seq(1 .. MaxEvents), NEW k \in 0 .. Len(batch),
         MemAppend(c, batch, k), NEW savers, Changed(savers)
  PROVE  /\ Grows /\ uncut' = uncut /\ fresh' \in [Clients -> BOOLEAN]
         /\ LastIndex(log') = LastIndex(log) + k
         /\ \E result \in Results : Return(c, result)
<1> DEFINE ids == SubSeq(batch, 1, k)
<1>1. ids \in Seq(1 .. MaxEvents) /\ Len(ids) = k
  BY FirstIds
<1>2. log' = AppendTo(log, ids) /\ HasRoom(k)
  BY DEF MemAppend
<1> HIDE DEF ids
<1>3. Grows
  BY <1>1, <1>2 DEF Grows
<1>4. LastIndex(log') = LastIndex(log) + k
  BY <1>1, <1>2, AppendFacts, MemLogFacts
<1>5. uncut' = uncut
  <2>1. LastIndex(log') >= LastIndex(log)
    BY <1>3, GrowsFacts
  <2>2. uncut \in [Clients -> BOOLEAN]
    BY DEF MemIInv, TypeOK
  <2> QED BY <2>1, <2>2 DEF Changed
<1>6. fresh' \in [Clients -> BOOLEAN]
  BY ChangedFacts DEF MemIInv
<1>7. \E result \in Results : Return(c, result)
  BY DEF MemAppend, Results
<1> QED BY <1>3, <1>4, <1>5, <1>6, <1>7

LEMMA MemAppendBlindlyKeeps ==
  ASSUME MemIInv, NEW c \in Clients, NEW n \in 1 .. MaxRaise, NEW k \in 0 .. n, MemAppendBlindly(c, n, k)
  PROVE  MemIInv'
<1>1. /\ pc[c] = "idle" /\ raised + n <= MaxEvents /\ raised' = raised + n
      /\ MemAppend(c, Ids(n), k) /\ Changed({}) /\ agg' = agg
  BY DEF MemAppendBlindly
<1>2. n \in Nat
  BY Numbers
<1>3. /\ Ids(n) \in Seq(1 .. MaxEvents) /\ Len(Ids(n)) = n
      /\ raised \in Nat /\ raised' \in 0 .. MaxEvents /\ raised' >= raised
  BY <1>1, <1>2, IdsInRange DEF MemIInv
<1>4. Grows /\ uncut' = uncut /\ fresh' \in [Clients -> BOOLEAN]
  BY <1>1, <1>3, MemAppends
<1>5. PICK result \in Results : Return(c, result)
  BY <1>1, <1>3, MemAppends
<1>6. agg \in [Clients -> Aggregates] /\ MemClientOK(c)
  BY DEF MemIInv, TypeOK
<1>7. LocalTypes /\ pc'[c] = "idle"
  BY <1>1, <1>4, <1>5, <1>6, ReturnFacts DEF LocalTypes, MemIInv, TypeOK
<1>8. MemClientOK(c)'
  <2>1. Len(agg[c].events) <= AllEvents + raised'
    <3>1. Len(agg[c].events) \in Nat /\ Len(agg[c].events) <= AllEvents + raised
      BY <1>6, AggregateFacts DEF MemClientOK
    <3>2. AllEvents \in Nat /\ raised \in Nat /\ raised' \in Nat /\ raised' >= raised
      BY <1>1, <1>2, <1>3, Numbers
    <3> QED BY <3>1, <3>2
  <2>2. SameOrBehind(agg[c], log')
    BY <1>4, <1>6, GrowsFacts DEF MemClientOK
  <2> QED BY <1>1, <1>4, <1>6, <1>7, <2>1, <2>2 DEF MemClientOK
<1>9. \A d \in Clients \ {c} : pc'[d] = pc[d] /\ op'[d] = op[d] /\ head'[d] = head[d]
  BY <1>5, ReturnFacts DEF MemIInv
<1>10. MemStep(c)
  BY <1>1, <1>3, <1>4, <1>7, <1>8, <1>9 DEF MemStep
<1> QED BY <1>10, MemStepKeeps

(* Who appends holds the stream's events to its end, and its batch is what *)
(* follows them.                                                           *)
LEMMA MemAboutToAppend ==
  ASSUME MemIInv, NEW c \in Clients, pc[c] = "append",
         MemVersionOK(log, StreamVersion(agg[c]))
  PROVE  LET a == agg[c]
             batch == Uncommitted(a)
             k == Len(log.events)
         IN  /\ a \in Aggregates /\ Same(a, log) /\ a.lastIndex = k
             /\ k \in Nat /\ k = LastIndex(log) /\ Committed(a) = k
             /\ Len(a.events) \in Nat /\ Len(a.events) <= AllEvents + raised
             /\ batch \in Seq(Entries) /\ Len(batch) \in Nat /\ Len(a.events) = k + Len(batch)
             /\ \A i \in 1 .. Len(batch) : batch[i] = a.events[k + i]
<1> DEFINE a == agg[c]
           batch == Uncommitted(a)
           k == Len(log.events)
<1>1. /\ a \in Aggregates /\ ~EventsPanics(a) /\ SameOrBehind(a, log)
      /\ Len(a.events) <= AllEvents + raised
  BY DEF MemIInv, TypeOK, MemClientOK
<1>2. k \in Nat /\ LastIndex(log) = k /\ k <= AllEvents
  BY MemLogFacts
<1>3. a.lastIndex \in {AppendOnly, k}
  BY DEF MemVersionOK, StreamVersion
<1> HIDE DEF a
<1>4. a.lastIndex <= k
  <2>1. a.lastIndex \in Nat
    BY <1>1, AggregateFacts
  <2> QED BY <1>1, <1>2, <2>1 DEF SameOrBehind, Same, Behind
<1>5. a.lastIndex = k
  BY <1>2, <1>3, <1>4, Numbers
<1>6. Same(a, log)
  BY <1>1, <1>2, <1>5 DEF SameOrBehind, Behind
<1>7. Committed(a) = k
  BY <1>1, <1>2, <1>5, <1>6, AggregateFacts DEF Same
<1>8. /\ k \in 0 .. Len(a.events) /\ batch \in Seq(Entries)
      /\ Len(batch) = Len(a.events) - k
      /\ \A i \in 1 .. Len(batch) : batch[i] = a.events[k + i]
  BY <1>1, <1>7, UncommittedFacts
<1>9. Len(a.events) \in Nat
  BY <1>1, AggregateFacts
<1>10. Len(batch) \in Nat /\ Len(a.events) = k + Len(batch)
  BY <1>2, <1>8, <1>9
<1> QED BY <1>1, <1>2, <1>5, <1>6, <1>7, <1>8, <1>9, <1>10 DEF a

(* A save that stored the whole batch leaves an aggregate that is the      *)
(* stream; one that stored a part leaves it behind.                        *)
LEMMA MemSaved ==
  ASSUME MemIInv, NEW c \in Clients, NEW n \in 0 .. MaxEvents, MemSaveAppends(c, n)
  PROVE  LET a == agg[c]
             b == agg'[c]
             batch == Uncommitted(a)
             ids == SubSeq(IdsOf(batch), 1, n)
         IN  /\ n \in 0 .. Len(batch)
             /\ IdsOf(batch) \in Seq(1 .. MaxEvents) /\ Len(IdsOf(batch)) = Len(batch)
             /\ ids \in Seq(1 .. MaxEvents) /\ Len(ids) = n
             /\ \A i \in 1 .. n : ids[i] = a.events[Len(log.events) + i].id
             /\ log' = AppendTo(log, ids) /\ LastIndex(log') = Len(log.events) + n
             /\ Grows /\ uncut' = uncut
             /\ agg' \in [Clients -> Aggregates] /\ \A d \in Clients \ {c} : agg'[d] = agg[d]
             /\ b.events = a.events /\ b.firstIndex = 0
             /\ n = Len(batch) => b.lastIndex = Len(a.events)
             /\ n # Len(batch) => b = a
<1> DEFINE a == agg[c]
           b == agg'[c]
           batch == Uncommitted(a)
           ids == SubSeq(IdsOf(batch), 1, n)
<1>1. /\ pc[c] = "append" /\ MemVersionOK(log, StreamVersion(a)) /\ n <= Len(batch)
      /\ MemAppend(c, IdsOf(batch), n) /\ raised' = raised
      /\ Changed(IF n = Len(batch) THEN {c} ELSE {})
      /\ agg' = IF n = Len(batch) THEN [agg EXCEPT ![c] = Commit(agg[c])] ELSE agg
  BY DEF MemSaveAppends
<1>2. /\ a \in Aggregates /\ Same(a, log) /\ Len(a.events) \in Nat
      /\ Len(a.events) <= AllEvents + raised
      /\ batch \in Seq(Entries) /\ Len(batch) \in Nat
      /\ \A i \in 1 .. Len(batch) : batch[i] = a.events[Len(log.events) + i]
      /\ LastIndex(log) = Len(log.events)
  BY <1>1, MemAboutToAppend
<1>3. n \in 0 .. Len(batch)
  <2>1. n \in Nat
    BY Numbers
  <2> QED BY <1>1, <1>2, <2>1
<1>4. /\ IdsOf(batch) \in Seq(1 .. MaxEvents) /\ Len(IdsOf(batch)) = Len(batch)
      /\ \A i \in 1 .. Len(batch) : IdsOf(batch)[i] = batch[i].id
  BY <1>2, IdsFacts
<1>5. /\ ids \in Seq(1 .. MaxEvents) /\ Len(ids) = n
      /\ \A i \in 1 .. n : ids[i] = IdsOf(batch)[i]
  BY <1>3, <1>4, FirstIds
<1>6. \A i \in 1 .. n : ids[i] = a.events[Len(log.events) + i].id
  <2>1. \A i \in 1 .. n : i \in 1 .. Len(batch)
    BY <1>2, <1>3
  <2> HIDE DEF ids, batch, a
  <2> QED BY <1>2, <1>4, <1>5, <2>1
<1>7. log' = AppendTo(log, ids)
  BY <1>1 DEF MemAppend
<1>8. Grows /\ uncut' = uncut /\ LastIndex(log') = Len(log.events) + n
  <2> HIDE DEF batch
  <2> QED BY <1>1, <1>2, <1>3, <1>4, MemAppends
<1>9. /\ agg \in [Clients -> Aggregates] /\ Len(a.events) \in Uint64
  <2>1. raised \in Nat /\ raised <= MaxEvents /\ agg \in [Clients -> Aggregates]
    BY MemLogFacts
  <2> QED BY <1>2, <2>1, Numbers DEF Uint64
<1>10. CASE n = Len(batch)
  <2>1. agg' = [agg EXCEPT ![c] = Commit(a)]
    BY <1>1, <1>10
  <2>2. /\ Commit(a) \in Aggregates /\ Commit(a).events = a.events
        /\ Commit(a).firstIndex = a.firstIndex /\ Commit(a).lastIndex = Len(a.events)
    <3> HIDE DEF a
    <3> QED BY <1>2, <1>9 DEF Commit, Aggregates
  <2>3. b = Commit(a) /\ agg' \in [Clients -> Aggregates] /\ \A d \in Clients \ {c} : agg'[d] = agg[d]
    BY <1>9, <2>1, <2>2
  <2> HIDE DEF a, b, batch, ids
  <2> QED BY <1>2, <1>3, <1>4, <1>5, <1>6, <1>7, <1>8, <1>10, <2>2, <2>3 DEF Same, a, b, batch, ids
<1>11. CASE n # Len(batch)
  <2>1. agg' = agg
    BY <1>1, <1>11
  <2>2. b = a
    BY <2>1
  <2> HIDE DEF a, b, batch, ids
  <2> QED BY <1>2, <1>3, <1>4, <1>5, <1>6, <1>7, <1>8, <1>9, <1>11, <2>1, <2>2 DEF Same, a, b, batch, ids
<1> QED BY <1>10, <1>11

(* The stream behind k, where the batch went. *)
LEMMA AppendedAt ==
  ASSUME NEW l \in Logs, NEW ids \in Seq(1 .. MaxEvents), NEW i \in 1 .. Len(l.events) + Len(ids)
  PROVE  /\ AppendTo(l, ids).events \in Seq(1 .. MaxEvents)
         /\ Len(AppendTo(l, ids).events) = Len(l.events) + Len(ids)
         /\ i <= Len(l.events) => i \in 1 .. Len(l.events) /\ AppendTo(l, ids).events[i] = l.events[i]
         /\ i > Len(l.events) => /\ i - Len(l.events) \in 1 .. Len(ids)
                                 /\ AppendTo(l, ids).events[i] = ids[i - Len(l.events)]
<1>1. l.events \in Seq(1 .. MaxEvents) /\ Len(l.events) \in Nat /\ Len(ids) \in Nat
  BY LogFacts, LenProperties
<1>2. AppendTo(l, ids).events = l.events \o ids
  BY LogFacts DEF AppendTo
<1>3. /\ l.events \o ids \in Seq(1 .. MaxEvents) /\ Len(l.events \o ids) = Len(l.events) + Len(ids)
      /\ (l.events \o ids)[i] = IF i <= Len(l.events) THEN l.events[i] ELSE ids[i - Len(l.events)]
  BY <1>1, ConcatProperties
<1>4. i <= Len(l.events) => i \in 1 .. Len(l.events)
  BY <1>1
<1>5. i > Len(l.events) => i - Len(l.events) \in 1 .. Len(ids) /\ ~(i <= Len(l.events))
  BY <1>1
<1> QED BY <1>2, <1>3, <1>4, <1>5

LEMMA MemSaveAppendsKeeps ==
  ASSUME MemIInv, NEW c \in Clients, NEW n \in 0 .. MaxEvents, MemSaveAppends(c, n)
  PROVE  MemIInv'
<1> DEFINE a == agg[c]
           b == agg'[c]
           batch == Uncommitted(a)
           k == Len(log.events)
           ids == SubSeq(IdsOf(batch), 1, n)
<1>1. /\ pc[c] = "append" /\ MemVersionOK(log, StreamVersion(a)) /\ raised' = raised
      /\ MemAppend(c, IdsOf(batch), n)
      /\ Changed(IF n = Len(batch) THEN {c} ELSE {})
  BY DEF MemSaveAppends
<1>2. /\ a \in Aggregates /\ Same(a, log) /\ a.lastIndex = k
      /\ k \in Nat /\ Len(a.events) \in Nat /\ Len(a.events) <= AllEvents + raised
      /\ Len(batch) \in Nat /\ Len(a.events) = k + Len(batch)
  BY <1>1, MemAboutToAppend
<1>3. /\ n \in 0 .. Len(batch)
      /\ IdsOf(batch) \in Seq(1 .. MaxEvents) /\ Len(IdsOf(batch)) = Len(batch)
      /\ ids \in Seq(1 .. MaxEvents) /\ Len(ids) = n
      /\ \A i \in 1 .. n : ids[i] = a.events[k + i].id
      /\ log' = AppendTo(log, ids) /\ LastIndex(log') = k + n
      /\ Grows /\ uncut' = uncut
      /\ agg' \in [Clients -> Aggregates] /\ \A d \in Clients \ {c} : agg'[d] = agg[d]
      /\ b.events = a.events /\ b.firstIndex = 0
      /\ n = Len(batch) => b.lastIndex = Len(a.events)
      /\ n # Len(batch) => b = a
  BY MemSaved
<1> HIDE DEF a, b, batch, k, ids
<1>5. fresh' \in [Clients -> BOOLEAN] /\ \E result \in Results : Return(c, result)
  BY <1>1, <1>3, MemAppends
<1>6. PICK result \in Results : Return(c, result)
  BY <1>5
<1>7. LocalTypes /\ pc'[c] = "idle"
  BY <1>3, <1>5, <1>6, ReturnFacts DEF LocalTypes, MemIInv, TypeOK
<1>8. SameOrBehind(b, log')
  <2>1. CASE n = Len(batch)
    <3>1. b.lastIndex = k + n /\ b.lastIndex <= LastIndex(log') /\ b.lastIndex <= Len(b.events)
      BY <1>2, <1>3, <2>1
    <3>2. ASSUME NEW i \in 1 .. k + n PROVE b.events[i].id = log'.events[i]
      <4>1. /\ i <= k => i \in 1 .. k /\ log'.events[i] = log.events[i]
            /\ i > k => i - k \in 1 .. n /\ log'.events[i] = ids[i - k]
        BY <1>3, AppendedAt, MemLogFacts DEF k
      <4>2. CASE i <= k
        BY <1>2, <1>3, <4>1, <4>2 DEF Same
      <4>3. CASE i > k
        <5>1. k + (i - k) = i
          BY <1>2
        <5>2. ids[i - k] = a.events[i].id
          BY <1>3, <4>1, <4>3, <5>1
        <5> QED BY <1>3, <4>1, <4>3, <5>2
      <4>4. i <= k \/ i > k
        BY <1>2, <1>3
      <4> QED BY <4>2, <4>3, <4>4
    <3> QED BY <1>3, <3>1, <3>2 DEF Same, SameOrBehind
  <2>2. CASE n # Len(batch)
    <3>1. b = a /\ SameOrBehind(a, log)
      BY <1>2, <1>3, <2>2 DEF SameOrBehind
    <3> QED BY <1>2, <1>3, <3>1, GrowsFacts
  <2> QED BY <2>1, <2>2
<1>9. MemClientOK(c)'
  <2>1. MemClientOK(c)
    BY DEF MemIInv
  <2> QED BY <1>1, <1>2, <1>3, <1>7, <1>8, <2>1 DEF MemClientOK, b
<1>10. \A d \in Clients \ {c} : pc'[d] = pc[d] /\ op'[d] = op[d] /\ head'[d] = head[d]
  BY <1>6, ReturnFacts DEF MemIInv
<1>11. raised' \in 0 .. MaxEvents /\ raised' >= raised
  BY <1>1, MemLogFacts DEF MemIInv, TypeOK
<1>12. MemStep(c)
  BY <1>3, <1>7, <1>9, <1>10, <1>11 DEF MemStep
<1> QED BY <1>12, MemStepKeeps

(* Nothing is truncated, and an index of zero is refused quietly. *)
LEMMA MemTruncates ==
  ASSUME MemIInv, NEW c \in Clients, NEW index \in Indexes, TruncateStream(c, index)
  PROVE  /\ log' = log /\ raised' = raised /\ agg' = agg /\ uncut' = uncut
         /\ fresh' \in [Clients -> BOOLEAN]
         /\ Return(c, "no driver") \/ Return(c, "out of range")
<1>1. index = 0
  BY MemoryAssumption
<1>2. log' = log /\ raised' = raised /\ agg' = agg /\ Changed({})
      /\ (Return(c, "no driver") \/ Return(c, "out of range"))
  BY <1>1 DEF TruncateStream
<1>3. fresh' \in [Clients -> BOOLEAN] /\ uncut \in [Clients -> BOOLEAN]
  BY <1>2, ChangedFacts DEF MemIInv, TypeOK
<1>4. LastIndex(log') >= LastIndex(log)
  BY <1>2, GrowsFacts DEF Grows
<1>5. uncut' = uncut
  BY <1>2, <1>3, <1>4 DEF Changed
<1> QED BY <1>2, <1>3, <1>5

LEMMA MemTruncateKeeps ==
  ASSUME MemIInv, NEW c \in Clients, NEW index \in Indexes, TruncateStream(c, index)
  PROVE  MemIInv'
<1>1. {"no driver", "out of range"} \subseteq Results
  BY DEF Results
<1> QED BY <1>1, MemTruncates, MemReturns

LEMMA NextMemIInv == MemIInv /\ [MemNext]_vars => MemIInv'
<1> SUFFICES ASSUME MemIInv, [MemNext]_vars PROVE MemIInv'
  OBVIOUS
<1>1. CASE UNCHANGED vars
  BY <1>1 DEF vars, MemIInv, TypeOK, MemClientOK
<1>2. ASSUME NEW c \in Clients, LoadFails(c) PROVE MemIInv'
  <2>1. /\ log' = log /\ raised' = raised /\ agg' = agg /\ uncut' = uncut /\ Return(c, "read")
        /\ fresh' \in [Clients -> BOOLEAN] /\ "read" \in Results
    BY <1>2 DEF LoadFails, MemIInv, TypeOK, Results
  <2> QED BY <2>1, MemReturns
<1>3. ASSUME NEW c \in Clients, CallbackFails(c) \/ MemSaveRefused(c) PROVE MemIInv'
  <2>1. /\ log' = log /\ raised' = raised /\ agg' = agg /\ uncut' = uncut
        /\ Return(c, "callback") \/ Return(c, "wrong version")
        /\ fresh' \in [Clients -> BOOLEAN] /\ {"callback", "wrong version"} \subseteq Results
    BY <1>3 DEF CallbackFails, MemSaveRefused, MemIInv, TypeOK, Results
  <2> QED BY <2>1, MemReturns
<1>4. ASSUME MemNext PROVE MemIInv'
  <2>1. PICK c \in Clients :
          \/ \E o \in Operations : Begin(c, o)
          \/ Resume(c)
          \/ MemLoadFirst(c)
          \/ MemLoadRead(c)
          \/ LoadFails(c)
          \/ \E n \in 1 .. MaxRaise : Raise(c, n)
          \/ \E n \in 1 .. MaxRaise : \E k \in 0 .. n : MemAppendBlindly(c, n, k)
          \/ CallbackFails(c)
          \/ Save(c)
          \/ \E n \in 0 .. MaxEvents : MemSaveAppends(c, n)
          \/ MemSaveRefused(c)
          \/ \E index \in Indexes : TruncateStream(c, index)
    BY <1>4 DEF MemNext
  <2> QED BY <1>2, <1>3, <2>1, MemBeginKeeps, MemResumeKeeps, MemLoadFirstKeeps, MemLoadReadKeeps,
             MemRaiseKeeps, MemAppendBlindlyKeeps, MemSaveKeeps, MemSaveAppendsKeeps, MemTruncateKeeps
<1> QED BY <1>1, <1>4

LEMMA MemInvariance == MemSpec => []MemIInv
  BY InitMemIInv, NextMemIInv, PTL DEF MemSpec

-----------------------------------------------------------------------------
(* Nothing is stored twice.  As for the disk store, the uncommitted events *)
(* of an aggregate that can be saved are in no other place; and they are   *)
(* pairwise different, so that a batch brings each of its events once.     *)
Once(a) ==
  \A i, j \in Committed(a) + 1 .. Len(a.events) : a.events[i].id = a.events[j].id => i = j

OnceInv == NoDuplicates /\ \A c \in Clients : Once(agg[c])

LEMMA OnceInNothing ==
  ASSUME NEW a, Committed(a) \in Nat, Len(a.events) \in Nat, Committed(a) >= Len(a.events)
  PROVE  Once(a) /\ Pending(a) = {}
<1>1. Committed(a) + 1 .. Len(a.events) = {}
  OBVIOUS
<1> QED BY <1>1 DEF Once, Pending

LEMMA AppendsDifferent ==
  ASSUME NEW l \in Logs, NEW ids \in Seq(1 .. MaxEvents),
         \A p, q \in 1 .. Len(l.events) : l.events[p] = l.events[q] => p = q,
         \A i, j \in 1 .. Len(ids) : ids[i] = ids[j] => i = j,
         \A i \in 1 .. Len(ids) : ids[i] \notin LogIds(l)
  PROVE  LET m == AppendTo(l, ids)
         IN  \A p, q \in 1 .. Len(m.events) : m.events[p] = m.events[q] => p = q
<1> DEFINE m == AppendTo(l, ids)
           k == Len(l.events)
<1>1. k \in Nat /\ Len(ids) \in Nat /\ \A p \in 1 .. k : l.events[p] \in LogIds(l)
  BY LogFacts, LenProperties DEF LogIds
<1>2. Len(m.events) = k + Len(ids)
  <2>1. l.events \in Seq(1 .. MaxEvents) /\ m.events = l.events \o ids
    BY LogFacts DEF AppendTo
  <2> QED BY <2>1, ConcatProperties
<1>3. ASSUME NEW p \in 1 .. k + Len(ids)
      PROVE  /\ p <= k => p \in 1 .. k /\ m.events[p] = l.events[p]
             /\ p > k => p - k \in 1 .. Len(ids) /\ m.events[p] = ids[p - k]
  BY AppendedAt
<1> HIDE DEF m, k
<1>4. ASSUME NEW p \in 1 .. k + Len(ids), NEW q \in 1 .. k + Len(ids), m.events[p] = m.events[q]
      PROVE  p = q
  <2>1. /\ p <= k => p \in 1 .. k /\ m.events[p] = l.events[p]
        /\ p > k => p - k \in 1 .. Len(ids) /\ m.events[p] = ids[p - k]
        /\ q <= k => q \in 1 .. k /\ m.events[q] = l.events[q]
        /\ q > k => q - k \in 1 .. Len(ids) /\ m.events[q] = ids[q - k]
    BY <1>3
  <2>2. CASE p <= k /\ q <= k
    BY <1>4, <2>1, <2>2 DEF k
  <2>3. CASE p > k /\ q > k
    <3>1. p - k = q - k
      BY <1>4, <2>1, <2>3
    <3> QED BY <1>1, <3>1
  <2>4. CASE p <= k /\ q > k
    BY <1>1, <1>4, <2>1, <2>4
  <2>5. CASE p > k /\ q <= k
    BY <1>1, <1>4, <2>1, <2>5
  <2>6. p \in Int /\ q \in Int /\ (p <= k \/ p > k) /\ (q <= k \/ q > k)
    BY <1>1
  <2> QED BY <2>2, <2>3, <2>4, <2>5, <2>6
<1> QED BY <1>2, <1>4 DEF m

(* Steps that leave the stream and the aggregates alone, or begin with a   *)
(* new one.                                                                *)
LEMMA MemQuietNew ==
  ASSUME MemIInv, MemIInv', NewInv, OnceInv, NEW c \in Clients,
         log' = log, raised' = raised, uncut' = uncut,
         agg' = agg \/ agg' = [agg EXCEPT ![c] = NewAggregate]
  PROVE  NewInv' /\ OnceInv'
<1>1. NewInv'
  BY QuietNewInv DEF MemIInv
<1>2. Once(NewAggregate)
  <2>1. Committed(NewAggregate) \in Nat /\ Len(NewAggregate.events) = 0
    BY NewAggregateFacts, AggregateFacts
  <2> QED BY <2>1, OnceInNothing
<1>3. ASSUME NEW d \in Clients PROVE Once(agg'[d])
  <2>1. agg'[d] = agg[d] \/ agg'[d] = NewAggregate
    BY DEF MemIInv, TypeOK
  <2> QED BY <1>2, <2>1 DEF OnceInv
<1>4. NoDuplicates'
  BY DEF OnceInv, NoDuplicates
<1> QED BY <1>1, <1>3, <1>4 DEF OnceInv, Once, Committed

LEMMA MemLoadReadNew ==
  ASSUME MemIInv, MemIInv', NewInv, OnceInv, NEW c \in Clients, MemLoadRead(c)
  PROVE  NewInv' /\ OnceInv'
<1> DEFINE loaded == AppendOn(Start(agg[c], Minus(head[c], 1)), MemRead(log, 0, AllEvents))
<1>1. /\ log' = log /\ raised' = raised /\ pc[c] = "read"
      /\ uncut' = [uncut EXCEPT ![c] = TRUE]
      /\ agg' = agg \/ log.events # <<>>
  <2>1. MemRead(log, 0, AllEvents) = log.events
    BY MemReadAll, MemLogFacts
  <2> QED BY <2>1 DEF MemLoadRead
<1>2. uncut' = uncut
  BY <1>1 DEF MemIInv, MemClientOK, TypeOK
<1>3. CASE agg' = agg
  BY <1>1, <1>2, <1>3, MemQuietNew
<1>4. CASE agg' # agg
  <2>1. log \in Logs /\ LastIndex(log) <= AllEvents /\ raised \in Nat /\ agg \in [Clients -> Aggregates]
        /\ log.first = 1 /\ LastIndex(log) \in Nat
    BY MemLogFacts
  <2>2. agg[c] = NewAggregate /\ head[c] <= log.first /\ head[c] \in Uint64
    BY <1>1, <2>1 DEF MemIInv, MemClientOK, TypeOK
  <2>3. MemRead(log, 0, AllEvents) = log.events /\ log.events # <<>>
    BY <1>1, <1>4, <2>1, MemReadAll
  <2>4. loaded = LoadedFrom(head[c], log)
    BY <2>2, <2>3 DEF LoadedFrom
  <2>5. agg' = [agg EXCEPT ![c] = loaded]
    BY <2>3 DEF MemLoadRead
  <2> HIDE DEF loaded
  <2>6. /\ AggIds(loaded) \subseteq LogIds(log) /\ Pending(loaded) = {}
        /\ Committed(loaded) = Len(loaded.events) /\ Len(loaded.events) \in Nat
    BY <2>1, <2>2, <2>3, <2>4, LoadedIds
  <2>7. agg'[c] = loaded /\ \A d \in Clients \ {c} : agg'[d] = agg[d]
    BY <2>1, <2>5
  <2>8. BringsNothing(c)
    BY <1>1, <1>2, <2>1, <2>6, <2>7 DEF BringsNothing
  <2>9. StaysApart(c)
    BY <2>6, <2>7 DEF StaysApart
  <2>10. NewInv'
    BY <2>8, <2>9, StepNewInv DEF MemIInv
  <2>11. Once(loaded)
    BY <2>6, OnceInNothing
  <2>12. \A d \in Clients : Once(agg'[d])
    BY <2>7, <2>11 DEF OnceInv
  <2>13. NoDuplicates'
    BY <1>1 DEF OnceInv, NoDuplicates
  <2> QED BY <2>10, <2>12, <2>13 DEF OnceInv, Once, Committed
<1> QED BY <1>3, <1>4

LEMMA MemRaiseNew ==
  ASSUME MemIInv, MemIInv', NewInv, OnceInv, NEW c \in Clients, NEW n \in 1 .. MaxRaise, Raise(c, n)
  PROVE  NewInv' /\ OnceInv'
<1> DEFINE a == agg[c]
           ids == Ids(n)
           b == RaiseOn(a, ids)
           k == Len(a.events)
<1>1. /\ log' = log /\ raised + n <= MaxEvents /\ agg' = [agg EXCEPT ![c] = b]
  BY DEF Raise
<1>2. n \in Nat
  BY Numbers
<1>3. ids \in Seq(1 .. MaxEvents) /\ Len(ids) = n /\ raised \in Nat
  BY <1>1, <1>2, IdsInRange DEF MemIInv
<1>4. \A i \in 1 .. n : ids[i] = raised + i
  BY <1>2 DEF Ids
<1>5. a \in Aggregates /\ k \in Nat /\ k <= AllEvents + raised /\ Committed(a) \in Nat
  <2>1. MemClientOK(c) /\ a \in Aggregates
    BY DEF MemIInv, TypeOK
  <2> QED BY <2>1, AggregateFacts DEF MemClientOK
<1>6. NewInv'
  BY <1>5, RaiseNewInv DEF MemIInv
<1>7. k + Len(ids) <= AllEvents + MaxEvents
  BY <1>1, <1>2, <1>3, <1>5, Numbers
<1> HIDE DEF ids
<1>8. /\ b.firstIndex = a.firstIndex /\ b.lastIndex = a.lastIndex /\ Len(b.events) = k + n
      /\ \A i \in 1 .. k : b.events[i] = a.events[i]
      /\ \A i \in 1 .. n : b.events[k + i].id = ids[i]
  BY <1>3, <1>5, <1>7, RaiseFacts, RaisedIds
<1>9. agg'[c] = b /\ \A d \in Clients \ {c} : agg'[d] = agg[d]
  BY <1>1 DEF MemIInv, TypeOK
<1>10. \A i \in 1 .. k : a.events[i].id \in 1 .. raised
  BY DEF NewInv, Raised, AggIds
<1>11. \A i, j \in Committed(a) + 1 .. k : a.events[i].id = a.events[j].id => i = j
  BY DEF OnceInv, Once
<1>12. Committed(b) = Committed(a)
  BY <1>8 DEF Committed
<1> HIDE DEF a, b, k
<1>13. ASSUME NEW i \in Committed(a) + 1 .. k + n
       PROVE  \/ i \in Committed(a) + 1 .. k /\ i \in 1 .. k /\ b.events[i].id = a.events[i].id
                 /\ b.events[i].id \in 1 .. raised
              \/ i > k /\ b.events[i].id = raised + (i - k)
  <2>1. CASE i <= k
    <3>1. i \in Committed(a) + 1 .. k /\ i \in 1 .. k
      BY <1>2, <1>5, <2>1
    <3>2. b.events[i] = a.events[i]
      BY <1>8, <3>1
    <3>3. a.events[i].id \in 1 .. raised
      BY <1>10, <3>1
    <3> QED BY <3>1, <3>2, <3>3
  <2>2. CASE i > k
    <3>1. i - k \in 1 .. n /\ k + (i - k) = i
      BY <1>2, <1>5, <2>2
    <3>2. b.events[k + (i - k)].id = ids[i - k]
      BY <1>8, <3>1
    <3> QED BY <1>4, <2>2, <3>1, <3>2
  <2> QED BY <1>5, <2>1, <2>2
<1>14. ASSUME NEW i \in Committed(a) + 1 .. k + n, NEW j \in Committed(a) + 1 .. k + n,
              b.events[i].id = b.events[j].id
       PROVE  i = j
  <2>1. i \in Int /\ j \in Int
    BY <1>2, <1>5
  <2>2. CASE i \in Committed(a) + 1 .. k /\ j \in Committed(a) + 1 .. k /\ ~(i > k) /\ ~(j > k)
    BY <1>11, <1>13, <1>14, <2>2
  <2>3. CASE i > k /\ j > k
    <3>1. ~(i \in 1 .. k) /\ ~(j \in 1 .. k)
      BY <1>5, <2>3
    <3>2. b.events[i].id = raised + (i - k) /\ b.events[j].id = raised + (j - k)
      BY <1>13, <3>1
    <3>3. raised + (i - k) = raised + (j - k)
      BY <1>14, <3>2
    <3>4. \A r, m, x, y \in Int : r + (x - m) = r + (y - m) => x = y
      OBVIOUS
    <3>5. raised \in Int /\ k \in Int
      BY <1>3, <1>5
    <3> QED BY <2>1, <3>3, <3>4, <3>5
  <2>4. ASSUME NEW x \in Committed(a) + 1 .. k + n, NEW y \in Committed(a) + 1 .. k + n,
               ~(x > k), y > k
        PROVE  b.events[x].id # b.events[y].id
    <3>1. b.events[x].id \in 1 .. raised
      BY <1>13, <2>4
    <3>2. ~(y \in 1 .. k) /\ y \in Int
      BY <1>2, <1>5, <2>4
    <3>3. b.events[y].id = raised + (y - k)
      BY <1>13, <3>2
    <3>4. raised + (y - k) \notin 1 .. raised
      BY <1>3, <1>5, <2>4, <3>2
    <3> QED BY <3>1, <3>3, <3>4
  <2>5. ~(i > k) => i \in Committed(a) + 1 .. k
    BY <1>5
  <2>6. ~(j > k) => j \in Committed(a) + 1 .. k
    BY <1>5
  <2> QED BY <1>14, <2>2, <2>3, <2>4, <2>5, <2>6
<1>15. Once(b)
  BY <1>8, <1>12, <1>14 DEF Once
<1>16. \A d \in Clients : Once(agg'[d])
  BY <1>9, <1>15 DEF OnceInv
<1>17. NoDuplicates'
  BY <1>1 DEF OnceInv, NoDuplicates
<1> QED BY <1>6, <1>16, <1>17 DEF OnceInv, Once, Committed

LEMMA MemAppendBlindlyNew ==
  ASSUME MemIInv, MemIInv', NewInv, OnceInv,
         NEW c \in Clients, NEW n \in 1 .. MaxRaise, NEW k \in 0 .. n, MemAppendBlindly(c, n, k)
  PROVE  NewInv' /\ OnceInv'
<1> DEFINE all == Ids(n)
           ids == SubSeq(all, 1, k)
<1>1. /\ raised' = raised + n /\ raised + n <= MaxEvents
      /\ MemAppend(c, all, k) /\ Changed({}) /\ agg' = agg
      /\ log' = AppendTo(log, ids)
  BY DEF MemAppendBlindly, MemAppend
<1>2. n \in Nat /\ k \in Nat /\ k <= n
  BY Numbers
<1>3. all \in Seq(1 .. MaxEvents) /\ Len(all) = n /\ raised \in Nat /\ k \in 0 .. Len(all)
  BY <1>1, <1>2, IdsInRange DEF MemIInv
<1>4. \A i \in 1 .. n : all[i] = raised + i
  BY <1>2 DEF Ids
<1>5. uncut' = uncut /\ LastIndex(log') = LastIndex(log) + k
  BY <1>1, <1>3, MemAppends
<1> HIDE DEF all
<1>6. /\ ids \in Seq(1 .. MaxEvents) /\ Len(ids) = k
      /\ \A i \in 1 .. k : ids[i] = raised + i
  <2>1. \A i \in 1 .. k : i \in 1 .. n
    BY <1>2
  <2> QED BY <1>3, <1>4, <2>1, FirstIds
<1> HIDE DEF ids
<1>7. /\ log \in Logs /\ LastIndex(log) \in Nat /\ LastIndex(log') \in Nat
      /\ LastIndex(log') >= LastIndex(log) /\ agg \in [Clients -> Aggregates]
  BY <1>2, <1>5, MemLogFacts
<1>8. {ids[i] : i \in 1 .. Len(ids)} \subseteq Fresh
  <2>1. \A i \in 1 .. k : raised + i \in raised + 1 .. raised + n
    BY <1>2, <1>3
  <2> QED BY <1>1, <1>6, <2>1 DEF Fresh
<1>9. LogIds(log') \subseteq LogIds(log) \cup Fresh
  BY <1>1, <1>6, <1>7, <1>8, AppendedIds
<1>10. BringsNothing(c)
  BY <1>1, <1>2, <1>3, <1>5, <1>7, <1>9 DEF BringsNothing
<1>11. StaysApart(c)
  <2> SUFFICES ASSUME Savable(c)' PROVE Savable(c)
    BY <1>1, <1>9 DEF StaysApart
  <2>1. uncut[c] /\ ~(agg[c].lastIndex < LastIndex(log')) /\ agg[c].lastIndex \in Nat
    BY <1>1, <1>5, <1>7, AggregateFacts DEF Savable, Behind
  <2>2. ~(agg[c].lastIndex < LastIndex(log))
    BY <1>7, <2>1
  <2> QED BY <2>1, <2>2 DEF Savable, Behind
<1>12. NewInv'
  BY <1>10, <1>11, StepNewInv DEF MemIInv
<1>13. NoDuplicates'
  <2>1. \A i \in 1 .. Len(ids) : ids[i] \notin LogIds(log)
    <3>1. LogIds(log) \subseteq 1 .. raised
      BY DEF NewInv, Raised
    <3>2. \A i \in 1 .. k : raised + i \notin 1 .. raised
      BY <1>2, <1>3
    <3> QED BY <1>6, <3>1, <3>2
  <2>2. \A i, j \in 1 .. Len(ids) : ids[i] = ids[j] => i = j
    BY <1>2, <1>3, <1>6
  <2>3. \A p, q \in 1 .. Len(log.events) : log.events[p] = log.events[q] => p = q
    BY DEF OnceInv, NoDuplicates
  <2> QED BY <1>1, <1>6, <1>7, <2>1, <2>2, <2>3, AppendsDifferent DEF NoDuplicates
<1> QED BY <1>1, <1>12, <1>13 DEF OnceInv, Once, Committed

LEMMA MemSaveAppendsNew ==
  ASSUME MemIInv, MemIInv', NewInv, OnceInv,
         NEW c \in Clients, NEW n \in 0 .. MaxEvents, MemSaveAppends(c, n)
  PROVE  NewInv' /\ OnceInv'
<1> DEFINE a == agg[c]
           b == agg'[c]
           batch == Uncommitted(a)
           k == Len(log.events)
           ids == SubSeq(IdsOf(batch), 1, n)
<1>1. /\ pc[c] = "append" /\ MemVersionOK(log, StreamVersion(a)) /\ raised' = raised
  BY DEF MemSaveAppends
<1>2. /\ a \in Aggregates /\ a.lastIndex = k /\ k = LastIndex(log) /\ Committed(a) = k
      /\ k \in Nat /\ Len(a.events) \in Nat
      /\ Len(batch) \in Nat /\ Len(a.events) = k + Len(batch)
  BY <1>1, MemAboutToAppend
<1>3. /\ n \in 0 .. Len(batch)
      /\ ids \in Seq(1 .. MaxEvents) /\ Len(ids) = n
      /\ \A i \in 1 .. n : ids[i] = a.events[k + i].id
      /\ log' = AppendTo(log, ids) /\ LastIndex(log') = k + n
      /\ uncut' = uncut
      /\ agg' \in [Clients -> Aggregates] /\ \A d \in Clients \ {c} : agg'[d] = agg[d]
      /\ b.events = a.events /\ b.firstIndex = 0
      /\ n = Len(batch) => b.lastIndex = Len(a.events)
      /\ n # Len(batch) => b = a
  BY MemSaved
<1>4. log \in Logs /\ raised \in Nat /\ agg \in [Clients -> Aggregates]
  BY MemLogFacts
<1>5. Savable(c)
  BY <1>2 DEF Savable, Behind, MemIInv, MemClientOK
<1>6. /\ Pending(a) \cap LogIds(log) = {} /\ Once(a)
  BY <1>5 DEF NewInv, Apart, OnceInv
<1> HIDE DEF a, b, batch, k, ids
<1>7. n \in Nat /\ \A i \in 1 .. n : k + i \in k + 1 .. Len(a.events) /\ k + i \in 1 .. Len(a.events)
  BY <1>2, <1>3
<1>8. \A i \in 1 .. n : ids[i] \in Pending(a) /\ ids[i] \in AggIds(a)
  BY <1>2, <1>3, <1>7 DEF Pending, AggIds
<1>9. LogIds(log') = LogIds(log) \cup {ids[i] : i \in 1 .. n}
  BY <1>3, <1>4, AppendedIds
<1>10. LastIndex(log') >= LastIndex(log)
  BY <1>2, <1>3, <1>7
<1>11. AggIds(b) = AggIds(a)
  BY <1>3 DEF AggIds
<1>12. BringsNothing(c)
  BY <1>1, <1>3, <1>4, <1>8, <1>9, <1>10, <1>11 DEF BringsNothing, a, b
<1>13. ASSUME n = Len(batch) PROVE StaysApart(c) /\ Once(b)
  <2>1. Committed(b) = Len(b.events) /\ Len(b.events) \in Nat
    <3>1. b \in Aggregates
      BY <1>3 DEF b
    <3> QED BY <1>2, <1>3, <1>13, <3>1, AggregateFacts
  <2>2. Once(b) /\ Pending(b) = {}
    BY <2>1, OnceInNothing
  <2>3. StaysApart(c)
    BY <2>2 DEF StaysApart, b
  <2> QED BY <2>2, <2>3
<1>14. ASSUME n # Len(batch) PROVE StaysApart(c) /\ Once(b)
  <2>1. b = a /\ Once(b)
    BY <1>3, <1>6, <1>14
  <2>2. ASSUME Savable(c)' PROVE LogIds(log') \subseteq LogIds(log)
    <3>1. ~(k < k + n)
      BY <1>2, <1>3, <2>1, <2>2 DEF Savable, Behind, b
    <3>2. n = 0
      BY <1>2, <1>7, <3>1
    <3> QED BY <1>9, <3>2
  <2>3. StaysApart(c)
    BY <1>5, <2>1, <2>2 DEF StaysApart, a, b
  <2> QED BY <2>1, <2>3
<1>15. StaysApart(c) /\ Once(b)
  BY <1>13, <1>14
<1>16. NewInv'
  BY <1>12, <1>15, StepNewInv DEF MemIInv
<1>17. NoDuplicates'
  <2>1. \A i \in 1 .. Len(ids) : ids[i] \notin LogIds(log)
    BY <1>3, <1>6, <1>8
  <2>2. ASSUME NEW i \in 1 .. n, NEW j \in 1 .. n, ids[i] = ids[j] PROVE i = j
    <3>1. a.events[k + i].id = a.events[k + j].id
      BY <1>3, <2>2
    <3>2. k + i = k + j
      BY <1>2, <1>6, <1>7, <3>1 DEF Once
    <3> QED BY <1>2, <3>2
  <2>3. \A i, j \in 1 .. Len(ids) : ids[i] = ids[j] => i = j
    BY <1>3, <2>2
  <2>4. \A p, q \in 1 .. Len(log.events) : log.events[p] = log.events[q] => p = q
    BY DEF OnceInv, NoDuplicates
  <2> QED BY <1>3, <1>4, <2>1, <2>3, <2>4, AppendsDifferent DEF NoDuplicates
<1>18. \A d \in Clients : Once(agg'[d])
  BY <1>3, <1>15 DEF OnceInv, b
<1> QED BY <1>16, <1>17, <1>18 DEF OnceInv, Once, Committed

LEMMA InitNew == Init => NewInv /\ OnceInv
<1> SUFFICES ASSUME Init PROVE NewInv /\ OnceInv
  OBVIOUS
<1>1. \A c \in Clients : agg[c] = NewAggregate
  BY DEF Init
<1>2. Once(NewAggregate)
  <2>1. Committed(NewAggregate) \in Nat /\ Len(NewAggregate.events) = 0
    BY NewAggregateFacts, AggregateFacts
  <2> QED BY <2>1, OnceInNothing
<1>3. NoDuplicates
  <2>1. log.events = <<>> /\ Len(<<>>) = 0
    BY DEF Init, EmptyLog
  <2>2. 1 .. Len(log.events) = {}
    BY <2>1
  <2> QED BY <2>2 DEF NoDuplicates
<1> QED BY <1>1, <1>2, <1>3, InitNewInv DEF OnceInv

LEMMA NextNew == MemIInv /\ NewInv /\ OnceInv /\ [MemNext]_vars => NewInv' /\ OnceInv'
<1> SUFFICES ASSUME MemIInv, NewInv, OnceInv, [MemNext]_vars PROVE NewInv' /\ OnceInv'
  OBVIOUS
<1>1. MemIInv'
  BY NextMemIInv
<1>2. ASSUME NEW c \in Clients, NEW o \in Operations, Begin(c, o) PROVE NewInv' /\ OnceInv'
  BY <1>1, <1>2, MemQuietNew DEF Begin
<1>3. ASSUME NEW c \in Clients,
             \/ Resume(c) \/ MemLoadFirst(c) \/ LoadFails(c)
             \/ CallbackFails(c) \/ Save(c) \/ MemSaveRefused(c)
      PROVE  NewInv' /\ OnceInv'
  BY <1>1, <1>3, MemQuietNew
     DEF Resume, MemLoadFirst, LoadFails, CallbackFails, Save, MemSaveRefused
<1>4. ASSUME NEW c \in Clients, NEW index \in Indexes, TruncateStream(c, index)
      PROVE  NewInv' /\ OnceInv'
  BY <1>1, <1>4, MemTruncates, MemQuietNew
<1>5. CASE UNCHANGED vars
  <2>1. log' = log /\ raised' = raised /\ agg' = agg /\ uncut' = uncut
    BY <1>5 DEF vars
  <2>2. Raised'
    BY <2>1 DEF NewInv, Raised
  <2>3. ASSUME NEW c \in Clients PROVE Apart(c)'
    BY <2>1 DEF NewInv, Apart, Savable
  <2>4. NoDuplicates'
    BY <2>1 DEF OnceInv, NoDuplicates
  <2>5. \A c \in Clients : Once(agg[c])'
    BY <2>1 DEF OnceInv
  <2> QED BY <2>2, <2>3, <2>4, <2>5 DEF NewInv, OnceInv
<1> QED BY <1>1, <1>2, <1>3, <1>4, <1>5, MemLoadReadNew, MemRaiseNew, MemAppendBlindlyNew, MemSaveAppendsNew
        DEF MemNext

LEMMA NewInvariance == MemSpec => [](MemIInv /\ NewInv /\ OnceInv)
<1>1. Init => MemIInv /\ NewInv /\ OnceInv
  BY InitMemIInv, InitNew
<1>2. MemIInv /\ NewInv /\ OnceInv /\ [MemNext]_vars => MemIInv' /\ NewInv' /\ OnceInv'
  BY NextMemIInv, NextNew
<1> QED BY <1>1, <1>2, PTL DEF MemSpec

-----------------------------------------------------------------------------
(* No event is stored twice, although a batch may be stored in part and    *)
(* its save tried again (eventLog.Append of the memory store, Save).       *)
THEOREM NoDuplicatesCorrect == MemSpec => []NoDuplicates
<1>1. MemIInv /\ NewInv /\ OnceInv => NoDuplicates
  BY DEF OnceInv
<1> QED BY <1>1, NewInvariance, PTL

(* What an aggregate that can be saved takes for uncommitted is not in the *)
(* memory store's stream (eventLog.Append of the memory store, Save).      *)
THEOREM MemSavableIsNewCorrect == MemSpec => []SavableIsNew
<1>1. MemIInv /\ NewInv => SavableIsNew
  <2> SUFFICES ASSUME MemIInv, NewInv, NEW c \in Clients, uncut[c], ~Behind(agg[c], log),
                      NEW i \in 1 .. Len(Uncommitted(agg[c])), NEW p \in 1 .. Len(log.events)
               PROVE  Uncommitted(agg[c])[i].id # log.events[p]
    BY DEF SavableIsNew
  <2> DEFINE a == agg[c]
  <2>1. a \in Aggregates /\ Same(a, log)
    BY DEF MemIInv, TypeOK, MemClientOK, SameOrBehind
  <2> HIDE DEF a
  <2>2. Committed(a) = a.lastIndex /\ ~EventsPanics(a)
    <3>1. a.firstIndex = 0 /\ a.lastIndex \in Nat /\ Len(a.events) \in Nat /\ a.lastIndex <= Len(a.events)
      BY <2>1, AggregateFacts DEF Same
    <3>2. Committed(a) = a.lastIndex
      BY <2>1, <3>1, AggregateFacts
    <3> QED BY <3>1, <3>2 DEF EventsPanics
  <2>3. /\ Committed(a) \in 0 .. Len(a.events) /\ Len(a.events) \in Nat
        /\ Len(Uncommitted(a)) = Len(a.events) - Committed(a)
        /\ \A j \in 1 .. Len(Uncommitted(a)) : Uncommitted(a)[j] = a.events[Committed(a) + j]
    BY <2>1, <2>2, UncommittedFacts, AggregateFacts
  <2>4. i \in 1 .. Len(a.events) - Committed(a)
    BY <2>3 DEF a
  <2>5. Committed(a) + i \in Committed(a) + 1 .. Len(a.events)
    BY <2>3, <2>4
  <2>6. Uncommitted(a)[i].id \in Pending(a)
    BY <2>3, <2>4, <2>5 DEF Pending
  <2>7. log.events[p] \in LogIds(log)
    BY DEF LogIds
  <2> QED BY <2>6, <2>7 DEF a, NewInv, Apart, Savable
<1> QED BY <1>1, NewInvariance, PTL

(* Only one action ends a Save well. *)
LEMMA SavesIsMemSaveAppends ==
  ASSUME MemIInv, [MemNext]_vars, NEW c \in Clients, Saves(c)
  PROVE  \E n \in 0 .. MaxEvents : MemSaveAppends(c, n)
<1>1. pc[c] = "append" /\ pc'[c] = "idle" /\ err'[c] = "ok"
  BY DEF Saves
<1>2. pc \in [Clients -> Steps] /\ err \in [Clients -> Results] /\ op \in [Clients -> Operations \cup {"none", "save"}]
  BY DEF MemIInv, TypeOK
<1>3. MemNext
  BY <1>1 DEF vars
<1>4. PICK d \in Clients :
        \/ \E o \in Operations : Begin(d, o)
        \/ Resume(d)
        \/ MemLoadFirst(d)
        \/ MemLoadRead(d)
        \/ LoadFails(d)
        \/ \E n \in 1 .. MaxRaise : Raise(d, n)
        \/ \E n \in 1 .. MaxRaise : \E k \in 0 .. n : MemAppendBlindly(d, n, k)
        \/ CallbackFails(d)
        \/ Save(d)
        \/ \E n \in 0 .. MaxEvents : MemSaveAppends(d, n)
        \/ MemSaveRefused(d)
        \/ \E index \in Indexes : TruncateStream(d, index)
  BY <1>3 DEF MemNext
<1>5. CASE d # c
  <2>1. ASSUME NEW e \in {"idle", "first", "read", "callback", "append"}, pc' = [pc EXCEPT ![d] = e]
        PROVE  FALSE
    BY <1>1, <1>2, <1>5, <2>1
  <2>2. ASSUME NEW result, Return(d, result) PROVE FALSE
    BY <2>1, <2>2 DEF Return
  <2>3. ~Continue(d)
    BY <2>1 DEF Continue
  <2>4. pc' # pc
    BY <1>1
  <2> QED BY <1>4, <2>1, <2>2, <2>3, <2>4
          DEF Begin, Resume, MemLoadFirst, MemLoadRead, LoadFails, Raise, MemAppendBlindly, MemAppend,
              CallbackFails, Save, MemSaveAppends, MemSaveRefused, TruncateStream
<1>6. CASE d = c
  <2>1. ~Return(c, "wrong version")
    BY <1>1, <1>2 DEF Return
  <2> QED BY <1>1, <1>4, <1>6, <2>1
          DEF Begin, Resume, MemLoadFirst, MemLoadRead, LoadFails, Raise, MemAppendBlindly,
              CallbackFails, Save, MemSaveRefused, TruncateStream
<1> QED BY <1>5, <1>6

(* No lost update over the memory store: whoever saves has seen all events *)
(* of the stream (Load, Save, eventLog.Append of the memory store).        *)
THEOREM MemNoLostUpdateCorrect == MemSpec => NoLostUpdate
<1>1. ASSUME MemIInv, [MemNext]_vars, NEW c \in Clients, SavesUncut(c)
      PROVE  SawAll(agg[c], log)
  <2>1. PICK n \in 0 .. MaxEvents : MemSaveAppends(c, n)
    BY <1>1, SavesIsMemSaveAppends DEF SavesUncut
  <2> DEFINE a == agg[c]
  <2>2. pc[c] = "append" /\ MemVersionOK(log, StreamVersion(a))
    BY <2>1 DEF MemSaveAppends
  <2>3. /\ Same(a, log) /\ a.lastIndex = LastIndex(log) /\ Len(a.events) \in Nat
        /\ LastIndex(log) \in Nat
    BY <1>1, <2>2, MemAboutToAppend
  <2>4. log.first = 1
    BY <1>1 DEF MemIInv
  <2> HIDE DEF a
  <2>5. ASSUME NEW p \in log.first .. LastIndex(log)
        PROVE  p - a.firstIndex \in 1 .. Len(a.events) /\ a.events[p - a.firstIndex].id = EventAt(log, p)
    <3>1. p - a.firstIndex = p /\ p - log.first + 1 = p /\ p \in 1 .. a.lastIndex /\ p \in 1 .. Len(a.events)
      BY <2>3, <2>4 DEF Same
    <3> QED BY <2>3, <3>1 DEF Same, EventAt
  <2> QED BY <2>5 DEF SawAll, a
<1>2. MemIInv /\ [MemNext]_vars => [\A c \in Clients : SavesUncut(c) => SawAll(agg[c], log)]_vars
  BY <1>1
<1> QED BY MemInvariance, <1>2, PTL DEF MemSpec, NoLostUpdate

(* A creator finds the stream never written, an updater finds events in it *)
(* (Create, Update, NotExists, eventLog.Append of the memory store).       *)
THEOREM MemCreateOnceCorrect == MemSpec => CreateOnce
<1>1. ASSUME MemIInv, [MemNext]_vars, NEW c \in Clients, Saves(c)
      PROVE  (op[c] = "create" => log = EmptyLog) /\ (op[c] = "update" => log # EmptyLog)
  <2>1. PICK n \in 0 .. MaxEvents : MemSaveAppends(c, n)
    BY <1>1, SavesIsMemSaveAppends
  <2>2. pc[c] = "append" /\ MemVersionOK(log, StreamVersion(agg[c])) /\ MemClientOK(c)
    BY <1>1, <2>1 DEF MemSaveAppends, MemIInv
  <2>3. ASSUME op[c] = "create" PROVE log = EmptyLog
    <3>1. agg[c].lastIndex = 0 /\ agg[c].lastIndex = Len(log.events)
      BY <1>1, <2>2, <2>3, MemAboutToAppend DEF MemClientOK
    <3>2. log.events = <<>> /\ log.first = 1 /\ log = [first |-> log.first, events |-> log.events]
      <4>1. log.events \in Seq(1 .. MaxEvents) /\ Len(log.events) = 0
        BY <1>1, <3>1, MemLogFacts
      <4> QED BY <1>1, <4>1, MemLogFacts, LogFacts
    <3> QED BY <3>2 DEF EmptyLog
  <2>4. op[c] = "update" => log # EmptyLog
    BY <2>2 DEF MemClientOK, EmptyLog
  <2> QED BY <2>3, <2>4
<1>2. MemIInv /\ [MemNext]_vars =>
        [\A c \in Clients : Saves(c) =>
            /\ op[c] = "create" => log = EmptyLog
            /\ op[c] = "update" => log # EmptyLog]_vars
  BY <1>1
<1> QED BY MemInvariance, <1>2, PTL DEF MemSpec, CreateOnce
=============================================================================
