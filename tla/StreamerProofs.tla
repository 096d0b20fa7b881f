--------------------------- MODULE StreamerProofs ---------------------------
(***************************************************************************)
(* Streamer's safety, for any number of subscribers, events and batches.   *)
(* Types and registration hold for subscriptions from anywhere over either *)
(* store; what a subscriber is given, for those from the beginning of the  *)
(* stream or from its last event, over a store that stamps the events it   *)
(* is given: other starts may lie behind the end of the stream.            *)
(***************************************************************************)
EXTENDS Streamer, PagingProofs, FiniteSetTheorems

(* What a Send carries is a part of the stream, and so is what was given.  *)
InStream ==
  /\ \A b \in sends : b.at <= last /\ b.count <= b.at
  /\ sending # NoBatch => sending.at <= last /\ sending.count <= sending.at
  /\ \A s \in Subs : got[s] \in Seq(1 .. last)

Types == TypeOK /\ InStream

(* The list holds nobody twice, everybody who listens and nobody new.      *)
In(s, lis) == \E i \in 1 .. Len(lis) : lis[i] = s

ListOK ==
  /\ \A i, j \in 1 .. Len(subs) : subs[i] = subs[j] => i = j
  /\ \A s \in Subs : pc[s] = "new" => ~In(s, subs) /\ got[s] = <<>>
  /\ \A s \in Subs : Listening(s) \/ pc[s] = "closing" => In(s, subs)

Base == Types /\ ListOK

(* What any Send has carried is in the stream, and so is what one carries. *)
Newest ==
  /\ sent <= last
  /\ sending # NoBatch => sending.at <= sent

(* The Send of the last batch that any has carried is going to visit it.   *)
Pending(s) == sending # NoBatch /\ sending.at = sent /\ In(s, todo)

(* Between Events and Recv the mark and the size lead to the last event    *)
(* that was given, and no Send has carried others it will not tell of.     *)
LoopOK(s) ==
  \/ size[s] = AllEvents /\ got[s] = <<>> /\ idx[s] = from[s] /\ from[s] \in {0, -1}
  \/ /\ size[s] \in 0 .. last
     /\ \/ idx[s] \in 0 .. last /\ idx[s] + size[s] = LastGot(s)
        \/ idx[s] = -1 /\ from[s] = -1 /\ size[s] = 0 /\ got[s] = <<>>
     /\ LastGot(s) >= sent \/ Pending(s)

(* From Recv to Events the mark is the last event that was given, and the  *)
(* size reaches to the last event a Send has carried, unless a Send is     *)
(* going to set it.                                                        *)
RecvOK(s) ==
  /\ idx[s] = LastGot(s) \/ (idx[s] = -1 /\ from[s] = -1 /\ got[s] = <<>>)
  /\ size[s] \in 0 .. last + 1 \/ size[s] = AllEvents
  /\ LastGot(s) + size[s] >= sent \/ Pending(s)
  /\ pc[s] \in {"select", "parked"} /\ wait[s] = "open" => size[s] = 0

Receiving(s) == pc[s] \in {"ready", "select", "parked", "stuck"}

PositionOf(s) ==
  ~outOfTurn[s] =>
    /\ Unbroken(s) /\ BeginsRight(s)
    /\ pc[s] = "loop" => LoopOK(s)
    /\ Receiving(s) => RecvOK(s)

Turn == Newest /\ \A s \in Subs : PositionOf(s)

IInv == Base /\ Turn

-----------------------------------------------------------------------------
LEMMA Bounds ==
  /\ MaxLast \in Nat /\ MaxLast < AllEvents /\ MaxBatch \in Nat
  /\ Starts \subseteq Int64 /\ Half \in Nat /\ AllEvents = Half - 1 /\ Word = 2 * Half
  /\ 0 \in Int64 /\ AllEvents \in Int64
  BY StreamerAssumption, HalfIs DEF Int64

(* What is being sent, and the size it leaves.                             *)
LEMMA SendingIs ==
  ASSUME Types, sending # NoBatch
  PROVE  sending.at \in 1 .. last /\ sending.count \in 1 .. sending.at /\ last \in 0 .. MaxLast
<1>1. sending \in Batches /\ last \in 0 .. MaxLast
  BY DEF Types, TypeOK
<1>2. sending.at \in 1 .. MaxLast /\ sending.count \in 1 .. MaxBatch
  BY <1>1 DEF Batches
<1> QED BY <1>1, <1>2, Bounds DEF Types, InStream

LEMMA SizeSentType ==
  ASSUME Types, sending # NoBatch, NEW i \in Int64
  PROVE  SizeSent(sending, i) \in Int64
<1>1. SentPosition(sending) \in 0 .. AllEvents
  BY SendingIs, Bounds DEF SentPosition
<1>2. ToUint(i) \in 0 .. Word - 1
  BY Bounds DEF ToUint, Int64
<1>3. ASSUME NEW p \in 0 .. AllEvents, NEW u \in 0 .. Word - 1
      PROVE  ToInt(Minus(p, u)) \in Int64
  BY Bounds DEF ToInt, Minus, Int64
<1> QED BY <1>1, <1>2, <1>3 DEF SizeSent

LEMMA MovedMarkType ==
  ASSUME Types, NEW s \in Subs
  PROVE  MovedMark(s) \in Int64
<1>1. idx[s] \in Int64 /\ size[s] \in Int64
  BY DEF Types, TypeOK
<1>2. ToUint(idx[s]) \in 0 .. Word - 1 /\ ToUint(size[s]) \in 0 .. Word - 1
  BY <1>1, Bounds DEF ToUint, Int64
<1>3. ASSUME NEW u \in 0 .. Word - 1, NEW v \in 0 .. Word - 1
      PROVE  ToInt(Plus(u, v)) \in Int64
  BY Bounds DEF ToInt, Plus, Int64
<1> QED BY <1>2, <1>3 DEF MovedMark

(* The batch Events returns.                                               *)
LEMMA EventsAre ==
  ASSUME Types, NEW s \in Subs,
         ~ \E i \in 1 .. Len(GenerateStreamIDs(First, last, idx[s], size[s])) :
             GenerateStreamIDs(First, last, idx[s], size[s])[i] \notin 1 .. last
  PROVE  LET batch == GenerateStreamIDs(First, last, idx[s], size[s])
         IN  /\ batch \in Seq(1 .. last) /\ Len(batch) \in 0 .. AllEvents
             /\ batch # <<>> => batch[1] \in 1 .. last
<1> DEFINE batch == GenerateStreamIDs(First, last, idx[s], size[s])
<1>1. last \in 0 .. AllEvents /\ First \in 0 .. last /\ idx[s] \in Int64 /\ size[s] \in Int64
  BY Bounds DEF Types, TypeOK, First
<1>2. batch \in Seq(1 .. last) /\ Len(batch) \in 0 .. AllEvents
  BY <1>1, PageInStream
<1> HIDE DEF batch
<1>3. batch # <<>> => batch[1] \in 1 .. last
  <2>1. batch # <<>> => Len(batch) > 0 /\ Len(batch) \in Nat /\ \A i \in 1 .. Len(batch) : batch[i] \in 1 .. last
    BY <1>2, AsFunction
  <2> QED BY <2>1
<1> QED BY <1>2, <1>3 DEF batch

-----------------------------------------------------------------------------
(* Types and the list of subscriptions.                                    *)
LEMMA InitBase == Init => Base
<1> SUFFICES ASSUME Init PROVE Base
  OBVIOUS
<1>1. Types
  BY Bounds DEF Init, Types, TypeOK, InStream, States
<1>2. ListOK
  BY DEF Init, ListOK, In, Listening
<1> QED BY <1>1, <1>2 DEF Base

LEMMA AppendBase ==
  ASSUME Base, NEW n \in 1 .. MaxBatch, AppendBatch(n) \/ AppendFails(n)
  PROVE  Base'
<1>1. last \in 0 .. MaxLast /\ last' = last + n /\ last' \in 0 .. MaxLast /\ n \in 1 .. last'
  BY Bounds DEF Base, Types, TypeOK, AppendBatch, AppendFails
<1>0. UNCHANGED <<sender, subs, pc, position, history>>
  BY DEF AppendBatch, AppendFails
<1>2. \A b \in sends' : b \in sends \/ b = [at |-> last + n, count |-> n]
  BY DEF AppendBatch, AppendFails
<1>3. \A b \in sends' : b \in Batches /\ b.at <= last' /\ b.count <= b.at
  <2> SUFFICES ASSUME NEW b \in sends' PROVE b \in Batches /\ b.at <= last' /\ b.count <= b.at
    OBVIOUS
  <2>1. CASE b \in sends
    <3>1. b \in Batches /\ b.at \in Nat /\ b.at <= last /\ b.count <= b.at
      BY <2>1 DEF Base, Types, TypeOK, InStream, Batches
    <3> QED BY <1>1, <3>1
  <2>2. CASE b = [at |-> last + n, count |-> n]
    BY <1>1, <2>2 DEF Batches
  <2> QED BY <1>2, <2>1, <2>2
<1>4. sending' # NoBatch => sending'.at <= last' /\ sending'.count <= sending'.at
  BY <1>0, <1>1, SendingIs DEF Base, sender
<1>5. \A s \in Subs : got'[s] \in Seq(1 .. last')
  <2>1. 1 .. last \subseteq 1 .. last'
    BY <1>1
  <2> QED BY <1>0, <2>1, SeqMonotonic DEF Base, Types, InStream, history
<1>6. Types'
  BY <1>0, <1>1, <1>3, <1>4, <1>5 DEF Base, Types, TypeOK, InStream, sender, position, history
<1>7. ListOK'
  BY <1>0 DEF Base, ListOK, In, Listening, sender, position, history
<1> QED BY <1>6, <1>7 DEF Base

LEMMA SendStartsBase ==
  ASSUME Base, NEW b \in sends, SendStarts(b)
  PROVE  Base'
<1>1. b \in Batches /\ b.at \in 0 .. MaxLast
  BY DEF Base, Types, TypeOK, Batches
<1>2. TypeOK'
  BY <1>1 DEF Base, Types, TypeOK, SendStarts, position
<1>3. InStream'
  BY DEF Base, Types, InStream, SendStarts
<1>4. ListOK'
  BY DEF Base, ListOK, In, Listening, SendStarts
<1> QED BY <1>2, <1>3, <1>4 DEF Base, Types

LEMMA SendVisitsBase ==
  ASSUME Base, SendVisits
  PROVE  Base'
<1>1. /\ todo \in Seq(Subs) /\ todo # <<>> /\ sending # NoBatch
  BY DEF Base, Types, TypeOK, SendVisits
<1>2. Head(todo) \in Subs /\ todo' \in Seq(Subs)
  BY <1>1, HeadTailProperties DEF SendVisits
<1> DEFINE s == Head(todo)
<1>3. SizeSent(sending, idx[s]) \in Int64
  BY <1>1, <1>2, SizeSentType DEF Base, Types, TypeOK
<1>4. (outOfTurn[s] \/ pc[s] = "loop" \/ sending.at < sent \/ sending.at < LastGot(s)) \in BOOLEAN
  BY <1>2 DEF Base, Types, TypeOK
<1> HIDE DEF s
<1>5. size' \in [Subs -> Int64] /\ wait' \in [Subs -> {"nil", "open"}] /\ outOfTurn' \in [Subs -> BOOLEAN]
  BY <1>3, <1>4 DEF Base, Types, TypeOK, SendVisits, Signal, s
<1>6. Types'
  BY <1>2, <1>5 DEF Base, Types, TypeOK, InStream, SendVisits, stream
<1>7. ListOK'
  BY DEF Base, ListOK, In, Listening, SendVisits
<1> QED BY <1>6, <1>7 DEF Base

LEMMA SendEndsBase ==
  ASSUME Base, SendEnds
  PROVE  Base'
<1>1. Types'
  BY DEF Base, Types, TypeOK, InStream, SendEnds, stream, position, history
<1>2. ListOK'
  BY DEF Base, ListOK, In, Listening, SendEnds, history
<1> QED BY <1>1, <1>2 DEF Base

LEMMA SubscribeBase ==
  ASSUME Base, NEW s \in Subs, NEW start \in Starts, Subscribe(s, start)
  PROVE  Base'
<1>1. start \in Int64 /\ AllEvents \in Int64
  BY Bounds
<1>2. subs \in Seq(Subs) /\ subs' = Append(subs, s) /\ pc[s] = "new"
  BY DEF Base, Types, TypeOK, Subscribe
<1>3. Types'
  BY <1>1, <1>2 DEF Base, Types, TypeOK, InStream, Subscribe, stream, sender, States
<1>4. /\ Len(subs) \in Nat /\ Len(subs') = Len(subs) + 1
      /\ \A i \in 1 .. Len(subs) : subs'[i] = subs[i]
      /\ subs'[Len(subs) + 1] = s
  BY <1>2, AppendProperties
<1>5. \A i \in 1 .. Len(subs) : subs[i] # s
  BY <1>2 DEF Base, ListOK, In
<1>6. \A i, j \in 1 .. Len(subs') : subs'[i] = subs'[j] => i = j
  <2>1. \A i, j \in 1 .. Len(subs) : subs[i] = subs[j] => i = j
    BY DEF Base, ListOK
  <2> QED BY <1>4, <1>5, <2>1
<1>7. \A t \in Subs : In(t, subs)' <=> In(t, subs) \/ t = s
  BY <1>4 DEF In
<1>8. ListOK'
  <2>1. pc' = [pc EXCEPT ![s] = "loop"] /\ got' = got /\ pc \in [Subs -> States]
    BY DEF Subscribe, Base, Types, TypeOK
  <2> QED BY <1>6, <1>7, <2>1 DEF Base, ListOK, Listening
<1> QED BY <1>3, <1>8 DEF Base

(* The steps of a loop leave the list alone, and nobody comes back.        *)
LEMMA ListKept ==
  ASSUME Base, NEW s \in Subs, NEW state \in States, state # "new",
         Listening(s), pc' = [pc EXCEPT ![s] = state], subs' = subs,
         \A t \in Subs \ {s} : got'[t] = got[t]
  PROVE  ListOK'
  BY DEF Base, Types, TypeOK, ListOK, In, Listening, States

LEMMA RecvBase ==
  ASSUME Base, NEW s \in Subs, Recv(s)
  PROVE  Base'
<1>1. MovedMark(s) \in Int64 /\ 0 \in Int64
  BY MovedMarkType, Bounds DEF Base
<1>2. Types'
  <2>1. CASE size[s] = AllEvents
    BY <2>1 DEF Base, Types, TypeOK, InStream, Recv, stream, sender, position, history, States
  <2>2. CASE size[s] # AllEvents
    <3>1. /\ UNCHANGED <<stream, sender, subs, history>>
          /\ idx' = [idx EXCEPT ![s] = MovedMark(s)] /\ size' = [size EXCEPT ![s] = 0]
          /\ wait' = wait \/ wait' = [wait EXCEPT ![s] = "open"]
          /\ pc' = [pc EXCEPT ![s] = "select"] \/ pc' = [pc EXCEPT ![s] = "ready"]
      BY <2>2 DEF Recv
    <3>2. /\ idx' \in [Subs -> Int64] /\ size' \in [Subs -> Int64]
          /\ wait' \in [Subs -> {"nil", "open"}] /\ pc' \in [Subs -> States]
      BY <1>1, <3>1 DEF Base, Types, TypeOK, States
    <3> QED BY <3>1, <3>2 DEF Base, Types, TypeOK, InStream, stream, sender, history
  <2> QED BY <2>1, <2>2
<1>3. PICK state \in {"ready", "select"} : pc' = [pc EXCEPT ![s] = state]
  BY DEF Recv
<1>4. ListOK'
  <2>1. Listening(s) /\ state \in States /\ state # "new" /\ subs' = subs /\ got' = got
    BY <1>3 DEF Recv, Listening, States, history
  <2> QED BY <1>3, <2>1, ListKept
<1> QED BY <1>2, <1>4 DEF Base

LEMMA SelectBase ==
  ASSUME Base, NEW s \in Subs, Select(s) \/ Wake(s) \/ Cancel(s)
  PROVE  Base'
<1>1. PICK state \in {"parked", "stuck", "ready", "closing"} : pc' = [pc EXCEPT ![s] = state]
  BY DEF Select, Wake, Cancel
<1>2. UNCHANGED <<stream, sender, subs, position, history>> /\ Listening(s)
  BY DEF Select, Wake, Cancel, Listening
<1>3. Types'
  BY <1>1, <1>2 DEF Base, Types, TypeOK, InStream, stream, sender, position, history, States
<1>4. ListOK'
  <2>1. state \in States /\ state # "new" /\ subs' = subs /\ got' = got
    BY <1>1, <1>2 DEF States, history
  <2> QED BY <1>1, <1>2, <2>1, ListKept
<1> QED BY <1>3, <1>4 DEF Base

LEMMA EventsBase ==
  ASSUME Base, NEW s \in Subs, Events(s)
  PROVE  Base'
<1> DEFINE batch == GenerateStreamIDs(First, last, idx[s], size[s])
           fails == \E i \in 1 .. Len(batch) : batch[i] \notin 1 .. last
<1>1. pc[s] = "ready" /\ UNCHANGED <<stream, sender, subs, wait, from, sent, outOfTurn>>
  BY DEF Events
<1>2. CASE fails
  <2>1. pc' = [pc EXCEPT ![s] = "closing"] /\ UNCHANGED <<idx, size, got>>
    BY <1>2 DEF Events
  <2>2. Types'
    BY <1>1, <2>1 DEF Base, Types, TypeOK, InStream, stream, sender, States
  <2>3. ListOK'
    BY <1>1, <2>1, ListKept DEF Listening, States
  <2> QED BY <2>2, <2>3 DEF Base
<1>3. CASE ~fails
  <2>1. /\ pc' = [pc EXCEPT ![s] = "loop"]
        /\ size' = [size EXCEPT ![s] = Len(batch)]
        /\ idx' = [idx EXCEPT ![s] = IF batch = <<>> THEN @ ELSE batch[1] - 1]
        /\ got' = [got EXCEPT ![s] = @ \o batch]
    BY <1>3 DEF Events
  <2>2. batch \in Seq(1 .. last) /\ Len(batch) \in 0 .. AllEvents /\ (batch # <<>> => batch[1] \in 1 .. last)
    BY <1>3, EventsAre DEF Base
  <2> HIDE DEF batch, fails
  <2>3. got[s] \in Seq(1 .. last) /\ last \in 0 .. MaxLast
    BY DEF Base, Types, TypeOK, InStream
  <2>4. got[s] \o batch \in Seq(1 .. last) /\ got[s] \o batch \in Seq(1 .. MaxLast)
    <3>1. got[s] \o batch \in Seq(1 .. last)
      BY <2>2, <2>3, ConcatProperties
    <3>2. 1 .. last \subseteq 1 .. MaxLast
      BY <2>3, Bounds
    <3> QED BY <3>1, <3>2, SeqMonotonic
  <2>5. Len(batch) \in Int64 /\ (batch # <<>> => batch[1] - 1 \in Int64)
    BY <2>2, <2>3, Bounds DEF Int64
  <2>6. TypeOK'
    BY <1>1, <2>1, <2>4, <2>5 DEF Base, Types, TypeOK, stream, sender, States
  <2>7. InStream'
    BY <1>1, <2>1, <2>4 DEF Base, Types, TypeOK, InStream, stream, sender
  <2>8. ListOK'
    <3>1. \A t \in Subs \ {s} : got'[t] = got[t]
      BY <2>1 DEF Base, Types, TypeOK
    <3> QED BY <1>1, <2>1, <3>1, ListKept DEF Listening, States
  <2> QED BY <2>6, <2>7, <2>8 DEF Base, Types
<1> QED BY <1>2, <1>3

(* delete puts the last subscription into the place of the one that        *)
(* leaves: the list keeps all others.                                      *)
LEMMA WithoutIs ==
  ASSUME NEW lis \in Seq(Subs), NEW s \in Subs, In(s, lis),
         \A i, j \in 1 .. Len(lis) : lis[i] = lis[j] => i = j
  PROVE  LET rest == Without(lis, s)
         IN  /\ rest \in Seq(Subs) /\ Len(rest) = Len(lis) - 1
             /\ \A i, j \in 1 .. Len(rest) : rest[i] = rest[j] => i = j
             /\ \A t \in Subs : In(t, rest) <=> In(t, lis) /\ t # s
<1> DEFINE n == Len(lis)
           rest == Without(lis, s)
<1>1. n \in Nat /\ \A i \in 1 .. n : lis[i] \in Subs
  BY AsFunction
<1>2. PICK k \in 1 .. n : lis[k] = s
  BY DEF In
<1>3. rest = [i \in 1 .. n - 1 |-> IF lis[i] = s THEN lis[n] ELSE lis[i]]
  BY DEF Without
<1>4. n - 1 \in Nat /\ n \in 1 .. n
  BY <1>1, <1>2
<1> HIDE DEF n, rest
<1>5. Len(rest) = n - 1 /\ \A i \in 1 .. n - 1 : rest[i] = IF i = k THEN lis[n] ELSE lis[i]
  <2>1. \A i \in 1 .. n - 1 : lis[i] = s <=> i = k
    BY <1>1, <1>2 DEF n
  <2> QED BY <1>3, <1>4, <2>1
<1>6. rest \in Seq(Subs)
  BY <1>1, <1>3, <1>4
<1>7. \A i, j \in 1 .. n - 1 : rest[i] = rest[j] => i = j
  <2> SUFFICES ASSUME NEW i \in 1 .. n - 1, NEW j \in 1 .. n - 1, rest[i] = rest[j] PROVE i = j
    OBVIOUS
  <2>1. i \in 1 .. n /\ j \in 1 .. n /\ i # n /\ j # n
    BY <1>1
  <2> QED BY <1>2, <1>4, <1>5, <2>1 DEF n
<1>8. ASSUME NEW t \in Subs PROVE In(t, rest) <=> In(t, lis) /\ t # s
  <2>1. ASSUME In(t, rest) PROVE In(t, lis) /\ t # s
    <3>1. PICK i \in 1 .. n - 1 : rest[i] = t
      BY <1>5, <2>1 DEF In
    <3>2. i \in 1 .. n /\ i # n
      BY <1>1
    <3>3. CASE i = k
      BY <1>2, <1>4, <1>5, <3>1, <3>2, <3>3 DEF In, n
    <3>4. CASE i # k
      BY <1>2, <1>4, <1>5, <3>1, <3>2, <3>4 DEF In, n
    <3> QED BY <3>3, <3>4
  <2>2. ASSUME In(t, lis), t # s PROVE In(t, rest)
    <3>1. PICK i \in 1 .. n : lis[i] = t
      BY <2>2 DEF In, n
    <3>2. CASE i = n
      <4>1. k # n /\ k \in 1 .. n - 1
        BY <1>1, <1>2, <2>2, <3>1, <3>2
      <4>2. rest[k] = t
        BY <1>5, <3>1, <3>2, <4>1
      <4> QED BY <1>5, <4>1, <4>2 DEF In
    <3>3. CASE i # n
      <4>1. i # k /\ i \in 1 .. n - 1
        BY <1>1, <1>2, <2>2, <3>1, <3>3
      <4>2. rest[i] = t
        BY <1>5, <3>1, <4>1
      <4> QED BY <1>5, <4>1, <4>2 DEF In
    <3> QED BY <3>2, <3>3
  <2> QED BY <2>1, <2>2
<1> QED BY <1>5, <1>6, <1>7, <1>8 DEF n, rest

LEMMA CloseBase ==
  ASSUME Base, NEW s \in Subs, Close(s)
  PROVE  Base'
<1>1. /\ pc[s] = "closing" /\ pc' = [pc EXCEPT ![s] = "closed"] /\ subs' = Without(subs, s)
      /\ UNCHANGED <<stream, sender, position, history>>
  BY DEF Close
<1>2. subs \in Seq(Subs) /\ In(s, subs) /\ \A i, j \in 1 .. Len(subs) : subs[i] = subs[j] => i = j
  BY <1>1 DEF Base, Types, TypeOK, ListOK
<1>3. /\ subs' \in Seq(Subs)
      /\ \A i, j \in 1 .. Len(subs') : subs'[i] = subs'[j] => i = j
      /\ \A t \in Subs : In(t, subs)' <=> In(t, subs) /\ t # s
  <2>1. \A t \in Subs : In(t, subs)' <=> In(t, Without(subs, s))
    BY <1>1 DEF In
  <2> QED BY <1>1, <1>2, <2>1, WithoutIs
<1>4. Types'
  BY <1>1, <1>3 DEF Base, Types, TypeOK, InStream, stream, sender, position, history, States
<1>5. ListOK'
  <2>1. pc \in [Subs -> States] /\ got' = got
    BY <1>1 DEF Base, Types, TypeOK, history
  <2> QED BY <1>1, <1>3, <2>1 DEF Base, ListOK, Listening
<1> QED BY <1>4, <1>5 DEF Base

LEMMA CloseTimesOutBase ==
  ASSUME Base, NEW s \in Subs, CloseTimesOut(s)
  PROVE  Base'
<1>1. Types'
  BY DEF Base, Types, TypeOK, InStream, CloseTimesOut, stream, sender, position, history, States
<1>2. ListOK'
  BY DEF Base, Types, TypeOK, ListOK, In, Listening, CloseTimesOut, history
<1> QED BY <1>1, <1>2 DEF Base

LEMMA StutterBase == Base /\ UNCHANGED vars => Base'
<1> SUFFICES ASSUME Base, UNCHANGED vars PROVE Base'
  OBVIOUS
<1>1. Types'
  BY DEF Base, Types, TypeOK, InStream, vars, stream, sender, position, history
<1>2. ListOK'
  BY DEF Base, ListOK, In, Listening, vars, history
<1> QED BY <1>1, <1>2 DEF Base

LEMMA SpecBase == Spec => []Base
<1>1. ASSUME Base, Next PROVE Base'
  <2>1. CASE \E n \in 1 .. MaxBatch : AppendBatch(n) \/ AppendFails(n)
    BY <1>1, <2>1, AppendBase
  <2>2. CASE Sends
    BY <1>1, <2>2, SendStartsBase, SendVisitsBase, SendEndsBase DEF Sends
  <2>3. ASSUME NEW s \in Subs,
               (\E start \in Starts : Subscribe(s, start)) \/ Loop(s) \/ Cancel(s) \/ CloseTimesOut(s)
        PROVE  Base'
    BY <1>1, <2>3, SubscribeBase, RecvBase, SelectBase, EventsBase, CloseBase, CloseTimesOutBase DEF Loop
  <2> QED BY <1>1, <2>1, <2>2, <2>3 DEF Next
<1>2. Base /\ [Next]_vars => Base'
  BY <1>1, StutterBase
<1> QED BY <1>2, InitBase, PTL DEF Spec

(* The variables keep their types, whatever comes out of turn and wherever *)
(* subscriptions start (Send, Recv, Events).                               *)
THEOREM TypeCorrect == Spec => []TypeOK
<1>1. Base => TypeOK
  BY DEF Base, Types
<1> QED BY <1>1, SpecBase, PTL

(* Whoever listens is in the list of subscriptions, once, whoever leaves   *)
(* (Subscribe, delete, Close).                                             *)
THEOREM RegisteredCorrect == Spec => []Registered
<1>1. Base => Registered
  <2> SUFFICES ASSUME Base, NEW s \in Subs, Listening(s)
               PROVE  Cardinality({i \in 1 .. Len(subs) : subs[i] = s}) = 1
    BY DEF Registered
  <2>1. PICK k \in 1 .. Len(subs) : subs[k] = s
    BY DEF Base, ListOK, In
  <2>2. {i \in 1 .. Len(subs) : subs[i] = s} = {k}
    BY <2>1 DEF Base, ListOK
  <2> QED BY <2>2, FS_Singleton
<1> QED BY <1>1, SpecBase, PTL

-----------------------------------------------------------------------------
(* What a subscriber is given.                                             *)
Proviso == Stamped /\ Starts \subseteq {0, -1}

(* What a Send leaves in turn: how far its batch is ahead of the mark.     *)
LEMMA SizeInTurn ==
  ASSUME Proviso, Types, sending # NoBatch, NEW i \in -1 .. sending.at
  PROVE  SizeSent(sending, i) = IF i = -1 THEN sending.at + 1 ELSE sending.at - i
<1>1. sending.at \in 1 .. MaxLast
  BY SendingIs, Bounds
<1>2. SentPosition(sending) = sending.at
  BY DEF Proviso, SentPosition
<1>3. CASE i = -1
  <2>1. ToUint(i) = Word - 1
    BY <1>3, Bounds DEF ToUint
  <2>2. Minus(sending.at, Word - 1) = sending.at + 1
    BY <1>1, Bounds DEF Minus
  <2>3. ToInt(sending.at + 1) = sending.at + 1
    BY <1>1, Bounds DEF ToInt
  <2> QED BY <1>2, <1>3, <2>1, <2>2, <2>3 DEF SizeSent
<1>4. CASE i \in 0 .. sending.at
  <2>1. ToUint(i) = i
    BY <1>4 DEF ToUint
  <2>2. Minus(sending.at, i) = sending.at - i
    BY <1>1, <1>4, Bounds DEF Minus
  <2>3. ToInt(sending.at - i) = sending.at - i
    BY <1>1, <1>4, Bounds DEF ToInt
  <2>4. i # -1
    BY <1>4
  <2> QED BY <1>2, <2>1, <2>2, <2>3, <2>4 DEF SizeSent
<1> QED BY <1>1, <1>3, <1>4

(* ... and where Recv moves the mark to.                                   *)
LEMMA MovedMarkInTurn ==
  ASSUME Types, NEW s \in Subs, LoopOK(s), size[s] # AllEvents
  PROVE  MovedMark(s) = idx[s] + size[s]
<1>0. last \in Nat /\ last < AllEvents
  BY Bounds DEF Types, TypeOK
<1>1. CASE idx[s] \in 0 .. last /\ size[s] \in 0 .. last /\ idx[s] + size[s] \in 0 .. last
  <2>1. ToUint(idx[s]) = idx[s] /\ ToUint(size[s]) = size[s]
    BY <1>1 DEF ToUint
  <2>2. Plus(idx[s], size[s]) = idx[s] + size[s]
    BY <1>0, <1>1, Bounds DEF Plus
  <2>3. ToInt(idx[s] + size[s]) = idx[s] + size[s]
    BY <1>0, <1>1, Bounds DEF ToInt
  <2> QED BY <2>1, <2>2, <2>3 DEF MovedMark
<1>2. CASE idx[s] = -1 /\ size[s] = 0
  <2>1. ToUint(idx[s]) = Word - 1 /\ ToUint(size[s]) = 0
    BY <1>2, Bounds DEF ToUint
  <2>2. Plus(Word - 1, 0) = Word - 1
    BY Bounds DEF Plus
  <2>3. ToInt(Word - 1) = -1
    BY <1>0, Bounds DEF ToInt
  <2> QED BY <1>2, <2>1, <2>2, <2>3 DEF MovedMark
<1>3. LastGot(s) \in 0 .. last
  <2>1. got[s] \in Seq(1 .. last)
    BY DEF Types, InStream
  <2>2. Len(got[s]) \in Nat /\ (got[s] # <<>> => Len(got[s]) > 0) /\ \A i \in 1 .. Len(got[s]) : got[s][i] \in 1 .. last
    BY <2>1, AsFunction
  <2> QED BY <1>0, <2>2 DEF LastGot
<1> QED BY <1>1, <1>2, <1>3 DEF LoopOK

LEMMA LastGotIs ==
  ASSUME Types, NEW s \in Subs
  PROVE  /\ LastGot(s) \in 0 .. last /\ last \in Nat /\ last < AllEvents
         /\ got[s] = <<>> => LastGot(s) = 0
         /\ got[s] \in Seq(1 .. last)
<1>1. last \in Nat /\ last < AllEvents /\ got[s] \in Seq(1 .. last)
  BY Bounds DEF Types, TypeOK, InStream
<1>2. Len(got[s]) \in Nat /\ (got[s] # <<>> => Len(got[s]) > 0) /\ \A i \in 1 .. Len(got[s]) : got[s][i] \in 1 .. last
  BY <1>1, AsFunction
<1> QED BY <1>1, <1>2 DEF LastGot

LEMMA PageFromOne ==
  ASSUME NEW l \in 1 .. AllEvents, NEW a \in 0 .. l, NEW k \in 1 .. AllEvents
  PROVE  GenerateStreamIDs(1, l, a, k) = [i \in 1 .. Smaller(k, l - a) |-> a + i]
<1>1. 1 \in 1 .. l
  BY Bounds
<1>2. From(1, a) = a
  BY Bounds DEF From, Larger
<1>3. GenerateStreamIDs(1, l, a, k) = [i \in 1 .. Smaller(k, l - From(1, a)) |-> From(1, a) + i]
  BY <1>1, PageForward
<1> QED BY <1>2, <1>3

(* Events in turn returns the events behind the mark, as many as the size  *)
(* says and there are; from the mark -1 the last event.                    *)
LEMMA EventsInTurn ==
  ASSUME Types, NEW s \in Subs, RecvOK(s)
  PROVE  LET batch == GenerateStreamIDs(First, last, idx[s], size[s])
         IN  \/ /\ batch = <<>>
                /\ last = 0 \/ size[s] = 0 \/ LastGot(s) = last
             \/ /\ idx[s] = LastGot(s)
                /\ \E n \in 1 .. last - LastGot(s) :
                     /\ batch = [i \in 1 .. n |-> LastGot(s) + i]
                     /\ n = size[s] \/ n = last - LastGot(s)
             \/ idx[s] = -1 /\ from[s] = -1 /\ got[s] = <<>> /\ last > 0 /\ batch = [i \in 1 .. 1 |-> last]
<1> DEFINE batch == GenerateStreamIDs(First, last, idx[s], size[s])
           g == LastGot(s)
<1>0. g \in 0 .. last /\ last \in Nat /\ last < AllEvents
  BY LastGotIs
<1>1. CASE last = 0
  <2>1. batch = <<>>
    BY <1>1 DEF GenerateStreamIDs, First
  <2> QED BY <1>1, <2>1
<1>2. CASE size[s] = 0
  <2>1. PagerBox(First, last, idx[s], 0).size = 0
    BY DEF PagerBox
  <2>2. batch = <<>>
    BY <1>2, <2>1 DEF GenerateStreamIDs
  <2> QED BY <1>2, <2>2
<1>3. CASE last > 0 /\ size[s] # 0
  <2>1. First = 1 /\ last \in 1 .. AllEvents /\ 1 \in 1 .. last /\ size[s] \in 1 .. AllEvents
    BY <1>0, <1>3, Bounds DEF First, RecvOK
  <2>2. CASE idx[s] = g
    <3> DEFINE n == Smaller(size[s], last - g)
    <3>2. batch = [i \in 1 .. n |-> g + i]
      <4>1. PICK a \in 0 .. last, k \in 1 .. AllEvents : a = g /\ k = size[s]
        BY <1>0, <2>1
      <4>2. GenerateStreamIDs(1, last, a, k) = [i \in 1 .. Smaller(k, last - a) |-> a + i]
        BY <2>1, PageFromOne
      <4>3. GenerateStreamIDs(1, last, g, size[s]) = [i \in 1 .. n |-> g + i]
        BY <4>1, <4>2
      <4> QED BY <2>1, <2>2, <4>3
    <3>3. n \in 0 .. last - g /\ (n = size[s] \/ n = last - g) /\ (n = 0 => g = last)
      BY <1>0, <2>1 DEF Smaller
    <3>4. CASE n = 0
      <4> HIDE DEF n, batch
      <4>1. batch = <<>>
        BY <3>2, <3>4
      <4> QED BY <3>3, <3>4, <4>1 DEF batch
    <3>5. CASE n # 0
      <4>1. n \in 1 .. last - g
        BY <1>0, <3>3, <3>5
      <4> HIDE DEF n, batch
      <4> QED BY <2>2, <3>2, <3>3, <4>1 DEF batch
    <3> QED BY <3>4, <3>5
  <2>3. CASE idx[s] = -1 /\ from[s] = -1 /\ got[s] = <<>>
    <3>1. PICK a \in Int64 : a = idx[s] /\ a < 0 /\ last + a + 1 = last
      BY <1>0, <2>1, <2>3, Bounds DEF Int64
    <3>2. GenerateStreamIDs(1, last, a, size[s]) = [i \in 1 .. Smaller(size[s], last - last + 1) |-> last + i - 1]
      <4>1. size[s] \in Int64 /\ size[s] > 0 /\ last + a + 1 >= 1 - 1
        BY <1>0, <2>1, <3>1, Bounds DEF Int64
      <4>2. GenerateStreamIDs(1, last, a, size[s]) =
              [i \in 1 .. Smaller(size[s], last - (last + a + 1) + 1) |-> (last + a + 1) + i - 1]
        BY <2>1, <3>1, <4>1, PageBackward
      <4> QED BY <3>1, <4>2
    <3>3. Smaller(size[s], last - last + 1) = 1
      BY <1>0, <2>1 DEF Smaller
    <3>4. [i \in 1 .. 1 |-> last + i - 1] = [i \in 1 .. 1 |-> last]
      BY <1>0
    <3>5. batch = [i \in 1 .. 1 |-> last]
      BY <2>1, <3>1, <3>2, <3>3, <3>4
    <3> QED BY <1>3, <2>3, <3>5
  <2> QED BY <2>2, <2>3 DEF RecvOK
<1>4. last = 0 \/ last > 0
  BY <1>0
<1> HIDE DEF batch, g
<1> QED BY <1>1, <1>2, <1>3, <1>4 DEF batch, g

-----------------------------------------------------------------------------
(* What Sends carry stays in the stream.                                   *)
LEMMA NewestKept ==
  ASSUME Base, Newest, Next
  PROVE  Newest'
<1>0. last \in Nat /\ sent \in Nat /\ \A b \in sends : b.at \in Nat /\ b.at <= last
  BY DEF Base, Types, TypeOK, InStream, Batches
<1>1. ASSUME NEW n \in 1 .. MaxBatch, AppendBatch(n) \/ AppendFails(n) PROVE Newest'
  <2>1. last' = last + n /\ n \in Nat /\ UNCHANGED <<sending, sent>>
    BY <1>0, <1>1 DEF AppendBatch, AppendFails, sender, history
  <2> QED BY <1>0, <2>1 DEF Newest
<1>2. ASSUME NEW b \in sends, SendStarts(b) PROVE Newest'
  <2>1. last' = last /\ sending' = b /\ sent' = IF b.at > sent THEN b.at ELSE sent
    BY <1>2 DEF SendStarts
  <2>2. b.at \in Nat /\ b.at <= last
    BY <1>0
  <2> QED BY <1>0, <2>1, <2>2 DEF Newest
<1>3. ASSUME SendVisits \/ SendEnds PROVE Newest'
  BY <1>3 DEF Newest, SendVisits, SendEnds, stream, history
<1>4. ASSUME UNCHANGED <<stream, sender, sent>> PROVE Newest'
  BY <1>4 DEF Newest, stream, sender
<1>5. ASSUME NEW s \in Subs,
             (\E start \in Starts : Subscribe(s, start)) \/ Loop(s) \/ Cancel(s) \/ CloseTimesOut(s)
      PROVE  UNCHANGED <<stream, sender, sent>>
  BY <1>5 DEF Subscribe, Loop, Recv, Select, Wake, Events, Close, Cancel, CloseTimesOut, stream, sender, history
<1> QED BY <1>1, <1>2, <1>3, <1>4, <1>5 DEF Next, Sends

(* What a step does not touch.                                             *)
LEMMA OthersKept ==
  ASSUME NEW t \in Subs, PositionOf(t), last \in Nat, last' \in Nat, last <= last',
         Pending(t)' \/ (sent' = sent /\ (Pending(t) => Pending(t)')),
         pc'[t] = pc[t], idx'[t] = idx[t], size'[t] = size[t], wait'[t] = wait[t],
         from'[t] = from[t], got'[t] = got[t], outOfTurn'[t] = outOfTurn[t]
  PROVE  PositionOf(t)'
<1>1. Unbroken(t) /\ BeginsRight(t) => Unbroken(t)' /\ BeginsRight(t)'
  BY DEF Unbroken, BeginsRight
<1>2. LastGot(t)' = LastGot(t)
  BY DEF LastGot
<1>3. 0 .. last \subseteq 0 .. last' /\ 0 .. last + 1 \subseteq 0 .. last' + 1
  <2>1. \A l, m \in Nat : l <= m => 0 .. l \subseteq 0 .. m /\ 0 .. l + 1 \subseteq 0 .. m + 1
    OBVIOUS
  <2> QED BY <2>1
<1>4. LoopOK(t) => LoopOK(t)'
  BY <1>2, <1>3 DEF LoopOK
<1>5. RecvOK(t) => RecvOK(t)'
  BY <1>2, <1>3 DEF RecvOK
<1> QED BY <1>1, <1>4, <1>5 DEF PositionOf, Receiving

(* One who only leaves, or is not listening, is not promised anything.     *)
LEMMA NotListening ==
  ASSUME NEW t \in Subs, PositionOf(t), from'[t] = from[t], got'[t] = got[t],
         outOfTurn'[t] = outOfTurn[t], pc'[t] # "loop", ~Receiving(t)'
  PROVE  PositionOf(t)'
<1>1. Unbroken(t) /\ BeginsRight(t) => Unbroken(t)' /\ BeginsRight(t)'
  BY DEF Unbroken, BeginsRight
<1> QED BY <1>1 DEF PositionOf

LEMMA AppendTurn ==
  ASSUME IInv, NEW n \in 1 .. MaxBatch, AppendBatch(n) \/ AppendFails(n), NEW t \in Subs
  PROVE  PositionOf(t)'
<1>1. /\ last \in Nat /\ n \in Nat /\ n > 0 /\ last' = last + n
      /\ UNCHANGED <<sending, todo, pc, idx, size, wait, from, got, sent, outOfTurn>>
  BY DEF AppendBatch, AppendFails, sender, position, history, IInv, Base, Types, TypeOK
<1>2. last' \in Nat /\ last <= last'
  BY <1>1
<1>3. Pending(t) => Pending(t)'
  BY <1>1 DEF Pending, In
<1> QED BY <1>1, <1>2, <1>3, OthersKept DEF IInv, Turn

LEMMA SendStartsTurn ==
  ASSUME IInv, NEW b \in sends, SendStarts(b), NEW t \in Subs
  PROVE  PositionOf(t)'
<1>1. /\ sending = NoBatch /\ sending' = b /\ todo' = subs
      /\ sent' = IF b.at > sent THEN b.at ELSE sent
      /\ UNCHANGED <<last, pc, idx, size, wait, from, got, outOfTurn>>
  BY DEF SendStarts, position
<1>2. b # NoBatch /\ b.at \in Nat /\ sent \in Nat /\ last \in Nat /\ ~Pending(t)
  <2>1. b \in [at : Nat, count : Nat]
    BY DEF IInv, Base, Types, TypeOK, Batches
  <2>2. sent \in Nat /\ last \in Nat /\ ~Pending(t)
    BY <1>1 DEF IInv, Base, Types, TypeOK, Pending
  <2> QED BY <2>1, <2>2, StreamerAssumption
<1>3. CASE Listening(t)
  <2>1. In(t, todo)'
    BY <1>1, <1>3 DEF IInv, Base, ListOK, In
  <2>2. Pending(t)' \/ (sent' = sent /\ (Pending(t) => Pending(t)'))
    <3>1. sent' = sent \/ sending'.at = sent'
      BY <1>1
    <3> QED BY <1>1, <1>2, <2>1, <3>1 DEF Pending
  <2> QED BY <1>1, <1>2, <2>2, OthersKept DEF IInv, Turn
<1>4. CASE ~Listening(t)
  BY <1>1, <1>4, NotListening DEF IInv, Turn, Listening, Receiving
<1> QED BY <1>3, <1>4

(* A Send in turn leaves the subscription a size that reaches to the end   *)
(* of its batch, the last that any Send has carried.                       *)
LEMMA SendVisitsTurn ==
  ASSUME Proviso, IInv, SendVisits, NEW t \in Subs
  PROVE  PositionOf(t)'
<1>1. /\ todo \in Seq(Subs) /\ todo # <<>> /\ sending # NoBatch
      /\ UNCHANGED <<last, sending, pc, idx, from, got, sent>> /\ last \in Nat
  BY DEF IInv, Base, Types, TypeOK, SendVisits, stream
<1>2. Head(todo) \in Subs /\ Head(todo) = todo[1] /\ Len(todo) \in Nat /\ Len(todo) > 0
      /\ Len(todo') = Len(todo) - 1 /\ \A i \in 1 .. Len(todo') : todo'[i] = todo[i + 1]
  BY <1>1, HeadTailProperties, AsFunction DEF SendVisits
<1> DEFINE s == Head(todo)
<1>3. CASE t # s
  <2>1. In(t, todo) => In(t, todo)'
    <3> SUFFICES ASSUME In(t, todo) PROVE In(t, todo)'
      OBVIOUS
    <3>1. PICK i \in 1 .. Len(todo) : todo[i] = t
      BY DEF In
    <3>2. i # 1
      BY <1>2, <1>3, <3>1
    <3>3. i - 1 \in 1 .. Len(todo') /\ todo'[i - 1] = todo[i]
      BY <1>2, <3>1, <3>2
    <3> QED BY <3>1, <3>3 DEF In
  <2>2. Pending(t) => Pending(t)'
    BY <1>1, <2>1 DEF Pending
  <2>3. size'[t] = size[t] /\ wait'[t] = wait[t] /\ outOfTurn'[t] = outOfTurn[t]
    BY <1>3 DEF SendVisits, IInv, Base, Types, TypeOK
  <2> QED BY <1>1, <2>2, <2>3, OthersKept DEF IInv, Turn
<1>4. CASE t = s /\ Receiving(t) /\ ~outOfTurn'[t]
  <2>1. /\ size'[t] = SizeSent(sending, idx[t]) /\ wait'[t] = "nil"
        /\ outOfTurn'[t] = (outOfTurn[t] \/ pc[t] = "loop" \/ sending.at < sent \/ sending.at < LastGot(t))
    BY <1>4 DEF SendVisits, Signal, IInv, Base, Types, TypeOK
  <2>2. ~outOfTurn[t] /\ ~(sending.at < sent) /\ ~(sending.at < LastGot(t))
    BY <1>4, <2>1
  <2>3. Unbroken(t) /\ BeginsRight(t) /\ RecvOK(t)
    BY <1>4, <2>2 DEF IInv, Turn, PositionOf
  <2>4. LastGot(t) \in 0 .. last /\ last \in Nat /\ (got[t] = <<>> => LastGot(t) = 0)
    BY LastGotIs DEF IInv, Base
  <2>5. sending.at \in 1 .. last /\ sent \in Nat /\ sent <= last
    BY <1>1, SendingIs DEF IInv, Base, Types, TypeOK, Turn, Newest
  <2>6. idx[t] \in -1 .. sending.at /\ idx[t] \in Int
    BY <2>2, <2>3, <2>4, <2>5 DEF RecvOK
  <2>7. size'[t] = IF idx[t] = -1 THEN sending.at + 1 ELSE sending.at - idx[t]
    BY <1>1, <2>1, <2>6, SizeInTurn DEF IInv, Base
  <2>8. sending.at = sent
    BY <1>1, <2>2, <2>5 DEF IInv, Turn, Newest
  <2>9. LastGot(t)' = LastGot(t) /\ Unbroken(t)' /\ BeginsRight(t)'
    BY <1>1, <2>3 DEF LastGot, Unbroken, BeginsRight
  <2>10. size'[t] \in 0 .. last + 1 /\ LastGot(t) + size'[t] >= sending.at
    <3>1. CASE idx[t] = -1
      <4>1. size'[t] = sending.at + 1
        BY <2>7, <3>1
      <4> QED BY <2>4, <2>5, <4>1
    <3>2. CASE idx[t] # -1
      <4>1. size'[t] = sending.at - idx[t] /\ idx[t] = LastGot(t)
        BY <2>3, <2>7, <3>2 DEF RecvOK
      <4> QED BY <2>2, <2>4, <2>5, <4>1
    <3> QED BY <3>1, <3>2
  <2>11. RecvOK(t)'
    BY <1>1, <2>1, <2>3, <2>8, <2>9, <2>10 DEF RecvOK
  <2> QED BY <1>1, <1>4, <2>9, <2>11 DEF PositionOf, Receiving
<1>5. CASE t = s /\ outOfTurn'[t]
  BY <1>5 DEF PositionOf
<1>6. CASE t = s /\ ~Receiving(t) /\ ~outOfTurn'[t]
  <2>1. outOfTurn'[t] = (outOfTurn[t] \/ pc[t] = "loop" \/ sending.at < sent \/ sending.at < LastGot(t))
    BY <1>6 DEF SendVisits, IInv, Base, Types, TypeOK
  <2>2. pc[t] # "loop" /\ ~outOfTurn[t]
    BY <1>6, <2>1
  <2>3. Unbroken(t)' /\ BeginsRight(t)'
    BY <1>1, <2>2 DEF IInv, Turn, PositionOf, Unbroken, BeginsRight
  <2> QED BY <1>1, <1>6, <2>2, <2>3 DEF PositionOf, Receiving
<1> QED BY <1>3, <1>4, <1>5, <1>6

LEMMA SendEndsTurn ==
  ASSUME IInv, SendEnds, NEW t \in Subs
  PROVE  PositionOf(t)'
<1>1. /\ todo = <<>> /\ UNCHANGED <<last, pc, idx, size, wait, from, got, sent, outOfTurn>>
      /\ last \in Nat
  BY DEF SendEnds, stream, position, history, IInv, Base, Types, TypeOK
<1>2. Pending(t) => Pending(t)'
  BY <1>1 DEF Pending, In
<1> QED BY <1>1, <1>2, OthersKept DEF IInv, Turn

LEMMA SubscribeTurn ==
  ASSUME Proviso, IInv, NEW s \in Subs, NEW start \in Starts, Subscribe(s, start), NEW t \in Subs
  PROVE  PositionOf(t)'
<1>1. /\ pc[s] = "new" /\ pc' = [pc EXCEPT ![s] = "loop"]
      /\ idx' = [idx EXCEPT ![s] = start] /\ size' = [size EXCEPT ![s] = AllEvents]
      /\ from' = [from EXCEPT ![s] = start]
      /\ UNCHANGED <<last, sending, todo, wait, got, sent, outOfTurn>> /\ last \in Nat
      /\ pc \in [Subs -> States] /\ idx \in [Subs -> Int64] /\ size \in [Subs -> Int64]
      /\ from \in [Subs -> Int64]
  BY DEF Subscribe, stream, sender, IInv, Base, Types, TypeOK
<1>2. Pending(t) => Pending(t)'
  BY <1>1 DEF Pending, In
<1>3. CASE t # s
  BY <1>1, <1>2, <1>3, OthersKept DEF IInv, Turn
<1>4. CASE t = s
  <2>1. got[t] = <<>> /\ start \in {0, -1}
    BY <1>1, <1>4 DEF IInv, Base, ListOK, Proviso
  <2>2. LoopOK(t)'
    BY <1>1, <1>4, <2>1 DEF LoopOK
  <2>3. Unbroken(t)' /\ BeginsRight(t)'
    BY <1>1, <2>1 DEF Unbroken, BeginsRight
  <2>4. ~Receiving(t)'
    BY <1>1, <1>4 DEF Receiving
  <2> QED BY <2>2, <2>3, <2>4 DEF PositionOf
<1> QED BY <1>3, <1>4

(* Recv moves the mark behind the last event that was given, and sleeps    *)
(* only when there was none.                                               *)
LEMMA RecvTurn ==
  ASSUME Proviso, IInv, NEW s \in Subs, Recv(s), NEW t \in Subs
  PROVE  PositionOf(t)'
<1>1. /\ pc[s] = "loop" /\ UNCHANGED <<last, sending, todo, from, got, sent, outOfTurn>> /\ last \in Nat
      /\ pc \in [Subs -> States] /\ idx \in [Subs -> Int64] /\ size \in [Subs -> Int64]
      /\ wait \in [Subs -> {"nil", "open"}]
  BY DEF Recv, stream, sender, history, IInv, Base, Types, TypeOK
<1>2. Pending(t) <=> Pending(t)'
  BY <1>1 DEF Pending, In
<1>3. CASE t # s
  <2>1. pc'[t] = pc[t] /\ idx'[t] = idx[t] /\ size'[t] = size[t] /\ wait'[t] = wait[t]
    BY <1>1, <1>3 DEF Recv, position
  <2> QED BY <1>1, <1>2, <2>1, OthersKept DEF IInv, Turn
<1>4. CASE t = s /\ outOfTurn[t]
  BY <1>1, <1>4 DEF PositionOf
<1>5. CASE t = s /\ ~outOfTurn[t]
  <2>1. Unbroken(t) /\ BeginsRight(t) /\ LoopOK(t)
    BY <1>1, <1>5 DEF IInv, Turn, PositionOf
  <2>2. LastGot(t) \in 0 .. last /\ last \in Nat /\ last < AllEvents /\ (got[t] = <<>> => LastGot(t) = 0)
    BY LastGotIs DEF IInv, Base
  <2>3. LastGot(t)' = LastGot(t) /\ Unbroken(t)' /\ BeginsRight(t)'
    BY <1>1, <2>1 DEF LastGot, Unbroken, BeginsRight
  <2>4. pc'[t] # "loop"
    BY <1>1, <1>5 DEF Recv
  <2>5. CASE size[t] = AllEvents
    <3>1. pc'[t] = "ready" /\ idx'[t] = idx[t] /\ size'[t] = AllEvents
      BY <1>1, <1>5, <2>5 DEF Recv, position
    <3>2. AllEvents \notin 0 .. last /\ AllEvents \in Nat
      BY <2>2, Bounds
    <3>3. got[t] = <<>> /\ idx[t] = from[t] /\ from[t] \in {0, -1}
      BY <2>1, <2>5, <3>2 DEF LoopOK
    <3>4. sent \in Nat /\ sent <= last
      BY DEF IInv, Base, Types, TypeOK, Turn, Newest
    <3>5. RecvOK(t)'
      BY <1>1, <2>2, <2>3, <3>1, <3>2, <3>3, <3>4 DEF RecvOK
    <3> QED BY <2>3, <2>4, <3>5 DEF PositionOf
  <2>6. CASE size[t] # AllEvents
    <3>1. idx'[t] = idx[t] + size[t] /\ size'[t] = 0
      <4>1. MovedMark(t) = idx[t] + size[t]
        BY <2>1, <2>6, MovedMarkInTurn DEF IInv, Base
      <4> QED BY <1>1, <1>5, <2>6, <4>1 DEF Recv
    <3>2. idx'[t] = LastGot(t) \/ (idx'[t] = -1 /\ from[t] = -1 /\ got[t] = <<>>)
      <4>1. CASE idx[t] + size[t] = LastGot(t)
        BY <3>1, <4>1
      <4>2. CASE idx[t] = -1 /\ from[t] = -1 /\ size[t] = 0 /\ got[t] = <<>>
        BY <3>1, <4>2
      <4> QED BY <2>1, <2>6, <4>1, <4>2 DEF LoopOK
    <3>3. LastGot(t) >= sent \/ Pending(t)
      BY <2>1, <2>6 DEF LoopOK
    <3>4. sent \in Nat
      BY DEF IInv, Base, Types, TypeOK
    <3>5. RecvOK(t)'
      BY <1>1, <1>2, <2>2, <2>3, <3>1, <3>2, <3>3, <3>4 DEF RecvOK
    <3> QED BY <2>3, <2>4, <3>5 DEF PositionOf
  <2> QED BY <2>5, <2>6
<1> QED BY <1>3, <1>4, <1>5

LEMMA SelectTurn ==
  ASSUME IInv, NEW s \in Subs, Select(s) \/ Wake(s), NEW t \in Subs
  PROVE  PositionOf(t)'
<1>1. /\ Receiving(s) /\ UNCHANGED <<last, sending, todo, idx, size, wait, from, got, sent, outOfTurn>>
      /\ last \in Nat
      /\ \E state \in {"parked", "stuck", "ready"} :
           pc' = [pc EXCEPT ![s] = state] /\ (state = "parked" => pc[s] = "select")
      /\ pc \in [Subs -> States]
  BY DEF Select, Wake, Receiving, stream, sender, position, history, IInv, Base, Types, TypeOK
<1>2. Pending(t) => Pending(t)'
  BY <1>1 DEF Pending, In
<1>3. CASE t # s
  BY <1>1, <1>2, <1>3, OthersKept DEF IInv, Turn
<1>4. CASE t = s
  <2>1. /\ LastGot(t)' = LastGot(t)
        /\ Unbroken(t) /\ BeginsRight(t) => Unbroken(t)' /\ BeginsRight(t)'
    BY <1>1 DEF LastGot, Unbroken, BeginsRight
  <2>2. pc'[t] \in {"parked", "stuck", "ready"} /\ (pc'[t] = "parked" => pc[t] = "select")
    BY <1>1, <1>4
  <2>3. RecvOK(t) => RecvOK(t)'
    BY <1>1, <1>2, <2>1, <2>2 DEF RecvOK
  <2>4. PositionOf(t) /\ Receiving(t)
    BY <1>1, <1>4 DEF IInv, Turn
  <2> QED BY <1>1, <2>1, <2>2, <2>3, <2>4 DEF PositionOf
<1> QED BY <1>3, <1>4

LEMMA LeavesTurn ==
  ASSUME IInv, NEW s \in Subs, Cancel(s) \/ Close(s) \/ CloseTimesOut(s), NEW t \in Subs
  PROVE  PositionOf(t)'
<1>1. /\ UNCHANGED <<last, sending, todo, idx, size, wait, from, got, sent, outOfTurn>> /\ last \in Nat
      /\ \E state \in {"closing", "closed"} : pc' = [pc EXCEPT ![s] = state]
      /\ pc \in [Subs -> States]
  BY DEF Cancel, Close, CloseTimesOut, stream, sender, position, history, IInv, Base, Types, TypeOK
<1>2. Pending(t) => Pending(t)'
  BY <1>1 DEF Pending, In
<1>3. CASE t # s
  BY <1>1, <1>2, <1>3, OthersKept DEF IInv, Turn
<1>4. CASE t = s
  BY <1>1, <1>4, NotListening DEF IInv, Turn, Receiving
<1> QED BY <1>3, <1>4

(* A run of positions that is given behind those that were.                *)
LEMMA LongerRun ==
  ASSUME Types, NEW s \in Subs, Unbroken(s), NEW n \in Nat \ {0}, NEW batch \in Seq(Nat),
         Len(batch) = n, \A i \in 1 .. n : batch[i] = LastGot(s) + i \/ got[s] = <<>>,
         \A i \in 2 .. n : batch[i] = batch[i - 1] + 1,
         got'[s] = got[s] \o batch
  PROVE  Unbroken(s)' /\ LastGot(s)' = batch[n] /\ got'[s] # <<>>
<1> DEFINE m == Len(got[s])
<1>1. got[s] \in Seq(Nat)
  <2>1. 1 .. last \subseteq Nat
    BY LastGotIs
  <2> QED BY <2>1, LastGotIs, SeqMonotonic
<1>2. m \in Nat /\ (got[s] # <<>> => m > 0) /\ (got[s] = <<>> => m = 0)
  BY <1>1, AsFunction
<1>3. /\ Len(got'[s]) = m + n
      /\ \A i \in 1 .. m + n : got'[s][i] = IF i <= m THEN got[s][i] ELSE batch[i - m]
  <2>1. /\ Len(got[s] \o batch) = Len(got[s]) + Len(batch)
        /\ \A i \in 1 .. Len(got[s]) + Len(batch) :
             (got[s] \o batch)[i] = IF i <= Len(got[s]) THEN got[s][i] ELSE batch[i - Len(got[s])]
    <3>1. ASSUME NEW run \in Seq(Nat), NEW more \in Seq(Nat)
          PROVE  /\ Len(run \o more) = Len(run) + Len(more)
                 /\ \A i \in 1 .. Len(run) + Len(more) :
                      (run \o more)[i] = IF i <= Len(run) THEN run[i] ELSE more[i - Len(run)]
      BY ConcatProperties
    <3> QED BY <1>1, <3>1
  <2> QED BY <2>1
<1> HIDE DEF m
<1>4. Len(got'[s]) > 0
  BY <1>2, <1>3
<1>5. got'[s] # <<>>
  <2>1. Len(<<>>) = 0
    OBVIOUS
  <2> QED BY <1>4, <2>1
<1>6. got'[s][m + n] = batch[n]
  <2>1. m + n \in 1 .. m + n /\ ~(m + n <= m) /\ m + n - m = n
    BY <1>2
  <2> QED BY <1>3, <2>1
<1>7. LastGot(s)' = batch[n]
  BY <1>3, <1>5, <1>6 DEF LastGot
<1>8. Unbroken(s)'
  <2> SUFFICES ASSUME NEW i \in 2 .. m + n PROVE got'[s][i] = got'[s][i - 1] + 1
    BY <1>3 DEF Unbroken
  <2>0. i \in Nat /\ i \in 1 .. m + n /\ i - 1 \in 1 .. m + n
    BY <1>2
  <2>1. CASE i <= m
    <3>1. i \in 2 .. m /\ i - 1 <= m
      BY <1>2, <2>0, <2>1
    <3>2. got'[s][i] = got[s][i] /\ got'[s][i - 1] = got[s][i - 1]
      BY <1>3, <2>0, <2>1, <3>1
    <3>3. got[s][i] = got[s][i - 1] + 1
      BY <3>1 DEF Unbroken, m
    <3> QED BY <3>2, <3>3
  <2>2. CASE i = m + 1
    <3>1. m > 0 /\ m <= m /\ i - 1 = m /\ i - m = 1 /\ ~(i <= m)
      BY <1>2, <2>0, <2>2
    <3>2. got'[s][i] = batch[1] /\ got'[s][i - 1] = got[s][m]
      BY <1>3, <2>0, <3>1
    <3>3. got[s] # <<>> /\ LastGot(s) = got[s][m]
      BY <1>2, <3>1 DEF LastGot, m
    <3>4. batch[1] = LastGot(s) + 1
      BY <3>3
    <3> QED BY <3>2, <3>3, <3>4
  <2>3. CASE i > m + 1
    <3>1. PICK j \in 2 .. n : j = i - m
      BY <1>2, <2>0, <2>3
    <3>2. got'[s][i] = batch[j]
      BY <1>2, <1>3, <2>0, <2>3, <3>1
    <3>3. got'[s][i - 1] = batch[j - 1]
      <4>1. i - 1 - m = j - 1 /\ ~(i - 1 <= m)
        BY <1>2, <2>0, <2>3, <3>1
      <4> QED BY <1>3, <2>0, <4>1
    <3>4. batch[j] = batch[j - 1] + 1
      OBVIOUS
    <3>5. batch[j] \in Nat /\ batch[j - 1] \in Nat
      BY AsFunction
    <3> QED BY <3>2, <3>3, <3>4, <3>5, Zenon
  <2>4. i <= m \/ i = m + 1 \/ i > m + 1
    BY <1>2, <2>0
  <2> QED BY <2>1, <2>2, <2>3, <2>4, Zenon
<1> QED BY <1>5, <1>7, <1>8

(* ... and where what was given begins does not change.                    *)
LEMMA BeginsStill ==
  ASSUME NEW t \in Subs, BeginsRight(t), got[t] \in Seq(Nat), NEW batch \in Seq(Nat), Len(batch) > 0,
         got[t] = <<>> => batch[1] = 1, from'[t] = from[t], got'[t] = got[t] \o batch
  PROVE  BeginsRight(t)'
<1>1. CASE got[t] = <<>>
  <2>1. <<>> \o batch = batch
    BY ConcatEmptySeq
  <2> QED BY <1>1, <2>1 DEF BeginsRight
<1>2. CASE got[t] # <<>>
  <2>1. Len(got[t]) \in Nat /\ Len(got[t]) > 0 /\ Len(batch) \in Nat
    BY <1>2, AsFunction
  <2>2. (got[t] \o batch)[1] = got[t][1]
    <3>1. 1 \in 1 .. Len(got[t]) + Len(batch) /\ 1 <= Len(got[t])
      BY <2>1
    <3>2. \A i \in 1 .. Len(got[t]) + Len(batch) :
            (got[t] \o batch)[i] = IF i <= Len(got[t]) THEN got[t][i] ELSE batch[i - Len(got[t])]
      BY ConcatProperties
    <3> QED BY <3>1, <3>2
  <2> QED BY <1>2, <2>2 DEF BeginsRight
<1> QED BY <1>1, <1>2

LEMMA EventsTurn ==
  ASSUME IInv, NEW s \in Subs, Events(s), NEW t \in Subs
  PROVE  PositionOf(t)'
<1> DEFINE batch == GenerateStreamIDs(First, last, idx[s], size[s])
           fails == \E i \in 1 .. Len(batch) : batch[i] \notin 1 .. last
<1>1. /\ pc[s] = "ready" /\ UNCHANGED <<last, sending, todo, wait, from, sent, outOfTurn>> /\ last \in Nat
      /\ pc \in [Subs -> States] /\ idx \in [Subs -> Int64] /\ size \in [Subs -> Int64]
      /\ got \in [Subs -> Seq(1 .. MaxLast)]
  BY DEF Events, stream, sender, IInv, Base, Types, TypeOK
<1>2. Pending(t) <=> Pending(t)'
  BY <1>1 DEF Pending, In
<1>3. /\ fails => pc' = [pc EXCEPT ![s] = "closing"] /\ UNCHANGED <<idx, size, got>>
      /\ ~fails => /\ pc' = [pc EXCEPT ![s] = "loop"]
                   /\ size' = [size EXCEPT ![s] = Len(batch)]
                   /\ idx' = [idx EXCEPT ![s] = IF batch = <<>> THEN @ ELSE batch[1] - 1]
                   /\ got' = [got EXCEPT ![s] = @ \o batch]
  BY DEF Events
<1> HIDE DEF batch, fails
<1>4. CASE t # s
  <2>1. pc'[t] = pc[t] /\ idx'[t] = idx[t] /\ size'[t] = size[t] /\ got'[t] = got[t]
    BY <1>1, <1>3, <1>4
  <2> QED BY <1>1, <1>2, <2>1, OthersKept DEF IInv, Turn
<1>5. CASE t = s /\ outOfTurn[t]
  BY <1>1, <1>5 DEF PositionOf
<1>6. CASE t = s /\ ~outOfTurn[t] /\ fails
  <2>1. pc'[t] = "closing" /\ got' = got
    BY <1>1, <1>3, <1>6
  <2> QED BY <1>1, <2>1, NotListening DEF IInv, Turn, Receiving
<1>7. CASE t = s /\ ~outOfTurn[t] /\ ~fails
  <2>1. /\ pc'[t] = "loop" /\ size'[t] = Len(batch) /\ got'[t] = got[t] \o batch
        /\ idx'[t] = IF batch = <<>> THEN idx[t] ELSE batch[1] - 1
    BY <1>1, <1>3, <1>7
  <2>2. Unbroken(t) /\ BeginsRight(t) /\ RecvOK(t)
    BY <1>1, <1>7 DEF IInv, Turn, PositionOf, Receiving
  <2>3. LastGot(t) \in 0 .. last /\ last \in Nat /\ last < AllEvents /\ (got[t] = <<>> => LastGot(t) = 0)
        /\ got[t] \in Seq(1 .. last) /\ sent \in Nat /\ sent <= last
    BY LastGotIs DEF IInv, Base, Types, TypeOK, Turn, Newest
  <2>4. ~Receiving(t)'
    BY <2>1 DEF Receiving
  <2>5. CASE batch = <<>> /\ (last = 0 \/ size[t] = 0 \/ LastGot(t) = last)
    <3>1. got'[t] = got[t] /\ size'[t] = 0 /\ idx'[t] = idx[t]
      <4>1. got[t] \o <<>> = got[t] /\ Len(<<>>) = 0
        BY <2>3, ConcatEmptySeq
      <4> QED BY <2>1, <2>5, <4>1
    <3>2. LastGot(t)' = LastGot(t) /\ Unbroken(t)' /\ BeginsRight(t)'
      BY <1>1, <2>2, <3>1 DEF LastGot, Unbroken, BeginsRight
    <3>3. LastGot(t) >= sent \/ Pending(t)
      BY <2>2, <2>3, <2>5 DEF RecvOK
    <3>4. LoopOK(t)'
      BY <1>1, <1>2, <2>2, <2>3, <3>1, <3>2, <3>3 DEF LoopOK, RecvOK
    <3> QED BY <2>4, <3>2, <3>4 DEF PositionOf
  <2>6. ASSUME idx[t] = LastGot(t), NEW n \in 1 .. last - LastGot(t),
               batch = [i \in 1 .. n |-> LastGot(t) + i],
               n = size[t] \/ n = last - LastGot(t)
        PROVE  PositionOf(t)'
    <3> DEFINE g == LastGot(t)
    <3>1. n \in Nat \ {0} /\ g \in Nat
      BY <2>3
    <3>2. batch \in Seq(Nat) /\ Len(batch) = n /\ \A i \in 1 .. n : batch[i] = g + i
      BY <2>6, <3>1
    <3> HIDE DEF g
    <3>3. \A i \in 2 .. n : batch[i] = batch[i - 1] + 1
      BY <3>1, <3>2
    <3>4. batch[1] = g + 1 /\ batch[n] = g + n
      BY <3>1, <3>2
    <3>5. Unbroken(t)' /\ LastGot(t)' = g + n
      BY <2>1, <2>2, <3>1, <3>2, <3>3, <3>4, LongerRun DEF IInv, Base, g
    <3>10. BeginsRight(t)'
      <4>1. got[t] = <<>> => batch[1] = 1
        BY <2>3, <3>4 DEF g
      <4>2. got[t] \in Seq(Nat)
        <5>1. 1 .. last \subseteq Nat
          BY <2>3
        <5> QED BY <2>3, <5>1, SeqMonotonic
      <4>3. Len(batch) > 0 /\ from'[t] = from[t] /\ got'[t] = got[t] \o batch
        BY <1>1, <2>1, <3>1, <3>2
      <4> QED BY <2>2, <3>2, <4>1, <4>2, <4>3, BeginsStill
    <3>6. size'[t] = n /\ idx'[t] = g
      <4>1. batch # <<>>
        BY <3>1, <3>2
      <4> QED BY <2>1, <3>1, <3>2, <3>4, <4>1
    <3>7. g + n >= sent \/ Pending(t)'
      <4>1. g + size[t] >= sent \/ Pending(t)
        BY <2>2 DEF RecvOK, g
      <4>2. g + size[t] >= sent => g + n >= sent
        BY <2>3, <2>6, <3>1 DEF g
      <4> QED BY <1>2, <4>1, <4>2
    <3>8. g \in 0 .. last /\ n \in 0 .. last
      BY <2>3 DEF g
    <3>9. LoopOK(t)'
      BY <1>1, <3>5, <3>6, <3>7, <3>8 DEF LoopOK
    <3> QED BY <2>1, <2>4, <3>5, <3>9, <3>10 DEF PositionOf
  <2>7. CASE idx[t] = -1 /\ from[t] = -1 /\ got[t] = <<>> /\ last > 0 /\ batch = [i \in 1 .. 1 |-> last]
    <3>1. batch \in Seq(Nat) /\ Len(batch) = 1 /\ batch[1] = last /\ batch # <<>>
      BY <2>3, <2>7
    <3>2. Unbroken(t)' /\ LastGot(t)' = last
      <4>1. 1 \in Nat \ {0} /\ \A i \in 2 .. 1 : batch[i] = batch[i - 1] + 1
        OBVIOUS
      <4> QED BY <2>1, <2>2, <2>7, <3>1, <4>1, LongerRun DEF IInv, Base
    <3>3. size'[t] = 1 /\ idx'[t] = last - 1
      BY <2>1, <3>1
    <3>4. LoopOK(t)'
      BY <1>1, <2>3, <2>7, <3>2, <3>3 DEF LoopOK
    <3>5. BeginsRight(t)'
      BY <1>1, <2>7 DEF BeginsRight
    <3> QED BY <2>1, <2>4, <3>2, <3>4, <3>5 DEF PositionOf
  <2>8. \/ batch = <<>> /\ (last = 0 \/ size[t] = 0 \/ LastGot(t) = last)
        \/ /\ idx[t] = LastGot(t)
           /\ \E n \in 1 .. last - LastGot(t) :
                /\ batch = [i \in 1 .. n |-> LastGot(t) + i]
                /\ n = size[t] \/ n = last - LastGot(t)
        \/ idx[t] = -1 /\ from[t] = -1 /\ got[t] = <<>> /\ last > 0 /\ batch = [i \in 1 .. 1 |-> last]
    BY <1>7, <2>2, EventsInTurn DEF IInv, Base, batch
  <2> QED BY <2>5, <2>6, <2>7, <2>8
<1> QED BY <1>4, <1>5, <1>6, <1>7

LEMMA StutterTurn ==
  ASSUME IInv, UNCHANGED vars
  PROVE  Turn'
<1>1. UNCHANGED <<last, sending, todo, pc, idx, size, wait, from, got, sent, outOfTurn>> /\ last \in Nat
  BY DEF vars, stream, sender, position, history, IInv, Base, Types, TypeOK
<1>2. Newest'
  BY <1>1 DEF IInv, Turn, Newest
<1>3. ASSUME NEW t \in Subs PROVE PositionOf(t)'
  <2>1. Pending(t) => Pending(t)'
    BY <1>1 DEF Pending, In
  <2> QED BY <1>1, <2>1, OthersKept DEF IInv, Turn
<1> QED BY <1>2, <1>3 DEF Turn

LEMMA InitTurn == Init => Turn
  BY DEF Init, Turn, Newest, PositionOf, Unbroken, BeginsRight, Receiving

LEMMA SpecIInv ==
  ASSUME Proviso
  PROVE  Spec => []IInv
<1>1. ASSUME IInv, Next PROVE Turn'
  <2>1. Newest'
    BY <1>1, NewestKept DEF IInv, Turn
  <2>2. ASSUME NEW t \in Subs PROVE PositionOf(t)'
    <3>1. CASE \E n \in 1 .. MaxBatch : AppendBatch(n) \/ AppendFails(n)
      BY <1>1, <3>1, AppendTurn
    <3>2. CASE Sends
      BY <1>1, <3>2, SendStartsTurn, SendVisitsTurn, SendEndsTurn DEF Sends
    <3>3. ASSUME NEW s \in Subs,
                 (\E start \in Starts : Subscribe(s, start)) \/ Loop(s) \/ Cancel(s) \/ CloseTimesOut(s)
          PROVE  PositionOf(t)'
      BY <1>1, <3>3, SubscribeTurn, RecvTurn, SelectTurn, EventsTurn, LeavesTurn DEF Loop
    <3> QED BY <1>1, <3>1, <3>2, <3>3 DEF Next
  <2> QED BY <2>1, <2>2 DEF Turn
<1>2. Base /\ Turn /\ [Next]_vars => Turn'
  BY <1>1, StutterTurn DEF IInv
<1>3. Spec => [](Base /\ Turn)
  BY <1>2, InitTurn, SpecBase, PTL DEF Spec
<1>4. Base /\ Turn => IInv
  BY DEF IInv
<1> QED BY <1>3, <1>4, PTL

(* Until a Send comes out of turn, a subscriber from the beginning or from *)
(* the last event is given an unbroken run of the stream, each event once  *)
(* and in order, and one from the beginning all of it from event 1, also   *)
(* when Appends fail behind what they stored (Recv, Events, Send).         *)
THEOREM UnbrokenInTurnCorrect ==
  ASSUME Proviso
  PROVE  Spec => []UnbrokenInTurn
<1>1. IInv => UnbrokenInTurn
  BY DEF IInv, Turn, PositionOf, UnbrokenInTurn
<1> QED BY <1>1, SpecIInv, PTL

(* ... and while no Send is under way it only sleeps when it has been      *)
(* given the stream up to the last event any Send has carried.  Appends    *)
(* that fail store events no Send tells of: those are not promised         *)
(* (Append, Recv, Events, Send).                                           *)
THEOREM SleepsCaughtUpCorrect ==
  ASSUME Proviso
  PROVE  Spec => []SleepsCaughtUp
<1>1. IInv => SleepsCaughtUp
  <2> SUFFICES ASSUME IInv, NEW s \in Subs, sending = NoBatch, pc[s] = "parked", wait[s] = "open", ~outOfTurn[s]
               PROVE  CaughtUp(s)
    BY DEF SleepsCaughtUp
  <2>1. RecvOK(s)
    BY DEF IInv, Turn, PositionOf, Receiving
  <2>2. ~Pending(s)
    BY DEF Pending
  <2>3. LastGot(s) \in 0 .. last /\ last \in Nat
    BY LastGotIs DEF IInv, Base
  <2> QED BY <2>1, <2>2, <2>3 DEF RecvOK, CaughtUp
<1> QED BY <1>1, SpecIInv, PTL
=============================================================================
