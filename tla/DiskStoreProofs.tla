--------------------------- MODULE DiskStoreProofs --------------------------
(***************************************************************************)
(* DiskStore's invariants, and that it implements AtomicLogs, for every    *)
(* set of streams and clients, every size of the cache and every bound.    *)
(***************************************************************************)
EXTENDS DiskStore, SequenceTheorems, TLAPS

(* What is cached for a stream is an open log of it. *)
CacheOK ==
  \A s \in Streams : cache[s] # NoLog => log[cache[s]] # Closed /\ log[cache[s]].of = s

(* A log to evict is still open and no longer cached. *)
VictimOK ==
  \A c \in Clients :
    victim[c] # NoLog => log[victim[c]] # Closed /\ cache[log[victim[c]].of] = NoLog

(* A call works on its stream. *)
HandleOK ==
  \A c \in Clients : handle[c] # NoLog /\ log[handle[c]] # Closed => log[handle[c]].of = at[c]

(* No log, be its stream broken, ends behind the end of the directory. *)
Bounded ==
  \A h \in Handles :
    log[h] # Closed => new[log[h].of] # NoDir /\ log[h].last <= Len(new[log[h].of])

(* What a client remembers of a stream is the beginning of it. *)
ViewOK ==
  \A c \in Clients : \A s \in Streams \ broken : Atomic!Extends(Content(s), view[c][s])

LogsOK == CacheOK /\ VictimOK /\ HandleOK /\ OneOpen
EndsOK == Bounded /\ InStep

IInv == TypeOK /\ LocksHeld /\ LogsOK /\ EndsOK

-----------------------------------------------------------------------------
(* Facts about what is written. *)

LEMMA WrittenIs ==
  ASSUME NEW file \in Seq(Nat), NEW batch \in Seq(Nat), NEW from \in Nat, from <= Len(file)
  PROVE  /\ Written(file, from, batch) \in Seq(Nat)
         /\ Len(Written(file, from, batch)) >= Len(file)
         /\ Len(Written(file, from, batch)) >= from + Len(batch)
         /\ from = Len(file) => /\ Len(Written(file, from, batch)) = from + Len(batch)
                                /\ Written(file, from, batch) = file \o batch
<1> DEFINE w == Written(file, from, batch)
           n == IF Len(file) > from + Len(batch) THEN Len(file) ELSE from + Len(batch)
           e(i) == IF i \in from + 1 .. from + Len(batch) THEN batch[i - from] ELSE file[i]
<1>1. Len(file) \in Nat /\ Len(batch) \in Nat /\ n \in Nat
  BY LenProperties
<1>2. w = [i \in 1 .. n |-> e(i)]
  BY DEF Written
<1>3. \A i \in 1 .. n : e(i) \in Nat
  <2> SUFFICES ASSUME NEW i \in 1 .. n PROVE e(i) \in Nat
    OBVIOUS
  <2>1. CASE i \in from + 1 .. from + Len(batch)
    <3>1. i - from \in 1 .. Len(batch)
      BY <1>1, <2>1
    <3> QED BY <2>1, <3>1, ElementOfSeq
  <2>2. CASE i \notin from + 1 .. from + Len(batch)
    <3>1. i \in 1 .. Len(file)
      BY <1>1, <2>2
    <3> QED BY <2>2, <3>1, ElementOfSeq
  <2> QED BY <2>1, <2>2
<1>4. w \in Seq(Nat)
  <2> HIDE DEF n, e, w
  <2>1. [i \in 1 .. n |-> e(i)] \in Seq(Nat)
    BY <1>1, <1>3, IsASeq
  <2> QED BY <1>2, <2>1
<1>5. Len(w) = n
  BY <1>1, <1>2, <1>4, LenProperties
<1>6. ASSUME from = Len(file) PROVE w = file \o batch
  <2>1. /\ file \o batch \in Seq(Nat) /\ Len(file \o batch) = Len(file) + Len(batch)
        /\ \A i \in 1 .. Len(file) + Len(batch) :
             (file \o batch)[i] = IF i <= Len(file) THEN file[i] ELSE batch[i - Len(file)]
    BY ConcatProperties
  <2>2. Len(w) = Len(file \o batch)
    BY <1>1, <1>5, <1>6, <2>1
  <2>3. \A i \in 1 .. Len(w) : w[i] = (file \o batch)[i]
    BY <1>1, <1>2, <1>5, <1>6, <2>1
  <2> HIDE DEF w
  <2> QED BY <1>4, <2>1, <2>2, <2>3, SeqEqual
<1> QED BY <1>1, <1>4, <1>5, <1>6

(* The events of a batch. *)
LEMMA BatchIs ==
  ASSUME NEW r \in Nat, NEW k \in Nat
  PROVE  [i \in 1 .. k |-> r + i] \in Seq(Nat) /\ Len([i \in 1 .. k |-> r + i]) = k
<1> DEFINE e(i) == r + i
<1>1. \A i \in 1 .. k : e(i) \in Nat
  OBVIOUS
<1>2. [i \in 1 .. k |-> e(i)] \in Seq(Nat)
  <2> HIDE DEF e
  <2> QED BY <1>1, IsASeq
<1>3. Len([i \in 1 .. k |-> e(i)]) = k
  BY <1>2, LenProperties
<1> QED BY <1>2, <1>3

-----------------------------------------------------------------------------
(* The types. *)

LEMMA Distinct ==
  /\ Nobody \notin Clients /\ NoLog \notin Handles /\ NoStream \notin Streams
  /\ NoDir \notin Seq(Nat)
  /\ \A s \in Streams : \A n \in Nat : [of |-> s, last |-> n] # Closed
  BY DiskAssumption

LEMMA InitIInv == Init => IInv
<1> SUFFICES ASSUME Init PROVE IInv
  OBVIOUS
<1>1. TypeOK
  <2>1. <<0>> \in Seq(Nat) /\ << >> \in Seq(Nat)
    OBVIOUS
  <2>2. [s \in Streams |-> <<>>] \in [Streams -> Seq(Nat)]
    BY <2>1
  <2>3. view \in [Clients -> [Streams -> Seq(Nat)]]
    BY <2>2 DEF Init
  <2> QED BY <2>1, <2>3, Distinct DEF Init, TypeOK
<1>2. LocksHeld
  BY Distinct DEF Init, LocksHeld
<1>3. LogsOK
  BY DEF Init, LogsOK, CacheOK, VictimOK, HandleOK, OneOpen
<1>4. EndsOK
  BY DEF Init, EndsOK, Bounded, InStep
<1> QED BY <1>1, <1>2, <1>3, <1>4 DEF IInv

LEMMA CallIInv ==
  ASSUME IInv, NEW c \in Clients, NEW s \in Streams, NEW o \in {"read", "save", "append"}, Call(c, s, o)
  PROVE  IInv'
<1> USE DEF vars, disk, locks, call
<1>1. TypeOK'
  <2>1. [t \in Streams |-> IF t = s THEN view[c][t] ELSE <<>>] \in [Streams -> Seq(Nat)]
    BY DEF IInv, TypeOK
  <2>2. view' \in [Clients -> [Streams -> Seq(Nat)]]
    BY <2>1 DEF IInv, TypeOK, Call
  <2> QED BY <2>2, Distinct DEF IInv, TypeOK, Call
<1>2. LocksHeld'
  BY DEF IInv, TypeOK, LocksHeld, Call
<1>3. LogsOK'
  BY DEF IInv, TypeOK, LogsOK, CacheOK, VictimOK, HandleOK, OneOpen, Call
<1>4. EndsOK'
  BY DEF IInv, EndsOK, Bounded, InStep, Call
<1> QED BY <1>1, <1>2, <1>3, <1>4 DEF IInv

LEMMA HitIInv ==
  ASSUME IInv, NEW c \in Clients, Hit(c)
  PROVE  IInv'
<1> USE DEF vars, disk, locks, call, Cached, AtStore
<1>1. TypeOK'
  BY Distinct DEF IInv, TypeOK, Hit
<1>2. LocksHeld'
  BY Distinct DEF IInv, TypeOK, LocksHeld, Hit
<1>3. LogsOK'
  BY Distinct DEF IInv, TypeOK, LogsOK, CacheOK, VictimOK, HandleOK, OneOpen, Hit
<1>4. EndsOK'
  BY DEF IInv, EndsOK, Bounded, InStep, Hit
<1> QED BY <1>1, <1>2, <1>3, <1>4 DEF IInv

LEMMA GiveUpIInv ==
  ASSUME IInv, NEW c \in Clients, GiveUp(c)
  PROVE  IInv'
<1> USE DEF vars, disk, locks, call, Return
<1>1. TypeOK'
  BY Distinct DEF IInv, TypeOK, GiveUp
<1>2. LocksHeld'
  BY Distinct DEF IInv, TypeOK, LocksHeld, GiveUp
<1>3. LogsOK'
  BY Distinct DEF IInv, TypeOK, LogsOK, CacheOK, VictimOK, HandleOK, OneOpen, GiveUp
<1>4. EndsOK'
  BY DEF IInv, EndsOK, Bounded, InStep, GiveUp
<1> QED BY <1>1, <1>2, <1>3, <1>4 DEF IInv

LEMMA LockLogIInv ==
  ASSUME IInv, NEW c \in Clients, LockLog(c)
  PROVE  IInv'
<1> USE DEF vars, disk, locks, call
<1>1. TypeOK'
  BY Distinct DEF IInv, TypeOK, LockLog
<1>2. LocksHeld'
  BY Distinct DEF IInv, TypeOK, LocksHeld, LockLog
<1>3. LogsOK'
  BY DEF IInv, TypeOK, LogsOK, CacheOK, VictimOK, HandleOK, OneOpen, LockLog
<1>4. EndsOK'
  BY DEF IInv, EndsOK, Bounded, InStep, LockLog
<1> QED BY <1>1, <1>2, <1>3, <1>4 DEF IInv

(* Calls that end without having touched anything. *)
LEMMA ReleaseIInv ==
  ASSUME IInv, NEW c \in Clients, pc[c] = "locked", Unlock(c), Return(c),
         UNCHANGED <<disk, raised, cache, log, store, victim, view, broken>>
  PROVE  IInv'
<1> USE DEF disk, Return, Unlock
<1>1. TypeOK'
  BY Distinct DEF IInv, TypeOK
<1>2. LocksHeld'
  BY Distinct DEF IInv, TypeOK, LocksHeld
<1>3. LogsOK'
  BY Distinct DEF IInv, TypeOK, LogsOK, CacheOK, VictimOK, HandleOK, OneOpen
<1>4. EndsOK'
  BY DEF IInv, EndsOK, Bounded, InStep
<1> QED BY <1>1, <1>2, <1>3, <1>4 DEF IInv

LEMMA FailsIInv ==
  ASSUME IInv, NEW c \in Clients, FailsClosed(c) \/ SaveRefused(c) \/ AppendNothing(c)
  PROVE  IInv'
  BY ReleaseIInv DEF FailsClosed, SaveRefused, AppendNothing

(* What a call that has the lock of an open log works with. *)
LEMMA OpenHandle ==
  ASSUME IInv, NEW c \in Clients, pc[c] = "locked", log[handle[c]] # Closed
  PROVE  /\ handle[c] \in Handles /\ at[c] \in Streams
         /\ log[handle[c]] \in [of : Streams, last : Nat]
         /\ log[handle[c]].of = at[c] /\ log[handle[c]].last \in Nat
         /\ new[at[c]] \in Seq(Nat) /\ Len(new[at[c]]) \in Nat
         /\ log[handle[c]].last <= Len(new[at[c]])
         /\ at[c] \notin broken => log[handle[c]].last = Len(new[at[c]])
<1>1. handle[c] \in Handles /\ at[c] \in Streams
  BY Distinct DEF IInv, TypeOK
<1>2. log[handle[c]] \in [of : Streams, last : Nat] /\ log[handle[c]].of = at[c]
  BY <1>1, Distinct DEF IInv, TypeOK, LogsOK, HandleOK
<1>3. new[at[c]] \in Seq(Nat)
  BY <1>1, <1>2 DEF IInv, TypeOK, EndsOK, Bounded
<1> QED BY <1>1, <1>2, <1>3, LenProperties DEF IInv, EndsOK, Bounded, InStep

LEMMA ReadLogIInv ==
  ASSUME IInv, NEW c \in Clients, ReadLog(c)
  PROVE  IInv'
<1> USE DEF disk, call, Return, Unlock
<1> DEFINE s == at[c]
           read == SubSeq(new[s], 1, log[handle[c]].last)
<1>1. read \in Seq(Nat) /\ s \in Streams
  <2>1. pc[c] = "locked" /\ log[handle[c]] # Closed
    BY DEF ReadLog
  <2>2. \A i \in 1 .. log[handle[c]].last : new[s][i] \in Nat
    BY <2>1, OpenHandle, ElementOfSeq
  <2> QED BY <2>1, <2>2, OpenHandle, SubSeqProperties
<1>2. TypeOK'
  <2>1. view' = [view EXCEPT ![c][s] = read]
    BY DEF ReadLog
  <2>2. view' \in [Clients -> [Streams -> Seq(Nat)]]
    <3> HIDE DEF read
    <3> QED BY <1>1, <2>1 DEF IInv, TypeOK
  <2>3. handle[c] \in Handles
    BY Distinct DEF IInv, TypeOK, ReadLog
  <2>4. CASE Return(c)
    BY <2>2, <2>3, <2>4, Distinct DEF IInv, TypeOK, ReadLog
  <2>5. CASE pc' = [pc EXCEPT ![c] = "use"] /\ UNCHANGED <<call, handle>>
    BY <2>2, <2>3, <2>5, Distinct DEF IInv, TypeOK, ReadLog
  <2> QED BY <2>4, <2>5 DEF ReadLog
<1>3. LocksHeld'
  BY Distinct DEF IInv, TypeOK, LocksHeld, ReadLog
<1>4. LogsOK'
  BY Distinct DEF IInv, TypeOK, LogsOK, CacheOK, VictimOK, HandleOK, OneOpen, ReadLog
<1>5. EndsOK'
  BY DEF IInv, EndsOK, Bounded, InStep, ReadLog
<1> QED BY <1>2, <1>3, <1>4, <1>5 DEF IInv

LEMMA EvictIInv ==
  ASSUME IInv, NEW c \in Clients, Evict(c)
  PROVE  IInv'
<1> USE DEF disk, call
<1>1. victim[c] \in Handles
  BY Distinct DEF IInv, TypeOK, Evict
<1>2. TypeOK'
  BY <1>1, Distinct DEF IInv, TypeOK, Evict
<1>3. LocksHeld'
  BY Distinct DEF IInv, TypeOK, LocksHeld, Evict
<1>4. CacheOK'
  BY <1>1, Distinct DEF IInv, TypeOK, LogsOK, CacheOK, VictimOK, Evict
<1>5. VictimOK'
  <2>1. \A d \in Clients \ {c} : victim[d] = NoLog
    BY Distinct DEF IInv, TypeOK, LocksHeld, Evict
  <2> QED BY <1>1, <2>1 DEF IInv, TypeOK, LogsOK, VictimOK, Evict
<1>6. HandleOK'
  BY <1>1 DEF IInv, TypeOK, LogsOK, HandleOK, Evict
<1>7. OneOpen'
  BY <1>1 DEF IInv, TypeOK, LogsOK, OneOpen, Evict
<1>8. EndsOK'
  BY <1>1 DEF IInv, TypeOK, EndsOK, Bounded, InStep, Evict
<1> QED BY <1>2, <1>3, <1>4, <1>5, <1>6, <1>7, <1>8 DEF IInv, LogsOK

LEMMA EvictGivesUpIInv ==
  ASSUME IInv, NEW c \in Clients, EvictGivesUp(c)
  PROVE  IInv'
<1> USE DEF disk, call
<1>1. victim[c] \in Handles /\ log[victim[c]].of \in Streams
  BY Distinct DEF IInv, TypeOK, LogsOK, VictimOK, EvictGivesUp
<1>2. TypeOK'
  BY <1>1, Distinct DEF IInv, TypeOK, EvictGivesUp
<1>3. LocksHeld'
  BY Distinct DEF IInv, TypeOK, LocksHeld, EvictGivesUp
<1>4. CacheOK' /\ HandleOK'
  BY DEF IInv, LogsOK, CacheOK, HandleOK, EvictGivesUp
<1>5. VictimOK'
  BY DEF IInv, TypeOK, LogsOK, VictimOK, EvictGivesUp
<1>6. OneOpen'
  BY <1>1 DEF IInv, TypeOK, LogsOK, OneOpen, EvictGivesUp
<1>7. EndsOK'
  BY DEF IInv, EndsOK, Bounded, InStep, EvictGivesUp
<1> QED BY <1>2, <1>3, <1>4, <1>5, <1>6, <1>7 DEF IInv, LogsOK

LEMMA CrashIInv ==
  ASSUME IInv, Crash
  PROVE  IInv'
<1> USE DEF disk
<1>1. TypeOK'
  <2>1. << >> \in Seq(Nat)
    OBVIOUS
  <2>2. [s \in Streams |-> <<>>] \in [Streams -> Seq(Nat)]
    BY <2>1
  <2>3. view' \in [Clients -> [Streams -> Seq(Nat)]]
    BY <2>2 DEF Crash
  <2> QED BY <2>3, Distinct DEF IInv, TypeOK, Crash
<1>2. LocksHeld'
  BY Distinct DEF LocksHeld, Crash
<1>3. LogsOK'
  BY DEF Crash, LogsOK, CacheOK, VictimOK, HandleOK, OneOpen
<1>4. EndsOK'
  BY DEF Crash, EndsOK, Bounded, InStep
<1> QED BY <1>1, <1>2, <1>3, <1>4 DEF IInv

LEMMA AppendLogIInv ==
  ASSUME IInv, NEW c \in Clients, NEW n \in Nat, NEW k \in Nat, AppendLog(c, n, k)
  PROVE  IInv'
<1> DEFINE s == at[c]
           h == handle[c]
           batch == [i \in 1 .. k |-> raised + i]
           written == Written(new[s], log[h].last, batch)
<1>1. /\ pc[c] = "locked" /\ log[h] # Closed
      /\ raised' = raised + n
      /\ new' = [new EXCEPT ![s] = written]
      /\ log' = [log EXCEPT ![h] = [of |-> @.of, last |-> @.last + k]]
      /\ view' = IF op[c] = "save" /\ k = n THEN [view EXCEPT ![c][s] = @ \o batch] ELSE view
      /\ Unlock(c) /\ Return(c)
      /\ UNCHANGED <<old, cache, store, victim, broken>>
  BY DEF AppendLog
<1>2. /\ h \in Handles /\ s \in Streams
      /\ log[h] \in [of : Streams, last : Nat] /\ log[h].of = s /\ log[h].last \in Nat
      /\ new[s] \in Seq(Nat) /\ Len(new[s]) \in Nat /\ log[h].last <= Len(new[s])
      /\ s \notin broken => log[h].last = Len(new[s])
  BY <1>1, OpenHandle
<1>3. raised \in Nat /\ batch \in Seq(Nat) /\ Len(batch) = k
  BY BatchIs DEF IInv, TypeOK
<1>4. /\ written \in Seq(Nat) /\ Len(written) \in Nat
      /\ Len(written) >= Len(new[s]) /\ Len(written) >= log[h].last + k
      /\ s \notin broken => Len(written) = log[h].last + k
  <2> HIDE DEF s, h, batch
  <2> QED BY <1>2, <1>3, WrittenIs, LenProperties
<1>5. log' = [log EXCEPT ![h] = [of |-> s, last |-> log[h].last + k]]
  BY <1>1, <1>2 DEF IInv, TypeOK
<1>6. view' \in [Clients -> [Streams -> Seq(Nat)]]
  <2>1. view[c][s] \o batch \in Seq(Nat)
    <3>1. view[c][s] \in Seq(Nat)
      BY <1>2 DEF IInv, TypeOK
    <3> QED BY <1>3, <3>1, ConcatProperties
  <2> HIDE DEF batch, s
  <2> QED BY <1>1, <1>2, <2>1 DEF IInv, TypeOK
<1> HIDE DEF batch, written, s, h
<1>7. TypeOK'
  <2>1. raised' \in Nat
    BY <1>1, <1>3
  <2>2. new' \in [Streams -> Seq(Nat) \cup {NoDir}]
    BY <1>1, <1>2, <1>4 DEF IInv, TypeOK
  <2>3. log' \in [Handles -> [of : Streams, last : Nat] \cup {Closed}]
    BY <1>2, <1>5 DEF IInv, TypeOK
  <2>4. holder' \in [Handles -> Clients \cup {Nobody}]
    BY <1>1 DEF IInv, TypeOK, Unlock
  <2> QED BY <1>1, <1>6, <2>1, <2>2, <2>3, <2>4, Distinct DEF IInv, TypeOK, Return
<1>8. LocksHeld'
  BY <1>1, <1>2, Distinct DEF IInv, TypeOK, LocksHeld, Return, Unlock, h
<1>9. /\ \A g \in Handles : log'[g] # Closed <=> log[g] # Closed
      /\ \A g \in Handles : log[g] # Closed => log'[g].of = log[g].of
  BY <1>2, <1>5, Distinct DEF IInv, TypeOK
<1>10. CacheOK' /\ VictimOK' /\ OneOpen'
  BY <1>1, <1>9, Distinct DEF IInv, TypeOK, LogsOK, CacheOK, VictimOK, OneOpen
<1>11. HandleOK'
  BY <1>1, <1>9, Distinct DEF IInv, TypeOK, LogsOK, HandleOK, Return
<1>12. Bounded'
  <2> SUFFICES ASSUME NEW g \in Handles, log'[g] # Closed
               PROVE  new'[log'[g].of] # NoDir /\ log'[g].last <= Len(new'[log'[g].of])
    BY DEF Bounded
  <2>1. log[g] # Closed /\ log'[g].of = log[g].of /\ log[g].of \in Streams /\ log[g].last \in Nat
    BY <1>9 DEF IInv, TypeOK
  <2>2. new[log[g].of] # NoDir /\ log[g].last <= Len(new[log[g].of])
    BY <2>1 DEF IInv, EndsOK, Bounded
  <2>3. CASE g = h
    BY <1>1, <1>2, <1>4, <1>5, <2>3, Distinct DEF IInv, TypeOK
  <2>4. CASE g # h /\ log[g].of = s
    <3>1. log'[g] = log[g] /\ new'[s] = written
      BY <1>1, <1>2, <1>5, <2>4 DEF IInv, TypeOK
    <3>2. log[g].last <= Len(written)
      BY <1>2, <1>4, <2>1, <2>2, <2>4
    <3> QED BY <1>4, <2>1, <2>4, <3>1, <3>2, Distinct
  <2>5. CASE g # h /\ log[g].of # s
    BY <1>1, <1>5, <2>1, <2>2, <2>5 DEF IInv, TypeOK
  <2> QED BY <2>3, <2>4, <2>5
<1>13. InStep'
  <2> SUFFICES ASSUME NEW g \in Handles, log'[g] # Closed, log'[g].of \notin broken'
               PROVE  new'[log'[g].of] # NoDir /\ log'[g].last = Len(new'[log'[g].of])
    BY DEF InStep
  <2>1. log[g] # Closed /\ log'[g].of = log[g].of /\ log[g].of \notin broken /\ log[g].of \in Streams
    BY <1>1, <1>9 DEF IInv, TypeOK
  <2>2. new[log[g].of] # NoDir /\ log[g].last = Len(new[log[g].of])
    BY <2>1 DEF IInv, EndsOK, InStep
  <2>3. CASE g = h
    BY <1>1, <1>2, <1>4, <1>5, <2>1, <2>3, Distinct DEF IInv, TypeOK
  <2>4. CASE g # h
    <3>1. log[g].of # s
      <4>1. ASSUME NEW f \in Handles, log[f] # Closed, log[f].of = s, s \notin broken
            PROVE  f = cache[s] \/ (cache[s] = NoLog /\ \E d \in Clients : victim[d] = f)
        BY <4>1 DEF IInv, LogsOK, OneOpen
      <4>2. \A d, e \in Clients : victim[d] # NoLog /\ victim[e] # NoLog => d = e
        BY Distinct DEF IInv, TypeOK, LocksHeld
      <4> QED BY <1>1, <1>2, <2>1, <2>4, <4>1, <4>2, Distinct
    <3> QED BY <1>1, <1>5, <2>1, <2>2, <2>4, <3>1 DEF IInv, TypeOK
  <2> QED BY <2>3, <2>4
<1> QED BY <1>7, <1>8, <1>10, <1>11, <1>12, <1>13 DEF IInv, LogsOK, EndsOK

(* A stream whose log is looked for is not cached, and if it is not broken *)
(* it has no open log: one that is about to be closed keeps the store      *)
(* locked.                                                                 *)
LEMMA NotOpen ==
  ASSUME IInv, store = Nobody, NEW s \in Streams, s \notin Cached, s \notin broken,
         NEW h \in Handles, log[h] # Closed
  PROVE  log[h].of # s
<1>1. \A c \in Clients : victim[c] = NoLog
  BY Distinct DEF IInv, TypeOK, LocksHeld
<1>2. cache[s] = NoLog
  BY DEF Cached
<1>3. log[h].of = s => cache[s] = h \/ (cache[s] = NoLog /\ \E c \in Clients : victim[c] = h)
  BY DEF IInv, LogsOK, OneOpen
<1> QED BY <1>1, <1>2, <1>3, Distinct

LEMMA OpenFailsIInv ==
  ASSUME IInv, NEW c \in Clients, NEW moved \in BOOLEAN, OpenFails(c, moved)
  PROVE  IInv'
<1> USE DEF locks, Return
<1> DEFINE s == at[c]
<1>1. /\ pc[c] = "eventlog" /\ store = Nobody /\ s \in Streams /\ s \notin Cached
      /\ moved => old[s] # NoDir /\ new[s] = NoDir
      /\ old' = IF moved THEN [old EXCEPT ![s] = NoDir] ELSE old
      /\ new' = IF moved THEN [new EXCEPT ![s] = old[s]] ELSE new
  BY DEF IInv, TypeOK, OpenFails, AtStore, Migrate, Moves
<1>2. TypeOK'
  <2>1. moved => old[s] \in Seq(Nat)
    BY <1>1 DEF IInv, TypeOK
  <2>2. old' \in [Streams -> Seq(Nat) \cup {NoDir}] /\ new' \in [Streams -> Seq(Nat) \cup {NoDir}]
    BY <1>1, <2>1 DEF IInv, TypeOK
  <2> QED BY <2>2, <1>1, Distinct DEF IInv, TypeOK, OpenFails
<1>3. LocksHeld'
  BY <1>1, Distinct DEF IInv, TypeOK, LocksHeld, OpenFails
<1>4. LogsOK'
  BY <1>1, Distinct DEF IInv, TypeOK, LogsOK, CacheOK, VictimOK, HandleOK, OneOpen, OpenFails
<1>5. \A h \in Handles : log[h] # Closed => new'[log[h].of] = new[log[h].of]
  BY <1>1 DEF IInv, TypeOK, EndsOK, Bounded
<1>6. EndsOK'
  BY <1>5 DEF IInv, EndsOK, Bounded, InStep, OpenFails
<1> QED BY <1>2, <1>3, <1>4, <1>6 DEF IInv

(* What OpenLog does, with names for the log and the contents. *)
LEMMA OpenLogIs ==
  ASSUME IInv, NEW c \in Clients, NEW moved \in BOOLEAN, OpenLog(c, moved)
  PROVE  \E h \in Handles, contents \in Seq(Nat) :
           /\ Free(h)
           /\ pc[c] = "eventlog" /\ store = Nobody /\ at[c] \in Streams /\ at[c] \notin Cached
           /\ new[at[c]] # NoDir => contents = new[at[c]]
           /\ at[c] \notin broken' => contents = Content(at[c])
           /\ old' \in [Streams -> Seq(Nat) \cup {NoDir}]
           /\ \A s \in Streams \ {at[c]} : old'[s] = old[s]
           /\ new' = [new EXCEPT ![at[c]] = contents]
           /\ broken' \in {broken, broken \cup {at[c]}}
           /\ log' = [log EXCEPT ![h] = [of |-> at[c], last |-> Len(contents)]]
           /\ handle' = [handle EXCEPT ![c] = h]
           /\ \/ /\ cache' = [cache EXCEPT ![at[c]] = h]
                 /\ pc' = [pc EXCEPT ![c] = "use"]
                 /\ UNCHANGED <<store, victim>>
              \/ \E t \in Cached :
                 /\ cache' = [cache EXCEPT ![at[c]] = h, ![t] = NoLog]
                 /\ victim' = [victim EXCEPT ![c] = cache[t]]
                 /\ store' = c
                 /\ pc' = [pc EXCEPT ![c] = "evict"]
           /\ UNCHANGED <<raised, holder, op, at, view>>
<1> DEFINE s == at[c]
           h == CHOOSE g \in Handles : Free(g)
           contents == CASE new[s] # NoDir -> new[s]
                         [] new[s] = NoDir /\ moved -> old[s]
                         [] OTHER -> <<>>
<1>1. h \in Handles /\ Free(h)
  BY DEF OpenLog
<1>2. pc[c] = "eventlog" /\ store = Nobody /\ s \in Streams /\ s \notin Cached /\ Migrate(s, moved)
  BY DEF IInv, TypeOK, OpenLog, AtStore
<1>3. contents \in Seq(Nat)
  <2>1. CASE new[s] # NoDir
    BY <1>2, <2>1 DEF IInv, TypeOK
  <2>2. CASE new[s] = NoDir /\ moved
    BY <1>2, <2>2 DEF IInv, TypeOK, Migrate, Moves
  <2>3. CASE new[s] = NoDir /\ ~moved
    BY <2>3
  <2> QED BY <2>1, <2>2, <2>3
<1>4. /\ new' = [new EXCEPT ![s] = contents]
      /\ broken' = IF Moves(s) /\ ~moved THEN broken \cup {s} ELSE broken
      /\ log' = [log EXCEPT ![h] = [of |-> s, last |-> Len(contents)]]
      /\ handle' = [handle EXCEPT ![c] = h]
      /\ UNCHANGED <<raised, holder, op, at, view>>
  BY DEF OpenLog, call
<1>5. \/ /\ cache' = [cache EXCEPT ![s] = h]
         /\ pc' = [pc EXCEPT ![c] = "use"]
         /\ UNCHANGED <<store, victim>>
      \/ \E t \in Cached :
         /\ cache' = [cache EXCEPT ![s] = h, ![t] = NoLog]
         /\ victim' = [victim EXCEPT ![c] = cache[t]]
         /\ store' = c
         /\ pc' = [pc EXCEPT ![c] = "evict"]
  BY DEF OpenLog
<1>6. /\ new[s] # NoDir => contents = new[s]
      /\ s \notin broken' => contents = Content(s)
  <2>1. CASE new[s] # NoDir
    BY <2>1 DEF Content
  <2>2. CASE new[s] = NoDir /\ moved
    BY <1>2, <2>2 DEF Content, Migrate, Moves
  <2>3. CASE new[s] = NoDir /\ ~moved
    BY <1>4, <2>3 DEF Content, Moves
  <2> QED BY <2>1, <2>2, <2>3
<1>7. /\ old' \in [Streams -> Seq(Nat) \cup {NoDir}]
      /\ \A t \in Streams \ {s} : old'[t] = old[t]
  BY <1>2 DEF IInv, TypeOK, Migrate
<1>8. broken' \in {broken, broken \cup {s}}
  BY <1>4
<1> HIDE DEF s, h, contents
<1>9. /\ s = at[c] /\ h \in Handles /\ contents \in Seq(Nat)
  BY <1>1, <1>3 DEF s
<1> QED BY <1>1, <1>2, <1>4, <1>5, <1>6, <1>7, <1>8, <1>9

LEMMA OpenLogIInv ==
  ASSUME IInv, NEW c \in Clients, NEW moved \in BOOLEAN, OpenLog(c, moved)
  PROVE  IInv'
<1> DEFINE s == at[c]
<1>1. PICK h \in Handles, contents \in Seq(Nat) :
           /\ Free(h)
           /\ pc[c] = "eventlog" /\ store = Nobody /\ s \in Streams /\ s \notin Cached
           /\ new[s] # NoDir => contents = new[s]
           /\ old' \in [Streams -> Seq(Nat) \cup {NoDir}]
           /\ new' = [new EXCEPT ![s] = contents]
           /\ broken' \in {broken, broken \cup {s}}
           /\ log' = [log EXCEPT ![h] = [of |-> s, last |-> Len(contents)]]
           /\ handle' = [handle EXCEPT ![c] = h]
           /\ \/ /\ cache' = [cache EXCEPT ![s] = h]
                 /\ pc' = [pc EXCEPT ![c] = "use"]
                 /\ UNCHANGED <<store, victim>>
              \/ \E t \in Cached :
                 /\ cache' = [cache EXCEPT ![s] = h, ![t] = NoLog]
                 /\ victim' = [victim EXCEPT ![c] = cache[t]]
                 /\ store' = c
                 /\ pc' = [pc EXCEPT ![c] = "evict"]
           /\ UNCHANGED <<raised, holder, op, at, view>>
  BY OpenLogIs
<1>2. /\ log[h] = Closed /\ \A d \in Clients : handle[d] # h
      /\ Len(contents) \in Nat /\ cache[s] = NoLog
      /\ \A d \in Clients : victim[d] = NoLog
      /\ handle[c] = NoLog /\ h # NoLog /\ at[c] # NoStream
  <2>1. log[h] = Closed /\ (\A d \in Clients : handle[d] # h) /\ h # NoLog
    BY <1>1, Distinct DEF Free
  <2>2. Len(contents) \in Nat
    BY LenProperties
  <2>3. cache[s] = NoLog /\ at[c] # NoStream
    BY <1>1, Distinct DEF Cached
  <2>4. \A d \in Clients : victim[d] = NoLog
    BY <1>1, Distinct DEF IInv, TypeOK, LocksHeld
  <2>5. handle[c] = NoLog
    BY <1>1 DEF IInv, TypeOK
  <2> QED BY <2>1, <2>2, <2>3, <2>4, <2>5
<1>3. \A t \in Cached : t \in Streams /\ t # s /\ cache[t] \in Handles /\ cache[t] # h
                        /\ log[cache[t]] # Closed /\ log[cache[t]].of = t
  BY <1>1, <1>2 DEF Cached, IInv, TypeOK, LogsOK, CacheOK
<1>4. TypeOK'
  <2>1. new' \in [Streams -> Seq(Nat) \cup {NoDir}]
    BY <1>1 DEF IInv, TypeOK
  <2>2. log' \in [Handles -> [of : Streams, last : Nat] \cup {Closed}]
    <3>1. [of |-> s, last |-> Len(contents)] \in [of : Streams, last : Nat]
      BY <1>1, <1>2
    <3> QED BY <1>1, <3>1 DEF IInv, TypeOK
  <2>3. broken' \subseteq Streams
    BY <1>1 DEF IInv, TypeOK
  <2>4. CASE cache' = [cache EXCEPT ![s] = h] /\ pc' = [pc EXCEPT ![c] = "use"] /\ UNCHANGED <<store, victim>>
    BY <1>1, <1>2, <2>1, <2>2, <2>3, <2>4 DEF IInv, TypeOK
  <2>5. ASSUME NEW t \in Cached, cache' = [cache EXCEPT ![s] = h, ![t] = NoLog],
               victim' = [victim EXCEPT ![c] = cache[t]], store' = c, pc' = [pc EXCEPT ![c] = "evict"]
        PROVE  TypeOK'
    <3>1. cache[t] \in Handles /\ cache[t] # NoLog
      BY <1>3, Distinct
    <3> QED BY <1>1, <1>2, <2>1, <2>2, <2>3, <2>5, <3>1 DEF IInv, TypeOK
  <2> QED BY <1>1, <2>4, <2>5
<1>5. LocksHeld'
  <2>1. CASE pc' = [pc EXCEPT ![c] = "use"] /\ UNCHANGED store
    BY <1>1, <2>1, Distinct DEF IInv, TypeOK, LocksHeld
  <2>2. CASE pc' = [pc EXCEPT ![c] = "evict"] /\ store' = c
    BY <1>1, <2>2, Distinct DEF IInv, TypeOK, LocksHeld
  <2> QED BY <1>1, <2>1, <2>2
<1>6. /\ log'[h] = [of |-> s, last |-> Len(contents)] /\ log'[h] # Closed
      /\ log'[h].of = s /\ log'[h].last = Len(contents)
      /\ \A g \in Handles \ {h} : log'[g] = log[g]
  BY <1>1, <1>2, Distinct DEF IInv, TypeOK
<1>7. CacheOK'
  <2> SUFFICES ASSUME NEW t \in Streams, cache'[t] # NoLog
               PROVE  log'[cache'[t]] # Closed /\ log'[cache'[t]].of = t
    BY DEF CacheOK
  <2>1. cache'[s] = h
    BY <1>1, <1>3 DEF IInv, TypeOK
  <2>2. CASE t = s
    BY <1>6, <2>1, <2>2
  <2>3. CASE t # s
    <3>1. cache'[t] = cache[t]
      BY <1>1, <2>3 DEF IInv, TypeOK, Cached
    <3>2. cache[t] \in Handles \ {h} /\ log[cache[t]] # Closed /\ log[cache[t]].of = t
      BY <1>2, <3>1 DEF IInv, TypeOK, LogsOK, CacheOK
    <3> QED BY <1>6, <3>1, <3>2
  <2> QED BY <2>2, <2>3
<1>8. VictimOK'
  <2>1. CASE UNCHANGED victim
    BY <1>2, <2>1 DEF VictimOK
  <2>2. ASSUME NEW t \in Cached, cache' = [cache EXCEPT ![s] = h, ![t] = NoLog],
               victim' = [victim EXCEPT ![c] = cache[t]]
        PROVE  VictimOK'
    <3>1. victim'[c] = cache[t] /\ \A d \in Clients \ {c} : victim'[d] = NoLog
      BY <1>2, <2>2 DEF IInv, TypeOK
    <3>2. log'[cache[t]] = log[cache[t]] /\ log[cache[t]] # Closed /\ log[cache[t]].of = t
      BY <1>3, <1>6
    <3>3. cache'[t] = NoLog
      BY <1>3, <2>2 DEF IInv, TypeOK
    <3> QED BY <3>1, <3>2, <3>3 DEF VictimOK
  <2> QED BY <1>1, <2>1, <2>2
<1>9. HandleOK'
  BY <1>1, <1>2, <1>6, Distinct DEF IInv, TypeOK, LogsOK, HandleOK
<1>10. OneOpen'
  <2> SUFFICES ASSUME NEW g \in Handles, log'[g] # Closed, log'[g].of \notin broken'
               PROVE  \/ cache'[log'[g].of] = g
                      \/ (cache'[log'[g].of] = NoLog /\ \E d \in Clients : victim'[d] = g)
    BY DEF OneOpen
  <2>1. CASE g = h
    <3>1. cache'[s] = h
      BY <1>1, <1>3 DEF IInv, TypeOK
    <3> QED BY <1>6, <2>1, <3>1
  <2>2. CASE g # h
    <3>1. log'[g] = log[g] /\ log[g] # Closed /\ log[g].of \notin broken /\ log[g].of \in Streams
      BY <1>1, <1>6, <2>2 DEF IInv, TypeOK
    <3>2. log[g].of # s
      BY <1>1, <3>1, NotOpen
    <3>3. cache[log[g].of] = g
      BY <1>2, <3>1, Distinct DEF IInv, LogsOK, OneOpen
    <3>4. CASE cache' = [cache EXCEPT ![s] = h]
      BY <3>1, <3>2, <3>3, <3>4 DEF IInv, TypeOK
    <3>5. ASSUME NEW t \in Cached, cache' = [cache EXCEPT ![s] = h, ![t] = NoLog],
                 victim' = [victim EXCEPT ![c] = cache[t]]
          PROVE  \/ cache'[log'[g].of] = g
                 \/ (cache'[log'[g].of] = NoLog /\ \E d \in Clients : victim'[d] = g)
      <4>1. CASE log[g].of = t
        BY <1>2, <3>1, <3>3, <3>5, <4>1 DEF IInv, TypeOK
      <4>2. CASE log[g].of # t
        BY <3>1, <3>2, <3>3, <3>5, <4>2 DEF IInv, TypeOK
      <4> QED BY <4>1, <4>2
    <3> QED BY <1>1, <3>4, <3>5
  <2> QED BY <2>1, <2>2
<1>11. EndsOK'
  <2>1. ASSUME NEW g \in Handles, log'[g] # Closed
        PROVE  /\ new'[log'[g].of] # NoDir
               /\ log'[g].last <= Len(new'[log'[g].of])
               /\ log'[g].of \notin broken' => log'[g].last = Len(new'[log'[g].of])
    <3>1. CASE g = h
      BY <1>1, <1>2, <1>6, <3>1, Distinct DEF IInv, TypeOK
    <3>2. CASE g # h
      <4>1. log'[g] = log[g] /\ log[g] # Closed /\ log[g].of \in Streams
        BY <1>6, <2>1, <3>2 DEF IInv, TypeOK
      <4>2. /\ new[log[g].of] # NoDir /\ log[g].last <= Len(new[log[g].of])
            /\ log[g].of \notin broken => log[g].last = Len(new[log[g].of])
        BY <4>1 DEF IInv, EndsOK, Bounded, InStep
      <4>3. new'[log[g].of] = new[log[g].of]
        BY <1>1, <4>1, <4>2 DEF IInv, TypeOK
      <4> QED BY <1>1, <4>1, <4>2, <4>3
    <3> QED BY <3>1, <3>2
  <2> QED BY <2>1 DEF EndsOK, Bounded, InStep
<1> QED BY <1>4, <1>5, <1>7, <1>8, <1>9, <1>10, <1>11 DEF IInv, LogsOK

LEMMA NextIInv == IInv /\ [Next]_vars => IInv'
<1> SUFFICES ASSUME IInv, [Next]_vars PROVE IInv'
  OBVIOUS
<1>1. ASSUME NEW c \in Clients, NEW s \in Streams, NEW o \in {"read", "save", "append"}, Call(c, s, o)
      PROVE  IInv'
  BY <1>1, CallIInv
<1>2. ASSUME NEW c \in Clients, Hit(c) PROVE IInv'
  BY <1>2, HitIInv
<1>3. ASSUME NEW c \in Clients, Look(c) PROVE IInv'
  BY <1>3, OpenFailsIInv, OpenLogIInv DEF Look
<1>4. ASSUME NEW c \in Clients, Evict(c) \/ EvictGivesUp(c) PROVE IInv'
  BY <1>4, EvictIInv, EvictGivesUpIInv
<1>5. ASSUME NEW c \in Clients, LockLog(c) \/ GiveUp(c) PROVE IInv'
  BY <1>5, LockLogIInv, GiveUpIInv
<1>6. ASSUME NEW c \in Clients, Work(c) PROVE IInv'
  <2>1. ASSUME NEW n \in 1 .. MaxBatch, NEW k \in 0 .. n, AppendLog(c, n, k) PROVE IInv'
    <3>1. n \in Nat /\ k \in Nat
      BY DiskAssumption
    <3> QED BY <2>1, <3>1, AppendLogIInv
  <2> QED BY <1>6, <2>1, FailsIInv, ReadLogIInv DEF Work
<1>7. ASSUME Crash PROVE IInv'
  BY <1>7, CrashIInv
<1>8. ASSUME UNCHANGED vars PROVE IInv'
  BY <1>8 DEF vars, disk, locks, call, IInv, TypeOK, LocksHeld, LogsOK, CacheOK, VictimOK, HandleOK,
     OneOpen, EndsOK, Bounded, InStep
<1> QED BY <1>1, <1>2, <1>3, <1>4, <1>5, <1>6, <1>7, <1>8 DEF Next

LEMMA AlwaysIInv == Spec => []IInv
  BY InitIInv, NextIInv, PTL DEF Spec

(* The state is well formed: every local of a call means something exactly *)
(* where the code uses it.                                                 *)
THEOREM TypeCorrect == Spec => []TypeOK
<1>1. IInv => TypeOK
  BY DEF IInv
<1> QED BY <1>1, AlwaysIInv, PTL

(* Whoever returns from an operation, whichever way, has let go of the     *)
(* locks of the store and of the logs (disk-store.go:103, :142).           *)
THEOREM LocksHeldCorrect == Spec => []LocksHeld
<1>1. IInv => LocksHeld
  BY DEF IInv
<1> QED BY <1>1, AlwaysIInv, PTL

(* A stream never has two open logs, though the cache closes logs that are *)
(* in use (disk-store.go:99).                                              *)
THEOREM OneOpenCorrect == Spec => []OneOpen
<1>1. IInv => OneOpen
  BY DEF IInv, LogsOK
<1> QED BY <1>1, AlwaysIInv, PTL

(* An open log ends where its directory does (disk-store.go:206).          *)
THEOREM InStepCorrect == Spec => []InStep
<1>1. IInv => InStep
  BY DEF IInv, EndsOK
<1> QED BY <1>1, AlwaysIInv, PTL

-----------------------------------------------------------------------------
(* The steps of the store are steps of AtomicLogs, or stutter there. *)

LEMMA ContentKept ==
  ASSUME NEW s \in Streams, old'[s] = old[s], new'[s] = new[s]
  PROVE  Content(s)' = Content(s)
  BY DEF Content

LEMMA Logs ==
  ASSUME NEW s \in Streams
  PROVE  /\ [t \in Streams |-> Content(t)][s] = Content(s)
         /\ [t \in Streams |-> Content(t)]'[s] = Content(s)'
  OBVIOUS

LEMMA StutterSteps ==
  ASSUME UNCHANGED <<disk, view, broken>>
  PROVE  UNCHANGED Atomic!vars
  BY ContentKept DEF disk, Atomic!vars

LEMMA OpenFailsStep ==
  ASSUME IInv, NEW c \in Clients, NEW moved \in BOOLEAN, OpenFails(c, moved)
  PROVE  UNCHANGED Atomic!vars
<1> DEFINE s == at[c]
<1>1. /\ s \in Streams
      /\ moved => old[s] # NoDir /\ new[s] = NoDir
      /\ old' = IF moved THEN [old EXCEPT ![s] = NoDir] ELSE old
      /\ new' = IF moved THEN [new EXCEPT ![s] = old[s]] ELSE new
      /\ UNCHANGED <<view, broken>>
  BY DEF IInv, TypeOK, OpenFails, AtStore, Migrate, Moves
<1>2. \A t \in Streams : Content(t)' = Content(t)
  <2> SUFFICES ASSUME NEW t \in Streams PROVE Content(t)' = Content(t)
    OBVIOUS
  <2>1. CASE moved /\ t = s
    BY <1>1, <2>1 DEF IInv, TypeOK, Content
  <2>2. CASE ~(moved /\ t = s)
    BY <1>1, <2>2, ContentKept DEF IInv, TypeOK
  <2> QED BY <2>1, <2>2
<1> QED BY <1>1, <1>2 DEF Atomic!vars

LEMMA OpenLogStep ==
  ASSUME IInv, NEW c \in Clients, NEW moved \in BOOLEAN, OpenLog(c, moved)
  PROVE  Atomic!Break
<1> PICK s \in Streams : s = at[c]
  BY DEF IInv, TypeOK, OpenLog, AtStore
<1>1. PICK contents \in Seq(Nat) :
        /\ s \notin broken' => contents = Content(s)
        /\ \A t \in Streams \ {s} : old'[t] = old[t]
        /\ new' = [new EXCEPT ![s] = contents]
        /\ broken' \in {broken, broken \cup {s}}
        /\ UNCHANGED view
  BY OpenLogIs
<1>2. \A t \in Streams \ broken' : Content(t)' = Content(t)
  <2> SUFFICES ASSUME NEW t \in Streams \ broken' PROVE Content(t)' = Content(t)
    OBVIOUS
  <2>1. CASE t = s
    <3>1. new'[s] = contents /\ contents # NoDir
      BY <1>1, Distinct DEF IInv, TypeOK
    <3>2. Content(s)' = contents
      BY <3>1 DEF Content
    <3> QED BY <1>1, <2>1, <3>2
  <2>2. CASE t # s
    BY <1>1, <2>2, ContentKept DEF IInv, TypeOK
  <2> QED BY <2>1, <2>2
<1> QED BY <1>1, <1>2, Logs DEF Atomic!Break

LEMMA EvictGivesUpStep ==
  ASSUME NEW c \in Clients, EvictGivesUp(c)
  PROVE  Atomic!Break
<1>1. /\ \A s \in Streams : Content(s)' = Content(s)
      /\ broken \subseteq broken' /\ UNCHANGED view
  BY ContentKept DEF EvictGivesUp, disk
<1> QED BY <1>1, Logs DEF Atomic!Break

LEMMA ForgetSteps ==
  ASSUME IInv,
         \/ Crash
         \/ \E c \in Clients, s \in Streams, o \in {"read", "save", "append"} : Call(c, s, o)
  PROVE  Atomic!Forget
<1>1. UNCHANGED <<disk, broken>>
  BY DEF Crash, Call
<1>2. \A d \in Clients, t \in Streams : view'[d][t] \in {view[d][t], <<>>}
  <2>1. CASE Crash
    BY <2>1 DEF Crash
  <2>2. ASSUME NEW c \in Clients, NEW s \in Streams, NEW o, Call(c, s, o)
        PROVE  \A d \in Clients, t \in Streams : view'[d][t] \in {view[d][t], <<>>}
    BY <2>2 DEF IInv, TypeOK, Call
  <2> QED BY <2>1, <2>2
<1> QED BY <1>1, <1>2, ContentKept DEF disk, Atomic!Forget

LEMMA ReadLogStep ==
  ASSUME IInv, NEW c \in Clients, ReadLog(c)
  PROVE  Atomic!Next
<1> DEFINE s == at[c]
           read == SubSeq(new[s], 1, log[handle[c]].last)
<1>1. pc[c] = "locked" /\ log[handle[c]] # Closed
  BY DEF ReadLog
<1>2. /\ view' = [view EXCEPT ![c][s] = read]
      /\ UNCHANGED <<disk, broken>> /\ s \in Streams
  BY <1>1, OpenHandle DEF ReadLog
<1>3. \A t \in Streams : Content(t)' = Content(t)
  BY <1>2, ContentKept DEF disk
<1> HIDE DEF read
<1>4. CASE s \in broken
  <2>1. \A t \in Streams \ broken' : \A d \in Clients : view'[d][t] = view[d][t]
    BY <1>2, <1>4 DEF IInv, TypeOK
  <2>2. Atomic!Break
    BY <1>2, <1>3, <2>1, Logs DEF Atomic!Break
  <2> QED BY <2>2 DEF Atomic!Next
<1>5. CASE s \notin broken
  <2>1. read = new[s]
    BY <1>1, <1>5, OpenHandle, SubSeqFull DEF read
  <2>2. Content(s) = new[s]
    BY <1>1, OpenHandle, Distinct DEF Content
  <2>3. view' = [view EXCEPT ![c][s] = Content(s)]
    BY <1>2, <2>1, <2>2
  <2>4. Atomic!Read(c, s)
    BY <1>2, <1>3, <2>3, Logs DEF Atomic!Read
  <2> QED BY <1>2, <2>4 DEF Atomic!Next
<1> QED BY <1>4, <1>5

LEMMA AppendLogStep ==
  ASSUME IInv, ViewOK, NEW c \in Clients, NEW n \in Nat, NEW k \in Nat, AppendLog(c, n, k)
  PROVE  Atomic!Next
<1> PICK s \in Streams : s = at[c]
  BY OpenHandle DEF AppendLog
<1> DEFINE from == log[handle[c]].last
           batch == [i \in 1 .. k |-> raised + i]
           written == Written(new[s], from, batch)
<1>1. /\ pc[c] = "locked" /\ log[handle[c]] # Closed /\ op[c] \in {"save", "append"}
      /\ op[c] = "append" \/ Len(view[c][s]) = from
      /\ new' = [new EXCEPT ![s] = written]
      /\ view' = IF op[c] = "save" /\ k = n THEN [view EXCEPT ![c][s] = @ \o batch] ELSE view
      /\ UNCHANGED <<old, broken>>
  BY DEF AppendLog, Accepts
<1>2. /\ s \in Streams /\ new[s] \in Seq(Nat) /\ from \in Nat /\ from <= Len(new[s])
      /\ s \notin broken => from = Len(new[s])
  BY <1>1, OpenHandle
<1>3. raised \in Nat /\ batch \in Seq(Nat)
  BY BatchIs DEF IInv, TypeOK
<1> HIDE DEF from, batch
<1>4. written \in Seq(Nat) /\ (s \notin broken => written = new[s] \o batch)
  BY <1>2, <1>3, WrittenIs
<1> HIDE DEF written
<1>5. Content(s) = new[s] /\ Content(s)' = written
  <2>1. new'[s] = written
    BY <1>1, <1>2 DEF IInv, TypeOK
  <2> QED BY <1>2, <1>4, <2>1, Distinct DEF Content
<1>6. \A t \in Streams \ {s} : Content(t)' = Content(t)
  BY <1>1, ContentKept DEF IInv, TypeOK
<1>7. CASE s \in broken
  <2>1. \A t \in Streams \ broken' : \A d \in Clients : view'[d][t] = view[d][t]
    BY <1>1, <1>7 DEF IInv, TypeOK
  <2>2. \A t \in Streams \ broken' : Content(t)' = Content(t)
    BY <1>1, <1>6, <1>7
  <2>3. Atomic!Break
    BY <1>1, <2>1, <2>2, Logs DEF Atomic!Break
  <2> QED BY <2>3 DEF Atomic!Next
<1>8. CASE s \notin broken
  <2>1. Atomic!Extends(Content(s)', Content(s))
    BY <1>2, <1>3, <1>4, <1>5, <1>8, ConcatProperties DEF Atomic!Extends
  <2>2. CASE op[c] = "save" /\ k = n
    <3>1. view[c][s] \in Seq(Nat) /\ Len(view[c][s]) = Len(new[s])
      BY <1>1, <1>2, <1>8, <2>2 DEF IInv, TypeOK
    <3>2. \A i \in 1 .. Len(view[c][s]) : new[s][i] = view[c][s][i]
      BY <1>2, <1>5, <1>8 DEF ViewOK, Atomic!Extends
    <3>3. view[c][s] = new[s]
      BY <1>2, <3>1, <3>2, SeqEqual
    <3>4. view' = [view EXCEPT ![c][s] = written]
      BY <1>1, <1>4, <1>8, <2>2, <3>3 DEF IInv, TypeOK
    <3>5. Atomic!Save(c, s)
      BY <1>1, <1>2, <1>5, <1>6, <2>1, <3>3, <3>4, Logs DEF Atomic!Save
    <3> QED BY <1>2, <3>5 DEF Atomic!Next
  <2>3. CASE ~(op[c] = "save" /\ k = n)
    <3>1. Atomic!Add(c, s)
      BY <1>1, <1>2, <1>6, <2>1, <2>3, Logs DEF Atomic!Add
    <3> QED BY <1>2, <3>1 DEF Atomic!Next
  <2> QED BY <2>2, <2>3
<1> QED BY <1>7, <1>8

LEMMA NextStep ==
  ASSUME IInv, ViewOK, [Next]_vars
  PROVE  Atomic!Next \/ UNCHANGED Atomic!vars
<1>1. ASSUME NEW c \in Clients, NEW s \in Streams, NEW o \in {"read", "save", "append"}, Call(c, s, o)
      PROVE  Atomic!Next
  BY <1>1, ForgetSteps DEF Atomic!Next
<1>2. ASSUME NEW c \in Clients, Hit(c) \/ LockLog(c) \/ GiveUp(c) \/ Evict(c)
      PROVE  UNCHANGED Atomic!vars
  BY <1>2, StutterSteps DEF Hit, LockLog, GiveUp, Evict
<1>3. ASSUME NEW c \in Clients, Look(c)
      PROVE  Atomic!Next \/ UNCHANGED Atomic!vars
  BY <1>3, OpenFailsStep, OpenLogStep DEF Look, Atomic!Next
<1>4. ASSUME NEW c \in Clients, EvictGivesUp(c) PROVE Atomic!Next
  BY <1>4, EvictGivesUpStep DEF Atomic!Next
<1>5. ASSUME NEW c \in Clients, Work(c)
      PROVE  Atomic!Next \/ UNCHANGED Atomic!vars
  <2>1. CASE FailsClosed(c) \/ SaveRefused(c) \/ AppendNothing(c)
    BY <2>1, StutterSteps DEF FailsClosed, SaveRefused, AppendNothing
  <2>2. ASSUME NEW n \in 1 .. MaxBatch, NEW k \in 0 .. n, AppendLog(c, n, k) PROVE Atomic!Next
    <3>1. n \in Nat /\ k \in Nat
      BY DiskAssumption
    <3> QED BY <2>2, <3>1, AppendLogStep
  <2> QED BY <1>5, <2>1, <2>2, ReadLogStep DEF Work
<1>6. ASSUME Crash PROVE Atomic!Next
  BY <1>6, ForgetSteps DEF Atomic!Next
<1>7. ASSUME UNCHANGED vars PROVE UNCHANGED Atomic!vars
  BY <1>7, StutterSteps DEF vars
<1> QED BY <1>1, <1>2, <1>3, <1>4, <1>5, <1>6, <1>7 DEF Next

LEMMA ContentIs ==
  ASSUME TypeOK, NEW s \in Streams
  PROVE  Content(s) \in Seq(Nat) /\ Len(Content(s)) \in Nat
<1>1. Content(s) \in Seq(Nat)
  <2>1. CASE new[s] # NoDir
    BY <2>1 DEF TypeOK, Content
  <2>2. CASE new[s] = NoDir /\ old[s] # NoDir
    BY <2>2 DEF TypeOK, Content
  <2>3. CASE new[s] = NoDir /\ old[s] = NoDir
    BY <2>3 DEF Content
  <2> QED BY <2>1, <2>2, <2>3
<1> QED BY <1>1, LenProperties

(* It is the steps of AtomicLogs that keep what a client remembers true. *)
LEMMA ViewStep ==
  ASSUME TypeOK, TypeOK', ViewOK, Atomic!Next \/ UNCHANGED Atomic!vars
  PROVE  ViewOK'
<1> SUFFICES ASSUME NEW d \in Clients, NEW t \in Streams \ broken'
             PROVE  Atomic!Extends(Content(t)', view'[d][t])
  BY DEF ViewOK, Atomic!Extends
<1>1. /\ Content(t) \in Seq(Nat) /\ Len(Content(t)) \in Nat
      /\ Content(t)' \in Seq(Nat) /\ Len(Content(t)') \in Nat
      /\ view[d][t] \in Seq(Nat) /\ Len(view[d][t]) \in Nat
  <2>1. Content(t)' \in Seq(Nat)
    <3>1. CASE new'[t] # NoDir
      BY <3>1 DEF TypeOK, Content
    <3>2. CASE new'[t] = NoDir /\ old'[t] # NoDir
      BY <3>2 DEF TypeOK, Content
    <3>3. CASE new'[t] = NoDir /\ old'[t] = NoDir
      BY <3>3 DEF Content
    <3> QED BY <3>1, <3>2, <3>3
  <2>2. view[d][t] \in Seq(Nat)
    BY DEF TypeOK
  <2> QED BY <2>1, <2>2, ContentIs, LenProperties
<1>2. t \notin broken => Atomic!Extends(Content(t), view[d][t])
  BY DEF ViewOK
<1>3. ASSUME NEW c \in Clients, NEW s \in Streams, Atomic!Add(c, s) \/ Atomic!Save(c, s)
      PROVE  t \notin broken /\ Atomic!Extends(Content(t)', Content(t))
  <2>1. CASE t = s
    BY <1>3, <2>1, Logs DEF Atomic!Add, Atomic!Save
  <2>2. CASE t # s
    <3>1. Content(t)' = Content(t)
      BY <1>3, <2>2, Logs DEF Atomic!Add, Atomic!Save
    <3> QED BY <1>1, <1>3, <3>1 DEF Atomic!Extends, Atomic!Add, Atomic!Save
  <2> QED BY <2>1, <2>2
<1>4. ASSUME NEW c \in Clients, NEW s \in Streams, Atomic!Add(c, s)
      PROVE  Atomic!Extends(Content(t)', view'[d][t])
  <2>1. view' = view
    BY <1>4 DEF Atomic!Add
  <2>2. Atomic!Extends(Content(t)', Content(t)) /\ Atomic!Extends(Content(t), view[d][t])
    BY <1>2, <1>3, <1>4
  <2> QED BY <1>1, <2>1, <2>2 DEF Atomic!Extends
<1>5. ASSUME NEW c \in Clients, NEW s \in Streams, Atomic!Save(c, s)
      PROVE  Atomic!Extends(Content(t)', view'[d][t])
  <2>1. CASE d = c /\ t = s
    <3>1. view'[d][t] = Content(t)'
      BY <1>5, <2>1, Logs DEF Atomic!Save, TypeOK
    <3> QED BY <1>1, <3>1 DEF Atomic!Extends
  <2>2. CASE ~(d = c /\ t = s)
    <3>1. view'[d][t] = view[d][t]
      BY <1>5, <2>2 DEF Atomic!Save, TypeOK
    <3>2. Atomic!Extends(Content(t)', Content(t)) /\ Atomic!Extends(Content(t), view[d][t])
      BY <1>2, <1>3, <1>5
    <3> QED BY <1>1, <3>1, <3>2 DEF Atomic!Extends
  <2> QED BY <2>1, <2>2
<1>6. ASSUME NEW c \in Clients, NEW s \in Streams, Atomic!Read(c, s)
      PROVE  Atomic!Extends(Content(t)', view'[d][t])
  <2>1. Content(t)' = Content(t) /\ t \notin broken
    BY <1>6, Logs DEF Atomic!Read
  <2>2. view'[d][t] = view[d][t] \/ view'[d][t] = Content(t)
    BY <1>6, Logs DEF Atomic!Read, TypeOK
  <2> QED BY <1>1, <1>2, <2>1, <2>2 DEF Atomic!Extends
<1>7. ASSUME Atomic!Forget
      PROVE  Atomic!Extends(Content(t)', view'[d][t])
  <2>1. Content(t)' = Content(t) /\ t \notin broken
    BY <1>7, Logs DEF Atomic!Forget
  <2>2. view'[d][t] = view[d][t] \/ view'[d][t] = <<>>
    BY <1>7 DEF Atomic!Forget
  <2>3. Atomic!Extends(Content(t), <<>>)
    BY <1>1 DEF Atomic!Extends
  <2> QED BY <1>2, <2>1, <2>2, <2>3
<1>8. ASSUME Atomic!Break
      PROVE  Atomic!Extends(Content(t)', view'[d][t])
  <2>1. Content(t)' = Content(t) /\ view'[d][t] = view[d][t] /\ t \notin broken
    BY <1>8, Logs DEF Atomic!Break
  <2> QED BY <1>2, <2>1
<1>9. ASSUME UNCHANGED Atomic!vars
      PROVE  Atomic!Extends(Content(t)', view'[d][t])
  <2>1. Content(t)' = Content(t) /\ view'[d][t] = view[d][t] /\ t \notin broken
    BY <1>9, Logs DEF Atomic!vars
  <2> QED BY <1>2, <2>1
<1> QED BY <1>4, <1>5, <1>6, <1>7, <1>8, <1>9 DEF Atomic!Next

LEMMA InitViewOK == Init => ViewOK /\ Atomic!Init
<1> SUFFICES ASSUME Init PROVE ViewOK /\ Atomic!Init
  OBVIOUS
<1>1. TypeOK
  BY InitIInv DEF IInv
<1>2. [s \in Streams |-> Content(s)] \in [Streams -> Seq(Nat)]
  BY <1>1, ContentIs
<1>3. ViewOK
  <2>1. \A c \in Clients, s \in Streams : view[c][s] = <<>>
    BY DEF Init
  <2>2. \A s \in Streams : Atomic!Extends(Content(s), <<>>)
    BY <1>1, ContentIs DEF Atomic!Extends
  <2> QED BY <2>1, <2>2 DEF ViewOK
<1> QED BY <1>2, <1>3 DEF Init, Atomic!Init

(* The store with its cache, migration, evictions, failures and crashes    *)
(* behaves as a store of streams that only grow at their end, and to which *)
(* a save adds only what its caller has seen the end of                    *)
(* (disk-store.go:206).                                                    *)
THEOREM AtomicLogsImplemented == Spec => ImplementsAtomicLogs
<1>1. IInv /\ ViewOK /\ [Next]_vars => ViewOK'
  <2> SUFFICES ASSUME IInv, ViewOK, [Next]_vars PROVE ViewOK'
    OBVIOUS
  <2>1. TypeOK /\ TypeOK'
    BY NextIInv DEF IInv
  <2> QED BY <2>1, NextStep, ViewStep
<1>2. IInv /\ ViewOK /\ [Next]_vars => [Atomic!Next]_(Atomic!vars)
  BY NextStep
<1> QED BY <1>1, <1>2, InitViewOK, AlwaysIInv, PTL DEF Spec, ImplementsAtomicLogs, Atomic!Spec
=============================================================================
