--------------------------- MODULE MemEventStore ----------------------------
(***************************************************************************)
(* The clients of EventStore over the memory store (driver/mem-store).     *)
(* Its stream is a slice, and while nobody truncates it the event at index *)
(* i has position i + 1: a log that starts at 1, which is read by index.   *)
(* Append stores and numbers a clone of each event, one after the other,   *)
(* so the aggregate's own events keep the positions they were raised with, *)
(* and a batch that cannot be marshalled is left half stored.              *)
(***************************************************************************)
EXTENDS EventStore, TLC

(* No truncation: Truncate slices by count and reads by position, and a    *)
(* stream cut at the front panics whoever reads it.  Nothing is written    *)
(* that could fail but the encoding of an event.                           *)
ASSUME MemoryAssumption == Indexes \subseteq {0} /\ "write" \notin Faults

(* The version of a stream is the length of the slice. *)
MemIgnoresVersion(l, version) == TRUE
MemVersionOK(l, version) == version \in {AppendOnly, Len(l.events)}

(* First, Last: the positions of the events at both ends, those of NilEvent *)
(* when there is none.                                                     *)
MemFirstIndex(l) == IF l.events = <<>> THEN 0 ELSE 1
MemLastIndex(l)  == Len(l.events)

(* readStreamN takes the event at index p - 1 for a position p.            *)
MemReadStreamN(l, index) == [i \in 1 .. Len(index) |-> l.events[index[i]]]
MemRead(l, after, count) ==
  MemReadStreamN(l, GenerateStreamIDs(MemFirstIndex(l), MemLastIndex(l), after, count))

(* Load over the memory store: FirstIndex and Read copy the stream or hold *)
(* its lock, once each.                                                    *)
MemLoadFirst(c) ==
  /\ pc[c] = "first"
  /\ pc'    = [pc EXCEPT ![c] = "read"]
  /\ head'  = [head EXCEPT ![c] = MemFirstIndex(log)]
  /\ fresh' = [fresh EXCEPT ![c] = TRUE]
  /\ UNCHANGED <<log, raised, op, agg, err, uncut>>

MemLoadRead(c) ==
  LET events == MemRead(log, 0, AllEvents)
      loaded == AppendOn(Start(agg[c], Minus(head[c], 1)), events)
  IN  /\ pc[c] = "read"
      /\ uncut' = [uncut EXCEPT ![c] = TRUE]
      /\ IF events = <<>>
         THEN /\ agg' = agg
              /\ IF op[c] \in {"create", "upsert"} THEN Continue(c) ELSE Return(c, "not found")
         ELSE /\ agg' = [agg EXCEPT ![c] = loaded]
              /\ IF Admits(op[c], loaded) = "ok"
                 THEN Continue(c)
                 ELSE Return(c, Admits(op[c], loaded))
      /\ UNCHANGED <<log, raised, fresh>>

(* Append under the lock of the stream: the first n events of the batch    *)
(* are stored, and the next one, when there is one, cannot be marshalled.  *)
MemAppend(c, batch, n) ==
  /\ n = Len(batch) \/ "marshal" \in Faults
  /\ HasRoom(n)
  /\ log' = AppendTo(log, SubSeq(batch, 1, n))
  /\ Return(c, IF n = Len(batch) THEN "ok" ELSE "marshal")

MemSaveAppends(c, n) ==
  LET batch == Uncommitted(agg[c])
  IN  /\ pc[c] = "append"
      /\ MemVersionOK(log, StreamVersion(agg[c]))
      /\ n <= Len(batch)
      /\ MemAppend(c, IdsOf(batch), n)
      /\ agg' = IF n = Len(batch) THEN [agg EXCEPT ![c] = Commit(@)] ELSE agg
      /\ Changed(IF n = Len(batch) THEN {c} ELSE {})
      /\ UNCHANGED raised

MemSaveRefused(c) ==
  /\ pc[c] = "append"
  /\ ~MemVersionOK(log, StreamVersion(agg[c]))
  /\ Return(c, "wrong version")
  /\ UNCHANGED <<log, raised, agg, uncut, fresh>>

MemAppendBlindly(c, n, k) ==
  /\ pc[c] = "idle"
  /\ raised + n <= MaxEvents
  /\ raised' = raised + n
  /\ MemAppend(c, Ids(n), k)
  /\ Changed({})
  /\ UNCHANGED agg

-----------------------------------------------------------------------------
MemNext ==
  \E c \in Clients :
    \/ \E o \in Operations : Begin(c, o)
    \/ Resume(c)
    \/ MemLoadFirst(c)
    \/ MemLoadRead(c)
    \/ LoadFails(c)
    \/ \E n \in 1 .. MaxRaise : Raise(c, n)
    \/ \E n \in 1 .. MaxRaise : \E k \in 0 .. n : MemAppendBlindly(c, n, k)
    \/ CallbackFails(c)
    \/ Save(c)
    \/ \E n \in 0 .. MaxEvents : MemSaveAppends(c, n)
    \/ MemSaveRefused(c)
    \/ \E index \in Indexes : TruncateStream(c, index)

MemSpec == Init /\ [][MemNext]_vars

Interchangeable == Permutations(Clients)
=============================================================================
