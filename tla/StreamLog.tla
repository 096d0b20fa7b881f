----------------------------- MODULE StreamLog ------------------------------
(***************************************************************************)
(* One stream of the disk store (driver/disk-store), as the operations of  *)
(* its eventLog see it: the events still retained, in order, and the       *)
(* position of the oldest one.  Each operation runs under the lock of the  *)
(* stream's write-ahead log, so it is one operator on a log value here.    *)
(* The write-ahead log itself (tidwall/wal) is a library: the first record *)
(* has index 1 and a truncation must leave at least one record.            *)
(***************************************************************************)
EXTENDS Paging

EmptyLog == [first |-> 1, events |-> <<>>]

FirstIndex(l) == IF l.events = <<>> THEN 0 ELSE l.first
LastIndex(l)  == l.first + Len(l.events) - 1

EventAt(l, p) == l.events[p - l.first + 1]

(* The positions readStreamN is handed, and the events it finds there.  A  *)
(* read of the whole log asks for nothing outside it (lemma ReadAll).      *)
Positions(l, after, count) == GenerateStreamIDs(FirstIndex(l), LastIndex(l), after, count)
ReadStreamN(l, index) == [i \in 1 .. Len(index) |-> EventAt(l, index[i])]
Read(l, after, count) == ReadStreamN(l, Positions(l, after, count))

(* The optimistic lock of Append, and the write of the batch. *)
IgnoresVersion(l, version) == TRUE
VersionOK(l, version) == version \in {AppendOnly, LastIndex(l)}
AppendTo(l, batch)    == [l EXCEPT !.events = @ \o batch]

(* Truncate: an index above zero is the new first position, one below zero *)
(* the negated new last position.                                          *)
CanTruncate(l, index) ==
  l.events # <<>> /\ (IF index < 0 THEN -index ELSE index) \in l.first .. LastIndex(l)

TruncateFront(l, p) ==
  [first |-> p, events |-> SubSeq(l.events, p - l.first + 1, Len(l.events))]
TruncateBack(l, p) == [l EXCEPT !.events = SubSeq(@, 1, p - l.first + 1)]
Truncate(l, index) == IF index < 0 THEN TruncateBack(l, -index) ELSE TruncateFront(l, index)
=============================================================================
