----------------------------- MODULE Aggregate ------------------------------
(***************************************************************************)
(* The aggregate root of event/aggregate.go.  An aggregate holds the       *)
(* events it was loaded with and the ones raised on it since; firstIndex   *)
(* and lastIndex say which of them the stream already has.  An event is    *)
(* its id (the EventID NewEvents draws) and the position in its meta data. *)
(***************************************************************************)
EXTENDS Words, Sequences

NewAggregate == [events |-> <<>>, firstIndex |-> 0, lastIndex |-> 0]

Version(a)       == Plus(a.firstIndex, Len(a.events))
StreamVersion(a) == a.lastIndex

NotExists(a)   == Version(a) = 0
ShouldExist(a) == Version(a) # 0

(* posStartAt numbers the events it is given from the committed version,   *)
(* whatever was raised before them.                                        *)
StartsAtZero(a, ids) == [i \in 1 .. Len(ids) |-> [id |-> ids[i], pos |-> Plus(a.lastIndex, i - 1)]]
PosStartAt(a, ids) == [i \in 1 .. Len(ids) |-> [id |-> ids[i], pos |-> Plus(a.lastIndex, i)]]

Start(a, i) == [events |-> a.events, firstIndex |-> i, lastIndex |-> i]

RaiseOn(a, ids) == [a EXCEPT !.events = @ \o PosStartAt(a, ids)]

AppendOn(a, ids) ==
  [a EXCEPT !.events    = @ \o PosStartAt(a, ids),
            !.lastIndex = Plus(@, Len(ids))]

CommitsNothing(a) == a
CommitsOnTop(a) == [a EXCEPT !.lastIndex = Plus(@, Len(a.events))]
Commit(a) == [a EXCEPT !.lastIndex = Len(a.events)]

(* Events(true) slices off the committed events.  When lastIndex lies      *)
(* further behind firstIndex than there are events, the slice is out of    *)
(* bounds and the call panics.                                             *)
Committed(a)    == Minus(a.lastIndex, a.firstIndex)
EventsPanics(a) == Committed(a) > Len(a.events)
ReturnsAll(a)   == a.events
Uncommitted(a)  == SubSeq(a.events, Committed(a) + 1, Len(a.events))
=============================================================================
