----------------------------- MODULE EventStore -----------------------------
(***************************************************************************)
(* Clients that read, change and save aggregates of one stream through     *)
(* ev.EventStore (ev.go): Create, Update and Upsert, each of which loads   *)
(* a fresh aggregate, lets a callback raise events on it and saves it;     *)
(* further saves of the aggregate they returned; blind appends; and        *)
(* truncations.  Load takes the lock of the stream twice (FirstIndex, then *)
(* Read) and Save once (Append): everything between is interleaved with    *)
(* the other clients.  Streams share nothing, so one is enough.            *)
(***************************************************************************)
EXTENDS Aggregate, StreamLog

CONSTANTS
  Clients,     \* goroutines that use the store
  MaxEvents,   \* bound: how many events are ever raised
  MaxRaise,    \* bound: how many events one call raises or appends
  Indexes,     \* the indexes truncations are called with
  Faults       \* which steps may fail: "read", "marshal", "write"

ASSUME BoundsAssumption ==
  /\ MaxEvents \in Nat /\ MaxEvents <= AllEvents
  /\ MaxRaise \in Nat
ASSUME InputsAssumption ==
  /\ Indexes \subseteq Int
  /\ Faults \subseteq {"read", "marshal", "write"}

VARIABLES
  log,     \* the stream
  raised,  \* how many events exist; their ids are 1 .. raised
  pc,      \* what a client is about to do
  op,      \* the operation it is in
  agg,     \* the aggregate it holds
  head,    \* Load's local variable "first"
  err,     \* how its last operation ended
  uncut,   \* history: nothing was cut off the end since the client loaded
  fresh    \* history: nothing changed since the client loaded or last saved

vars == <<log, raised, pc, op, agg, head, err, uncut, fresh>>

Operations == {"create", "update", "upsert"}

Ids(n) == [i \in 1 .. n |-> raised + i]

(* A bound of the words: a stream never holds more than AllEvents events.  *)
HasRoom(n) == LastIndex(log) + n <= AllEvents

(* An operation ends: its locals are gone, its result stays. *)
Return(c, result) ==
  /\ pc'   = [pc EXCEPT ![c] = "idle"]
  /\ op'   = [op EXCEPT ![c] = "none"]
  /\ head' = [head EXCEPT ![c] = 0]
  /\ err'  = [err EXCEPT ![c] = result]
Continue(c) == pc' = [pc EXCEPT ![c] = "callback"] /\ UNCHANGED <<op, head, err>>

(* How the stream changed, for the histories: a change is news to everyone *)
(* but the savers, the client that just saved its aggregate or nobody.     *)
Changed(savers) ==
  /\ uncut' = [d \in Clients |-> uncut[d] /\ LastIndex(log') >= LastIndex(log)]
  /\ fresh' = [d \in Clients |-> d \in savers \/ (fresh[d] /\ log' = log)]

-----------------------------------------------------------------------------
Init ==
  /\ log = EmptyLog
  /\ raised = 0
  /\ pc   = [c \in Clients |-> "idle"]
  /\ op   = [c \in Clients |-> "none"]
  /\ agg  = [c \in Clients |-> NewAggregate]
  /\ head = [c \in Clients |-> 0]
  /\ err  = [c \in Clients |-> "ok"]
  /\ uncut = [c \in Clients |-> TRUE]
  /\ fresh = [c \in Clients |-> TRUE]

(* Create, Update and Upsert start with a new aggregate. *)
Begin(c, o) ==
  /\ pc[c] = "idle"
  /\ pc'  = [pc EXCEPT ![c] = "first"]
  /\ op'  = [op EXCEPT ![c] = o]
  /\ agg' = [agg EXCEPT ![c] = NewAggregate]
  /\ err' = [err EXCEPT ![c] = "ok"]
  /\ UNCHANGED <<log, raised, head, uncut, fresh>>

(* The caller goes on with the aggregate an operation left it with. *)
Resume(c) ==
  /\ pc[c] = "idle"
  /\ pc'  = [pc EXCEPT ![c] = "callback"]
  /\ op'  = [op EXCEPT ![c] = "save"]
  /\ err' = [err EXCEPT ![c] = "ok"]
  /\ UNCHANGED <<log, raised, agg, head, uncut, fresh>>

(* Load, first half: l.FirstIndex. *)
LoadFirst(c) ==
  /\ pc[c] = "first"
  /\ pc'    = [pc EXCEPT ![c] = "read"]
  /\ head'  = [head EXCEPT ![c] = FirstIndex(log)]
  /\ fresh' = [fresh EXCEPT ![c] = TRUE]
  /\ UNCHANGED <<log, raised, op, agg, err, uncut>>

(* The guard of an operation between Load and the callback. *)
ChecksNothing(o, a) == "ok"
Admits(o, a) ==
  CASE o = "create" /\ ~NotExists(a)   -> "should not exist"
    [] o = "update" /\ ~ShouldExist(a) -> "should exist"
    [] OTHER -> "ok"

(* Load, second half: l.Read of the whole stream, event.Start and          *)
(* event.Append; then the operation's own guard.                           *)
LoadedSigned(c) == AppendOn(Start(agg[c], head[c] - 1), Read(log, 0, AllEvents))
Loaded(c) ==
  AppendOn(Start(agg[c], Minus(head[c], 1)), Read(log, 0, AllEvents))

LoadRead(c) ==
  /\ pc[c] = "read"
  /\ uncut' = [uncut EXCEPT ![c] = TRUE]
  /\ IF Read(log, 0, AllEvents) = <<>>
     THEN /\ agg' = agg
          /\ IF op[c] \in {"create", "upsert"} THEN Continue(c) ELSE Return(c, "not found")
     ELSE /\ agg' = [agg EXCEPT ![c] = Loaded(c)]
          /\ IF Admits(op[c], Loaded(c)) = "ok"
             THEN Continue(c)
             ELSE Return(c, Admits(op[c], Loaded(c)))
  /\ UNCHANGED <<log, raised, fresh>>

(* FirstIndex or Read fails: the aggregate stays as it was, not loaded. *)
LoadFails(c) ==
  /\ "read" \in Faults
  /\ pc[c] \in {"first", "read"}
  /\ Return(c, "read")
  /\ fresh' = [fresh EXCEPT ![c] = FALSE]
  /\ UNCHANGED <<log, raised, agg, uncut>>

(* event.Raise, called by the callback as often as it likes. *)
Raise(c, n) ==
  /\ pc[c] = "callback"
  /\ raised + n <= MaxEvents
  /\ raised' = raised + n
  /\ agg' = [agg EXCEPT ![c] = RaiseOn(@, Ids(n))]
  /\ UNCHANGED <<log, pc, op, head, err, uncut, fresh>>

CallbackFails(c) ==
  /\ pc[c] = "callback" /\ op[c] # "save"
  /\ Return(c, "callback")
  /\ UNCHANGED <<log, raised, agg, uncut, fresh>>

(* Save up to the call of Append: Upsert's guard, and agg.Events(true). *)
Save(c) ==
  /\ pc[c] = "callback"
  /\ CASE op[c] = "upsert" /\ ~ShouldExist(agg[c]) -> Return(c, "should exist")
       [] EventsPanics(agg[c])                     -> Return(c, "panic")
       [] Uncommitted(agg[c]) = <<>>               -> Return(c, "ok")
       [] OTHER -> pc' = [pc EXCEPT ![c] = "append"] /\ UNCHANGED <<op, head, err>>
  /\ UNCHANGED <<log, raised, agg, uncut, fresh>>

(* Append numbers the first n events it is given behind the last index; the *)
(* aggregate shares them with the batch.                                    *)
Stamps(a, l, n) ==
  LET from == Committed(a)
  IN  [a EXCEPT !.events = [i \in 1 .. Len(@) |->
         IF i \in from + 1 .. from + n
         THEN [@[i] EXCEPT !.pos = Plus(LastIndex(l), i - from)] ELSE @[i]]]

IdsOf(batch) == [i \in 1 .. Len(batch) |-> batch[i].id]

(* Append under the lock of the stream, and agg.Commit.  On a stream that  *)
(* was truncated at the front Commit forgets the version: the client does  *)
(* not know the stream any more.                                           *)
SaveAppends(c) ==
  LET batch == Uncommitted(agg[c])
  IN  /\ pc[c] = "append"
      /\ VersionOK(log, StreamVersion(agg[c]))
      /\ HasRoom(Len(batch))
      /\ log' = AppendTo(log, IdsOf(batch))
      /\ agg' = [agg EXCEPT ![c] = Commit(Stamps(@, log, Len(batch)))]
      /\ Return(c, "ok")
      /\ Changed(IF agg[c].firstIndex = 0 THEN {c} ELSE {})
      /\ UNCHANGED raised

SaveRefused(c) ==
  /\ pc[c] = "append"
  /\ ~VersionOK(log, StreamVersion(agg[c]))
  /\ Return(c, "wrong version")
  /\ UNCHANGED <<log, raised, agg, uncut, fresh>>

(* Event n + 1 of the batch cannot be marshalled: the ones before it are   *)
(* numbered, nothing is written.                                           *)
SaveMarshalFails(c, n) ==
  /\ "marshal" \in Faults
  /\ pc[c] = "append"
  /\ VersionOK(log, StreamVersion(agg[c]))
  /\ n < Len(Uncommitted(agg[c]))
  /\ agg' = [agg EXCEPT ![c] = Stamps(@, log, n)]
  /\ Return(c, "marshal")
  /\ UNCHANGED <<log, raised, uncut, fresh>>

(* WriteBatch fails when n events of the batch have reached the log: none, *)
(* some when the log starts a new segment within the batch, all when the   *)
(* final sync fails.                                                       *)
SaveWriteFails(c, n) ==
  LET batch == Uncommitted(agg[c])
  IN  /\ "write" \in Faults
      /\ pc[c] = "append"
      /\ VersionOK(log, StreamVersion(agg[c]))
      /\ n <= Len(batch) /\ HasRoom(n)
      /\ log' = AppendTo(log, IdsOf(SubSeq(batch, 1, n)))
      /\ agg' = [agg EXCEPT ![c] = Stamps(@, log, Len(batch))]
      /\ Return(c, "write")
      /\ Changed({})
      /\ UNCHANGED raised

(* EventStore.Append: n new events, no version, no aggregate.  A failing   *)
(* write leaves the first k of them behind.                                *)
AppendBlindly(c, n, k) ==
  /\ pc[c] = "idle"
  /\ raised + n <= MaxEvents /\ HasRoom(n)
  /\ raised' = raised + n
  /\ log' = AppendTo(log, SubSeq(Ids(n), 1, k))
  /\ \/ k = n /\ Return(c, "ok")
     \/ "write" \in Faults /\ Return(c, "write")
  /\ Changed({})
  /\ UNCHANGED agg

(* EventStore.Truncate calls every layer that can truncate, and reports    *)
(* ErrNoDriver behind the last one.  Zero is no error and no truncation.   *)
TruncateStream(c, index) ==
  /\ pc[c] = "idle"
  /\ IF index = 0 \/ CanTruncate(log, index)
     THEN /\ log' = IF index = 0 THEN log ELSE Truncate(log, index)
          /\ Return(c, "no driver")
     ELSE log' = log /\ Return(c, "out of range")
  /\ Changed({})
  /\ UNCHANGED <<raised, agg>>

-----------------------------------------------------------------------------
Next ==
  \E c \in Clients :
    \/ \E o \in Operations : Begin(c, o)
    \/ Resume(c)
    \/ LoadFirst(c)
    \/ LoadRead(c)
    \/ LoadFails(c)
    \/ \E n \in 1 .. MaxRaise : Raise(c, n)
    \/ \E n \in 1 .. MaxRaise : \E k \in 0 .. n : AppendBlindly(c, n, k)
    \/ CallbackFails(c)
    \/ Save(c)
    \/ SaveAppends(c)
    \/ SaveRefused(c)
    \/ \E n \in 0 .. MaxEvents : SaveMarshalFails(c, n) \/ SaveWriteFails(c, n)
    \/ \E index \in Indexes : TruncateStream(c, index)

Spec == Init /\ [][Next]_vars

-----------------------------------------------------------------------------
Steps   == {"idle", "first", "read", "callback", "append"}
Results == {"ok", "not found", "should exist", "should not exist", "callback",
            "panic", "wrong version", "read", "marshal", "write", "no driver",
            "out of range"}

Logs == [first : Uint64 \ {0}, events : Seq(1 .. MaxEvents)]
Aggregates == [events : Seq([id : 1 .. MaxEvents, pos : Uint64]),
               firstIndex : Uint64, lastIndex : Uint64]

(* Types, and what the write-ahead log keeps under any truncation: a       *)
(* stream that was ever written is never empty again (eventLog.Truncate).  *)
TypeOK ==
  /\ log \in Logs
  /\ log.events = <<>> => log.first = 1
  /\ LastIndex(log) <= AllEvents
  /\ raised \in 0 .. MaxEvents
  /\ pc \in [Clients -> Steps]
  /\ op \in [Clients -> Operations \cup {"none", "save"}]
  /\ agg \in [Clients -> Aggregates]
  /\ head \in [Clients -> Uint64]
  /\ err \in [Clients -> Results]
  /\ uncut \in [Clients -> BOOLEAN]
  /\ fresh \in [Clients -> BOOLEAN]

(* What an aggregate knows of the stream since it was loaded.  Either it   *)
(* holds exactly the events firstIndex + 1 .. lastIndex of the stream, at  *)
(* their positions, or its version lies behind the end of the stream, so   *)
(* that it can never be saved.  A Load torn by other clients, and Commit   *)
(* on a truncated stream, leave an aggregate behind, never ahead (Load,    *)
(* Save, eventLog.Append, IsAggregate.Commit).                             *)
Tracks(a, l) ==
  /\ a.firstIndex < l.first
  /\ a.firstIndex <= a.lastIndex
  /\ a.lastIndex <= LastIndex(l)
  /\ a.lastIndex - a.firstIndex <= Len(a.events)
  /\ \A p \in l.first .. a.lastIndex :
       a.events[p - a.firstIndex] = [id |-> EventAt(l, p), pos |-> p]
Behind(a, l) == a.lastIndex < LastIndex(l)

TracksOrBehind ==
  \A c \in Clients : uncut[c] => Tracks(agg[c], log) \/ Behind(agg[c], log)

(* A save that succeeds.  The stream was not cut back since the aggregate  *)
(* was loaded: after a cut, a version number may come to name other events.*)
Saves(c) == pc[c] = "append" /\ pc'[c] = "idle" /\ err'[c] = "ok"
SavesUncut(c) == Saves(c) /\ uncut[c]

(* No lost update: whoever saves has seen every event of the stream, each  *)
(* at its position, however the two halves of Load and the Append were     *)
(* interleaved with other clients (Load, Save, eventLog.Append).           *)
SawAll(a, l) ==
  \A p \in l.first .. LastIndex(l) :
     p - a.firstIndex \in 1 .. Len(a.events) /\ a.events[p - a.firstIndex].id = EventAt(l, p)
NoLostUpdate ==
  [][\A c \in Clients : SavesUncut(c) => SawAll(agg[c], log)]_vars

(* Of all creators of a stream at most one writes it, and only a stream    *)
(* nobody has ever written; whoever saves an update finds events there     *)
(* (Create, Update, NotExists, ShouldExist, eventLog.Append).  This is of  *)
(* saves that append: a Create whose callback raises nothing appends       *)
(* nothing, and is not refused when somebody writes the stream meanwhile.  *)
CreateOnce ==
  [][\A c \in Clients : Saves(c) =>
        /\ op[c] = "create" => log = EmptyLog
        /\ op[c] = "update" => log # EmptyLog]_vars

(* A save is refused only when the stream is not what the client loaded or *)
(* last saved: between its own successful saves a client does not run into *)
(* itself (Save, eventLog.Append, Commit).  A change may be its own, made  *)
(* past the aggregate: the part of its batch a failed write left behind,   *)
(* a blind append, a truncation.  Calls that leave the stream as it is are *)
(* no excuse; a Load that failed is one, and so is a save on a stream that *)
(* was truncated at the front (see UncommittedNotInLog).                   *)
RefusedOnlyOnChange ==
  [][\A c \in Clients :
        pc[c] = "append" /\ err'[c] = "wrong version" => ~fresh[c]]_vars

(* Whatever fails and however often a client saves again, an event is in   *)
(* the stream at most once (Save, eventLog.Append, Commit).  A truncation  *)
(* may bring an old version number back: this is for streams without.      *)
NoDuplicates ==
  \A p, q \in 1 .. Len(log.events) : log.events[p] = log.events[q] => p = q

(* Events(true) panics only of an aggregate whose stream was truncated: a  *)
(* save on one truncated at the front leaves lastIndex smaller than        *)
(* firstIndex; one cut back lets an aggregate be saved that Load started   *)
(* at 0 - 1.  No race and no failure alone does it (Load, Save,            *)
(* IsAggregate.Events, Commit).                                            *)
PanicsOnlyTruncated ==
  \A c \in Clients : log.first = 1 /\ uncut[c] => ~EventsPanics(agg[c])

(* What Events(true) returns, and Save appends, is not in the stream yet   *)
(* (IsAggregate.Events, Commit).                                           *)
UncommittedNotInLog ==
  \A c \in Clients : pc[c] \in {"callback", "append"} /\ ~EventsPanics(agg[c]) =>
    \A i \in 1 .. Len(Uncommitted(agg[c])), p \in 1 .. Len(log.events) :
       Uncommitted(agg[c])[i].id # log.events[p]

(* A batch of which a part was stored is lost to its aggregate: events     *)
(* that are in the stream may look uncommitted, but only to an aggregate   *)
(* that is behind the stream and can never be saved, however often it is   *)
(* tried again (eventLog.Append of either store, Save, Commit).            *)
SavableIsNew ==
  \A c \in Clients : uncut[c] /\ ~Behind(agg[c], log) =>
    \A i \in 1 .. Len(Uncommitted(agg[c])), p \in 1 .. Len(log.events) :
       Uncommitted(agg[c])[i].id # log.events[p]

(* ShouldExist fails only on an aggregate without events (ShouldExist).    *)
ShouldExistMeansEmpty ==
  \A c \in Clients : err[c] = "should exist" => agg[c].events = <<>>
=============================================================================
