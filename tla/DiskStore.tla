----------------------------- MODULE DiskStore ------------------------------
(***************************************************************************)
(* The disk store (driver/disk-store) with its cache of open logs.  A call *)
(* first asks EventLog for the log of its stream: under the lock of the    *)
(* store that is the cached one, or one opened now, which may evict and    *)
(* close another.  Then it takes the lock of the log it was given, whether *)
(* or not that is still cached, and works on it.  A log keeps its own idea *)
(* of where it ends, so two of them open on one directory would overwrite  *)
(* each other.  A context may end while a call waits for a lock, and the   *)
(* process may crash: the directories are what is left of it.              *)
(*                                                                         *)
(* Positions, versions and truncation are in StreamLog; here streams start *)
(* at 1 and an event is a number.                                          *)
(***************************************************************************)
EXTENDS Naturals, Sequences, FiniteSets

CONSTANTS
  Streams, Clients,
  CachSize,    \* how many logs are kept open
  Handles,     \* bound: the logs there can be at a time, open or in use
  MaxEvents,   \* bound: how many events are ever appended
  MaxBatch,    \* bound: how many events one call appends
  Faults,      \* what may go wrong: "open", "rename", "write", "cancel", "crash"
  Nobody,      \* who holds a lock that is free
  NoLog,       \* no handle
  NoStream,    \* the stream of a client that calls nothing
  Closed,      \* a log that is not open
  NoDir        \* the contents of a directory that does not exist

ASSUME DiskAssumption ==
  /\ CachSize \in Nat \ {0}
  /\ MaxEvents \in Nat /\ MaxBatch \in Nat
  /\ Nobody \notin Clients /\ NoLog \notin Handles /\ NoStream \notin Streams
  /\ Closed \notin [of : Streams, last : Nat] /\ NoDir \notin Seq(Nat)

VARIABLES
  old,      \* the directory of a stream in the layout of older versions
  new,      \* its directory in the present one
  raised,   \* how many events exist
  cache,    \* openlogs: the log that is kept open for a stream, if any
  log,      \* Closed, or the stream of an open log and its last index as
            \* the log itself has it
  store,    \* who holds the lock of the store
  holder,   \* who holds the lock of a log
  pc,       \* where the call of a client is
  op,       \* what it calls: "read", "save", "append" or "none"
  at,       \* the stream it calls it on
  handle,   \* the log EventLog has returned
  victim,   \* the log it has to evict
  view,     \* what a client last read of a stream, or appended to it
  broken    \* history: streams the store has lost hold of

disk  == <<old, new>>
locks == <<store, holder>>
call  == <<op, at>>
vars  == <<disk, raised, cache, log, locks, pc, call, handle, victim, view, broken>>

Content(s) ==
  CASE new[s] # NoDir -> new[s]
    [] new[s] = NoDir /\ old[s] # NoDir -> old[s]
    [] OTHER -> <<>>

Cached == {s \in Streams : cache[s] # NoLog}

(* A log nobody can reach any more. *)
Free(h) == log[h] = Closed /\ \A c \in Clients : handle[c] # h

(* Return keeps the log it has been given. *)
ReturnKeepsLog(c) ==
  /\ pc' = [pc EXCEPT ![c] = "idle"]
  /\ op' = [op EXCEPT ![c] = "none"]
  /\ at' = [at EXCEPT ![c] = NoStream]
  /\ UNCHANGED handle

Return(c) ==
  /\ pc' = [pc EXCEPT ![c] = "idle"]
  /\ op' = [op EXCEPT ![c] = "none"]
  /\ at' = [at EXCEPT ![c] = NoStream]
  /\ handle' = [handle EXCEPT ![c] = NoLog]

-----------------------------------------------------------------------------
(* A stream has an old directory with some events, or none yet. *)
Init ==
  /\ old \in [Streams -> {NoDir, <<0>>}]
  /\ new = [s \in Streams |-> NoDir]
  /\ raised = 0
  /\ cache = [s \in Streams |-> NoLog]
  /\ log = [h \in Handles |-> Closed]
  /\ store = Nobody
  /\ holder = [h \in Handles |-> Nobody]
  /\ pc = [c \in Clients |-> "idle"]
  /\ op = [c \in Clients |-> "none"]
  /\ at = [c \in Clients |-> NoStream]
  /\ handle = [c \in Clients |-> NoLog]
  /\ victim = [c \in Clients |-> NoLog]
  /\ view = [c \in Clients |-> [s \in Streams |-> <<>>]]
  /\ broken = {}

(* A client calls an operation on a stream.  It works on one stream at a   *)
(* time, and forgets what it has read of another.                          *)
Call(c, s, o) ==
  /\ pc[c] = "idle"
  /\ pc' = [pc EXCEPT ![c] = "eventlog"]
  /\ op' = [op EXCEPT ![c] = o]
  /\ at' = [at EXCEPT ![c] = s]
  /\ view' = [view EXCEPT ![c] = [t \in Streams |-> IF t = s THEN @[t] ELSE <<>>]]
  /\ UNCHANGED <<disk, raised, cache, log, locks, handle, victim, broken>>

(* EventLog gets the lock of the store, under which it works alone: a log  *)
(* that is in the cache is returned.                                       *)
AtStore(c) == pc[c] = "eventlog" /\ store = Nobody

Hit(c) ==
  /\ AtStore(c)
  /\ at[c] \in Cached
  /\ handle' = [handle EXCEPT ![c] = cache[at[c]]]
  /\ pc' = [pc EXCEPT ![c] = "use"]
  /\ UNCHANGED <<disk, raised, cache, log, locks, call, victim, view, broken>>

(* An old directory is moved to the new place.  The error of Rename is     *)
(* ignored; it fails when there is a new directory already.                *)
Moves(s)  == old[s] # NoDir /\ new[s] = NoDir
Migrate(s, moved) ==
  /\ moved => Moves(s)
  /\ Moves(s) /\ ~moved => "rename" \in Faults
  /\ old' = IF moved THEN [old EXCEPT ![s] = NoDir] ELSE old

(* If it is not, the log is opened and added to the cache.  A full cache   *)
(* has to give up another one first, and the store stays locked.           *)
OpenLog(c, moved) ==
  LET s == at[c]
      h == CHOOSE g \in Handles : Free(g)
      contents == CASE new[s] # NoDir -> new[s]
                    [] new[s] = NoDir /\ moved -> old[s]
                    [] OTHER -> <<>>
  IN  /\ AtStore(c)
      /\ s \notin Cached
      /\ \E g \in Handles : Free(g)
      /\ Migrate(s, moved)
      /\ new' = [new EXCEPT ![s] = contents]
      /\ broken' = IF Moves(s) /\ ~moved THEN broken \cup {s} ELSE broken
      /\ log' = [log EXCEPT ![h] = [of |-> s, last |-> Len(contents)]]
      /\ handle' = [handle EXCEPT ![c] = h]
      /\ IF Cardinality(Cached) < CachSize
         THEN /\ cache' = [cache EXCEPT ![s] = h]
              /\ pc' = [pc EXCEPT ![c] = "use"]
              /\ UNCHANGED <<store, victim>>
         ELSE \E t \in Cached :
              /\ cache' = [cache EXCEPT ![s] = h, ![t] = NoLog]
              /\ victim' = [victim EXCEPT ![c] = cache[t]]
              /\ store' = c
              /\ pc' = [pc EXCEPT ![c] = "evict"]
      /\ UNCHANGED <<raised, holder, call, view>>

(* wal.Open fails, after the directory may have been moved. *)
OpenFails(c, moved) ==
  LET s == at[c]
  IN  /\ "open" \in Faults
      /\ AtStore(c)
      /\ s \notin Cached
      /\ Migrate(s, moved)
      /\ new' = IF moved THEN [new EXCEPT ![s] = old[s]] ELSE new
      /\ Return(c)
      /\ UNCHANGED <<raised, cache, log, locks, victim, view, broken>>

(* A log in use is evicted without being closed. *)
EvictSkipsBusy(c) ==
  /\ pc[c] = "evict"
  /\ log' = IF holder[victim[c]] = Nobody THEN [log EXCEPT ![victim[c]] = Closed] ELSE log
  /\ victim' = [victim EXCEPT ![c] = NoLog]
  /\ store' = Nobody
  /\ pc' = [pc EXCEPT ![c] = "use"]
  /\ UNCHANGED <<disk, raised, cache, holder, call, handle, view, broken>>

(* The evicted log is closed under its own lock, the store's still held. *)
Evict(c) ==
  /\ pc[c] = "evict"
  /\ holder[victim[c]] = Nobody
  /\ log' = [log EXCEPT ![victim[c]] = Closed]
  /\ victim' = [victim EXCEPT ![c] = NoLog]
  /\ store' = Nobody
  /\ pc' = [pc EXCEPT ![c] = "use"]
  /\ UNCHANGED <<disk, raised, cache, holder, call, handle, view, broken>>

(* The context ends while the eviction waits for that lock: the log is     *)
(* neither cached nor closed.                                              *)
EvictGivesUp(c) ==
  /\ "cancel" \in Faults
  /\ pc[c] = "evict"
  /\ victim' = [victim EXCEPT ![c] = NoLog]
  /\ broken' = broken \cup {log[victim[c]].of}
  /\ store' = Nobody
  /\ pc' = [pc EXCEPT ![c] = "use"]
  /\ UNCHANGED <<disk, raised, cache, log, holder, call, handle, view>>

-----------------------------------------------------------------------------
(* A call gets the lock of the log it was given. *)
LockLog(c) ==
  /\ pc[c] = "use"
  /\ holder[handle[c]] = Nobody
  /\ holder' = [holder EXCEPT ![handle[c]] = c]
  /\ pc' = [pc EXCEPT ![c] = "locked"]
  /\ UNCHANGED <<disk, raised, cache, log, store, call, handle, victim, view, broken>>

(* Its context ends before it gets a lock. *)
GiveUp(c) ==
  /\ "cancel" \in Faults
  /\ pc[c] \in {"eventlog", "use"}
  /\ Return(c)
  /\ UNCHANGED <<disk, raised, cache, log, locks, victim, view, broken>>

Unlock(c) == holder' = [holder EXCEPT ![handle[c]] = Nobody]

(* A closed log is left locked. *)
FailsClosedLocked(c) ==
  /\ pc[c] = "locked"
  /\ log[handle[c]] = Closed
  /\ Return(c)
  /\ UNCHANGED <<disk, raised, cache, log, locks, victim, view, broken>>

(* The log was closed in the meantime. *)
FailsClosed(c) ==
  /\ pc[c] = "locked"
  /\ log[handle[c]] = Closed
  /\ Unlock(c)
  /\ Return(c)
  /\ UNCHANGED <<disk, raised, cache, log, store, victim, view, broken>>

(* Read, FirstIndex, LastIndex.  A caller may keep the log and go on with  *)
(* it, as Load does between FirstIndex and Read, and a subscription for as *)
(* long as it lives.                                                       *)
ReadLog(c) ==
  LET s == at[c]
  IN  /\ pc[c] = "locked" /\ op[c] = "read"
      /\ log[handle[c]] # Closed
      /\ view' = [view EXCEPT ![c][s] = SubSeq(new[s], 1, log[handle[c]].last)]
      /\ Unlock(c)
      /\ \/ Return(c)
         \/ pc' = [pc EXCEPT ![c] = "use"] /\ UNCHANGED <<call, handle>>
      /\ UNCHANGED <<disk, raised, cache, log, store, victim, broken>>

(* Append's version: a save has the one it has seen, an append takes any.  *)
AcceptsAny(c) == TRUE
Accepts(c) == op[c] = "append" \/ Len(view[c][at[c]]) = log[handle[c]].last

SaveRefused(c) ==
  /\ pc[c] = "locked" /\ op[c] = "save"
  /\ log[handle[c]] # Closed
  /\ ~Accepts(c)
  /\ Unlock(c)
  /\ Return(c)
  /\ UNCHANGED <<disk, raised, cache, log, store, victim, view, broken>>

(* The write of a batch goes where the log itself believes to end. *)
Written(file, from, batch) ==
  [i \in 1 .. IF Len(file) > from + Len(batch) THEN Len(file) ELSE from + Len(batch) |->
     IF i \in from + 1 .. from + Len(batch) THEN batch[i - from] ELSE file[i]]

(* The log counts the events of a batch whose write failed. *)
AppendLogCounts(c, n, k) ==
  LET s == at[c]
      h == handle[c]
      batch == [i \in 1 .. k |-> raised + i]
  IN  /\ pc[c] = "locked" /\ op[c] \in {"save", "append"}
      /\ log[h] # Closed
      /\ Accepts(c)
      /\ raised + n <= MaxEvents
      /\ k < n => "write" \in Faults
      /\ raised' = raised + n
      /\ new'  = [new EXCEPT ![s] = Written(@, log[h].last, batch)]
      /\ log' = [log EXCEPT ![h] = [of |-> @.of, last |-> @.last + n]]
      /\ view' = IF op[c] = "save" /\ k = n THEN [view EXCEPT ![c][s] = @ \o batch] ELSE view
      /\ Unlock(c)
      /\ Return(c)
      /\ UNCHANGED <<old, cache, store, victim, broken>>

(* n events are appended; a failing write leaves k of them behind. *)
AppendLog(c, n, k) ==
  LET s == at[c]
      h == handle[c]
      batch == [i \in 1 .. k |-> raised + i]
  IN  /\ pc[c] = "locked" /\ op[c] \in {"save", "append"}
      /\ log[h] # Closed
      /\ Accepts(c)
      /\ raised + n <= MaxEvents
      /\ k < n => "write" \in Faults
      /\ raised' = raised + n
      /\ new'  = [new EXCEPT ![s] = Written(@, log[h].last, batch)]
      /\ log' = [log EXCEPT ![h] = [of |-> @.of, last |-> @.last + k]]
      /\ view' = IF op[c] = "save" /\ k = n THEN [view EXCEPT ![c][s] = @ \o batch] ELSE view
      /\ Unlock(c)
      /\ Return(c)
      /\ UNCHANGED <<old, cache, store, victim, broken>>

(* The call has no events to append. *)
AppendNothing(c) ==
  /\ pc[c] = "locked" /\ op[c] \in {"save", "append"}
  /\ log[handle[c]] # Closed
  /\ Accepts(c)
  /\ Unlock(c)
  /\ Return(c)
  /\ UNCHANGED <<disk, raised, cache, log, store, victim, view, broken>>

(* The process ends, anywhere, and is started again.  A crash within a     *)
(* write is one after a write that failed; what Open does about the rest   *)
(* of a torn record, it either cuts it off or it fails.                    *)
Crash ==
  /\ "crash" \in Faults
  /\ cache' = [s \in Streams |-> NoLog]
  /\ log' = [h \in Handles |-> Closed]
  /\ store' = Nobody
  /\ holder' = [h \in Handles |-> Nobody]
  /\ pc' = [c \in Clients |-> "idle"]
  /\ op' = [c \in Clients |-> "none"]
  /\ at' = [c \in Clients |-> NoStream]
  /\ handle' = [c \in Clients |-> NoLog]
  /\ victim' = [c \in Clients |-> NoLog]
  /\ view' = [c \in Clients |-> [s \in Streams |-> <<>>]]
  /\ UNCHANGED <<disk, raised, broken>>

-----------------------------------------------------------------------------
Work(c) ==
  \/ FailsClosed(c) \/ ReadLog(c) \/ SaveRefused(c) \/ AppendNothing(c)
  \/ \E n \in 1 .. MaxBatch : \E k \in 0 .. n : AppendLog(c, n, k)

Look(c) ==
  \E moved \in BOOLEAN : OpenFails(c, moved) \/ OpenLog(c, moved)

Next ==
  \/ \E c \in Clients :
       \/ \E s \in Streams, o \in {"read", "save", "append"} : Call(c, s, o)
       \/ Hit(c) \/ Look(c) \/ Evict(c) \/ EvictGivesUp(c)
       \/ LockLog(c) \/ GiveUp(c) \/ Work(c)
  \/ Crash

Spec == Init /\ [][Next]_vars

(* Bound of the run: it does not go on from a broken stream. *)
Unbroken == broken = {}

-----------------------------------------------------------------------------
(* The values the variables take, and which of the locals of a call mean   *)
(* anything at which point of it.                                          *)
TypeOK ==
  /\ old \in [Streams -> Seq(Nat) \cup {NoDir}]
  /\ new \in [Streams -> Seq(Nat) \cup {NoDir}]
  /\ raised \in Nat
  /\ cache \in [Streams -> Handles \cup {NoLog}]
  /\ log \in [Handles -> [of : Streams, last : Nat] \cup {Closed}]
  /\ store \in Clients \cup {Nobody}
  /\ holder \in [Handles -> Clients \cup {Nobody}]
  /\ pc \in [Clients -> {"idle", "eventlog", "evict", "use", "locked"}]
  /\ op \in [Clients -> {"read", "save", "append", "none"}]
  /\ at \in [Clients -> Streams \cup {NoStream}]
  /\ handle \in [Clients -> Handles \cup {NoLog}]
  /\ victim \in [Clients -> Handles \cup {NoLog}]
  /\ view \in [Clients -> [Streams -> Seq(Nat)]]
  /\ broken \subseteq Streams
  /\ \A c \in Clients :
       /\ at[c] = NoStream <=> pc[c] = "idle"
       /\ handle[c] # NoLog <=> pc[c] \in {"evict", "use", "locked"}
       /\ victim[c] # NoLog <=> pc[c] = "evict"

(* The two mutual exclusions: an eviction works alone on the cache, and a  *)
(* call alone on a log.  Whoever returns, whichever way, has let go.  So    *)
(* nobody is stuck: the holder of the store waits at most for the holder   *)
(* of a log, who waits for nobody (disk-store.go:103, :142).               *)
LocksHeld ==
  \A c \in Clients :
    /\ store = c <=> pc[c] = "evict"
    /\ \A h \in Handles : holder[h] = c <=> pc[c] = "locked" /\ handle[c] = h

(* A stream has one open log at most: two of them would write to the same  *)
(* places (disk-store.go:99).  It is the cached one, unless it is about to *)
(* be closed, and then the stream cannot be opened again before it is.     *)
OneOpen ==
  \A h \in Handles :
    log[h] # Closed /\ log[h].of \notin broken =>
      \/ cache[log[h].of] = h
      \/ cache[log[h].of] = NoLog /\ \E c \in Clients : victim[c] = h

(* An open log ends where its directory does: whatever failed, was evicted *)
(* or was moved before, the next position it hands out is the next one.    *)
InStep ==
  \A h \in Handles :
    log[h] # Closed /\ log[h].of \notin broken =>
      new[log[h].of] # NoDir /\ log[h].last = Len(new[log[h].of])

(* The store, with its cache, migration, evictions, failures and crashes,  *)
(* is a store of streams that only grow at the end: no call sees or leaves *)
(* a stream short of events that were appended, and no save succeeds but   *)
(* on the stream as its caller has seen it (disk-store.go:206).            *)
Atomic == INSTANCE AtomicLogs WITH logs <- [s \in Streams |-> Content(s)]
ImplementsAtomicLogs == Atomic!Spec
=============================================================================
