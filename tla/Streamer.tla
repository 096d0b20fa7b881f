------------------------------ MODULE Streamer ------------------------------
(***************************************************************************)
(* The streamer driver (driver/streamer) on one stream: every Append       *)
(* starts a goroutine that sends the batch to the subscriptions, and a     *)
(* subscriber loops as gql.EventAdded does, for <-sub.Recv { sub.Events }. *)
(* Two locks order the steps: the state lock, held by a Send for all its   *)
(* subscribers and by Subscribe and Close, and the position lock of a      *)
(* subscription, held by each of Send's visits, by Recv and by Events.     *)
(* What the code does between two locked sections, is between two actions. *)
(***************************************************************************)
EXTENDS Paging, FiniteSets

CONSTANTS
  Subs,      \* subscribers
  MaxLast,   \* bound: how many events the stream ever has
  MaxBatch,  \* bound: how many events one Append has
  Starts,    \* the positions subscriptions start at
  Stamped,   \* whether the store below stamps positions on the events it is given
  NoBatch    \* what is being sent when nothing is

ASSUME StreamerAssumption ==
  /\ MaxLast \in Nat /\ MaxLast < AllEvents
  /\ MaxBatch \in Nat
  /\ Starts \subseteq Int64
  /\ Stamped \in BOOLEAN
  /\ NoBatch \notin [at : Nat, count : Nat]

VARIABLES
  last,     \* the last position of the stream
  sends,    \* batches whose Send goroutine has not got the state lock yet
  sending,  \* the batch whose Send holds the state lock
  todo,     \* the subscriptions this Send still has to visit
  subs,     \* state.subscribers of the stream
  pc,       \* where a subscriber is
  idx,      \* position.idx, its high-water mark
  size,     \* position.size, the events it takes to be behind idx
  wait,     \* position.wait: "nil", or "open" for a channel to close
  from,     \* history: where its subscription started
  got,      \* history: the positions its calls of Events returned
  sent,     \* history: the highest position any Send has carried
  outOfTurn \* history: a Send reached it out of turn

stream   == <<last, sends>>
sender   == <<sending, todo>>
position == <<idx, size, wait>>
history  == <<from, got, sent, outOfTurn>>
vars == <<stream, sender, subs, pc, position, history>>

Batches == [at : 1 .. MaxLast, count : 1 .. MaxBatch]

First == IF last = 0 THEN 0 ELSE 1

LastGot(s) == IF got[s] = <<>> THEN 0 ELSE got[s][Len(got[s])]

-----------------------------------------------------------------------------
Init ==
  /\ last = 0
  /\ sends = {}
  /\ sending = NoBatch
  /\ todo = <<>>
  /\ subs = <<>>
  /\ pc   = [s \in Subs |-> "new"]
  /\ idx  = [s \in Subs |-> 0]
  /\ size = [s \in Subs |-> 0]
  /\ wait = [s \in Subs |-> "nil"]
  /\ from = [s \in Subs |-> 0]
  /\ got  = [s \in Subs |-> <<>>]
  /\ sent = 0
  /\ outOfTurn = [s \in Subs |-> FALSE]

(* wrapper.Append: the store below appends, then "go Send". *)
AppendBatch(n) ==
  /\ last + n <= MaxLast
  /\ last'  = last + n
  /\ sends' = sends \cup {[at |-> last + n, count |-> n]}
  /\ UNCHANGED <<sender, subs, pc, position, history>>

(* The store below fails it, with k of its events stored: no Send. *)
AppendFails(k) ==
  /\ last + k <= MaxLast
  /\ last' = last + k
  /\ UNCHANGED <<sends, sender, subs, pc, position, history>>

(* Send gets the state lock. *)
SendStarts(b) ==
  /\ sending = NoBatch
  /\ b \in sends
  /\ sends' = sends \ {b}
  /\ sending' = b
  /\ todo' = subs
  /\ sent' = IF b.at > sent THEN b.at ELSE sent
  /\ UNCHANGED <<last, subs, pc, position, from, got, outOfTurn>>

(* The ActualPosition of the last event of the batch, as the caller of     *)
(* Append holds it: disk-store stamps the events it is given, mem-store    *)
(* only the copies it keeps, which leaves their number in NewEvents.       *)
SentPosition(b) == IF Stamped THEN b.at ELSE b.count - 1

(* The size Send gives a subscription: how far the batch is ahead of its   *)
(* mark, less than nothing when it comes late.                             *)
SizeUnsigned(b, i) == Minus(SentPosition(b), ToUint(i))
SizeShort(b, i) == ToInt(Minus(SentPosition(b), ToUint(i) + 1))
SizeSent(b, i) == ToInt(Minus(SentPosition(b), ToUint(i)))

(* Send closes the channel, if there is one, and takes it away. *)
NoSignal(s) == wait[s]
Signal(s) == "nil"

(* Send visits the next subscription.  It comes out of turn when it does   *)
(* between Events and the next Recv, after the Send of a later batch, or   *)
(* after Events has returned later events.                                 *)
SendVisits ==
  LET s == Head(todo)
  IN  /\ sending # NoBatch /\ todo # <<>>
      /\ todo' = Tail(todo)
      /\ size' = [size EXCEPT ![s] = SizeSent(sending, idx[s])]
      /\ wait' = [wait EXCEPT ![s] = Signal(s)]
      /\ outOfTurn' = [outOfTurn EXCEPT ![s] =
                         @ \/ pc[s] = "loop" \/ sending.at < sent \/ sending.at < LastGot(s)]
      /\ UNCHANGED <<stream, sending, subs, pc, idx, from, got, sent>>

SendEnds ==
  /\ sending # NoBatch /\ todo = <<>>
  /\ sending' = NoBatch
  /\ UNCHANGED <<stream, todo, subs, pc, position, history>>

-----------------------------------------------------------------------------
Subscribe(s, start) ==
  /\ pc[s] = "new"
  /\ sending = NoBatch
  /\ subs' = Append(subs, s)
  /\ pc'   = [pc EXCEPT ![s] = "loop"]
  /\ idx'  = [idx EXCEPT ![s] = start]
  /\ size' = [size EXCEPT ![s] = AllEvents]
  /\ from' = [from EXCEPT ![s] = start]
  /\ UNCHANGED <<stream, sender, wait, got, sent, outOfTurn>>

(* The high-water mark behind the events of the last batch. *)
KeepsMark(s) == idx[s]
MovedMark(s) == ToInt(Plus(ToUint(idx[s]), ToUint(size[s])))

(* The locked part of Recv. *)
Recv(s) ==
  /\ pc[s] = "loop"
  /\ IF size[s] = AllEvents
     THEN pc' = [pc EXCEPT ![s] = "ready"] /\ UNCHANGED position
     ELSE /\ wait' = IF size[s] = 0 THEN [wait EXCEPT ![s] = "open"] ELSE wait
          /\ pc'   = [pc EXCEPT ![s] = IF size[s] = 0 THEN "select" ELSE "ready"]
          /\ idx'  = [idx EXCEPT ![s] = MovedMark(s)]
          /\ size' = [size EXCEPT ![s] = 0]
  /\ UNCHANGED <<stream, sender, subs, history>>

(* Recv's select reads position.wait without the lock.  When a Send came   *)
(* first it may find nil, and block on that, or still find the channel it  *)
(* made, closed.                                                           *)
Select(s) ==
  /\ pc[s] = "select"
  /\ \/ wait[s] = "open" /\ pc' = [pc EXCEPT ![s] = "parked"]
     \/ wait[s] = "nil"  /\ pc' = [pc EXCEPT ![s] = "stuck"]
     \/ wait[s] = "nil"  /\ pc' = [pc EXCEPT ![s] = "ready"]
  /\ UNCHANGED <<stream, sender, subs, position, history>>

(* The channel it is parked on was closed: Recv yields true. *)
Wake(s) ==
  /\ pc[s] = "parked" /\ wait[s] = "nil"
  /\ pc' = [pc EXCEPT ![s] = "ready"]
  /\ UNCHANGED <<stream, sender, subs, position, history>>

(* The batch behind the mark.  An index the stream does not have fails it. *)
Events(s) ==
  LET batch == GenerateStreamIDs(First, last, idx[s], size[s])
  IN  /\ pc[s] = "ready"
      /\ IF \E i \in 1 .. Len(batch) : batch[i] \notin 1 .. last
         THEN pc' = [pc EXCEPT ![s] = "closing"] /\ UNCHANGED <<idx, size, got>>
         ELSE /\ pc'   = [pc EXCEPT ![s] = "loop"]
              /\ size' = [size EXCEPT ![s] = Len(batch)]
              /\ idx'  = [idx EXCEPT ![s] = IF batch = <<>> THEN @ ELSE batch[1] - 1]
              /\ got'  = [got EXCEPT ![s] = @ \o batch]
      /\ UNCHANGED <<stream, sender, subs, wait, from, sent, outOfTurn>>

(* The context of the subscriber ends: Recv yields false, Events fails. *)
Cancel(s) ==
  /\ pc[s] \in {"loop", "select", "parked", "stuck", "ready"}
  /\ pc' = [pc EXCEPT ![s] = "closing"]
  /\ UNCHANGED <<stream, sender, subs, position, history>>

(* delete: the last subscription takes the place of the one that leaves. *)
DropsLast(lis, s) == SubSeq(lis, 1, Len(lis) - 1)
Without(lis, s) ==
  LET n == Len(lis)
  IN  [i \in 1 .. n - 1 |-> IF lis[i] = s THEN lis[n] ELSE lis[i]]

Close(s) ==
  /\ pc[s] = "closing"
  /\ sending = NoBatch
  /\ subs' = Without(subs, s)
  /\ pc' = [pc EXCEPT ![s] = "closed"]
  /\ UNCHANGED <<stream, sender, position, history>>

(* A Send holds the state lock for longer than Close waits for it. *)
CloseTimesOut(s) ==
  /\ pc[s] = "closing"
  /\ sending # NoBatch
  /\ pc' = [pc EXCEPT ![s] = "closed"]
  /\ UNCHANGED <<stream, sender, subs, position, history>>

-----------------------------------------------------------------------------
Sends == SendVisits \/ SendEnds \/ \E b \in sends : SendStarts(b)

Loop(s) == Recv(s) \/ Select(s) \/ Wake(s) \/ Events(s) \/ Close(s)

Next ==
  \/ \E n \in 1 .. MaxBatch : AppendBatch(n)
  \/ \E k \in 1 .. MaxBatch : AppendFails(k)
  \/ Sends
  \/ \E s \in Subs :
       \/ \E start \in Starts : Subscribe(s, start)
       \/ Loop(s)
       \/ Cancel(s)
       \/ CloseTimesOut(s)

Spec == Init /\ [][Next]_vars

(* Goroutines that can run do run; nobody need append, subscribe or cancel.*)
FairSpec == Spec /\ WF_vars(Sends) /\ \A s \in Subs : WF_vars(Loop(s))

-----------------------------------------------------------------------------
States == {"new", "loop", "select", "parked", "stuck", "ready", "closing", "closed"}
Listening(s) == pc[s] \in {"loop", "select", "parked", "stuck", "ready"}

(* Event p belongs to a batch that was appended without an error, or was   *)
(* stored before one.                                                      *)
Announced(p) == p <= sent \/ \E b \in sends : p <= b.at

TypeOK ==
  /\ last \in 0 .. MaxLast
  /\ sends \subseteq Batches
  /\ sending \in Batches \cup {NoBatch}
  /\ todo \in Seq(Subs) /\ subs \in Seq(Subs)
  /\ pc \in [Subs -> States]
  /\ idx \in [Subs -> Int64] /\ size \in [Subs -> Int64]
  /\ wait \in [Subs -> {"nil", "open"}]
  /\ from \in [Subs -> Int64]
  /\ got \in [Subs -> Seq(1 .. MaxLast)]
  /\ sent \in 0 .. MaxLast
  /\ outOfTurn \in [Subs -> BOOLEAN]

(* Whoever leaves, takes nobody with it: a subscriber that listens is      *)
(* registered, once, and a Send will visit it (Subscribe, delete, Send).   *)
Registered ==
  \A s \in Subs : Listening(s) => Cardinality({i \in 1 .. Len(subs) : subs[i] = s}) = 1

(* Until a Send comes out of turn, a subscriber is given an unbroken run   *)
(* of the stream, each event once and in order, from the first one when it *)
(* asked for the whole stream: the mark, the size and the batches of Recv, *)
(* Events and Send agree (Recv, Events, Send).                             *)
Unbroken(s) == \A i \in 2 .. Len(got[s]) : got[s][i] = got[s][i - 1] + 1
BeginsRight(s) == from[s] = 0 /\ got[s] # <<>> => got[s][1] = 1
UnbrokenInTurn == \A s \in Subs : ~outOfTurn[s] => Unbroken(s) /\ BeginsRight(s)

(* ... and while no Send is under way it only sleeps when it has been      *)
(* given the stream up to the last event that any Send has carried, so on  *)
(* a stream with no Send to come, up to the last batch appended without an *)
(* error.  What a failing Append stored behind it is not promised: no Send *)
(* tells of it before the next Append does (Append, Recv, Events, Send).   *)
CaughtUp(s) == LastGot(s) >= sent
SleepsCaughtUp ==
  \A s \in Subs :
    sending = NoBatch /\ pc[s] = "parked" /\ wait[s] = "open" /\ ~outOfTurn[s] => CaughtUp(s)

(* Whoever listens is given every event announced, itself and not only a   *)
(* later one, unless it stops listening, a Send comes out of turn, or its  *)
(* select reads the channel too late.  One that asked for the last event   *)
(* (-1) is owed what comes behind the first event it is given.  That is    *)
(* the last of the stream when Events first finds one: on a stream that    *)
(* was empty, not the first of the batch that woke it (Append, Send, Recv, *)
(* Events).                                                                *)
Given(s, p) == \E i \in 1 .. Len(got[s]) : got[s][i] = p
NotAskedFor(s, p) == from[s] = -1 /\ got[s] # <<>> /\ p < got[s][1]
Delivered ==
  \A s \in Subs : \A p \in 1 .. MaxLast :
    (Listening(s) /\ Announced(p)) ~>
      (Given(s, p) \/ NotAskedFor(s, p) \/ ~Listening(s) \/ outOfTurn[s] \/ pc[s] = "stuck")

-----------------------------------------------------------------------------
(* What the comments of the package say without these provisos.            *)

(* "Events returns a batch of events since last call." *)
AlwaysUnbroken == \A s \in Subs : Unbroken(s)

(* "Send will notify all Recv-ing subscribers that new events are ready":  *)
(* one that is in Recv when a Send visits it, returns from Recv.           *)
Notified ==
  \A s \in Subs :
    (pc[s] \in {"select", "parked", "stuck"} /\ wait[s] = "nil")
      ~> pc[s] \notin {"select", "parked", "stuck"}
=============================================================================
