------------------------------- MODULE Links --------------------------------
(***************************************************************************)
(* Projecter and resolve-links (driver/projecter, driver/resolve-links) in *)
(* a chain of drivers on the disk store.  When an append has succeeded, a  *)
(* goroutine of its own appends, for each event and each stream its        *)
(* projections name, a link to the event: the stream it is in and its      *)
(* position.  Reading a stream of links through resolve-links gives the    *)
(* events they point to, which are read stream by stream in any order.     *)
(*                                                                         *)
(* An event is its stream and position, and all events have one type and   *)
(* package.  Streams are truncated at the front only: after a truncation   *)
(* at the back a position means another event.  A reader reads one page of *)
(* a stream of links at a time.                                            *)
(***************************************************************************)
EXTENDS Chain, FiniteSets

CONSTANTS
  Sources,      \* the streams the application appends to
  Targets,      \* the streams a projecter gives each event a link in
  Options,      \* what the store is opened with, each once at most
  ReadFrom,     \* the streams of links that are read
  PageSize,     \* how many links a reader asks for
  MaxAppends,   \* bound: how many appends there are
  MaxBatch,     \* bound: how many events one of them has
  MaxEvents,    \* bound: and all of them together
  MaxSends,     \* bound: how many Sends of links wait to run
  MaxFails      \* bound: how many times something fails

ASSUME BoundsAssumption == {PageSize, MaxAppends, MaxBatch, MaxEvents, MaxSends, MaxFails} \subseteq Nat
ASSUME OptionsAssumption ==
  /\ Options \subseteq Projecters \cup {"streamer"}
  /\ Projecters \cap {"resolver", "streamer", "projecter"} = {}

ASSUME TargetsAssumption == \A p \in Projecters : Targets[p] \in Seq(Range(Targets[p]))

VARIABLES
  chain,     \* the layers of the store
  applied,   \* history: the options, in the order they were applied
  opened,    \* whether Open has returned
  first,     \* the position of the first event of a source
  last,      \* and of its last
  jobs,      \* the goroutines of the projecter: the links still to append
  linked,    \* the streams of links
  sends,     \* the links whose Send goroutine has not run yet
  sent,      \* history: the links the streamer was told of
  unsent,    \* history: the links it will not be told of
  reader,    \* a call of Read on a stream of links
  starts,    \* history: the positions at which an append began
  lost,      \* history: the links that failures and crashes have cost
  fails      \* how many times something has failed

store == <<first, last>>
news == <<sends, sent, unsent>>
vars == <<chain, applied, opened, store, jobs, linked, news, reader, starts, lost, fails>>

LinkStreams == UNION {Range(Targets[p]) : p \in Projecters}

ASSUME ReadFromAssumption == ReadFrom \subseteq LinkStreams

(* What a projecter makes of each event: its first link, its second, ...   *)
Outputs(p) == [k \in DOMAIN Targets[p] |-> <<p, k>>]

(* Two projecters may link an event in the same stream: the history "by"   *)
(* tells such links apart.                                                 *)
Link(o, s, i) == [by |-> o, to |-> Targets[o[1]][o[2]], stream |-> s, pos |-> i]

(* The links of the events i to j of a stream, event by event and function *)
(* by function, as the goroutine collects them.                            *)
LinksOf(fns, s, i, j) ==
  LET outputs == FlattenSeq([k \in DOMAIN fns |-> Outputs(fns[k])])
  IN  FlattenSeq([e \in 1 .. j - i + 1 |->
        [k \in DOMAIN outputs |-> Link(outputs[k], s, i + e - 1)]])

(* What an append that enters at a layer starts: for each projecter on its *)
(* way, a goroutine that appends to the layers below.                      *)
Forks(from, s, i, j) ==
  {[below |-> p + 1, links |-> LinksOf(chain[p].fns, s, i, j)] :
     p \in Passed(chain, from, "projecter")}

(* A goroutine that has appended all its links ends. *)
Running(all) == {job \in all : job.links # <<>>}

Idle == [pc |-> "idle", page |-> <<>>, slots |-> <<>>, todo |-> {}]

Init ==
  /\ chain = <<Layer("resolver")>>   \* the first option
  /\ applied = <<>> /\ opened = FALSE
  /\ first = [s \in Sources |-> 1]
  /\ last = [s \in Sources |-> 0]
  /\ jobs = {}
  /\ linked = [t \in LinkStreams |-> <<>>]
  /\ sends = {} /\ sent = {} /\ unsent = {}
  /\ reader = Idle
  /\ starts = [s \in Sources |-> {}]
  /\ lost = {}
  /\ fails = 0

(* Open applies its options in turn. *)
Option(o) ==
  /\ ~opened
  /\ ~Contains(applied, o)
  /\ chain' = Apply(chain, o)
  /\ applied' = Append(applied, o)
  /\ UNCHANGED <<opened, store, jobs, linked, news, reader, starts, lost, fails>>

Open ==
  /\ ~opened
  /\ opened' = TRUE
  /\ UNCHANGED <<chain, applied, store, jobs, linked, news, reader, starts, lost, fails>>

-----------------------------------------------------------------------------
Appends == UNION {{<<s, i>> : i \in starts[s]} : s \in Sources}
Stored == UNION {{<<s, i>> : i \in 1 .. last[s]} : s \in Sources}

MayAppend(n) ==
  /\ Cardinality(Appends) < MaxAppends
  /\ n <= MaxBatch /\ Cardinality(Stored) + n <= MaxEvents

(* EventStore.Append, through all layers. *)
AppendEvents(s, n) ==
  LET i == last[s] + 1
      j == last[s] + n
  IN  /\ opened /\ MayAppend(n)
      /\ last' = [last EXCEPT ![s] = j]
      /\ starts' = [starts EXCEPT ![s] = @ \cup {i}]
      /\ jobs' = Running(jobs \cup Forks(1, s, i, j))
      /\ UNCHANGED <<chain, applied, opened, first, linked, news, reader, lost, fails>>

Unlinked(s, i, j) ==
  UNION {Range(job.links) : job \in Forks(1, s, i, j)}

(* The append fails, the first of its events possibly stored: they are     *)
(* never linked.                                                           *)
AppendFails(s, n) ==
  LET i == last[s] + 1
      j == last[s] + n
  IN  /\ opened
      /\ fails < MaxFails /\ MayAppend(n)
      /\ last' = [last EXCEPT ![s] = j]
      /\ starts' = [starts EXCEPT ![s] = @ \cup {i}]
      /\ lost' = lost \cup Unlinked(s, i, j)
      /\ fails' = fails + 1
      /\ UNCHANGED <<chain, applied, opened, first, jobs, linked, news, reader>>

(* Those of the links that an append below a goroutine's projecter takes   *)
(* through the streamer.                                                   *)
ToSend(job, links) == IF Passed(chain, job.below, "streamer") = {} THEN {} ELSE links

(* The links are appended from the end. *)
AppendLastLink(job) ==
  LET l == Last(job.links)
  IN  /\ job.links # <<>>
      /\ linked' = [linked EXCEPT ![l.to] = Append(@, l)]
      /\ sends' = sends \cup ToSend(job, {l}) /\ Cardinality(sends') <= MaxSends
      /\ jobs' = Running((jobs \ {job}) \cup {[job EXCEPT !.links = Front(@)]})
      /\ UNCHANGED <<chain, applied, opened, store, sent, unsent, reader, starts, lost, fails>>

Rest(job) == [job EXCEPT !.links = Tail(@)]
Without(job) == jobs \ {job}

(* The goroutine appends its next link to the layers below the projecter.  *)
(* What passes the streamer gets a goroutine that sends it.                *)
AppendLink(job) ==
  LET l == Head(job.links)
      at == Len(linked[l.to]) + 1
  IN  /\ job.links # <<>>
      /\ linked' = [linked EXCEPT ![l.to] = Append(@, l)]
      /\ sends' = sends \cup ToSend(job, {l}) /\ Cardinality(sends') <= MaxSends
      /\ jobs' = Running(Without(job) \cup {Rest(job)} \cup Forks(job.below, l.to, at, at))
      /\ UNCHANGED <<chain, applied, opened, store, sent, unsent, reader, starts, lost, fails>>

(* The goroutine of the streamer tells of a link. *)
SendLink(l) ==
  /\ l \in sends
  /\ sends' = sends \ {l}
  /\ sent' = sent \cup {l}
  /\ UNCHANGED <<chain, applied, opened, store, jobs, linked, unsent, reader, starts, lost, fails>>

(* The goroutine ends at the first link that fails. *)
LinkFailsStops(job) ==
  /\ job.links # <<>>
  /\ fails < MaxFails
  /\ jobs' = Without(job)
  /\ lost' = lost \cup {Head(job.links)}
  /\ fails' = fails + 1
  /\ UNCHANGED <<chain, applied, opened, store, linked, news, reader, starts>>

(* The log of the link cannot be had or appended to, and the link is not   *)
(* stored: the goroutine goes on with the next.                            *)
LinkFails(job) ==
  /\ job.links # <<>>
  /\ fails < MaxFails
  /\ jobs' = Running(Without(job) \cup {Rest(job)})
  /\ lost' = lost \cup {Head(job.links)}
  /\ fails' = fails + 1
  /\ UNCHANGED <<chain, applied, opened, store, linked, news, reader, starts>>

(* The append of the link fails with the link stored (at its final sync):  *)
(* no layer above the store goes on with it, nobody is told.               *)
StoredLinkFails(job) ==
  LET l == Head(job.links)
  IN  /\ job.links # <<>>
      /\ fails < MaxFails
      /\ linked' = [linked EXCEPT ![l.to] = Append(@, l)]
      /\ unsent' = unsent \cup ToSend(job, {l})
      /\ jobs' = Running(Without(job) \cup {Rest(job)})
      /\ fails' = fails + 1
      /\ UNCHANGED <<chain, applied, opened, store, sends, sent, reader, starts, lost>>

(* The process ends and is started again: nobody knows of the links that   *)
(* were not appended yet, or not sent.                                     *)
Crash ==
  /\ opened
  /\ fails < MaxFails
  /\ jobs' = {}
  /\ lost' = lost \cup UNION {Range(job.links) : job \in jobs}
  /\ sends' = {}
  /\ unsent' = unsent \cup sends
  /\ reader' = Idle
  /\ fails' = fails + 1
  /\ UNCHANGED <<chain, applied, opened, store, linked, sent, starts>>

TruncateFront(s) ==
  /\ opened
  /\ first[s] < last[s]
  /\ first' = [first EXCEPT ![s] = @ + 1]
  /\ UNCHANGED <<chain, applied, opened, last, jobs, linked, news, reader, starts, lost, fails>>

-----------------------------------------------------------------------------
(* A slot of a page: a link or an event, where it is stored (Position) and *)
(* where it was read (ActualPosition).                                     *)
LinkSlot(l, i) == [is |-> "link", stream |-> l.stream, pos |-> l.pos, position |-> i, actual |-> i]
EventSlot(s, i, a) == [is |-> "event", stream |-> s, pos |-> i, position |-> i, actual |-> a]

(* wrapper.Read, ReadN: the links are read, and grouped by stream.  A page *)
(* begins anywhere and is short only at the end.                           *)
ReadLinks(t, i, j) ==
  LET page == [k \in 1 .. j - i + 1 |-> LinkSlot(linked[t][i + k - 1], i + k - 1)]
  IN  /\ reader.pc = "idle"
      /\ i <= j /\ j <= Len(linked[t])
      /\ j = i + PageSize - 1 \/ (j = Len(linked[t]) /\ j - i < PageSize)
      /\ reader' = [pc |-> "resolving", page |-> page, slots |-> page,
                    todo |-> {page[k].stream : k \in DOMAIN page}]
      /\ UNCHANGED <<chain, applied, opened, store, jobs, linked, news, starts, lost, fails>>

(* ptrs[s]: the slots whose links point into a stream, first to last. *)
Ptrs(page, s) ==
  LET slots == {k \in DOMAIN page : page[k].stream = s}
  IN  CHOOSE ptr \in [1 .. Cardinality(slots) -> slots] :
        \A i, j \in DOMAIN ptr : i < j => ptr[i] < ptr[j]

Exists(s, i) == s \in Sources /\ first[s] <= i /\ i <= last[s]

(* The events are read at the positions of their links. *)
ResolveByPosition(s) ==
  LET page == reader.page
      ptr == Ptrs(page, s)
      found == \A k \in DOMAIN ptr : Exists(s, page[ptr[k]].position)
      slots == [k \in DOMAIN page |->
                  IF k \in DOMAIN ptr
                  THEN EventSlot(s, page[ptr[k]].position, reader.slots[ptr[k]].position)
                  ELSE reader.slots[k]]
  IN  /\ s \in reader.todo
      /\ reader' = [reader EXCEPT !.slots = IF found THEN slots ELSE @, !.todo = @ \ {s}]
      /\ UNCHANGED <<chain, applied, opened, store, jobs, linked, news, starts, lost, fails>>

(* The events do not tell where their links are. *)
ResolveWithoutActual(s) ==
  LET page == reader.page
      ptr == Ptrs(page, s)
      found == \A k \in DOMAIN ptr : Exists(s, page[ptr[k]].pos)
      slots == [k \in DOMAIN page |->
                  IF k \in DOMAIN ptr
                  THEN EventSlot(s, page[ptr[k]].pos, page[ptr[k]].pos)
                  ELSE reader.slots[k]]
  IN  /\ s \in reader.todo
      /\ reader' = [reader EXCEPT !.slots = IF found THEN slots ELSE @, !.todo = @ \ {s}]
      /\ UNCHANGED <<chain, applied, opened, store, jobs, linked, news, starts, lost, fails>>

(* ReadN of one stream's events fails as a whole when one of them is gone, *)
(* which is ignored.  The k-th event goes into the k-th slot of the page,  *)
(* and is told to come from where the slot of its link comes from by now.  *)
Resolve(s) ==
  LET page == reader.page
      ptr == Ptrs(page, s)
      found == \A k \in DOMAIN ptr : Exists(s, page[ptr[k]].pos)
      slots == [k \in DOMAIN page |->
                  IF k \in DOMAIN ptr
                  THEN EventSlot(s, page[ptr[k]].pos, reader.slots[ptr[k]].position)
                  ELSE reader.slots[k]]
  IN  /\ s \in reader.todo
      /\ reader' = [reader EXCEPT !.slots = IF found THEN slots ELSE @, !.todo = @ \ {s}]
      /\ UNCHANGED <<chain, applied, opened, store, jobs, linked, news, starts, lost, fails>>

(* A log cannot be had or read: Read returns the page as far as it came,   *)
(* with the error.                                                         *)
ResolveFails ==
  /\ reader.todo # {}
  /\ fails < MaxFails
  /\ reader' = Idle
  /\ fails' = fails + 1
  /\ UNCHANGED <<chain, applied, opened, store, jobs, linked, news, starts, lost>>

Resolved == reader.pc = "resolving" /\ reader.todo = {}

ReturnPage ==
  /\ Resolved
  /\ reader' = Idle
  /\ UNCHANGED <<chain, applied, opened, store, jobs, linked, news, starts, lost, fails>>

-----------------------------------------------------------------------------
Project ==
  \E job \in jobs : AppendLink(job) \/ LinkFails(job) \/ StoredLinkFails(job)

Next ==
  \/ \E o \in Options : Option(o)
  \/ Open
  \/ \E s \in Sources :
       \/ \E n \in 1 .. MaxBatch : AppendEvents(s, n) \/ AppendFails(s, n)
       \/ TruncateFront(s)
  \/ Project
  \/ \E l \in sends : SendLink(l)
  \/ Crash
  \/ \E t \in ReadFrom : \E j \in DOMAIN linked[t] : \E i \in 1 .. j : ReadLinks(t, i, j)
  \/ \E s \in reader.todo : Resolve(s)
  \/ ResolveFails
  \/ ReturnPage

Spec == Init /\ [][Next]_vars

-----------------------------------------------------------------------------
Count(l, links) == Cardinality({k \in DOMAIN links : links[k] = l})

(* Every function the store was opened with is applied to every event      *)
(* once: there is one link, or it is still to come, or its own append (or  *)
(* that of its event) failed or never happened (projecter.go:84, :110).    *)
EveryLinkOnce ==
  opened => \A e \in Stored, p \in Range(applied) \cap Projecters :
    \A o \in Range(Outputs(p)) :
      LET l == Link(o, e[1], e[2])
          waiting == {job \in jobs : l \in Range(job.links)}
      IN  Count(l, linked[l.to]) + Cardinality(waiting) + (IF l \in lost THEN 1 ELSE 0) = 1

(* A link points to an event that was stored, never to another link.       *)
PointsToEvents ==
  \A t \in LinkStreams : \A k \in DOMAIN linked[t] :
    LET l == linked[t][k] IN <<l.stream, l.pos>> \in Stored

(* The links of one append come in the order of its events, whatever the   *)
(* goroutines of others do in between (projecter.go:108).  Those of two    *)
(* appends need not.                                                       *)
InOrderOfAppend ==
  \A t \in LinkStreams : \A k, m \in DOMAIN linked[t] :
    LET l == linked[t][k]
        n == linked[t][m]
    IN  k < m /\ l.stream = n.stream /\ starts[l.stream] \cap n.pos + 1 .. l.pos = {}
          => l.pos <= n.pos

(* Subscribers of EventStream hear of the links exactly when the streamer  *)
(* was applied before the first projecter: where later projecters were     *)
(* applied does not matter, since they are added to the first (:27).  Each *)
(* link that is stored was sent or is about to be, once, unless the append *)
(* that stored it failed or the process ended first.                       *)
Before(o, p) == \E k, m \in DOMAIN applied : k < m /\ applied[k] = o /\ applied[m] = p
SubscribersHear ==
  EventStream(chain) # 0 /\ \A p \in Range(applied) \cap Projecters : Before("streamer", p)

LinksAreSent ==
  LET stored == UNION {Range(linked[t]) : t \in LinkStreams}
  IN  /\ sent \cup sends \cup unsent = IF SubscribersHear THEN stored ELSE {}
      /\ sent \cap sends = {} /\ (sent \cup sends) \cap unsent = {}
      /\ fails = 0 => unsent = {}

(* Whatever slots the events of a page end up in, each is one that a link  *)
(* of the page points to.                                                  *)
NothingInvented ==
  \A k \in DOMAIN reader.slots :
    \E m \in DOMAIN reader.page :
      /\ reader.slots[k].stream = reader.page[m].stream
      /\ reader.slots[k].pos = reader.page[m].pos

(* A page whose links point into one stream is resolved in place, and tells *)
(* where its links are; or not at all, when one of the events is gone.     *)
(* With links into two streams the events of both go to the first slots    *)
(* (resolve-links.go:129).                                                 *)
OneStreamInPlace ==
  Resolved /\ Cardinality({slot.stream : slot \in Range(reader.page)}) = 1 =>
    \/ /\ reader.slots = reader.page
       /\ \E slot \in Range(reader.page) : ~Exists(slot.stream, slot.pos)
    \/ \A k \in DOMAIN reader.page :
         LET slot == reader.slots[k]
             link == reader.page[k]
         IN  /\ slot.is = "event"
             /\ slot.stream = link.stream /\ slot.pos = link.pos
             /\ slot.actual = link.actual
=============================================================================
