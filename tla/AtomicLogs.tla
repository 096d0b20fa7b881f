----------------------------- MODULE AtomicLogs -----------------------------
(***************************************************************************)
(* What a store of streams promises: each stream is one log, and an append *)
(* adds its events to the end of it, in order and in one step.  An append  *)
(* that fails may leave the first of its events there, and nothing else    *)
(* ever changes a log.  A client sees a log as of the moment it reads it.  *)
(* A broken stream is one about which nothing is promised any more.        *)
(***************************************************************************)
EXTENDS Naturals, Sequences

CONSTANTS Streams, Clients

VARIABLES
  logs,    \* the events of each stream
  view,    \* what each client last read of each stream, or appended to it
  broken   \* the streams that are broken

vars == <<logs, view, broken>>

Init ==
  /\ logs \in [Streams -> Seq(Nat)]
  /\ view = [c \in Clients |-> [s \in Streams |-> <<>>]]
  /\ broken = {}

Extends(t, s) == Len(s) <= Len(t) /\ \A i \in 1 .. Len(s) : t[i] = s[i]

(* The first events of a batch, or all of it, are added. *)
Add(c, s) ==
  /\ Extends(logs'[s], logs[s])
  /\ \A t \in Streams \ {s} : logs'[t] = logs[t]
  /\ UNCHANGED <<view, broken>>

(* A save adds all of it, and only to the log its client has seen. *)
Save(c, s) ==
  /\ view[c][s] = logs[s]
  /\ Extends(logs'[s], logs[s])
  /\ \A t \in Streams \ {s} : logs'[t] = logs[t]
  /\ view' = [view EXCEPT ![c][s] = logs'[s]]
  /\ UNCHANGED broken

Read(c, s) ==
  /\ view' = [view EXCEPT ![c][s] = logs[s]]
  /\ UNCHANGED <<logs, broken>>

(* Clients forget what they have seen. *)
Forget ==
  /\ \A c \in Clients, s \in Streams : view'[c][s] \in {view[c][s], <<>>}
  /\ UNCHANGED <<logs, broken>>

(* Anything may happen to a broken stream, and to nothing else. *)
Break ==
  /\ broken \subseteq broken'
  /\ \A s \in Streams \ broken' :
       logs'[s] = logs[s] /\ \A c \in Clients : view'[c][s] = view[c][s]

Next ==
  \/ \E c \in Clients, s \in Streams : Add(c, s) \/ Save(c, s) \/ Read(c, s)
  \/ Forget
  \/ Break

Spec == Init /\ [][Next]_vars
=============================================================================
