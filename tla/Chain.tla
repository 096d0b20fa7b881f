------------------------------- MODULE Chain --------------------------------
(***************************************************************************)
(* The drivers a store is made of.  Each Option wraps what is there in a   *)
(* layer of its own, so that the store is a sequence of layers from the    *)
(* outermost to the driver that keeps the events, which is left out.  Two  *)
(* projecters would each project the links of the other: the second adds   *)
(* its functions to the first, wherever in the sequence that is.           *)
(***************************************************************************)
EXTENDS Naturals, Sequences, SequencesExt

CONSTANT Projecters   \* the projecters; the other options are named by kind

Layer(o) ==
  IF o \in Projecters THEN [kind |-> "projecter", fns |-> <<o>>]
                      ELSE [kind |-> o, fns |-> <<>>]

LayersOf(chain, kind) == {i \in DOMAIN chain : chain[i].kind = kind}

(* A projecter that does not look for another. *)
Wrap(chain, o) == <<Layer(o)>> \o chain

(* Both become one projecter, outermost. *)
Rewrap(chain, o) ==
  LET fns == FlattenSeq([i \in DOMAIN chain |-> chain[i].fns])
  IN  IF o \in Projecters
      THEN <<[kind |-> "projecter", fns |-> Append(fns, o)]>>
           \o SelectSeq(chain, LAMBDA layer : layer.kind # "projecter")
      ELSE Wrap(chain, o)

(* Option.Apply *)
Apply(chain, o) ==
  LET others == LayersOf(chain, "projecter")
  IN  IF o \in Projecters /\ others # {}
      THEN LET i == CHOOSE j \in others : \A k \in others : j <= k
           IN  [chain EXCEPT ![i].fns = Append(@, o)]
      ELSE Wrap(chain, o)

(* EventStream: Unwrap until a layer is a streamer. *)
EventStream(chain) ==
  LET found == LayersOf(chain, "streamer")
  IN  IF found = {} THEN 0 ELSE CHOOSE i \in found : \A j \in found : i <= j

(* An append that enters at a layer passes it and all below it. *)
Passed(chain, from, kind) == {i \in LayersOf(chain, kind) : from <= i}
=============================================================================
