---------------------------- MODULE PagedReader ------------------------------
(***************************************************************************)
(* A reader that pages through a stream: it asks for the page behind its   *)
(* cursor, moves the cursor to the last position of the page and asks      *)
(* again, while others append.  Every window first .. last, every starting *)
(* cursor and every page size of the scaled words is an initial state, so  *)
(* the invariants also compare single pages with a reference definition.   *)
(***************************************************************************)
EXTENDS Paging

CONSTANT MaxLast     \* bound on the last position of a stream

ASSUME MaxLastAssumption == MaxLast \in Nat /\ MaxLast <= AllEvents

VARIABLES first, last, after, count, read

vars == <<first, last, after, count, read>>

Page == GenerateStreamIDs(first, last, after, count)

Init ==
  /\ last \in 0 .. MaxLast
  /\ first \in IF last = 0 THEN {0} ELSE 1 .. last
  /\ after \in Int64
  /\ count \in Int64
  /\ read = <<>>

NextPage ==
  /\ after \in 0 .. last
  /\ count > 0
  /\ Page # <<>>
  /\ read' = read \o Page
  /\ after' = Page[Len(Page)]
  /\ UNCHANGED <<first, last, count>>

(* Events are appended between two pages. *)
Grow ==
  /\ last < MaxLast
  /\ last' = last + 1
  /\ first' = IF first = 0 THEN 1 ELSE first
  /\ UNCHANGED <<after, count, read>>

Next == NextPage \/ Grow

Spec == Init /\ [][Next]_vars

-----------------------------------------------------------------------------
TypeOK ==
  /\ first \in Uint64 /\ last \in Uint64
  /\ after \in Int64 /\ count \in Int64
  /\ read \in Seq(Uint64)

(* A page read forwards holds, in order, the positions that follow the     *)
(* cursor, as many as were asked for and exist; a cursor before the window *)
(* (a truncated stream) starts at its first position.  A cursor behind the *)
(* stream does not give an empty page but one position, which the stream   *)
(* does not have (GenerateStreamIDs).                                      *)
ForwardPage ==
  first > 0 /\ after >= 0 /\ count > 0 =>
    LET from == Larger(first - 1, after)
    IN  Page = IF after <= last THEN [i \in 1 .. Smaller(count, last - from) |-> from + i]
               ELSE <<after + 1>>

(* A page read backwards begins at the position behind the cursor, which   *)
(* the stream does not have when the cursor is its last one, and goes down *)
(* as far as was asked for or there are positions.  From a cursor before   *)
(* the window it is empty (GenerateStreamIDs).                             *)
BackwardPage ==
  first > 0 /\ after >= 0 /\ count < 0 =>
    Page = IF after <= last
           THEN [i \in 1 .. Smaller(-count, Larger(after + 1 - first, 0)) |-> after + 2 - i]
           ELSE <<after + 1>>

(* A page counted from the end (after < 0) starts at the position that far *)
(* from the end and goes up or down as the sign of count says, as far as   *)
(* was asked for and the window reaches.  Counted back out of the window,  *)
(* it starts at a position that is not retained: one step out, a page read *)
(* forwards goes on into the window; further out, it is that position      *)
(* alone, in either direction; beyond position 0, it is empty.  Where the  *)
(* page holds a position the stream does not have, the disk store reports  *)
(* "not found" and the memory store panics (GenerateStreamIDs).            *)
PageFromTheEnd ==
  LET from == last + after + 1
      up   == [i \in 1 .. Smaller(count, last - from + 1) |-> from + i - 1]
      down == [i \in 1 .. Smaller(-count, from - first + 1) |-> from - i + 1]
  IN  first > 0 /\ after < 0 =>
        Page = IF count = 0 \/ from < 0 THEN <<>>
               ELSE IF from < first - 1 THEN <<from>>
               ELSE IF count > 0 THEN up ELSE down

(* Paging through a stream misses nothing and repeats nothing: what was    *)
(* read so far is an unbroken run of positions that ends at the cursor,    *)
(* and the reader only meets an empty page at the end of the stream        *)
(* (GenerateStreamIDs, as gql.Events and Subscription.Events use it).      *)
PagesJoinUp ==
  /\ \A i \in 1 .. Len(read) : read[i] = read[1] + i - 1
  /\ read # <<>> => after = read[Len(read)]
  /\ (read # <<>> /\ Page = <<>>) => after = last
=============================================================================
