---------------------------- MODULE LinksProofs -----------------------------
(***************************************************************************)
(* Every link once, in order and sent to whom it should be, and links      *)
(* resolved to what they point to: for any projections, options and        *)
(* streams, and however many appends, failures and crashes there are.      *)
(***************************************************************************)
EXTENDS Links, SequenceTheorems, FiniteSetTheorems, WellFoundedInduction, TLAPS

-----------------------------------------------------------------------------
(* Induction over the numbers 1 .. n.  What a set holds of 1, and of i + 1 *)
(* when of i, it holds of all: there is no least number outside of it.     *)
LEMMA LeastOf ==
  ASSUME NEW S \in SUBSET Nat, S # {}
  PROVE  \E m \in S : \A j \in S : m <= j
<1> DEFINE less == {pair \in Nat \X Nat : pair[1] < pair[2]}
<1>1. IsWellFoundedOn(less, Nat)
  BY NatLessThanWellFounded DEF OpToRel
<1>2. PICK m \in S : \A j \in S : <<j, m>> \notin less
  <2> HIDE DEF less
  <2> QED BY <1>1, WFMin
<1>3. ASSUME NEW j \in S PROVE m <= j
  <2>1. j \in Nat /\ m \in Nat
    OBVIOUS
  <2>2. <<j, m>> \notin less
    BY <1>2
  <2>3. ~(j < m)
    BY <2>1, <2>2
  <2> QED BY <2>1, <2>3
<1> QED BY <1>3

LEMMA UpTo ==
  ASSUME NEW n \in Nat, NEW S, n > 0 => 1 \in S,
         \A i \in 1 .. n : i \in S /\ i < n => i + 1 \in S
  PROVE  1 .. n \subseteq S
<1> DEFINE T == {i \in 1 .. n : i \notin S}
<1>1. CASE T = {}
  BY <1>1
<1>2. CASE T # {}
  <2>1. T \in SUBSET Nat
    OBVIOUS
  <2>2. PICK m \in T : \A j \in T : m <= j
    <3> HIDE DEF T
    <3> QED BY <1>2, <2>1, LeastOf
  <2>3. m \in 1 .. n /\ m \notin S /\ m # 1
    OBVIOUS
  <2>4. m - 1 \in 1 .. n /\ m - 1 < n /\ m - 1 + 1 = m /\ ~(m <= m - 1)
    BY <2>3
  <2>5. m - 1 \in S
    BY <2>2, <2>4
  <2> QED BY <2>3, <2>4, <2>5
<1> QED BY <1>1, <1>2

-----------------------------------------------------------------------------
(* What FlattenSeq returns.  F is the first n sequences of ss, one after   *)
(* the other.                                                              *)
InTurn(ss, n, v, w) ==
  \E a \in 1 .. n : \E b \in 1 .. n :
    \E x \in 1 .. Len(ss[a]) : \E y \in 1 .. Len(ss[b]) :
      v = ss[a][x] /\ w = ss[b][y] /\ (a < b \/ (a = b /\ x < y))

Flat(F, ss, n, S) ==
  /\ F \in Seq(S)
  /\ \A a \in 1 .. n : \A x \in 1 .. Len(ss[a]) : \E k \in 1 .. Len(F) : F[k] = ss[a][x]
  /\ \A k \in 1 .. Len(F) : \E a \in 1 .. n : \E x \in 1 .. Len(ss[a]) : F[k] = ss[a][x]
  /\ \A k, m \in 1 .. Len(F) : k < m => InTurn(ss, n, F[k], F[m])

LEMMA InTurnMore ==
  ASSUME NEW ss, NEW n \in Nat, NEW v, NEW w, InTurn(ss, n, v, w)
  PROVE  InTurn(ss, n + 1, v, w)
<1>1. 1 .. n \subseteq 1 .. n + 1
  OBVIOUS
<1> QED BY <1>1 DEF InTurn

LEMMA FlatOne ==
  ASSUME NEW S, NEW ss, ss[1] \in Seq(S)
  PROVE  Flat(ss[1], ss, 1, S)
<1>1. 1 .. 1 = {1} /\ Len(ss[1]) \in Nat
  BY LenProperties
<1> QED BY <1>1 DEF Flat, InTurn

LEMMA FlatNext ==
  ASSUME NEW S, NEW ss, NEW n \in Nat \ {0}, ss[n + 1] \in Seq(S), NEW F, Flat(F, ss, n, S)
  PROVE  Flat(F \o ss[n + 1], ss, n + 1, S)
<1> DEFINE G == F \o ss[n + 1]
           s == ss[n + 1]
<1>1. /\ F \in Seq(S) /\ s \in Seq(S) /\ Len(F) \in Nat /\ Len(s) \in Nat
      /\ G \in Seq(S) /\ Len(G) = Len(F) + Len(s)
      /\ \A i \in 1 .. Len(F) + Len(s) :
           G[i] = IF i <= Len(F) THEN F[i] ELSE s[i - Len(F)]
  BY ConcatProperties, LenProperties DEF Flat
<1> HIDE DEF G, s
<1>2. ASSUME NEW k \in 1 .. Len(F) PROVE k \in 1 .. Len(G) /\ G[k] = F[k]
  BY <1>1
<1>3. ASSUME NEW x \in 1 .. Len(s) PROVE Len(F) + x \in 1 .. Len(G) /\ G[Len(F) + x] = s[x]
  <2>1. PICK k \in 1 .. Len(G) : k = Len(F) + x
    BY <1>1
  <2>2. ~(k <= Len(F)) /\ k - Len(F) = x /\ k \in 1 .. Len(F) + Len(s)
    BY <1>1, <2>1
  <2> QED BY <1>1, <2>1, <2>2
<1>4. ASSUME NEW k \in 1 .. Len(G)
      PROVE  \/ k \in 1 .. Len(F) /\ G[k] = F[k]
             \/ k - Len(F) \in 1 .. Len(s) /\ ~(k <= Len(F)) /\ G[k] = s[k - Len(F)]
  BY <1>1
<1>5. n + 1 \in 1 .. n + 1 /\ 1 .. n \subseteq 1 .. n + 1 /\ \A a \in 1 .. n : a < n + 1
  OBVIOUS
<1>6. \A a \in 1 .. n + 1 : a \in 1 .. n \/ a = n + 1
  OBVIOUS
<1>7. ASSUME NEW a \in 1 .. n + 1, NEW x \in 1 .. Len(ss[a])
      PROVE  \E k \in 1 .. Len(G) : G[k] = ss[a][x]
  <2>1. CASE a \in 1 .. n
    BY <1>2, <2>1 DEF Flat
  <2>2. CASE a = n + 1
    BY <1>3, <2>2 DEF s
  <2> QED BY <1>6, <2>1, <2>2
<1>8. ASSUME NEW k \in 1 .. Len(G)
      PROVE  \E a \in 1 .. n + 1 : \E x \in 1 .. Len(ss[a]) : G[k] = ss[a][x]
  <2>1. CASE k \in 1 .. Len(F) /\ G[k] = F[k]
    <3>1. PICK a \in 1 .. n : \E x \in 1 .. Len(ss[a]) : F[k] = ss[a][x]
      BY <2>1 DEF Flat
    <3> QED BY <1>5, <2>1, <3>1
  <2>2. CASE k - Len(F) \in 1 .. Len(s) /\ G[k] = s[k - Len(F)]
    BY <1>5, <2>2 DEF s
  <2> QED BY <1>4, <2>1, <2>2
<1>9. ASSUME NEW k \in 1 .. Len(G), NEW m \in 1 .. Len(G), k < m
      PROVE  InTurn(ss, n + 1, G[k], G[m])
  <2>1. CASE m \in 1 .. Len(F) /\ G[m] = F[m]
    <3>1. k \in 1 .. Len(F) /\ G[k] = F[k]
      BY <1>1, <1>2, <1>9, <2>1
    <3>2. InTurn(ss, n, F[k], F[m])
      BY <1>9, <2>1, <3>1 DEF Flat
    <3> QED BY <2>1, <3>1, <3>2, InTurnMore
  <2>2. CASE m - Len(F) \in 1 .. Len(s) /\ ~(m <= Len(F)) /\ G[m] = s[m - Len(F)]
    <3>1. CASE k \in 1 .. Len(F) /\ G[k] = F[k]
      <4>1. PICK a \in 1 .. n : \E x \in 1 .. Len(ss[a]) : G[k] = ss[a][x]
        BY <3>1 DEF Flat
      <4>2. PICK y \in 1 .. Len(ss[n + 1]) : G[m] = ss[n + 1][y]
        BY <2>2 DEF s
      <4>3. a \in 1 .. n + 1 /\ a < n + 1 /\ n + 1 \in 1 .. n + 1
        BY <1>5
      <4>4. PICK b \in 1 .. n + 1 : b = n + 1
        BY <4>3
      <4> QED BY <4>1, <4>2, <4>3, <4>4 DEF InTurn
    <3>2. CASE k - Len(F) \in 1 .. Len(s) /\ G[k] = s[k - Len(F)]
      <4>1. k - Len(F) < m - Len(F)
        BY <1>1, <1>9
      <4>2. PICK x \in 1 .. Len(ss[n + 1]), y \in 1 .. Len(ss[n + 1]) :
              x < y /\ G[k] = ss[n + 1][x] /\ G[m] = ss[n + 1][y]
        BY <2>2, <3>2, <4>1 DEF s
      <4>3. PICK b \in 1 .. n + 1 : b = n + 1
        BY <1>5
      <4> QED BY <4>2, <4>3 DEF InTurn
    <3> QED BY <1>4, <3>1, <3>2
  <2> QED BY <1>4, <2>1, <2>2
<1> QED BY <1>1, <1>7, <1>8, <1>9 DEF Flat, G, s

(* The equation FlattenSeq's recursive function is to solve has a solution, *)
(* and its last value is the flat sequence.                                 *)
Solves(f, ss, n) == f = [i \in 1 .. n |-> IF i = 1 THEN ss[i] ELSE f[i - 1] \o ss[i]]

LEMMA Solvable ==
  ASSUME NEW ss, NEW n \in Nat \ {0}
  PROVE  \E f : Solves(f, ss, n)
<1> DEFINE S == {m \in 1 .. n : \E f : Solves(f, ss, m)}
<1>1. 1 \in S
  <2> DEFINE f == [i \in 1 .. 1 |-> ss[1]]
  <2>1. f = [i \in 1 .. 1 |-> IF i = 1 THEN ss[i] ELSE f[i - 1] \o ss[i]]
    OBVIOUS
  <2>2. Solves(f, ss, 1)
    BY <2>1 DEF Solves
  <2> QED BY <2>2
<1>2. ASSUME NEW m \in 1 .. n, m \in S, m < n PROVE m + 1 \in S
  <2>1. PICK f : Solves(f, ss, m)
    BY <1>2
  <2> DEFINE g == [i \in 1 .. m + 1 |-> IF i = m + 1 THEN f[m] \o ss[m + 1] ELSE f[i]]
             h == [i \in 1 .. m + 1 |-> IF i = 1 THEN ss[i] ELSE g[i - 1] \o ss[i]]
  <2>2. ASSUME NEW i \in 1 .. m + 1 PROVE g[i] = h[i]
    <3>1. CASE i = m + 1
      <4>1. m \in 1 .. m + 1 /\ m # m + 1 /\ i # 1 /\ i - 1 = m
        BY <3>1
      <4> QED BY <3>1, <4>1
    <3>2. CASE i # m + 1
      <4>1. i \in 1 .. m
        BY <3>2
      <4>2. f[i] = IF i = 1 THEN ss[i] ELSE f[i - 1] \o ss[i]
        BY <2>1, <4>1 DEF Solves
      <4>3. i # 1 => i - 1 \in 1 .. m + 1 /\ i - 1 # m + 1
        BY <4>1
      <4> QED BY <3>2, <4>2, <4>3
    <3> QED BY <3>1, <3>2
  <2>3. g = h
    <3>1. DOMAIN g = 1 .. m + 1 /\ DOMAIN h = 1 .. m + 1 /\ g = [i \in 1 .. m + 1 |-> g[i]]
          /\ h = [i \in 1 .. m + 1 |-> h[i]]
      OBVIOUS
    <3> HIDE DEF g, h
    <3> QED BY <2>2, <3>1
  <2> HIDE DEF g
  <2>4. Solves(g, ss, m + 1)
    BY <2>3 DEF Solves
  <2>5. m + 1 \in 1 .. n
    BY <1>2
  <2> QED BY <2>4, <2>5
<1> HIDE DEF S
<1>3. 1 .. n \subseteq S
  BY <1>1, <1>2, UpTo
<1>4. n \in S
  BY <1>3
<1> QED BY <1>4 DEF S

LEMMA FlattenFacts ==
  ASSUME NEW S, NEW ss \in Seq(Seq(S))
  PROVE  Flat(FlattenSeq(ss), ss, Len(ss), S)
<1>1. Len(ss) \in Nat /\ \A i \in 1 .. Len(ss) : ss[i] \in Seq(S)
  BY LenProperties, ElementOfSeq
<1>2. CASE Len(ss) = 0
  <2>1. FlattenSeq(ss) = <<>>
    BY <1>2, EmptySeq DEF FlattenSeq
  <2> QED BY <1>2, <2>1 DEF Flat
<1>3. CASE Len(ss) # 0
  <2> DEFINE n == Len(ss)
             f == CHOOSE g : g = [i \in 1 .. n |-> IF i = 1 THEN ss[i] ELSE g[i - 1] \o ss[i]]
  <2>1. FlattenSeq(ss) = f[n]
    BY <1>3 DEF FlattenSeq
  <2>2. n \in Nat \ {0}
    BY <1>1, <1>3
  <2>3. \E g : g = [i \in 1 .. n |-> IF i = 1 THEN ss[i] ELSE g[i - 1] \o ss[i]]
    <3> HIDE DEF n
    <3> QED BY <2>2, Solvable DEF Solves
  <2>4. f = [i \in 1 .. n |-> IF i = 1 THEN ss[i] ELSE f[i - 1] \o ss[i]]
    <3> HIDE DEF n
    <3> QED BY <2>3
  <2> HIDE DEF f
  <2> DEFINE good == {m \in 1 .. n : Flat(f[m], ss, m, S)}
  <2>5. 1 \in good
    <3>1. 1 \in 1 .. n /\ f[1] = ss[1]
      BY <2>2, <2>4
    <3> QED BY <1>1, <3>1, FlatOne
  <2>6. ASSUME NEW m \in 1 .. n, m \in good, m < n PROVE m + 1 \in good
    <3>1. m + 1 \in 1 .. n /\ m + 1 # 1 /\ m + 1 - 1 = m /\ m \in Nat \ {0}
      BY <2>2, <2>6
    <3>2. f[m + 1] = f[m] \o ss[m + 1]
      <4> HIDE DEF n
      <4>1. \A i \in 1 .. n : f[i] = IF i = 1 THEN ss[i] ELSE f[i - 1] \o ss[i]
        BY <2>4
      <4>2. PICK i \in 1 .. n : i = m + 1
        BY <3>1
      <4>3. i # 1 /\ i - 1 = m
        BY <3>1, <4>2
      <4>4. f[i] = f[i - 1] \o ss[i]
        BY <4>1, <4>3
      <4> QED BY <4>2, <4>3, <4>4
    <3>3. Flat(f[m], ss, m, S) /\ ss[m + 1] \in Seq(S)
      BY <1>1, <2>6, <3>1
    <3>4. Flat(f[m] \o ss[m + 1], ss, m + 1, S)
      BY <3>1, <3>3, FlatNext
    <3> QED BY <3>1, <3>2, <3>4
  <2> HIDE DEF n, good
  <2>7. 1 .. n \subseteq good
    BY <2>2, <2>5, <2>6, UpTo
  <2>8. n \in good
    BY <2>2, <2>7
  <2> QED BY <2>1, <2>8 DEF n, good
<1> QED BY <1>2, <1>3

-----------------------------------------------------------------------------
(* The links of an append: each once, event by event. *)
AllOutputs == UNION {Range(Outputs(p)) : p \in Projecters}
OutputsOf(fns) == FlattenSeq([k \in DOMAIN fns |-> Outputs(fns[k])])

OnceEach(seq) == \A k, m \in DOMAIN seq : seq[k] = seq[m] => k = m

LEMMA OutputsAre ==
  ASSUME NEW p \in Projecters
  PROVE  /\ Outputs(p) \in Seq(AllOutputs)
         /\ \A k \in DOMAIN Outputs(p) : Outputs(p)[k] = <<p, k>>
         /\ \A o \in Range(Outputs(p)) : Targets[o[1]][o[2]] \in LinkStreams
<1>1. PICK n \in Nat : n = Len(Targets[p]) /\ DOMAIN Targets[p] = 1 .. n
  BY TargetsAssumption, LenProperties
<1>2. Outputs(p) = [k \in 1 .. n |-> <<p, k>>]
  BY <1>1 DEF Outputs
<1>3. Range(Outputs(p)) = {<<p, k>> : k \in 1 .. n}
  BY <1>2 DEF Range
<1>4. Outputs(p) \in Seq(Range(Outputs(p)))
  BY <1>2, <1>3
<1>5. Outputs(p) \in Seq(AllOutputs)
  <2>1. Range(Outputs(p)) \subseteq AllOutputs
    BY DEF AllOutputs
  <2> QED BY <1>4, <2>1, SeqMonotonic
<1>6. \A k \in 1 .. n : Targets[p][k] \in LinkStreams
  BY <1>1 DEF LinkStreams, Range
<1> QED BY <1>2, <1>3, <1>5, <1>6

LEMMA OutputFacts ==
  ASSUME NEW fns \in Seq(Projecters), OnceEach(fns)
  PROVE  /\ OutputsOf(fns) \in Seq(AllOutputs)
         /\ OnceEach(OutputsOf(fns))
         /\ Range(OutputsOf(fns)) = UNION {Range(Outputs(p)) : p \in Range(fns)}
<1> DEFINE n == Len(fns)
           ss == [k \in 1 .. n |-> Outputs(fns[k])]
           T == FlattenSeq(ss)
<1>1. n \in Nat /\ DOMAIN fns = 1 .. n /\ \A k \in 1 .. n : fns[k] \in Projecters
  BY LenProperties, ElementOfSeq
<1>2. OutputsOf(fns) = T
  BY <1>1 DEF OutputsOf
<1>3. ASSUME NEW p \in Projecters
      PROVE  /\ Outputs(p) \in Seq(AllOutputs)
             /\ \A k \in DOMAIN Outputs(p) : Outputs(p)[k] = <<p, k>>
  BY OutputsAre
<1>4. ss \in Seq(Seq(AllOutputs)) /\ Len(ss) = n
  BY <1>1, <1>3
<1>5. Flat(T, ss, n, AllOutputs)
  <2> HIDE DEF ss
  <2> QED BY <1>4, FlattenFacts
<1>6. ASSUME NEW a \in 1 .. n
      PROVE  /\ ss[a] = Outputs(fns[a]) /\ fns[a] \in Projecters
             /\ DOMAIN Outputs(fns[a]) = 1 .. Len(ss[a])
  <2>1. ss[a] = Outputs(fns[a]) /\ fns[a] \in Projecters
    BY <1>1
  <2>2. Outputs(fns[a]) \in Seq(AllOutputs)
    BY <1>3, <2>1
  <2> QED BY <2>1, <2>2, LenProperties
<1> HIDE DEF ss, T, n
<1>7. T \in Seq(AllOutputs) /\ Len(T) \in Nat /\ DOMAIN T = 1 .. Len(T)
  BY <1>5, LenProperties DEF Flat
<1>8. ASSUME NEW k \in 1 .. Len(T), NEW m \in 1 .. Len(T), k < m PROVE T[k] # T[m]
  <2>1. InTurn(ss, n, T[k], T[m])
    BY <1>5, <1>8 DEF Flat
  <2>2. PICK a \in 1 .. n, b \in 1 .. n :
          \E x \in 1 .. Len(ss[a]) : \E y \in 1 .. Len(ss[b]) :
            T[k] = ss[a][x] /\ T[m] = ss[b][y] /\ (a < b \/ (a = b /\ x < y))
    BY <2>1 DEF InTurn
  <2>3. PICK x \in 1 .. Len(ss[a]), y \in 1 .. Len(ss[b]) :
          T[k] = ss[a][x] /\ T[m] = ss[b][y] /\ (a < b \/ (a = b /\ x < y))
    BY <2>2
  <2>4. T[k] = T[m] => fns[a] = fns[b] /\ x = y
    <3>1. ASSUME NEW p \in Projecters, NEW q \in Projecters, p = fns[a], q = fns[b], T[k] = T[m]
          PROVE  p = q /\ x = y
      <4>1. x \in DOMAIN Outputs(p) /\ y \in DOMAIN Outputs(q) /\ Outputs(p)[x] = Outputs(q)[y]
        BY <1>6, <2>3, <3>1
      <4> QED BY <1>3, <4>1
    <3> QED BY <1>6, <3>1
  <2>5. fns[a] = fns[b] => a = b
    BY <1>1 DEF OnceEach
  <2>6. a \in Nat /\ b \in Nat /\ Len(ss[a]) \in Nat
    BY <1>1, <1>4
  <2>7. x \in Int /\ y \in Int
    OBVIOUS
  <2> QED BY <2>3, <2>4, <2>5, <2>6, <2>7
<1>9. OnceEach(T)
  <2>1. ASSUME NEW k \in DOMAIN T, NEW m \in DOMAIN T, T[k] = T[m] PROVE k = m
    <3>1. ~(k < m) /\ ~(m < k)
      BY <1>7, <1>8, <2>1
    <3> QED BY <1>7, <3>1
  <2> QED BY <2>1 DEF OnceEach
<1>10. ASSUME NEW t \in Range(T) PROVE \E p \in Range(fns) : t \in Range(Outputs(p))
  <2>1. PICK k \in 1 .. Len(T) : t = T[k]
    BY <1>7 DEF Range
  <2>2. PICK a \in 1 .. n : \E x \in 1 .. Len(ss[a]) : T[k] = ss[a][x]
    BY <1>5 DEF Flat
  <2>3. fns[a] \in Range(fns) /\ t \in Range(Outputs(fns[a]))
    BY <1>1, <1>6, <2>1, <2>2 DEF Range
  <2> QED BY <2>3
<1>11. ASSUME NEW p \in Range(fns), NEW t \in Range(Outputs(p)) PROVE t \in Range(T)
  <2>1. PICK a \in 1 .. n : fns[a] = p
    BY <1>1 DEF Range
  <2>2. PICK x \in 1 .. Len(ss[a]) : t = ss[a][x]
    BY <1>6, <2>1 DEF Range
  <2>3. PICK k \in 1 .. Len(T) : T[k] = ss[a][x]
    BY <1>5 DEF Flat
  <2> QED BY <1>7, <2>2, <2>3 DEF Range
<1> QED BY <1>2, <1>7, <1>9, <1>10, <1>11

LEMMA FunctionIsSeq ==
  ASSUME NEW S, NEW n \in Nat, NEW f \in [1 .. n -> S]
  PROVE  f \in Seq(S) /\ Len(f) = n
OBVIOUS

AllLinks == [by : AllOutputs, to : LinkStreams, stream : Sources, pos : Nat]

LEMMA LinkType ==
  ASSUME NEW o \in AllOutputs, NEW s \in Sources, NEW i \in Nat
  PROVE  Link(o, s, i) \in AllLinks
<1>1. Targets[o[1]][o[2]] \in LinkStreams
  BY OutputsAre DEF AllOutputs
<1> QED BY <1>1 DEF Link, AllLinks

(* The links that the functions of some projecters give the events i to j. *)
LinksTo(projecters, s, i, j) ==
  {Link(o, s, e) : o \in UNION {Range(Outputs(p)) : p \in projecters}, e \in i .. j}

EventByEvent(links) ==
  \A k, m \in DOMAIN links :
    k < m => /\ links[k].stream = links[m].stream
             /\ links[k].pos <= links[m].pos

LEMMA LinksOfFacts ==
  ASSUME NEW fns \in Seq(Projecters), OnceEach(fns),
         NEW s \in Sources, NEW i \in Nat \ {0}, NEW j \in Nat, i <= j
  PROVE  /\ LinksOf(fns, s, i, j) \in Seq(AllLinks)
         /\ OnceEach(LinksOf(fns, s, i, j))
         /\ Range(LinksOf(fns, s, i, j)) = LinksTo(Range(fns), s, i, j)
         /\ EventByEvent(LinksOf(fns, s, i, j))
<1> DEFINE T == OutputsOf(fns)
           n == j - i + 1
           ss == [e \in 1 .. n |-> [k \in DOMAIN T |-> Link(T[k], s, i + e - 1)]]
           L == FlattenSeq(ss)
<1>1. /\ T \in Seq(AllOutputs) /\ OnceEach(T) /\ Len(T) \in Nat /\ DOMAIN T = 1 .. Len(T)
      /\ Range(T) = UNION {Range(Outputs(p)) : p \in Range(fns)}
      /\ \A k \in 1 .. Len(T) : T[k] \in AllOutputs
  BY OutputFacts, LenProperties, ElementOfSeq
<1>2. LinksOf(fns, s, i, j) = L
  BY DEF LinksOf, OutputsOf
<1> HIDE DEF T
<1>3. n \in Nat /\ n # 0
  OBVIOUS
<1>4. ASSUME NEW a \in 1 .. n
      PROVE  /\ ss[a] \in Seq(AllLinks) /\ Len(ss[a]) = Len(T)
             /\ \A x \in 1 .. Len(T) : ss[a][x] = Link(T[x], s, i + a - 1)
             /\ i + a - 1 \in i .. j
  <2>1. i + a - 1 \in i .. j /\ i + a - 1 \in Nat
    OBVIOUS
  <2>2. PICK e \in Nat : e = i + a - 1
    BY <2>1
  <2>3. ss[a] = [k \in 1 .. Len(T) |-> Link(T[k], s, e)]
    BY <1>1, <2>2
  <2> HIDE DEF ss, n
  <2>4. \A k \in 1 .. Len(T) : Link(T[k], s, e) \in AllLinks
    BY <1>1, <2>2, LinkType
  <2>5. ss[a] \in [1 .. Len(T) -> AllLinks]
    BY <2>3, <2>4
  <2>6. ss[a] \in Seq(AllLinks) /\ Len(ss[a]) = Len(T)
    BY <1>1, <2>5, FunctionIsSeq
  <2> QED BY <2>1, <2>2, <2>3, <2>6
<1>5. ss \in Seq(Seq(AllLinks)) /\ Len(ss) = n
  <2>1. ss \in [1 .. n -> Seq(AllLinks)]
    BY <1>4
  <2> HIDE DEF ss, n
  <2> QED BY <1>3, <2>1
<1> HIDE DEF ss
<1>6. Flat(L, ss, n, AllLinks)
  BY <1>5, FlattenFacts
<1> HIDE DEF L
<1>7. L \in Seq(AllLinks) /\ Len(L) \in Nat /\ DOMAIN L = 1 .. Len(L)
  BY <1>6, LenProperties DEF Flat
<1>8. ASSUME NEW k \in 1 .. Len(L), NEW m \in 1 .. Len(L), k < m
      PROVE  L[k] # L[m] /\ L[k].stream = L[m].stream /\ L[k].pos <= L[m].pos
  <2>1. InTurn(ss, n, L[k], L[m])
    BY <1>6, <1>8 DEF Flat
  <2>2. PICK a \in 1 .. n, b \in 1 .. n :
          \E x \in 1 .. Len(ss[a]) : \E y \in 1 .. Len(ss[b]) :
            L[k] = ss[a][x] /\ L[m] = ss[b][y] /\ (a < b \/ (a = b /\ x < y))
    BY <2>1 DEF InTurn
  <2>3. PICK x \in 1 .. Len(T), y \in 1 .. Len(T) :
          L[k] = ss[a][x] /\ L[m] = ss[b][y] /\ (a < b \/ (a = b /\ x < y))
    BY <1>4, <2>2
  <2>4. L[k] = Link(T[x], s, i + a - 1) /\ L[m] = Link(T[y], s, i + b - 1)
    BY <1>4, <2>3
  <2>5. /\ L[k].by = T[x] /\ L[k].stream = s /\ L[k].pos = i + a - 1
        /\ L[m].by = T[y] /\ L[m].stream = s /\ L[m].pos = i + b - 1
    BY <2>4 DEF Link
  <2>6. T[x] = T[y] => x = y
    BY <1>1 DEF OnceEach
  <2>7. a \in Int /\ b \in Int /\ x \in Int /\ y \in Int
    OBVIOUS
  <2>8. CASE a < b
    <3>1. i + a - 1 < i + b - 1 /\ i + a - 1 <= i + b - 1 /\ i + a - 1 # i + b - 1
      BY <2>7, <2>8
    <3>2. L[k].pos <= L[m].pos /\ L[k].pos # L[m].pos
      BY <2>5, <3>1
    <3> QED BY <2>5, <3>2
  <2>9. CASE a = b /\ x < y
    <3>1. T[x] # T[y]
      BY <2>6, <2>7, <2>9
    <3> QED BY <2>5, <2>7, <2>9, <3>1
  <2> QED BY <2>3, <2>8, <2>9
<1>9. OnceEach(L)
  <2>1. ASSUME NEW k \in DOMAIN L, NEW m \in DOMAIN L, L[k] = L[m] PROVE k = m
    <3>1. ~(k < m) /\ ~(m < k)
      BY <1>7, <1>8, <2>1
    <3> QED BY <1>7, <3>1
  <2> QED BY <2>1 DEF OnceEach
<1>10. EventByEvent(L)
  BY <1>7, <1>8 DEF EventByEvent
<1>11. ASSUME NEW l \in Range(L) PROVE l \in LinksTo(Range(fns), s, i, j)
  <2>1. PICK k \in 1 .. Len(L) : l = L[k]
    BY <1>7 DEF Range
  <2>2. PICK a \in 1 .. n : \E x \in 1 .. Len(ss[a]) : L[k] = ss[a][x]
    BY <1>6 DEF Flat
  <2>3. PICK x \in 1 .. Len(T) : l = Link(T[x], s, i + a - 1)
    BY <1>4, <2>1, <2>2
  <2>4. T[x] \in Range(T) /\ i + a - 1 \in i .. j
    BY <1>1, <1>4 DEF Range
  <2> QED BY <1>1, <2>3, <2>4 DEF LinksTo
<1>12. ASSUME NEW l \in LinksTo(Range(fns), s, i, j) PROVE l \in Range(L)
  <2>1. PICK o \in Range(T), e \in i .. j : l = Link(o, s, e)
    BY <1>1 DEF LinksTo
  <2>2. PICK x \in 1 .. Len(T) : o = T[x]
    BY <1>1, <2>1 DEF Range
  <2>3. PICK a \in 1 .. n : i + a - 1 = e
    <3>1. e - i + 1 \in 1 .. n /\ i + (e - i + 1) - 1 = e
      OBVIOUS
    <3> QED BY <3>1
  <2>4. l = ss[a][x] /\ x \in 1 .. Len(ss[a])
    BY <1>4, <2>1, <2>2, <2>3
  <2>5. PICK k \in 1 .. Len(L) : L[k] = ss[a][x]
    BY <1>6, <2>4 DEF Flat
  <2> QED BY <1>7, <2>4, <2>5 DEF Range
<1> QED BY <1>2, <1>7, <1>9, <1>10, <1>11, <1>12

-----------------------------------------------------------------------------
(* The slots of a page that point into a stream can be listed first to     *)
(* last, and all of them are listed when all point into it.                *)
Lists(f, K) ==
  /\ f \in [1 .. Cardinality(K) -> K]
  /\ \A i, j \in DOMAIN f : i < j => f[i] < f[j]

LEMMA ListMore ==
  ASSUME NEW K \in SUBSET Nat, IsFiniteSet(K), NEW f, Lists(f, K),
         NEW x \in Nat, \A k \in K : k < x
  PROVE  \E g : Lists(g, K \cup {x})
<1>1. /\ Cardinality(K) \in Nat
      /\ Cardinality(K \cup {x}) = Cardinality(K) + 1
  <2>1. x \notin K
    OBVIOUS
  <2> QED BY <2>1, FS_CardinalityType, FS_AddElement
<1>2. PICK c \in Nat : c = Cardinality(K)
  BY <1>1
<1>3. /\ f \in [1 .. c -> K]
      /\ \A i, j \in 1 .. c : i < j => f[i] < f[j]
  BY <1>2 DEF Lists
<1> DEFINE g == [i \in 1 .. c + 1 |-> IF i = c + 1 THEN x ELSE f[i]]
<1>4. \A i \in 1 .. c + 1 : i = c + 1 \/ i \in 1 .. c
  OBVIOUS
<1>5. g \in [1 .. c + 1 -> K \cup {x}]
  BY <1>3, <1>4
<1>6. ASSUME NEW i \in 1 .. c + 1, NEW j \in 1 .. c + 1, i < j PROVE g[i] < g[j]
  <2>1. i \in 1 .. c /\ i # c + 1 /\ g[i] = f[i] /\ f[i] \in K
    BY <1>3, <1>6
  <2>2. CASE j = c + 1
    BY <2>1, <2>2
  <2>3. CASE j \in 1 .. c
    BY <1>3, <1>6, <2>1, <2>3
  <2> QED BY <1>4, <2>2, <2>3
<1>7. DOMAIN g = 1 .. c + 1
  OBVIOUS
<1> HIDE DEF g
<1> QED BY <1>1, <1>2, <1>5, <1>6, <1>7 DEF Lists

LEMMA Listed ==
  ASSUME NEW n \in Nat, NEW K \in SUBSET (1 .. n)
  PROVE  \E f : Lists(f, K)
<1> DEFINE S == {m \in 1 .. n : \E f : Lists(f, K \cap 1 .. m)}
<1>1. ASSUME NEW m \in Nat, NEW f, Lists(f, K \cap 1 .. m)
      PROVE  \E g : Lists(g, K \cap 1 .. m + 1)
  <2>1. /\ K \cap 1 .. m \in SUBSET Nat /\ \A k \in K \cap 1 .. m : k < m + 1
        /\ K \cap 1 .. m \in SUBSET (1 .. m)
    OBVIOUS
  <2>2. IsFiniteSet(K \cap 1 .. m)
    <3>1. IsFiniteSet(1 .. m)
      BY FS_Interval
    <3>2. PICK M : M = K \cap 1 .. m
      OBVIOUS
    <3>3. M \in SUBSET (1 .. m)
      BY <2>1, <3>2
    <3>4. IsFiniteSet(M)
      BY <3>1, <3>3, FS_Subset
    <3> QED BY <3>2, <3>4
  <2>3. CASE m + 1 \in K
    <3>1. K \cap 1 .. m + 1 = (K \cap 1 .. m) \cup {m + 1}
      BY <2>3
    <3>2. m + 1 \in Nat
      OBVIOUS
    <3> QED BY <1>1, <2>1, <2>2, <3>1, <3>2, ListMore
  <2>4. CASE m + 1 \notin K
    <3>1. K \cap 1 .. m + 1 = K \cap 1 .. m
      BY <2>4
    <3> QED BY <1>1, <3>1
  <2> QED BY <2>3, <2>4
<1>2. Lists(<<>>, {})
  <2>1. Cardinality({}) = 0 /\ 1 .. 0 = {}
    BY FS_EmptySet
  <2>2. <<>> \in [{} -> {}] /\ DOMAIN <<>> = {}
    OBVIOUS
  <2> QED BY <2>1, <2>2 DEF Lists
<1>3. K \cap 1 .. 0 = {} /\ 0 + 1 = 1
  OBVIOUS
<1>4. \E g : Lists(g, K \cap 1 .. 1)
  BY <1>1, <1>2, <1>3
<1>5. n > 0 => 1 \in S
  BY <1>4
<1>6. ASSUME NEW m \in 1 .. n, m \in S, m < n PROVE m + 1 \in S
  <2>1. m \in Nat /\ m + 1 \in 1 .. n
    BY <1>6
  <2> QED BY <1>1, <1>6, <2>1
<1> HIDE DEF S
<1>7. 1 .. n \subseteq S
  BY <1>5, <1>6, UpTo
<1>8. CASE n = 0
  <2>1. K = {}
    BY <1>8
  <2> QED BY <1>2, <2>1
<1>9. CASE n > 0
  <2>1. n \in S
    BY <1>7, <1>9
  <2>2. K \cap 1 .. n = K
    OBVIOUS
  <2> QED BY <2>1, <2>2 DEF S
<1> QED BY <1>8, <1>9

LEMMA ListOfAll ==
  ASSUME NEW n \in Nat, NEW f, Lists(f, 1 .. n)
  PROVE  \A i \in 1 .. n : f[i] = i
<1>1. f \in [1 .. n -> 1 .. n] /\ \A i, j \in 1 .. n : i < j => f[i] < f[j]
  <2>1. Cardinality(1 .. n) = n
    BY FS_Interval
  <2> QED BY <2>1 DEF Lists
<1> DEFINE S == {i \in 1 .. n : i <= f[i]}
           T == {i \in 1 .. n : f[n + 1 - i] <= n + 1 - i}
<1>2. 1 .. n \subseteq S
  <2>1. n > 0 => 1 \in S
    BY <1>1
  <2>2. ASSUME NEW i \in 1 .. n, i \in S, i < n PROVE i + 1 \in S
    <3>1. i + 1 \in 1 .. n /\ i < i + 1
      BY <2>2
    <3>2. f[i] < f[i + 1] /\ f[i] \in Nat /\ f[i + 1] \in Nat /\ i <= f[i]
      BY <1>1, <2>2, <3>1
    <3>3. i + 1 <= f[i + 1]
      BY <3>2
    <3> QED BY <3>1, <3>3
  <2> HIDE DEF S
  <2> QED BY <2>1, <2>2, UpTo
<1>3. 1 .. n \subseteq T
  <2>1. n > 0 => 1 \in T
    <3>1. ASSUME n > 0 PROVE n + 1 - 1 = n /\ f[n] \in 1 .. n
      BY <1>1, <3>1
    <3> QED BY <3>1
  <2>2. ASSUME NEW i \in 1 .. n, i \in T, i < n PROVE i + 1 \in T
    <3>1. PICK m \in 1 .. n : m = n + 1 - (i + 1)
      BY <2>2
    <3>2. m + 1 = n + 1 - i /\ m + 1 \in 1 .. n /\ m < m + 1 /\ i + 1 \in 1 .. n
      BY <2>2, <3>1
    <3>3. f[m + 1] <= m + 1
      BY <2>2, <3>2
    <3>4. f[m] < f[m + 1] /\ f[m] \in Nat /\ f[m + 1] \in Nat
      BY <1>1, <3>2
    <3>5. f[m] <= m
      BY <3>3, <3>4
    <3> QED BY <3>1, <3>2, <3>5
  <2> HIDE DEF T
  <2> QED BY <2>1, <2>2, UpTo
<1>4. ASSUME NEW i \in 1 .. n PROVE f[i] = i
  <2>1. i \in S
    BY <1>2
  <2>2. n + 1 - i \in 1 .. n /\ n + 1 - (n + 1 - i) = i
    OBVIOUS
  <2>3. n + 1 - i \in T
    BY <1>3, <2>2
  <2>4. i <= f[i] /\ f[i] <= i /\ f[i] \in Nat
    BY <1>1, <2>1, <2>2, <2>3
  <2> QED BY <2>4
<1> QED BY <1>4

Pointing(page, s) == {k \in DOMAIN page : page[k].stream = s}

LEMMA PtrsFacts ==
  ASSUME NEW n \in Nat, NEW page, DOMAIN page = 1 .. n, NEW s
  PROVE  Lists(Ptrs(page, s), Pointing(page, s))
<1>1. Pointing(page, s) \in SUBSET (1 .. n)
  BY DEF Pointing
<1>2. \E f : Lists(f, Pointing(page, s))
  BY <1>1, Listed
<1>3. Ptrs(page, s) = CHOOSE f \in [1 .. Cardinality(Pointing(page, s)) -> Pointing(page, s)] :
                        \A i, j \in DOMAIN f : i < j => f[i] < f[j]
  BY DEF Ptrs, Pointing
<1> QED BY <1>2, <1>3 DEF Lists

-----------------------------------------------------------------------------
(* Each option is applied once, and each kind of layer is there once.  The *)
(* projecter has the functions of all projecters that were applied, and    *)
(* lies where the first of them put it.                                    *)
Layers == [kind : {"resolver", "streamer", "projecter"}, fns : Seq(Projecters)]

Named(options) == Range(options) \cap Projecters

StreamerBefore(options, p) ==
  \E k, m \in DOMAIN options : k < m /\ options[k] = "streamer" /\ options[m] = p

StreamerFirst(options) == \A p \in Named(options) : StreamerBefore(options, p)

OfKindOnce(layers) ==
  \A i, j \in DOMAIN layers : layers[i].kind = layers[j].kind => i = j

Made(layers, options) ==
  /\ OnceEach(options)
  /\ OfKindOnce(layers)
  /\ \A i \in LayersOf(layers, "projecter") :
       /\ layers[i].fns # <<>>
       /\ OnceEach(layers[i].fns)
       /\ Range(layers[i].fns) = Named(options)
  /\ LayersOf(layers, "projecter") = {} => Named(options) = {}
  /\ LayersOf(layers, "streamer") = {} <=> "streamer" \notin Range(options)
  /\ \A i \in LayersOf(layers, "projecter"), j \in LayersOf(layers, "streamer") :
       i < j <=> StreamerFirst(options)

LEMMA LayerType ==
  /\ Layer("resolver") = [kind |-> "resolver", fns |-> <<>>]
  /\ \A o \in Options :
       \/ o \in Projecters /\ Layer(o) = [kind |-> "projecter", fns |-> <<o>>]
       \/ /\ o = "streamer" /\ o \notin Projecters
          /\ Layer(o) = [kind |-> "streamer", fns |-> <<>>]
  /\ \A o \in Options \cup {"resolver"} : Layer(o) \in Layers
<1>1. /\ "resolver" \notin Projecters /\ "streamer" \notin Projecters
      /\ \A o \in Options : o \in Projecters \/ o = "streamer"
  BY OptionsAssumption
<1>2. \A o \in Projecters : <<o>> \in Seq(Projecters)
  OBVIOUS
<1>3. <<>> \in Seq(Projecters)
  BY EmptySeq
<1> QED BY <1>1, <1>2, <1>3 DEF Layer, Layers

LEMMA MadeFirst == Made(<<Layer("resolver")>>, <<>>) /\ <<Layer("resolver")>> \in Seq(Layers)
<1> DEFINE layers == <<Layer("resolver")>>
<1>1. DOMAIN layers = {1} /\ layers[1].kind = "resolver" /\ layers \in Seq(Layers)
  BY LayerType
<1> HIDE DEF layers
<1>2. LayersOf(layers, "projecter") = {} /\ LayersOf(layers, "streamer") = {}
  BY <1>1 DEF LayersOf
<1>3. DOMAIN <<>> = {} /\ Range(<<>>) = {}
  BY DEF Range
<1>4. OfKindOnce(layers)
  BY <1>1 DEF OfKindOnce
<1>5. Made(layers, <<>>)
  BY <1>2, <1>3, <1>4 DEF Made, Named, OnceEach
<1> QED BY <1>1, <1>5 DEF layers

LEMMA AppendFacts ==
  ASSUME NEW S, NEW seq \in Seq(S), NEW x \in S
  PROVE  /\ Append(seq, x) \in Seq(S) /\ Len(seq) \in Nat
         /\ DOMAIN seq = 1 .. Len(seq) /\ DOMAIN Append(seq, x) = 1 .. Len(seq) + 1
         /\ \A k \in 1 .. Len(seq) : Append(seq, x)[k] = seq[k]
         /\ Append(seq, x)[Len(seq) + 1] = x
         /\ Range(Append(seq, x)) = Range(seq) \cup {x}
         /\ OnceEach(seq) /\ x \notin Range(seq) => OnceEach(Append(seq, x))
<1> DEFINE t == Append(seq, x)
<1>1. PICK n \in Nat : n = Len(seq)
  BY LenProperties
<1>2. /\ t \in Seq(S) /\ DOMAIN seq = 1 .. n /\ DOMAIN t = 1 .. n + 1
      /\ \A k \in 1 .. n : t[k] = seq[k]
      /\ t[n + 1] = x
  BY <1>1, AppendProperties, LenProperties
<1> HIDE DEF t
<1>3. \A k \in 1 .. n + 1 : k \in 1 .. n \/ k = n + 1
  OBVIOUS
<1>4. 1 .. n \subseteq 1 .. n + 1 /\ n + 1 \in 1 .. n + 1
  OBVIOUS
<1>5. Range(t) = Range(seq) \cup {x}
  BY <1>2, <1>3, <1>4 DEF Range
<1>6. ASSUME OnceEach(seq), x \notin Range(seq) PROVE OnceEach(t)
  <2>1. \A k \in 1 .. n : seq[k] # x
    BY <1>2, <1>6 DEF Range
  <2> QED BY <1>2, <1>3, <1>6, <2>1 DEF OnceEach
<1> QED BY <1>1, <1>2, <1>5, <1>6 DEF t

LEMMA StreamerBeforeMore ==
  ASSUME NEW options \in Seq(Options), NEW o \in Options, NEW p
  PROVE  StreamerBefore(Append(options, o), p)
           <=> \/ StreamerBefore(options, p)
               \/ p = o /\ "streamer" \in Range(options)
<1> DEFINE more == Append(options, o)
<1>1. PICK n \in Nat : n = Len(options)
  BY LenProperties
<1>2. /\ DOMAIN options = 1 .. n /\ DOMAIN more = 1 .. n + 1
      /\ \A k \in 1 .. n : more[k] = options[k]
      /\ more[n + 1] = o
  BY <1>1, AppendFacts
<1> HIDE DEF more
<1>3. /\ \A k \in 1 .. n + 1 : (k \in 1 .. n /\ k < n + 1) \/ k = n + 1
      /\ 1 .. n \subseteq 1 .. n + 1 /\ n + 1 \in 1 .. n + 1
  OBVIOUS
<1>4. ASSUME StreamerBefore(more, p)
      PROVE  StreamerBefore(options, p) \/ (p = o /\ "streamer" \in Range(options))
  <2>1. PICK k \in 1 .. n + 1, m \in 1 .. n + 1 : k < m /\ more[k] = "streamer" /\ more[m] = p
    BY <1>2, <1>4 DEF StreamerBefore
  <2>2. k \in 1 .. n
    BY <2>1
  <2>3. CASE m = n + 1
    BY <1>2, <2>1, <2>2, <2>3 DEF Range
  <2>4. CASE m \in 1 .. n
    BY <1>2, <2>1, <2>2, <2>4 DEF StreamerBefore
  <2> QED BY <1>3, <2>3, <2>4
<1>5. ASSUME StreamerBefore(options, p) PROVE StreamerBefore(more, p)
  BY <1>2, <1>3, <1>5 DEF StreamerBefore
<1>6. ASSUME p = o, "streamer" \in Range(options) PROVE StreamerBefore(more, p)
  <2>1. PICK k \in 1 .. n : options[k] = "streamer"
    BY <1>2, <1>6 DEF Range
  <2> QED BY <1>2, <1>3, <1>6, <2>1 DEF StreamerBefore
<1> QED BY <1>4, <1>5, <1>6 DEF more

(* A second projecter adds its function to the first. *)
LEMMA MadeExtended ==
  ASSUME NEW layers \in Seq(Layers), NEW options \in Seq(Options), Made(layers, options),
         NEW o \in Options, o \notin Range(options),
         o \in Projecters, LayersOf(layers, "projecter") # {}
  PROVE  /\ Apply(layers, o) \in Seq(Layers)
         /\ Made(Apply(layers, o), Append(options, o))
<1> DEFINE others == LayersOf(layers, "projecter")
           at == CHOOSE j \in others : \A k \in others : j <= k
           more == Append(options, o)
           fns == Append(layers[at].fns, o)
           made == [layers EXCEPT ![at].fns = Append(@, o)]
<1>1. Apply(layers, o) = made
  BY DEF Apply
<1>2. PICK n \in Nat : n = Len(layers)
  BY LenProperties
<1>3. DOMAIN layers = 1 .. n /\ layers \in [1 .. n -> Layers]
  BY <1>2, LenProperties
<1>4. PICK i \in 1 .. n : others = {i}
  <2>1. PICK i : i \in others
    OBVIOUS
  <2>2. \A j \in others : j = i
    BY <2>1 DEF Made, OfKindOnce, LayersOf
  <2>3. others = {i} /\ i \in 1 .. n
    BY <1>3, <2>1, <2>2 DEF LayersOf
  <2> QED BY <2>3
<1>5. at = i
  BY <1>4
<1> HIDE DEF at
<1>6. layers[i].kind = "projecter" /\ layers[i].fns \in Seq(Projecters) /\ layers[i] \in Layers
  BY <1>3, <1>4 DEF LayersOf, Layers
<1>7. /\ Append(layers[i].fns, o) \in Seq(Projecters)
      /\ Append(layers[i].fns, o) # <<>>
      /\ Range(Append(layers[i].fns, o)) = Range(layers[i].fns) \cup {o}
      /\ o \notin Range(layers[i].fns) /\ OnceEach(layers[i].fns)
           => OnceEach(Append(layers[i].fns, o))
  <2>1. PICK old \in Seq(Projecters) : old = layers[i].fns
    BY <1>6
  <2> QED BY <2>1, AppendFacts, AppendProperties
<1>8. /\ DOMAIN made = 1 .. n
      /\ \A k \in 1 .. n : made[k].kind = layers[k].kind
      /\ made[i].fns = Append(layers[i].fns, o)
      /\ \A k \in 1 .. n : made[k] \in Layers
  BY <1>3, <1>5, <1>6, <1>7 DEF Layers
<1>9. made \in Seq(Layers)
  <2>1. made \in [1 .. n -> Layers]
    BY <1>3, <1>5, <1>8
  <2> HIDE DEF made
  <2> QED BY <2>1, FunctionIsSeq
<1> HIDE DEF made
<1>10. /\ LayersOf(made, "projecter") = {i}
       /\ LayersOf(made, "streamer") = LayersOf(layers, "streamer")
  BY <1>3, <1>4, <1>8 DEF LayersOf
<1>11. /\ OnceEach(more) /\ Range(more) = Range(options) \cup {o}
  <2>1. OnceEach(options)
    BY DEF Made
  <2> QED BY <2>1, AppendFacts
<1>12. Named(more) = Named(options) \cup {o} /\ Range(layers[i].fns) = Named(options)
  BY <1>4, <1>11 DEF Named, Made
<1>13. o # "streamer" /\ ("streamer" \in Range(more) <=> "streamer" \in Range(options))
  BY <1>11, OptionsAssumption
<1>14. LayersOf(layers, "streamer") = {} <=> "streamer" \notin Range(options)
  BY DEF Made
<1>15. ASSUME "streamer" \in Range(options) PROVE StreamerFirst(more) <=> StreamerFirst(options)
  <2>1. o \notin Named(options)
    BY DEF Named
  <2>2. \A p : StreamerBefore(more, p) <=> StreamerBefore(options, p) \/ p = o
    BY <1>15, StreamerBeforeMore
  <2> HIDE DEF more
  <2> QED BY <1>12, <2>1, <2>2 DEF StreamerFirst
<1>16. \A j \in LayersOf(layers, "streamer") : i < j <=> StreamerFirst(options)
  BY <1>4 DEF Made
<1>17. OfKindOnce(made)
  <2>1. OfKindOnce(layers)
    BY DEF Made
  <2> QED BY <1>3, <1>8, <2>1 DEF OfKindOnce
<1>18. made[i].fns # <<>> /\ OnceEach(made[i].fns) /\ Range(made[i].fns) = Named(more)
  <2>1. o \notin Range(layers[i].fns) /\ OnceEach(layers[i].fns)
    BY <1>4, <1>12 DEF Named, Made
  <2> QED BY <1>7, <1>8, <1>12, <2>1
<1> HIDE DEF more
<1>19. Made(made, more)
  BY <1>10, <1>11, <1>13, <1>14, <1>15, <1>16, <1>17, <1>18 DEF Made
<1> QED BY <1>1, <1>9, <1>19 DEF more

(* Other options are a layer of their own, outermost. *)
LEMMA MadeWrapped ==
  ASSUME NEW layers \in Seq(Layers), NEW options \in Seq(Options), Made(layers, options),
         NEW o \in Options, o \notin Range(options),
         ~(o \in Projecters /\ LayersOf(layers, "projecter") # {})
  PROVE  /\ Apply(layers, o) \in Seq(Layers)
         /\ Made(Apply(layers, o), Append(options, o))
<1> DEFINE more == Append(options, o)
           made == <<Layer(o)>> \o layers
<1>1. Apply(layers, o) = made
  BY DEF Apply, Wrap
<1>2. PICK n \in Nat : n = Len(layers)
  BY LenProperties
<1>3. DOMAIN layers = 1 .. n
  BY <1>2, LenProperties
<1>4. /\ made \in Seq(Layers) /\ DOMAIN made = 1 .. n + 1
      /\ made[1] = Layer(o) /\ \A k \in 1 .. n : made[k + 1] = layers[k]
  <2>1. PICK one \in Seq(Layers) : one = <<Layer(o)>>
    <3>1. PICK layer \in Layers : layer = Layer(o)
      BY LayerType
    <3>2. <<layer>> \in Seq(Layers)
      OBVIOUS
    <3> QED BY <3>1, <3>2
  <2>2. Len(one) = 1 /\ one[1] = Layer(o)
    BY <2>1
  <2>3. /\ one \o layers \in Seq(Layers) /\ Len(one \o layers) = 1 + n
        /\ \A k \in 1 .. 1 + n : (one \o layers)[k] = IF k <= 1 THEN one[k] ELSE layers[k - 1]
    <3>1. /\ one \o layers \in Seq(Layers) /\ Len(one \o layers) = Len(one) + Len(layers)
          /\ \A k \in 1 .. Len(one) + Len(layers) :
               (one \o layers)[k] = IF k <= Len(one) THEN one[k] ELSE layers[k - Len(one)]
      BY ConcatProperties
    <3> QED BY <1>2, <2>2, <3>1
  <2>4. DOMAIN (one \o layers) = 1 .. n + 1
    BY <2>3, LenProperties
  <2>5. 1 \in 1 .. 1 + n /\ 1 <= 1
    OBVIOUS
  <2>6. \A k \in 1 .. n : k + 1 \in 1 .. 1 + n /\ ~(k + 1 <= 1) /\ k + 1 - 1 = k
    OBVIOUS
  <2>7. (one \o layers)[1] = Layer(o) /\ \A k \in 1 .. n : (one \o layers)[k + 1] = layers[k]
    BY <2>2, <2>3, <2>5, <2>6
  <2> QED BY <2>1, <2>3, <2>4, <2>7
<1> HIDE DEF made
<1>5. /\ \A k \in 1 .. n + 1 : k = 1 \/ \E m \in 1 .. n : k = m + 1
      /\ 1 \in 1 .. n + 1 /\ \A k \in 1 .. n : k + 1 \in 1 .. n + 1
  <2>1. \A k \in 1 .. n + 1 : k = 1 \/ (k - 1 \in 1 .. n /\ k = k - 1 + 1)
    OBVIOUS
  <2> QED BY <2>1
<1>6. ASSUME NEW kind
      PROVE  LayersOf(made, kind) = {m + 1 : m \in LayersOf(layers, kind)}
                                      \cup (IF Layer(o).kind = kind THEN {1} ELSE {})
  <2>1. \A m \in LayersOf(layers, kind) : m + 1 \in LayersOf(made, kind)
    BY <1>3, <1>4, <1>5 DEF LayersOf
  <2>2. 1 \in LayersOf(made, kind) <=> Layer(o).kind = kind
    BY <1>4, <1>5 DEF LayersOf
  <2>3. ASSUME NEW k \in LayersOf(made, kind), k # 1 PROVE \E m \in LayersOf(layers, kind) : k = m + 1
    <3>1. PICK m \in 1 .. n : k = m + 1
      BY <1>4, <1>5, <2>3 DEF LayersOf
    <3>2. layers[m].kind = kind
      BY <1>4, <3>1 DEF LayersOf
    <3> QED BY <1>3, <3>1, <3>2 DEF LayersOf
  <2> QED BY <2>1, <2>2, <2>3
<1>7. OnceEach(more) /\ Range(more) = Range(options) \cup {o}
  <2>1. OnceEach(options)
    BY DEF Made
  <2> QED BY <2>1, AppendFacts
<1>8. LayersOf(layers, Layer(o).kind) = {}
  BY LayerType DEF Made
<1>9. OfKindOnce(made)
  <2>1. OfKindOnce(layers)
    BY DEF Made
  <2>2. \A k \in 1 .. n : layers[k].kind # Layer(o).kind
    BY <1>3, <1>8 DEF LayersOf
  <2>3. ASSUME NEW i \in 1 .. n + 1, NEW j \in 1 .. n + 1, made[i].kind = made[j].kind
        PROVE  i = j
    <3> HIDE DEF more
    <3>0. ASSUME NEW k \in 1 .. n + 1, k # 1 PROVE made[k].kind # made[1].kind
      <4>1. PICK m \in 1 .. n : k = m + 1
        BY <1>5, <3>0
      <4>2. made[k] = layers[m] /\ made[1] = Layer(o)
        BY <1>4, <4>1
      <4> QED BY <2>2, <4>2
    <3>1. CASE i = 1
      BY <2>3, <3>0, <3>1
    <3>2. CASE j = 1
      BY <2>3, <3>0, <3>2
    <3>3. CASE i # 1 /\ j # 1
      <4>1. PICK a \in 1 .. n, b \in 1 .. n : i = a + 1 /\ j = b + 1
        BY <1>5, <3>3
      <4>2. a = b
        BY <1>3, <1>4, <2>1, <2>3, <4>1 DEF OfKindOnce
      <4> QED BY <4>1, <4>2
    <3> QED BY <3>1, <3>2, <3>3
  <2> QED BY <1>4, <2>3 DEF OfKindOnce
<1>10. \A p : StreamerBefore(more, p)
                <=> StreamerBefore(options, p) \/ (p = o /\ "streamer" \in Range(options))
  BY StreamerBeforeMore
<1> HIDE DEF more
<1>11. ASSUME NEW i \in LayersOf(layers, "projecter") PROVE made[i + 1] = layers[i]
  BY <1>3, <1>4 DEF LayersOf
<1>12. LayersOf(layers, "projecter") \subseteq 1 .. n /\ LayersOf(layers, "streamer") \subseteq 1 .. n
  BY <1>3 DEF LayersOf
<1>13. CASE o \in Projecters
  <2>1. LayersOf(layers, "projecter") = {} /\ Layer(o) = [kind |-> "projecter", fns |-> <<o>>]
    BY <1>13, LayerType
  <2>2. /\ LayersOf(made, "projecter") = {1}
        /\ LayersOf(made, "streamer") = {m + 1 : m \in LayersOf(layers, "streamer")}
    BY <1>6, <2>1
  <2>3. Named(more) = {o} /\ "streamer" # o
    BY <1>7, <1>13, <2>1, OptionsAssumption DEF Made, Named
  <2>4. made[1].fns # <<>> /\ OnceEach(made[1].fns) /\ Range(made[1].fns) = Named(more)
    <3>1. made[1].fns = <<o>>
      BY <1>4, <2>1
    <3>2. <<o>> # <<>> /\ DOMAIN <<o>> = {1} /\ <<o>>[1] = o
      OBVIOUS
    <3> QED BY <2>3, <3>1, <3>2 DEF OnceEach, Range
  <2>5. LayersOf(made, "streamer") = {} <=> "streamer" \notin Range(more)
    <3>1. LayersOf(layers, "streamer") = {} <=> "streamer" \notin Range(options)
      BY DEF Made
    <3>2. "streamer" \in Range(more) <=> "streamer" \in Range(options)
      BY <1>7, <2>3
    <3>3. LayersOf(made, "streamer") = {} <=> LayersOf(layers, "streamer") = {}
      BY <2>2
    <3> QED BY <3>1, <3>2, <3>3
  <2>6. ASSUME NEW j \in LayersOf(made, "streamer") PROVE 1 < j /\ StreamerFirst(more)
    <3>1. PICK m \in LayersOf(layers, "streamer") : j = m + 1
      BY <2>2
    <3>2. m \in 1 .. n /\ "streamer" \in Range(options)
      BY <1>12 DEF Made
    <3>3. StreamerFirst(more)
      BY <1>10, <2>3, <3>2 DEF StreamerFirst
    <3> QED BY <3>1, <3>2, <3>3
  <2> QED BY <1>1, <1>4, <1>7, <1>9, <2>2, <2>4, <2>5, <2>6 DEF Made, more
<1>14. CASE o = "streamer"
  <2>1. o \notin Projecters /\ Layer(o) = [kind |-> "streamer", fns |-> <<>>]
    BY <1>14, LayerType, OptionsAssumption
  <2>2. /\ LayersOf(made, "projecter") = {m + 1 : m \in LayersOf(layers, "projecter")}
        /\ LayersOf(made, "streamer") = {1}
    <3>1. LayersOf(layers, "streamer") = {}
      BY <1>8, <2>1
    <3> QED BY <1>6, <2>1, <3>1
  <2>3. Named(more) = Named(options) /\ "streamer" \in Range(more) /\ "streamer" \notin Range(options)
    BY <1>7, <1>14, <2>1 DEF Named
  <2>4. ASSUME NEW i \in LayersOf(made, "projecter")
        PROVE  /\ made[i].fns # <<>> /\ OnceEach(made[i].fns) /\ Range(made[i].fns) = Named(more)
               /\ ~(i < 1) /\ ~StreamerFirst(more)
    <3>1. PICK m \in LayersOf(layers, "projecter") : i = m + 1
      BY <2>2
    <3>2. /\ made[i].fns # <<>> /\ OnceEach(made[i].fns) /\ Range(made[i].fns) = Named(options)
          /\ made[i].fns = layers[m].fns
      BY <1>11, <3>1 DEF Made
    <3>3. m \in 1 .. n /\ layers[m].fns \in Seq(Projecters)
      <4>1. m \in 1 .. n /\ layers[m] \in Layers
        BY <1>2, <1>12, ElementOfSeq
      <4> QED BY <4>1 DEF Layers
    <3>4. PICK p : p \in Named(more)
      <4>1. Len(layers[m].fns) \in Nat \ {0} /\ DOMAIN layers[m].fns = 1 .. Len(layers[m].fns)
        BY <3>2, <3>3, EmptySeq, LenProperties
      <4>2. 1 \in DOMAIN layers[m].fns
        BY <4>1
      <4> QED BY <2>3, <3>2, <4>2 DEF Range
    <3>5. ~StreamerBefore(more, p)
      BY <1>10, <2>3 DEF StreamerBefore, Range
    <3>6. ~StreamerFirst(more)
      BY <3>4, <3>5 DEF StreamerFirst
    <3> QED BY <2>3, <3>1, <3>2, <3>3, <3>6
  <2>5. LayersOf(made, "projecter") = {} => Named(more) = {}
    BY <2>2, <2>3 DEF Made
  <2> QED BY <1>1, <1>4, <1>7, <1>9, <2>2, <2>3, <2>4, <2>5 DEF Made, more
<1> QED BY <1>13, <1>14, OptionsAssumption

-----------------------------------------------------------------------------
(* The inductive invariant. *)
Jobs == [below : Nat, links : Seq(AllLinks)]

Types ==
  /\ chain \in Seq(Layers)
  /\ applied \in Seq(Options)
  /\ opened \in BOOLEAN
  /\ first \in [Sources -> Nat \ {0}]
  /\ last \in [Sources -> Nat]
  /\ jobs \subseteq Jobs
  /\ linked \in [LinkStreams -> Seq(AllLinks)]
  /\ starts \in [Sources -> SUBSET Nat]
  /\ lost \subseteq AllLinks

(* Links come in the order of their events, but for those of two appends:  *)
(* then one began behind the event that comes late.                        *)
InTurnOrApart(begun, l, n) ==
  l.stream = n.stream /\ n.pos < l.pos => begun[l.stream] \cap n.pos + 1 .. l.pos # {}

(* Goroutines append below the projecter, each its own links. *)
JobsFine(running, layers, begun) ==
  /\ \A job \in running :
       /\ OnceEach(job.links) /\ EventByEvent(job.links)
       /\ \E i \in LayersOf(layers, "projecter") : job.below = i + 1
  /\ \A job, other \in running : job # other =>
       /\ Range(job.links) \cap Range(other.links) = {}
       /\ \A l \in Range(job.links), n \in Range(other.links) : InTurnOrApart(begun, l, n)

StreamsFine(streams, begun) ==
  \A t \in LinkStreams :
    /\ OnceEach(streams[t])
    /\ \A k \in DOMAIN streams[t] : streams[t][k].to = t
    /\ \A k, m \in DOMAIN streams[t] :
         k < m => InTurnOrApart(begun, streams[t][k], streams[t][m])

InJobs(running) == UNION {Range(job.links) : job \in running}
InStreams(streams) == UNION {Range(streams[t]) : t \in LinkStreams}

(* Links are in one place and point to stored events; every link that an   *)
(* event should have is somewhere.                                         *)
PlacesFine(there, ahead, gone, until, named) ==
  /\ there \cap ahead = {} /\ there \cap gone = {} /\ ahead \cap gone = {}
  /\ \A l \in there \cup ahead \cup gone : l.pos \in 1 .. until[l.stream]
  /\ \A s \in Sources : LinksTo(named, s, 1, until[s]) \subseteq there \cup ahead \cup gone

JobsOK    == JobsFine(jobs, chain, starts)
StreamsOK == StreamsFine(linked, starts)
PlacesOK  == PlacesFine(InStreams(linked), InJobs(jobs), lost, last, Named(applied))
AheadOK   == \A l \in InStreams(linked), n \in InJobs(jobs) : InTurnOrApart(starts, l, n)
ClosedOK  == ~opened => jobs = {} /\ \A s \in Sources : last[s] = 0

(* Subscribers hear of the links when the streamer lies below the projecter. *)
Heard  == EventStream(chain) # 0 /\ StreamerFirst(applied)
SentOK ==
  /\ fails \in Nat
  /\ sent \cup sends \cup unsent = IF Heard THEN InStreams(linked) ELSE {}
  /\ sent \cap sends = {} /\ (sent \cup sends) \cap unsent = {}
  /\ fails = 0 => unsent = {}

LinksInv ==
  /\ Types
  /\ Made(chain, applied)
  /\ JobsOK /\ StreamsOK /\ PlacesOK /\ AheadOK
  /\ ClosedOK
  /\ SentOK

-----------------------------------------------------------------------------
(* What a goroutine has left after its first link. *)
LEMMA TailFacts ==
  ASSUME NEW links \in Seq(AllLinks), links # <<>>
  PROVE  /\ Head(links) \in AllLinks /\ Tail(links) \in Seq(AllLinks)
         /\ Range(links) = {Head(links)} \cup Range(Tail(links))
         /\ OnceEach(links) => OnceEach(Tail(links)) /\ Head(links) \notin Range(Tail(links))
         /\ EventByEvent(links) =>
              /\ EventByEvent(Tail(links))
              /\ \A l \in Range(Tail(links)) :
                   l.stream = Head(links).stream /\ Head(links).pos <= l.pos
<1> DEFINE tail == Tail(links)
<1>1. Len(links) \in Nat /\ Len(links) # 0 /\ DOMAIN links = 1 .. Len(links)
  BY EmptySeq, LenProperties
<1>2. PICK n \in Nat : Len(links) = n + 1
  <2>1. Len(links) - 1 \in Nat /\ Len(links) = Len(links) - 1 + 1
    BY <1>1
  <2> QED BY <2>1
<1>3. /\ Head(links) = links[1] /\ Head(links) \in AllLinks /\ tail \in Seq(AllLinks)
      /\ DOMAIN links = 1 .. n + 1
      /\ DOMAIN tail = 1 .. n
      /\ \A i \in 1 .. n : tail[i] = links[i + 1]
  <2>1. /\ Head(links) \in AllLinks /\ tail \in Seq(AllLinks) /\ Len(tail) = Len(links) - 1
        /\ \A i \in 1 .. Len(tail) : tail[i] = links[i + 1]
    BY HeadTailProperties
  <2>2. Len(tail) = n
    BY <1>2, <2>1
  <2>3. Head(links) = links[1]
    BY <1>1
  <2>4. DOMAIN tail = 1 .. Len(tail)
    BY <2>1, LenProperties
  <2> QED BY <1>1, <1>2, <2>1, <2>2, <2>3, <2>4
<1> HIDE DEF tail
<1>4. /\ 1 \in 1 .. n + 1
      /\ \A i \in 1 .. n : i + 1 \in 1 .. n + 1 /\ i + 1 # 1 /\ 1 < i + 1
      /\ \A i \in 1 .. n + 1 : i = 1 \/ \E m \in 1 .. n : i = m + 1
      /\ \A i, k \in 1 .. n : (i + 1 = k + 1 => i = k) /\ (i < k => i + 1 < k + 1)
  <2>1. \A i \in 1 .. n + 1 : i = 1 \/ (i - 1 \in 1 .. n /\ i = i - 1 + 1)
    OBVIOUS
  <2> QED BY <2>1
<1>5. Range(links) = {Head(links)} \cup Range(tail)
  <2>1. ASSUME NEW l \in Range(tail) PROVE l \in Range(links)
    <3>1. PICK i \in 1 .. n : l = tail[i]
      BY <1>3 DEF Range
    <3>2. PICK m \in 1 .. n + 1 : m = i + 1
      BY <1>4
    <3> QED BY <1>3, <3>1, <3>2 DEF Range
  <2>2. Head(links) \in Range(links)
    BY <1>3, <1>4 DEF Range
  <2>3. ASSUME NEW l \in Range(links), l # Head(links) PROVE l \in Range(tail)
    <3>1. PICK i \in 1 .. n + 1 : l = links[i] /\ i # 1
      BY <1>3, <2>3 DEF Range
    <3>2. PICK m \in 1 .. n : i = m + 1
      BY <1>4, <3>1
    <3> QED BY <1>3, <3>1, <3>2 DEF Range
  <2> QED BY <2>1, <2>2, <2>3
<1>6. ASSUME OnceEach(links) PROVE OnceEach(tail) /\ Head(links) \notin Range(tail)
  <2>1. \A i, k \in 1 .. n + 1 : links[i] = links[k] => i = k
    BY <1>3, <1>6 DEF OnceEach
  <2>2. ASSUME NEW i \in 1 .. n, NEW k \in 1 .. n, tail[i] = tail[k] PROVE i = k
    BY <1>3, <1>4, <2>1, <2>2
  <2>3. ASSUME NEW i \in 1 .. n PROVE tail[i] # Head(links)
    BY <1>3, <1>4, <2>1
  <2> QED BY <1>3, <2>2, <2>3 DEF OnceEach, Range
<1>7. ASSUME EventByEvent(links)
      PROVE  /\ EventByEvent(tail)
             /\ \A l \in Range(tail) : l.stream = Head(links).stream /\ Head(links).pos <= l.pos
  <2>1. \A i, k \in 1 .. n + 1 :
          i < k => links[i].stream = links[k].stream /\ links[i].pos <= links[k].pos
    BY <1>3, <1>7 DEF EventByEvent
  <2>2. ASSUME NEW i \in 1 .. n, NEW k \in 1 .. n, i < k
        PROVE  tail[i].stream = tail[k].stream /\ tail[i].pos <= tail[k].pos
    BY <1>3, <1>4, <2>1, <2>2
  <2>3. ASSUME NEW i \in 1 .. n
        PROVE  tail[i].stream = Head(links).stream /\ Head(links).pos <= tail[i].pos
    BY <1>3, <1>4, <2>1
  <2> QED BY <1>3, <2>2, <2>3 DEF EventByEvent, Range
<1> QED BY <1>3, <1>5, <1>6, <1>7 DEF tail

LEMMA RestFine ==
  ASSUME NEW running \in SUBSET Jobs, NEW layers, NEW begun, JobsFine(running, layers, begun),
         NEW job \in running, job.links # <<>>,
         NEW then, then = (running \ {job}) \cup {Rest(job)}
  PROVE  /\ then \subseteq Jobs
         /\ JobsFine(then, layers, begun)
         /\ Head(job.links) \in InJobs(running) \cap AllLinks
         /\ InJobs(then) = InJobs(running) \ {Head(job.links)}
         /\ \A n \in InJobs(then) : InTurnOrApart(begun, Head(job.links), n)
<1> DEFINE rest == Rest(job)
           h == Head(job.links)
<1>1. /\ job = [below |-> job.below, links |-> job.links]
      /\ job.below \in Nat /\ job.links \in Seq(AllLinks)
      /\ OnceEach(job.links) /\ EventByEvent(job.links)
      /\ \E i \in LayersOf(layers, "projecter") : job.below = i + 1
  BY DEF Jobs, JobsFine
<1>2. rest.below = job.below /\ rest.links = Tail(job.links)
  BY <1>1 DEF Rest
<1>3. /\ h \in AllLinks /\ rest.links \in Seq(AllLinks)
      /\ Range(job.links) = {h} \cup Range(rest.links) /\ h \notin Range(rest.links)
      /\ OnceEach(rest.links) /\ EventByEvent(rest.links)
      /\ \A l \in Range(rest.links) : l.stream = h.stream /\ h.pos <= l.pos
  BY <1>1, <1>2, TailFacts
<1>4. rest \in Jobs
  <2>1. rest = [below |-> job.below, links |-> Tail(job.links)]
    BY <1>1 DEF Rest
  <2> QED BY <1>1, <1>2, <1>3, <2>1 DEF Jobs
<1> HIDE DEF rest, h
<1>5. then = (running \ {job}) \cup {rest}
  BY DEF rest
<1>6. \A other \in running : other # job =>
        /\ Range(job.links) \cap Range(other.links) = {}
        /\ \A l \in Range(job.links), n \in Range(other.links) :
             InTurnOrApart(begun, l, n) /\ InTurnOrApart(begun, n, l)
  BY DEF JobsFine
<1>7. ASSUME NEW a \in then
      PROVE  /\ OnceEach(a.links) /\ EventByEvent(a.links)
             /\ \E i \in LayersOf(layers, "projecter") : a.below = i + 1
  BY <1>1, <1>2, <1>3, <1>5 DEF JobsFine
<1>8. ASSUME NEW a \in then, NEW b \in then, a # b
      PROVE  /\ Range(a.links) \cap Range(b.links) = {}
             /\ \A l \in Range(a.links), n \in Range(b.links) : InTurnOrApart(begun, l, n)
  <2>1. CASE a \in running \ {job} /\ b \in running \ {job}
    BY <1>8, <2>1 DEF JobsFine
  <2>2. CASE a = rest /\ b \in running \ {job}
    BY <1>3, <1>6, <2>2
  <2>3. CASE b = rest /\ a \in running \ {job}
    BY <1>3, <1>6, <2>3
  <2> QED BY <1>5, <1>8, <2>1, <2>2, <2>3
<1>9. JobsFine(then, layers, begun)
  BY <1>7, <1>8 DEF JobsFine
<1>10. h \in InJobs(running)
  BY <1>3 DEF InJobs
<1>11. InJobs(then) = InJobs(running) \ {h}
  <2>1. ASSUME NEW l \in InJobs(then) PROVE l \in InJobs(running) /\ l # h
    BY <1>3, <1>5, <1>6, <2>1 DEF InJobs
  <2>2. ASSUME NEW l \in InJobs(running), l # h PROVE l \in InJobs(then)
    BY <1>3, <1>5, <2>2 DEF InJobs
  <2> QED BY <1>10, <2>1, <2>2
<1>12. ASSUME NEW n \in InJobs(then) PROVE InTurnOrApart(begun, h, n)
  <2>1. PICK a \in then : n \in Range(a.links)
    BY DEF InJobs
  <2>2. CASE a = rest
    <3>1. n \in AllLinks /\ h.pos <= n.pos
      <4>1. n \in Range(job.links)
        BY <1>3, <2>1, <2>2
      <4>2. DOMAIN job.links = 1 .. Len(job.links)
        BY <1>1, LenProperties
      <4>3. n \in AllLinks
        BY <1>1, <4>1, <4>2, ElementOfSeq DEF Range
      <4> QED BY <1>3, <2>1, <2>2, <4>3
    <3>2. n.pos \in Nat /\ h.pos \in Nat
      BY <1>3, <3>1 DEF AllLinks
    <3>3. ~(n.pos < h.pos)
      BY <3>1, <3>2
    <3> QED BY <3>3 DEF InTurnOrApart
  <2>3. CASE a \in running \ {job}
    BY <1>3, <1>6, <2>1, <2>3
  <2> QED BY <1>5, <2>2, <2>3
<1> QED BY <1>3, <1>4, <1>5, <1>9, <1>10, <1>11, <1>12 DEF h

LEMMA FewerFine ==
  ASSUME NEW running, NEW then \in SUBSET running, NEW layers, NEW begun,
         JobsFine(running, layers, begun)
  PROVE  JobsFine(then, layers, begun) /\ InJobs(then) \subseteq InJobs(running)
BY DEF JobsFine, InJobs

(* Without the goroutines that have no links left there are as many links. *)
LEMMA RunningFine ==
  ASSUME NEW all \in SUBSET Jobs, NEW layers, NEW begun, JobsFine(all, layers, begun)
  PROVE  /\ Running(all) \subseteq Jobs
         /\ JobsFine(Running(all), layers, begun)
         /\ InJobs(Running(all)) = InJobs(all)
<1>1. Running(all) \in SUBSET all
  BY DEF Running
<1>2. JobsFine(Running(all), layers, begun) /\ InJobs(Running(all)) \subseteq InJobs(all)
  BY <1>1, FewerFine
<1>3. ASSUME NEW l \in InJobs(all) PROVE l \in InJobs(Running(all))
  <2>1. PICK job \in all : l \in Range(job.links)
    BY DEF InJobs
  <2>2. job.links # <<>>
    <3>1. DOMAIN <<>> = {}
      OBVIOUS
    <3> QED BY <2>1, <3>1 DEF Range
  <2> QED BY <2>1, <2>2 DEF InJobs, Running
<1> QED BY <1>1, <1>2, <1>3

(* A link is appended to its stream. *)
LEMMA StreamsMore ==
  ASSUME NEW streams \in [LinkStreams -> Seq(AllLinks)], NEW begun, StreamsFine(streams, begun),
         NEW l \in AllLinks, l \notin InStreams(streams),
         \A n \in InStreams(streams) : InTurnOrApart(begun, n, l),
         NEW then, then = [streams EXCEPT ![l.to] = Append(@, l)]
  PROVE  /\ then \in [LinkStreams -> Seq(AllLinks)]
         /\ StreamsFine(then, begun)
         /\ InStreams(then) = InStreams(streams) \cup {l}
<1>1. PICK to \in LinkStreams : to = l.to
  BY DEF AllLinks
<1>2. PICK old \in Seq(AllLinks) : old = streams[to]
  OBVIOUS
<1>3. PICK n \in Nat : n = Len(old)
  BY LenProperties
<1> DEFINE new == Append(old, l)
<1>4. Range(old) \subseteq InStreams(streams)
  BY <1>2 DEF InStreams
<1>5. /\ new \in Seq(AllLinks) /\ DOMAIN old = 1 .. n /\ DOMAIN new = 1 .. n + 1
      /\ \A k \in 1 .. n : new[k] = old[k]
      /\ new[n + 1] = l /\ Range(new) = Range(old) \cup {l}
      /\ OnceEach(new)
  <2>1. OnceEach(old)
    BY <1>2 DEF StreamsFine
  <2> QED BY <1>3, <1>4, <2>1, AppendFacts
<1>6. then = [streams EXCEPT ![to] = new]
  BY <1>1, <1>2
<1> HIDE DEF new
<1>7. /\ then \in [LinkStreams -> Seq(AllLinks)] /\ then[to] = new
      /\ \A t \in LinkStreams : t # to => then[t] = streams[t]
  BY <1>5, <1>6
<1>8. \A k \in 1 .. n + 1 : (k \in 1 .. n /\ k < n + 1) \/ k = n + 1
  OBVIOUS
<1>9. \A k \in 1 .. n + 1 : new[k].to = to
  BY <1>1, <1>2, <1>5, <1>8 DEF StreamsFine
<1>10. ASSUME NEW k \in 1 .. n + 1, NEW m \in 1 .. n + 1, k < m
       PROVE  InTurnOrApart(begun, new[k], new[m])
  <2>1. k \in 1 .. n
    BY <1>10
  <2>2. CASE m = n + 1
    BY <1>4, <1>5, <2>1, <2>2 DEF Range
  <2>3. CASE m \in 1 .. n
    BY <1>2, <1>5, <1>10, <2>1, <2>3 DEF StreamsFine
  <2> QED BY <1>8, <2>2, <2>3
<1>11. StreamsFine(then, begun)
  <2>1. ASSUME NEW t \in LinkStreams, t = to
        PROVE  /\ OnceEach(then[t]) /\ \A k \in DOMAIN then[t] : then[t][k].to = t
               /\ \A k, m \in DOMAIN then[t] :
                    k < m => InTurnOrApart(begun, then[t][k], then[t][m])
    <3>1. then[t] = new /\ DOMAIN new = 1 .. n + 1 /\ OnceEach(new)
      BY <1>5, <1>7, <2>1
    <3>2. \A k \in DOMAIN new : new[k].to = t
      BY <1>9, <2>1, <3>1
    <3>3. \A k, m \in DOMAIN new : k < m => InTurnOrApart(begun, new[k], new[m])
      BY <1>10, <3>1
    <3> QED BY <3>1, <3>2, <3>3
  <2> QED BY <1>7, <2>1 DEF StreamsFine
<1>12. InStreams(then) = InStreams(streams) \cup {l}
  <2>1. ASSUME NEW t \in LinkStreams PROVE Range(then[t]) \subseteq Range(streams[t]) \cup {l}
    BY <1>2, <1>5, <1>7
  <2>2. ASSUME NEW t \in LinkStreams PROVE Range(streams[t]) \subseteq Range(then[t])
    BY <1>2, <1>5, <1>7
  <2>3. l \in Range(then[to])
    BY <1>5, <1>7
  <2> QED BY <2>1, <2>2, <2>3 DEF InStreams
<1> QED BY <1>7, <1>11, <1>12

-----------------------------------------------------------------------------
(* An append to the whole chain forks one goroutine at most, which is to   *)
(* append the links of all the projecters; one below the projecter, none.  *)
LEMMA ForksFacts ==
  ASSUME Types, Made(chain, applied), NEW begun,
         NEW s \in Sources, NEW i \in Nat \ {0}, NEW j \in Nat, i <= j
  PROVE  /\ Forks(1, s, i, j) \subseteq Jobs
         /\ JobsFine(Forks(1, s, i, j), chain, begun)
         /\ InJobs(Forks(1, s, i, j)) = LinksTo(Named(applied), s, i, j)
<1> DEFINE forks == Forks(1, s, i, j)
           others == LayersOf(chain, "projecter")
<1>1. DOMAIN chain = 1 .. Len(chain) /\ Len(chain) \in Nat
  BY LenProperties DEF Types
<1>2. forks = {[below |-> p + 1, links |-> LinksOf(chain[p].fns, s, i, j)] : p \in others}
  <2>1. \A p \in others : 1 <= p
    BY <1>1 DEF LayersOf
  <2>2. Passed(chain, 1, "projecter") = others
    BY <2>1 DEF Passed
  <2> QED BY <2>2 DEF Forks
<1> HIDE DEF forks
<1>3. ASSUME NEW p \in others
      PROVE  /\ p \in Nat
             /\ LinksOf(chain[p].fns, s, i, j) \in Seq(AllLinks)
             /\ OnceEach(LinksOf(chain[p].fns, s, i, j))
             /\ EventByEvent(LinksOf(chain[p].fns, s, i, j))
             /\ Range(LinksOf(chain[p].fns, s, i, j)) = LinksTo(Named(applied), s, i, j)
  <2>1. p \in Nat /\ chain[p] \in Layers
    BY <1>1, ElementOfSeq DEF LayersOf, Types
  <2>2. chain[p].fns \in Seq(Projecters)
    BY <2>1 DEF Layers
  <2>3. OnceEach(chain[p].fns) /\ Range(chain[p].fns) = Named(applied)
    BY DEF Made
  <2>4. PICK fns \in Seq(Projecters) : fns = chain[p].fns
    BY <2>2
  <2> QED BY <2>1, <2>3, <2>4, LinksOfFacts
<1>4. \A p, q \in others : p = q
  BY DEF Made, OfKindOnce, LayersOf
<1>5. \A job, other \in forks : job = other
  BY <1>2, <1>4
<1>6. ASSUME NEW job \in forks
      PROVE  /\ job \in Jobs /\ OnceEach(job.links) /\ EventByEvent(job.links)
             /\ \E p \in others : job.below = p + 1
             /\ Range(job.links) = LinksTo(Named(applied), s, i, j)
  <2>1. PICK p \in others : job = [below |-> p + 1, links |-> LinksOf(chain[p].fns, s, i, j)]
    BY <1>2
  <2>2. PICK links \in Seq(AllLinks) : links = LinksOf(chain[p].fns, s, i, j)
    BY <1>3
  <2>3. p + 1 \in Nat
    BY <1>3
  <2> HIDE DEF others
  <2>4. job = [below |-> p + 1, links |-> links]
    BY <2>1, <2>2
  <2>5. job \in Jobs /\ job.below = p + 1 /\ job.links = links
    BY <2>3, <2>4 DEF Jobs
  <2> QED BY <1>3, <2>2, <2>5
<1>7. JobsFine(forks, chain, begun)
  BY <1>5, <1>6 DEF JobsFine
<1>8. InJobs(forks) = LinksTo(Named(applied), s, i, j)
  <2>1. CASE others = {}
    <3>1. forks = {}
      BY <1>2, <2>1
    <3>2. Named(applied) = {}
      BY <2>1 DEF Made
    <3> QED BY <3>1, <3>2 DEF InJobs, LinksTo
  <2>2. CASE others # {}
    <3>1. PICK p : p \in others
      BY <2>2
    <3>2. forks # {}
      BY <1>2, <3>1
    <3> QED BY <1>6, <3>2 DEF InJobs
  <2> QED BY <2>1, <2>2
<1> QED BY <1>6, <1>7, <1>8 DEF forks

LEMMA NoForks ==
  ASSUME Types, Made(chain, applied), NEW p \in LayersOf(chain, "projecter"),
         NEW s, NEW i, NEW j
  PROVE  Forks(p + 1, s, i, j) = {}
<1>1. p \in Nat
  BY LenProperties DEF LayersOf, Types
<1>2. \A q \in LayersOf(chain, "projecter") : q = p
  BY DEF Made, OfKindOnce, LayersOf
<1>3. ~(p + 1 <= p)
  BY <1>1
<1>4. Passed(chain, p + 1, "projecter") = {}
  BY <1>2, <1>3 DEF Passed
<1> QED BY <1>4 DEF Forks

(* What is appended below the projecter passes the streamer exactly when   *)
(* subscribers are to hear of it.                                          *)
LEMMA HeardBelow ==
  ASSUME Types, Made(chain, applied), NEW p \in LayersOf(chain, "projecter")
  PROVE  Passed(chain, p + 1, "streamer") # {} <=> Heard
<1> DEFINE found == LayersOf(chain, "streamer")
<1>1. DOMAIN chain = 1 .. Len(chain) /\ Len(chain) \in Nat
  BY LenProperties DEF Types
<1>2. p \in Nat /\ \A j \in found : j \in Nat /\ j # 0 /\ j # p
  <2>1. chain[p].kind = "projecter" /\ \A j \in found : chain[j].kind = "streamer"
    BY DEF LayersOf
  <2> QED BY <1>1, <2>1 DEF LayersOf
<1>3. EventStream(chain) # 0 <=> found # {}
  <2>1. CASE found = {}
    BY <2>1 DEF EventStream
  <2>2. CASE found # {}
    <3>1. found \in SUBSET Nat
      BY <1>2
    <3>2. \E m \in found : \A j \in found : m <= j
      <4> HIDE DEF found
      <4> QED BY <2>2, <3>1, LeastOf
    <3>3. EventStream(chain) = CHOOSE i \in found : \A j \in found : i <= j
      BY <2>2 DEF EventStream
    <3>4. EventStream(chain) \in found
      <4> HIDE DEF found
      <4> QED BY <3>2, <3>3
    <3> QED BY <1>2, <2>2, <3>4
  <2> QED BY <2>1, <2>2
<1>4. \A j \in found : p < j <=> StreamerFirst(applied)
  BY DEF Made
<1>5. \A j \in found : p + 1 <= j <=> p < j
  BY <1>2
<1>6. Passed(chain, p + 1, "streamer") = {j \in found : p + 1 <= j}
  BY DEF Passed
<1> HIDE DEF found
<1> QED BY <1>3, <1>4, <1>5, <1>6 DEF Heard

LEMMA SentToHeard == SentOK => LinksAreSent
<1>1. \A p : Before("streamer", p) <=> StreamerBefore(applied, p)
  BY DEF Before, StreamerBefore
<1> QED BY <1>1 DEF LinksAreSent, SubscribersHear, SentOK, Heard, StreamerFirst, Named, InStreams

(* What does not touch the links in their streams and what is told of them. *)
LEMMA SentStays ==
  ASSUME SentOK, UNCHANGED <<chain, applied, linked, news>>, fails' \in {fails, fails + 1}
  PROVE  SentOK'
<1>1. UNCHANGED <<chain, applied, linked, sends, sent, unsent>>
  BY DEF news
<1>2. fails' \in Nat /\ (fails' = 0 => fails = 0)
  BY DEF SentOK
<1> QED BY <1>1, <1>2 DEF SentOK, Heard

-----------------------------------------------------------------------------
(* New events and their links. *)
LEMMA LinksAre ==
  ASSUME Types
  PROVE  InStreams(linked) \subseteq AllLinks /\ InJobs(jobs) \subseteq AllLinks
<1>1. ASSUME NEW links \in Seq(AllLinks) PROVE Range(links) \subseteq AllLinks
  <2>1. DOMAIN links = 1 .. Len(links) /\ \A k \in 1 .. Len(links) : links[k] \in AllLinks
    BY LenProperties, ElementOfSeq
  <2> QED BY <2>1 DEF Range
<1>2. \A t \in LinkStreams : linked[t] \in Seq(AllLinks)
  BY DEF Types
<1>3. \A job \in jobs : job.links \in Seq(AllLinks)
  BY DEF Types, Jobs
<1> QED BY <1>1, <1>2, <1>3 DEF InStreams, InJobs

LEMMA LinkFields ==
  /\ \A l \in AllLinks : l.stream \in Sources /\ l.pos \in Nat /\ l.to \in LinkStreams
  /\ \A o, s, i : /\ Link(o, s, i).to = Targets[o[1]][o[2]] /\ Link(o, s, i).stream = s
                  /\ Link(o, s, i).pos = i
BY DEF AllLinks, Link

LEMMA NamedLinks ==
  ASSUME NEW named \in SUBSET Projecters, NEW s \in Sources, NEW i \in Nat, NEW j \in Nat
  PROVE  LinksTo(named, s, i, j) \subseteq AllLinks
<1>1. UNION {Range(Outputs(p)) : p \in named} \subseteq AllOutputs
  BY DEF AllOutputs
<1>2. i .. j \subseteq Nat
  OBVIOUS
<1>3. \A o \in AllOutputs, e \in Nat : Link(o, s, e) \in AllLinks
  BY LinkType
<1> QED BY <1>1, <1>2, <1>3 DEF LinksTo

Raised(f, k, v) == [f EXCEPT ![k] = v]

(* New links are apart from all others, and may wait or be lost. *)
Placed(there, ahead, gone, named, s, u, n, new, then) ==
  /\ then \in [Sources -> Nat]
  /\ \A l \in new : l.stream = s /\ l.pos \in u + 1 .. u + n
  /\ new \cap (there \cup ahead \cup gone) = {}
  /\ PlacesFine(there, ahead \cup new, gone, then, named)
  /\ PlacesFine(there, ahead, gone \cup new, then, named)

LEMMA PlacesMore ==
  ASSUME NEW there \in SUBSET AllLinks, NEW ahead \in SUBSET AllLinks, NEW gone \in SUBSET AllLinks,
         NEW until \in [Sources -> Nat], NEW named \in SUBSET Projecters,
         PlacesFine(there, ahead, gone, until, named),
         NEW s \in Sources, NEW n \in Nat,
         NEW new, new = LinksTo(named, s, until[s] + 1, until[s] + n),
         NEW then, then = Raised(until, s, until[s] + n)
  PROVE  Placed(there, ahead, gone, named, s, until[s], n, new, then)
<1>1. PICK u \in Nat : u = until[s]
  OBVIOUS
<1>2. /\ then \in [Sources -> Nat] /\ then[s] = u + n
      /\ \A r \in Sources : r # s => then[r] = until[r]
  <2>1. u + n \in Nat
    OBVIOUS
  <2> QED BY <1>1, <2>1 DEF Raised
<1>3. \A l \in new : l.stream = s /\ l.pos \in u + 1 .. u + n
  BY <1>1, LinkFields DEF LinksTo
<1>4. \A l \in there \cup ahead \cup gone : l.pos \in 1 .. until[l.stream] /\ l.stream \in Sources
  BY LinkFields DEF PlacesFine
<1>5. \A e \in u + 1 .. u + n : e \notin 1 .. u /\ e \in 1 .. u + n
  OBVIOUS
<1>6. new \cap (there \cup ahead \cup gone) = {}
  BY <1>1, <1>3, <1>4, <1>5
<1>7. ASSUME NEW l \in there \cup ahead \cup gone \cup new PROVE l.pos \in 1 .. then[l.stream]
  <2>1. CASE l \in new
    BY <1>2, <1>3, <1>5, <2>1
  <2>2. CASE l \in there \cup ahead \cup gone
    <3>1. 1 .. u \subseteq 1 .. u + n
      OBVIOUS
    <3> QED BY <1>1, <1>2, <1>4, <2>2, <3>1
  <2> QED BY <2>1, <2>2
<1>8. ASSUME NEW r \in Sources
      PROVE  LinksTo(named, r, 1, then[r]) \subseteq there \cup ahead \cup gone \cup new
  <2>1. LinksTo(named, r, 1, until[r]) \subseteq there \cup ahead \cup gone
    BY DEF PlacesFine
  <2>2. CASE r # s
    BY <1>2, <2>1, <2>2
  <2>3. CASE r = s
    <3>1. 1 .. u + n = 1 .. u \cup u + 1 .. u + n
      OBVIOUS
    <3>2. LinksTo(named, s, 1, u + n) = LinksTo(named, s, 1, u) \cup LinksTo(named, s, u + 1, u + n)
      BY <3>1 DEF LinksTo
    <3> QED BY <1>1, <1>2, <2>1, <2>3, <3>2
  <2> QED BY <2>2, <2>3
<1>9. there \cap ahead = {} /\ there \cap gone = {} /\ ahead \cap gone = {}
  BY DEF PlacesFine
<1>10. PlacesFine(there, ahead \cup new, gone, then, named)
  BY <1>6, <1>7, <1>8, <1>9 DEF PlacesFine
<1>11. PlacesFine(there, ahead, gone \cup new, then, named)
  BY <1>6, <1>7, <1>8, <1>9 DEF PlacesFine
<1> QED BY <1>1, <1>2, <1>3, <1>6, <1>10, <1>11 DEF Placed

(* The links of an append are apart from those of the appends before it. *)
LEMMA NewApart ==
  ASSUME NEW begun \in [Sources -> SUBSET Nat], NEW until \in [Sources -> Nat],
         NEW s \in Sources, NEW n \in Nat,
         NEW l \in AllLinks, l.stream = s, l.pos \in until[s] + 1 .. until[s] + n,
         NEW old \in AllLinks, old.pos \in 1 .. until[old.stream],
         NEW more, more = Raised(begun, s, begun[s] \cup {until[s] + 1})
  PROVE  InTurnOrApart(more, old, l) /\ InTurnOrApart(more, l, old)
<1>1. PICK u \in Nat : u = until[s]
  OBVIOUS
<1>2. l.pos \in Nat /\ old.pos \in Nat /\ u + 1 <= l.pos
  BY <1>1, LinkFields
<1>3. old.stream = s => old.pos <= u
  BY <1>1
<1>4. u + 1 \in more[s]
  BY <1>1 DEF Raised
<1>5. ASSUME old.stream = s PROVE u + 1 \in old.pos + 1 .. l.pos /\ ~(l.pos < old.pos)
  BY <1>2, <1>3, <1>5
<1>6. InTurnOrApart(more, old, l)
  BY <1>5 DEF InTurnOrApart
<1>7. InTurnOrApart(more, l, old)
  BY <1>4, <1>5 DEF InTurnOrApart
<1> QED BY <1>6, <1>7

(* What was in turn, or apart, still is when another append begins. *)
LEMMA StillApart ==
  ASSUME NEW begun, NEW more, \A s \in Sources : begun[s] \subseteq more[s],
         NEW l \in AllLinks, NEW n, InTurnOrApart(begun, l, n)
  PROVE  InTurnOrApart(more, l, n)
BY LinkFields DEF InTurnOrApart

LEMMA StillFine ==
  ASSUME Types, NEW more, \A s \in Sources : starts[s] \subseteq more[s],
         JobsOK, StreamsOK, AheadOK
  PROVE  /\ JobsFine(jobs, chain, more)
         /\ StreamsFine(linked, more)
         /\ \A l \in InStreams(linked), n \in InJobs(jobs) : InTurnOrApart(more, l, n)
<1>1. \A job \in jobs : \A l \in Range(job.links) : l \in AllLinks
  BY LinksAre DEF InJobs
<1>2. \A t \in LinkStreams : \A k \in DOMAIN linked[t] : linked[t][k] \in AllLinks
  BY LinksAre DEF InStreams, Range
<1>3. JobsFine(jobs, chain, more)
  <2>1. ASSUME NEW job \in jobs, NEW other \in jobs, job # other,
               NEW l \in Range(job.links), NEW n \in Range(other.links)
        PROVE  InTurnOrApart(more, l, n)
    <3>1. InTurnOrApart(starts, l, n)
      BY <2>1 DEF JobsOK, JobsFine
    <3> QED BY <1>1, <3>1, StillApart
  <2> QED BY <2>1 DEF JobsOK, JobsFine
<1>4. StreamsFine(linked, more)
  <2>1. ASSUME NEW t \in LinkStreams, NEW k \in DOMAIN linked[t], NEW m \in DOMAIN linked[t], k < m
        PROVE  InTurnOrApart(more, linked[t][k], linked[t][m])
    <3>1. InTurnOrApart(starts, linked[t][k], linked[t][m])
      BY <2>1 DEF StreamsOK, StreamsFine
    <3>2. PICK l \in AllLinks : l = linked[t][k]
      BY <1>2
    <3>3. PICK n : n = linked[t][m]
      OBVIOUS
    <3>4. InTurnOrApart(more, l, n)
      BY <3>1, <3>2, <3>3, StillApart
    <3> QED BY <3>2, <3>3, <3>4
  <2> QED BY <2>1 DEF StreamsOK, StreamsFine
<1>5. \A l \in InStreams(linked), n \in InJobs(jobs) : InTurnOrApart(more, l, n)
  BY LinksAre, StillApart DEF AheadOK
<1> QED BY <1>3, <1>4, <1>5

LEMMA JobsJoin ==
  ASSUME NEW running, NEW forks, NEW layers, NEW begun,
         JobsFine(running, layers, begun), JobsFine(forks, layers, begun),
         InJobs(running) \cap InJobs(forks) = {},
         \A l \in InJobs(running), n \in InJobs(forks) :
           InTurnOrApart(begun, l, n) /\ InTurnOrApart(begun, n, l)
  PROVE  /\ JobsFine(running \cup forks, layers, begun)
         /\ InJobs(running \cup forks) = InJobs(running) \cup InJobs(forks)
<1>1. InJobs(running \cup forks) = InJobs(running) \cup InJobs(forks)
  BY DEF InJobs
<1>2. /\ \A job \in running : Range(job.links) \subseteq InJobs(running)
      /\ \A job \in forks : Range(job.links) \subseteq InJobs(forks)
  BY DEF InJobs
<1>3. ASSUME NEW job \in running \cup forks
      PROVE  /\ OnceEach(job.links) /\ EventByEvent(job.links)
             /\ \E i \in LayersOf(layers, "projecter") : job.below = i + 1
  BY DEF JobsFine
<1>4. ASSUME NEW job \in running \cup forks, NEW other \in running \cup forks, job # other
      PROVE  /\ Range(job.links) \cap Range(other.links) = {}
             /\ \A l \in Range(job.links), n \in Range(other.links) : InTurnOrApart(begun, l, n)
  <2>1. CASE job \in running /\ other \in running
    BY <1>4, <2>1 DEF JobsFine
  <2>2. CASE job \in forks /\ other \in forks
    BY <1>4, <2>2 DEF JobsFine
  <2>3. CASE job \in running /\ other \in forks
    BY <1>2, <2>3
  <2>4. CASE job \in forks /\ other \in running
    BY <1>2, <2>4
  <2> QED BY <2>1, <2>2, <2>3, <2>4
<1>5. JobsFine(running \cup forks, layers, begun)
  BY <1>3, <1>4 DEF JobsFine
<1> QED BY <1>1, <1>5

-----------------------------------------------------------------------------
(* Every step keeps the inductive invariant. *)
LEMMA InitInv == Init => LinksInv
<1> SUFFICES ASSUME Init PROVE LinksInv
  OBVIOUS
<1>1. Types
  <2>1. chain \in Seq(Layers)
    BY MadeFirst DEF Init
  <2>2. applied \in Seq(Options) /\ \A t \in LinkStreams : linked[t] \in Seq(AllLinks)
    BY EmptySeq DEF Init
  <2>3. linked \in [LinkStreams -> Seq(AllLinks)]
    BY <2>2 DEF Init
  <2>4. opened \in BOOLEAN /\ jobs \subseteq Jobs /\ lost \subseteq AllLinks
    BY DEF Init
  <2>5. first \in [Sources -> Nat \ {0}] /\ last \in [Sources -> Nat]
    BY DEF Init
  <2>6. starts \in [Sources -> SUBSET Nat]
    BY DEF Init
  <2> QED BY <2>1, <2>2, <2>3, <2>4, <2>5, <2>6 DEF Types
<1>2. Made(chain, applied)
  BY MadeFirst DEF Init
<1>3. InStreams(linked) = {} /\ InJobs(jobs) = {} /\ lost = {}
  <2>1. Range(<<>>) = {}
    BY DEF Range
  <2>2. \A t \in LinkStreams : linked[t] = <<>>
    BY DEF Init
  <2> QED BY <2>1, <2>2 DEF Init, InStreams, InJobs
<1>4. JobsOK
  BY DEF Init, JobsOK, JobsFine
<1>5. StreamsOK
  <2>1. \A t \in LinkStreams : linked[t] = <<>> /\ DOMAIN linked[t] = {}
    BY DEF Init
  <2> QED BY <2>1 DEF StreamsOK, StreamsFine, OnceEach
<1>6. PlacesOK
  <2>1. \A s \in Sources : last[s] = 0
    BY DEF Init
  <2>2. \A s \in Sources : LinksTo(Named(applied), s, 1, last[s]) = {}
    BY <2>1 DEF LinksTo
  <2> QED BY <1>3, <2>2 DEF PlacesOK, PlacesFine
<1>7. AheadOK
  BY <1>3 DEF AheadOK
<1>8. ClosedOK
  BY DEF Init, ClosedOK
<1>9. SentOK
  <2>1. fails = 0 /\ sends = {} /\ sent = {} /\ unsent = {}
    BY DEF Init
  <2> QED BY <1>3, <2>1 DEF SentOK
<1> QED BY <1>1, <1>2, <1>4, <1>5, <1>6, <1>7, <1>8, <1>9 DEF LinksInv

LEMMA OptionInv ==
  ASSUME LinksInv, NEW o \in Options, Option(o)
  PROVE  LinksInv'
<1> USE DEF LinksInv
<1>1. ~opened /\ chain' = Apply(chain, o) /\ applied' = Append(applied, o)
  BY DEF Option
<1>2. UNCHANGED <<opened, first, last, jobs, linked, sends, sent, unsent, starts, lost, fails>>
  BY DEF Option, store, news
<1>3. o \notin Range(applied)
  <2>1. DOMAIN applied = 1 .. Len(applied)
    BY LenProperties DEF Types
  <2> QED BY <2>1 DEF Option, Contains, Range
<1>4. chain' \in Seq(Layers) /\ Made(chain', applied')
  BY <1>1, <1>3, MadeExtended, MadeWrapped DEF Types
<1>5. applied' \in Seq(Options)
  BY <1>1, AppendProperties DEF Types
<1>6. Types'
  BY <1>2, <1>4, <1>5 DEF Types
<1>7. jobs = {} /\ \A s \in Sources : last[s] = 0
  BY <1>1 DEF ClosedOK
<1>8. InStreams(linked) = {} /\ InJobs(jobs) = {} /\ lost = {}
  <2>1. \A l \in AllLinks : l.pos \notin 1 .. last[l.stream]
    BY <1>7, LinkFields
  <2> QED BY <2>1, LinksAre DEF PlacesOK, PlacesFine, Types
<1>9. JobsOK'
  BY <1>2, <1>7 DEF JobsOK, JobsFine
<1>10. StreamsOK' /\ AheadOK' /\ ClosedOK'
  BY <1>2 DEF StreamsOK, AheadOK, ClosedOK
<1>11. PlacesOK'
  <2>1. \A s \in Sources : LinksTo(Named(applied'), s, 1, last[s]) = {}
    BY <1>7 DEF LinksTo
  <2> QED BY <1>2, <1>8, <2>1 DEF PlacesOK, PlacesFine
<1>12. SentOK'
  <2>1. sent \cup sends \cup unsent = {}
    BY <1>8 DEF SentOK
  <2> QED BY <1>2, <1>8, <2>1 DEF SentOK
<1> QED BY <1>4, <1>6, <1>9, <1>10, <1>11, <1>12

LEMMA OpenInv ==
  ASSUME LinksInv, Open
  PROVE  LinksInv'
<1>1. /\ opened' = TRUE /\ fails' = fails
      /\ UNCHANGED <<chain, applied, first, last, jobs, linked, news, starts, lost>>
  BY DEF Open, store
<1>2. SentOK'
  BY <1>1, SentStays DEF LinksInv
<1> QED BY <1>1, <1>2
        DEF LinksInv, Types, JobsOK, StreamsOK, PlacesOK, AheadOK, ClosedOK

(* What does not touch what the invariant is about keeps it. *)
LEMMA UntouchedInv ==
  ASSUME LinksInv,
         UNCHANGED <<chain, applied, opened, last, jobs, linked, news, starts, lost>>,
         first' \in [Sources -> Nat \ {0}], fails' \in {fails, fails + 1}
  PROVE  LinksInv'
<1>1. SentOK'
  BY SentStays DEF LinksInv
<1> QED BY <1>1 DEF LinksInv, Types, JobsOK, StreamsOK, PlacesOK, AheadOK, ClosedOK

(* An append begins, and is to give its events the links new. *)
Begun(new, until, begun) ==
  /\ begun \in [Sources -> SUBSET Nat] /\ until \in [Sources -> Nat]
  /\ new \subseteq AllLinks
  /\ JobsFine(jobs, chain, begun)
  /\ StreamsFine(linked, begun)
  /\ \A l \in InStreams(linked), m \in InJobs(jobs) : InTurnOrApart(begun, l, m)
  /\ \A l \in InStreams(linked) \cup InJobs(jobs), m \in new :
       InTurnOrApart(begun, l, m) /\ InTurnOrApart(begun, m, l)
  /\ new \cap (InStreams(linked) \cup InJobs(jobs) \cup lost) = {}
  /\ PlacesFine(InStreams(linked), InJobs(jobs) \cup new, lost, until, Named(applied))
  /\ PlacesFine(InStreams(linked), InJobs(jobs), lost \cup new, until, Named(applied))

LEMMA BeginFacts ==
  ASSUME LinksInv, NEW s \in Sources, NEW n \in 1 .. MaxBatch,
         NEW new, new = LinksTo(Named(applied), s, last[s] + 1, last[s] + n),
         NEW until, until = Raised(last, s, last[s] + n),
         NEW begun, begun = Raised(starts, s, starts[s] \cup {last[s] + 1})
  PROVE  Begun(new, until, begun)
<1> USE DEF LinksInv
<1>1. n \in Nat /\ last[s] + 1 \in Nat /\ last[s] + n \in Nat
  BY DEF Types
<1>2. begun \in [Sources -> SUBSET Nat] /\ \A r \in Sources : starts[r] \subseteq begun[r]
  BY <1>1 DEF Types, Raised
<1>3. Named(applied) \in SUBSET Projecters
  BY DEF Named
<1>4. new \subseteq AllLinks
  BY <1>1, <1>3, NamedLinks
<1>5. /\ InStreams(linked) \in SUBSET AllLinks /\ InJobs(jobs) \in SUBSET AllLinks
      /\ lost \in SUBSET AllLinks /\ last \in [Sources -> Nat]
      /\ PlacesFine(InStreams(linked), InJobs(jobs), lost, last, Named(applied))
  BY LinksAre DEF Types, PlacesOK
<1>6. /\ until \in [Sources -> Nat]
      /\ \A l \in new : l.stream = s /\ l.pos \in last[s] + 1 .. last[s] + n
      /\ new \cap (InStreams(linked) \cup InJobs(jobs) \cup lost) = {}
      /\ PlacesFine(InStreams(linked), InJobs(jobs) \cup new, lost, until, Named(applied))
      /\ PlacesFine(InStreams(linked), InJobs(jobs), lost \cup new, until, Named(applied))
  <2>1. PICK there \in SUBSET AllLinks, ahead \in SUBSET AllLinks, gone \in SUBSET AllLinks,
             named \in SUBSET Projecters, old \in [Sources -> Nat] :
          /\ there = InStreams(linked) /\ ahead = InJobs(jobs) /\ gone = lost
          /\ named = Named(applied) /\ old = last
    BY <1>3, <1>5
  <2>2. /\ PlacesFine(there, ahead, gone, old, named) /\ n \in Nat
        /\ new = LinksTo(named, s, old[s] + 1, old[s] + n)
        /\ until = Raised(old, s, old[s] + n)
    BY <1>1, <1>5, <2>1
  <2> HIDE DEF LinksInv
  <2>3. Placed(there, ahead, gone, named, s, old[s], n, new, until)
    BY <2>2, PlacesMore
  <2> QED BY <2>1, <2>3 DEF Placed
<1>7. /\ JobsFine(jobs, chain, begun) /\ StreamsFine(linked, begun)
      /\ \A l \in InStreams(linked), m \in InJobs(jobs) : InTurnOrApart(begun, l, m)
  BY <1>2, StillFine
<1>8. ASSUME NEW l \in InStreams(linked) \cup InJobs(jobs), NEW m \in new
      PROVE  InTurnOrApart(begun, l, m) /\ InTurnOrApart(begun, m, l)
  <2>1. l \in AllLinks /\ l.pos \in 1 .. last[l.stream]
    BY <1>5 DEF PlacesFine
  <2>2. m \in AllLinks /\ m.stream = s /\ m.pos \in last[s] + 1 .. last[s] + n
    BY <1>4, <1>6
  <2>3. starts \in [Sources -> SUBSET Nat]
    BY DEF Types
  <2> HIDE DEF LinksInv
  <2> QED BY <1>1, <1>5, <2>1, <2>2, <2>3, NewApart
<1> QED BY <1>2, <1>4, <1>6, <1>7, <1>8 DEF Begun

LEMMA AppendEventsInv ==
  ASSUME LinksInv, NEW s \in Sources, NEW n \in 1 .. MaxBatch, AppendEvents(s, n)
  PROVE  LinksInv'
<1> DEFINE i == last[s] + 1
           j == last[s] + n
           forks == Forks(1, s, i, j)
           new == LinksTo(Named(applied), s, i, j)
<1>1. /\ opened /\ last' = [last EXCEPT ![s] = j]
      /\ starts' = [starts EXCEPT ![s] = starts[s] \cup {i}]
      /\ jobs' = Running(jobs \cup forks)
  BY DEF AppendEvents
<1>2. UNCHANGED <<chain, applied, opened, first, linked, news, lost, fails>>
  BY DEF AppendEvents
<1>3. i \in Nat \ {0} /\ j \in Nat /\ i <= j
  BY DEF LinksInv, Types
<1>4. /\ starts' \in [Sources -> SUBSET Nat] /\ last' \in [Sources -> Nat]
      /\ JobsFine(jobs, chain, starts') /\ StreamsFine(linked, starts')
      /\ \A l \in InStreams(linked), m \in InJobs(jobs) : InTurnOrApart(starts', l, m)
      /\ \A l \in InStreams(linked) \cup InJobs(jobs), m \in new :
           InTurnOrApart(starts', l, m) /\ InTurnOrApart(starts', m, l)
      /\ new \cap (InStreams(linked) \cup InJobs(jobs) \cup lost) = {}
      /\ PlacesFine(InStreams(linked), InJobs(jobs) \cup new, lost, last', Named(applied))
  <2>1. PICK until, begun, links : until = last' /\ begun = starts' /\ links = new
    OBVIOUS
  <2>2. /\ links = LinksTo(Named(applied), s, last[s] + 1, last[s] + n)
        /\ until = Raised(last, s, last[s] + n)
        /\ begun = Raised(starts, s, starts[s] \cup {last[s] + 1})
    BY <1>1, <2>1 DEF Raised
  <2> HIDE DEF i, j, new
  <2>3. Begun(links, until, begun)
    BY <2>2, BeginFacts
  <2> QED BY <2>1, <2>3 DEF Begun
<1> HIDE DEF i, j, new, forks
<1>5. /\ forks \subseteq Jobs /\ JobsFine(forks, chain, starts')
      /\ InJobs(forks) = new
  BY <1>3, ForksFacts DEF LinksInv, forks, new
<1>6. /\ JobsFine(jobs', chain, starts') /\ jobs' \subseteq Jobs
      /\ InJobs(jobs') = InJobs(jobs) \cup new
  <2>1. /\ JobsFine(jobs \cup forks, chain, starts')
        /\ InJobs(jobs \cup forks) = InJobs(jobs) \cup new
    BY <1>4, <1>5, JobsJoin
  <2>2. PICK all, layers, begun :
          /\ all \in SUBSET Jobs
          /\ all = jobs \cup forks /\ layers = chain /\ begun = starts'
    BY <1>5 DEF LinksInv, Types
  <2>3. /\ Running(all) \subseteq Jobs /\ InJobs(Running(all)) = InJobs(all)
        /\ JobsFine(Running(all), layers, begun)
    BY <2>1, <2>2, RunningFine
  <2> QED BY <1>1, <2>1, <2>2, <2>3
<1>7. Types'
  BY <1>1, <1>2, <1>4, <1>6 DEF LinksInv, Types
<1>8. JobsOK' /\ StreamsOK'
  BY <1>2, <1>4, <1>6 DEF JobsOK, StreamsOK
<1>9. PlacesOK'
  BY <1>2, <1>4, <1>6 DEF PlacesOK
<1>10. AheadOK'
  BY <1>2, <1>4, <1>6 DEF AheadOK
<1>11. ClosedOK' /\ SentOK' /\ Made(chain', applied')
  BY <1>1, <1>2, SentStays DEF LinksInv, ClosedOK
<1> QED BY <1>7, <1>8, <1>9, <1>10, <1>11 DEF LinksInv

LEMMA AppendFailsInv ==
  ASSUME LinksInv, NEW s \in Sources, NEW n \in 1 .. MaxBatch, AppendFails(s, n)
  PROVE  LinksInv'
<1> DEFINE i == last[s] + 1
           j == last[s] + n
           new == LinksTo(Named(applied), s, i, j)
<1>1. /\ opened /\ last' = [last EXCEPT ![s] = j]
      /\ starts' = [starts EXCEPT ![s] = starts[s] \cup {i}]
      /\ lost' = lost \cup Unlinked(s, i, j) /\ fails' = fails + 1
  BY DEF AppendFails
<1>2. UNCHANGED <<chain, applied, opened, first, jobs, linked, news>>
  BY DEF AppendFails
<1>3. i \in Nat \ {0} /\ j \in Nat /\ i <= j
  BY DEF LinksInv, Types
<1>4. /\ starts' \in [Sources -> SUBSET Nat] /\ last' \in [Sources -> Nat]
      /\ new \subseteq AllLinks
      /\ JobsFine(jobs, chain, starts') /\ StreamsFine(linked, starts')
      /\ \A l \in InStreams(linked), m \in InJobs(jobs) : InTurnOrApart(starts', l, m)
      /\ PlacesFine(InStreams(linked), InJobs(jobs), lost \cup new, last', Named(applied))
  <2>1. PICK until, begun, links : until = last' /\ begun = starts' /\ links = new
    OBVIOUS
  <2>2. /\ links = LinksTo(Named(applied), s, last[s] + 1, last[s] + n)
        /\ until = Raised(last, s, last[s] + n)
        /\ begun = Raised(starts, s, starts[s] \cup {last[s] + 1})
    BY <1>1, <2>1 DEF Raised
  <2> HIDE DEF i, j, new
  <2>3. Begun(links, until, begun)
    BY <2>2, BeginFacts
  <2> QED BY <2>1, <2>3 DEF Begun
<1> HIDE DEF i, j, new
<1>5. Unlinked(s, i, j) = new
  <2>1. InJobs(Forks(1, s, i, j)) = new
    BY <1>3, ForksFacts DEF LinksInv, new
  <2> QED BY <2>1 DEF Unlinked, InJobs
<1>6. Types'
  BY <1>1, <1>2, <1>4, <1>5 DEF LinksInv, Types
<1>7. JobsOK' /\ StreamsOK' /\ PlacesOK' /\ AheadOK'
  BY <1>1, <1>2, <1>4, <1>5 DEF JobsOK, StreamsOK, PlacesOK, AheadOK
<1>8. ClosedOK' /\ SentOK' /\ Made(chain', applied')
  BY <1>1, <1>2, SentStays DEF LinksInv, ClosedOK
<1> QED BY <1>6, <1>7, <1>8 DEF LinksInv

(* What is left of the links when a goroutine's next one was dealt with. *)
LEMMA AfterLink ==
  ASSUME LinksInv, NEW job \in jobs, job.links # <<>>,
         NEW all, all = Without(job) \cup {Rest(job)},
         NEW h, h = Head(job.links)
  PROVE  /\ all \subseteq Jobs
         /\ JobsFine(all, chain, starts)
         /\ h \in InJobs(jobs) /\ h \in AllLinks
         /\ InJobs(all) = InJobs(jobs) \ {h}
         /\ \A n \in InJobs(all) : InTurnOrApart(starts, h, n)
<1>1. PICK running, layers, begun :
        running \in SUBSET Jobs /\ running = jobs /\ layers = chain /\ begun = starts
  BY DEF LinksInv, Types
<1>2. /\ running \in SUBSET Jobs /\ job \in running
      /\ JobsFine(running, layers, begun) /\ all = (running \ {job}) \cup {Rest(job)}
  BY <1>1 DEF LinksInv, JobsOK, Without
<1>3. /\ all \subseteq Jobs
      /\ JobsFine(all, layers, begun)
      /\ Head(job.links) \in InJobs(running) \cap AllLinks
      /\ InJobs(all) = InJobs(running) \ {Head(job.links)}
      /\ \A n \in InJobs(all) : InTurnOrApart(begun, Head(job.links), n)
  BY <1>2, RestFine
<1> QED BY <1>1, <1>3

LEMMA NextLink ==
  ASSUME LinksInv, NEW job \in jobs, job.links # <<>>,
         NEW all, all = Without(job) \cup {Rest(job)},
         NEW then, then = Running(all),
         NEW h, h = Head(job.links)
  PROVE  /\ then \subseteq Jobs
         /\ JobsFine(then, chain, starts)
         /\ h \in InJobs(jobs) /\ h \in AllLinks
         /\ InJobs(then) = InJobs(jobs) \ {h}
         /\ \A n \in InJobs(then) : InTurnOrApart(starts, h, n)
<1>1. /\ all \subseteq Jobs
      /\ JobsFine(all, chain, starts)
      /\ h \in InJobs(jobs) /\ h \in AllLinks
      /\ InJobs(all) = InJobs(jobs) \ {h}
      /\ \A n \in InJobs(all) : InTurnOrApart(starts, h, n)
  BY AfterLink
<1>2. PICK layers, begun : layers = chain /\ begun = starts
  OBVIOUS
<1>3. all \in SUBSET Jobs /\ JobsFine(all, layers, begun)
  BY <1>1, <1>2
<1>4. /\ Running(all) \subseteq Jobs /\ JobsFine(Running(all), layers, begun)
      /\ InJobs(Running(all)) = InJobs(all)
  BY <1>3, RunningFine
<1> QED BY <1>1, <1>2, <1>4

(* A goroutine's next link goes to its stream, whatever is told of it. *)
LEMMA LinkStored ==
  ASSUME LinksInv, NEW job \in jobs, job.links # <<>>,
         NEW h, h = Head(job.links),
         linked' = [linked EXCEPT ![h.to] = Append(@, h)],
         jobs' = Running(Without(job) \cup {Rest(job)}),
         UNCHANGED <<chain, applied, opened, first, last, starts, lost>>
  PROVE  /\ Types' /\ Made(chain', applied') /\ ClosedOK'
         /\ JobsOK' /\ StreamsOK' /\ PlacesOK' /\ AheadOK'
         /\ h \notin InStreams(linked) /\ InStreams(linked') = InStreams(linked) \cup {h}
<1> DEFINE all == Without(job) \cup {Rest(job)}
           then == Running(all)
<1>1. /\ job.links # <<>>
      /\ linked' = [linked EXCEPT ![h.to] = Append(@, h)]
      /\ UNCHANGED <<chain, applied, opened, first, last, starts, lost>>
  OBVIOUS
<1>3. jobs' = then
  OBVIOUS
<1>4. /\ then \subseteq Jobs
      /\ JobsFine(then, chain, starts)
      /\ h \in InJobs(jobs) /\ h \in AllLinks
      /\ InJobs(then) = InJobs(jobs) \ {h}
      /\ \A n \in InJobs(then) : InTurnOrApart(starts, h, n)
  <2> HIDE DEF all
  <2> QED BY <1>1, NextLink DEF all, then
<1> HIDE DEF all, then
<1>5. /\ linked' \in [LinkStreams -> Seq(AllLinks)]
      /\ StreamsFine(linked', starts)
      /\ InStreams(linked') = InStreams(linked) \cup {h}
      /\ h \notin InStreams(linked)
  <2>1. h \notin InStreams(linked)
    BY <1>4 DEF LinksInv, PlacesOK, PlacesFine
  <2>2. \A n \in InStreams(linked) : InTurnOrApart(starts, n, h)
    BY <1>4 DEF LinksInv, AheadOK
  <2>3. StreamsFine(linked, starts) /\ linked \in [LinkStreams -> Seq(AllLinks)]
    BY DEF LinksInv, StreamsOK, Types
  <2>4. PICK streams, begun, more :
          /\ streams \in [LinkStreams -> Seq(AllLinks)]
          /\ streams = linked /\ begun = starts /\ more = linked'
    BY <2>3
  <2>5. /\ streams \in [LinkStreams -> Seq(AllLinks)]
        /\ h \notin InStreams(streams) /\ \A n \in InStreams(streams) : InTurnOrApart(begun, n, h)
        /\ StreamsFine(streams, begun) /\ more = [streams EXCEPT ![h.to] = Append(@, h)]
    BY <1>1, <2>1, <2>2, <2>3, <2>4
  <2>6. /\ more \in [LinkStreams -> Seq(AllLinks)] /\ StreamsFine(more, begun)
        /\ InStreams(more) = InStreams(streams) \cup {h}
    BY <1>4, <2>5, StreamsMore
  <2> QED BY <2>1, <2>4, <2>6
<1>6. Types'
  BY <1>1, <1>3, <1>4, <1>5 DEF LinksInv, Types
<1>7. JobsOK' /\ StreamsOK'
  BY <1>1, <1>3, <1>4, <1>5 DEF JobsOK, StreamsOK
<1>8. PlacesOK'
  <2>1. PlacesFine(InStreams(linked) \cup {h}, InJobs(jobs) \ {h}, lost, last, Named(applied))
    BY <1>4 DEF LinksInv, PlacesOK, PlacesFine
  <2> QED BY <1>1, <1>3, <1>4, <1>5, <2>1 DEF PlacesOK
<1>9. AheadOK'
  <2>1. /\ InJobs(jobs') = InJobs(jobs) \ {h}
        /\ \A n \in InJobs(jobs') : InTurnOrApart(starts, h, n)
    BY <1>3, <1>4
  <2>2. \A l \in InStreams(linked), n \in InJobs(jobs) : InTurnOrApart(starts, l, n)
    BY DEF LinksInv, AheadOK
  <2>3. \A l \in InStreams(linked'), n \in InJobs(jobs') : InTurnOrApart(starts, l, n)
    BY <1>5, <2>1, <2>2
  <2>4. starts' = starts
    BY <1>1
  <2> QED BY <2>3, <2>4 DEF AheadOK, InTurnOrApart
<1>10. ClosedOK' /\ Made(chain', applied')
  BY <1>1, <1>4, <1>3 DEF LinksInv, ClosedOK
<1> QED BY <1>5, <1>6, <1>7, <1>8, <1>9, <1>10

(* What a goroutine appends passes the streamer when subscribers hear of it. *)
LEMMA SendIt ==
  ASSUME LinksInv, NEW job \in jobs, NEW l
  PROVE  ToSend(job, {l}) = IF Heard THEN {l} ELSE {}
<1>1. PICK p \in LayersOf(chain, "projecter") : job.below = p + 1
  BY DEF LinksInv, JobsOK, JobsFine
<1>2. Passed(chain, job.below, "streamer") # {} <=> Heard
  BY <1>1, HeardBelow DEF LinksInv
<1> QED BY <1>2 DEF ToSend

LEMMA AppendLinkInv ==
  ASSUME LinksInv, NEW job \in jobs, AppendLink(job)
  PROVE  LinksInv'
<1>1. PICK h : h = Head(job.links)
  OBVIOUS
<1>2. /\ job.links # <<>>
      /\ linked' = [linked EXCEPT ![h.to] = Append(@, h)]
      /\ sends' = sends \cup ToSend(job, {h})
      /\ UNCHANGED <<chain, applied, opened, first, last, starts, lost, sent, unsent, fails>>
  BY <1>1 DEF AppendLink, store
<1>3. jobs' = Running(Without(job) \cup {Rest(job)})
  <2>1. PICK p \in LayersOf(chain, "projecter") : job.below = p + 1
    BY DEF LinksInv, JobsOK, JobsFine
  <2>2. \A s, i, j : Forks(p + 1, s, i, j) = {}
    BY NoForks DEF LinksInv
  <2>3. \A s, i, j : Forks(job.below, s, i, j) = {}
    BY <2>1, <2>2
  <2> QED BY <2>3 DEF AppendLink
<1>4. /\ Types' /\ Made(chain', applied') /\ ClosedOK'
      /\ JobsOK' /\ StreamsOK' /\ PlacesOK' /\ AheadOK'
      /\ h \notin InStreams(linked) /\ InStreams(linked') = InStreams(linked) \cup {h}
  BY <1>1, <1>2, <1>3, LinkStored
<1>5. SentOK'
  <2>1. sends' = sends \cup IF Heard THEN {h} ELSE {}
    BY <1>2, SendIt
  <2>2. SentOK /\ (Heard' <=> Heard)
    BY <1>2 DEF LinksInv, Heard
  <2> QED BY <1>2, <1>4, <2>1, <2>2 DEF SentOK
<1> QED BY <1>4, <1>5 DEF LinksInv

LEMMA StoredLinkFailsInv ==
  ASSUME LinksInv, NEW job \in jobs, StoredLinkFails(job)
  PROVE  LinksInv'
<1>1. PICK h : h = Head(job.links)
  OBVIOUS
<1>2. /\ job.links # <<>>
      /\ linked' = [linked EXCEPT ![h.to] = Append(@, h)]
      /\ jobs' = Running(Without(job) \cup {Rest(job)})
      /\ unsent' = unsent \cup ToSend(job, {h}) /\ fails' = fails + 1
      /\ UNCHANGED <<chain, applied, opened, first, last, starts, lost, sends, sent>>
  BY <1>1 DEF StoredLinkFails, store
<1>3. /\ Types' /\ Made(chain', applied') /\ ClosedOK'
      /\ JobsOK' /\ StreamsOK' /\ PlacesOK' /\ AheadOK'
      /\ h \notin InStreams(linked) /\ InStreams(linked') = InStreams(linked) \cup {h}
  BY <1>1, <1>2, LinkStored
<1>4. SentOK'
  <2>1. unsent' = unsent \cup IF Heard THEN {h} ELSE {}
    BY <1>2, SendIt
  <2>2. SentOK /\ (Heard' <=> Heard)
    BY <1>2 DEF LinksInv, Heard
  <2>3. fails' \in Nat /\ fails' # 0
    BY <1>2, <2>2 DEF SentOK
  <2> QED BY <1>2, <1>3, <2>1, <2>2, <2>3 DEF SentOK
<1> QED BY <1>3, <1>4 DEF LinksInv

LEMMA SendLinkInv ==
  ASSUME LinksInv, NEW l \in sends, SendLink(l)
  PROVE  LinksInv'
<1>1. /\ sends' = sends \ {l} /\ sent' = sent \cup {l}
      /\ UNCHANGED <<chain, applied, opened, first, last, jobs, linked, unsent, starts, lost, fails>>
  BY DEF SendLink, store
<1>2. SentOK'
  <2>1. SentOK /\ (Heard' <=> Heard)
    BY <1>1 DEF LinksInv, Heard
  <2> QED BY <1>1, <2>1 DEF SentOK
<1> QED BY <1>1, <1>2 DEF LinksInv, Types, JobsOK, StreamsOK, PlacesOK, AheadOK, ClosedOK

LEMMA LinkFailsInv ==
  ASSUME LinksInv, NEW job \in jobs, LinkFails(job)
  PROVE  LinksInv'
<1> DEFINE h == Head(job.links)
           all == Without(job) \cup {Rest(job)}
           then == Running(all)
<1>1. /\ job.links # <<>> /\ jobs' = then /\ lost' = lost \cup {h} /\ fails' = fails + 1
      /\ UNCHANGED <<chain, applied, opened, first, last, linked, news, starts>>
  BY DEF LinkFails, store
<1>2. /\ then \subseteq Jobs
      /\ JobsFine(then, chain, starts)
      /\ h \in InJobs(jobs) /\ h \in AllLinks
      /\ InJobs(then) = InJobs(jobs) \ {h}
  BY <1>1, NextLink
<1> HIDE DEF h, all, then
<1>3. Types'
  BY <1>1, <1>2 DEF LinksInv, Types
<1>4. JobsOK' /\ StreamsOK' /\ AheadOK'
  BY <1>1, <1>2 DEF LinksInv, JobsOK, StreamsOK, AheadOK
<1>5. PlacesOK'
  <2>1. PlacesFine(InStreams(linked), InJobs(jobs) \ {h}, lost \cup {h}, last, Named(applied))
    BY <1>2 DEF LinksInv, PlacesOK, PlacesFine
  <2> QED BY <1>1, <1>2, <2>1 DEF PlacesOK
<1>6. ClosedOK' /\ SentOK' /\ Made(chain', applied')
  BY <1>1, SentStays DEF LinksInv, ClosedOK
<1> QED BY <1>3, <1>4, <1>5, <1>6 DEF LinksInv

LEMMA CrashInv ==
  ASSUME LinksInv, Crash
  PROVE  LinksInv'
<1>1. /\ jobs' = {} /\ lost' = lost \cup InJobs(jobs)
      /\ sends' = {} /\ unsent' = unsent \cup sends /\ fails' = fails + 1
      /\ UNCHANGED <<chain, applied, opened, first, last, linked, sent, starts>>
  BY DEF Crash, InJobs, store
<1>2. InJobs(jobs') = {} /\ JobsFine(jobs', chain, starts)
  BY <1>1 DEF InJobs, JobsFine
<1>3. Types'
  BY <1>1, LinksAre DEF LinksInv, Types
<1>4. JobsOK' /\ StreamsOK' /\ AheadOK'
  BY <1>1, <1>2 DEF LinksInv, JobsOK, StreamsOK, AheadOK
<1>5. PlacesOK'
  <2>1. PlacesFine(InStreams(linked), {}, lost \cup InJobs(jobs), last, Named(applied))
    BY DEF LinksInv, PlacesOK, PlacesFine
  <2> QED BY <1>1, <1>2, <2>1 DEF PlacesOK
<1>6. ClosedOK' /\ Made(chain', applied')
  BY <1>1 DEF LinksInv, ClosedOK
<1>7. SentOK'
  <2>1. SentOK /\ (Heard' <=> Heard)
    BY <1>1 DEF LinksInv, Heard
  <2>2. fails' \in Nat /\ fails' # 0
    BY <1>1, <2>1 DEF SentOK
  <2> QED BY <1>1, <2>1, <2>2 DEF SentOK
<1> QED BY <1>3, <1>4, <1>5, <1>6, <1>7 DEF LinksInv

LEMMA NextInv ==
  ASSUME LinksInv, [Next]_vars
  PROVE  LinksInv'
<1>1. first \in [Sources -> Nat \ {0}]
  BY DEF LinksInv, Types
<1>2. ASSUME NEW o \in Options, Option(o) PROVE LinksInv'
  BY <1>2, OptionInv
<1>3. CASE Open
  BY <1>3, OpenInv
<1>4. ASSUME NEW s \in Sources, NEW n \in 1 .. MaxBatch, AppendEvents(s, n) PROVE LinksInv'
  BY <1>4, AppendEventsInv
<1>5. ASSUME NEW s \in Sources, NEW n \in 1 .. MaxBatch, AppendFails(s, n) PROVE LinksInv'
  BY <1>5, AppendFailsInv
<1>6. ASSUME NEW s \in Sources, TruncateFront(s) PROVE LinksInv'
  <2>1. first[s] + 1 \in Nat \ {0}
    BY <1>1
  <2>2. first' \in [Sources -> Nat \ {0}]
    BY <1>1, <1>6, <2>1 DEF TruncateFront
  <2> QED BY <1>6, <2>2, UntouchedInv DEF TruncateFront
<1>7. ASSUME NEW job \in jobs, AppendLink(job) PROVE LinksInv'
  BY <1>7, AppendLinkInv
<1>8. ASSUME NEW job \in jobs, LinkFails(job) PROVE LinksInv'
  BY <1>8, LinkFailsInv
<1>9. ASSUME NEW job \in jobs, StoredLinkFails(job) PROVE LinksInv'
  BY <1>9, StoredLinkFailsInv
<1>16. ASSUME NEW l \in sends, SendLink(l) PROVE LinksInv'
  BY <1>16, SendLinkInv
<1>10. CASE Crash
  BY <1>10, CrashInv
<1>11. ASSUME NEW t \in ReadFrom, NEW j \in DOMAIN linked[t], NEW i \in 1 .. j, ReadLinks(t, i, j)
       PROVE  LinksInv'
  BY <1>1, <1>11, UntouchedInv DEF ReadLinks, store
<1>12. ASSUME NEW s \in reader.todo, Resolve(s) PROVE LinksInv'
  BY <1>1, <1>12, UntouchedInv DEF Resolve, store
<1>13. CASE ResolveFails
  BY <1>1, <1>13, UntouchedInv DEF ResolveFails, store
<1>14. CASE ReturnPage
  BY <1>1, <1>14, UntouchedInv DEF ReturnPage, store
<1>15. CASE UNCHANGED vars
  BY <1>1, <1>15, UntouchedInv DEF vars, store
<1> QED BY <1>2, <1>3, <1>4, <1>5, <1>6, <1>7, <1>8, <1>9, <1>10, <1>11, <1>12, <1>13, <1>14, <1>15,
           <1>16 DEF Next, Project

-----------------------------------------------------------------------------
(* The reader.  A page has at least the fields of its links; its slots are *)
(* of its links or of events they point to; and a page of one stream is    *)
(* untouched until that stream is resolved.                                *)
OneStream(page) == \A k, m \in DOMAIN page : page[k].stream = page[m].stream

InPlace(page, slots) ==
  \A k \in DOMAIN page :
    /\ slots[k].is = "event"
    /\ slots[k].stream = page[k].stream /\ slots[k].pos = page[k].pos
    /\ slots[k].actual = page[k].actual

Among(page, slots) ==
  \A k \in DOMAIN slots : \E m \in DOMAIN page :
    slots[k].stream = page[m].stream /\ slots[k].pos = page[m].pos

SomeGone(page) == \E k \in DOMAIN page : ~Exists(page[k].stream, page[k].pos)

PageFine(page) ==
  \A k \in DOMAIN page :
    /\ page[k].stream \in Sources
    /\ page[k].pos \in 1 .. last[page[k].stream]
    /\ page[k].position = page[k].actual

OneStreamFine(page, slots, todo) ==
  OneStream(page) =>
    IF todo = {} THEN InPlace(page, slots) \/ (slots = page /\ SomeGone(page))
                 ELSE slots = page

Resolving(page, slots, todo) ==
  /\ reader = [pc |-> "resolving", page |-> page, slots |-> slots, todo |-> todo]
  /\ \E n \in Nat : DOMAIN page = 1 .. n /\ DOMAIN slots = 1 .. n
  /\ todo \subseteq {page[k].stream : k \in DOMAIN page}
  /\ PageFine(page)
  /\ Among(page, slots)
  /\ OneStreamFine(page, slots, todo)

ReaderInv == reader = Idle \/ \E page, slots, todo : Resolving(page, slots, todo)

(* A source only grows at the back and shrinks at the front: what was gone *)
(* is gone, and what was stored was stored.                                *)
LEMMA ReaderKept ==
  ASSUME LinksInv, LinksInv', ReaderInv, reader' = reader,
         \A s \in Sources : first[s] <= first'[s] /\ last[s] <= last'[s]
  PROVE  ReaderInv'
<1>1. CASE reader = Idle
  BY <1>1 DEF ReaderInv, Idle
<1>2. ASSUME NEW page, NEW slots, NEW todo, Resolving(page, slots, todo)
      PROVE  Resolving(page, slots, todo)'
  <2>1. \A s \in Sources : /\ first[s] \in Nat /\ first'[s] \in Nat
                           /\ last[s] \in Nat /\ last'[s] \in Nat
    BY DEF LinksInv, Types
  <2>2. ASSUME NEW s \in Sources, NEW i \in 1 .. last[s]
        PROVE  i \in 1 .. last'[s] /\ (~Exists(s, i) => ~Exists(s, i)')
    <3>1. PICK f \in Nat, g \in Nat, l \in Nat, m \in Nat :
            f = first[s] /\ g = first'[s] /\ l = last[s] /\ m = last'[s] /\ f <= g /\ l <= m
      BY <2>1
    <3>2. i \in 1 .. m /\ (~(f <= i /\ i <= l) => ~(g <= i /\ i <= m))
      BY <3>1
    <3> QED BY <3>1, <3>2 DEF Exists
  <2>3. PageFine(page)'
    BY <1>2, <2>2 DEF Resolving, PageFine
  <2>4. SomeGone(page) => SomeGone(page)'
    BY <1>2, <2>2 DEF Resolving, PageFine, SomeGone
  <2>5. OneStreamFine(page, slots, todo)'
    BY <1>2, <2>4 DEF Resolving, OneStreamFine
  <2> QED BY <1>2, <2>3, <2>5 DEF Resolving
<1> QED BY <1>1, <1>2 DEF ReaderInv

LEMMA ReadLinksReader ==
  ASSUME LinksInv, LinksInv', ReaderInv,
         NEW t \in ReadFrom, NEW j \in DOMAIN linked[t], NEW i \in 1 .. j, ReadLinks(t, i, j)
  PROVE  ReaderInv'
<1> DEFINE n == j - i + 1
<1>1. PICK page : page = [k \in 1 .. n |-> LinkSlot(linked[t][i + k - 1], i + k - 1)]
  OBVIOUS
<1>2. PICK todo : todo = {page[k].stream : k \in DOMAIN page}
  OBVIOUS
<1>3. /\ reader' = [pc |-> "resolving", page |-> page, slots |-> page, todo |-> todo]
      /\ UNCHANGED <<last, first>>
  BY <1>1, <1>2 DEF ReadLinks, store
<1>4. linked[t] \in Seq(AllLinks) /\ DOMAIN linked[t] = 1 .. Len(linked[t]) /\ Len(linked[t]) \in Nat
  <2>1. t \in LinkStreams
    BY ReadFromAssumption
  <2> QED BY <2>1, LenProperties DEF LinksInv, Types
<1>5. n \in Nat /\ 1 \in 1 .. n
  BY <1>4
<1>6. DOMAIN page = 1 .. n
  BY <1>1
<1>7. ASSUME NEW k \in 1 .. n
      PROVE  /\ page[k].stream \in Sources
             /\ page[k].pos \in 1 .. last[page[k].stream]
             /\ page[k].position = page[k].actual
  <2>1. PICK m \in 1 .. Len(linked[t]) : m = i + k - 1
    BY <1>4
  <2>2. PICK l : l = linked[t][m]
    OBVIOUS
  <2>3. l \in InStreams(linked)
    BY <1>4, <2>2, ReadFromAssumption DEF InStreams, Range
  <2>4. l \in AllLinks /\ l.pos \in 1 .. last[l.stream]
    BY <2>3, LinksAre DEF LinksInv, PlacesOK, PlacesFine
  <2>5. page[k] = LinkSlot(l, m)
    BY <1>1, <2>1, <2>2
  <2>6. page[k].stream = l.stream /\ page[k].pos = l.pos /\ page[k].position = page[k].actual
    BY <2>5 DEF LinkSlot
  <2> QED BY <2>4, <2>6, LinkFields
<1> HIDE DEF n
<1>8. todo # {}
  BY <1>2, <1>5, <1>6
<1>9. PageFine(page)'
  BY <1>3, <1>6, <1>7 DEF PageFine
<1>10. Among(page, page)
  BY DEF Among
<1>11. OneStreamFine(page, page, todo)'
  BY <1>8 DEF OneStreamFine
<1>12. \E m \in Nat : DOMAIN page = 1 .. m
  BY <1>5, <1>6
<1>13. Resolving(page, page, todo)'
  BY <1>2, <1>3, <1>9, <1>10, <1>11, <1>12 DEF Resolving
<1> QED BY <1>13 DEF ReaderInv

LEMMA ResolveReader ==
  ASSUME LinksInv, LinksInv', ReaderInv, NEW s \in reader.todo, Resolve(s)
  PROVE  ReaderInv'
<1>1. PICK page, slots, todo : Resolving(page, slots, todo)
  BY DEF ReaderInv, Idle
<1>2. reader = [pc |-> "resolving", page |-> page, slots |-> slots, todo |-> todo]
  BY <1>1 DEF Resolving
<1>3. PICK n \in Nat : DOMAIN page = 1 .. n /\ DOMAIN slots = 1 .. n
  BY <1>1 DEF Resolving
<1>4. PICK ptr : ptr = Ptrs(page, s)
  OBVIOUS
<1>5. PICK c \in Nat : ptr \in [1 .. c -> Pointing(page, s)] /\ DOMAIN ptr = 1 .. c
  <2>1. Lists(ptr, Pointing(page, s))
    BY <1>3, <1>4, PtrsFacts
  <2>2. Cardinality(Pointing(page, s)) \in Nat
    <3>1. Pointing(page, s) \in SUBSET (1 .. n) /\ IsFiniteSet(1 .. n)
      BY <1>3, FS_Interval DEF Pointing
    <3> QED BY <3>1, FS_Subset, FS_CardinalityType
  <2> QED BY <2>1, <2>2 DEF Lists
<1>6. \A k \in DOMAIN ptr : ptr[k] \in 1 .. n /\ page[ptr[k]].stream = s
  BY <1>3, <1>5 DEF Pointing
<1>7. PICK placed :
        placed = [k \in DOMAIN page |->
                    IF k \in DOMAIN ptr
                    THEN EventSlot(s, page[ptr[k]].pos, slots[ptr[k]].position)
                    ELSE slots[k]]
  OBVIOUS
<1>8. PICK found \in BOOLEAN : found <=> \A k \in DOMAIN ptr : Exists(s, page[ptr[k]].pos)
  OBVIOUS
<1>9. PICK new : new = IF found THEN placed ELSE slots
  OBVIOUS
<1>10. /\ reader' = [pc |-> "resolving", page |-> page, slots |-> new, todo |-> todo \ {s}]
       /\ UNCHANGED <<first, last>>
  <2>1. reader.page = page /\ reader.slots = slots /\ reader.todo = todo
    BY <1>2
  <2>2. /\ reader' = [reader EXCEPT !.slots = IF found THEN placed ELSE slots, !.todo = todo \ {s}]
        /\ UNCHANGED <<first, last>>
    BY <1>4, <1>7, <1>8, <2>1 DEF Resolve, store
  <2> QED BY <1>2, <1>9, <2>2
<1>11. s \in todo /\ todo \subseteq {page[k].stream : k \in DOMAIN page}
  BY <1>1, <1>2 DEF Resolving
<1>12. DOMAIN placed = 1 .. n /\ DOMAIN new = 1 .. n
  BY <1>3, <1>7, <1>9
<1>13. Among(page, new)
  <2>1. ASSUME NEW k \in 1 .. n, k \in DOMAIN ptr
        PROVE  placed[k].stream = page[ptr[k]].stream /\ placed[k].pos = page[ptr[k]].pos
    <3>1. placed[k] = EventSlot(s, page[ptr[k]].pos, slots[ptr[k]].position)
      BY <1>3, <1>7, <2>1
    <3> QED BY <1>6, <2>1, <3>1 DEF EventSlot
  <2>2. ASSUME NEW k \in 1 .. n, k \notin DOMAIN ptr PROVE placed[k] = slots[k]
    BY <1>3, <1>7, <2>2
  <2>3. Among(page, slots)
    BY <1>1 DEF Resolving
  <2>4. Among(page, placed)
    BY <1>3, <1>6, <1>12, <2>1, <2>2, <2>3 DEF Among
  <2> QED BY <1>9, <2>3, <2>4
<1>14. OneStreamFine(page, new, todo \ {s})
  <2>1. SUFFICES ASSUME OneStream(page)
                 PROVE  /\ todo \ {s} = {}
                        /\ InPlace(page, new) \/ (new = page /\ SomeGone(page))
    BY DEF OneStreamFine
  <2>2. \A k \in 1 .. n : page[k].stream = s
    BY <1>3, <1>11, <2>1 DEF OneStream
  <2>3. todo \ {s} = {}
    BY <1>3, <1>11, <2>2
  <2>4. slots = page
    BY <1>1, <1>11, <2>1 DEF Resolving, OneStreamFine
  <2>5. Pointing(page, s) = 1 .. n
    BY <1>3, <2>2 DEF Pointing
  <2>6. \A k \in 1 .. n : ptr[k] = k
    <3>1. Lists(ptr, 1 .. n)
      BY <1>3, <1>4, <2>5, PtrsFacts
    <3> QED BY <3>1, ListOfAll
  <2>7. DOMAIN ptr = 1 .. n
    <3>1. Lists(ptr, 1 .. n) /\ Cardinality(1 .. n) = n
      BY <1>3, <1>4, <2>5, PtrsFacts, FS_Interval
    <3> QED BY <3>1 DEF Lists
  <2>8. CASE found
    <3>1. ASSUME NEW k \in 1 .. n
          PROVE  /\ new[k].is = "event" /\ new[k].stream = page[k].stream
                 /\ new[k].pos = page[k].pos /\ new[k].actual = page[k].actual
      <4>1. new[k] = EventSlot(s, page[k].pos, page[k].position)
        BY <1>3, <1>7, <1>9, <2>4, <2>6, <2>7, <2>8
      <4>2. page[k].position = page[k].actual
        BY <1>1, <1>3 DEF Resolving, PageFine
      <4> QED BY <2>2, <4>1, <4>2 DEF EventSlot
    <3>2. InPlace(page, new)
      BY <1>3, <3>1 DEF InPlace
    <3> QED BY <2>3, <3>2
  <2>9. CASE ~found
    <3>1. new = page
      BY <1>9, <2>4, <2>9
    <3>2. PICK k \in 1 .. n : ~Exists(s, page[k].pos)
      BY <1>8, <2>6, <2>7, <2>9
    <3>3. SomeGone(page)
      BY <1>3, <2>2, <3>2 DEF SomeGone
    <3> QED BY <2>3, <3>1, <3>3
  <2> QED BY <2>8, <2>9
<1>15. SomeGone(page)' <=> SomeGone(page)
  BY <1>10 DEF SomeGone, Exists
<1>16. OneStreamFine(page, new, todo \ {s})'
  BY <1>14, <1>15 DEF OneStreamFine
<1>17. PageFine(page)'
  BY <1>1, <1>10 DEF Resolving, PageFine
<1>18. Resolving(page, new, todo \ {s})'
  BY <1>3, <1>10, <1>11, <1>12, <1>13, <1>16, <1>17 DEF Resolving
<1> QED BY <1>18 DEF ReaderInv

LEMMA ReaderNext ==
  ASSUME LinksInv, ReaderInv, [Next]_vars
  PROVE  ReaderInv'
<1>1. LinksInv'
  BY NextInv
<1>2. /\ first \in [Sources -> Nat \ {0}] /\ last \in [Sources -> Nat]
      /\ \A s \in Sources : first[s] <= first[s] /\ last[s] <= last[s]
  BY DEF LinksInv, Types
<1>3. ASSUME reader' = Idle PROVE ReaderInv'
  BY <1>3 DEF ReaderInv, Idle
<1>4. ASSUME UNCHANGED <<reader, first, last>> PROVE ReaderInv'
  BY <1>1, <1>2, <1>4, ReaderKept
<1>5. ASSUME NEW o \in Options, Option(o) PROVE ReaderInv'
  BY <1>4, <1>5 DEF Option, store
<1>6. CASE Open
  BY <1>4, <1>6 DEF Open, store
<1>7. ASSUME NEW s \in Sources, NEW n \in 1 .. MaxBatch,
             last' = [last EXCEPT ![s] = last[s] + n], UNCHANGED <<reader, first>>
      PROVE  ReaderInv'
  <2>1. n \in Nat /\ \A r \in Sources : last[r] \in Nat
    BY <1>2
  <2>2. \A r \in Sources : last[r] <= last'[r]
    BY <1>2, <1>7, <2>1
  <2> QED BY <1>1, <1>2, <1>7, <2>2, ReaderKept
<1>8. ASSUME NEW s \in Sources, NEW n \in 1 .. MaxBatch, AppendEvents(s, n) \/ AppendFails(s, n)
      PROVE  ReaderInv'
  BY <1>7, <1>8 DEF AppendEvents, AppendFails
<1>9. ASSUME NEW s \in Sources, TruncateFront(s) PROVE ReaderInv'
  <2>1. \A r \in Sources : first[r] <= first'[r]
    BY <1>2, <1>9 DEF TruncateFront
  <2> QED BY <1>1, <1>2, <1>9, <2>1, ReaderKept DEF TruncateFront
<1>10. ASSUME NEW job \in jobs, AppendLink(job) \/ LinkFails(job) \/ StoredLinkFails(job)
       PROVE  ReaderInv'
  BY <1>4, <1>10 DEF AppendLink, LinkFails, StoredLinkFails, store
<1>17. ASSUME NEW l \in sends, SendLink(l) PROVE ReaderInv'
  BY <1>4, <1>17 DEF SendLink, store
<1>11. CASE Crash
  BY <1>3, <1>11 DEF Crash
<1>12. ASSUME NEW t \in ReadFrom, NEW j \in DOMAIN linked[t], NEW i \in 1 .. j, ReadLinks(t, i, j)
       PROVE  ReaderInv'
  BY <1>1, <1>12, ReadLinksReader
<1>13. ASSUME NEW s \in reader.todo, Resolve(s) PROVE ReaderInv'
  BY <1>1, <1>13, ResolveReader
<1>14. CASE ResolveFails
  BY <1>3, <1>14 DEF ResolveFails
<1>15. CASE ReturnPage
  BY <1>3, <1>15 DEF ReturnPage
<1>16. CASE UNCHANGED vars
  BY <1>4, <1>16 DEF vars, store
<1> QED BY <1>5, <1>6, <1>8, <1>9, <1>10, <1>11, <1>12, <1>13, <1>14, <1>15, <1>16, <1>17
        DEF Next, Project

(* The inductive invariant holds in every reachable state. *)
THEOREM LinksInductive == Spec => [](LinksInv /\ ReaderInv)
<1>1. Init => LinksInv /\ ReaderInv
  BY InitInv DEF Init, ReaderInv
<1>2. LinksInv /\ ReaderInv /\ [Next]_vars => LinksInv' /\ ReaderInv'
  BY NextInv, ReaderNext
<1> QED BY <1>1, <1>2, PTL DEF Spec

-----------------------------------------------------------------------------
(* What follows from it. *)
LEMMA StoredAre == \A s, i : <<s, i>> \in Stored <=> s \in Sources /\ i \in 1 .. last[s]
<1>1. ASSUME NEW s, NEW i, <<s, i>> \in Stored PROVE s \in Sources /\ i \in 1 .. last[s]
  <2>1. PICK r \in Sources : \E j \in 1 .. last[r] : <<s, i>> = <<r, j>>
    BY <1>1 DEF Stored
  <2> QED BY <2>1
<1>2. ASSUME NEW s \in Sources, NEW i \in 1 .. last[s] PROVE <<s, i>> \in Stored
  BY DEF Stored
<1> QED BY <1>1, <1>2

LEMMA AtMostOne ==
  ASSUME NEW S, \A x, y \in S : x = y
  PROVE  Cardinality(S) = IF S = {} THEN 0 ELSE 1
<1>1. CASE S = {}
  BY <1>1, FS_EmptySet
<1>2. CASE S # {}
  <2>1. PICK x : x \in S
    BY <1>2
  <2>2. S = {x}
    BY <2>1
  <2> QED BY <2>2, FS_Singleton
<1> QED BY <1>1, <1>2

LEMMA InvImpliesEveryLinkOnce == LinksInv => EveryLinkOnce
<1> SUFFICES ASSUME LinksInv, NEW e \in Stored,
                    NEW p \in Range(applied) \cap Projecters, NEW o \in Range(Outputs(p))
             PROVE  LET l == Link(o, e[1], e[2])
                        waiting == {job \in jobs : l \in Range(job.links)}
                    IN  Count(l, linked[l.to]) + Cardinality(waiting)
                          + (IF l \in lost THEN 1 ELSE 0) = 1
  BY DEF EveryLinkOnce
<1>1. PICK l : l = Link(o, e[1], e[2])
  OBVIOUS
<1>2. e[1] \in Sources /\ e[2] \in 1 .. last[e[1]]
  <2>1. PICK s \in Sources : \E i \in 1 .. last[s] : e = <<s, i>>
    BY DEF Stored
  <2> QED BY <2>1
<1>3. PICK t \in LinkStreams : t = l.to
  <2>1. l.to = Targets[o[1]][o[2]]
    BY <1>1, LinkFields
  <2>2. Targets[o[1]][o[2]] \in LinkStreams
    BY OutputsAre
  <2> QED BY <2>1, <2>2
<1> DEFINE waiting == {job \in jobs : l \in Range(job.links)}
           places == {k \in DOMAIN linked[t] : linked[t][k] = l}
<1>4. l \in InStreams(linked) \cup InJobs(jobs) \cup lost
  <2>1. l \in LinksTo(Named(applied), e[1], 1, last[e[1]])
    BY <1>1, <1>2 DEF LinksTo, Named
  <2> QED BY <1>2, <2>1 DEF LinksInv, PlacesOK, PlacesFine
<1>5. places # {} <=> l \in InStreams(linked)
  <2>1. places # {} => l \in InStreams(linked)
    BY <1>3 DEF InStreams, Range
  <2>2. ASSUME l \in InStreams(linked) PROVE places # {}
    <3>1. PICK u \in LinkStreams : \E k \in DOMAIN linked[u] : l = linked[u][k]
      BY <2>2 DEF InStreams, Range
    <3>2. u = t
      BY <1>3, <3>1 DEF LinksInv, StreamsOK, StreamsFine
    <3> QED BY <3>1, <3>2
  <2> QED BY <2>1, <2>2
<1>6. \A k, m \in places : k = m
  BY <1>3 DEF LinksInv, StreamsOK, StreamsFine, OnceEach
<1>7. waiting # {} <=> l \in InJobs(jobs)
  BY DEF InJobs
<1>8. \A job, other \in waiting : job = other
  BY DEF LinksInv, JobsOK, JobsFine
<1> HIDE DEF waiting, places
<1>9. Cardinality(places) = IF l \in InStreams(linked) THEN 1 ELSE 0
  BY <1>5, <1>6, AtMostOne
<1>10. Cardinality(waiting) = IF l \in InJobs(jobs) THEN 1 ELSE 0
  BY <1>7, <1>8, AtMostOne
<1>11. ~(l \in InStreams(linked) /\ l \in InJobs(jobs)) /\ ~(l \in InStreams(linked) /\ l \in lost)
       /\ ~(l \in InJobs(jobs) /\ l \in lost)
  BY DEF LinksInv, PlacesOK, PlacesFine
<1>12. Count(l, linked[t]) = Cardinality(places)
  BY DEF Count, places
<1>13. Count(l, linked[t]) + Cardinality(waiting) + (IF l \in lost THEN 1 ELSE 0) = 1
  BY <1>4, <1>9, <1>10, <1>11, <1>12
<1> QED BY <1>1, <1>3, <1>13 DEF waiting

LEMMA InvImpliesPointsToEvents == LinksInv => PointsToEvents
<1> SUFFICES ASSUME LinksInv, NEW t \in LinkStreams, NEW k \in DOMAIN linked[t]
             PROVE  <<linked[t][k].stream, linked[t][k].pos>> \in Stored
  BY DEF PointsToEvents
<1>1. PICK l : l = linked[t][k]
  OBVIOUS
<1>2. l \in InStreams(linked)
  BY <1>1 DEF InStreams, Range
<1>3. l \in AllLinks /\ l.pos \in 1 .. last[l.stream]
  BY <1>2, LinksAre DEF LinksInv, PlacesOK, PlacesFine
<1> QED BY <1>1, <1>3, LinkFields, StoredAre

LEMMA InvImpliesInOrderOfAppend == LinksInv => InOrderOfAppend
<1> SUFFICES ASSUME LinksInv, NEW t \in LinkStreams, NEW k \in DOMAIN linked[t], NEW m \in DOMAIN linked[t],
                    k < m, linked[t][k].stream = linked[t][m].stream,
                    starts[linked[t][k].stream] \cap linked[t][m].pos + 1 .. linked[t][k].pos = {}
             PROVE  linked[t][k].pos <= linked[t][m].pos
  BY DEF InOrderOfAppend
<1>1. PICK l, n : l = linked[t][k] /\ n = linked[t][m]
  OBVIOUS
<1>2. l \in AllLinks /\ n \in AllLinks /\ k \in Nat /\ m \in Nat
  <2>1. l \in InStreams(linked) /\ n \in InStreams(linked)
    BY <1>1 DEF InStreams, Range
  <2>2. linked[t] \in Seq(AllLinks)
    BY DEF LinksInv, Types
  <2> QED BY <2>1, <2>2, LinksAre, LenProperties DEF LinksInv
<1>3. ~(n.pos < l.pos)
  BY <1>1 DEF LinksInv, StreamsOK, StreamsFine, InTurnOrApart
<1>4. l.pos \in Nat /\ n.pos \in Nat
  BY <1>2, LinkFields
<1>5. l.pos <= n.pos
  BY <1>3, <1>4
<1> QED BY <1>1, <1>5

LEMMA InvImpliesNothingInvented == ReaderInv => NothingInvented
<1>1. CASE reader = Idle
  BY <1>1 DEF Idle, NothingInvented
<1>2. ASSUME NEW page, NEW slots, NEW todo, Resolving(page, slots, todo) PROVE NothingInvented
  <2>1. reader.page = page /\ reader.slots = slots
    BY <1>2 DEF Resolving
  <2> QED BY <1>2, <2>1 DEF Resolving, Among, NothingInvented
<1> QED BY <1>1, <1>2 DEF ReaderInv

LEMMA InvImpliesOneStreamInPlace == ReaderInv => OneStreamInPlace
<1> SUFFICES ASSUME ReaderInv, Resolved,
                    Cardinality({slot.stream : slot \in Range(reader.page)}) = 1
             PROVE  \/ /\ reader.slots = reader.page
                       /\ \E slot \in Range(reader.page) : ~Exists(slot.stream, slot.pos)
                    \/ InPlace(reader.page, reader.slots)
  BY DEF OneStreamInPlace, InPlace
<1>1. PICK page, slots, todo : Resolving(page, slots, todo)
  BY DEF ReaderInv, Idle, Resolved
<1>2. reader.page = page /\ reader.slots = slots /\ todo = {}
  BY <1>1 DEF Resolving, Resolved
<1>3. PICK n \in Nat : DOMAIN page = 1 .. n
  BY <1>1 DEF Resolving
<1> DEFINE f == [k \in 1 .. n |-> page[k].stream]
           streams == {page[k].stream : k \in 1 .. n}
<1>4. {slot.stream : slot \in Range(reader.page)} = streams
  BY <1>2, <1>3 DEF Range
<1>5. f \in Surjection(1 .. n, streams)
  BY DEF Surjection
<1>6. IsFiniteSet(1 .. n)
  <2>1. 1 \in Int /\ n \in Int
    OBVIOUS
  <2> HIDE DEF f, streams
  <2> QED BY <2>1, FS_Interval
<1>7. \A k \in 1 .. n : page[k].stream \in streams
  OBVIOUS
<1> HIDE DEF f, streams
<1>8. IsFiniteSet(streams)
  BY <1>5, <1>6, FS_Surjection
<1>9. \E x : streams = {x}
  BY <1>4, <1>8, FS_Singleton
<1>10. OneStream(page)
  BY <1>3, <1>7, <1>9 DEF OneStream
<1>11. InPlace(page, slots) \/ (slots = page /\ SomeGone(page))
  BY <1>1, <1>2, <1>10 DEF Resolving, OneStreamFine
<1> QED BY <1>2, <1>11 DEF SomeGone, Range

-----------------------------------------------------------------------------
(* Every function of the store links every event once: the link is in its  *)
(* stream, or waits in a goroutine, or was lost to a failure or a crash,   *)
(* and never two of these (projecter.go:84, :110).                         *)
THEOREM EveryLinkOnceCorrect == Spec => []EveryLinkOnce
<1>1. LinksInv /\ ReaderInv => EveryLinkOnce
  BY InvImpliesEveryLinkOnce
<1> QED BY <1>1, LinksInductive, PTL

(* A link points to an event that was stored, and no projecter links the   *)
(* links of another (projecter.go:27).                                     *)
THEOREM PointsToEventsCorrect == Spec => []PointsToEvents
<1>1. LinksInv /\ ReaderInv => PointsToEvents
  BY InvImpliesPointsToEvents
<1> QED BY <1>1, LinksInductive, PTL

(* The links of one append come in the order of its events, whatever other *)
(* goroutines append in between and whichever links fail (projecter.go:108). *)
THEOREM InOrderOfAppendCorrect == Spec => []InOrderOfAppend
<1>1. LinksInv /\ ReaderInv => InOrderOfAppend
  BY InvImpliesInOrderOfAppend
<1> QED BY <1>1, LinksInductive, PTL

(* The streamer is told of every link once or of none, which the order of  *)
(* the options decides; a link it is not told of although it should was    *)
(* stored by an append that failed, or not sent before the process ended   *)
(* (projecter.go:27, :115, streamer.go:181).                               *)
THEOREM LinksAreSentCorrect == Spec => []LinksAreSent
<1>1. LinksInv /\ ReaderInv => LinksAreSent
  BY SentToHeard DEF LinksInv
<1> QED BY <1>1, LinksInductive, PTL

(* However slots are mixed up, each holds an event that a link of the page *)
(* points to (resolve-links.go:129).                                       *)
THEOREM NothingInventedCorrect == Spec => []NothingInvented
<1>1. LinksInv /\ ReaderInv => NothingInvented
  BY InvImpliesNothingInvented
<1> QED BY <1>1, LinksInductive, PTL

(* A page of links into one stream is resolved in place, or not at all.    *)
THEOREM OneStreamInPlaceCorrect == Spec => []OneStreamInPlace
<1>1. LinksInv /\ ReaderInv => OneStreamInPlace
  BY InvImpliesOneStreamInPlace
<1> QED BY <1>1, LinksInductive, PTL
=============================================================================
