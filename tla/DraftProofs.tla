------------------------------ MODULE DraftProofs ------------------------------
(***************************************************************************)
(* Proofs about the ice of drafts (DraftPlan and DraftCommit), for every   *)
(* calendar, format, policy and set of operators: what a proposal places   *)
(* and what a commit writes clashes with nothing.  The proposal is a fold  *)
(* over the pairings, which are folds themselves; a fold is shown to exist *)
(* and to stay in a set its steps stay in.                                 *)
(***************************************************************************)
EXTENDS MCDrafts, FiniteSetTheorems, WellFoundedInduction, NaturalsInduction, TLAPS

-----------------------------------------------------------------------------
(* Folds over finite sets and sequences.                                   *)

LEMMA SmallestSubset ==
  ASSUME NEW S, IsFiniteSet(S), NEW F \in SUBSET (SUBSET S), F # {}
  PROVE  \E A \in F : \A B \in F : B \subseteq A => B = A
<1>1. IsWellFoundedOn(StrictSubsetOrdering(S), SUBSET S)
  BY FS_StrictSubsetOrderingWellFounded, FS_FiniteSubsetsOfFinite
<1>2. PICK A \in F : \A B \in F : <<B, A>> \notin StrictSubsetOrdering(S)
  <2>1. F \subseteq SUBSET S OBVIOUS
  <2> QED BY <1>1, <2>1, WFMin
<1>3. ASSUME NEW B \in F, B \subseteq A PROVE B = A
  BY <1>2, <1>3 DEF StrictSubsetOrdering
<1> QED BY <1>2, <1>3

LEMMA LeastNumber ==
  ASSUME NEW N \in SUBSET Nat, N # {}
  PROVE  \E k \in N : \A j \in N : k <= j
<1>1. PICK k \in N : \A j \in N : <<j, k>> \notin OpToRel(<, Nat)
  BY NatLessThanWellFounded, WFMin, Zenon
<1>2. \A j \in N : ~(j < k) BY <1>1, Zenon DEF OpToRel
<1> QED BY <1>2

\* A function that takes a set apart, element by element, and stays in V.
LEMMA FoldStays ==
  ASSUME NEW S, IsFiniteSet(S), NEW V, NEW pick, NEW g, g[{}] \in V,
         \A s \in SUBSET S : s # {} => pick[s] \in s /\ (g[s \ {pick[s]}] \in V => g[s] \in V)
  PROVE  g[S] \in V
<1> DEFINE F == {s \in SUBSET S : g[s] \notin V}
<1> SUFFICES ASSUME F # {} PROVE FALSE OBVIOUS
<1>0. F \in SUBSET (SUBSET S) OBVIOUS
<1> HIDE DEF F
<1>1. PICK s \in F : \A u \in F : u \subseteq s => u = s BY <1>0, SmallestSubset
<1>2. s \in SUBSET S /\ g[s] \notin V BY DEF F
<1>3. s # {} BY <1>2
<1>4. pick[s] \in s /\ s \ {pick[s]} \in SUBSET S BY <1>2, <1>3
<1>5. s \ {pick[s]} \notin F BY <1>1, <1>4
<1>6. g[s \ {pick[s]}] \in V BY <1>4, <1>5 DEF F
<1> QED BY <1>2, <1>3, <1>6

Folds(h, S, pick, base, G) ==
  \A s \in SUBSET S : h[s] = IF s = {} THEN base ELSE G[pick[s]][h[s \ {pick[s]}]]

LEMMA FoldExists ==
  ASSUME NEW S, IsFiniteSet(S), NEW V, NEW base \in V, NEW G \in [S -> [V -> V]], NEW pick,
         \A s \in SUBSET S : s # {} => pick[s] \in s
  PROVE  \E h \in [SUBSET S -> V] : Folds(h, S, pick, base, G)
<1> DEFINE D(k) == {s \in SUBSET S : Cardinality(s) <= k}
           Upto(k, h) == /\ h \in [D(k) -> V]
                         /\ \A s \in D(k) : h[s] = IF s = {} THEN base ELSE G[pick[s]][h[s \ {pick[s]}]]
           Bad == {k \in Nat : ~ \E h : Upto(k, h)}
<1>1. \A s \in SUBSET S : /\ IsFiniteSet(s) /\ Cardinality(s) \in Nat /\ Cardinality(s) <= Cardinality(S)
                          /\ Cardinality(s) = 0 <=> s = {}
                          /\ \A x \in s : Cardinality(s \ {x}) = Cardinality(s) - 1
  BY FS_Subset, FS_CardinalityType, FS_EmptySet, FS_RemoveElement
<1>2. Bad = {}
  <2> SUFFICES ASSUME Bad # {} PROVE FALSE OBVIOUS
  <2>0. Bad \in SUBSET Nat OBVIOUS
  <2> HIDE DEF Bad
  <2>1. PICK k \in Bad : \A j \in Bad : k <= j BY <2>0, LeastNumber
  <2>2. k \in Nat /\ ~ \E h : Upto(k, h) BY DEF Bad
  <2>3. k # 0
    <3> SUFFICES ASSUME k = 0 PROVE FALSE OBVIOUS
    <3>1. \A s \in D(0) : s = {}
      <4> TAKE s \in D(0)
      <4>1. s \in SUBSET S /\ Cardinality(s) <= 0 OBVIOUS
      <4>2. Cardinality(s) = 0 BY <1>1, <4>1
      <4> QED BY <1>1, <4>1, <4>2
    <3> DEFINE E == D(0)
               z == [s \in E |-> base]
    <3> HIDE DEF E
    <3>2. z \in [E -> V] /\ \A s \in E : z[s] = base OBVIOUS
    <3> HIDE DEF z
    <3>4. z \in [D(0) -> V] /\ \A s \in D(0) : s = {} /\ z[s] = base BY <3>1, <3>2 DEF E
    <3> HIDE DEF D
    <3>3. Upto(0, z) BY <3>4
    <3> QED BY <2>2, <3>3
  <2>4. k - 1 \in Nat /\ k - 1 \notin Bad BY <2>1, <2>2, <2>3
  <2>5. PICK h : Upto(k - 1, h) BY <2>4 DEF Bad
  <2> DEFINE g == [s \in D(k) |-> IF s = {} THEN base ELSE G[pick[s]][h[s \ {pick[s]}]]]
  <2>6. ASSUME NEW s \in D(k), s # {}
        PROVE  /\ s \ {pick[s]} \in D(k) /\ h[s \ {pick[s]}] \in V /\ pick[s] \in S
               /\ g[s \ {pick[s]}] = h[s \ {pick[s]}]
    <3> DEFINE u == s \ {pick[s]}
    <3>1. pick[s] \in s /\ s \in SUBSET S BY <2>6
    <3>2. u \in SUBSET S /\ Cardinality(u) = Cardinality(s) - 1 BY <1>1, <3>1
    <3>3. Cardinality(s) \in Nat /\ Cardinality(s) <= k /\ Cardinality(u) \in Nat BY <1>1, <3>1, <3>2
    <3>4. u \in D(k - 1) /\ u \in D(k) BY <2>2, <3>2, <3>3
    <3> HIDE DEF u
    <3>5. h[u] \in V /\ h[u] = IF u = {} THEN base ELSE G[pick[u]][h[u \ {pick[u]}]] BY <2>5, <3>4
    <3>6. g[u] = h[u] BY <3>4, <3>5
    <3> QED BY <3>1, <3>4, <3>5, <3>6 DEF u
  <2>7. g \in [D(k) -> V]
    <3>1. ASSUME NEW s \in D(k) PROVE (IF s = {} THEN base ELSE G[pick[s]][h[s \ {pick[s]}]]) \in V
      <4>1. CASE s = {} BY <4>1
      <4>2. CASE s # {}
        <5>1. h[s \ {pick[s]}] \in V /\ pick[s] \in S BY <2>6, <4>2
        <5>2. G[pick[s]] \in [V -> V] BY <5>1
        <5> QED BY <4>2, <5>1, <5>2
      <4> QED BY <4>1, <4>2
    <3> QED BY <3>1
  <2>8. ASSUME NEW s \in D(k) PROVE g[s] = IF s = {} THEN base ELSE G[pick[s]][g[s \ {pick[s]}]]
    BY <2>6
  <2> HIDE DEF g
  <2>9. Upto(k, g) BY <2>7, <2>8
  <2> QED BY <2>2, <2>9
<1> DEFINE n == Cardinality(S)
<1>3. n \in Nat BY FS_CardinalityType
<1>4. D(n) = SUBSET S BY <1>1
<1>5. PICK h : Upto(n, h) BY <1>2, <1>3
<1>6. h \in [SUBSET S -> V] BY <1>4, <1>5
<1> QED BY <1>4, <1>5, <1>6 DEF Folds

LEMMA Greatest ==
  ASSUME NEW n \in Nat, NEW s \in SUBSET (1 .. n), s # {}
  PROVE  Max(s) \in s
<1> DEFINE N == {n - x : x \in s}
<1>0. \A x \in s : x \in Nat /\ n - x \in Nat OBVIOUS
<1>1. N \in SUBSET Nat /\ N # {} BY <1>0
<1> HIDE DEF N
<1>2. PICK k \in N : \A j \in N : k <= j BY <1>1, LeastNumber
<1>3. PICK x \in s : k = n - x BY DEF N
<1>4. ASSUME NEW y \in s PROVE x >= y
  <2>1. n - y \in N BY DEF N
  <2>2. n - x <= n - y BY <1>2, <1>3, <2>1
  <2>3. x \in Nat /\ y \in Nat BY <1>3
  <2> QED BY <2>2, <2>3
<1> QED BY <1>3, <1>4 DEF Max

Tops(n) == [s \in SUBSET (1 .. n) |-> Max(s)]

LEMMA TopsPick ==
  ASSUME NEW n \in Nat
  PROVE  IsFiniteSet(1 .. n) /\ \A s \in SUBSET (1 .. n) : s # {} => Tops(n)[s] \in s
<1>1. IsFiniteSet(1 .. n) BY FS_Interval
<1>2. ASSUME NEW s \in SUBSET (1 .. n), s # {} PROVE Tops(n)[s] \in s
  <2>1. Tops(n)[s] = Max(s) BY DEF Tops
  <2> QED BY <1>2, <2>1, Greatest
<1> QED BY <1>1, <1>2

LEMMA AssignIceStays ==
  ASSUME NEW slots, NEW rules, NEW now, NEW n \in Nat, NEW pairings, DOMAIN pairings = 1 .. n,
         NEW V, [placed |-> <<>>, left |-> <<>>] \in V,
         \A done \in V, i \in 1 .. n : PlaceNext(slots, rules, now, done, pairings[i]) \in V
  PROVE  AssignIce(pairings, slots, rules, now) \in V
<1> DEFINE base == [placed |-> <<>>, left |-> <<>>]
           op(done, pair) == PlaceNext(slots, rules, now, done, pair)
           S == 1 .. n
           G == [i \in S |-> [done \in V |-> op(done, pairings[i])]]
           Iter(h) == h = [s \in SUBSET DOMAIN pairings |->
                             IF s = {} THEN base ELSE op(h[s \ {Max(s)}], pairings[Max(s)])]
           g == CHOOSE h : Iter(h)
<1>1. AssignIce(pairings, slots, rules, now) = g[DOMAIN pairings]
  BY DEF AssignIce, FoldLeft, MapThenFoldSet
<1>2. \E h : Iter(h)
  <2>1. G \in [S -> [V -> V]] OBVIOUS
  <2>0. base \in V /\ IsFiniteSet(S) /\ \A s \in SUBSET S : s # {} => Tops(n)[s] \in s BY TopsPick
  <2> HIDE DEF G, op, base, S
  <2>2. PICK h \in [SUBSET S -> V] : Folds(h, S, Tops(n), base, G)
    BY <2>0, <2>1, FoldExists
  <2>3. ASSUME NEW s \in SUBSET S, s # {}
        PROVE  h[s] = op(h[s \ {Max(s)}], pairings[Max(s)])
    <3>1. Max(s) \in s /\ Tops(n)[s] = Max(s) BY <2>3, TopsPick DEF Tops, S
    <3>2. h[s \ {Max(s)}] \in V OBVIOUS
    <3>3. h[s] = G[Max(s)][h[s \ {Max(s)}]] BY <2>2, <2>3, <3>1 DEF Folds
    <3> QED BY <3>1, <3>2, <3>3 DEF G
  <2>4. \A s \in SUBSET S : h[s] = IF s = {} THEN base ELSE op(h[s \ {Max(s)}], pairings[Max(s)])
    BY <2>2, <2>3 DEF Folds
  <2>5. Iter(h) BY <2>4 DEF S
  <2> QED BY <2>5
<1>3. Iter(g) BY <1>2
<1> HIDE DEF g
<1>4. g[{}] = base /\ base \in V BY <1>3
<1>5. ASSUME NEW s \in SUBSET S, s # {}, g[s \ {Tops(n)[s]}] \in V PROVE g[s] \in V
  <2>1. Max(s) \in s /\ Tops(n)[s] = Max(s) BY <1>5, TopsPick DEF Tops
  <2>2. g[s] = op(g[s \ {Max(s)}], pairings[Max(s)]) BY <1>3, <1>5
  <2> HIDE DEF op
  <2>3. \A done \in V, i \in S : op(done, pairings[i]) \in V BY DEF op
  <2> QED BY <1>5, <2>1, <2>2, <2>3
<1> HIDE DEF op, base, Iter
<1>6. g[S] \in V BY <1>4, <1>5, TopsPick, FoldStays
<1> QED BY <1>1, <1>6

LEMMA AddsUp ==
  ASSUME NEW n \in Nat, NEW f \in [1 .. n -> Int]
  PROVE  FoldFunction(+, 0, f) \in Int
<1> DEFINE S == 1 .. n
           pick == [s \in SUBSET S |-> CHOOSE x \in s : TRUE]
           G == [i \in S |-> [v \in Int |-> f[i] + v]]
           Iter(h) == h = [s \in SUBSET S |->
                             IF s = {} THEN 0
                             ELSE f[CHOOSE x \in s : TRUE] + h[s \ {CHOOSE x \in s : TRUE}]]
           g == CHOOSE h : Iter(h)
<1>1. FoldFunction(+, 0, f) = g[S]
  <2>1. DOMAIN f = S OBVIOUS
  <2> QED BY <2>1 DEF FoldFunction, FoldFunctionOnSet, MapThenFoldSet
<1>0. IsFiniteSet(S) /\ \A s \in SUBSET S : s # {} => pick[s] \in s
  <2>1. IsFiniteSet(S) BY FS_Interval
  <2>2. ASSUME NEW s \in SUBSET S, s # {} PROVE pick[s] \in s BY <2>2
  <2> QED BY <2>1, <2>2
<1>2. \E h : Iter(h)
  <2> DEFINE Z == Int
             zero == 0
  <2>1. G \in [S -> [Z -> Z]] /\ zero \in Z OBVIOUS
  <2> HIDE DEF G, pick, S, Z, zero
  <2>5. PICK h \in [SUBSET S -> Z] : Folds(h, S, pick, zero, G) BY <1>0, <2>1, FoldExists
  <2>2. h \in [SUBSET S -> Int] /\ Folds(h, S, pick, 0, G) BY <2>5 DEF Z, zero
  <2>3. ASSUME NEW s \in SUBSET S, s # {}
        PROVE  h[s] = f[CHOOSE x \in s : TRUE] + h[s \ {CHOOSE x \in s : TRUE}]
    <3>1. pick[s] \in s /\ pick[s] = CHOOSE x \in s : TRUE BY <1>0, <2>3 DEF pick
    <3>2. h[s \ {pick[s]}] \in Int BY <2>2
    <3>3. h[s] = G[pick[s]][h[s \ {pick[s]}]] BY <2>2, <2>3 DEF Folds
    <3> QED BY <3>1, <3>2, <3>3 DEF G
  <2>4. Iter(h) BY <2>2, <2>3 DEF Folds
  <2> QED BY <2>4
<1>3. Iter(g) BY <1>2
<1> HIDE DEF g
<1>4. g[{}] = 0 /\ 0 \in Int BY <1>3
<1>5. ASSUME NEW s \in SUBSET S, s # {}, g[s \ {pick[s]}] \in Int PROVE g[s] \in Int
  <2>1. pick[s] \in s /\ pick[s] = CHOOSE x \in s : TRUE BY <1>0, <1>5
  <2>2. g[s] = f[pick[s]] + g[s \ {pick[s]}] BY <1>3, <1>5
  <2>3. f[pick[s]] \in Int BY <2>1
  <2> HIDE DEF pick
  <2> QED BY <1>5, <2>2, <2>3
<1> HIDE DEF Iter, pick, S
<1>6. g[S] \in Int BY <1>0, <1>4, <1>5, FoldStays
<1> QED BY <1>1, <1>6

\* A flattened sequence of sequences is one.
LEMMA Flattened ==
  ASSUME NEW U, NEW seqs \in Seq(Seq(U))
  PROVE  FlattenSeq(seqs) \in Seq(U)
<1> DEFINE n == Len(seqs)
           Upto(k, h) == /\ h \in [1 .. k -> Seq(U)]
                         /\ \A i \in 1 .. k : h[i] = IF i = 1 THEN seqs[i] ELSE h[i - 1] \o seqs[i]
           Iter(h) == h = [i \in 1 .. n |-> IF i = 1 THEN seqs[i] ELSE h[i - 1] \o seqs[i]]
           g == CHOOSE h : Iter(h)
           Bad == {k \in Nat : k <= n /\ ~ \E h : Upto(k, h)}
<1>0. n \in Nat /\ \A i \in 1 .. n : seqs[i] \in Seq(U) OBVIOUS
<1>1. CASE n = 0
  <2>1. seqs = <<>> BY <1>1
  <2> QED BY <1>1, <2>1 DEF FlattenSeq
<1>2. CASE n # 0
  <2>1. FlattenSeq(seqs) = g[n] BY <1>2 DEF FlattenSeq
  <2>2. Bad = {}
    <3> SUFFICES ASSUME Bad # {} PROVE FALSE OBVIOUS
    <3>0. Bad \in SUBSET Nat OBVIOUS
    <3> HIDE DEF Bad
    <3>1. PICK k \in Bad : \A j \in Bad : k <= j BY <3>0, LeastNumber
    <3>2. k \in Nat /\ k <= n /\ ~ \E h : Upto(k, h) BY DEF Bad
    <3> HIDE DEF n
    <3>3. k # 0
      <4> SUFFICES ASSUME k = 0 PROVE FALSE OBVIOUS
      <4>1. 1 .. 0 = {} OBVIOUS
      <4>2. Upto(0, [i \in 1 .. 0 |-> seqs]) BY <4>1
      <4> QED BY <3>2, <4>2
    <3>4. k - 1 \in Nat /\ k - 1 <= n /\ k - 1 \notin Bad BY <1>0, <3>1, <3>2, <3>3
    <3>5. PICK h : Upto(k - 1, h) BY <3>4 DEF Bad
    <3> DEFINE f == [i \in 1 .. k |-> IF i = 1 THEN seqs[i] ELSE h[i - 1] \o seqs[i]]
    <3>6. ASSUME NEW i \in 1 .. k, i # 1 PROVE i - 1 \in 1 .. k - 1 /\ i - 1 \in 1 .. k /\ h[i - 1] \in Seq(U)
      <4>1. i - 1 \in 1 .. k - 1 /\ i - 1 \in 1 .. k BY <3>2, <3>6
      <4> QED BY <3>5, <4>1
    <3>7. ASSUME NEW i \in 1 .. k PROVE f[i] \in Seq(U)
      <4>1. seqs[i] \in Seq(U) BY <1>0, <3>2
      <4> QED BY <3>6, <4>1
    <3>8. f \in [1 .. k -> Seq(U)] BY <3>7
    <3>9. ASSUME NEW i \in 1 .. k, i # 1 PROVE f[i - 1] = h[i - 1] BY <3>5, <3>6, <3>9
    <3>10. \A i \in 1 .. k : f[i] = IF i = 1 THEN seqs[i] ELSE f[i - 1] \o seqs[i] BY <3>9
    <3> HIDE DEF f
    <3>11. Upto(k, f) BY <3>8, <3>10
    <3> QED BY <3>2, <3>11
  <2>8. n \notin Bad /\ n <= n
    <3> HIDE DEF Bad, n
    <3> QED BY <1>0, <2>2
  <2>3. PICK h : Upto(n, h)
    <3> HIDE DEF Upto, n
    <3> QED BY <1>0, <2>8
  <2>4. Iter(h) BY <2>3
  <2>5. Iter(g) BY <2>4
  <2> HIDE DEF g
  <2> DEFINE W == {k \in Nat : k \in 1 .. n /\ g[k] \notin Seq(U)}
  <2>6. W = {}
    <3> SUFFICES ASSUME W # {} PROVE FALSE OBVIOUS
    <3>0. W \in SUBSET Nat OBVIOUS
    <3> HIDE DEF W
    <3>1. PICK k \in W : \A j \in W : k <= j BY <3>0, LeastNumber
    <3>2. k \in Nat /\ k \in 1 .. n /\ g[k] \notin Seq(U) BY DEF W
    <3> HIDE DEF n
    <3>3. g[k] = IF k = 1 THEN seqs[k] ELSE g[k - 1] \o seqs[k] BY <2>5, <3>2
    <3>4. CASE k = 1 BY <1>0, <3>2, <3>3, <3>4
    <3>5. CASE k # 1
      <4>1. k - 1 \in Nat /\ k - 1 \in 1 .. n /\ k - 1 \notin W BY <1>0, <3>1, <3>2, <3>5
      <4>2. g[k - 1] \in Seq(U) BY <4>1 DEF W
      <4>3. seqs[k] \in Seq(U) BY <1>0, <3>2
      <4> QED BY <3>2, <3>3, <3>5, <4>2, <4>3
    <3> QED BY <3>4, <3>5
  <2> HIDE DEF Iter
  <2>7. n \in 1 .. n BY <1>0, <1>2
  <2> QED BY <1>0, <2>1, <2>6, <2>7
<1> QED BY <1>1, <1>2

-----------------------------------------------------------------------------
(* The pairings are a sequence, whatever the calendar holds.               *)

Matrix(m) == [(1 .. m) \X (1 .. m) -> Nat]

LEMMA AtSeq ==
  ASSUME NEW U, NEW seq \in Seq(U), NEW places
  PROVE  At(seq, places) \in Seq(U)
<1> DEFINE seqs == [i \in DOMAIN seq |-> IF i \in places THEN <<seq[i]>> ELSE <<>>]
<1>1. DOMAIN seq = 1 .. Len(seq) /\ Len(seq) \in Nat OBVIOUS
<1>2. ASSUME NEW i \in DOMAIN seq PROVE seqs[i] \in Seq(U)
  <2>1. seq[i] \in U BY <1>1
  <2> QED BY <2>1
<1>3. seqs \in Seq(Seq(U)) BY <1>1, <1>2
<1> HIDE DEF seqs
<1>4. FlattenSeq(seqs) \in Seq(U) BY <1>3, Flattened
<1> QED BY <1>4 DEF At, seqs

LEMMA RoundSeq ==
  ASSUME NEW m \in Nat, m >= 2, NEW r \in Nat
  PROVE  Round(m, r) \in Seq(Int \X Int)
<1> DEFINE n == m + (m % 2)
           seats == Circle(n, r)
           pairs == [i \in 1 .. n \div 2 |-> <<seats[i], seats[n + 1 - i]>>]
<1>1. n \in Nat /\ n >= 2 /\ n \div 2 \in Nat /\ n \div 2 <= n OBVIOUS
<1>2. ASSUME NEW i \in 1 .. n PROVE seats[i] \in Int
  <2> HIDE DEF n
  <2>1. n - 1 \in Nat /\ n - 1 > 0 /\ i - 2 - r \in Int BY <1>1
  <2>2. (i - 2 - r) % (n - 1) \in Int BY <2>1
  <2> QED BY <2>2 DEF Circle
<1> HIDE DEF n, seats
<1>3. ASSUME NEW i \in 1 .. n \div 2 PROVE <<seats[i], seats[n + 1 - i]>> \in Int \X Int
  <2>1. i \in 1 .. n /\ n + 1 - i \in 1 .. n BY <1>1
  <2> QED BY <1>2, <2>1
<1>4. pairs \in Seq(Int \X Int) BY <1>1, <1>3
<1> HIDE DEF pairs
<1>5. At(pairs, {i \in 1 .. n \div 2 : seats[i] <= m /\ seats[n + 1 - i] <= m}) \in Seq(Int \X Int)
  BY <1>4, AtSeq
<1> QED BY <1>5 DEF Round, n, seats, pairs

LEMMA TurnedSeq ==
  ASSUME NEW pairs \in Seq(Int \X Int)
  PROVE  Turned(pairs) \in Seq(Int \X Int)
<1>1. DOMAIN pairs = 1 .. Len(pairs) /\ Len(pairs) \in Nat OBVIOUS
<1>2. ASSUME NEW i \in DOMAIN pairs PROVE <<pairs[i][2], pairs[i][1]>> \in Int \X Int
  <2>1. pairs[i] \in Int \X Int BY <1>1
  <2> QED BY <2>1
<1> QED BY <1>1, <1>2 DEF Turned

LEMMA OneRoundRobinSeq ==
  ASSUME NEW m \in Nat
  PROVE  OneRoundRobin(m) \in Seq(Int \X Int)
<1>1. CASE m < 2 BY <1>1 DEF OneRoundRobin
<1>2. CASE m >= 2
  <2> DEFINE n == m + (m % 2) - 1
             rounds == [k \in 1 .. n |-> IF k % 2 = 1 THEN Round(m, k - 1) ELSE Turned(Round(m, k - 1))]
  <2>1. n \in Nat BY <1>2
  <2>2. ASSUME NEW k \in 1 .. n PROVE rounds[k] \in Seq(Int \X Int)
    <3>1. k - 1 \in Nat BY <2>1
    <3>2. Round(m, k - 1) \in Seq(Int \X Int) BY <1>2, <3>1, RoundSeq
    <3>3. Turned(Round(m, k - 1)) \in Seq(Int \X Int) BY <3>2, TurnedSeq
    <3> QED BY <3>2, <3>3
  <2> HIDE DEF n
  <2>3. rounds \in Seq(Seq(Int \X Int)) BY <2>1, <2>2
  <2> HIDE DEF rounds
  <2>4. FlattenSeq(rounds) \in Seq(Int \X Int) BY <2>3, Flattened
  <2> QED BY <1>2, <2>4 DEF OneRoundRobin, rounds, n
<1> QED BY <1>1, <1>2

LEMMA RoundRobinSeq ==
  ASSUME NEW m \in Nat, NEW meetings \in Nat
  PROVE  RoundRobin(m, meetings) \in Seq(Int \X Int)
<1> DEFINE legs == [k \in 1 .. meetings |->
                      IF k % 2 = 1 THEN OneRoundRobin(m) ELSE Turned(OneRoundRobin(m))]
<1>1. OneRoundRobin(m) \in Seq(Int \X Int) /\ Turned(OneRoundRobin(m)) \in Seq(Int \X Int)
  BY OneRoundRobinSeq, TurnedSeq
<1>2. legs \in Seq(Seq(Int \X Int)) BY <1>1
<1> HIDE DEF legs
<1>3. FlattenSeq(legs) \in Seq(Int \X Int) BY <1>2, Flattened
<1> QED BY <1>3 DEF RoundRobin, legs

LEMMA ExtraPairsSeq ==
  ASSUME NEW m \in Nat, m >= 2, NEW rem \in Nat
  PROVE  ExtraPairs(m, rem) \in Seq(Int \X Int)
<1>1. CASE m % 2 = 0
  <2> DEFINE rounds == [k \in 1 .. rem |-> Round(m, k - 1)]
  <2>1. ASSUME NEW k \in 1 .. rem PROVE rounds[k] \in Seq(Int \X Int)
    <3>1. k - 1 \in Nat OBVIOUS
    <3> QED BY <3>1, RoundSeq
  <2>2. rounds \in Seq(Seq(Int \X Int)) BY <2>1
  <2> HIDE DEF rounds
  <2>3. FlattenSeq(rounds) \in Seq(Int \X Int) BY <2>2, Flattened
  <2> QED BY <1>1, <2>3 DEF ExtraPairs, rounds
<1>2. CASE m % 2 # 0
  <2> DEFINE n == rem \div 2
             chord(k) == [i \in 1 .. m |-> <<i, ((i - 1 + k) % m) + 1>>]
             chords == [k \in 1 .. n |-> chord(k)]
  <2>0. n \in Nat OBVIOUS
  <2> HIDE DEF n
  <2>1. ASSUME NEW k \in 1 .. n PROVE chord(k) \in Seq(Int \X Int)
    <3>1. ASSUME NEW i \in 1 .. m PROVE <<i, ((i - 1 + k) % m) + 1>> \in Int \X Int
      <4>1. i \in Int /\ i - 1 + k \in Int OBVIOUS
      <4>2. (i - 1 + k) % m \in Int BY <4>1
      <4> QED BY <4>1, <4>2
    <3> QED BY <3>1
  <2> HIDE DEF chord
  <2>2. chords \in Seq(Seq(Int \X Int)) BY <2>0, <2>1
  <2> HIDE DEF chords
  <2>3. FlattenSeq(chords) \in Seq(Int \X Int) BY <2>2, Flattened
  <2> QED BY <1>2, <2>3 DEF ExtraPairs, chords, chord, n
<1> QED BY <1>1, <1>2

LEMMA TargetOrderSeq ==
  ASSUME NEW m \in Nat, m >= 2, NEW count \in Nat
  PROVE  TargetOrder(m, count) \in Seq(Int \X Int)
<1>1. m - 1 \in Nat /\ m - 1 > 0 OBVIOUS
<1>2. count \div (m - 1) \in Nat /\ count % (m - 1) \in Nat BY <1>1
<1>3. RoundRobin(m, count \div (m - 1)) \in Seq(Int \X Int) BY <1>2, RoundRobinSeq
<1>4. ExtraPairs(m, count % (m - 1)) \in Seq(Int \X Int) BY <1>2, ExtraPairsSeq
<1> QED BY <1>3, <1>4 DEF TargetOrder

LEMMA DeficitSeq ==
  ASSUME NEW U, NEW order \in Seq(U), NEW hosted
  PROVE  Deficit(order, hosted) \in Seq(U)
BY AtSeq DEF Deficit

LEMMA Bumped ==
  ASSUME NEW D, NEW h \in [D -> Nat], NEW p
  PROVE  [h EXCEPT ![p] = @ + 1] \in [D -> Nat]
<1>1. CASE p \in D BY <1>1
<1>2. CASE p \notin D
  <2>1. [h EXCEPT ![p] = @ + 1] = h BY <1>2
  <2> QED BY <2>1
<1> QED BY <1>1, <1>2

LEMMA OrientedStays ==
  ASSUME NEW m, NEW hosted, NEW n \in Nat, NEW keys, DOMAIN keys = 1 .. n,
         NEW V, [hosted |-> hosted, pairs |-> <<>>] \in V,
         \A done \in V, i \in 1 .. n : OrientNext(m, done, keys[i]) \in V
  PROVE  \E v \in V : Oriented(m, keys, hosted) = v.pairs
<1> DEFINE base == [hosted |-> hosted, pairs |-> <<>>]
           op(done, x) == OrientNext(m, done, x)
           S == 1 .. n
           G == [i \in S |-> [done \in V |-> op(done, keys[i])]]
           Iter(h) == h = [s \in SUBSET DOMAIN keys |->
                             IF s = {} THEN base ELSE op(h[s \ {Max(s)}], keys[Max(s)])]
           g == CHOOSE h : Iter(h)
<1>1. Oriented(m, keys, hosted) = g[DOMAIN keys].pairs
  BY DEF Oriented, FoldLeft, MapThenFoldSet
<1>2. \E h : Iter(h)
  <2>1. G \in [S -> [V -> V]] OBVIOUS
  <2>0. base \in V /\ IsFiniteSet(S) /\ \A s \in SUBSET S : s # {} => Tops(n)[s] \in s BY TopsPick
  <2> HIDE DEF G, op, base, S
  <2>2. PICK h \in [SUBSET S -> V] : Folds(h, S, Tops(n), base, G)
    BY <2>0, <2>1, FoldExists
  <2>3. ASSUME NEW s \in SUBSET S, s # {}
        PROVE  h[s] = op(h[s \ {Max(s)}], keys[Max(s)])
    <3>1. Max(s) \in s /\ Tops(n)[s] = Max(s) BY <2>3, TopsPick DEF Tops, S
    <3>2. h[s \ {Max(s)}] \in V OBVIOUS
    <3>3. h[s] = G[Max(s)][h[s \ {Max(s)}]] BY <2>2, <2>3, <3>1 DEF Folds
    <3> QED BY <3>1, <3>2, <3>3 DEF G
  <2>4. \A s \in SUBSET S : h[s] = IF s = {} THEN base ELSE op(h[s \ {Max(s)}], keys[Max(s)])
    BY <2>2, <2>3 DEF Folds
  <2>5. Iter(h) BY <2>4 DEF S
  <2> QED BY <2>5
<1>3. Iter(g) BY <1>2
<1> HIDE DEF g
<1>4. g[{}] = base /\ base \in V BY <1>3
<1>5. ASSUME NEW s \in SUBSET S, s # {}, g[s \ {Tops(n)[s]}] \in V PROVE g[s] \in V
  <2>1. Max(s) \in s /\ Tops(n)[s] = Max(s) BY <1>5, TopsPick DEF Tops
  <2>2. g[s] = op(g[s \ {Max(s)}], keys[Max(s)]) BY <1>3, <1>5
  <2> HIDE DEF op
  <2>3. \A done \in V, i \in S : op(done, keys[i]) \in V BY DEF op
  <2> QED BY <1>5, <2>1, <2>2, <2>3
<1> HIDE DEF op, base, Iter
<1>6. g[S] \in V BY <1>4, <1>5, TopsPick, FoldStays
<1> QED BY <1>1, <1>6

LEMMA OrientedSeq ==
  ASSUME NEW m \in Nat, NEW hosted \in Matrix(m), NEW K, NEW keys \in Seq(K)
  PROVE  \E U : Oriented(m, keys, hosted) \in Seq(U)
<1> DEFINE U == {FewerHosted(m, h, key[1], key[2]) : h \in Matrix(m), key \in K}
           V == [hosted : Matrix(m), pairs : Seq(U)]
<1>0. Len(keys) \in Nat /\ DOMAIN keys = 1 .. Len(keys) OBVIOUS
<1>7. ASSUME NEW done \in V, NEW i \in DOMAIN keys PROVE OrientNext(m, done, keys[i]) \in V
  <2> DEFINE pair == FewerHosted(m, done.hosted, keys[i][1], keys[i][2])
  <2>1. keys[i] \in K /\ done.hosted \in Matrix(m) /\ done.pairs \in Seq(U) BY <1>0
  <2>2. pair \in U BY <2>1
  <2> HIDE DEF pair, U
  <2>3. [done.hosted EXCEPT ![pair] = @ + 1] \in Matrix(m) BY <2>1, Bumped DEF Matrix
  <2>4. Append(done.pairs, pair) \in Seq(U) BY <2>1, <2>2
  <2>5. OrientNext(m, done, keys[i]) = [hosted |-> [done.hosted EXCEPT ![pair] = @ + 1],
                                        pairs |-> Append(done.pairs, pair)] BY DEF pair, OrientNext
  <2> QED BY <2>3, <2>4, <2>5
<1>8. [hosted |-> hosted, pairs |-> <<>>] \in V OBVIOUS
<1>9. \A v \in V : v.pairs \in Seq(U) OBVIOUS
<1> HIDE DEF V, U
<1>1. \E v \in V : Oriented(m, keys, hosted) = v.pairs BY <1>0, <1>7, <1>8, OrientedStays
<1> QED BY <1>1, <1>9

LEMMA NeedsType ==
  ASSUME NEW m \in Nat, NEW count \in Nat, NEW hosted \in Matrix(m)
  PROVE  Needs(m, count, hosted) \in [1 .. m -> Int]
<1>1. ASSUME NEW team \in 1 .. m PROVE Degree(m, hosted, team) \in Int
  <2> DEFINE met == [other \in 1 .. m |-> Met(hosted, team, other)]
  <2>1. ASSUME NEW other \in 1 .. m PROVE Met(hosted, team, other) \in Int
    <3>1. <<team, other>> \in (1 .. m) \X (1 .. m) /\ <<other, team>> \in (1 .. m) \X (1 .. m) OBVIOUS
    <3>2. hosted[<<team, other>>] \in Nat /\ hosted[<<other, team>>] \in Nat BY <3>1 DEF Matrix
    <3> QED BY <3>2 DEF Met
  <2>2. met \in [1 .. m -> Int] BY <2>1
  <2> HIDE DEF met
  <2>3. FoldFunction(+, 0, met) \in Int BY <2>2, AddsUp
  <2> QED BY <2>3 DEF Degree, met
<1> QED BY <1>1 DEF Needs

LEMMA CompletionStays ==
  ASSUME NEW m, NEW count, NEW hosted, NEW n \in Nat, NEW turns, DOMAIN turns = 1 .. n,
         turns = [k \in 1 .. TotalOf(Needs(m, count, hosted)) |-> k],
         NEW V, CompletionStart(m, count, hosted) \in V,
         \A done \in V, i \in 1 .. n : CompletionStep(done, turns[i]) \in V
  PROVE  Completion(m, count, hosted) \in V
<1> DEFINE base == CompletionStart(m, count, hosted)
           op(done, x) == CompletionStep(done, x)
           S == 1 .. n
           G == [i \in S |-> [done \in V |-> op(done, turns[i])]]
           Iter(h) == h = [s \in SUBSET DOMAIN turns |->
                             IF s = {} THEN base ELSE op(h[s \ {Max(s)}], turns[Max(s)])]
           g == CHOOSE h : Iter(h)
<1>1. Completion(m, count, hosted) = g[DOMAIN turns]
  BY DEF Completion, FoldLeft, MapThenFoldSet
<1>2. \E h : Iter(h)
  <2>1. G \in [S -> [V -> V]] OBVIOUS
  <2>0. base \in V /\ IsFiniteSet(S) /\ \A s \in SUBSET S : s # {} => Tops(n)[s] \in s BY TopsPick
  <2> HIDE DEF G, op, base, S
  <2>2. PICK h \in [SUBSET S -> V] : Folds(h, S, Tops(n), base, G)
    BY <2>0, <2>1, FoldExists
  <2>3. ASSUME NEW s \in SUBSET S, s # {}
        PROVE  h[s] = op(h[s \ {Max(s)}], turns[Max(s)])
    <3>1. Max(s) \in s /\ Tops(n)[s] = Max(s) BY <2>3, TopsPick DEF Tops, S
    <3>2. h[s \ {Max(s)}] \in V OBVIOUS
    <3>3. h[s] = G[Max(s)][h[s \ {Max(s)}]] BY <2>2, <2>3, <3>1 DEF Folds
    <3> QED BY <3>1, <3>2, <3>3 DEF G
  <2>4. \A s \in SUBSET S : h[s] = IF s = {} THEN base ELSE op(h[s \ {Max(s)}], turns[Max(s)])
    BY <2>2, <2>3 DEF Folds
  <2>5. Iter(h) BY <2>4 DEF S
  <2> QED BY <2>5
<1>3. Iter(g) BY <1>2
<1> HIDE DEF g
<1>4. g[{}] = base /\ base \in V BY <1>3
<1>5. ASSUME NEW s \in SUBSET S, s # {}, g[s \ {Tops(n)[s]}] \in V PROVE g[s] \in V
  <2>1. Max(s) \in s /\ Tops(n)[s] = Max(s) BY <1>5, TopsPick DEF Tops
  <2>2. g[s] = op(g[s \ {Max(s)}], turns[Max(s)]) BY <1>3, <1>5
  <2> HIDE DEF op
  <2>3. \A done \in V, i \in S : op(done, turns[i]) \in V BY DEF op
  <2> QED BY <1>5, <2>1, <2>2, <2>3
<1> HIDE DEF op, base, Iter
<1>6. g[S] \in V BY <1>4, <1>5, TopsPick, FoldStays
<1> QED BY <1>1, <1>6
LEMMA Lowered ==
  ASSUME NEW D, NEW h \in [D -> Int], NEW p
  PROVE  [h EXCEPT ![p] = @ - 1] \in [D -> Int] /\ [h EXCEPT ![p] = @ + 1] \in [D -> Int]
<1>1. CASE p \in D BY <1>1
<1>2. CASE p \notin D
  <2>1. [h EXCEPT ![p] = @ - 1] = h /\ [h EXCEPT ![p] = @ + 1] = h BY <1>2
  <2> QED BY <2>1
<1> QED BY <1>1, <1>2

LEMMA PairUpType ==
  ASSUME NEW D, NEW E, NEW K,
         NEW done \in [need : [D -> Int], keys : Seq(K), stuck : BOOLEAN, met : [E -> Int]],
         NEW team, NEW partner, <<team, partner>> \in K
  PROVE  PairUp(done, team, partner) \in [need : [D -> Int], keys : Seq(K), stuck : BOOLEAN, met : [E -> Int]]
<1> DEFINE need == OneLess(OneLess(done.need, team), partner)
           met == [done.met EXCEPT ![{team, partner}] = @ + 1]
           keys == Append(done.keys, <<team, partner>>)
<1>1. done.need \in [D -> Int] /\ done.met \in [E -> Int] /\ done.keys \in Seq(K) /\ done.stuck \in BOOLEAN
  OBVIOUS
<1>2. OneLess(done.need, team) \in [D -> Int] BY <1>1, Lowered DEF OneLess
<1>3. need \in [D -> Int] BY <1>2, Lowered DEF OneLess
<1>4. met \in [E -> Int] BY <1>1, Lowered
<1>5. keys \in Seq(K) BY <1>1
<1>6. PairUp(done, team, partner) = [need |-> need, keys |-> keys, stuck |-> FALSE, met |-> met]
  BY DEF PairUp
<1> HIDE DEF need, met, keys
<1> QED BY <1>1, <1>3, <1>4, <1>5, <1>6

LEMMA CompletionSeq ==
  ASSUME NEW m \in Nat, NEW count \in Nat, NEW hosted \in Matrix(m)
  PROVE  \E K : Completion(m, count, hosted).keys \in Seq(K)
<1> DEFINE N == [1 .. m -> Int]
           M == [{{a, b} : a, b \in 1 .. m} -> Int]
           K == {<<Neediest(need), Partner(met, need, Neediest(need))>> : need \in N, met \in M}
           V == [need : N, keys : Seq(K), stuck : BOOLEAN, met : M]
           need == Needs(m, count, hosted)
           met == [key \in {{a, b} : a, b \in 1 .. m} |->
                     LET a == Min(key) b == Max(key) IN Met(hosted, a, b)]
           turns == [k \in 1 .. TotalOf(need) |-> k]
<1>1. need \in N BY NeedsType
<1>2. met \in M
  <2>1. ASSUME NEW a \in 1 .. m, NEW b \in 1 .. m
        PROVE  Met(hosted, Min({a, b}), Max({a, b})) \in Int
    <3>1. {a, b} \in SUBSET (1 .. m) /\ {a, b} # {} OBVIOUS
    <3>2. Max({a, b}) \in {a, b} BY <3>1, Greatest
    <3>3. Min({a, b}) \in {a, b}
      <4>1. a <= b \/ b <= a OBVIOUS
      <4>2. \E x \in {a, b} : \A y \in {a, b} : x <= y BY <4>1
      <4> QED BY <4>2 DEF Min
    <3>4. <<Min({a, b}), Max({a, b})>> \in (1 .. m) \X (1 .. m)
          /\ <<Max({a, b}), Min({a, b})>> \in (1 .. m) \X (1 .. m) BY <3>2, <3>3
    <3>5. hosted[<<Min({a, b}), Max({a, b})>>] \in Nat /\ hosted[<<Max({a, b}), Min({a, b})>>] \in Nat
      BY <3>4 DEF Matrix
    <3> QED BY <3>5 DEF Met
  <2> QED BY <2>1
<1>3. \E n \in Nat : DOMAIN turns = 1 .. n
  <2>1. TotalOf(need) \in Int BY <1>1, AddsUp DEF TotalOf
  <2>2. CASE TotalOf(need) >= 0 BY <2>1, <2>2
  <2>3. CASE TotalOf(need) < 0
    <3>1. 1 .. TotalOf(need) = 1 .. 0 BY <2>1, <2>3
    <3> QED BY <3>1
  <2> QED BY <2>1, <2>2, <2>3
<1>4. CompletionStart(m, count, hosted) \in V BY <1>1, <1>2 DEF CompletionStart
<1> HIDE DEF need, met
<1>5. ASSUME NEW done \in V, NEW k PROVE CompletionStep(done, k) \in V
  <2> DEFINE team == Neediest(done.need)
             partner == Partner(done.met, done.need, team)
  <2> HIDE DEF K, N, M
  <2>1. done.need \in N /\ done.met \in M OBVIOUS
  <2>2. <<team, partner>> \in K BY <2>1 DEF K
  <2> HIDE DEF team, partner
  <2>3. CompletionStep(done, k) \in {done, [done EXCEPT !.stuck = TRUE], PairUp(done, team, partner)}
    BY DEF CompletionStep, PairUp, team, partner
  <2>4. [done EXCEPT !.stuck = TRUE] \in V OBVIOUS
  <2> DEFINE D == 1 .. m
             E == {{a, b} : a, b \in 1 .. m}
  <2>6. N = [D -> Int] /\ M = [E -> Int] BY DEF N, M
  <2> HIDE DEF D, E
  <2>5. PairUp(done, team, partner) \in V BY <2>2, <2>6, PairUpType
  <2> QED BY <2>3, <2>4, <2>5
<1>6. \A v \in V : v.keys \in Seq(K) OBVIOUS
<1>8. turns = [k \in 1 .. TotalOf(Needs(m, count, hosted)) |-> k] BY DEF need
<1> HIDE DEF V, K, turns
<1>7. Completion(m, count, hosted) \in V BY <1>3, <1>4, <1>5, <1>8, CompletionStays
<1> QED BY <1>6, <1>7

LEMMA ResidualSeq ==
  ASSUME NEW m \in Nat, NEW count \in Nat, NEW hosted \in Matrix(m)
  PROVE  \E U : ResidualPairings(m, count, hosted) \in Seq(U)
<1>1. CASE m < 2
  <2>1. <<>> \in Seq({}) OBVIOUS
  <2> QED BY <1>1, <2>1 DEF ResidualPairings
<1>2. CASE m >= 2
  <2> DEFINE order == TargetOrder(m, count)
             keys == IF FitsTarget(m, order, hosted) THEN Deficit(order, hosted)
                     ELSE Completion(m, count, hosted).keys
  <2>1. order \in Seq(Int \X Int) BY <1>2, TargetOrderSeq
  <2>2. Deficit(order, hosted) \in Seq(Int \X Int) BY <2>1, DeficitSeq
  <2>3. PICK K : Completion(m, count, hosted).keys \in Seq(K) BY CompletionSeq
  <2>4. \E L : keys \in Seq(L) BY <2>2, <2>3
  <2> HIDE DEF keys
  <2>5. PICK L : keys \in Seq(L) BY <2>4
  <2>6. \E U : Oriented(m, keys, hosted) \in Seq(U) BY <2>5, OrientedSeq
  <2> QED BY <1>2, <2>6 DEF ResidualPairings, keys
<1> QED BY <1>1, <1>2

\* What a draft reads of the calendar.
Facts(now) ==
  /\ IsFiniteSet(now.teams) /\ IsFiniteSet(now.games)
  /\ \A game \in now.games : game.slot \in DOMAIN Ice \cup {Off}
  /\ now.policy.playable \in Nat /\ now.policy.buffer \in Nat /\ now.policy.curfew \in Nat

LEMMA MissingSeq ==
  ASSUME NEW now, Facts(now), NEW asked, IsRequest(asked)
  PROVE  \E n \in Nat : DOMAIN Missing(now, asked) = 1 .. n
<1> DEFINE m == Cardinality(now.teams)
           hosted == Hosted(now)
           pairs == IF asked.format = "games" THEN ResidualPairings(m, asked.count, hosted)
                    ELSE MissingMeetings(m, asked.count, hosted)
<1>1. m \in Nat BY FS_CardinalityType DEF Facts
<1>2. hosted \in Matrix(m)
  <2>1. IsFiniteSet(Counted(now)) BY FS_Subset DEF Facts, Counted, Live
  <2>2. ASSUME NEW T \in SUBSET Counted(now) PROVE Cardinality(T) \in Nat
    BY <2>1, FS_Subset, FS_CardinalityType
  <2> DEFINE f == InOrder(now.teams)
             D == (1 .. m) \X (1 .. m)
             row(pair) == Cardinality({game \in Counted(now) :
                                         game.home = f[pair[1]] /\ game.away = f[pair[2]]})
  <2>3. ASSUME NEW pair \in D PROVE row(pair) \in Nat
    <3> DEFINE T == {game \in Counted(now) : game.home = f[pair[1]] /\ game.away = f[pair[2]]}
    <3>1. T \in SUBSET Counted(now) OBVIOUS
    <3> HIDE DEF T
    <3>2. Cardinality(T) \in Nat BY <2>2, <3>1
    <3> QED BY <3>2 DEF T
  <2> HIDE DEF row, D
  <2>4. [pair \in D |-> row(pair)] \in [D -> Nat] BY <2>3
  <2> QED BY <2>4 DEF Matrix, Hosted, row, D
<1>3. asked.count \in Nat BY DEF IsRequest
<1> HIDE DEF m, hosted
<1>4. PICK U : ResidualPairings(m, asked.count, hosted) \in Seq(U) BY <1>1, <1>2, <1>3, ResidualSeq
<1>5. MissingMeetings(m, asked.count, hosted) \in Seq(Int \X Int)
  <2>1. RoundRobin(m, asked.count) \in Seq(Int \X Int) BY <1>1, <1>3, RoundRobinSeq
  <2> QED BY <2>1, DeficitSeq DEF MissingMeetings
<1>6. Len(pairs) \in Nat /\ DOMAIN pairs = 1 .. Len(pairs) BY <1>4, <1>5
<1>7. Missing(now, asked) = AsTeams(InOrder(now.teams), pairs) BY DEF Missing, m, hosted
<1> HIDE DEF pairs
<1> QED BY <1>6, <1>7 DEF AsTeams

-----------------------------------------------------------------------------
(* What a slot that nothing refuses is clear of.                           *)

LEMMA OffTheIce == Off \notin DOMAIN Ice
BY DraftPlanAssumption DEF Off

LEMMA GapsSymmetric ==
  ASSUME NEW s \in DOMAIN Ice, NEW t \in DOMAIN Ice
  PROVE  /\ Overlap(s, t) <=> Overlap(t, s)
         /\ ~Overlap(s, t) => GapOf(s, t) = GapOf(t, s)
         /\ StartGap(s, t) = StartGap(t, s)
         /\ GapOf(s, t) \in Int /\ StartGap(s, t) \in Int
<1>1. /\ Ice[s].start \in Nat /\ Ice[s].end \in Nat /\ Ice[s].start < Ice[s].end
      /\ Ice[t].start \in Nat /\ Ice[t].end \in Nat /\ Ice[t].start < Ice[t].end
  BY DraftPlanAssumption
<1> DEFINE a == Ice[s].start
           b == Ice[s].end
           c == Ice[t].start
           d == Ice[t].end
<1> HIDE DEF a, b, c, d
<1>2. a \in Nat /\ b \in Nat /\ a < b /\ c \in Nat /\ d \in Nat /\ c < d BY <1>1 DEF a, b, c, d
<1>3. /\ Overlap(s, t) <=> a < d /\ c < b
      /\ Overlap(t, s) <=> c < b /\ a < d
      /\ GapOf(s, t) = IF a >= d THEN a - d ELSE c - b
      /\ GapOf(t, s) = IF c >= b THEN c - b ELSE a - d
      /\ StartGap(s, t) = IF a >= c THEN a - c ELSE c - a
      /\ StartGap(t, s) = IF c >= a THEN c - a ELSE a - c
  BY DEF a, b, c, d, Overlap, GapOf, StartGap
<1> QED BY <1>2, <1>3

\* A slot too near another one on its rink.
Near(s, t, pol) == t # s /\ (Overlap(s, t) \/ GapOf(s, t) < pol.buffer)

LEMMA NearIsFound ==
  ASSUME NEW s, NEW pol, NEW booked \in SUBSET DOMAIN Ice, NEW picks, DOMAIN picks \subseteq Nat,
         \A i \in DOMAIN picks : picks[i] \in DOMAIN Ice
  PROVE  FirstNear(s, pol, booked, picks) = Off
           <=> (\A t \in booked : ~Near(s, t, pol)) /\ (\A i \in DOMAIN picks : ~Near(s, picks[i], pol))
<1> DEFINE near == {t \in booked : Near(s, t, pol)}
           others == {i \in DOMAIN picks : Near(s, picks[i], pol)}
           first == CHOOSE t \in near : \A u \in near : Ice[t].start <= Ice[u].start
<1>1. FirstNear(s, pol, booked, picks) =
        CASE near # {} -> first
          [] near = {} /\ others # {} -> picks[Min(others)]
          [] OTHER -> Off
  BY DEF FirstNear, Near
<1>2. ASSUME near # {} PROVE first \in DOMAIN Ice
  <2> DEFINE N == {Ice[t].start : t \in near}
  <2>1. \A t \in near : t \in DOMAIN Ice /\ Ice[t].start \in Nat BY DraftPlanAssumption
  <2> HIDE DEF near
  <2>2. N \in SUBSET Nat /\ N # {} BY <1>2, <2>1
  <2>3. PICK k \in N : \A j \in N : k <= j
    <3> HIDE DEF N
    <3> QED BY <2>2, LeastNumber
  <2>4. \E t \in near : \A u \in near : Ice[t].start <= Ice[u].start BY <2>3
  <2>5. first \in near BY <2>4
  <2> QED BY <2>1, <2>5
<1>3. ASSUME others # {} PROVE picks[Min(others)] \in DOMAIN Ice
  <2>1. others \in SUBSET Nat /\ others \subseteq DOMAIN picks OBVIOUS
  <2> HIDE DEF others
  <2>2. \E k \in others : \A j \in others : k <= j BY <1>3, <2>1, LeastNumber
  <2>3. Min(others) \in others BY <2>2 DEF Min
  <2> QED BY <2>1, <2>3
<1>4. near = {} <=> \A t \in booked : ~Near(s, t, pol) OBVIOUS
<1>5. others = {} <=> \A i \in DOMAIN picks : ~Near(s, picks[i], pol) OBVIOUS
<1> HIDE DEF near, others, first
<1> QED BY <1>1, <1>2, <1>3, <1>4, <1>5, OffTheIce

LEMMA PolicyClear ==
  ASSUME NEW s, NEW pol, NEW booked, NEW picks
  PROVE  PolicyRefusal(s, pol, booked, picks) = <<"none">>
           <=> /\ ~(Ice[s].end - Ice[s].start < pol.playable)
               /\ FirstNear(s, pol, booked, picks) = Off
               /\ ~(Ice[s].end - Day(s) * DayLength > pol.curfew)
<1> DEFINE near == FirstNear(s, pol, booked, picks)
           answer == PolicyRefusal(s, pol, booked, picks)
           short == Ice[s].end - Ice[s].start < pol.playable
           late == Ice[s].end - Day(s) * DayLength > pol.curfew
           hit == Overlap(s, near)
<1>1. answer =
        CASE short -> <<"insufficient_playable_time", s, pol.playable>>
          [] near # Off /\ hit -> <<"slot_overlap_conflict", s, near>>
          [] near # Off -> <<"turnover_buffer_conflict", s, pol.buffer, near>>
          [] late -> <<"curfew_violation", s, pol.curfew>>
          [] OTHER -> <<"none">>
  BY DEF PolicyRefusal
<1> HIDE DEF near, answer, short, late, hit
<1>2. short \/ near # Off \/ late => answer[1] \in {"insufficient_playable_time", "slot_overlap_conflict",
                                                    "turnover_buffer_conflict", "curfew_violation"}
  BY <1>1
<1>3. ~short /\ near = Off /\ ~late => answer = <<"none">> BY <1>1
<1>4. <<"none">>[1] = "none" OBVIOUS
<1>5. answer = <<"none">> <=> ~short /\ near = Off /\ ~late BY <1>2, <1>3, <1>4
<1> QED BY <1>5 DEF near, answer, short, late

RunOf(placed, pair) == {placed[i].slot : i \in {j \in DOMAIN placed : Plays(placed[j]) \cap pair # {}}}
OnRink(placed, rink) ==
  [i \in {j \in DOMAIN placed : Ice[placed[j].slot].rink = rink} |-> placed[i].slot]

\* What _slot_reason looks at: the days and this run's picks, the teams' own
\* games, and the policy beside the games and picks of the rink.
DaysClear(s, pair, rules, placed) ==
  /\ Day(s) \notin rules.closed
  /\ \A team \in pair : <<team, Day(s)>> \notin rules.away
  /\ \A team \in pair : rules.perDay > 0 =>
       ~(Cardinality(PicksOn(placed, team, Day(s))) >= rules.perDay)
  /\ \A t \in RunOf(placed, pair) : ~(StartGap(s, t) < rules.rest)
TeamsClear(s, pair, rules, now, placed) ==
  \A t \in RunOf(placed, pair) \cup BusyWith(now.games, pair) :
    ~TooSoon(s, t, rules.turnaround) /\ ~Overlap(s, t)
RinkClear(s, now, placed) ==
  /\ ~(Ice[s].end - Ice[s].start < now.policy.playable)
  /\ ~(Ice[s].end - Day(s) * DayLength > now.policy.curfew)
  /\ \A t \in BusyRink(now.games, Ice[s].rink) : ~Near(s, t, now.policy)
  /\ \A i \in DOMAIN placed : Ice[placed[i].slot].rink = Ice[s].rink => ~Near(s, placed[i].slot, now.policy)

\* A sequence of picks, all on ice.
Picks(placed) == \E n \in Nat : DOMAIN placed = 1 .. n /\ \A i \in 1 .. n : placed[i].slot \in DOMAIN Ice

LEMMA BusyIce ==
  ASSUME NEW rows, \A game \in rows : game.slot \in DOMAIN Ice \cup {Off}, NEW pair, NEW rink
  PROVE  /\ BusyWith(rows, pair) \in SUBSET DOMAIN Ice /\ BusyRink(rows, rink) \in SUBSET DOMAIN Ice
         /\ \A game \in Live(rows) : game.slot # Off =>
              /\ Plays(game) \cap pair # {} => game.slot \in BusyWith(rows, pair)
              /\ Ice[game.slot].rink = rink => game.slot \in BusyRink(rows, rink)
BY DEF BusyWith, BusyRink, Live

LEMMA SlotClear ==
  ASSUME NEW now, Facts(now), NEW s, NEW pair, NEW rules, NEW placed, Picks(placed)
  PROVE  SlotRefusal(s, pair, rules, now, placed) = <<"none">>
           <=> DaysClear(s, pair, rules, placed) /\ TeamsClear(s, pair, rules, now, placed)
               /\ RinkClear(s, now, placed)
<1> DEFINE run == RunOf(placed, pair)
           busy == run \cup BusyWith(now.games, pair)
           rink == Ice[s].rink
           pol == PolicyRefusal(s, now.policy, BusyRink(now.games, rink), OnRink(placed, rink))
           hits(near) == {game.id : game \in {g \in Live(now.games) :
                                                Plays(g) \cap pair # {} /\ g.slot \in near \ {Off}}}
           closed == Day(s) \in rules.closed
           away == \E team \in pair : <<team, Day(s)>> \in rules.away
           full == rules.perDay > 0 /\ \E team \in pair :
                     Cardinality(PicksOn(placed, team, Day(s))) >= rules.perDay
           tired == \E t \in run : StartGap(s, t) < rules.rest
           soon == \E t \in busy : TooSoon(s, t, rules.turnaround)
           over == \E t \in busy : Overlap(s, t)
           one == hits({t \in busy : TooSoon(s, t, rules.turnaround)})
           two == hits({t \in busy : Overlap(s, t)})
           answer == SlotRefusal(s, pair, rules, now, placed)
<1>1. answer =
        CASE closed -> <<"season_blackout">>
          [] away -> <<"team_blackout">>
          [] full -> <<"max_per_day">>
          [] tired -> <<"min_rest">>
          [] soon -> <<"min_turnaround", one>>
          [] pol # <<"none">> -> pol
          [] over -> <<"team_overlap", two>>
          [] OTHER -> <<"none">>
  BY DEF SlotRefusal, RunOf, OnRink
<1>2. pol = <<"none">> <=> RinkClear(s, now, placed)
  <2> DEFINE picks == OnRink(placed, rink)
             booked == BusyRink(now.games, rink)
  <2>1. booked \in SUBSET DOMAIN Ice BY BusyIce DEF Facts
  <2>2. DOMAIN picks \subseteq Nat /\ \A i \in DOMAIN picks : picks[i] \in DOMAIN Ice
    BY DEF OnRink, Picks
  <2>3. (\A i \in DOMAIN picks : ~Near(s, picks[i], now.policy))
          <=> \A i \in DOMAIN placed : Ice[placed[i].slot].rink = Ice[s].rink => ~Near(s, placed[i].slot, now.policy)
    BY DEF OnRink
  <2> HIDE DEF picks, booked
  <2>4. FirstNear(s, now.policy, booked, picks) = Off
          <=> (\A t \in booked : ~Near(s, t, now.policy)) /\ (\A i \in DOMAIN picks : ~Near(s, picks[i], now.policy))
    BY <2>1, <2>2, NearIsFound
  <2>5. pol = PolicyRefusal(s, now.policy, booked, picks) BY DEF booked, picks
  <2>6. pol = <<"none">> <=> /\ ~(Ice[s].end - Ice[s].start < now.policy.playable)
                             /\ FirstNear(s, now.policy, booked, picks) = Off
                             /\ ~(Ice[s].end - Day(s) * DayLength > now.policy.curfew)
    BY <2>5, PolicyClear
  <2> QED BY <2>3, <2>4, <2>6 DEF RinkClear, booked
<1>3. ~closed /\ ~away /\ ~full /\ ~tired <=> DaysClear(s, pair, rules, placed) BY DEF DaysClear
<1>4. ~soon /\ ~over <=> TeamsClear(s, pair, rules, now, placed) BY DEF TeamsClear
<1> HIDE DEF pol, closed, away, full, tired, soon, over, one, two, answer, hits, busy, run, rink
<1>5. <<"none">>[1] = "none" OBVIOUS
<1>7. pol # <<"none">> => answer # <<"none">>
  BY <1>1, <1>5
<1>8. pol = <<"none">> /\ (closed \/ away \/ full \/ tired \/ soon \/ over) => answer # <<"none">>
  BY <1>1, <1>5
<1>9. pol = <<"none">> /\ ~closed /\ ~away /\ ~full /\ ~tired /\ ~soon /\ ~over => answer = <<"none">> BY <1>1
<1> QED BY <1>2, <1>3, <1>4, <1>7, <1>8, <1>9 DEF answer

-----------------------------------------------------------------------------
(* One pairing more.                                                       *)

Grown(q, p, r) ==
  \E n \in Nat : /\ DOMAIN p = 1 .. n /\ DOMAIN q = 1 .. n + 1
                 /\ \A i \in 1 .. n : q[i] = p[i]
                 /\ q[n + 1] = r

LEMMA GrownSets ==
  ASSUME NEW p, NEW q, NEW r, Grown(q, p, r), NEW pair, NEW t, NEW day
  PROVE  /\ SlotsOf(q) = SlotsOf(p) \cup {r.slot}
         /\ RunOf(q, pair) = RunOf(p, pair) \cup (IF Plays(r) \cap pair # {} THEN {r.slot} ELSE {})
         /\ PicksOn(q, t, day) = PicksOn(p, t, day)
              \cup (IF t \in Plays(r) /\ Day(r.slot) = day THEN {r.slot} ELSE {})
<1>1. PICK n \in Nat : /\ DOMAIN p = 1 .. n /\ DOMAIN q = 1 .. n + 1
                       /\ \A i \in 1 .. n : q[i] = p[i]
                       /\ q[n + 1] = r
  BY DEF Grown
<1>2. DOMAIN q = DOMAIN p \cup {n + 1} /\ n + 1 \notin DOMAIN p /\ \A i \in DOMAIN p : q[i] = p[i]
  BY <1>1
<1>3. SlotsOf(q) = SlotsOf(p) \cup {r.slot} BY <1>1, <1>2 DEF SlotsOf
<1>4. RunOf(q, pair) = RunOf(p, pair) \cup (IF Plays(r) \cap pair # {} THEN {r.slot} ELSE {})
  BY <1>1, <1>2 DEF RunOf
<1>5. PicksOn(q, t, day) = PicksOn(p, t, day)
              \cup (IF t \in Plays(r) /\ Day(r.slot) = day THEN {r.slot} ELSE {})
  BY <1>1, <1>2 DEF PicksOn
<1> QED BY <1>3, <1>4, <1>5

LEMMA PicksFinite ==
  ASSUME NEW p, Picks(p), NEW t, NEW day
  PROVE  IsFiniteSet(PicksOn(p, t, day)) /\ Cardinality(PicksOn(p, t, day)) \in Nat
<1>1. PICK n \in Nat : DOMAIN p = 1 .. n BY DEF Picks
<1> DEFINE I == {j \in DOMAIN p : t \in Plays(p[j]) /\ Day(p[j].slot) = day}
           P == {p[i].slot : i \in I}
<1>2. IsFiniteSet(I) BY <1>1, FS_Interval, FS_Subset
<1>3. IsFiniteSet(P)
  <2> HIDE DEF I
  <2> DEFINE f == [i \in I |-> p[i].slot]
  <2>1. P = {f[i] : i \in I} OBVIOUS
  <2>2. f \in Surjection(I, P) BY DEF Surjection
  <2> HIDE DEF f, P
  <2> QED BY <1>2, <2>2, FS_Surjection
<1>4. PicksOn(p, t, day) = P BY DEF PicksOn
<1> QED BY <1>3, <1>4, FS_CardinalityType

\* What is clear beside more picks is clear beside fewer.
LEMMA ClearBefore ==
  ASSUME NEW now, NEW p, NEW q, NEW r, Grown(q, p, r), Picks(p), Picks(q),
         NEW rules, rules.perDay \in Nat, NEW s, NEW pair,
         DaysClear(s, pair, rules, q) /\ TeamsClear(s, pair, rules, now, q) /\ RinkClear(s, now, q)
  PROVE  DaysClear(s, pair, rules, p) /\ TeamsClear(s, pair, rules, now, p) /\ RinkClear(s, now, p)
<1>1. RunOf(p, pair) \subseteq RunOf(q, pair) BY GrownSets
<1>2. ASSUME NEW t \in pair, rules.perDay > 0
      PROVE  ~(Cardinality(PicksOn(p, t, Day(s))) >= rules.perDay)
  <2> DEFINE A == PicksOn(p, t, Day(s))
             B == PicksOn(q, t, Day(s))
  <2>1. A \subseteq B BY GrownSets
  <2>2. IsFiniteSet(B) /\ Cardinality(A) \in Nat /\ Cardinality(B) \in Nat BY PicksFinite
  <2>3. ~(Cardinality(B) >= rules.perDay) BY <1>2 DEF DaysClear
  <2> HIDE DEF A, B
  <2>4. Cardinality(A) <= Cardinality(B) BY <2>1, <2>2, FS_Subset
  <2>5. ~(Cardinality(A) >= rules.perDay) BY <2>2, <2>3, <2>4
  <2> QED BY <2>5 DEF A
<1>3. DaysClear(s, pair, rules, p) BY <1>1, <1>2 DEF DaysClear
<1>4. TeamsClear(s, pair, rules, now, p) BY <1>1 DEF TeamsClear
<1>5. \A i \in DOMAIN p : i \in DOMAIN q /\ q[i] = p[i] BY DEF Grown
<1>6. RinkClear(s, now, p) BY <1>5 DEF RinkClear
<1> QED BY <1>3, <1>4, <1>6

LEMMA EarliestIn ==
  ASSUME NEW F \in SUBSET DOMAIN Ice, F # {}
  PROVE  Earliest(F) \in F
<1>1. \A s \in F : s \in Nat /\ Ice[s].start \in Nat BY DraftPlanAssumption
<1> DEFINE N == {Ice[s].start : s \in F}
<1>2. N \in SUBSET Nat /\ N # {} BY <1>1
<1>3. PICK k \in N : \A j \in N : k <= j
  <2> HIDE DEF N
  <2> QED BY <1>2, LeastNumber
<1> DEFINE E == {s \in F : Ice[s].start = k}
<1>4. E \in SUBSET Nat /\ E # {} /\ E \subseteq F BY <1>1
<1>5. PICK s \in E : \A t \in E : s <= t
  <2> HIDE DEF E
  <2> QED BY <1>4, LeastNumber
<1>6. ASSUME NEW t \in F
      PROVE  Ice[s].start < Ice[t].start \/ (Ice[s].start = Ice[t].start /\ s <= t)
  <2>1. k <= Ice[t].start /\ Ice[t].start \in Nat /\ k \in Nat BY <1>1, <1>2, <1>3
  <2>2. Ice[t].start = k => s <= t BY <1>5
  <2> QED BY <1>5, <2>1, <2>2
<1> QED BY <1>4, <1>5, <1>6 DEF Earliest

-----------------------------------------------------------------------------
(* What AssignIce keeps: its picks are apart, and what it left stays refused. *)

\* Two games of one rink, and two of one team.
IceBetween(s, t, gap) == ~Overlap(s, t) /\ GapOf(s, t) >= gap
Spaced(now, rules, a, b) ==
  /\ a.slot # b.slot
  /\ Ice[a.slot].rink = Ice[b.slot].rink => IceBetween(a.slot, b.slot, now.policy.buffer)
  /\ Plays(a) \cap Plays(b) # {} =>
       IceBetween(a.slot, b.slot, rules.turnaround) /\ StartGap(a.slot, b.slot) >= rules.rest
Beside(now, rules, a, game) ==
  /\ Ice[a.slot].rink = Ice[game.slot].rink => IceBetween(a.slot, game.slot, now.policy.buffer)
  /\ Plays(game) \cap Plays(a) # {} => IceBetween(a.slot, game.slot, rules.turnaround)

PlacedApart(now, rules, p) ==
  /\ Picks(p)
  /\ \A i, j \in DOMAIN p : i # j => Spaced(now, rules, p[i], p[j])
  /\ \A t, day : rules.perDay > 0 => Cardinality(PicksOn(p, t, day)) <= rules.perDay
  /\ \A i \in DOMAIN p, game \in Live(now.games) : game.slot # Off => Beside(now, rules, p[i], game)

Limits(rules) == rules.perDay \in Nat /\ rules.rest \in Nat /\ rules.turnaround \in Nat

LEMMA IceBetweenSymmetric ==
  ASSUME NEW s \in DOMAIN Ice, NEW t \in DOMAIN Ice, NEW gap
  PROVE  IceBetween(s, t, gap) <=> IceBetween(t, s, gap)
BY GapsSymmetric DEF IceBetween

\* A slot nothing refuses is apart from every pick and every game there is.
LEMMA ClearIsApart ==
  ASSUME NEW now, Facts(now), NEW rules, Limits(rules), NEW p, Picks(p), NEW r,
         r.slot \in DOMAIN Ice, r.slot \notin SlotsOf(p),
         \A game \in Live(now.games) : game.slot # r.slot,
         DaysClear(r.slot, Plays(r), rules, p), TeamsClear(r.slot, Plays(r), rules, now, p),
         RinkClear(r.slot, now, p)
  PROVE  /\ \A i \in DOMAIN p : Spaced(now, rules, r, p[i]) /\ Spaced(now, rules, p[i], r)
         /\ \A game \in Live(now.games) : game.slot # Off => Beside(now, rules, r, game)
<1> DEFINE s == r.slot
<1>0. now.policy.buffer \in Nat BY DEF Facts
<1>1. ASSUME NEW i \in DOMAIN p PROVE Spaced(now, rules, r, p[i]) /\ Spaced(now, rules, p[i], r)
  <2> DEFINE t == p[i].slot
  <2>1. t \in DOMAIN Ice BY DEF Picks
  <2>2. s # t BY DEF SlotsOf
  <2>3. ASSUME Ice[s].rink = Ice[t].rink PROVE IceBetween(s, t, now.policy.buffer)
    <3>1. ~Near(s, t, now.policy) BY <2>3 DEF RinkClear
    <3> QED BY <1>0, <2>1, <2>2, <3>1, GapsSymmetric DEF Near, IceBetween
  <2>4. ASSUME Plays(r) \cap Plays(p[i]) # {}
        PROVE  IceBetween(s, t, rules.turnaround) /\ StartGap(s, t) >= rules.rest
    <3>1. t \in RunOf(p, Plays(r)) BY <2>4 DEF RunOf
    <3>2. ~TooSoon(s, t, rules.turnaround) /\ ~Overlap(s, t) BY <3>1 DEF TeamsClear
    <3>3. ~(StartGap(s, t) < rules.rest) BY <3>1 DEF DaysClear
    <3> QED BY <2>1, <3>2, <3>3, GapsSymmetric DEF TooSoon, IceBetween, Limits
  <2> HIDE DEF s, t
  <2>5. /\ Ice[t].rink = Ice[s].rink => IceBetween(t, s, now.policy.buffer)
        /\ Plays(p[i]) \cap Plays(r) # {} =>
             IceBetween(t, s, rules.turnaround) /\ StartGap(t, s) >= rules.rest
    <3>1. s \in DOMAIN Ice BY DEF s
    <3>2. StartGap(s, t) = StartGap(t, s) BY <2>1, <3>1, GapsSymmetric
    <3>3. Plays(p[i]) \cap Plays(r) = Plays(r) \cap Plays(p[i]) OBVIOUS
    <3> QED BY <2>1, <2>3, <2>4, <3>1, <3>2, <3>3, IceBetweenSymmetric
  <2> QED BY <2>2, <2>3, <2>4, <2>5 DEF Spaced, s, t
<1>2. ASSUME NEW game \in Live(now.games), game.slot # Off PROVE Beside(now, rules, r, game)
  <2> DEFINE t == game.slot
  <2>0. \A g \in now.games : g.slot \in DOMAIN Ice \cup {Off} BY DEF Facts
  <2>1. t \in DOMAIN Ice /\ s # t BY <1>2, <2>0 DEF Live
  <2>2. /\ Plays(game) \cap Plays(r) # {} => t \in BusyWith(now.games, Plays(r))
        /\ Ice[t].rink = Ice[s].rink => t \in BusyRink(now.games, Ice[s].rink)
    BY <1>2, <2>0, BusyIce
  <2>3. ASSUME Ice[s].rink = Ice[t].rink PROVE IceBetween(s, t, now.policy.buffer)
    <3>1. ~Near(s, t, now.policy) BY <2>2, <2>3 DEF RinkClear
    <3> QED BY <1>0, <2>1, <3>1, GapsSymmetric DEF Near, IceBetween
  <2>4. ASSUME Plays(game) \cap Plays(r) # {} PROVE IceBetween(s, t, rules.turnaround)
    <3>1. ~TooSoon(s, t, rules.turnaround) /\ ~Overlap(s, t) BY <2>2, <2>4 DEF TeamsClear
    <3> QED BY <2>1, <3>1, GapsSymmetric DEF TooSoon, IceBetween, Limits
  <2> HIDE DEF s, t
  <2> QED BY <2>3, <2>4 DEF Beside, s, t
<1> QED BY <1>1, <1>2

LEMMA OnePickMore ==
  ASSUME NEW now, Facts(now), NEW rules, Limits(rules), NEW p, PlacedApart(now, rules, p),
         NEW q, NEW r, Grown(q, p, r),
         r.slot \in DOMAIN Ice, r.slot \notin SlotsOf(p),
         \A game \in Live(now.games) : game.slot # r.slot,
         DaysClear(r.slot, Plays(r), rules, p), TeamsClear(r.slot, Plays(r), rules, now, p),
         RinkClear(r.slot, now, p)
  PROVE  PlacedApart(now, rules, q)
<1>0. Picks(p) BY DEF PlacedApart
<1>1. PICK n \in Nat : /\ DOMAIN p = 1 .. n /\ DOMAIN q = 1 .. n + 1
                       /\ \A i \in 1 .. n : q[i] = p[i]
                       /\ q[n + 1] = r
  BY DEF Grown
<1>2. DOMAIN q = DOMAIN p \cup {n + 1} /\ n + 1 \notin DOMAIN p /\ \A i \in DOMAIN p : q[i] = p[i]
  BY <1>1
<1>3. /\ \A i \in DOMAIN p : Spaced(now, rules, r, p[i]) /\ Spaced(now, rules, p[i], r)
      /\ \A game \in Live(now.games) : game.slot # Off => Beside(now, rules, r, game)
  BY <1>0, ClearIsApart
<1>4. Picks(q)
  <2>1. \A i \in DOMAIN p : p[i].slot \in DOMAIN Ice BY <1>0 DEF Picks
  <2>2. \A i \in DOMAIN q : q[i].slot \in DOMAIN Ice BY <1>1, <1>2, <2>1
  <2>3. n + 1 \in Nat OBVIOUS
  <2> QED BY <1>1, <2>2, <2>3 DEF Picks
<1>5. ASSUME NEW i \in DOMAIN q, NEW j \in DOMAIN q, i # j PROVE Spaced(now, rules, q[i], q[j])
  <2>1. \A k, l \in DOMAIN p : k # l => Spaced(now, rules, p[k], p[l]) BY DEF PlacedApart
  <2> QED BY <1>1, <1>2, <1>3, <1>5, <2>1
<1>6. ASSUME NEW t, NEW day, rules.perDay > 0
      PROVE  Cardinality(PicksOn(q, t, day)) <= rules.perDay
  <2>1. Cardinality(PicksOn(p, t, day)) <= rules.perDay BY <1>6 DEF PlacedApart
  <2>2. IsFiniteSet(PicksOn(p, t, day)) /\ Cardinality(PicksOn(p, t, day)) \in Nat BY <1>0, PicksFinite
  <2>3. PicksOn(q, t, day) = PicksOn(p, t, day)
          \cup (IF t \in Plays(r) /\ Day(r.slot) = day THEN {r.slot} ELSE {})
    BY GrownSets
  <2>4. CASE t \in Plays(r) /\ Day(r.slot) = day
    <3>1. ~(Cardinality(PicksOn(p, t, day)) >= rules.perDay) BY <1>6, <2>4 DEF DaysClear
    <3>2. PicksOn(q, t, day) = PicksOn(p, t, day) \cup {r.slot} BY <2>3, <2>4
    <3>3. r.slot \notin PicksOn(p, t, day) BY DEF PicksOn, SlotsOf
    <3>4. Cardinality(PicksOn(q, t, day)) = Cardinality(PicksOn(p, t, day)) + 1
      BY <2>2, <3>2, <3>3, FS_AddElement
    <3> QED BY <2>2, <3>1, <3>4 DEF Limits
  <2>5. CASE ~(t \in Plays(r) /\ Day(r.slot) = day) BY <2>1, <2>3, <2>5
  <2> QED BY <2>4, <2>5
<1>7. ASSUME NEW i \in DOMAIN q, NEW game \in Live(now.games), game.slot # Off
      PROVE  Beside(now, rules, q[i], game)
  BY <1>1, <1>2, <1>3, <1>7 DEF PlacedApart
<1> QED BY <1>4, <1>5, <1>6, <1>7 DEF PlacedApart

\* A pairing without ice has none it could have had.
LeftRefused(now, rules, slots, p, l) ==
  \A i \in DOMAIN l, s \in slots : s \notin SlotsOf(p) =>
    SlotRefusal(s, Plays(l[i]), rules, now, p) # <<"none">>

LEMMA RefusedForGood ==
  ASSUME NEW now, Facts(now), NEW rules, Limits(rules), NEW slots,
         NEW p, NEW q, NEW r, Grown(q, p, r), Picks(p), Picks(q),
         NEW l, LeftRefused(now, rules, slots, p, l)
  PROVE  LeftRefused(now, rules, slots, q, l)
<1> SUFFICES ASSUME NEW i \in DOMAIN l, NEW s \in slots, s \notin SlotsOf(q),
                    SlotRefusal(s, Plays(l[i]), rules, now, q) = <<"none">>
             PROVE  FALSE
  BY DEF LeftRefused
<1> DEFINE pair == Plays(l[i])
<1> HIDE DEF pair
<1>1. DaysClear(s, pair, rules, q) /\ TeamsClear(s, pair, rules, now, q) /\ RinkClear(s, now, q)
  BY SlotClear DEF pair
<1>2. DaysClear(s, pair, rules, p) /\ TeamsClear(s, pair, rules, now, p) /\ RinkClear(s, now, p)
  BY <1>1, ClearBefore DEF Limits
<1>3. SlotRefusal(s, pair, rules, now, p) = <<"none">> BY <1>2, SlotClear
<1>4. s \notin SlotsOf(p) BY GrownSets
<1> QED BY <1>3, <1>4 DEF LeftRefused, pair

\* The invariant of the fold: picks made, pairings left.
AssignedWell(now, rules, slots, done) ==
  PlacedApart(now, rules, done.placed) /\ LeftRefused(now, rules, slots, done.placed, done.left)

LEMMA AssignIceWell ==
  ASSUME NEW now, Facts(now), NEW rules, Limits(rules), NEW slots \in SUBSET DOMAIN Ice,
         \A game \in Live(now.games) : game.slot \notin slots,
         NEW n \in Nat, NEW pairings, DOMAIN pairings = 1 .. n
  PROVE  AssignedWell(now, rules, slots, AssignIce(pairings, slots, rules, now))
<1> DEFINE Homes == {pairings[i][1] : i \in 1 .. n}
           Aways == {pairings[i][2] : i \in 1 .. n}
           Rows == [home : Homes, away : Aways, slot : DOMAIN Ice]
           Asks == slots \X (1 .. n) \X Seq(Rows)
           refused == [x \in Asks |->
             SlotRefusal(x[1], {pairings[x[2]][1], pairings[x[2]][2]}, rules, now, x[3])]
           Codes == {<<"no_ice_available">>} \cup {refused[x] : x \in Asks}
           Lefts == [home : Homes, away : Aways, codes : SUBSET Codes]
           W == [placed : Seq(Rows), left : Seq(Lefts)]
           V == {done \in W : AssignedWell(now, rules, slots, done)}
           start == [placed |-> <<>>, left |-> <<>>]
<1>1. start \in V
  <2>1. start \in W OBVIOUS
  <2>2. Picks(<<>>)
    <3>1. 0 \in Nat /\ DOMAIN <<>> = 1 .. 0 OBVIOUS
    <3> QED BY <3>1 DEF Picks
  <2>3. \A t, day : PicksOn(<<>>, t, day) = {} BY DEF PicksOn
  <2>4. Cardinality({}) = 0 BY FS_EmptySet
  <2>7. DOMAIN <<>> = {} OBVIOUS
  <2>8. rules.perDay > 0 => 0 <= rules.perDay BY DEF Limits
  <2>5. PlacedApart(now, rules, <<>>) BY <2>2, <2>3, <2>4, <2>7, <2>8 DEF PlacedApart
  <2>6. LeftRefused(now, rules, slots, <<>>, <<>>) BY DEF LeftRefused
  <2> QED BY <2>1, <2>5, <2>6 DEF AssignedWell
<1>2. ASSUME NEW done \in V, NEW i \in 1 .. n PROVE PlaceNext(slots, rules, now, done, pairings[i]) \in V
  <2> DEFINE home == pairings[i][1]
             away == pairings[i][2]
             p == done.placed
             l == done.left
             D == slots \ SlotsOf(p)
             refusal == [s \in D |-> SlotRefusal(s, {home, away}, rules, now, p)]
             fits == {s \in D : refusal[s] = <<"none">>}
             next == PlaceNext(slots, rules, now, done, pairings[i])
  <2>1. done \in W /\ home \in Homes /\ away \in Aways OBVIOUS
  <2>2. PlacedApart(now, rules, p) /\ LeftRefused(now, rules, slots, p, l) BY DEF AssignedWell
  <2>3. Picks(p) BY <2>2 DEF PlacedApart
  <2>4. next = PlaceOn(done, pairings[i], refusal, fits) BY DEF PlaceNext, PlaceWhere
  <2>5. \A s \in D : refusal[s] = SlotRefusal(s, {home, away}, rules, now, p) /\ refusal[s] \in Codes
    <3>1. p \in Seq(Rows) OBVIOUS
    <3>2. ASSUME NEW s \in D PROVE SlotRefusal(s, {home, away}, rules, now, p) \in Codes
      <4> DEFINE x == <<s, i, p>>
      <4>1. s \in slots OBVIOUS
      <4> HIDE DEF Rows, p
      <4>2. x \in Asks /\ x[1] = s /\ x[2] = i /\ x[3] = p BY <3>1, <4>1
      <4>3. refused[x] \in Codes
        <5> HIDE DEF Asks, refused, x
        <5> QED BY <4>2
      <4>4. refused[x] = SlotRefusal(x[1], {pairings[x[2]][1], pairings[x[2]][2]}, rules, now, x[3])
        <5> HIDE DEF Asks, x
        <5> QED BY <4>2
      <4> HIDE DEF Codes, refused, x
      <4> QED BY <4>2, <4>3, <4>4
    <3>3. \A s \in D : refusal[s] = SlotRefusal(s, {home, away}, rules, now, p) OBVIOUS
    <3> HIDE DEF Codes, D, refusal, p
    <3> QED BY <3>2, <3>3
  <2>6. p \in Seq(Rows) /\ l \in Seq(Lefts) /\ DOMAIN refusal = D OBVIOUS
  <2>7. ASSUME NEW q, NEW k PROVE [placed |-> q, left |-> k].placed = q /\ [placed |-> q, left |-> k].left = k
    OBVIOUS
  <2>8. done = [placed |-> p, left |-> l] BY <2>1
  <2> HIDE DEF Homes, Aways, Codes, next, refusal, fits, D, p, l, home, away
  <2>9. CASE fits # {}
    <3> DEFINE s == Earliest(fits)
               r == [home |-> home, away |-> away, slot |-> s]
               q == Append(p, r)
    <3>1. fits \in SUBSET D /\ D \subseteq slots /\ D \cap SlotsOf(p) = {} BY DEF fits, D
    <3>2. s \in fits BY <2>9, <3>1, EarliestIn
    <3>3. s \in D /\ refusal[s] = <<"none">> BY <3>2 DEF fits
    <3>4. s \in DOMAIN Ice /\ s \notin SlotsOf(p) /\ \A game \in Live(now.games) : game.slot # s
      BY <3>1, <3>3
    <3>5. SlotRefusal(s, {home, away}, rules, now, p) = <<"none">> BY <2>5, <3>3
    <3>6. Plays(r) = {home, away} /\ r.slot = s BY DEF Plays
    <3>7. DaysClear(s, {home, away}, rules, p) /\ TeamsClear(s, {home, away}, rules, now, p)
          /\ RinkClear(s, now, p)
      BY <2>3, <3>5, SlotClear
    <3>8. r \in Rows BY <2>1, <3>4
    <3>9. next = [placed |-> q, left |-> l] BY <2>4, <2>8, <2>9 DEF PlaceOn, home, away
    <3> HIDE DEF s, Rows
    <3>10. q \in Seq(Rows) BY <2>6, <3>8
    <3>11. Grown(q, p, r)
      <4> HIDE DEF r
      <4>1. Len(p) \in Nat /\ DOMAIN p = 1 .. Len(p) /\ DOMAIN q = 1 .. Len(p) + 1
            /\ q[Len(p) + 1] = r /\ \A j \in 1 .. Len(p) : q[j] = p[j]
        BY <2>6, <3>8
      <4> QED BY <4>1 DEF Grown
    <3> HIDE DEF r, q, Lefts
    <3>12. PlacedApart(now, rules, q) BY <2>2, <3>4, <3>6, <3>7, <3>11, OnePickMore
    <3>13. Picks(q) BY <3>12 DEF PlacedApart
    <3>14. LeftRefused(now, rules, slots, q, l) BY <2>2, <2>3, <3>11, <3>13, RefusedForGood
    <3>15. next \in W BY <2>6, <3>9, <3>10
    <3>16. AssignedWell(now, rules, slots, next) BY <3>9, <3>12, <3>14 DEF AssignedWell
    <3> HIDE DEF W
    <3> QED BY <3>15, <3>16 DEF next
  <2>10. CASE fits = {}
    <3> DEFINE codes == IF D = {} THEN {<<"no_ice_available">>} ELSE Range(refusal)
               r == [home |-> home, away |-> away, codes |-> codes]
               k == Append(l, r)
    <3>1. codes \in SUBSET Codes
      <4>1. <<"no_ice_available">> \in Codes BY DEF Codes
      <4> QED BY <2>5, <2>6, <4>1 DEF Range
    <3>2. next = [placed |-> p, left |-> k] BY <2>4, <2>6, <2>8, <2>10 DEF PlaceOn, home, away
    <3>3. Plays(r) = {home, away} BY DEF Plays
    <3> HIDE DEF codes
    <3>4. r \in Lefts BY <2>1, <3>1
    <3> HIDE DEF r, Lefts
    <3>5. k \in Seq(Lefts) BY <2>6, <3>4
    <3>6. Len(l) \in Nat /\ DOMAIN l = 1 .. Len(l) /\ DOMAIN k = 1 .. Len(l) + 1
          /\ k[Len(l) + 1] = r /\ \A j \in 1 .. Len(l) : k[j] = l[j]
      BY <2>6, <3>4
    <3> HIDE DEF k
    <3>7. ASSUME NEW s \in slots, s \notin SlotsOf(p)
          PROVE  SlotRefusal(s, {home, away}, rules, now, p) # <<"none">>
      <4>1. s \in D /\ s \notin fits BY <2>10, <3>7 DEF D
      <4>2. refusal[s] # <<"none">> BY <4>1 DEF fits
      <4> QED BY <2>5, <4>1, <4>2
    <3>8. \A j \in DOMAIN k : (j \in DOMAIN l /\ k[j] = l[j]) \/ k[j] = r BY <3>6
    <3>9. LeftRefused(now, rules, slots, p, k) BY <2>2, <3>3, <3>7, <3>8 DEF LeftRefused
    <3> HIDE DEF Rows
    <3>10. next \in W BY <2>6, <3>2, <3>5
    <3>11. AssignedWell(now, rules, slots, next) BY <2>2, <3>2, <3>9 DEF AssignedWell
    <3> HIDE DEF W
    <3> QED BY <3>10, <3>11 DEF next
  <2> QED BY <2>9, <2>10
<1>3. \A done \in V : AssignedWell(now, rules, slots, done) OBVIOUS
<1> HIDE DEF V, start
<1>4. [placed |-> <<>>, left |-> <<>>] \in V BY <1>1 DEF start
<1>5. AssignIce(pairings, slots, rules, now) \in V BY <1>2, <1>4, AssignIceStays
<1> QED BY <1>3, <1>5

-----------------------------------------------------------------------------
(* A draft made of the calendar as it is.                                  *)

LEMMA DraftWell ==
  ASSUME NEW now, Facts(now), NEW asked, IsRequest(asked)
  PROVE  LET draft == Draft(now, asked)
         IN /\ draft.asked = asked
            /\ PlacedApart(now, asked.rules, draft.placed)
            /\ LeftRefused(now, asked.rules, Offered(now, asked), draft.placed, draft.left)
<1> DEFINE slots == Offered(now, asked)
           pairs == Missing(now, asked)
           ice == AssignIce(pairs, slots, asked.rules, now)
           draft == Draft(now, asked)
<1>1. PICK n \in Nat : DOMAIN pairs = 1 .. n BY MissingSeq
<1>2. slots \in SUBSET DOMAIN Ice /\ \A game \in Live(now.games) : game.slot \notin slots BY DEF Offered
<1>3. Limits(asked.rules) BY DEF IsRequest, Limits
<1>4. draft.asked = asked /\ draft.placed = ice.placed /\ draft.left = ice.left BY DEF Draft, Proposal
<1> HIDE DEF slots, pairs, draft, ice
<1>5. AssignedWell(now, asked.rules, slots, ice) BY <1>1, <1>2, <1>3, AssignIceWell DEF ice
<1>6. PlacedApart(now, asked.rules, draft.placed)
      /\ LeftRefused(now, asked.rules, slots, draft.placed, draft.left)
  BY <1>4, <1>5 DEF AssignedWell
<1> QED BY <1>4, <1>6 DEF draft, slots

-----------------------------------------------------------------------------
(* Rows written one after the other clash with nothing there is.           *)

LEMMA WrittenStays ==
  ASSUME NEW draft, NEW n \in Nat, NEW rows, rows = draft.placed, DOMAIN rows = 1 .. n,
         NEW V, [ok |-> TRUE, made |-> {}] \in V,
         \A done \in V, i \in 1 .. n : WriteNext(draft, done, rows[i]) \in V
  PROVE  Written(draft) \in V
<1> DEFINE base == [ok |-> TRUE, made |-> {}]
           op(done, x) == WriteNext(draft, done, x)
           S == 1 .. n
           G == [i \in S |-> [done \in V |-> op(done, rows[i])]]
           Iter(h) == h = [s \in SUBSET DOMAIN rows |->
                             IF s = {} THEN base ELSE op(h[s \ {Max(s)}], rows[Max(s)])]
           g == CHOOSE h : Iter(h)
<1>1. Written(draft) = g[DOMAIN rows]
  BY DEF Written, FoldLeft, MapThenFoldSet
<1>2. \E h : Iter(h)
  <2>1. G \in [S -> [V -> V]] OBVIOUS
  <2>0. base \in V /\ IsFiniteSet(S) /\ \A s \in SUBSET S : s # {} => Tops(n)[s] \in s BY TopsPick
  <2> HIDE DEF G, op, base, S
  <2>2. PICK h \in [SUBSET S -> V] : Folds(h, S, Tops(n), base, G)
    BY <2>0, <2>1, FoldExists
  <2>3. ASSUME NEW s \in SUBSET S, s # {}
        PROVE  h[s] = op(h[s \ {Max(s)}], rows[Max(s)])
    <3>1. Max(s) \in s /\ Tops(n)[s] = Max(s) BY <2>3, TopsPick DEF Tops, S
    <3>2. h[s \ {Max(s)}] \in V OBVIOUS
    <3>3. h[s] = G[Max(s)][h[s \ {Max(s)}]] BY <2>2, <2>3, <3>1 DEF Folds
    <3> QED BY <3>1, <3>2, <3>3 DEF G
  <2>4. \A s \in SUBSET S : h[s] = IF s = {} THEN base ELSE op(h[s \ {Max(s)}], rows[Max(s)])
    BY <2>2, <2>3 DEF Folds
  <2>5. Iter(h) BY <2>4 DEF S
  <2> QED BY <2>5
<1>3. Iter(g) BY <1>2
<1> HIDE DEF g
<1>4. g[{}] = base /\ base \in V BY <1>3
<1>5. ASSUME NEW s \in SUBSET S, s # {}, g[s \ {Tops(n)[s]}] \in V PROVE g[s] \in V
  <2>1. Max(s) \in s /\ Tops(n)[s] = Max(s) BY <1>5, TopsPick DEF Tops
  <2>2. g[s] = op(g[s \ {Max(s)}], rows[Max(s)]) BY <1>3, <1>5
  <2> HIDE DEF op
  <2>3. \A done \in V, i \in S : op(done, rows[i]) \in V BY DEF op
  <2> QED BY <1>5, <2>1, <2>2, <2>3
<1> HIDE DEF op, base, Iter
<1>6. g[S] \in V BY <1>4, <1>5, TopsPick, FoldStays
<1> QED BY <1>1, <1>6

\* A game on the calendar, and two that do not clash.
OnCalendar(game) == "slot" \in DOMAIN game /\ game.slot \in DOMAIN Ice \cup {Off}
Apart(rules, g, other) ==
  /\ Resurfaced(g.slot, other.slot)
  /\ Plays(g) \cap Plays(other) # {} => Rested(g.slot, other.slot, rules)

LEMMA ApartSymmetric ==
  ASSUME NEW rules, NEW g, NEW other, g.slot \in DOMAIN Ice, other.slot \in DOMAIN Ice,
         Apart(rules, g, other)
  PROVE  Apart(rules, other, g)
<1> DEFINE s == g.slot
           t == other.slot
<1>1. Plays(other) \cap Plays(g) = Plays(g) \cap Plays(other) OBVIOUS
<1>2. (Overlap(s, t) <=> Overlap(t, s)) /\ (~Overlap(s, t) => GapOf(s, t) = GapOf(t, s))
  BY GapsSymmetric
<1>3. Resurfaced(t, s) BY <1>2 DEF Apart, Resurfaced
<1>4. Plays(g) \cap Plays(other) # {} => Rested(t, s, rules) BY <1>2 DEF Apart, Rested
<1> QED BY <1>1, <1>3, <1>4 DEF Apart

LEMMA FreeIsApart ==
  ASSUME NEW row, row.slot \in DOMAIN Ice, NEW rules, rules.turnaround \in Nat, NEW made,
         policy.buffer \in Nat, \A game \in games \cup made : OnCalendar(game),
         SlotFree(row, rules, made)
  PROVE  \A other \in Live(games \cup made) :
           other.slot # row.slot /\ (other.slot # Off => Apart(rules, row, other))
<1> DEFINE all == games \cup made
           s == row.slot
<1>1. /\ \A game \in Live(all) : game.slot # s
      /\ PolicyRefusal(s, policy, BusyRink(all, Ice[s].rink), <<>>) = <<"none">>
      /\ \A t \in BusyWith(all, Plays(row)) : ~Overlap(s, t) /\ ~TooSoon(s, t, rules.turnaround)
  BY DEF SlotFree
<1>2. \A game \in all : game.slot \in DOMAIN Ice \cup {Off} BY DEF OnCalendar
<1> HIDE DEF all
<1>3. BusyRink(all, Ice[s].rink) \in SUBSET DOMAIN Ice BY <1>2, BusyIce
<1>4. \A t \in BusyRink(all, Ice[s].rink) : ~Near(s, t, policy)
  <2> DEFINE none == <<>>
             booked == BusyRink(all, Ice[s].rink)
  <2>1. DOMAIN none \subseteq Nat /\ \A i \in DOMAIN none : none[i] \in DOMAIN Ice OBVIOUS
  <2>2. FirstNear(s, policy, booked, none) = Off BY <1>1, PolicyClear
  <2> HIDE DEF none, booked
  <2>3. booked \in SUBSET DOMAIN Ice BY <1>3 DEF booked
  <2>4. \A t \in booked : ~Near(s, t, policy) BY <2>1, <2>2, <2>3, NearIsFound
  <2> QED BY <2>4 DEF booked
<1>5. ASSUME NEW other \in Live(all), other.slot # Off PROVE Apart(rules, row, other)
  <2> DEFINE t == other.slot
  <2>1. t \in DOMAIN Ice /\ t # s BY <1>1, <1>2, <1>5 DEF Live
  <2>2. /\ Plays(other) \cap Plays(row) # {} => t \in BusyWith(all, Plays(row))
        /\ Ice[t].rink = Ice[s].rink => t \in BusyRink(all, Ice[s].rink)
    BY <1>2, <1>5, BusyIce
  <2>3. Resurfaced(s, t) BY <1>4, <2>1, <2>2, GapsSymmetric DEF Near, Resurfaced
  <2>4. Plays(row) \cap Plays(other) # {} => Rested(s, t, rules)
    BY <1>1, <2>1, <2>2, GapsSymmetric DEF TooSoon, Rested
  <2> QED BY <2>3, <2>4 DEF Apart
<1> QED BY <1>1, <1>5 DEF all

\* What is written stems from a row, and is apart from everything there is.
FromRow(draft, g) ==
  \E i \in DOMAIN draft.placed : /\ g.home = draft.placed[i].home /\ g.away = draft.placed[i].away
                                 /\ g.slot = draft.placed[i].slot
WroteWell(draft, made) ==
  /\ IsFiniteSet(made) /\ \A g \in made : g.slot \in DOMAIN Ice /\ OnCalendar(g) /\ FromRow(draft, g)
  /\ \A g \in made, other \in Live(games \cup made) :
       other # g /\ other.slot # Off => Apart(draft.asked.rules, g, other)

LEMMA WrittenWell ==
  ASSUME NEW draft, Picks(draft.placed), draft.asked.rules.turnaround \in Nat,
         IsFiniteSet(games), policy.buffer \in Nat, \A game \in games : OnCalendar(game)
  PROVE  WroteWell(draft, Written(draft).made)
<1>1. PICK n \in Nat : /\ DOMAIN draft.placed = 1 .. n
                       /\ \A i \in 1 .. n : draft.placed[i].slot \in DOMAIN Ice
  BY DEF Picks
<1> DEFINE rows == draft.placed
           rules == draft.asked.rules
           Homes == {rows[i].home : i \in 1 .. n}
           Aways == {rows[i].away : i \in 1 .. n}
           Made == [id : Nat, home : Homes, away : Aways, slot : DOMAIN Ice, regular : {TRUE},
                    live : {TRUE}, draft : {TRUE}]
           W == [ok : BOOLEAN, made : SUBSET Made]
           V == {done \in W : WroteWell(draft, done.made)}
           start == [ok |-> TRUE, made |-> {}]
<1>2. start \in V
  <2>1. IsFiniteSet({}) BY FS_EmptySet
  <2>2. WroteWell(draft, {}) BY <2>1 DEF WroteWell
  <2> QED BY <2>2
<1>3. ASSUME NEW done \in V, NEW i \in 1 .. n PROVE WriteNext(draft, done, rows[i]) \in V
  <2> DEFINE row == rows[i]
             made == done.made
             next == WriteNext(draft, done, row)
             id == Cardinality(games) + Cardinality(made) + 1
             g == Game(row.home, row.away, row.slot, TRUE, TRUE, id)
  <2>1. done \in W /\ WroteWell(draft, made) /\ row.home \in Homes /\ row.away \in Aways OBVIOUS
  <2>2. row.slot \in DOMAIN Ice BY <1>1
  <2>3. id \in Nat
    <3>1. IsFiniteSet(made) BY <2>1 DEF WroteWell
    <3> HIDE DEF made
    <3>2. Cardinality(made) \in Nat /\ Cardinality(games) \in Nat BY <3>1, FS_CardinalityType
    <3> QED BY <3>2
  <2>4. CASE ~(done.ok /\ SlotFree(row, rules, made))
    <3>1. next = [done EXCEPT !.ok = FALSE] BY <2>4 DEF WriteNext
    <3> HIDE DEF Made, next
    <3>2. next \in W /\ next.made = made BY <2>1, <3>1
    <3> HIDE DEF W
    <3> QED BY <2>1, <3>2 DEF next
  <2>5. CASE done.ok /\ SlotFree(row, rules, made)
    <3> DEFINE more == made \cup {g}
    <3>1. next = [done EXCEPT !.made = more] BY <2>5 DEF WriteNext
    <3>2. g \in Made
      <4> HIDE DEF Homes, Aways, id, row
      <4> QED BY <2>1, <2>2, <2>3 DEF Game
    <3>3. /\ g.home = row.home /\ g.away = row.away /\ g.slot = row.slot
          /\ "slot" \in DOMAIN g
      BY DEF Game
    <3>4. Plays(g) = Plays(row) BY <3>3 DEF Plays
    <3> HIDE DEF g, Made
    <3>5. FromRow(draft, g) BY <1>1, <3>3 DEF FromRow
    <3>6. OnCalendar(g) /\ g.slot \in DOMAIN Ice BY <2>2, <3>3 DEF OnCalendar
    <3>7. IsFiniteSet(more) BY <2>1, FS_AddElement DEF WroteWell
    <3>8. \A game \in games \cup made : OnCalendar(game) BY <2>1 DEF WroteWell
    <3>9. \A other \in Live(games \cup made) :
            other.slot # g.slot /\ (other.slot # Off => Apart(rules, g, other))
      <4>1. \A other \in Live(games \cup made) :
              other.slot # row.slot /\ (other.slot # Off => Apart(rules, row, other))
        <5> HIDE DEF rules, row, made
        <5>1. row.slot \in DOMAIN Ice /\ rules.turnaround \in Nat /\ SlotFree(row, rules, made)
          BY <2>2, <2>5 DEF rules
        <5> QED BY <3>8, <5>1, FreeIsApart
      <4> QED BY <3>3, <3>4, <4>1 DEF Apart
    <3>10. ASSUME NEW h \in more, NEW other \in Live(games \cup more), other # h, other.slot # Off
           PROVE  Apart(rules, h, other)
      <4>1. \A a \in made : a \in Live(games \cup made) \/ ~a.live BY DEF Live
      <4>2. other \in Live(games \cup made) \/ other = g BY DEF Live
      <4>3. CASE h = g BY <3>9, <3>10, <4>2, <4>3
      <4>4. CASE h \in made /\ other \in Live(games \cup made) BY <2>1, <3>10, <4>4 DEF WroteWell
      <4>5. CASE h \in made /\ other = g
        <5>1. h.live /\ h.slot \in DOMAIN Ice
          <6>1. h \in Made BY <2>1, <4>5
          <6> QED BY <6>1 DEF Made
        <5>2. h \in Live(games \cup made) /\ h.slot # Off BY <4>5, <5>1, OffTheIce DEF Live
        <5>3. Apart(rules, g, h) BY <3>9, <5>2
        <5> QED BY <3>6, <4>5, <5>1, <5>3, ApartSymmetric
      <4> QED BY <4>2, <4>3, <4>4, <4>5
    <3>11. \A h \in more : h.slot \in DOMAIN Ice /\ OnCalendar(h) /\ FromRow(draft, h)
      BY <2>1, <3>5, <3>6 DEF WroteWell
    <3> HIDE DEF more
    <3>12. WroteWell(draft, more) BY <3>7, <3>10, <3>11 DEF WroteWell
    <3>13. more \in SUBSET Made BY <2>1, <3>2 DEF more
    <3> HIDE DEF next
    <3>14. next \in W /\ next.made = more BY <2>1, <3>1, <3>13
    <3> HIDE DEF W
    <3> QED BY <3>12, <3>14 DEF next
  <2> QED BY <2>4, <2>5
<1>4. \A done \in V : WroteWell(draft, done.made) OBVIOUS
<1> HIDE DEF V, start
<1>5. [ok |-> TRUE, made |-> {}] \in V BY <1>2 DEF start
<1>6. Written(draft) \in V BY <1>1, <1>3, <1>5, WrittenStays
<1> QED BY <1>4, <1>6

-----------------------------------------------------------------------------
(* The invariant: every game is on the calendar, and what operators reviewed *)
(* or are committing are proposals of rows on ice.                          *)

Proposed(draft) == IsRequest(draft.asked) /\ Picks(draft.placed)
Checked(c) ==
  /\ c.stage = "asked" => IsRequest(c.asked)
  /\ c.stage = "checked" =>
       {"stage", "asked", "draft"} \subseteq DOMAIN c /\ IsRequest(c.asked) /\ Proposed(c.draft)

CalendarInv ==
  /\ IsFiniteSet(games) /\ IsFiniteSet(teams) /\ policy \in Policies
  /\ \A game \in games : OnCalendar(game)
ReviewInv ==
  /\ DOMAIN reviewed = Operators /\ \A o \in Operators : reviewed[o] = Nothing \/ Proposed(reviewed[o])
  /\ scenario = Nothing \/ Proposed(scenario.draft)
CallInv == DOMAIN call = Operators /\ \A o \in Operators : Checked(call[o])
IceInv == CalendarInv /\ ReviewInv /\ CallInv

LEMMA NowFacts == ASSUME CalendarInv PROVE Facts(Now)
<1>1. Now.teams = teams /\ Now.games = games /\ Now.policy = policy BY DEF Now
<1>2. policy.playable \in Nat /\ policy.buffer \in Nat /\ policy.curfew \in Nat
  BY DraftCommitAssumption DEF CalendarInv
<1>3. \A game \in games : game.slot \in DOMAIN Ice \cup {Off} BY DEF CalendarInv, OnCalendar
<1> QED BY <1>1, <1>2, <1>3 DEF CalendarInv, Facts

LEMMA DraftProposed ==
  ASSUME CalendarInv, NEW asked, IsRequest(asked)
  PROVE  Proposed(Draft(Now, asked))
<1>1. Draft(Now, asked).asked = asked /\ PlacedApart(Now, asked.rules, Draft(Now, asked).placed)
  BY NowFacts, DraftWell
<1> QED BY <1>1 DEF Proposed, PlacedApart

LEMMA PlanRequestsAreRequests == \A asked \in PlanRequests : IsRequest(asked)
BY DEF PlanRequests, Asking, Strict, IsRequest

\* What leaves the calendar alone, and what leaves the reviews alone.
LEMMA CalendarStays == ASSUME CalendarInv, UNCHANGED <<games, teams, policy>> PROVE CalendarInv'
BY DEF CalendarInv
LEMMA ReviewStays == ASSUME ReviewInv, UNCHANGED <<reviewed, scenario>> PROVE ReviewInv'
BY DEF ReviewInv
LEMMA CallStays == ASSUME CallInv, UNCHANGED call PROVE CallInv'
BY DEF CallInv

LEMMA Answered ==
  ASSUME CallInv, NEW o \in Operators, NEW answer, Answer(o, answer), Checked(answer)
  PROVE  CallInv'
<1>1. call' = [call EXCEPT ![o] = answer] BY DEF Answer
<1>2. DOMAIN call' = Operators BY <1>1 DEF CallInv
<1>3. ASSUME NEW u \in Operators PROVE Checked(call'[u])
  <2>1. call'[u] = IF u = o THEN answer ELSE call[u] BY <1>1 DEF CallInv
  <2> QED BY <2>1 DEF CallInv
<1> QED BY <1>2, <1>3 DEF CallInv

LEMMA PreviewKeeps ==
  ASSUME IceInv, NEW o \in Operators, NEW asked, IsRequest(asked), Preview(o, asked)
  PROVE  IceInv'
<1>1. Proposed(Draft(Now, asked)) BY DraftProposed DEF IceInv
<1>2. ReviewInv'
  <2> DEFINE draft == Draft(Now, asked)
  <2>1. reviewed' = [reviewed EXCEPT ![o] = draft] /\ scenario' = scenario BY DEF Preview
  <2>2. Proposed(draft) BY <1>1
  <2> HIDE DEF draft
  <2>3. DOMAIN reviewed' = Operators BY <2>1 DEF IceInv, ReviewInv
  <2>4. ASSUME NEW u \in Operators PROVE reviewed'[u] = Nothing \/ Proposed(reviewed'[u])
    <3>1. reviewed'[u] = IF u = o THEN draft ELSE reviewed[u] BY <2>1 DEF IceInv, ReviewInv
    <3> QED BY <2>2, <3>1 DEF IceInv, ReviewInv
  <2>5. scenario' = Nothing \/ Proposed(scenario'.draft) BY <2>1 DEF IceInv, ReviewInv
  <2> QED BY <2>3, <2>4, <2>5 DEF ReviewInv, Nothing
<1>3. UNCHANGED <<games, teams, policy>> /\ UNCHANGED call BY DEF Preview, facts
<1> QED BY <1>2, <1>3, CalendarStays, CallStays DEF IceInv

LEMMA SaveScenarioKeeps ==
  ASSUME IceInv, NEW o, NEW asked, IsRequest(asked), SaveScenario(o, asked)
  PROVE  IceInv'
<1>1. Proposed(Draft(Now, asked)) BY DraftProposed DEF IceInv
<1>2. scenario'.draft = Draft(Now, asked) /\ reviewed' = reviewed BY DEF SaveScenario
<1>3. Proposed(scenario'.draft) BY <1>1, <1>2
<1>4. ReviewInv' BY <1>2, <1>3 DEF IceInv, ReviewInv, Nothing
<1>5. UNCHANGED <<games, teams, policy>> /\ UNCHANGED call BY DEF SaveScenario, facts
<1> QED BY <1>4, <1>5, CalendarStays, CallStays DEF IceInv

LEMMA RefusedIsChecked == \A why : Checked(Refusing(why))
BY DEF Checked, Refusing

LEMMA AskPreviewKeeps ==
  ASSUME IceInv, NEW o \in Operators, AskPreview(o) PROVE IceInv'
<1> DEFINE asks == [stage |-> "asked", of |-> "preview", print |-> Fingerprint(reviewed[o]),
                    asked |-> reviewed[o].asked, seen |-> reviewed[o].seen, attempt |-> 1]
           answer == IF chosen[o] = "none" THEN Refusing("active_context_required") ELSE asks
<1>1. Answer(o, answer) BY DEF AskPreview
<1>2. reviewed[o] # Nothing BY DEF AskPreview
<1>3. IsRequest(reviewed[o].asked) BY <1>2 DEF IceInv, ReviewInv, Proposed
<1>4. Checked(asks) BY <1>3 DEF Checked
<1>5. Checked(answer) BY <1>4, RefusedIsChecked
<1> HIDE DEF answer
<1>6. CallInv' BY <1>1, <1>5, Answered DEF IceInv
<1>7. UNCHANGED <<games, teams, policy>> /\ UNCHANGED <<reviewed, scenario>> BY DEF AskPreview, facts
<1> QED BY <1>6, <1>7, CalendarStays, ReviewStays DEF IceInv

LEMMA AskScenarioKeeps ==
  ASSUME IceInv, NEW o \in Operators, AskScenario(o) PROVE IceInv'
<1> DEFINE answer == [stage |-> "checked", of |-> "scenario", print |-> Fingerprint(scenario.draft),
                      asked |-> scenario.draft.asked, seen |-> scenario.draft.seen,
                      draft |-> scenario.draft, attempt |-> 1]
<1>1. Answer(o, answer) /\ scenario # Nothing BY DEF AskScenario
<1>2. Proposed(scenario.draft) BY <1>1 DEF IceInv, ReviewInv
<1>3. answer.stage = "checked" /\ answer.asked = scenario.draft.asked /\ answer.draft = scenario.draft
      /\ {"stage", "asked", "draft"} \subseteq DOMAIN answer
  OBVIOUS
<1> HIDE DEF answer
<1>4. Checked(answer) BY <1>2, <1>3 DEF Checked, Proposed
<1>5. CallInv' BY <1>1, <1>4, Answered DEF IceInv
<1>6. UNCHANGED <<games, teams, policy>> /\ UNCHANGED <<reviewed, scenario>> BY DEF AskScenario, facts
<1> QED BY <1>5, <1>6, CalendarStays, ReviewStays DEF IceInv

LEMMA PreflightKeeps ==
  ASSUME IceInv, NEW o \in Operators, Preflight(o) PROVE IceInv'
<1> DEFINE c == call[o]
           draft == Draft(Now, c.asked)
           answer == PreflightAnswer(o)
           good == [stage |-> "checked", of |-> "preview", print |-> c.print, asked |-> c.asked,
                    seen |-> c.seen, draft |-> draft, attempt |-> c.attempt]
<1>1. Answer(o, answer) /\ c.stage = "asked" BY DEF Preflight
<1>2. IsRequest(c.asked) BY <1>1 DEF IceInv, CallInv, Checked
<1>3. Proposed(draft) BY <1>2, DraftProposed DEF IceInv
<1>4. answer = good \/ \E why : answer = Refusing(why) BY DEF PreflightAnswer, PreflightFinds
<1>5. good.stage = "checked" /\ good.asked = c.asked /\ good.draft = draft
      /\ {"stage", "asked", "draft"} \subseteq DOMAIN good
  OBVIOUS
<1> HIDE DEF answer, good, draft, c
<1>6. Checked(good) BY <1>2, <1>3, <1>5 DEF Checked
<1>7. Checked(answer) BY <1>4, <1>6, RefusedIsChecked
<1>8. CallInv' BY <1>1, <1>7, Answered DEF IceInv
<1>9. UNCHANGED <<games, teams, policy>> /\ UNCHANGED <<reviewed, scenario>> BY DEF Preflight, facts
<1> QED BY <1>8, <1>9, CalendarStays, ReviewStays DEF IceInv

LEMMA LandKeeps ==
  ASSUME IceInv, NEW o \in Operators, Land(o) PROVE IceInv'
<1> DEFINE c == call[o]
           why == LockedRefusal(o)
           made == Written(c.draft).made
           done == [stage |-> "committed", of |-> c.of, draft |-> c.draft, seen |-> c.seen, made |-> made]
<1>1. c.stage = "checked" /\ LandAs(o, why, made) BY DEF Land
<1>2. Proposed(c.draft) BY <1>1 DEF IceInv, CallInv, Checked
<1>3. WroteWell(c.draft, made)
  <2> DEFINE draft == c.draft
  <2>1. Picks(draft.placed) /\ draft.asked.rules.turnaround \in Nat BY <1>2 DEF Proposed, IsRequest
  <2>2. IsFiniteSet(games) /\ policy.buffer \in Nat /\ \A game \in games : OnCalendar(game)
    BY DraftCommitAssumption DEF IceInv, CalendarInv
  <2> HIDE DEF draft
  <2>3. WroteWell(draft, Written(draft).made) BY <2>1, <2>2, WrittenWell
  <2> QED BY <2>3 DEF draft
<1>4. Checked(done) BY DEF Checked
<1>5. \/ games' = games \cup made /\ Answer(o, done)
      \/ games' = games /\ Answer(o, Refusing(why))
  BY <1>1 DEF LandAs
<1>6. teams' = teams /\ policy' = policy /\ UNCHANGED <<reviewed, scenario>> BY DEF Land
<1> HIDE DEF done, made, why, c
<1>7. CallInv' BY <1>4, <1>5, Answered, RefusedIsChecked DEF IceInv
<1>8. CalendarInv'
  <2>1. IsFiniteSet(games) /\ IsFiniteSet(teams) /\ policy \in Policies /\ \A game \in games : OnCalendar(game)
    BY DEF IceInv, CalendarInv
  <2>2. IsFiniteSet(made) /\ \A g \in made : OnCalendar(g) BY <1>3 DEF WroteWell
  <2>3. IsFiniteSet(games \cup made) BY <2>1, <2>2, FS_Union
  <2>4. IsFiniteSet(games') /\ \A game \in games' : OnCalendar(game) BY <1>5, <2>1, <2>2, <2>3
  <2> QED BY <1>6, <2>1, <2>4 DEF CalendarInv, OnCalendar
<1> QED BY <1>6, <1>7, <1>8, ReviewStays DEF IceInv

LEMMA RacedKeeps ==
  ASSUME IceInv, NEW o \in Operators, Raced(o) PROVE IceInv'
<1> DEFINE c == call[o]
           again == [stage |-> "asked", of |-> "preview", print |-> c.print, asked |-> c.asked,
                     seen |-> c.seen, attempt |-> c.attempt + 1]
           same == [c EXCEPT !.attempt = @ + 1]
           answer == CASE c.attempt = MaxAttempts -> Refusing("placement_raced")
                       [] c.attempt < MaxAttempts /\ c.of = "preview" -> again
                       [] OTHER -> same
<1>1. Answer(o, answer) /\ c.stage = "checked" BY DEF Raced
<1>2. Checked(c) /\ c.stage = "checked" BY <1>1 DEF IceInv, CallInv
<1>3. Checked(again) BY <1>2 DEF Checked
<1>4. Checked(same)
  <2>1. {"stage", "asked", "draft"} \subseteq DOMAIN c /\ IsRequest(c.asked) /\ Proposed(c.draft)
    BY <1>2 DEF Checked
  <2> HIDE DEF c
  <2>2. DOMAIN same = DOMAIN c /\ same.stage = c.stage /\ same.asked = c.asked /\ same.draft = c.draft
    BY <2>1
  <2> HIDE DEF same
  <2> QED BY <2>1, <2>2 DEF Checked
<1>5. answer \in {Refusing("placement_raced"), again, same}
  <2> HIDE DEF again, same, c
  <2> QED OBVIOUS
<1> HIDE DEF answer, again, same, c
<1>6. Checked(answer) BY <1>3, <1>4, <1>5, RefusedIsChecked
<1>7. CallInv' BY <1>1, <1>6, Answered DEF IceInv
<1>8. UNCHANGED <<games, teams, policy>> /\ UNCHANGED <<reviewed, scenario>> BY DEF Raced, facts
<1> QED BY <1>7, <1>8, CalendarStays, ReviewStays DEF IceInv

LEMMA BookKeeps ==
  ASSUME IceInv, NEW home, NEW away, NEW slot \in DOMAIN Ice \cup {Off}, NEW regular,
         Book(home, away, slot, regular)
  PROVE  IceInv'
<1> DEFINE g == Game(home, away, slot, regular, FALSE, Cardinality(games) + 1)
<1>1. games' = games \cup {g} /\ teams' = teams /\ policy' = policy
      /\ UNCHANGED <<reviewed, scenario>> /\ UNCHANGED call
  BY DEF Book, Kept
<1>2. OnCalendar(g) BY DEF Game, OnCalendar
<1> HIDE DEF g
<1>3. IsFiniteSet(games \cup {g}) BY FS_AddElement DEF IceInv, CalendarInv
<1>4. CalendarInv' BY <1>1, <1>2, <1>3 DEF IceInv, CalendarInv, OnCalendar
<1> QED BY <1>1, <1>4, ReviewStays, CallStays DEF IceInv

LEMMA CallOffKeeps ==
  ASSUME IceInv, NEW game \in games, CallOff(game) PROVE IceInv'
<1> DEFINE g == [game EXCEPT !.live = FALSE, !.slot = Off]
<1>1. games' = (games \ {game}) \cup {g} /\ teams' = teams /\ policy' = policy
      /\ UNCHANGED <<reviewed, scenario>> /\ UNCHANGED call
  BY DEF CallOff, Kept
<1>2. OnCalendar(g)
  <2>1. "slot" \in DOMAIN game BY DEF IceInv, CalendarInv, OnCalendar
  <2>2. "slot" \in DOMAIN g /\ g.slot = Off BY <2>1
  <2> QED BY <2>2 DEF OnCalendar
<1> HIDE DEF g
<1>3. IsFiniteSet(games \ {game}) BY FS_Subset DEF IceInv, CalendarInv
<1>4. IsFiniteSet((games \ {game}) \cup {g}) BY <1>3, FS_AddElement
<1>5. CalendarInv' BY <1>1, <1>2, <1>4 DEF IceInv, CalendarInv, OnCalendar
<1> QED BY <1>1, <1>5, ReviewStays, CallStays DEF IceInv

\* Teams, ice, the policy, the season and the selections.
LEMMA ElsewhereKeeps ==
  ASSUME IceInv,
         \/ \E o \in Operators, where \in {"here", "elsewhere", "none"} : Choose(o, where)
         \/ \E t \in Teams : Register(t) \/ Unregister(t)
         \/ \E rink \in Rinks : SetAccess(rink)
         \/ \E p \in Policies : SetPolicy(p)
         \/ Archive
  PROVE  IceInv'
<1>1. UNCHANGED <<reviewed, scenario>> /\ UNCHANGED call /\ games' = games
  BY DEF Choose, Register, Unregister, SetAccess, SetPolicy, Archive, Kept, facts
<1>2. policy' \in Policies
  BY DEF Choose, Register, Unregister, SetAccess, SetPolicy, Archive, facts, IceInv, CalendarInv
<1>3. IsFiniteSet(teams')
  <2>1. IsFiniteSet(teams) BY DEF IceInv, CalendarInv
  <2>2. \A t : IsFiniteSet(teams \cup {t}) /\ IsFiniteSet(teams \ {t})
    BY <2>1, FS_AddElement, FS_Subset
  <2>3. teams' = teams \/ \E t : teams' = teams \cup {t} \/ teams' = teams \ {t}
    BY DEF Choose, Register, Unregister, SetAccess, SetPolicy, Archive, facts
  <2> QED BY <2>1, <2>2, <2>3
<1>4. CalendarInv' BY <1>1, <1>2, <1>3 DEF IceInv, CalendarInv, OnCalendar
<1> QED BY <1>1, <1>4, ReviewStays, CallStays DEF IceInv

LEMMA CommitKeeps == ASSUME IceInv, CommitNext PROVE IceInv'
<1>1. \A asked \in Requests : IsRequest(asked) BY DraftCommitAssumption
<1>2. CASE \E o \in Operators : AskPreview(o) \/ AskScenario(o) \/ Preflight(o) \/ Land(o) \/ Raced(o)
  BY <1>2, AskPreviewKeeps, AskScenarioKeeps, PreflightKeeps, LandKeeps, RacedKeeps
<1>3. CASE \E o \in Operators, asked \in Requests : Preview(o, asked) \/ SaveScenario(o, asked)
  BY <1>1, <1>3, PreviewKeeps, SaveScenarioKeeps
<1>4. CASE \E home, away \in Teams, slot \in DOMAIN Ice \cup {Off}, regular \in BOOLEAN :
             Book(home, away, slot, regular)
  BY <1>4, BookKeeps
<1>5. CASE \E game \in games : CallOff(game) BY <1>5, CallOffKeeps
<1>6. CASE \/ \E o \in Operators, where \in {"here", "elsewhere", "none"} : Choose(o, where)
           \/ \E t \in Teams : Register(t) \/ Unregister(t)
           \/ \E rink \in Rinks : SetAccess(rink)
           \/ \E p \in Policies : SetPolicy(p)
           \/ Archive
  BY <1>6, ElsewhereKeeps
<1> QED BY <1>2, <1>3, <1>4, <1>5, <1>6 DEF CommitNext

LEMMA PlanKeeps == ASSUME IceInv, PlanNext PROVE IceInv'
<1>1. CASE \E home, away \in teams, slot \in {Off, 3} : Book(home, away, slot, TRUE)
  BY <1>1, MCDraftsAssumption, BookKeeps
<1>2. CASE \E o \in Operators, asked \in PlanRequests : Preview(o, asked)
  BY <1>2, PlanRequestsAreRequests, PreviewKeeps
<1>3. \A slot : slot \in (IF games = {} THEN {Off, 3} ELSE {Off}) => slot \in {Off, 3} OBVIOUS
<1> QED BY <1>1, <1>2, <1>3 DEF PlanNext

LEMMA StillKeeps == ASSUME IceInv, UNCHANGED <<commitVars, part>> PROVE IceInv'
<1>1. UNCHANGED <<games, teams, policy>> /\ UNCHANGED <<reviewed, scenario>> /\ UNCHANGED call
  BY DEF commitVars, facts
<1> QED BY <1>1, CalendarStays, ReviewStays, CallStays DEF IceInv

LEMMA NextKeeps == ASSUME IceInv, [MCNext]_<<commitVars, part>> PROVE IceInv'
BY CommitKeeps, PlanKeeps, StillKeeps DEF MCNext

LEMMA InitHas == ASSUME MCInit PROVE IceInv
<1>1. IsFiniteSet(games) /\ policy \in Policies /\ \A game \in games : OnCalendar(game)
  BY FS_EmptySet DEF MCInit
<1>2. IsFiniteSet(teams)
  <2>1. IsFiniteSet(CommitTeams) /\ \A m \in PlanSizes : IsFiniteSet(1 .. m)
    BY MCDraftsAssumption, FS_Interval
  <2>2. part = "plan" \/ part = "commit" BY MCDraftsAssumption DEF MCInit
  <2>3. CASE part = "plan"
    <3>1. teams \in {1 .. m : m \in PlanSizes} BY <2>3 DEF MCInit
    <3> QED BY <2>1, <3>1
  <2>4. CASE part = "commit"
    <3>1. teams \in {CommitTeams} BY <2>4 DEF MCInit
    <3> QED BY <2>1, <3>1
  <2> QED BY <2>2, <2>3, <2>4
<1>3. ReviewInv BY DEF MCInit, ReviewInv
<1>4. CallInv BY DEF MCInit, CallInv, Checked, Idle
<1> QED BY <1>1, <1>2, <1>3, <1>4 DEF IceInv, CalendarInv

-----------------------------------------------------------------------------
(* What a preview shows, and what a commit writes.                         *)

LEMMA ShownWell ==
  ASSUME IceInv, NEW o \in Operators, NEW asked, IsRequest(asked),
         reviewed' = [reviewed EXCEPT ![o] = Draft(Now, asked)],
         NEW u \in Operators, reviewed'[u] # reviewed[u]
  PROVE  PlacedWell(reviewed'[u]) /\ NothingLeftOver(reviewed'[u])
<1> DEFINE draft == Draft(Now, asked)
<1>1. /\ draft.asked = asked
      /\ PlacedApart(Now, asked.rules, draft.placed)
      /\ LeftRefused(Now, asked.rules, Offered(Now, asked), draft.placed, draft.left)
  BY NowFacts, DraftWell DEF IceInv
<1> HIDE DEF draft
<1>2. reviewed'[u] = draft BY DEF IceInv, ReviewInv, draft
<1>3. PlacedWell(draft)
  <2> DEFINE rules == draft.asked.rules
             row == draft.placed
  <2>1. Now.policy = policy /\ Now.games = games BY DEF Now
  <2>2. ASSUME NEW i \in DOMAIN row, NEW j \in DOMAIN row, i # j
        PROVE  /\ row[i].slot # row[j].slot /\ Resurfaced(row[i].slot, row[j].slot)
               /\ Plays(row[i]) \cap Plays(row[j]) # {} =>
                    /\ Rested(row[i].slot, row[j].slot, rules)
                    /\ StartGap(row[i].slot, row[j].slot) >= rules.rest
    BY <1>1, <2>1, <2>2 DEF PlacedApart, Spaced, IceBetween, Resurfaced, Rested
  <2>3. ASSUME NEW t, NEW day, rules.perDay > 0 PROVE Cardinality(PicksOn(row, t, day)) <= rules.perDay
    BY <1>1, <2>3 DEF PlacedApart
  <2>4. ASSUME NEW i \in DOMAIN row, NEW game \in Live(games), game.slot # Off
        PROVE  /\ Resurfaced(row[i].slot, game.slot)
               /\ Plays(game) \cap Plays(row[i]) # {} => Rested(row[i].slot, game.slot, rules)
    <3>1. Beside(Now, rules, row[i], game) BY <1>1, <2>1, <2>4 DEF PlacedApart
    <3> QED BY <2>1, <3>1 DEF Beside, IceBetween, Resurfaced, Rested
  <2> QED BY <2>2, <2>3, <2>4 DEF PlacedWell
<1>4. NothingLeftOver(draft) BY <1>1 DEF LeftRefused, NothingLeftOver
<1> QED BY <1>2, <1>3, <1>4

LEMMA OnlyPreviewsShow ==
  ASSUME [MCNext]_<<commitVars, part>>, reviewed' # reviewed
  PROVE  \E o \in Operators, asked \in Requests \cup PlanRequests :
           reviewed' = [reviewed EXCEPT ![o] = Draft(Now, asked)]
<1>1. MCNext BY DEF commitVars
<1>2. CASE PlanNext
  <2>1. \E o \in Operators, asked \in PlanRequests : Preview(o, asked) BY <1>2 DEF PlanNext, Book, Kept
  <2> QED BY <2>1 DEF Preview
<1>3. CASE CommitNext
  <2>1. \E o \in Operators, asked \in Requests : Preview(o, asked)
    BY <1>3 DEF CommitNext, AskPreview, AskScenario, Preflight, Land, Raced, SaveScenario, Choose, Book,
                CallOff, Register, Unregister, SetAccess, SetPolicy, Archive, Kept
  <2> QED BY <2>1 DEF Preview
<1> QED BY <1>1, <1>2, <1>3 DEF MCNext

LEMMA PreviewsPlaceWell ==
  ASSUME IceInv, [MCNext]_<<commitVars, part>>
  PROVE  [\A o \in Operators : reviewed'[o] # reviewed[o] =>
            PlacedWell(reviewed'[o]) /\ NothingLeftOver(reviewed'[o])]_commitVars
<1> SUFFICES ASSUME NEW u \in Operators, reviewed'[u] # reviewed[u]
             PROVE  PlacedWell(reviewed'[u]) /\ NothingLeftOver(reviewed'[u])
  OBVIOUS
<1>1. PICK o \in Operators, asked \in Requests \cup PlanRequests :
        reviewed' = [reviewed EXCEPT ![o] = Draft(Now, asked)]
  BY OnlyPreviewsShow
<1>2. IsRequest(asked) BY DraftCommitAssumption, PlanRequestsAreRequests
<1> QED BY <1>1, <1>2, ShownWell

LEMMA OnlyLandCommits ==
  ASSUME CallInv, [MCNext]_<<commitVars, part>>, NEW o \in Operators, Lands(o)
  PROVE  Land(o)
<1>1. call'[o].stage = "committed" /\ call[o].stage = "checked" /\ call' # call BY DEF Lands
<1>2. MCNext BY <1>1 DEF commitVars
<1>3. ~PlanNext BY <1>1 DEF PlanNext, Book, Kept, Preview
<1>4. CommitNext BY <1>2, <1>3 DEF MCNext
<1>5. \E u \in Operators : AskPreview(u) \/ AskScenario(u) \/ Preflight(u) \/ Land(u) \/ Raced(u)
  BY <1>1, <1>4 DEF CommitNext, Preview, SaveScenario, Choose, Book, CallOff, Register, Unregister,
                    SetAccess, SetPolicy, Archive, Kept
<1>6. PICK u \in Operators : AskPreview(u) \/ AskScenario(u) \/ Preflight(u) \/ Land(u) \/ Raced(u) BY <1>5
<1>7. \E answer : Answer(u, answer)
  BY <1>6 DEF AskPreview, AskScenario, Preflight, Land, LandAs, Raced
<1>8. u = o BY <1>1, <1>7 DEF Answer, CallInv
<1>9. CASE AskPreview(o) BY <1>1, <1>9 DEF AskPreview
<1>10. CASE AskScenario(o) BY <1>1, <1>10 DEF AskScenario
<1>11. CASE Preflight(o) BY <1>1, <1>11 DEF Preflight
<1>12. CASE Raced(o)
  <2> DEFINE c == call[o]
             same == [c EXCEPT !.attempt = @ + 1]
  <2>1. "stage" \in DOMAIN c BY <1>1 DEF CallInv, Checked
  <2>2. same.stage = "checked"
    <3>1. c.stage = "checked" BY <1>1
    <3> HIDE DEF c
    <3> QED BY <2>1, <3>1
  <2> HIDE DEF same
  <2>3. \E answer : Answer(o, answer) /\ answer.stage # "committed"
    <3> DEFINE again == [stage |-> "asked", of |-> "preview", print |-> call[o].print,
                         asked |-> call[o].asked, seen |-> call[o].seen,
                         attempt |-> call[o].attempt + 1]
    <3>1. again.stage = "asked" /\ Refusing("placement_raced").stage = "refused" BY DEF Refusing
    <3>2. Answer(o, Refusing("placement_raced")) \/ Answer(o, again) \/ Answer(o, same)
      <4> HIDE DEF again
      <4> QED BY <1>12 DEF Raced, again, same
    <3> HIDE DEF again
    <3> QED BY <2>2, <3>1, <3>2
  <2> QED BY <1>1, <2>3 DEF Answer, CallInv
<1> QED BY <1>6, <1>8, <1>9, <1>10, <1>11, <1>12

LEMMA LandsWhereItMay ==
  ASSUME IceInv, NEW o \in Operators, Land(o), Lands(o)
  PROVE  /\ chosen[o] = "here" /\ open
         /\ \A game \in call'[o].made :
              /\ Plays(game) \subseteq teams /\ Ice[game.slot].rink \in access
              /\ \A other \in Live(games') : other # game /\ other.slot # Off =>
                   /\ Resurfaced(game.slot, other.slot)
                   /\ Plays(game) \cap Plays(other) # {} =>
                        Rested(game.slot, other.slot, call'[o].draft.asked.rules)
<1> DEFINE c == call[o]
           why == LockedRefusal(o)
           draft == c.draft
           made == Written(draft).made
           done == [stage |-> "committed", of |-> c.of, draft |-> draft, seen |-> c.seen, made |-> made]
<1>1. LandAs(o, why, made) /\ c.stage = "checked" BY DEF Land
<1>2. DOMAIN call = Operators /\ Checked(c) BY DEF IceInv, CallInv
<1>3. Proposed(draft) BY <1>1, <1>2 DEF Checked
<1>4. done.made = made /\ done.draft = draft OBVIOUS
<1>5. why = "none" /\ games' = games \cup made /\ Answer(o, done)
  <2>1. Refusing(why).stage = "refused" BY DEF Refusing
  <2>2. ~Answer(o, Refusing(why)) BY <1>2, <2>1 DEF Answer, Lands
  <2> QED BY <1>1, <2>2 DEF LandAs
<1>6. call'[o] = done BY <1>2, <1>5 DEF Answer
<1>7. WroteWell(draft, made)
  <2>1. Picks(draft.placed) /\ draft.asked.rules.turnaround \in Nat BY <1>3 DEF Proposed, IsRequest
  <2>2. IsFiniteSet(games) /\ policy.buffer \in Nat /\ \A game \in games : OnCalendar(game)
    BY DraftCommitAssumption DEF IceInv, CalendarInv
  <2> HIDE DEF draft
  <2> QED BY <2>1, <2>2, WrittenWell
<1>8. /\ chosen[o] = "here" /\ open
      /\ \A i \in DOMAIN draft.placed :
           Plays(draft.placed[i]) \subseteq teams /\ Ice[draft.placed[i].slot].rink \in access
  <2> DEFINE rows == {draft.placed[i] : i \in DOMAIN draft.placed}
  <2>1. StillChosen(o) /\ open BY <1>5 DEF LockedRefusal
  <2>2. (\A row \in rows : Plays(row) \subseteq teams) /\ (\A row \in rows : Ice[row.slot].rink \in access)
    BY <1>5, <2>1 DEF LockedRefusal
  <2> QED BY <2>1, <2>2 DEF StillChosen
<1> HIDE DEF done, made, draft, c, why
<1>9. ASSUME NEW g \in made PROVE Plays(g) \subseteq teams /\ Ice[g.slot].rink \in access
  <2>1. PICK i \in DOMAIN draft.placed : /\ g.home = draft.placed[i].home /\ g.away = draft.placed[i].away
                                         /\ g.slot = draft.placed[i].slot
    BY <1>7 DEF WroteWell, FromRow
  <2> QED BY <1>8, <2>1 DEF Plays
<1>10. ASSUME NEW g \in made, NEW other \in Live(games'), other # g, other.slot # Off
       PROVE  /\ Resurfaced(g.slot, other.slot)
              /\ Plays(g) \cap Plays(other) # {} => Rested(g.slot, other.slot, draft.asked.rules)
  BY <1>5, <1>7, <1>10 DEF WroteWell, Apart
<1> QED BY <1>4, <1>6, <1>8, <1>9, <1>10

LEMMA CommitsKeepClear ==
  ASSUME IceInv, [MCNext]_<<commitVars, part>>
  PROVE  [\A o \in Operators : Lands(o) =>
           /\ chosen[o] = "here" /\ open
           /\ \A game \in call'[o].made :
                /\ Plays(game) \subseteq teams /\ Ice[game.slot].rink \in access
                /\ \A other \in Live(games') : other # game /\ other.slot # Off =>
                     /\ Resurfaced(game.slot, other.slot)
                     /\ Plays(game) \cap Plays(other) # {} =>
                          Rested(game.slot, other.slot, call'[o].draft.asked.rules)]_commitVars
BY OnlyLandCommits, LandsWhereItMay DEF IceInv

\* Every proposal is made of ice nothing else uses, and every commit writes
\* only where the calendar allows it (draft_schedule of services/scheduler.py,
\* _commit_draft_schedule_attempt of api/service.py): whatever was booked,
\* called off, revoked or archived since the review.
THEOREM DraftsKeepTheIce == MCSpec => IceKept
<1>1. MCInit => IceInv BY InitHas
<1>2. IceInv /\ [MCNext]_<<commitVars, part>> => IceInv' BY NextKeeps
<1>3. IceInv /\ [MCNext]_<<commitVars, part>> =>
        [\A o \in Operators : reviewed'[o] # reviewed[o] =>
           PlacedWell(reviewed'[o]) /\ NothingLeftOver(reviewed'[o])]_commitVars
  BY PreviewsPlaceWell
<1>4. IceInv /\ [MCNext]_<<commitVars, part>> =>
        [\A o \in Operators : Lands(o) =>
           /\ chosen[o] = "here" /\ open
           /\ \A game \in call'[o].made :
                /\ Plays(game) \subseteq teams /\ Ice[game.slot].rink \in access
                /\ \A other \in Live(games') : other # game /\ other.slot # Off =>
                     /\ Resurfaced(game.slot, other.slot)
                     /\ Plays(game) \cap Plays(other) # {} =>
                          Rested(game.slot, other.slot, call'[o].draft.asked.rules)]_commitVars
  BY CommitsKeepClear
<1> QED BY <1>1, <1>2, <1>3, <1>4, PTL DEF MCSpec, IceKept, ProposalsPlaceWell, CommitsWhereItMay

=============================================================================
