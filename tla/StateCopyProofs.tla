--------------------------- MODULE StateCopyProofs ---------------------------
(***************************************************************************)
(* Proofs about the kernels that move mamba states (StateCopy): that a     *)
(* launch, whatever the order of its threads' loads and stores, stays in   *)
(* the state pools and moves exactly the bytes the assignment between      *)
(* views of the tensors means.  For every model, layout, padding and       *)
(* alignment of its state tensors, every width of a word and every number  *)
(* of lanes and tiles.                                                     *)
(***************************************************************************)
EXTENDS StateCopy, SequenceTheorems, FiniteSetTheorems, TLAPS

----------------------------------------------------------------------------
(* General facts about numbers, sets and sequences.  EngineStepProofs has  *)
(* some of them too: its constants are not those of a copy.                *)

\* Induction for a set of numbers: the least one outside would be the successor of
\* one inside.
LEMMA Counting ==
  ASSUME NEW S, 0 \in S, \A len \in Nat : len \in S => len + 1 \in S
  PROVE  Nat \subseteq S
<1>. SUFFICES ASSUME NEW len \in Nat, len \notin S PROVE FALSE
  OBVIOUS
<1>. DEFINE T == {m \in Nat : m \notin S}
            below == {0 .. m : m \in T}
<1>1. IsWellFoundedOn(StrictSubsetOrdering(Nat), FiniteSubsetsOf(Nat))
  BY FS_StrictSubsetOrderingWellFounded
<1>2. below \subseteq FiniteSubsetsOf(Nat) /\ below # {}
  <2>1. ASSUME NEW m \in T PROVE 0 .. m \in FiniteSubsetsOf(Nat)
    BY FS_Interval DEF FiniteSubsetsOf
  <2>. QED  BY <2>1
<1>3. PICK b \in below : \A c \in below : ~(<<c, b>> \in StrictSubsetOrdering(Nat))
  BY <1>1, <1>2, WFMin
<1>4. PICK m \in T : b = 0 .. m
  BY <1>3
<1>5. m # 0 /\ m - 1 \in Nat /\ (m - 1) + 1 = m
  BY <1>4
<1>6. CASE m - 1 \in S
  BY <1>4, <1>5, <1>6
<1>7. CASE m - 1 \notin S
  <2>1. 0 .. m - 1 \in below
    BY <1>5, <1>7
  <2>2. 0 .. m - 1 \in SUBSET (0 .. m) /\ m \in 0 .. m /\ m \notin 0 .. m - 1
    BY <1>4, <1>5
  <2>3. 0 .. m - 1 \in SUBSET Nat /\ 0 .. m \in SUBSET Nat
    BY <1>4, <1>5
  <2>4. <<0 .. m - 1, 0 .. m>> \in StrictSubsetOrdering(Nat)
    BY <2>2, <2>3 DEF StrictSubsetOrdering
  <2>. QED  BY <1>3, <1>4, <2>1, <2>4
<1>. QED  BY <1>6, <1>7

\* A function on the numbers up to len, from its first value and its steps.
Iterates(k, len, base, F) == k[0] = base /\ \A i \in 1 .. len : k[i] = F[<<i, k[i - 1]>>]

\* Such a k exists for every base and F.
LEMMA Iteration ==
  ASSUME NEW len \in Nat, NEW V, NEW base \in V, NEW F,
         \A i \in 1 .. len, v \in V : F[<<i, v>>] \in V
  PROVE  \E k \in [0 .. len -> V] : Iterates(k, len, base, F)
<1>. DEFINE Upto(m) == \E k \in [0 .. m -> V] : k[0] = base /\ \A i \in 1 .. m : k[i] = F[<<i, k[i - 1]>>]
<1>1. Upto(0)
  <2>. DEFINE k == [i \in 0 .. 0 |-> base]
  <2>1. k \in [0 .. 0 -> V] /\ k[0] = base /\ 1 .. 0 = {}
    OBVIOUS
  <2>. QED  BY <2>1
<1>2. ASSUME NEW m \in Nat, Upto(m), m + 1 <= len PROVE Upto(m + 1)
  <2>1. PICK k \in [0 .. m -> V] : k[0] = base /\ \A i \in 1 .. m : k[i] = F[<<i, k[i - 1]>>]
    BY <1>2
  <2>. DEFINE h == [i \in 0 .. m + 1 |-> IF i = m + 1 THEN F[<<m + 1, k[m]>>] ELSE k[i]]
  <2>2. m + 1 \in 1 .. len /\ k[m] \in V
    BY <1>2, <2>1
  <2>3. h \in [0 .. m + 1 -> V]
    BY <2>1, <2>2
  <2>4. ASSUME NEW i \in 1 .. m + 1 PROVE h[i] = F[<<i, h[i - 1]>>]
    <3>1. i - 1 \in 0 .. m + 1 /\ i - 1 # m + 1
      BY ONLY m \in Nat, i \in 1 .. m + 1
    <3>2. h[i - 1] = k[i - 1]
      BY <3>1
    <3>3. CASE i = m + 1
      <4>1. h[m + 1] = F[<<m + 1, k[m]>>] /\ (m + 1) - 1 = m
        OBVIOUS
      <4>. HIDE DEF h
      <4>. QED  BY ONLY <3>2, <3>3, <4>1
    <3>4. CASE i # m + 1
      <4>1. i \in 0 .. m + 1 /\ i \in 1 .. m
        BY ONLY <3>4, m \in Nat, i \in 1 .. m + 1
      <4>2. h[i] = k[i]
        BY <3>4, <4>1
      <4>. HIDE DEF h
      <4>. QED  BY ONLY <2>1, <3>2, <4>1, <4>2
    <3>. QED  BY ONLY <3>3, <3>4
  <2>5. h[0] = base
    BY <2>1
  <2>. QED  BY <2>3, <2>4, <2>5
<1>. HIDE DEF Upto
<1>3. Upto(len)
  <2>. DEFINE S == {m \in Nat : m <= len => Upto(m)}
  <2>1. 0 \in S
    BY <1>1
  <2>2. \A m \in Nat : m \in S => m + 1 \in S
    <3>. SUFFICES ASSUME NEW m \in Nat, m \in S, m + 1 <= len PROVE Upto(m + 1)
      OBVIOUS
    <3>1. m <= len /\ Upto(m)
      OBVIOUS
    <3>. QED  BY <1>2, <3>1
  <2>3. \A m \in Nat : m \in S
    <3>. HIDE DEF S
    <3>. QED  BY <2>1, <2>2, Counting
  <2>. QED  BY <2>3
<1>. QED  BY <1>3 DEF Upto, Iterates

\* A set of numbers with an upper bound has a greatest one.
LEMMA Greatest ==
  ASSUME NEW top \in Nat, NEW s \in SUBSET (0 .. top), s # {}
  PROVE  \E b \in s : \A y \in s : b >= y
<1>. DEFINE P(m) == m <= top => \A t \in SUBSET (0 .. m) : t # {} => \E b \in t : \A y \in t : b >= y
<1>1. P(0)
  <2>1. ASSUME NEW t \in SUBSET (0 .. 0), t # {} PROVE 0 \in t /\ \A y \in t : 0 >= y
    <3>1. \A y \in t : y = 0
      OBVIOUS
    <3>2. PICK y \in t : TRUE
      BY <2>1
    <3>. QED  BY <3>1, <3>2
  <2>. QED  BY <2>1
<1>2. ASSUME NEW m \in Nat, P(m) PROVE P(m + 1)
  <2>. SUFFICES ASSUME m + 1 <= top, NEW t \in SUBSET (0 .. m + 1), t # {}
                PROVE  \E b \in t : \A y \in t : b >= y
    OBVIOUS
  <2>1. CASE m + 1 \in t
    <3>1. \A y \in t : m + 1 >= y
      OBVIOUS
    <3>. QED  BY <2>1, <3>1
  <2>2. CASE m + 1 \notin t
    <3>1. \A y \in t : y \in 0 .. m
      BY <2>2
    <3>. QED  BY <1>2, <3>1
  <2>. QED  BY <2>1, <2>2
<1>. HIDE DEF P
<1>3. \A m \in Nat : P(m)
  <2>. DEFINE T == {m \in Nat : P(m)}
  <2>1. 0 \in T /\ \A m \in Nat : m \in T => m + 1 \in T
    BY <1>1, <1>2
  <2>. HIDE DEF T
  <2>2. \A m \in Nat : m \in T
    BY <2>1, Counting
  <2>. QED  BY <2>2 DEF T
<1>4. P(top)
  BY <1>3
<1>. QED  BY <1>4 DEF P

\* The initial segments of an interval.
LEMMA Segments ==
  ASSUME NEW len \in Nat
  PROVE  /\ 1 .. 0 = {} /\ 1 .. 0 \in SUBSET (1 .. len)
         /\ \A i \in 1 .. len : /\ 1 .. i \in SUBSET (1 .. len) /\ 1 .. i # {}
                                /\ Max(1 .. i) = i /\ (1 .. i) \ {i} = 1 .. i - 1
<1>1. ASSUME NEW i \in 1 .. len PROVE Max(1 .. i) = i
  <2>1. i \in 1 .. i /\ \A x \in 1 .. i : (\A y \in 1 .. i : x >= y) => x = i
    OBVIOUS
  <2>. QED  BY <2>1 DEF Max
<1>2. \A i \in 1 .. len : (1 .. i) \ {i} = 1 .. i - 1 /\ 1 .. i \in SUBSET (1 .. len) /\ 1 .. i # {}
  <2>. SUFFICES ASSUME NEW i \in 1 .. len
                PROVE  (1 .. i) \ {i} = 1 .. i - 1 /\ 1 .. i \in SUBSET (1 .. len) /\ 1 .. i # {}
    OBVIOUS
  <2>1. i \in 1 .. i
    OBVIOUS
  <2>. QED  BY <2>1
<1>3. 1 .. 0 = {}
  OBVIOUS
<1>. QED  BY <1>1, <1>2, <1>3

\* The function FoldLeft recurs by, over the subsets of an interval.
IsFold(g, len, base, F) ==
  \A s \in SUBSET (1 .. len) : g[s] = IF s = {} THEN base ELSE F[<<Max(s), g[s \ {Max(s)}]>>]

\* Such a function exists for every base and F.
LEMMA FoldOver ==
  ASSUME NEW len \in Nat, NEW V, NEW base \in V, NEW F,
         \A i \in 1 .. len, v \in V : F[<<i, v>>] \in V
  PROVE  \E g \in [SUBSET (1 .. len) -> V] :
           IsFold(g, len, base, F)
<1>. DEFINE R(m, g) == \A s \in SUBSET (1 .. m) : g[s] = IF s = {} THEN base ELSE F[<<Max(s), g[s \ {Max(s)}]>>]
            Upto(m) == \E g \in [SUBSET (1 .. m) -> V] : R(m, g)
<1>1. Upto(0)
  <2>. DEFINE g == [s \in SUBSET (1 .. 0) |-> base]
  <2>1. 1 .. 0 = {}
    OBVIOUS
  <2>2. \A s \in SUBSET (1 .. 0) : s = {}
    BY <2>1
  <2>3. g \in [SUBSET (1 .. 0) -> V] /\ R(0, g)
    BY <2>2
  <2>. QED  BY <2>3
<1>2. ASSUME NEW m \in Nat, Upto(m), m + 1 <= len PROVE Upto(m + 1)
  <2>1. PICK g \in [SUBSET (1 .. m) -> V] : R(m, g)
    BY <1>2
  <2>. DEFINE h == [s \in SUBSET (1 .. m + 1) |->
                      IF m + 1 \in s THEN F[<<m + 1, g[s \ {m + 1}]>>] ELSE g[s]]
  <2>2. ASSUME NEW s \in SUBSET (1 .. m + 1) PROVE s \ {m + 1} \in SUBSET (1 .. m)
    <3>1. \A x \in s \ {m + 1} : x \in 1 .. m
      OBVIOUS
    <3>. QED  BY <3>1
  <2>3. ASSUME NEW s \in SUBSET (1 .. m + 1), m + 1 \notin s PROVE s \in SUBSET (1 .. m)
    <3>1. \A x \in s : x \in 1 .. m
      BY <2>3
    <3>. QED  BY <3>1
  <2>4. h \in [SUBSET (1 .. m + 1) -> V]
    BY <1>2, <2>2, <2>3
  <2>5. ASSUME NEW s \in SUBSET (1 .. m + 1)
        PROVE  h[s] = IF s = {} THEN base ELSE F[<<Max(s), h[s \ {Max(s)}]>>]
    <3>1. CASE m + 1 \in s
      <4>1. Max(s) = m + 1
        <5>1. \A y \in s : m + 1 >= y
          OBVIOUS
        <5>2. \A x \in s : (\A y \in s : x >= y) => x = m + 1
          BY <3>1
        <5>. QED  BY <3>1, <5>1, <5>2 DEF Max
      <4>2. h[s \ {m + 1}] = g[s \ {m + 1}]
        BY <2>2
      <4>. QED  BY <3>1, <4>1, <4>2
    <3>2. CASE m + 1 \notin s
      <4>1. s \in SUBSET (1 .. m) /\ h[s] = g[s]
        BY <2>3, <3>2
      <4>2. h[s \ {Max(s)}] = g[s \ {Max(s)}]
        BY <4>1, <3>2
      <4>. QED  BY <2>1, <4>1, <4>2
    <3>. QED  BY <3>1, <3>2
  <2>6. R(m + 1, h)
    BY <2>5
  <2>. HIDE DEF h, R
  <2>. QED  BY <2>4, <2>6
<1>. HIDE DEF Upto
<1>3. Upto(len)
  <2>. DEFINE S == {m \in Nat : m <= len => Upto(m)}
  <2>1. 0 \in S
    BY <1>1
  <2>2. \A m \in Nat : m \in S => m + 1 \in S
    <3>. SUFFICES ASSUME NEW m \in Nat, m \in S, m + 1 <= len PROVE Upto(m + 1)
      OBVIOUS
    <3>1. m <= len /\ Upto(m)
      OBVIOUS
    <3>. QED  BY <1>2, <3>1
  <2>3. \A m \in Nat : m \in S
    <3>. HIDE DEF S
    <3>. QED  BY <2>1, <2>2, Counting
  <2>. QED  BY <2>3
<1>. QED  BY <1>3 DEF Upto, IsFold

\* Two functions that take the same steps from the same value are the same.
LEMMA Agreement ==
  ASSUME NEW len \in Nat, NEW f, NEW k, f[1] = k[1],
         \A i \in 2 .. len : f[i - 1] = k[i - 1] => f[i] = k[i]
  PROVE  \A i \in 1 .. len : f[i] = k[i]
<1>. DEFINE P(m) == m + 1 <= len => f[m + 1] = k[m + 1]
<1>1. P(0)
  OBVIOUS
<1>2. ASSUME NEW m \in Nat, P(m) PROVE P(m + 1)
  <2>. SUFFICES ASSUME (m + 1) + 1 <= len PROVE f[(m + 1) + 1] = k[(m + 1) + 1]
    OBVIOUS
  <2>1. (m + 1) + 1 \in 2 .. len /\ ((m + 1) + 1) - 1 = m + 1 /\ m + 1 <= len
    OBVIOUS
  <2>. QED  BY <1>2, <2>1
<1>. HIDE DEF P
<1>3. \A m \in Nat : P(m)
  <2>. DEFINE T == {m \in Nat : P(m)}
  <2>1. 0 \in T /\ \A m \in Nat : m \in T => m + 1 \in T
    BY <1>1, <1>2
  <2>. HIDE DEF T
  <2>2. \A m \in Nat : m \in T
    BY <2>1, Counting
  <2>. QED  BY <2>2 DEF T
<1>. SUFFICES ASSUME NEW i \in 1 .. len PROVE f[i] = k[i]
  OBVIOUS
<1>4. i - 1 \in Nat /\ (i - 1) + 1 = i
  OBVIOUS
<1>5. P(i - 1)
  BY <1>3, <1>4
<1>. QED  BY <1>4, <1>5 DEF P

\* A sequence of sequences, put together, is the last of those it passes through.
FlattensTo(ss, k, len) == FlattenSeq(ss) = k[len]

\* What FlattenSeq yields, from the sequences it passes through.
LEMMA Flattening ==
  ASSUME NEW len \in Nat \ {0}, NEW ss, Len(ss) = len, NEW k, k[1] = ss[1],
         \A i \in 2 .. len : k[i] = k[i - 1] \o ss[i]
  PROVE  FlattensTo(ss, k, len)
<1>. DEFINE G(f) == [i \in 1 .. len |-> IF i = 1 THEN ss[i] ELSE f[i - 1] \o ss[i]]
            f0 == [i \in 1 .. len |-> k[i]]
            f1 == CHOOSE f : f = G(f)
<1>1. f0 = G(f0)
  <2>1. ASSUME NEW i \in 1 .. len PROVE f0[i] = G(f0)[i]
    <3>1. CASE i = 1
      BY <3>1
    <3>2. CASE i # 1
      <4>1. i \in 2 .. len /\ i - 1 \in 1 .. len
        BY <3>2
      <4>2. f0[i - 1] = k[i - 1]
        BY <4>1
      <4>. HIDE DEF f0
      <4>3. G(f0)[i] = f0[i - 1] \o ss[i]
        BY <3>2
      <4>. QED  BY <4>1, <4>2, <4>3 DEF f0
    <3>. QED  BY <3>1, <3>2
  <2>. QED  BY <2>1
<1>2. f1 = G(f1)
  <2>. HIDE DEF f0, G
  <2>. QED  BY <1>1
<1>. HIDE DEF f1
<1>3. \A i \in 1 .. len : f1[i] = IF i = 1 THEN ss[i] ELSE f1[i - 1] \o ss[i]
  BY <1>2
<1>4. \A i \in 2 .. len : f1[i - 1] = k[i - 1] => f1[i] = k[i]
  <2>. SUFFICES ASSUME NEW i \in 2 .. len, f1[i - 1] = k[i - 1] PROVE f1[i] = k[i]
    OBVIOUS
  <2>1. i \in 1 .. len /\ i # 1
    OBVIOUS
  <2>2. f1[i] = f1[i - 1] \o ss[i]
    BY ONLY <1>3, <2>1
  <2>3. k[i] = k[i - 1] \o ss[i]
    OBVIOUS
  <2>. QED  BY ONLY <2>2, <2>3, f1[i - 1] = k[i - 1]
<1>5. f1[1] = k[1]
  BY <1>3
<1>6. f1[len] = k[len]
  <2>1. len \in Nat /\ len \in 1 .. len
    OBVIOUS
  <2>2. \A i \in 1 .. len : f1[i] = k[i]
    <3>. HIDE DEF G
    <3>. QED  BY ONLY <1>4, <1>5, <2>1, Agreement
  <2>. QED  BY ONLY <2>1, <2>2
<1>. QED  BY <1>6 DEF f1, FlattenSeq, FlattensTo

\* The lesser of two numbers.
LEMMA MinOf ==
  ASSUME NEW a \in Int, NEW b \in Int
  PROVE  Min({a, b}) = IF a <= b THEN a ELSE b
<1>. DEFINE least == IF a <= b THEN a ELSE b
<1>1. least \in {a, b} /\ \A y \in {a, b} : least <= y
  OBVIOUS
<1>2. \A x \in {a, b} : (\A y \in {a, b} : x <= y) => x = least
  OBVIOUS
<1>. HIDE DEF least
<1>3. Min({a, b}) = least
  BY <1>1, <1>2 DEF Min
<1>. QED  BY <1>3 DEF least

\* The greater of two numbers.
LEMMA MaxOf ==
  ASSUME NEW a \in Int, NEW b \in Int
  PROVE  Max({a, b}) = IF a >= b THEN a ELSE b
<1>. DEFINE most == IF a >= b THEN a ELSE b
<1>1. most \in {a, b} /\ \A y \in {a, b} : most >= y
  OBVIOUS
<1>2. \A x \in {a, b} : (\A y \in {a, b} : x >= y) => x = most
  OBVIOUS
<1>. HIDE DEF most
<1>3. Max({a, b}) = most
  BY <1>1, <1>2 DEF Max
<1>. QED  BY <1>3 DEF most

\* Quotient and remainder.
LEMMA DivMod == ASSUME NEW a \in Int, NEW d \in Nat \ {0}
  PROVE a = (a \div d) * d + (a % d) /\ a % d \in 0 .. d - 1 /\ a \div d \in Int
OBVIOUS

\* The only quotient and remainder.
LEMMA DivOf == ASSUME NEW q \in Int, NEW r \in Int, NEW d \in Nat \ {0}, 0 <= r, r < d
  PROVE (q * d + r) \div d = q /\ (q * d + r) % d = r
OBVIOUS

\* Sums and products of naturals.
LEMMA NatClosed == ASSUME NEW a \in Nat, NEW b \in Nat PROVE a * b \in Nat /\ a + b \in Nat
OBVIOUS

\* The numbers of a finite set, in ascending order, are those of the set.
LEMMA AscendingIs ==
  ASSUME NEW S \in SUBSET Int, IsFiniteSet(S)
  PROVE  /\ Cardinality(S) \in Nat /\ Ascending(S) \in [1 .. Cardinality(S) -> S]
         /\ Range(Ascending(S)) = S
<1>. DEFINE below(t) == {u \in S : u < t}
            rank == [t \in S |-> Cardinality(below(t))]
            size == Cardinality(S)
<1>1. size \in Nat
  BY FS_CardinalityType
<1>2. ASSUME NEW t \in S PROVE /\ rank[t] \in 0 .. size - 1 /\ below(t) \in SUBSET S
                               /\ IsFiniteSet(below(t)) /\ Cardinality(below(t)) \in Nat
  <2>1. IsFiniteSet(below(t)) /\ Cardinality(below(t)) <= size /\ (size = Cardinality(below(t)) => S = below(t))
    BY FS_Subset
  <2>a. t \in Int /\ ~(t < t)
    <3>1. \A i \in Int : ~(i < i)
      OBVIOUS
    <3>. QED  BY <3>1
  <2>2. t \notin below(t)
    BY <2>a
  <2>b. Cardinality(below(t)) \in Nat
    <3>. HIDE DEF below
    <3>. QED  BY <2>1, FS_CardinalityType
  <2>3. Cardinality(below(t)) # size
    <3>. HIDE DEF below, size
    <3>. QED  BY <2>1, <2>2
  <2>4. Cardinality(below(t)) \in 0 .. size - 1
    <3>. HIDE DEF below, size
    <3>. QED  BY <1>1, <2>1, <2>b, <2>3
  <2>5. rank[t] = Cardinality(below(t)) /\ below(t) \in SUBSET S
    OBVIOUS
  <2>. QED  BY <2>1, <2>b, <2>4, <2>5
<1>3. ASSUME NEW t \in S, NEW u \in S, t < u PROVE rank[t] # rank[u]
  <2>1. below(t) \in SUBSET below(u) /\ t \in below(u) /\ t \notin below(t)
    <3>1. t \in Int /\ u \in Int /\ ~(t < t) /\ \A v \in Int : v < t => v < u
      BY <1>3
    <3>. QED  BY <1>3, <3>1
  <2>2. Cardinality(below(u)) # Cardinality(below(t))
    <3>1. IsFiniteSet(below(u))
      BY <1>2
    <3>. HIDE DEF below
    <3>. QED  BY <2>1, <3>1, FS_Subset
  <2>. QED  BY <2>2
<1>4. \A t, u \in S : rank[t] = rank[u] => t = u
  <2>. HIDE DEF rank
  <2>. QED  BY <1>3
<1>5. rank \in Injection(S, 0 .. size - 1)
  <2>1. rank \in [S -> 0 .. size - 1]
    BY <1>2
  <2>. HIDE DEF rank, size
  <2>. QED  BY <1>4, <2>1 DEF Injection, IsInjective
<1>6. rank \in Surjection(S, 0 .. size - 1)
  <2>1. IsFiniteSet(0 .. size - 1) /\ Cardinality(0 .. size - 1) = size
    <3>. HIDE DEF size
    <3>1. size - 1 \in Int /\ (size - 1) - 0 + 1 = size /\ (0 > size - 1 => size = 0)
      BY ONLY <1>1
    <3>. QED  BY ONLY <1>1, <3>1, FS_Interval
  <2>. HIDE DEF rank
  <2>. QED  BY <1>5, <2>1, FS_Injection
<1>7. ASSUME NEW i \in 1 .. size
      PROVE  Ascending(S)[i] \in S /\ rank[Ascending(S)[i]] = i - 1
  <2>1. PICK t \in S : rank[t] = i - 1
    <3>1. i - 1 \in 0 .. size - 1
      BY <1>1
    <3>. HIDE DEF rank
    <3>. QED  BY <1>6, <3>1 DEF Surjection
  <2>2. Cardinality({u \in S : u < t}) = i - 1
    BY <2>1
  <2>3. Ascending(S)[i] = CHOOSE v \in S : Cardinality({u \in S : u < v}) = i - 1
    BY DEF Ascending
  <2>4. Ascending(S)[i] \in S /\ Cardinality({u \in S : u < Ascending(S)[i]}) = i - 1
    BY <2>2, <2>3
  <2>. QED  BY <2>4
<1>8. Ascending(S) \in [1 .. size -> S]
  <2>. DEFINE a == [i \in 1 .. size |-> CHOOSE t \in S : Cardinality({u \in S : u < t}) = i - 1]
  <2>1. Ascending(S) = a
    BY DEF Ascending
  <2>2. a \in [1 .. size -> S]
    BY <1>7, <2>1
  <2>. QED  BY <2>1, <2>2
<1>9. ASSUME NEW t \in S PROVE \E i \in 1 .. size : Ascending(S)[i] = t
  <2>1. rank[t] + 1 \in 1 .. size /\ (rank[t] + 1) - 1 = rank[t]
    <3>1. rank[t] \in 0 .. size - 1
      BY <1>2
    <3>. HIDE DEF rank, size
    <3>. QED  BY <1>1, <3>1
  <2>2. rank[Ascending(S)[rank[t] + 1]] = rank[t] /\ Ascending(S)[rank[t] + 1] \in S
    <3>. HIDE DEF rank
    <3>. QED  BY <1>7, <2>1
  <2>3. Ascending(S)[rank[t] + 1] = t
    <3>. HIDE DEF rank
    <3>. QED  BY <1>4, <2>2
  <2>. QED  BY <2>1, <2>3
<1>10. Range(Ascending(S)) = S
  <2>1. DOMAIN Ascending(S) = 1 .. size
    BY <1>8
  <2>. HIDE DEF size
  <2>2. \A t : t \in Range(Ascending(S)) <=> \E i \in 1 .. size : Ascending(S)[i] = t
    BY <2>1 DEF Range
  <2>. QED  BY <1>7, <1>9, <2>2
<1>. QED  BY <1>1, <1>8, <1>10

\* The partial sums of a sequence.
Sums(k, s, len) == k[0] = 0 /\ \A i \in 1 .. len : k[i] = k[i - 1] + s[i]

\* FoldLeft(+) adds up so.
LEMMA SumSteps ==
  ASSUME NEW len \in Nat, NEW t \in [1 .. len -> Nat]
  PROVE  \E k : Sums(k, t, len) /\ FoldLeft(+, 0, t) = k[len]
<1>. DEFINE F == [p \in (1 .. len) \X Nat |-> p[2] + t[p[1]]]
            G(g) == [s \in SUBSET (1 .. len) |->
                       IF s = {} THEN 0 ELSE g[s \ {Max(s)}] + t[Max(s)]]
            f == CHOOSE g : g = G(g)
<1>1. ASSUME NEW i \in 1 .. len, NEW v \in Nat
      PROVE  F[<<i, v>>] = v + t[i] /\ F[<<i, v>>] \in Nat
  OBVIOUS
<1>2. PICK g \in [SUBSET (1 .. len) -> Nat] :
        \A s \in SUBSET (1 .. len) : g[s] = IF s = {} THEN 0 ELSE F[<<Max(s), g[s \ {Max(s)}]>>]
  <2>1. 0 \in Nat /\ \A i \in 1 .. len, v \in Nat : F[<<i, v>>] \in Nat
    BY <1>1
  <2>. HIDE DEF F
  <2>2. \E g \in [SUBSET (1 .. len) -> Nat] : IsFold(g, len, 0, F)
    BY <2>1, FoldOver
  <2>. QED  BY <2>2 DEF IsFold
<1>3. g = G(g)
  <2>1. ASSUME NEW s \in SUBSET (1 .. len) PROVE g[s] = G(g)[s]
    <3>1. CASE s = {}
      BY <1>2, <3>1
    <3>2. CASE s # {}
      <4>1. Max(s) \in 1 .. len
        <5>1. PICK b \in s : \A y \in s : b >= y
          <6>1. s \in SUBSET (0 .. len)
            OBVIOUS
          <6>. QED  BY <3>2, <6>1, Greatest
        <5>. QED  BY <5>1 DEF Max
      <4>2. g[s \ {Max(s)}] \in Nat
        OBVIOUS
      <4>3. g[s] = F[<<Max(s), g[s \ {Max(s)}]>>]
        <5>. HIDE DEF F
        <5>. QED  BY <1>2, <3>2
      <4>. HIDE DEF F
      <4>. QED  BY <1>1, <3>2, <4>1, <4>2, <4>3
    <3>. QED  BY <3>1, <3>2
  <2>. QED  BY <1>2, <2>1
<1>4. f = G(f)
  <2>. HIDE DEF G
  <2>. QED  BY <1>3
<1>. HIDE DEF f
<1>5. f[1 .. 0] = 0
  BY <1>4, Segments
<1>6. ASSUME NEW i \in 1 .. len PROVE f[1 .. i] = f[1 .. i - 1] + t[i]
  <2>1. f[1 .. i] = f[(1 .. i) \ {Max(1 .. i)}] + t[Max(1 .. i)]
    BY <1>4, Segments
  <2>. QED  BY <2>1, Segments
<1>7. FoldLeft(+, 0, t) = f[1 .. len]
  BY DEF FoldLeft, MapThenFoldSet, f
<1>. DEFINE k == [i \in 0 .. len |-> f[1 .. i]]
<1>8. k[0] = 0 /\ k[len] = f[1 .. len]
  <2>1. 0 \in 0 .. len /\ len \in 0 .. len
    OBVIOUS
  <2>2. k[0] = f[1 .. 0] /\ k[len] = f[1 .. len]
    BY <2>1
  <2>. HIDE DEF k
  <2>. QED  BY <1>5, <2>2
<1>9. \A i \in 1 .. len : k[i] = k[i - 1] + t[i]
  <2>. SUFFICES ASSUME NEW i \in 1 .. len PROVE k[i] = k[i - 1] + t[i]
    OBVIOUS
  <2>1. i \in 0 .. len /\ i - 1 \in 0 .. len
    OBVIOUS
  <2>2. k[i] = f[1 .. i] /\ k[i - 1] = f[1 .. i - 1]
    BY <2>1
  <2>. HIDE DEF k
  <2>. QED  BY <1>6, <2>2
<1>. HIDE DEF k
<1>. QED  BY <1>7, <1>8, <1>9 DEF Sums

----------------------------------------------------------------------------
(* A launch of the copy kernels (StateCopy): whatever the threads' order,  *)
(* a launch in which every byte is written once, and read before it is     *)
(* written, moves each byte to where it belongs.                           *)

Ops == [from : Int, to : Int, len : Nat \ {0}]
BytesOf(o) == 0 .. o.len - 1

\* Every byte is in memory, none is written twice, and one that is read and written
\* is read first: by the thread that writes it or, where there is a barrier, in
\* the same iteration or an earlier one.
Disciplined(P, barrier, memory) ==
  /\ \A t \in DOMAIN P : P[t] \in Seq(Ops)
  /\ \A t \in DOMAIN P : \A j \in DOMAIN P[t] : \A i \in BytesOf(P[t][j]) :
       P[t][j].from + i \in memory /\ P[t][j].to + i \in memory
  /\ \A t, u \in DOMAIN P : \A j \in DOMAIN P[t], k \in DOMAIN P[u] :
       \A i \in BytesOf(P[t][j]), h \in BytesOf(P[u][k]) :
         /\ P[t][j].to + i = P[u][k].to + h => t = u /\ j = k
         /\ P[t][j].from + i = P[u][k].to + h => j <= k /\ (t = u \/ barrier)

\* Thread t has stored what its j-th operation moves.
Stored(t, j) == 2 * j <= pc[t]

\* What a thread has loaded is what was there in the beginning, and what it has
\* stored is there.
ThreadMoves(t) ==
  /\ pc[t] <= 2 * Len(program[t])
  /\ reg[t] = IF Loading(t) THEN << >> ELSE [i \in 1 .. OpAt(t).len |-> OpAt(t).from + i - 1]
  /\ \A j \in DOMAIN program[t] : Stored(t, j) =>
       \A i \in BytesOf(program[t][j]) : mem[program[t][j].to + i] = program[t][j].from + i

\* A byte that no thread has stored is as in the beginning.
MovedOrKept(a) ==
  \/ mem[a] = a
  \/ \E t \in DOMAIN program : \E j \in DOMAIN program[t] : \E i \in BytesOf(program[t][j]) :
       Stored(t, j) /\ a = program[t][j].to + i

\* With a barrier all running threads have loaded in the iterations any has stored in.
BarrierKept ==
  waits => \A t, u \in DOMAIN program : \A j \in DOMAIN program[u] :
             Stored(u, j) /\ Running(t) => 2 * j - 1 <= pc[t]

\* The invariant of a launch under way.
MovingInv ==
  /\ Disciplined(program, waits, DOMAIN mem) /\ DOMAIN mem \subseteq Int
  /\ pc \in [DOMAIN program -> Nat] /\ DOMAIN reg = DOMAIN program
  /\ \A t \in DOMAIN program : ThreadMoves(t)
  /\ \A a \in DOMAIN mem : MovedOrKept(a)
  /\ BarrierKept

\* The operation a running thread is at.
LEMMA AtIs ==
  ASSUME MovingInv, NEW t \in DOMAIN program, Running(t)
  PROVE  \E j \in DOMAIN program[t] :
           /\ j = pc[t] \div 2 + 1 /\ OpAt(t) = program[t][j] /\ program[t][j] \in Ops
           /\ pc[t] = IF Loading(t) THEN 2 * j - 2 ELSE 2 * j - 1
<1>1. PICK x \in Nat, len \in Nat : x = pc[t] /\ len = Len(program[t]) /\ program[t] \in Seq(Ops)
                                    /\ DOMAIN program[t] = 1 .. len
  BY DEF MovingInv, ThreadMoves, Disciplined
<1>2. x < 2 * len
  BY <1>1 DEF Running
<1>3. x \div 2 + 1 \in 1 .. len /\ x = IF x % 2 = 0 THEN 2 * (x \div 2 + 1) - 2 ELSE 2 * (x \div 2 + 1) - 1
  BY <1>2
<1>4. program[t][x \div 2 + 1] \in Ops
  BY <1>1, <1>3
<1>. QED  BY <1>1, <1>3, <1>4 DEF OpAt, Loading

\* A load reads what was there in the beginning.
LEMMA LoadKeeps ==
  ASSUME MovingInv, NEW t \in DOMAIN program, Load(t)
  PROVE  MovingInv'
<1>1. PICK j \in DOMAIN program[t] :
        /\ OpAt(t) = program[t][j] /\ program[t][j] \in Ops /\ pc[t] = 2 * j - 2 /\ Loading(t)
  BY AtIs DEF Load
<1>2. PICK o \in Ops : o = program[t][j]
  BY <1>1
<1>3. /\ pc' = [pc EXCEPT ![t] = @ + 1] /\ UNCHANGED <<program, waits, mem>>
      /\ reg' = [reg EXCEPT ![t] = [i \in 1 .. o.len |->
               LET a == o.from + i - 1 IN IF a \in DOMAIN mem THEN mem[a] ELSE Wild]]
  BY <1>1, <1>2 DEF Load, Addresses
<1>4. /\ Disciplined(program, waits, DOMAIN mem) /\ pc \in [DOMAIN program -> Nat] /\ DOMAIN reg = DOMAIN program
      /\ \A u \in DOMAIN program : program[u] \in Seq(Ops)
  BY DEF MovingInv, Disciplined
<1>5. j \in Nat \ {0} /\ pc[t] \in Nat /\ pc'[t] = 2 * j - 1 /\ \A u \in DOMAIN program : u # t => pc'[u] = pc[u]
  BY <1>1, <1>3, <1>4
<1>6. pc' \in [DOMAIN program -> Nat]
  BY <1>3, <1>4
<1>7. \A u \in DOMAIN program : \A k \in DOMAIN program[u] : Stored(u, k)' <=> Stored(u, k)
  <2>. SUFFICES ASSUME NEW u \in DOMAIN program, NEW k \in DOMAIN program[u] PROVE Stored(u, k)' <=> Stored(u, k)
    OBVIOUS
  <2>1. k \in Int
    BY <1>4
  <2>. QED  BY <1>1, <1>5, <2>1 DEF Stored
<1>8. ASSUME NEW i \in 1 .. o.len PROVE o.from + i - 1 \in DOMAIN mem /\ mem[o.from + i - 1] = o.from + i - 1
  <2>1. i - 1 \in BytesOf(o) /\ o.from \in Int
    BY DEF Ops, BytesOf
  <2>2. o.from + (i - 1) \in DOMAIN mem
    BY <1>1, <1>2, <1>4, <2>1 DEF Disciplined
  <2>3. ASSUME NEW u \in DOMAIN program, NEW k \in DOMAIN program[u], NEW h \in BytesOf(program[u][k]),
               Stored(u, k), o.from + (i - 1) = program[u][k].to + h
        PROVE  FALSE
    <3>1. j <= k /\ (t = u \/ waits) /\ k \in Nat
      BY <1>1, <1>2, <1>4, <2>1, <2>3 DEF Disciplined
    <3>2. CASE t = u
      BY <1>1, <1>5, <2>3, <3>1, <3>2 DEF Stored
    <3>3. CASE waits
      <4>1. Running(t) /\ 2 * k - 1 <= pc[t]
        BY <2>3, <3>3 DEF Load, MovingInv, BarrierKept
      <4>. QED  BY <1>1, <1>5, <3>1, <4>1
    <3>. QED  BY <3>1, <3>2, <3>3
  <2>4. mem[o.from + (i - 1)] = o.from + (i - 1)
    BY <1>4, <2>2, <2>3 DEF MovingInv, MovedOrKept
  <2>5. o.from + (i - 1) = o.from + i - 1
    BY <2>1
  <2>. QED  BY <2>2, <2>4, <2>5
<1>9. reg'[t] = [i \in 1 .. o.len |-> o.from + i - 1]
  <2>1. reg'[t] = [i \in 1 .. o.len |-> LET a == o.from + i - 1 IN IF a \in DOMAIN mem THEN mem[a] ELSE Wild]
    BY <1>3, <1>4
  <2>2. ASSUME NEW i \in 1 .. o.len
        PROVE (LET a == o.from + i - 1 IN IF a \in DOMAIN mem THEN mem[a] ELSE Wild) = o.from + i - 1
    BY <1>8
  <2>. QED  BY <2>1, <2>2
<1>10. ~Loading(t)' /\ OpAt(t)' = o
  <2>1. (2 * j - 1) % 2 # 0 /\ (2 * j - 1) \div 2 + 1 = j
    BY <1>5
  <2>. QED  BY <1>2, <1>3, <1>5, <2>1 DEF Loading, OpAt
<1>11. ASSUME NEW u \in DOMAIN program
       PROVE  /\ pc'[u] <= 2 * Len(program[u])
              /\ (reg[u] = IF Loading(u) THEN << >> ELSE [i \in 1 .. OpAt(u).len |-> OpAt(u).from + i - 1])'
  <2>1. CASE u = t
    <3>1. j <= Len(program[t]) /\ Len(program[t]) \in Nat
      BY <1>4
    <3>. QED  BY <1>5, <1>9, <1>10, <2>1, <3>1
  <2>2. CASE u # t
    <3>1. pc'[u] = pc[u] /\ reg'[u] = reg[u] /\ program' = program
      BY <1>3, <1>4, <1>5, <2>2
    <3>2. (Loading(u)' <=> Loading(u)) /\ OpAt(u)' = OpAt(u)
      BY <3>1 DEF Loading, OpAt
    <3>. QED  BY <3>1, <3>2 DEF MovingInv, ThreadMoves
  <2>. QED  BY <2>1, <2>2
<1>12. ASSUME NEW u \in DOMAIN program, NEW k \in DOMAIN program[u], Stored(u, k)'
       PROVE  \A i \in BytesOf(program[u][k]) : mem'[program[u][k].to + i] = program[u][k].from + i
  BY <1>3, <1>7, <1>12 DEF MovingInv, ThreadMoves
<1>13. ASSUME NEW u \in DOMAIN program PROVE ThreadMoves(u)'
  BY <1>3, <1>11, <1>12 DEF ThreadMoves
<1>14. ASSUME NEW a \in DOMAIN mem PROVE MovedOrKept(a)'
  BY <1>3, <1>7 DEF MovingInv, MovedOrKept
<1>15. ASSUME waits, NEW u \in DOMAIN program, NEW v \in DOMAIN program, NEW k \in DOMAIN program[v],
              Stored(v, k), Running(u)'
       PROVE  2 * k - 1 <= pc'[u]
  <2>1. k \in Nat /\ pc[u] \in Nat /\ Len(program[u]) \in Nat
    BY <1>4
  <2>2. pc[u] <= pc'[u]
    BY <1>1, <1>5, <2>1
  <2>3. Running(u)
    BY <1>3, <1>6, <1>15, <2>1, <2>2 DEF Running
  <2>4. 2 * k - 1 <= pc[u]
    BY <1>15, <2>3 DEF MovingInv, BarrierKept
  <2>. QED  BY <1>6, <2>1, <2>2, <2>4
<1>16. BarrierKept'
  BY <1>3, <1>7, <1>15 DEF BarrierKept
<1>17. Disciplined(program, waits, DOMAIN mem)' /\ (DOMAIN mem \subseteq Int)' /\ DOMAIN reg' = DOMAIN program'
  <2>1. DOMAIN mem \subseteq Int
    BY DEF MovingInv
  <2>. QED  BY <1>3, <1>4, <2>1
<1>. QED  BY <1>3, <1>6, <1>13, <1>14, <1>16, <1>17 DEF MovingInv

\* A store puts it where it belongs, and nothing else.
LEMMA StoreKeeps ==
  ASSUME MovingInv, NEW t \in DOMAIN program, Store(t)
  PROVE  MovingInv'
<1>1. PICK j \in DOMAIN program[t] :
        /\ OpAt(t) = program[t][j] /\ program[t][j] \in Ops /\ pc[t] = 2 * j - 1 /\ ~Loading(t)
  BY AtIs DEF Store
<1>2. PICK o \in Ops : o = program[t][j]
  BY <1>1
<1>3. /\ pc' = [pc EXCEPT ![t] = @ + 1] /\ UNCHANGED <<program, waits>>
      /\ mem' = [a \in DOMAIN mem |-> IF a \in o.to .. o.to + o.len - 1 THEN reg[t][a - o.to + 1] ELSE mem[a]]
      /\ reg' = [reg EXCEPT ![t] = << >>]
  BY <1>1, <1>2 DEF Store, Addresses
<1>4. /\ Disciplined(program, waits, DOMAIN mem) /\ pc \in [DOMAIN program -> Nat] /\ DOMAIN reg = DOMAIN program
      /\ DOMAIN mem \subseteq Int /\ DOMAIN mem' = DOMAIN mem
      /\ \A u \in DOMAIN program : program[u] \in Seq(Ops)
  BY <1>3 DEF MovingInv, Disciplined
<1>5. j \in Nat \ {0} /\ pc[t] \in Nat /\ pc'[t] = 2 * j /\ \A u \in DOMAIN program : u # t => pc'[u] = pc[u]
  BY <1>1, <1>3, <1>4
<1>6. pc' \in [DOMAIN program -> Nat]
  BY <1>3, <1>4
<1>7. ASSUME NEW u \in DOMAIN program, NEW k \in DOMAIN program[u]
      PROVE  Stored(u, k)' <=> Stored(u, k) \/ (u = t /\ k = j)
  <2>1. k \in Int
    BY <1>4
  <2>. QED  BY <1>1, <1>5, <2>1 DEF Stored
<1>8. ASSUME NEW i \in BytesOf(o) PROVE mem'[o.to + i] = o.from + i
  <2>1. i + 1 \in 1 .. o.len /\ o.to \in Int /\ o.from \in Int /\ i \in Int
    BY DEF BytesOf, Ops
  <2>2. o.to + i \in DOMAIN mem
    BY <1>1, <1>2, <1>4 DEF Disciplined
  <2>3. reg[t] = [x \in 1 .. o.len |-> o.from + x - 1]
    BY <1>1, <1>2 DEF MovingInv, ThreadMoves
  <2>4. o.to + i \in o.to .. o.to + o.len - 1 /\ (o.to + i) - o.to + 1 = i + 1 /\ o.from + (i + 1) - 1 = o.from + i
    BY <2>1 DEF Ops
  <2>. QED  BY <1>3, <2>1, <2>2, <2>3, <2>4
<1>9. ASSUME NEW a \in DOMAIN mem
      PROVE  mem'[a] = mem[a] \/ \E i \in BytesOf(o) : a = o.to + i
  <2>1. CASE a \in o.to .. o.to + o.len - 1
    <3>1. a - o.to \in BytesOf(o) /\ a = o.to + (a - o.to)
      <4>1. PICK x \in Int, len \in Nat : x = o.to /\ len = o.len
        BY <1>4 DEF Ops
      <4>2. a \in x .. x + len - 1
        BY ONLY <2>1, <4>1
      <4>3. a - x \in 0 .. len - 1 /\ a = x + (a - x)
        BY ONLY <4>2, x \in Int, len \in Nat
      <4>. QED  BY ONLY <4>1, <4>3 DEF BytesOf
    <3>. QED  BY <3>1
  <2>. QED  BY <1>3, <2>1
<1>10. ASSUME NEW u \in DOMAIN program, NEW k \in DOMAIN program[u], Stored(u, k)',
              NEW i \in BytesOf(program[u][k])
       PROVE  mem'[program[u][k].to + i] = program[u][k].from + i
  <2>1. CASE u = t /\ k = j
    BY <1>2, <1>8, <1>10, <2>1
  <2>2. CASE ~(u = t /\ k = j)
    <3>1. program[u][k].to + i \in DOMAIN mem
      BY <1>4 DEF Disciplined
    <3>2. \A h \in BytesOf(o) : program[u][k].to + i # o.to + h
      BY <1>2, <1>4, <2>2 DEF Disciplined
    <3>3. mem[program[u][k].to + i] = program[u][k].from + i
      BY <1>7, <1>10, <2>2 DEF MovingInv, ThreadMoves
    <3>. QED  BY <1>9, <3>1, <3>2, <3>3
  <2>. QED  BY <2>1, <2>2
<1>11. (2 * j) % 2 = 0 /\ j <= Len(program[t]) /\ Len(program[t]) \in Nat
  BY <1>4, <1>5
<1>12. ASSUME NEW u \in DOMAIN program
       PROVE  /\ pc'[u] <= 2 * Len(program[u])
              /\ (reg[u] = IF Loading(u) THEN << >> ELSE [i \in 1 .. OpAt(u).len |-> OpAt(u).from + i - 1])'
  <2>1. CASE u = t
    <3>1. Loading(t)' /\ reg'[t] = << >>
      BY <1>3, <1>4, <1>5, <1>11 DEF Loading
    <3>. QED  BY <1>5, <1>11, <2>1, <3>1
  <2>2. CASE u # t
    <3>1. pc'[u] = pc[u] /\ reg'[u] = reg[u] /\ program' = program
      BY <1>3, <1>4, <1>5, <2>2
    <3>2. (Loading(u)' <=> Loading(u)) /\ OpAt(u)' = OpAt(u)
      BY <3>1 DEF Loading, OpAt
    <3>. QED  BY <3>1, <3>2 DEF MovingInv, ThreadMoves
  <2>. QED  BY <2>1, <2>2
<1>13. ASSUME NEW u \in DOMAIN program PROVE ThreadMoves(u)'
  BY <1>3, <1>10, <1>12 DEF ThreadMoves
<1>14. ASSUME NEW a \in DOMAIN mem PROVE MovedOrKept(a)'
  <2>1. CASE \E i \in BytesOf(o) : a = o.to + i
    <3>1. Stored(t, j)'
      BY <1>1, <1>7
    <3>. QED  BY <1>1, <1>2, <1>3, <2>1, <3>1 DEF MovedOrKept
  <2>2. CASE mem'[a] = mem[a]
    BY <1>3, <1>7, <2>2 DEF MovingInv, MovedOrKept
  <2>. QED  BY <1>9, <2>1, <2>2
<1>15. ASSUME waits, NEW u \in DOMAIN program, NEW v \in DOMAIN program, NEW k \in DOMAIN program[v],
              Stored(v, k)', Running(u)'
       PROVE  2 * k - 1 <= pc'[u]
  <2>1. k \in Nat /\ pc[u] \in Nat /\ Len(program[u]) \in Nat
    BY <1>4
  <2>2. pc[u] <= pc'[u]
    BY <1>1, <1>5, <2>1
  <2>3. Running(u)
    BY <1>3, <1>6, <1>15, <2>1, <2>2 DEF Running
  <2>4. CASE Stored(v, k)
    <3>1. 2 * k - 1 <= pc[u]
      BY <1>15, <2>3, <2>4 DEF MovingInv, BarrierKept
    <3>. QED  BY <1>6, <2>1, <2>2, <3>1
  <2>5. CASE v = t /\ k = j
    <3>1. pc[u] >= pc[t]
      BY <1>15, <2>3 DEF Store, PastBarrier
    <3>. QED  BY <1>1, <1>5, <1>6, <2>1, <2>2, <2>5, <3>1
  <2>. QED  BY <1>7, <1>15, <2>4, <2>5
<1>16. BarrierKept'
  BY <1>3, <1>15 DEF BarrierKept
<1>17. Disciplined(program, waits, DOMAIN mem)' /\ (DOMAIN mem \subseteq Int)' /\ DOMAIN reg' = DOMAIN program'
  BY <1>3, <1>4
<1>. QED  BY <1>3, <1>4, <1>6, <1>13, <1>14, <1>16, <1>17 DEF MovingInv

----------------------------------------------------------------------------
(* What the lanes and tiles of a copy handle.                              *)

LEMMA Monotone == ASSUME NEW a \in Int, NEW b \in Int, NEW d \in Nat \ {0}
  PROVE  a <= b <=> a * d <= b * d
<1>1. ASSUME a <= b PROVE a * d <= b * d
  <2>1. PICK e \in Nat : b = a + e
    <3>1. b - a \in Nat /\ b = a + (b - a)
      BY <1>1
    <3>. QED  BY <3>1
  <2>2. b * d = a * d + e * d
    BY <2>1
  <2>3. e * d >= 0
    OBVIOUS
  <2>4. a * d \in Int /\ e * d \in Int
    OBVIOUS
  <2>. QED  BY <2>2, <2>3, <2>4
<1>2. ASSUME ~(a <= b) PROVE ~(a * d <= b * d)
  <2>1. PICK e \in Nat : a = b + e + 1
    <3>1. a - b - 1 \in Nat /\ a = b + (a - b - 1) + 1
      BY <1>2
    <3>. QED  BY <3>1
  <2>2. a * d = b * d + e * d + d
    BY <2>1
  <2>3. e * d >= 0
    OBVIOUS
  <2>4. b * d \in Int /\ e * d \in Int
    OBVIOUS
  <2>. QED  BY <2>2, <2>3, <2>4
<1>. QED  BY <1>1, <1>2

LEMMA Divided == ASSUME NEW a \in Nat, NEW d \in Nat \ {0}
  PROVE  \E q \in Nat, r \in 0 .. d - 1 : a = q * d + r
<1>1. a = (a \div d) * d + (a % d) /\ a % d \in 0 .. d - 1 /\ a \div d \in Int
  BY DivMod
<1>2. a \div d \in Nat
  OBVIOUS
<1>. QED  BY <1>1, <1>2

\* Rounding up.
LEMMA CDivIs ==
  ASSUME NEW a \in Int, NEW d \in Nat \ {0}
  PROVE  CDiv(a, d) \in Int /\ \A i \in Int : i <= CDiv(a, d) <=> (i - 1) * d < a
<1>1. PICK q \in Int, r \in 0 .. d - 1 : q = CDiv(a, d) /\ a + d - 1 = q * d + r
  <2>1. a + d - 1 \in Int
    OBVIOUS
  <2>. QED  BY <2>1, DivMod DEF CDiv
<1>2. ASSUME NEW i \in Int PROVE i <= q <=> (i - 1) * d < a
  <2>1. PICK x \in Int, y \in Int : x = i * d /\ y = q * d
    BY <1>1
  <2>2. (i - 1) * d = x - d
    BY <2>1
  <2>3. i <= q <=> x <= y
    BY <2>1, Monotone
  <2>4. q + 1 <= i <=> y + d <= x
    <3>1. q + 1 \in Int /\ (q + 1) * d = y + d
      BY <2>1
    <3>. QED  BY <2>1, <3>1, Monotone
  <2>. QED  BY <1>1, <2>1, <2>2, <2>3, <2>4
<1>. QED  BY <1>1, <1>2

\* What a lane handles of total elements.
LEMMA OfLaneIs ==
  ASSUME NEW total \in Int, NEW lane \in Nat
  PROVE  /\ \E len \in Nat : DOMAIN OfLane(total, lane) = 1 .. len
         /\ \A i \in DOMAIN OfLane(total, lane) :
              lane < Lanes /\ OfLane(total, lane)[i] = lane + (i - 1) * Lanes /\ OfLane(total, lane)[i] \in 0 .. total - 1
         /\ \A i \in Nat \ {0} : lane < Lanes /\ lane + (i - 1) * Lanes < total => i \in DOMAIN OfLane(total, lane)
<1>1. Lanes \in Nat \ {0}
  BY SizesAssumption
<1>2. CASE lane >= Lanes
  <2>1. OfLane(total, lane) = << >> /\ DOMAIN OfLane(total, lane) = 1 .. 0
    BY <1>2 DEF OfLane
  <2>2. 0 \in Nat /\ 1 .. 0 = {}
    OBVIOUS
  <2>. QED  BY <1>1, <1>2, <2>1, <2>2
<1>3. CASE lane < Lanes
  <2>1. total - lane \in Int
    OBVIOUS
  <2>2. PICK q \in Int : q = CDiv(total - lane, Lanes) /\ \A i \in Int : i <= q <=> (i - 1) * Lanes < total - lane
    BY <1>1, <2>1, CDivIs
  <2>3. OfLane(total, lane) = [i \in 1 .. q |-> lane + (i - 1) * Lanes]
    BY <1>1, <1>3, <2>2 DEF OfLane
  <2>4. \E len \in Nat : 1 .. q = 1 .. len
    <3>1. CASE q >= 0
      BY <3>1
    <3>2. CASE q < 0
      <4>1. 1 .. q = 1 .. 0 /\ 0 \in Nat
        BY <3>2
      <4>. QED  BY <4>1
    <3>. QED  BY <3>1, <3>2
  <2>5. ASSUME NEW i \in 1 .. q PROVE lane + (i - 1) * Lanes \in 0 .. total - 1
    <3>1. (i - 1) * Lanes < total - lane
      BY <2>2
    <3>2. (i - 1) * Lanes \in Nat
      BY <1>1
    <3>. QED  BY <3>1, <3>2
  <2>6. ASSUME NEW i \in Nat \ {0}, lane + (i - 1) * Lanes < total PROVE i \in 1 .. q
    <3>1. (i - 1) * Lanes \in Int
      BY <1>1
    <3>2. (i - 1) * Lanes < total - lane
      BY <2>6, <3>1
    <3>. QED  BY <2>2, <3>2
  <2>. QED  BY <1>3, <2>3, <2>4, <2>5, <2>6
<1>. QED  BY <1>1, <1>2, <1>3

\* The slices of the tiles are whole iterations and cover everything.
LEMMA PerTileIs ==
  ASSUME NEW total \in Nat, NEW tiles \in Nat \ {0}
  PROVE  /\ PerTile(total, tiles) \in Nat /\ total <= PerTile(total, tiles) * tiles
         /\ total # 0 => PerTile(total, tiles) # 0
<1>1. Lanes \in Nat \ {0}
  BY SizesAssumption
<1>2. PICK a \in Int : a = CDiv(total, tiles) /\ \A i \in Int : i <= a <=> (i - 1) * tiles < total
  <2>1. total \in Int /\ CDiv(total, tiles) \in Int
    BY CDivIs
  <2>. QED  BY <2>1, CDivIs
<1>3. PICK b \in Int : b = CDiv(a, Lanes) /\ \A i \in Int : i <= b <=> (i - 1) * Lanes < a
  BY <1>1, CDivIs
<1>4. PICK per \in Int : per = b * Lanes /\ per = PerTile(total, tiles)
  BY <1>1, <1>2, <1>3 DEF PerTile
<1>5. a >= 0 /\ total <= a * tiles
  <2>1. (0 - 1) * tiles < total
    OBVIOUS
  <2>2. ~(a + 1 <= a) /\ (a + 1) - 1 = a /\ a * tiles \in Int
    OBVIOUS
  <2>3. ~(((a + 1) - 1) * tiles < total)
    BY <1>2, <2>2
  <2>. QED  BY <1>2, <2>1, <2>2, <2>3
<1>6. b >= 0 /\ a <= per
  <2>1. (0 - 1) * Lanes < a
    BY <1>1, <1>5
  <2>2. ~(b + 1 <= b) /\ (b + 1) - 1 = b /\ b * Lanes \in Int
    BY <1>1
  <2>3. ~(((b + 1) - 1) * Lanes < a)
    BY <1>3, <2>2
  <2>. QED  BY <1>3, <1>4, <2>1, <2>2, <2>3
<1>7. a * tiles <= per * tiles
  BY <1>6, Monotone
<1>8. per \in Nat /\ a * tiles \in Int /\ per * tiles \in Int
  BY <1>5, <1>6
<1>9. ASSUME total # 0 PROVE per # 0
  <2>1. a # 0
    <3>1. 0 * tiles = 0
      OBVIOUS
    <3>. QED  BY <1>5, <1>9, <3>1
  <2>. QED  BY <1>5, <1>6, <2>1
<1>. QED  BY <1>4, <1>5, <1>7, <1>8, <1>9

\* An index is that of one slice, iteration and lane.
LEMMA OneSlot ==
  ASSUME NEW per \in Nat \ {0}, NEW a \in Nat, NEW b \in Nat,
         NEW l \in 0 .. Lanes - 1, NEW h \in 0 .. Lanes - 1, NEW j \in Nat, NEW k \in Nat,
         l + j * Lanes < per, h + k * Lanes < per,
         a * per + (l + j * Lanes) = b * per + (h + k * Lanes)
  PROVE  a = b /\ l = h /\ j = k
<1>1. Lanes \in Nat \ {0}
  BY SizesAssumption
<1>2. PICK x \in Nat, y \in Nat : x = l + j * Lanes /\ y = h + k * Lanes
  BY <1>1
<1>3. (a * per + x) \div per = a /\ (a * per + x) % per = x /\ (b * per + y) \div per = b /\ (b * per + y) % per = y
  <2>1. x < per /\ y < per /\ 0 <= x /\ 0 <= y /\ {a, b, x, y} \subseteq Int
    BY <1>2
  <2>2. (a * per + x) \div per = a /\ (a * per + x) % per = x
    BY <2>1, DivOf
  <2>3. (b * per + y) \div per = b /\ (b * per + y) % per = y
    BY <2>1, DivOf
  <2>. QED  BY <2>2, <2>3
<1>4. a = b /\ x = y
  BY <1>2, <1>3
<1>5. x = j * Lanes + l /\ y = k * Lanes + h
  BY <1>1, <1>2
<1>6. (j * Lanes + l) \div Lanes = j /\ (j * Lanes + l) % Lanes = l /\ (k * Lanes + h) \div Lanes = k /\ (k * Lanes + h) % Lanes = h
  BY <1>1, DivOf
<1>. QED  BY <1>4, <1>5, <1>6

\* The indexes of a lane of a tile, by the start of its slice, its iterations and
\* its lanes.
StridesBy(s, total, per, tile, lane) ==
  /\ \E len \in Nat : DOMAIN s = 1 .. len
  /\ \A i \in DOMAIN s :
       /\ s[i] \in 0 .. total - 1 /\ lane \in 0 .. Lanes - 1 /\ i - 1 \in Nat
       /\ s[i] = tile * per + (lane + (i - 1) * Lanes)
       /\ lane + (i - 1) * Lanes < per
  /\ \A i \in Nat \ {0} :
       /\ lane < Lanes /\ lane + (i - 1) * Lanes < per /\ tile * per + (lane + (i - 1) * Lanes) < total
       => i \in DOMAIN s

\* Such are those of Strided.
LEMMA StridedIs ==
  ASSUME NEW total \in Nat, NEW tiles \in Nat \ {0}, NEW tile \in Nat, NEW lane \in Nat
  PROVE  StridesBy(Strided(total, tiles, tile, lane), total, PerTile(total, tiles), tile, lane)
<1>0. PICK s : s = Strided(total, tiles, tile, lane)
  OBVIOUS
<1>1. Lanes \in Nat \ {0}
  BY SizesAssumption
<1>2. PICK per \in Nat : per = PerTile(total, tiles)
  BY PerTileIs
<1>3. PICK start \in Nat, end \in Int : /\ start = tile * per /\ end = Min({start + per, total})
                                        /\ end = IF start + per <= total THEN start + per ELSE total
  <2>1. tile * per \in Nat
    OBVIOUS
  <2>2. tile * per + per \in Int /\ total \in Int
    BY <2>1
  <2>3. Min({tile * per + per, total}) = IF tile * per + per <= total THEN tile * per + per ELSE total
    BY <2>2, MinOf
  <2>. QED  BY <2>1, <2>2, <2>3
<1>4. PICK o : o = OfLane(end - start, lane)
  OBVIOUS
<1>5. s = [i \in DOMAIN o |-> start + o[i]]
  BY <1>0, <1>2, <1>3, <1>4 DEF Strided
<1>6. end - start \in Int
  BY <1>3
<1>7. /\ \E len \in Nat : DOMAIN o = 1 .. len
      /\ \A i \in DOMAIN o : lane < Lanes /\ o[i] = lane + (i - 1) * Lanes /\ o[i] \in 0 .. (end - start) - 1
      /\ \A i \in Nat \ {0} : lane < Lanes /\ lane + (i - 1) * Lanes < end - start => i \in DOMAIN o
  BY <1>4, <1>6, OfLaneIs
<1>8. ASSUME NEW i \in DOMAIN s
      PROVE  /\ s[i] \in 0 .. total - 1 /\ lane \in 0 .. Lanes - 1 /\ i - 1 \in Nat
             /\ s[i] = start + (lane + (i - 1) * Lanes) /\ lane + (i - 1) * Lanes < per
  <2>1. i \in DOMAIN o /\ s[i] = start + o[i] /\ o[i] = lane + (i - 1) * Lanes /\ o[i] \in 0 .. (end - start) - 1
    BY <1>5, <1>7
  <2>2. i - 1 \in Nat
    BY <1>7, <2>1
  <2>3. o[i] < per /\ start + o[i] \in 0 .. total - 1
    BY <1>3, <2>1
  <2>. QED  BY <1>1, <1>7, <2>1, <2>2, <2>3
<1>9. ASSUME NEW i \in Nat \ {0}, lane < Lanes, lane + (i - 1) * Lanes < per, start + (lane + (i - 1) * Lanes) < total
      PROVE  i \in DOMAIN s
  <2>1. (i - 1) * Lanes \in Int
    BY <1>1
  <2>2. PICK y \in Int : y = lane + (i - 1) * Lanes
    BY <2>1
  <2>3. y < end - start
    BY <1>3, <1>9, <2>2
  <2>. QED  BY <1>5, <1>7, <1>9, <2>2, <2>3
<1>. QED  BY <1>0, <1>2, <1>3, <1>5, <1>7, <1>8, <1>9 DEF StridesBy

\* Every index belongs to a lane of a tile.
LEMMA StridedCovers ==
  ASSUME NEW total \in Nat, NEW tiles \in Nat \ {0}, NEW y \in 0 .. total - 1
  PROVE  \E tile \in 0 .. tiles - 1, lane \in 0 .. Lanes - 1 :
           \E i \in DOMAIN Strided(total, tiles, tile, lane) : Strided(total, tiles, tile, lane)[i] = y
<1>1. Lanes \in Nat \ {0}
  BY SizesAssumption
<1>2. PICK per \in Nat \ {0} : per = PerTile(total, tiles) /\ total <= per * tiles
  <2>1. total # 0
    OBVIOUS
  <2>. QED  BY <2>1, PerTileIs
<1>3. PICK tile \in Nat, x \in 0 .. per - 1 : y = tile * per + x
  <2>1. y \in Nat
    OBVIOUS
  <2>. QED  BY <2>1, Divided
<1>4. PICK q \in Nat, lane \in 0 .. Lanes - 1 : x = q * Lanes + lane
  <2>1. x \in Nat
    OBVIOUS
  <2>. QED  BY <1>1, <2>1, Divided
<1>5. tile <= tiles - 1
  <2>1. CASE tiles <= tile
    <3>1. tiles * per <= tile * per
      BY <2>1, Monotone
    <3>2. tiles * per = per * tiles /\ tile * per \in Int /\ per * tiles \in Int
      OBVIOUS
    <3>. QED  BY <1>2, <1>3, <3>1, <3>2
  <2>. QED  BY <2>1
<1>6. PICK i \in Nat \ {0} : q = i - 1
  <2>1. q + 1 \in Nat \ {0} /\ q = (q + 1) - 1
    OBVIOUS
  <2>. QED  BY <2>1
<1>7. lane + (i - 1) * Lanes = x /\ x < per /\ tile * per + x < total
  BY <1>1, <1>3, <1>4, <1>6
<1>8. PICK s : s = Strided(total, tiles, tile, lane)
  OBVIOUS
<1>9. lane \in Nat /\ lane < Lanes
  BY <1>1
<1>10. StridesBy(s, total, per, tile, lane)
  BY <1>2, <1>8, <1>9, StridedIs
<1>11. i \in DOMAIN s
  BY <1>7, <1>9, <1>10 DEF StridesBy
<1>12. s[i] = y
  BY <1>3, <1>7, <1>10, <1>11 DEF StridesBy
<1>. QED  BY <1>5, <1>8, <1>11, <1>12

----------------------------------------------------------------------------
(* How a copy of size bytes is cut into operations (_memcpy_u64_tiled).    *)

\* A piece of a copy: where it starts, and its bytes.
Piece(at, len) == <<at, len>>
AtOf(p) == p[1]
LenOf(p) == p[2]

LEMMA PieceFields == ASSUME NEW at, NEW len PROVE AtOf(Piece(at, len)) = at /\ LenOf(Piece(at, len)) = len
BY DEF Piece, AtOf, LenOf

\* The pieces of thread t where lead bytes lift the destination to a word.
Cuts(same, lead, size, tiles, t) ==
  LET words == (size - lead) \div Word
      rest == lead + words * Word
      bytes == Strided(size, tiles, t[1], t[3])
      is == Strided(words, tiles, t[1], t[3])
  IN IF ~same THEN IF t[2] = "bytes" THEN [i \in DOMAIN bytes |-> Piece(bytes[i], 1)] ELSE << >>
     ELSE IF t[2] = "head" /\ t[1] = 0 /\ t[3] < lead THEN << Piece(t[3], 1) >>
     ELSE IF t[2] = "body" THEN [i \in DOMAIN is |-> Piece(lead + Word * is[i], Word)]
     ELSE IF t[2] = "tail" /\ t[1] = 0 /\ rest + t[3] < size THEN << Piece(rest + t[3], 1) >>
     ELSE << >>

\* The bytes before the first word, and the words.
LEMMA LeadIs ==
  ASSUME NEW dst \in Int, NEW size \in Nat
  PROVE  /\ HeadBytes(dst, size) \in 0 .. Word - 1 /\ HeadBytes(dst, size) <= size /\ Word \in Nat \ {0}
         /\ (size - HeadBytes(dst, size)) \div Word \in Nat
<1>1. Word \in Nat \ {0}
  BY SizesAssumption
<1>2. PICK x \in 0 .. Word - 1 : x = (-dst) % Word
  <2>1. -dst \in Int
    OBVIOUS
  <2>. QED  BY <1>1, <2>1, DivMod
<1>3. Min({x, size}) = IF x <= size THEN x ELSE size
  BY <1>1, <1>2, MinOf
<1>4. PICK lead \in 0 .. Word - 1 : lead = HeadBytes(dst, size) /\ lead <= size
  BY <1>1, <1>2, <1>3 DEF HeadBytes
<1>5. size - lead \in Nat
  BY <1>1, <1>4
<1>6. (size - lead) \div Word \in Nat
  BY <1>1, <1>5
<1>. QED  BY <1>1, <1>4, <1>6

\* Memcpy performs them.
Performs(ops, c, src, dst) ==
  ops = [j \in DOMAIN c |-> Op(src + AtOf(c[j]), dst + AtOf(c[j]), LenOf(c[j]))]

LEMMA MemcpyIs ==
  ASSUME NEW src \in Int, NEW dst \in Int, NEW size \in Nat, NEW tiles \in Nat \ {0}, NEW t \in Threads
  PROVE  Performs(Memcpy(src, dst, size, tiles, t),
                  Cuts(SameAlignment(src, dst), HeadBytes(dst, size), size, tiles, t), src, dst)
<1>1. PICK lead : lead = HeadBytes(dst, size)
  OBVIOUS
<1>2. PICK ops, c : /\ ops = Memcpy(src, dst, size, tiles, t)
                    /\ c = Cuts(SameAlignment(src, dst), lead, size, tiles, t)
  OBVIOUS
<1>3. t[1] \in Nat /\ t[2] \in {"head", "body", "tail", "bytes", "rows"} /\ t[3] \in Nat
  BY DEF Threads, LaneSet
<1>4. PICK words, rest, bytes, is :
        /\ words = (size - lead) \div Word /\ rest = lead + words * Word
        /\ bytes = Strided(size, tiles, t[1], t[3]) /\ is = Strided(words, tiles, t[1], t[3])
  OBVIOUS
<1>5. words = BodyWords(dst, size)
  BY <1>1, <1>4 DEF BodyWords
<1>6. SUFFICES ops = [j \in DOMAIN c |-> Op(src + AtOf(c[j]), dst + AtOf(c[j]), LenOf(c[j]))]
  BY <1>1, <1>2 DEF Performs
<1>7. CASE ~SameAlignment(src, dst)
  <2>1. CASE t[2] = "bytes"
    <3>1. ops = [i \in DOMAIN bytes |-> Op(src + bytes[i], dst + bytes[i], 1)]
      BY <1>2, <1>4, <1>7, <2>1 DEF Memcpy
    <3>2. c = [i \in DOMAIN bytes |-> Piece(bytes[i], 1)]
      BY <1>2, <1>4, <1>7, <2>1 DEF Cuts
    <3>. QED  BY <3>1, <3>2, PieceFields
  <2>2. CASE t[2] # "bytes"
    <3>1. ops = << >> /\ c = << >>
      BY <1>2, <1>7, <2>2 DEF Memcpy, Cuts
    <3>. QED  BY <3>1
  <2>. QED  BY <2>1, <2>2
<1>8. CASE SameAlignment(src, dst)
  <2>1. CASE t[2] = "head" /\ t[1] = 0 /\ t[3] < lead
    <3>1. ops = << Op(src + t[3], dst + t[3], 1) >> /\ c = << Piece(t[3], 1) >>
      BY <1>1, <1>2, <1>8, <2>1 DEF Memcpy, Cuts
    <3>. QED  BY <3>1, PieceFields
  <2>2. CASE t[2] = "body"
    <3>1. ops = [i \in DOMAIN is |-> Op(src + lead + Word * is[i], dst + lead + Word * is[i], Word)]
      BY <1>1, <1>2, <1>4, <1>5, <1>8, <2>2 DEF Memcpy
    <3>2. c = [i \in DOMAIN is |-> Piece(lead + Word * is[i], Word)]
      BY <1>2, <1>4, <1>8, <2>2 DEF Cuts
    <3>3. lead \in Int /\ Word \in Int /\ words \in Nat
      BY <1>1, <1>4, LeadIs
    <3>4. \A i \in DOMAIN is : is[i] \in Int
      <4>1. StridesBy(is, words, PerTile(words, tiles), t[1], t[3])
        BY <1>3, <1>4, <3>3, StridedIs
      <4>. QED  BY <4>1 DEF StridesBy
    <3>5. ASSUME NEW i \in DOMAIN is
          PROVE  Op(src + lead + Word * is[i], dst + lead + Word * is[i], Word) = Op(src + AtOf(c[i]), dst + AtOf(c[i]), LenOf(c[i]))
      <4>1. PICK x \in Int : x = Word * is[i]
        BY <3>3, <3>4
      <4>2. src + lead + x = src + (lead + x) /\ dst + lead + x = dst + (lead + x)
        BY <3>3, <4>1
      <4>3. AtOf(c[i]) = lead + x /\ LenOf(c[i]) = Word
        BY <3>2, <4>1, PieceFields
      <4>. QED  BY <4>1, <4>2, <4>3
    <3>. QED  BY <3>1, <3>2, <3>5
  <2>3. CASE t[2] = "tail" /\ t[1] = 0 /\ rest + t[3] < size
    <3>1. ops = << Op(src + rest + t[3], dst + rest + t[3], 1) >> /\ c = << Piece(rest + t[3], 1) >>
      BY <1>1, <1>2, <1>4, <1>5, <1>8, <2>3 DEF Memcpy, Cuts
    <3>2. rest \in Int /\ t[3] \in Int
      <4>1. lead \in Int /\ Word \in Int /\ words \in Int
        BY <1>1, <1>4, LeadIs
      <4>2. rest = lead + words * Word
        BY <1>4
      <4>3. rest \in Int
        BY ONLY <4>1, <4>2
      <4>. QED  BY ONLY <1>3, <4>3
    <3>3. src + rest + t[3] = src + (rest + t[3]) /\ dst + rest + t[3] = dst + (rest + t[3])
      BY <3>2
    <3>. QED  BY <3>1, <3>3, PieceFields
  <2>4. CASE ~(t[2] = "head" /\ t[1] = 0 /\ t[3] < lead) /\ t[2] # "body" /\ ~(t[2] = "tail" /\ t[1] = 0 /\ rest + t[3] < size)
    <3>1. ops = << >>
      BY <1>1, <1>2, <1>3, <1>4, <1>5, <1>8, <2>4 DEF Memcpy
    <3>2. c = << >>
      BY <1>2, <1>4, <1>8, <2>4 DEF Cuts
    <3>. QED  BY <3>1, <3>2
  <2>. QED  BY <2>1, <2>2, <2>3, <2>4
<1>. QED  BY <1>7, <1>8

\* Byte x lies in the j-th piece of thread t.
Has(c, t, j, x) == t \in Threads /\ j \in DOMAIN c[t] /\ AtOf(c[t][j]) <= x /\ x < AtOf(c[t][j]) + LenOf(c[t][j])

\* The pieces c[t] are in order, cover the bytes below size and do not overlap.
Splits(c, size) ==
  /\ \A t \in Threads :
       /\ \E len \in Nat : DOMAIN c[t] = 1 .. len
       /\ \A j \in DOMAIN c[t] : AtOf(c[t][j]) \in Nat /\ LenOf(c[t][j]) \in Nat \ {0} /\ AtOf(c[t][j]) + LenOf(c[t][j]) <= size
  /\ \A x \in 0 .. size - 1 : \E t \in Threads : \E j \in DOMAIN c[t] : Has(c, t, j, x)
  /\ \A x \in 0 .. size - 1, t, u \in Threads : \A j \in DOMAIN c[t], k \in DOMAIN c[u] :
       Has(c, t, j, x) /\ Has(c, u, k, x) => t = u /\ j = k

\* Threads are distinct by tile, vector and lane.
LEMMA ThreadIs ==
  ASSUME NEW tile \in 0 .. Tiles - 1, NEW v \in {"head", "body", "tail", "bytes", "rows"}, NEW lane \in Nat,
         lane < Word \/ lane < Lanes
  PROVE  <<tile, v, lane>> \in Threads
<1>1. Word \in Nat \ {0} /\ Lanes \in Nat \ {0}
  BY SizesAssumption
<1>2. Max({Word, Lanes}) = IF Word >= Lanes THEN Word ELSE Lanes
  BY <1>1, MaxOf
<1>. QED  BY <1>1, <1>2 DEF Threads, LaneSet

\* A thread is its tile, vector and lane.
LEMMA ThreadParts ==
  ASSUME NEW t \in Threads
  PROVE  /\ t[1] \in 0 .. Tiles - 1 /\ t[2] \in {"head", "body", "tail", "bytes", "rows"} /\ t[3] \in Nat
         /\ t = <<t[1], t[2], t[3]>>
BY DEF Threads, LaneSet

\* Two strided sequences with an element in common are one.
LEMMA StridedOnce ==
  ASSUME NEW total \in Nat, NEW tiles \in Nat \ {0}, NEW a \in Nat, NEW b \in Nat, NEW l \in Nat, NEW h \in Nat,
         NEW i \in DOMAIN Strided(total, tiles, a, l), NEW k \in DOMAIN Strided(total, tiles, b, h),
         Strided(total, tiles, a, l)[i] = Strided(total, tiles, b, h)[k]
  PROVE  a = b /\ l = h /\ i = k
<1>1. PICK per : per = PerTile(total, tiles)
  OBVIOUS
<1>2. PICK s, r : s = Strided(total, tiles, a, l) /\ r = Strided(total, tiles, b, h)
  OBVIOUS
<1>3. StridesBy(s, total, per, a, l) /\ StridesBy(r, total, per, b, h)
  BY <1>1, <1>2, StridedIs
<1>4. /\ s[i] \in 0 .. total - 1 /\ l \in 0 .. Lanes - 1 /\ i - 1 \in Nat
      /\ s[i] = a * per + (l + (i - 1) * Lanes) /\ l + (i - 1) * Lanes < per
  BY <1>2, <1>3 DEF StridesBy
<1>5. /\ r[k] \in 0 .. total - 1 /\ h \in 0 .. Lanes - 1 /\ k - 1 \in Nat
      /\ r[k] = b * per + (h + (k - 1) * Lanes) /\ h + (k - 1) * Lanes < per
  BY <1>2, <1>3 DEF StridesBy
<1>6. per \in Nat \ {0}
  <2>1. total # 0
    BY <1>4
  <2>. QED  BY <1>1, <2>1, PerTileIs
<1>7. s[i] = r[k]
  BY <1>2
<1>8. PICK x \in Nat, y \in Nat : x = i - 1 /\ y = k - 1
  BY <1>4, <1>5
<1>9. a = b /\ l = h /\ x = y
  <2>1. l + x * Lanes < per /\ h + y * Lanes < per /\ a * per + (l + x * Lanes) = b * per + (h + y * Lanes)
    BY <1>4, <1>5, <1>7, <1>8
  <2>. QED  BY <1>4, <1>5, <1>6, <2>1, OneSlot
<1>10. i \in Int /\ k \in Int
  BY <1>2, <1>3 DEF StridesBy
<1>. QED  BY <1>8, <1>9, <1>10

\* The i-th index of thread t is y.
Handles(total, tiles, t, i, y) ==
  i \in DOMAIN Strided(total, tiles, t[1], t[3]) /\ Strided(total, tiles, t[1], t[3])[i] = y

\* Every index is handled, and once.
LEMMA Handled ==
  \A total \in Nat, tiles \in 1 .. Tiles, v \in {"head", "body", "tail", "bytes", "rows"} :
     \A y \in 0 .. total - 1 : \E t \in Threads : t[2] = v /\ \E i : Handles(total, tiles, t, i, y)
<1>. SUFFICES ASSUME NEW total \in Nat, NEW tiles \in 1 .. Tiles, NEW v \in {"head", "body", "tail", "bytes", "rows"},
                     NEW y \in 0 .. total - 1
              PROVE  \E t \in Threads : t[2] = v /\ \E i : Handles(total, tiles, t, i, y)
  OBVIOUS
<1>1. Tiles \in Nat \ {0} /\ Lanes \in Nat \ {0}
  BY SizesAssumption
<1>2. tiles \in Nat \ {0}
  BY <1>1
<1>3. PICK tile \in 0 .. tiles - 1, lane \in 0 .. Lanes - 1 :
         \E i \in DOMAIN Strided(total, tiles, tile, lane) : Strided(total, tiles, tile, lane)[i] = y
  BY <1>2, StridedCovers
<1>4. PICK t \in Threads : t = <<tile, v, lane>>
  <2>1. tile \in 0 .. Tiles - 1 /\ lane \in Nat /\ lane < Lanes
    BY <1>1
  <2>. QED  BY <2>1, ThreadIs
<1>5. t[1] = tile /\ t[2] = v /\ t[3] = lane
  BY <1>4
<1>. QED  BY <1>3, <1>5 DEF Handles

LEMMA HandledOnce ==
  \A total \in Nat, tiles \in 1 .. Tiles, t, u \in Threads : \A i, k, y :
     t[2] = u[2] /\ Handles(total, tiles, t, i, y) /\ Handles(total, tiles, u, k, y) => t = u /\ i = k
<1>. SUFFICES ASSUME NEW total \in Nat, NEW tiles \in 1 .. Tiles, NEW t \in Threads, NEW u \in Threads,
                     NEW i, NEW k, NEW y,
                     t[2] = u[2], Handles(total, tiles, t, i, y), Handles(total, tiles, u, k, y)
              PROVE  t = u /\ i = k
  OBVIOUS
<1>1. t = <<t[1], t[2], t[3]>> /\ u = <<u[1], u[2], u[3]>>
  BY ThreadParts
<1>2. PICK a \in Nat, l \in Nat, b \in Nat, h \in Nat : a = t[1] /\ l = t[3] /\ b = u[1] /\ h = u[3]
  BY ThreadParts
<1>3. tiles \in Nat \ {0}
  BY SizesAssumption
<1>4. a = b /\ l = h /\ i = k
  <2>1. /\ i \in DOMAIN Strided(total, tiles, a, l) /\ k \in DOMAIN Strided(total, tiles, b, h)
        /\ Strided(total, tiles, a, l)[i] = Strided(total, tiles, b, h)[k]
    BY <1>2 DEF Handles
  <2>. QED  BY ONLY <1>3, <2>1, StridedOnce, total \in Nat, a \in Nat, b \in Nat, l \in Nat, h \in Nat
<1>. QED  BY <1>1, <1>2, <1>4

\* Byte by byte.
LEMMA BytesSplit ==
  ASSUME NEW lead, NEW size \in Nat, NEW tiles \in Nat \ {0}, tiles <= Tiles,
         NEW c, \A t \in Threads : c[t] = Cuts(FALSE, lead, size, tiles, t)
  PROVE  Splits(c, size)
<1>1. Tiles \in Nat \ {0} /\ Lanes \in Nat \ {0}
  BY SizesAssumption
<1>2. ASSUME NEW t \in Threads
      PROVE  /\ t[2] = "bytes" => c[t] = [i \in DOMAIN Strided(size, tiles, t[1], t[3]) |->
                                            Piece(Strided(size, tiles, t[1], t[3])[i], 1)]
             /\ t[2] # "bytes" => DOMAIN c[t] = 1 .. 0
             /\ StridesBy(Strided(size, tiles, t[1], t[3]), size, PerTile(size, tiles), t[1], t[3])
  <2>1. DOMAIN << >> = 1 .. 0
    OBVIOUS
  <2>2. t[1] \in Nat /\ t[3] \in Nat
    BY ThreadParts
  <2>3. StridesBy(Strided(size, tiles, t[1], t[3]), size, PerTile(size, tiles), t[1], t[3])
    BY <2>2, StridedIs
  <2>. QED  BY <2>1, <2>3 DEF Cuts
<1>3. ASSUME NEW t \in Threads, NEW j \in DOMAIN c[t]
      PROVE  /\ t[2] = "bytes" /\ j \in DOMAIN Strided(size, tiles, t[1], t[3])
             /\ c[t][j] = Piece(Strided(size, tiles, t[1], t[3])[j], 1) /\ AtOf(c[t][j]) \in 0 .. size - 1
  <2>1. t[2] = "bytes"
    <3>1. ASSUME t[2] # "bytes" PROVE FALSE
      <4>1. j \in 1 .. 0
        BY <1>2, <3>1
      <4>. QED  BY <4>1
    <3>. QED  BY <3>1
  <2>2. j \in DOMAIN Strided(size, tiles, t[1], t[3]) /\ c[t][j] = Piece(Strided(size, tiles, t[1], t[3])[j], 1)
    BY <1>2, <2>1
  <2>3. Strided(size, tiles, t[1], t[3])[j] \in 0 .. size - 1
    BY <1>2, <2>2 DEF StridesBy
  <2>. QED  BY <2>1, <2>2, <2>3, PieceFields
<1>4. ASSUME NEW t \in Threads
      PROVE  /\ \E len \in Nat : DOMAIN c[t] = 1 .. len
             /\ \A j \in DOMAIN c[t] : AtOf(c[t][j]) \in Nat /\ LenOf(c[t][j]) \in Nat \ {0} /\ AtOf(c[t][j]) + LenOf(c[t][j]) <= size
  <2>1. \E len \in Nat : DOMAIN c[t] = 1 .. len
    <3>1. CASE t[2] = "bytes"
      BY <1>2, <3>1 DEF StridesBy
    <3>2. CASE t[2] # "bytes"
      <4>1. 0 \in Nat
        OBVIOUS
      <4>. QED  BY <1>2, <3>2, <4>1
    <3>. QED  BY <3>1, <3>2
  <2>2. ASSUME NEW j \in DOMAIN c[t]
        PROVE  AtOf(c[t][j]) \in Nat /\ LenOf(c[t][j]) \in Nat \ {0} /\ AtOf(c[t][j]) + LenOf(c[t][j]) <= size
    <3>1. AtOf(c[t][j]) \in 0 .. size - 1 /\ LenOf(c[t][j]) = 1
      BY <1>3, PieceFields
    <3>. QED  BY <3>1
  <2>. QED  BY <2>1, <2>2
<1>5. ASSUME NEW x \in 0 .. size - 1 PROVE \E t \in Threads : \E j \in DOMAIN c[t] : Has(c, t, j, x)
  <2>1. PICK tile \in 0 .. tiles - 1, lane \in 0 .. Lanes - 1 :
           \E i \in DOMAIN Strided(size, tiles, tile, lane) : Strided(size, tiles, tile, lane)[i] = x
    BY StridedCovers
  <2>2. PICK i \in DOMAIN Strided(size, tiles, tile, lane) : Strided(size, tiles, tile, lane)[i] = x
    BY <2>1
  <2>3. PICK t \in Threads : t = <<tile, "bytes", lane>>
    <3>1. tile \in 0 .. Tiles - 1 /\ lane \in Nat /\ lane < Lanes
      BY <1>1
    <3>. QED  BY <3>1, ThreadIs
  <2>4. t[1] = tile /\ t[2] = "bytes" /\ t[3] = lane
    BY <2>3
  <2>7. PICK s : s = Strided(size, tiles, tile, lane)
    OBVIOUS
  <2>8. c[t] = [z \in DOMAIN s |-> Piece(s[z], 1)]
    BY <1>2, <2>4, <2>7
  <2>5. i \in DOMAIN c[t] /\ AtOf(c[t][i]) = x /\ LenOf(c[t][i]) = 1
    BY <2>2, <2>7, <2>8, PieceFields
  <2>6. Has(c, t, i, x)
    BY <2>5 DEF Has
  <2>. QED  BY <2>5, <2>6
<1>6. ASSUME NEW x \in 0 .. size - 1, NEW t \in Threads, NEW u \in Threads, NEW j \in DOMAIN c[t], NEW k \in DOMAIN c[u],
             Has(c, t, j, x), Has(c, u, k, x)
      PROVE  t = u /\ j = k
  <2>1. AtOf(c[t][j]) = x /\ AtOf(c[u][k]) = x
    <3>1. LenOf(c[t][j]) = 1 /\ LenOf(c[u][k]) = 1 /\ AtOf(c[t][j]) \in Int /\ AtOf(c[u][k]) \in Int
      BY <1>3, PieceFields
    <3>. QED  BY <1>6, <3>1 DEF Has
  <2>2. t[1] \in Nat /\ t[3] \in Nat /\ u[1] \in Nat /\ u[3] \in Nat
    BY ThreadParts
  <2>3. /\ j \in DOMAIN Strided(size, tiles, t[1], t[3]) /\ k \in DOMAIN Strided(size, tiles, u[1], u[3])
        /\ Strided(size, tiles, t[1], t[3])[j] = x /\ Strided(size, tiles, u[1], u[3])[k] = x
    BY <1>3, <2>1, PieceFields
  <2>4. t[1] = u[1] /\ t[3] = u[3] /\ j = k
    <3>1. PICK a \in Nat, l \in Nat, b \in Nat, h \in Nat : a = t[1] /\ l = t[3] /\ b = u[1] /\ h = u[3]
      BY <2>2
    <3>2. /\ j \in DOMAIN Strided(size, tiles, a, l) /\ k \in DOMAIN Strided(size, tiles, b, h)
          /\ Strided(size, tiles, a, l)[j] = Strided(size, tiles, b, h)[k]
      BY <2>3, <3>1
    <3>3. a = b /\ l = h /\ j = k
      BY ONLY <3>2, StridedOnce, tiles \in Nat \ {0}, size \in Nat, a \in Nat, b \in Nat, l \in Nat, h \in Nat
    <3>. QED  BY <3>1, <3>3
  <2>5. t[2] = u[2]
    BY <1>3
  <2>6. t = <<t[1], t[2], t[3]>> /\ u = <<u[1], u[2], u[3]>>
    BY ThreadParts
  <2>7. t = u
    BY <2>4, <2>5, <2>6
  <2>. QED  BY <2>4, <2>7
<1>. QED  BY <1>4, <1>5, <1>6 DEF Splits

\* Head, words and tail.
LEMMA WordsSplit ==
  ASSUME NEW lead \in Nat, NEW size \in Nat, lead < Word, lead <= size, NEW tiles \in Nat \ {0}, tiles <= Tiles,
         NEW c, \A t \in Threads : c[t] = Cuts(TRUE, lead, size, tiles, t)
  PROVE  Splits(c, size)
<1>. DEFINE Lane(words, t) == Strided(words, tiles, t[1], t[3])
            InHead(t, j) == t[1] = 0 /\ t[2] = "head" /\ t[3] < lead /\ j = 1 /\ c[t][j] = Piece(t[3], 1)
            InBody(words, t, j) == /\ t[2] = "body" /\ j \in DOMAIN Lane(words, t)
                                   /\ c[t][j] = Piece(lead + Word * Lane(words, t)[j], Word)
            InTail(rest, t, j) == t[1] = 0 /\ t[2] = "tail" /\ rest + t[3] < size /\ j = 1 /\ c[t][j] = Piece(rest + t[3], 1)
<1>1. Tiles \in Nat \ {0} /\ Lanes \in Nat \ {0} /\ Word \in Nat \ {0}
  BY SizesAssumption
<1>2. PICK words \in Nat, over \in 0 .. Word - 1 : size - lead = words * Word + over /\ words = (size - lead) \div Word
  <2>1. size - lead \in Nat
    OBVIOUS
  <2>2. PICK words \in Nat, over \in 0 .. Word - 1 : size - lead = words * Word + over
    BY <1>1, <2>1, Divided
  <2>3. (words * Word + over) \div Word = words
    BY <1>1, DivOf
  <2>. QED  BY <2>2, <2>3
<1>3. PICK rest \in Nat : rest = lead + words * Word /\ size = rest + over
  BY <1>1, <1>2
<1>14. tiles \in 1 .. Tiles
  BY <1>1
<1>4. ASSUME NEW t \in Threads
      PROVE  c[t] = IF t[2] = "head" /\ t[1] = 0 /\ t[3] < lead THEN << Piece(t[3], 1) >>
                    ELSE IF t[2] = "body" THEN [i \in DOMAIN Lane(words, t) |-> Piece(lead + Word * Lane(words, t)[i], Word)]
                    ELSE IF t[2] = "tail" /\ t[1] = 0 /\ rest + t[3] < size THEN << Piece(rest + t[3], 1) >>
                    ELSE << >>
  BY <1>2, <1>3 DEF Cuts
<1>5. ASSUME NEW t \in Threads
      PROVE  StridesBy(Lane(words, t), words, PerTile(words, tiles), t[1], t[3])
  <2>1. t[1] \in Nat /\ t[3] \in Nat
    BY ThreadParts
  <2>. QED  BY <2>1, StridedIs
<1>6. ASSUME NEW t \in Threads
      PROVE  /\ \E len \in Nat : DOMAIN c[t] = 1 .. len
             /\ \A j \in DOMAIN c[t] : InHead(t, j) \/ InBody(words, t, j) \/ InTail(rest, t, j)
  <2>. DEFINE s == Lane(words, t)
  <2>0. \E len \in Nat : DOMAIN s = 1 .. len
    BY <1>5 DEF StridesBy
  <2>. HIDE DEF Lane, s
  <2>1. CASE t[2] = "head" /\ t[1] = 0 /\ t[3] < lead
    <3>1. c[t] = << Piece(t[3], 1) >> /\ 1 \in Nat
      BY <1>4, <2>1
    <3>2. DOMAIN c[t] = 1 .. 1 /\ \A j \in DOMAIN c[t] : j = 1 /\ c[t][j] = Piece(t[3], 1)
      BY <3>1
    <3>. QED  BY <2>1, <3>1, <3>2
  <2>2. CASE t[2] = "body"
    <3>1. c[t] = [i \in DOMAIN s |-> Piece(lead + Word * s[i], Word)]
      BY <1>4, <2>2 DEF s
    <3>. QED  BY <2>0, <2>2, <3>1 DEF s
  <2>3. CASE t[2] = "tail" /\ t[1] = 0 /\ rest + t[3] < size
    <3>1. c[t] = << Piece(rest + t[3], 1) >> /\ 1 \in Nat
      BY <1>4, <2>3
    <3>2. DOMAIN c[t] = 1 .. 1 /\ \A j \in DOMAIN c[t] : j = 1 /\ c[t][j] = Piece(rest + t[3], 1)
      BY <3>1
    <3>. QED  BY <2>3, <3>1, <3>2
  <2>4. CASE /\ ~(t[2] = "head" /\ t[1] = 0 /\ t[3] < lead) /\ t[2] # "body"
             /\ ~(t[2] = "tail" /\ t[1] = 0 /\ rest + t[3] < size)
    <3>1. c[t] = << >>
      BY <1>4, <2>4
    <3>2. DOMAIN << >> = 1 .. 0 /\ 0 \in Nat /\ 1 .. 0 = {}
      OBVIOUS
    <3>. QED  BY <3>1, <3>2
  <2>. QED  BY <2>1, <2>2, <2>3, <2>4
<1>7. ASSUME NEW t \in Threads, NEW j \in DOMAIN c[t], InBody(words, t, j)
      PROVE  \E y \in 0 .. words - 1 : Lane(words, t)[j] = y /\ AtOf(c[t][j]) = lead + y * Word /\ LenOf(c[t][j]) = Word
  <2>1. PICK s : s = Lane(words, t)
    OBVIOUS
  <2>2. j \in DOMAIN s /\ c[t][j] = Piece(lead + Word * s[j], Word)
    BY <1>7, <2>1
  <2>3. PICK y \in 0 .. words - 1 : y = s[j]
    BY <1>5, <2>1, <2>2 DEF StridesBy
  <2>4. Word * y = y * Word
    BY <1>1, <1>2
  <2>. QED  BY <2>1, <2>2, <2>3, <2>4, PieceFields
<1>8. ASSUME NEW y \in 0 .. words - 1
      PROVE  y * Word \in Nat /\ y * Word + Word <= words * Word /\ words * Word = rest - lead
  <2>1. y + 1 \in Int /\ words \in Int /\ y + 1 <= words
    BY <1>2
  <2>2. (y + 1) * Word <= words * Word
    BY <1>1, <2>1, Monotone
  <2>3. (y + 1) * Word = y * Word + Word /\ y * Word \in Nat /\ words * Word \in Nat
    BY <1>1, <1>2
  <2>. QED  BY <1>3, <2>2, <2>3
<1>9. ASSUME NEW t \in Threads, NEW j \in DOMAIN c[t]
      PROVE  \/ /\ InHead(t, j) /\ AtOf(c[t][j]) = t[3] /\ t[3] \in 0 .. lead - 1 /\ LenOf(c[t][j]) = 1
             \/ /\ InBody(words, t, j) /\ AtOf(c[t][j]) \in lead .. rest - Word /\ LenOf(c[t][j]) = Word
             \/ /\ InTail(rest, t, j) /\ AtOf(c[t][j]) = rest + t[3] /\ AtOf(c[t][j]) \in rest .. size - 1 /\ LenOf(c[t][j]) = 1
  <2>1. t[3] \in Nat
    BY ThreadParts
  <2>2. CASE InHead(t, j)
    BY <2>1, <2>2, PieceFields
  <2>3. CASE InBody(words, t, j)
    <3>1. PICK y \in 0 .. words - 1 : AtOf(c[t][j]) = lead + y * Word /\ LenOf(c[t][j]) = Word
      BY <1>7, <2>3
    <3>2. AtOf(c[t][j]) \in lead .. rest - Word
      BY ONLY <1>1, <1>3, <1>8, <3>1, lead \in Nat
    <3>. QED  BY <2>3, <3>1, <3>2
  <2>4. CASE InTail(rest, t, j)
    <3>1. t[3] \in Nat /\ rest + t[3] < size /\ c[t][j] = Piece(rest + t[3], 1)
      BY <2>1, <2>4
    <3>2. AtOf(c[t][j]) = rest + t[3] /\ LenOf(c[t][j]) = 1
      BY <3>1, PieceFields
    <3>3. rest + t[3] \in rest .. size - 1
      BY <1>3, <3>1
    <3>. QED  BY <2>4, <3>2, <3>3
  <2>. QED  BY <1>6, <2>2, <2>3, <2>4
<1>10. lead <= rest /\ rest <= size /\ size \in Nat
  <2>1. words * Word \in Nat
    BY <1>1, <1>2
  <2>. QED  BY <1>3, <2>1
<1>11. ASSUME NEW t \in Threads
       PROVE  /\ \E len \in Nat : DOMAIN c[t] = 1 .. len
              /\ \A j \in DOMAIN c[t] : AtOf(c[t][j]) \in Nat /\ LenOf(c[t][j]) \in Nat \ {0} /\ AtOf(c[t][j]) + LenOf(c[t][j]) <= size
  <2>. HIDE DEF InHead, InBody, InTail
  <2>. QED  BY <1>1, <1>3, <1>6, <1>9, <1>10
<1>12. ASSUME NEW x \in 0 .. size - 1 PROVE \E t \in Threads : \E j \in DOMAIN c[t] : Has(c, t, j, x)
  <2>0. 0 \in 0 .. Tiles - 1
    BY <1>1
  <2>1. CASE x < lead
    <3>1. PICK t \in Threads : t = <<0, "head", x>>
      <4>1. x \in Nat /\ x < Word
        BY <1>1, <2>1
      <4>. QED  BY <2>0, <4>1, ThreadIs
    <3>2. t[1] = 0 /\ t[2] = "head" /\ t[3] = x
      BY <3>1
    <3>3. c[t] = << Piece(x, 1) >>
      BY <1>4, <2>1, <3>2
    <3>4. 1 \in DOMAIN c[t] /\ AtOf(c[t][1]) = x /\ LenOf(c[t][1]) = 1
      BY <3>3, PieceFields
    <3>5. Has(c, t, 1, x)
      BY <3>4 DEF Has
    <3>. QED  BY <3>4, <3>5
  <2>2. CASE lead <= x /\ x < rest
    <3>1. PICK y \in Nat, r \in 0 .. Word - 1 : x - lead = y * Word + r
      <4>1. x - lead \in Nat
        BY <2>2
      <4>. QED  BY <1>1, <4>1, Divided
    <3>2. y < words
      <4>1. CASE words <= y
        <5>1. words * Word <= y * Word
          BY <1>1, <4>1, Monotone
        <5>2. words * Word \in Nat /\ y * Word \in Nat
          BY <1>1
        <5>. QED  BY <1>1, <1>3, <2>2, <3>1, <5>1, <5>2
      <4>. QED  BY <4>1
    <3>3. y \in 0 .. words - 1
      BY <3>2
    <3>4. PICK t \in Threads : t[2] = "body" /\ \E i : Handles(words, tiles, t, i, y)
      <4>1. \E t \in Threads : t[2] = "body" /\ \E i : Handles(words, tiles, t, i, y)
        BY <1>14, <3>3, Handled
      <4>. QED  BY <4>1
    <3>5. PICK i : Handles(words, tiles, t, i, y)
      BY <3>4
    <3>6. PICK s : s = Strided(words, tiles, t[1], t[3])
      OBVIOUS
    <3>7. i \in DOMAIN s /\ s[i] = y
      BY <3>5, <3>6 DEF Handles
    <3>8. c[t] = [z \in DOMAIN s |-> Piece(lead + Word * s[z], Word)]
      BY <1>4, <3>4, <3>6
    <3>9. i \in DOMAIN c[t] /\ AtOf(c[t][i]) = lead + Word * y /\ LenOf(c[t][i]) = Word
      BY <3>7, <3>8, PieceFields
    <3>10. lead + Word * y <= x /\ x < lead + Word * y + Word
      <4>1. Word * y = y * Word /\ y * Word \in Nat
        BY <1>1
      <4>. QED  BY <1>1, <3>1, <4>1
    <3>11. Has(c, t, i, x)
      BY <3>9, <3>10 DEF Has
    <3>. QED  BY <3>9, <3>11
  <2>3. CASE rest <= x
    <3>1. PICK z \in 0 .. Word - 1 : x = rest + z /\ z < Word
      <4>1. x - rest \in 0 .. Word - 1 /\ x = rest + (x - rest)
        BY <1>1, <1>2, <1>3, <2>3
      <4>. QED  BY <1>1, <4>1
    <3>2. PICK t \in Threads : t = <<0, "tail", z>>
      <4>1. z \in Nat /\ z < Word
        BY <1>1, <3>1
      <4>. QED  BY <2>0, <4>1, ThreadIs
    <3>3. t[1] = 0 /\ t[2] = "tail" /\ t[3] = z /\ t[2] # "head" /\ t[2] # "body"
      BY <3>2
    <3>4. rest + z < size
      BY <1>3, <3>1
    <3>5. c[t] = << Piece(x, 1) >>
      BY <1>4, <3>1, <3>3, <3>4
    <3>6. 1 \in DOMAIN c[t] /\ AtOf(c[t][1]) = x /\ LenOf(c[t][1]) = 1
      BY <3>5, PieceFields
    <3>7. Has(c, t, 1, x)
      BY <3>6 DEF Has
    <3>. QED  BY <3>6, <3>7
  <2>. QED  BY <1>3, <2>1, <2>2, <2>3
<1>13. ASSUME NEW x \in 0 .. size - 1, NEW t \in Threads, NEW u \in Threads, NEW j \in DOMAIN c[t], NEW k \in DOMAIN c[u],
              Has(c, t, j, x), Has(c, u, k, x)
       PROVE  t = u /\ j = k
  <2>1. /\ AtOf(c[t][j]) <= x /\ x < AtOf(c[t][j]) + LenOf(c[t][j])
        /\ AtOf(c[u][k]) <= x /\ x < AtOf(c[u][k]) + LenOf(c[u][k])
    BY <1>13 DEF Has
  <2>2. t = <<t[1], t[2], t[3]>> /\ u = <<u[1], u[2], u[3]>>
    BY ThreadParts
  <2>3. /\ \/ InHead(t, j) /\ t[3] = x /\ x < lead
           \/ InBody(words, t, j) /\ lead <= x /\ x < rest
           \/ InTail(rest, t, j) /\ rest + t[3] = x /\ rest <= x /\ t[3] \in Nat
        /\ \/ InHead(u, k) /\ u[3] = x /\ x < lead
           \/ InBody(words, u, k) /\ lead <= x /\ x < rest
           \/ InTail(rest, u, k) /\ rest + u[3] = x /\ rest <= x /\ u[3] \in Nat
    <3>1. t[3] \in Nat /\ u[3] \in Nat
      BY ThreadParts
    <3>. HIDE DEF InHead, InBody, InTail
    <3>2. \/ InHead(t, j) /\ t[3] = x /\ x < lead
          \/ InBody(words, t, j) /\ lead <= x /\ x < rest
          \/ InTail(rest, t, j) /\ rest + t[3] = x /\ rest <= x /\ t[3] \in Nat
      BY <1>1, <1>3, <1>9, <1>10, <2>1, <3>1
    <3>3. \/ InHead(u, k) /\ u[3] = x /\ x < lead
          \/ InBody(words, u, k) /\ lead <= x /\ x < rest
          \/ InTail(rest, u, k) /\ rest + u[3] = x /\ rest <= x /\ u[3] \in Nat
      BY <1>1, <1>3, <1>9, <1>10, <2>1, <3>1
    <3>. QED  BY <3>2, <3>3
  <2>4. CASE x < lead
    <3>1. InHead(t, j) /\ InHead(u, k) /\ t[3] = x /\ u[3] = x
      BY <1>3, <1>10, <2>3, <2>4
    <3>. QED  BY <2>2, <3>1
  <2>5. CASE rest <= x
    <3>1. InTail(rest, t, j) /\ InTail(rest, u, k) /\ t[3] = u[3]
      BY <1>3, <1>10, <2>3, <2>5
    <3>. QED  BY <2>2, <3>1
  <2>6. CASE lead <= x /\ x < rest
    <3>1. InBody(words, t, j) /\ InBody(words, u, k)
      BY <1>3, <1>10, <2>3, <2>6
    <3>2. PICK y \in 0 .. words - 1 : Lane(words, t)[j] = y /\ AtOf(c[t][j]) = lead + y * Word /\ LenOf(c[t][j]) = Word
      BY <1>7, <3>1
    <3>3. PICK z \in 0 .. words - 1 : Lane(words, u)[k] = z /\ AtOf(c[u][k]) = lead + z * Word /\ LenOf(c[u][k]) = Word
      BY <1>7, <3>1
    <3>4. y = z
      <4>1. PICK r \in 0 .. Word - 1, q \in 0 .. Word - 1 : x - lead = y * Word + r /\ x - lead = z * Word + q
        <5>1. y * Word \in Nat /\ z * Word \in Nat
          BY <1>8
        <5>2. x - lead - y * Word \in 0 .. Word - 1 /\ x - lead - z * Word \in 0 .. Word - 1
          BY ONLY <1>1, <2>1, <3>2, <3>3, <5>1, x \in Int, lead \in Nat
        <5>. QED  BY <5>1, <5>2
      <4>2. (y * Word + r) \div Word = y /\ (z * Word + q) \div Word = z
        BY <1>1, DivOf
      <4>. QED  BY <4>1, <4>2
    <3>5. Handles(words, tiles, t, j, y) /\ Handles(words, tiles, u, k, y) /\ t[2] = u[2]
      BY <3>1, <3>2, <3>3, <3>4 DEF Handles
    <3>. HIDE DEF Lane, InHead, InBody, InTail
    <3>. QED  BY <1>14, <3>5, HandledOnce
  <2>. QED  BY <1>3, <2>4, <2>5, <2>6
<1>. QED  BY <1>11, <1>12, <1>13 DEF Splits

----------------------------------------------------------------------------
(* Sequences put together.                                                 *)

\* In flat the elements of the first len sequences of ss follow each other: the x-th
\* of the i-th is at before[i] + x.
Lays(flat, ss, before, len) ==
  /\ \A i \in 1 .. len, x \in Nat : x \in DOMAIN ss[i] => before[i] + x \in DOMAIN flat /\ flat[before[i] + x] = ss[i][x]
  /\ \A j \in DOMAIN flat : \E i \in 1 .. len : \E x \in DOMAIN ss[i] : j = before[i] + x

LEMMA FlatIs ==
  ASSUME NEW V, NEW len \in Nat, NEW ss \in [1 .. len -> Seq(V)]
  PROVE  /\ FlattenSeq(ss) \in Seq(V)
         /\ \E before \in [1 .. len -> Nat] :
              /\ Lays(FlattenSeq(ss), ss, before, len)
              /\ \A i, m \in 1 .. len, x, y \in Nat :
                   i < m /\ x \in DOMAIN ss[i] /\ y \in DOMAIN ss[m] => before[i] + x < before[m] + y
<1>. DEFINE F == [p \in (1 .. len) \X Seq(V) |-> p[2] \o ss[p[1]]]
<1>1. ASSUME NEW i \in 1 .. len, NEW v \in Seq(V)
      PROVE  F[<<i, v>>] = v \o ss[i] /\ F[<<i, v>>] \in Seq(V)
  <2>1. ss[i] \in Seq(V)
    OBVIOUS
  <2>2. v \o ss[i] \in Seq(V)
    BY <2>1, ConcatProperties
  <2>. QED  BY <2>2
<1>2. PICK k \in [0 .. len -> Seq(V)] : k[0] = << >> /\ \A i \in 1 .. len : k[i] = k[i - 1] \o ss[i]
  <2>1. << >> \in Seq(V) /\ \A i \in 1 .. len, v \in Seq(V) : F[<<i, v>>] \in Seq(V)
    <3>1. << >> \in Seq(V)
      OBVIOUS
    <3>. HIDE DEF F
    <3>. QED  BY <1>1, <3>1
  <2>. HIDE DEF F
  <2>2. PICK k \in [0 .. len -> Seq(V)] : Iterates(k, len, << >>, F)
    BY <2>1, Iteration
  <2>3. \A i \in 1 .. len : i - 1 \in 0 .. len
    OBVIOUS
  <2>. QED  BY <1>1, <2>2, <2>3 DEF Iterates
<1>. HIDE DEF F
<1>3. FlattenSeq(ss) = k[len]
  <2>0. Len(ss) = len
    OBVIOUS
  <2>1. CASE len = 0
    <3>1. ss = << >>
      BY <2>1
    <3>2. FlattenSeq(ss) = ss
      BY <2>0, <2>1 DEF FlattenSeq
    <3>. QED  BY <1>2, <2>1, <3>1, <3>2
  <2>2. CASE len # 0
    <3>1. k[1] = ss[1]
      <4>1. 1 \in 1 .. len /\ 1 - 1 = 0
        BY <2>2
      <4>2. ss[1] \in Seq(V)
        BY <4>1
      <4>3. k[1] = << >> \o ss[1]
        BY <1>2, <4>1
      <4>. QED  BY <4>2, <4>3, ConcatEmptySeq
    <3>2. \A i \in 2 .. len : k[i] = k[i - 1] \o ss[i]
      <4>1. \A i \in 2 .. len : i \in 1 .. len
        OBVIOUS
      <4>. QED  BY <1>2, <4>1
    <3>3. FlattensTo(ss, k, len)
      BY <2>0, <2>2, <3>1, <3>2, Flattening
    <3>. QED  BY <3>3 DEF FlattensTo
  <2>. QED  BY <2>1, <2>2
<1>4. PICK at \in [0 .. len -> Nat] : \A i \in 0 .. len : at[i] = Len(k[i]) /\ DOMAIN k[i] = 1 .. at[i]
  <2>. DEFINE l == [i \in 0 .. len |-> Len(k[i])]
  <2>1. \A i \in 0 .. len : k[i] \in Seq(V) /\ Len(k[i]) \in Nat /\ DOMAIN k[i] = 1 .. Len(k[i])
    OBVIOUS
  <2>2. l \in [0 .. len -> Nat] /\ \A i \in 0 .. len : l[i] = Len(k[i]) /\ DOMAIN k[i] = 1 .. l[i]
    BY <2>1
  <2>. QED  BY <2>2
<1>. DEFINE before == [i \in 1 .. len |-> at[i - 1]]
<1>5. ASSUME NEW i \in 1 .. len
      PROVE  /\ before[i] = at[i - 1] /\ before[i] \in Nat
             /\ \E b \in Nat : DOMAIN ss[i] = 1 .. b /\ at[i] = before[i] + b
             /\ \A y \in 1 .. at[i] : k[i][y] = IF y <= before[i] THEN k[i - 1][y] ELSE ss[i][y - before[i]]
  <2>1. i - 1 \in 0 .. len /\ i \in 0 .. len
    OBVIOUS
  <2>2. PICK b \in Nat : ss[i] \in Seq(V) /\ b = Len(ss[i]) /\ DOMAIN ss[i] = 1 .. b
    <3>1. ss[i] \in Seq(V)
      OBVIOUS
    <3>2. Len(ss[i]) \in Nat /\ DOMAIN ss[i] = 1 .. Len(ss[i])
      BY ONLY <3>1, LenProperties
    <3>. QED  BY ONLY <3>1, <3>2
  <2>3. k[i - 1] \in Seq(V) /\ k[i] = k[i - 1] \o ss[i]
    BY <1>2, <2>1
  <2>4. /\ Len(k[i]) = Len(k[i - 1]) + b
        /\ \A y \in 1 .. Len(k[i - 1]) + b : k[i][y] = IF y <= Len(k[i - 1]) THEN k[i - 1][y] ELSE ss[i][y - Len(k[i - 1])]
    BY <2>2, <2>3, ConcatProperties
  <2>. QED  BY <1>4, <2>1, <2>2, <2>4
<1>. HIDE DEF before
<1>. DEFINE P(m) == m <= len =>
              /\ \A i \in 1 .. m, x \in Nat : x \in DOMAIN ss[i] =>
                    before[i] + x \in 1 .. at[m] /\ k[m][before[i] + x] = ss[i][x]
              /\ \A j \in 1 .. at[m] : \E i \in 1 .. m : \E x \in DOMAIN ss[i] : j = before[i] + x
<1>6. P(0)
  <2>1. 0 \in 0 .. len /\ 1 .. 0 = {} /\ at[0] = 0
    BY <1>2, <1>4
  <2>. QED  BY <2>1
<1>7. ASSUME NEW m \in Nat, P(m) PROVE P(m + 1)
  <2>. SUFFICES ASSUME m + 1 <= len
                PROVE  /\ \A i \in 1 .. m + 1, x \in Nat : x \in DOMAIN ss[i] =>
                             before[i] + x \in 1 .. at[m + 1] /\ k[m + 1][before[i] + x] = ss[i][x]
                       /\ \A j \in 1 .. at[m + 1] : \E i \in 1 .. m + 1 : \E x \in DOMAIN ss[i] : j = before[i] + x
    OBVIOUS
  <2>1. m + 1 \in 1 .. len /\ m \in 0 .. len /\ m + 1 \in 0 .. len /\ (m + 1) - 1 = m
    OBVIOUS
  <2>2. before[m + 1] = at[m]
    BY <1>5, <2>1
  <2>3. PICK b \in Nat : DOMAIN ss[m + 1] = 1 .. b /\ at[m + 1] = at[m] + b
    BY ONLY <1>5, <2>1, <2>2
  <2>4. \A y \in 1 .. at[m + 1] : k[m + 1][y] = IF y <= at[m] THEN k[m][y] ELSE ss[m + 1][y - at[m]]
    <3>1. \A y \in 1 .. at[m + 1] :
            k[m + 1][y] = IF y <= before[m + 1] THEN k[(m + 1) - 1][y] ELSE ss[m + 1][y - before[m + 1]]
      BY ONLY <1>5, <2>1
    <3>2. PICK f, g, r, u : f = k[m + 1] /\ g = k[m] /\ r = ss[m + 1] /\ u = 1 .. at[m + 1]
      OBVIOUS
    <3>3. \A y \in u : f[y] = IF y <= at[m] THEN g[y] ELSE r[y - at[m]]
      BY ONLY <2>1, <2>2, <3>1, <3>2
    <3>. QED  BY ONLY <3>2, <3>3
  <2>5. PICK a \in Nat : a = at[m] /\ at[m + 1] = a + b
    BY <2>1, <2>3
  <2>6. /\ \A i \in 1 .. m, x \in Nat : x \in DOMAIN ss[i] =>
              before[i] + x \in 1 .. at[m] /\ k[m][before[i] + x] = ss[i][x]
        /\ \A j \in 1 .. at[m] : \E i \in 1 .. m : \E x \in DOMAIN ss[i] : j = before[i] + x
    <3>1. m <= len
      OBVIOUS
    <3>. QED  BY <1>7, <3>1
  <2>. HIDE DEF P
  <2>7. ASSUME NEW i \in 1 .. m + 1, NEW x \in Nat, x \in DOMAIN ss[i]
        PROVE  before[i] + x \in 1 .. at[m + 1] /\ k[m + 1][before[i] + x] = ss[i][x]
    <3>1. CASE i \in 1 .. m
      <4>1. PICK y : y = before[i] + x /\ y \in 1 .. at[m] /\ k[m][y] = ss[i][x]
        BY <2>6, <2>7, <3>1
      <4>2. y \in 1 .. at[m + 1] /\ y <= at[m]
        <5>1. y \in 1 .. a
          BY <2>5, <4>1
        <5>. QED  BY <2>5, <5>1
      <4>. QED  BY <2>4, <4>1, <4>2
    <3>2. CASE i = m + 1
      <4>1. x \in 1 .. b /\ before[i] = at[m]
        BY <2>2, <2>3, <2>7, <3>2
      <4>2. PICK y \in 1 .. at[m + 1] : y = at[m] + x /\ ~(y <= at[m]) /\ y - at[m] = x
        <5>1. a + x \in 1 .. a + b /\ ~(a + x <= a) /\ (a + x) - a = x
          BY <4>1
        <5>. QED  BY <2>5, <5>1
      <4>. QED  BY <2>4, <3>2, <4>1, <4>2
    <3>3. i \in 1 .. m \/ i = m + 1
      BY ONLY m \in Nat, i \in 1 .. m + 1
    <3>. QED  BY ONLY <3>1, <3>2, <3>3
  <2>8. ASSUME NEW j \in 1 .. at[m + 1] PROVE \E i \in 1 .. m + 1 : \E x \in DOMAIN ss[i] : j = before[i] + x
    <3>1. CASE j <= at[m]
      <4>0. j \in 1 .. at[m]
        BY <2>5, <3>1
      <4>1. PICK i \in 1 .. m : \E x \in DOMAIN ss[i] : j = before[i] + x
        BY <2>6, <4>0
      <4>2. i \in 1 .. m + 1
        OBVIOUS
      <4>. QED  BY <4>1, <4>2
    <3>2. CASE j > at[m]
      <4>0. j \in 1 .. a + b /\ j > a
        BY <2>5, <3>2
      <4>1. j - at[m] \in 1 .. b /\ j = at[m] + (j - at[m]) /\ m + 1 \in 1 .. m + 1
        <5>1. j - a \in 1 .. b /\ j = a + (j - a) /\ m + 1 \in 1 .. m + 1
          BY <4>0
        <5>. QED  BY <2>5, <5>1
      <4>. QED  BY <2>2, <2>3, <4>1
    <3>3. j \in Int /\ at[m] \in Int
      BY <2>5
    <3>. QED  BY <3>1, <3>2, <3>3
  <2>. QED  BY <2>7, <2>8
<1>8. P(len)
  <2>. DEFINE T == {m \in Nat : P(m)}
  <2>. HIDE DEF P
  <2>1. 0 \in T /\ \A m \in Nat : m \in T => m + 1 \in T
    BY <1>6, <1>7
  <2>. HIDE DEF T
  <2>2. len \in T
    BY <2>1, Counting
  <2>. QED  BY <2>2 DEF T
<1>9. len \in 0 .. len
  OBVIOUS
<1>10. Lays(FlattenSeq(ss), ss, before, len)
  <2>1. DOMAIN k[len] = 1 .. at[len]
    BY <1>4, <1>9
  <2>2. /\ \A i \in 1 .. len, x \in Nat : x \in DOMAIN ss[i] =>
              before[i] + x \in 1 .. at[len] /\ k[len][before[i] + x] = ss[i][x]
        /\ \A j \in 1 .. at[len] : \E i \in 1 .. len : \E x \in DOMAIN ss[i] : j = before[i] + x
    BY <1>8
  <2>. HIDE DEF P
  <2>. QED  BY <1>3, <2>1, <2>2 DEF Lays
<1>. DEFINE R(m) == m <= len => \A i \in 0 .. m : at[i] <= at[m]
<1>11. R(0)
  OBVIOUS
<1>12. ASSUME NEW m \in Nat, R(m) PROVE R(m + 1)
  <2>. SUFFICES ASSUME m + 1 <= len, NEW i \in 0 .. m + 1 PROVE at[i] <= at[m + 1]
    OBVIOUS
  <2>1. m + 1 \in 1 .. len /\ (m + 1) - 1 = m /\ at[m] \in Nat /\ at[m + 1] \in Nat /\ at[i] \in Nat
    OBVIOUS
  <2>2. PICK a \in Nat, b \in Nat : a = at[m] /\ at[m + 1] = a + b
    <3>1. before[m + 1] = at[m] /\ \E b \in Nat : at[m + 1] = before[m + 1] + b
      BY <1>5, <2>1
    <3>. HIDE DEF R
    <3>. QED  BY <2>1, <3>1
  <2>3. i \in 0 .. m => at[i] <= at[m]
    <3>1. m <= len
      OBVIOUS
    <3>. QED  BY <1>12, <3>1
  <2>4. i \in 0 .. m \/ i = m + 1
    OBVIOUS
  <2>5. PICK e \in Nat : e = at[i]
    BY <2>1
  <2>6. i \in 0 .. m => e <= a
    BY <2>2, <2>3, <2>5
  <2>7. CASE i \in 0 .. m
    <3>1. e <= a + b
      BY <2>6, <2>7
    <3>. QED  BY <2>2, <2>5, <3>1
  <2>8. CASE i = m + 1
    <3>1. a + b <= a + b
      OBVIOUS
    <3>. QED  BY <2>2, <2>8, <3>1
  <2>. QED  BY <2>4, <2>7, <2>8
<1>13. \A m \in Nat : R(m)
  <2>. DEFINE T == {m \in Nat : R(m)}
  <2>. HIDE DEF R
  <2>1. 0 \in T /\ \A m \in Nat : m \in T => m + 1 \in T
    BY <1>11, <1>12
  <2>. HIDE DEF T
  <2>2. \A m \in Nat : m \in T
    BY <2>1, Counting
  <2>. QED  BY <2>2 DEF T
<1>14. ASSUME NEW i \in 1 .. len, NEW m \in 1 .. len, NEW x \in Nat, NEW y \in Nat,
              i < m, x \in DOMAIN ss[i], y \in DOMAIN ss[m]
       PROVE  before[i] + x < before[m] + y
  <2>1. i \in 0 .. m - 1 /\ m - 1 \in Nat /\ m - 1 <= len /\ m - 1 \in 0 .. len
    BY <1>14
  <2>2. at[i] <= at[m - 1]
    BY <1>13, <2>1
  <2>3. PICK b \in Nat : DOMAIN ss[i] = 1 .. b /\ at[i] = before[i] + b /\ before[i] \in Nat
    BY <1>5
  <2>4. before[m] = at[m - 1] /\ before[m] \in Nat
    BY <1>5
  <2>5. y >= 1 /\ x <= b
    <3>1. PICK d \in Nat : DOMAIN ss[m] = 1 .. d
      BY <1>5
    <3>. QED  BY <1>14, <2>3, <3>1
  <2>6. PICK e \in Nat, f \in Nat : e = before[i] /\ f = before[m] /\ e + b <= f
    BY <2>2, <2>3, <2>4
  <2>7. x \in Nat /\ y \in Nat /\ e + x < f + y
    <3>1. e + b <= f
      BY <2>6
    <3>. QED  BY ONLY <2>5, <3>1, x \in Nat, y \in Nat, b \in Nat, e \in Nat, f \in Nat
  <2>. QED  BY <2>6, <2>7
<1>15. before \in [1 .. len -> Nat]
  BY <1>5 DEF before
<1>16. FlattenSeq(ss) \in Seq(V)
  BY <1>3, <1>9
<1>. QED  BY <1>10, <1>14, <1>15, <1>16

----------------------------------------------------------------------------
(* What a program moves where.                                             *)

\* The j-th operation of ops takes the byte at a to b.
Moves(ops, j, a, b) ==
  j \in DOMAIN ops /\ \E i \in BytesOf(ops[j]) : a = ops[j].from + i /\ b = ops[j].to + i

\* The threads of P take, each once, the bytes at reads[b] to the addresses b of X.
Carries(P, reads, X) ==
  /\ \A t \in DOMAIN P : P[t] \in Seq(Ops)
  /\ \A t \in DOMAIN P : \A j, a, b : Moves(P[t], j, a, b) => j \in Nat /\ b \in X /\ a = reads[b]
  /\ \A b \in X : \E t \in DOMAIN P : \E j \in Nat : Moves(P[t], j, reads[b], b)
  /\ \A t, u \in DOMAIN P : \A j, k \in Nat : \A b \in X : Moves(P[t], j, reads[b], b) /\ Moves(P[u], k, reads[b], b) => t = u /\ j = k

\* A byte that is written is not read by a later operation or another thread.
OrderKept(P, reads, X, barrier) ==
  \A t, u \in DOMAIN P : \A j, k \in Nat : \A b, d \in X :
     Moves(P[t], j, reads[b], b) /\ Moves(P[u], k, reads[d], d) /\ reads[b] = d => j <= k /\ (t = u \/ barrier)

LEMMA OrderDisciplines ==
  ASSUME NEW P, NEW X, NEW memory, NEW barrier, NEW reads \in [X -> memory], X \subseteq memory,
         Carries(P, reads, X), OrderKept(P, reads, X, barrier)
  PROVE  Disciplined(P, barrier, memory)
<1>1. \A t \in DOMAIN P : P[t] \in Seq(Ops)
  BY DEF Carries
<1>2. ASSUME NEW t \in DOMAIN P, NEW j \in DOMAIN P[t], NEW i \in BytesOf(P[t][j])
      PROVE  \E a, b : /\ a = P[t][j].from + i /\ b = P[t][j].to + i /\ Moves(P[t], j, a, b)
                       /\ b \in X /\ a = reads[b] /\ j \in Nat
  <2>1. Moves(P[t], j, P[t][j].from + i, P[t][j].to + i)
    BY DEF Moves
  <2>2. j \in Nat
    BY <1>1
  <2>. QED  BY <2>1, <2>2 DEF Carries
<1>3. \A t \in DOMAIN P : \A j \in DOMAIN P[t] : \A i \in BytesOf(P[t][j]) :
        P[t][j].from + i \in memory /\ P[t][j].to + i \in memory
  BY <1>2
<1>4. ASSUME NEW t \in DOMAIN P, NEW u \in DOMAIN P, NEW j \in DOMAIN P[t], NEW k \in DOMAIN P[u],
             NEW i \in BytesOf(P[t][j]), NEW h \in BytesOf(P[u][k])
      PROVE  /\ P[t][j].to + i = P[u][k].to + h => t = u /\ j = k
             /\ P[t][j].from + i = P[u][k].to + h => j <= k /\ (t = u \/ barrier)
  <2>1. PICK a, b : /\ a = P[t][j].from + i /\ b = P[t][j].to + i /\ Moves(P[t], j, a, b)
                    /\ b \in X /\ a = reads[b] /\ j \in Nat
    BY <1>2
  <2>2. PICK e, d : /\ e = P[u][k].from + h /\ d = P[u][k].to + h /\ Moves(P[u], k, e, d)
                    /\ d \in X /\ e = reads[d] /\ k \in Nat
    BY <1>2
  <2>3. b = d => t = u /\ j = k
    BY <2>1, <2>2 DEF Carries
  <2>4. a = d => j <= k /\ (t = u \/ barrier)
    <3>1. \A j0, k0 \in Nat : \A b0, d0 \in X :
            Moves(P[t], j0, reads[b0], b0) /\ Moves(P[u], k0, reads[d0], d0) /\ reads[b0] = d0 => j0 <= k0 /\ (t = u \/ barrier)
      BY Zenon DEF OrderKept
    <3>. QED  BY <2>1, <2>2, <3>1, Zenon
  <2>. QED  BY <2>1, <2>2, <2>3, <2>4
<1>. QED  BY <1>1, <1>3, <1>4 DEF Disciplined

\* Nothing that is moved away is overwritten.
LEMMA ApartKeepsOrder ==
  ASSUME NEW P, NEW X, NEW barrier, NEW reads, Carries(P, reads, X), \A b \in X : reads[b] \in X => reads[b] = b
  PROVE  OrderKept(P, reads, X, barrier)
<1>. SUFFICES ASSUME NEW t \in DOMAIN P, NEW u \in DOMAIN P, NEW j \in Nat, NEW k \in Nat, NEW b \in X, NEW d \in X,
                     Moves(P[t], j, reads[b], b), Moves(P[u], k, reads[d], d), reads[b] = d
              PROVE  j <= k /\ (t = u \/ barrier)
  BY DEF OrderKept
<1>1. b = d
  OBVIOUS
<1>2. t = u /\ j = k
  BY <1>1 DEF Carries
<1>. QED  BY <1>2

\* Threads with nothing to do need not be there.
LEMMA Busy ==
  ASSUME NEW P, NEW X, NEW barrier, NEW reads, Carries(P, reads, X), OrderKept(P, reads, X, barrier),
         NEW Q, Q = [t \in {u \in DOMAIN P : P[u] # << >>} |-> P[t]]
  PROVE  Carries(Q, reads, X) /\ OrderKept(Q, reads, X, barrier)
<1>1. DOMAIN Q \subseteq DOMAIN P /\ \A t \in DOMAIN Q : Q[t] = P[t]
  OBVIOUS
<1>2. OrderKept(Q, reads, X, barrier)
  BY <1>1 DEF OrderKept
<1>3. ASSUME NEW b \in X PROVE \E t \in DOMAIN Q : \E j \in Nat : Moves(Q[t], j, reads[b], b)
  <2>1. PICK t \in DOMAIN P, j \in Nat : Moves(P[t], j, reads[b], b)
    BY DEF Carries
  <2>2. P[t] # << >>
    <3>1. ASSUME P[t] = << >> PROVE FALSE
      <4>1. DOMAIN P[t] = {}
        BY <3>1
      <4>. QED  BY <2>1, <4>1 DEF Moves
    <3>. QED  BY <3>1
  <2>3. t \in DOMAIN Q
    BY <2>2
  <2>. QED  BY <1>1, <2>1, <2>3
<1>4. Carries(Q, reads, X)
  <2>1. /\ \A t \in DOMAIN Q : Q[t] \in Seq(Ops)
        /\ \A t \in DOMAIN Q : \A j, a, b : Moves(Q[t], j, a, b) => j \in Nat /\ b \in X /\ a = reads[b]
    BY ONLY <1>1, Carries(P, reads, X) DEF Carries
  <2>2. \A t, u \in DOMAIN Q : \A j, k \in Nat : \A b \in X :
          Moves(Q[t], j, reads[b], b) /\ Moves(Q[u], k, reads[b], b) => t = u /\ j = k
    BY ONLY <1>1, Carries(P, reads, X) DEF Carries
  <2>. QED  BY ONLY <1>3, <2>1, <2>2 DEF Carries
<1>. QED  BY <1>2, <1>4

\* A program in several parts; the x-th operation of the i-th is its before[i] + x-th.
InParts(flat, ss, before, len) ==
  /\ \A i \in 1 .. len, x \in Nat : \A a, b : Moves(ss[i], x, a, b) => Moves(flat, before[i] + x, a, b)
  /\ \A j, a, b : Moves(flat, j, a, b) =>
       \E i \in 1 .. len, x \in Nat : j = before[i] + x /\ Moves(ss[i], x, a, b)
  /\ \A i, m \in 1 .. len, x, y \in Nat :
       i < m /\ x \in DOMAIN ss[i] /\ y \in DOMAIN ss[m] => before[i] + x < before[m] + y

LEMMA FlatMoves ==
  ASSUME NEW len \in Nat, NEW ss \in [1 .. len -> Seq(Ops)]
  PROVE  /\ FlattenSeq(ss) \in Seq(Ops)
         /\ \E before \in [1 .. len -> Nat] : InParts(FlattenSeq(ss), ss, before, len)
<1>1. PICK flat : flat = FlattenSeq(ss)
  OBVIOUS
<1>2. flat \in Seq(Ops)
  BY <1>1, FlatIs
<1>3. PICK before \in [1 .. len -> Nat] :
        /\ Lays(flat, ss, before, len)
        /\ \A i, m \in 1 .. len, x, y \in Nat :
             i < m /\ x \in DOMAIN ss[i] /\ y \in DOMAIN ss[m] => before[i] + x < before[m] + y
  BY <1>1, FlatIs
<1>4. ASSUME NEW i \in 1 .. len, NEW x \in Nat, NEW a, NEW b, Moves(ss[i], x, a, b)
      PROVE  Moves(flat, before[i] + x, a, b)
  BY <1>3, <1>4 DEF Lays, Moves
<1>5. ASSUME NEW j, NEW a, NEW b, Moves(flat, j, a, b)
      PROVE  \E i \in 1 .. len, x \in Nat : j = before[i] + x /\ Moves(ss[i], x, a, b)
  <2>1. j \in DOMAIN flat
    BY <1>5 DEF Moves
  <2>6. PICK i \in 1 .. len : \E x \in DOMAIN ss[i] : j = before[i] + x
    BY <1>3, <2>1 DEF Lays
  <2>2. PICK x \in DOMAIN ss[i] : j = before[i] + x
    BY <2>6
  <2>3. x \in Nat
    <3>1. ss[i] \in Seq(Ops)
      OBVIOUS
    <3>. QED  BY <3>1
  <2>4. flat[j] = ss[i][x]
    BY <1>3, <2>2, <2>3 DEF Lays
  <2>5. Moves(ss[i], x, a, b)
    BY <1>5, <2>2, <2>4 DEF Moves
  <2>. QED  BY <2>2, <2>3, <2>5
<1>6. InParts(flat, ss, before, len)
  <2>1. \A i \in 1 .. len, x \in Nat : \A a, b : Moves(ss[i], x, a, b) => Moves(flat, before[i] + x, a, b)
    BY <1>4
  <2>2. \A j, a, b : Moves(flat, j, a, b) => \E i \in 1 .. len, x \in Nat : j = before[i] + x /\ Moves(ss[i], x, a, b)
    BY <1>5
  <2>. QED  BY <1>3, <2>1, <2>2 DEF InParts
<1>. QED  BY <1>1, <1>2, <1>6

\* One part after another: P has each thread do what it does in Q[1], then in Q[2]
\* and so on; Q[k] carries the bytes X[k], and together they are Y.
Chained(P, Q, len) == P = [t \in Threads |-> FlattenSeq([k \in 1 .. len |-> Q[k][t]])]

Partition(Q, reads, X, len, Y) ==
  /\ \A k \in 1 .. len : DOMAIN Q[k] = Threads /\ Carries(Q[k], reads, X[k])
  /\ \A k, m \in 1 .. len : \A b : b \in X[k] /\ b \in X[m] => k = m
  /\ Y = UNION {X[k] : k \in 1 .. len}

\* Whoever moves a byte of an earlier part does so in an earlier operation.
LEMMA InTurn ==
  ASSUME NEW len \in Nat, NEW Q, NEW reads, NEW X, NEW Y, Partition(Q, reads, X, len, Y), NEW P, Chained(P, Q, len)
  PROVE  /\ Carries(P, reads, Y)
         /\ \A t \in Threads, k \in 1 .. len : \A j, b :
              b \in X[k] /\ Moves(P[t], j, reads[b], b) => \E x \in Nat : Moves(Q[k][t], x, reads[b], b)
         /\ \A t \in Threads, k, m \in 1 .. len : \A j, l, b, d :
              /\ b \in X[k] /\ d \in X[m] /\ k < m
              /\ Moves(P[t], j, reads[b], b) /\ Moves(P[t], l, reads[d], d)
              => j < l
<1>20. /\ \A k \in 1 .. len : DOMAIN Q[k] = Threads /\ Carries(Q[k], reads, X[k])
       /\ \A k, m \in 1 .. len : \A b : b \in X[k] /\ b \in X[m] => k = m
       /\ Y = UNION {X[k] : k \in 1 .. len}
       /\ P = [t \in Threads |-> FlattenSeq([k \in 1 .. len |-> Q[k][t]])]
  BY DEF Partition, Chained
<1>. DEFINE Parts(t) == [k \in 1 .. len |-> Q[k][t]]
<1>1. ASSUME NEW t \in Threads
      PROVE  Parts(t) \in [1 .. len -> Seq(Ops)] /\ P[t] = FlattenSeq(Parts(t)) /\ \A k \in 1 .. len : Parts(t)[k] = Q[k][t]
  BY <1>20 DEF Carries
<1>. HIDE DEF Parts
<1>2. ASSUME NEW t \in Threads
      PROVE  P[t] \in Seq(Ops) /\ \E before \in [1 .. len -> Nat] : InParts(P[t], Parts(t), before, len)
  <2>1. Parts(t) \in [1 .. len -> Seq(Ops)] /\ P[t] = FlattenSeq(Parts(t))
    BY <1>1
  <2>. QED  BY <2>1, FlatMoves
<1>11. ASSUME NEW t \in Threads, NEW before \in [1 .. len -> Nat], InParts(P[t], Parts(t), before, len)
       PROVE  /\ \A i \in 1 .. len, x \in Nat : \A a, b : Moves(Q[i][t], x, a, b) => Moves(P[t], before[i] + x, a, b)
              /\ \A j, a, b : Moves(P[t], j, a, b) =>
                   \E i \in 1 .. len, x \in Nat : j = before[i] + x /\ Moves(Q[i][t], x, a, b)
              /\ \A i, m \in 1 .. len, x, y \in Nat :
                   i < m /\ x \in DOMAIN Q[i][t] /\ y \in DOMAIN Q[m][t] => before[i] + x < before[m] + y
  <2>1. PICK ss : ss = Parts(t) /\ \A i \in 1 .. len : ss[i] = Q[i][t]
    BY <1>1
  <2>2. InParts(P[t], ss, before, len)
    BY <1>11, <2>1
  <2>3. \A i \in 1 .. len, x \in Nat : \A a, b : Moves(ss[i], x, a, b) => Moves(P[t], before[i] + x, a, b)
    BY <2>2 DEF InParts
  <2>4. \A j, a, b : Moves(P[t], j, a, b) => \E i \in 1 .. len, x \in Nat : j = before[i] + x /\ Moves(ss[i], x, a, b)
    BY <2>2 DEF InParts
  <2>5. \A i, m \in 1 .. len, x, y \in Nat :
          i < m /\ x \in DOMAIN ss[i] /\ y \in DOMAIN ss[m] => before[i] + x < before[m] + y
    BY <2>2 DEF InParts
  <2>. QED  BY <2>1, <2>3, <2>4, <2>5
<1>0. ASSUME NEW k \in 1 .. len
      PROVE  /\ \A t \in Threads : \A j, a, b : Moves(Q[k][t], j, a, b) => j \in Nat /\ b \in X[k] /\ a = reads[b]
             /\ \A t, u \in Threads : \A j, h \in Nat : \A b \in X[k] :
                  Moves(Q[k][t], j, reads[b], b) /\ Moves(Q[k][u], h, reads[b], b) => t = u /\ j = h
  <2>1. PICK q, y : q = Q[k] /\ y = X[k]
    OBVIOUS
  <2>2. Carries(q, reads, y) /\ DOMAIN q = Threads
    BY <1>20, <2>1
  <2>3. \A t \in Threads : \A j, a, b : Moves(q[t], j, a, b) => j \in Nat /\ b \in y /\ a = reads[b]
    BY <2>2 DEF Carries
  <2>4. \A t, u \in Threads : \A j, h \in Nat : \A b \in y :
          Moves(q[t], j, reads[b], b) /\ Moves(q[u], h, reads[b], b) => t = u /\ j = h
    BY <2>2 DEF Carries
  <2>. QED  BY <2>1, <2>3, <2>4
<1>3. ASSUME NEW k \in 1 .. len, NEW t \in Threads, NEW j, NEW a, NEW b, Moves(Q[k][t], j, a, b)
      PROVE  b \in X[k] /\ a = reads[b]
  <2>1. \A h, c, d : Moves(Q[k][t], h, c, d) => h \in Nat /\ d \in X[k] /\ c = reads[d]
    BY <1>0
  <2>. QED  BY <1>3, <2>1
<1>4. ASSUME NEW t \in Threads, NEW k \in 1 .. len, NEW j, NEW a, NEW b,
             b \in X[k], Moves(P[t], j, a, b)
      PROVE  \E x \in Nat : Moves(Q[k][t], x, a, b)
  <2>3. PICK before \in [1 .. len -> Nat] : InParts(P[t], Parts(t), before, len)
    BY <1>2
  <2>1. PICK i \in 1 .. len, x \in Nat : Moves(Q[i][t], x, a, b)
    BY <1>4, <1>11, <2>3
  <2>2. i = k
    BY <1>3, <1>4, <1>20, <2>1
  <2>. QED  BY <2>1, <2>2
<1>5. ASSUME NEW t \in Threads, NEW j, NEW a, NEW b, Moves(P[t], j, a, b)
      PROVE  j \in Nat /\ a = reads[b] /\ \E k \in 1 .. len : b \in X[k]
  <2>3. PICK before \in [1 .. len -> Nat] : InParts(P[t], Parts(t), before, len)
    BY <1>2
  <2>1. PICK i \in 1 .. len, x \in Nat : Moves(Q[i][t], x, a, b)
    BY <1>5, <1>11, <2>3
  <2>2. j \in Nat
    <3>1. P[t] \in Seq(Ops) /\ j \in DOMAIN P[t]
      BY <1>2, <1>5 DEF Moves
    <3>. QED  BY <3>1
  <2>4. b \in X[i] /\ a = reads[b]
    <3>1. \A h, c, d : Moves(Q[i][t], h, c, d) => h \in Nat /\ d \in X[i] /\ c = reads[d]
      BY <1>0
    <3>. QED  BY <2>1, <3>1
  <2>. QED  BY <2>2, <2>4
<1>6. ASSUME NEW k \in 1 .. len, NEW b \in X[k] PROVE \E t \in Threads : \E j \in Nat : Moves(P[t], j, reads[b], b)
  <2>1. PICK t \in Threads, x \in Nat : Moves(Q[k][t], x, reads[b], b)
    BY <1>20 DEF Carries
  <2>2. PICK before \in [1 .. len -> Nat] : InParts(P[t], Parts(t), before, len)
    BY <1>2
  <2>3. before[k] + x \in Nat
    OBVIOUS
  <2>4. Moves(P[t], before[k] + x, reads[b], b)
    BY <1>11, <2>1, <2>2
  <2>. QED  BY <2>3, <2>4
<1>7. ASSUME NEW t \in Threads, NEW u \in Threads, NEW j, NEW l, NEW b,
             Moves(P[t], j, reads[b], b), Moves(P[u], l, reads[b], b)
      PROVE  t = u /\ j = l
  <2>8. PICK before \in [1 .. len -> Nat] : InParts(P[t], Parts(t), before, len)
    BY <1>2
  <2>1. \A h, a, d : Moves(P[t], h, a, d) =>
          \E i \in 1 .. len, x \in Nat : h = before[i] + x /\ Moves(Q[i][t], x, a, d)
    BY <1>11, <2>8
  <2>2. PICK i \in 1 .. len, x \in Nat : j = before[i] + x /\ Moves(Q[i][t], x, reads[b], b)
    BY <1>7, <2>1
  <2>3. PICK y \in Nat : Moves(Q[i][u], y, reads[b], b)
    <3>1. b \in X[i]
      BY <1>3, <2>2
    <3>. QED  BY <1>4, <1>7, <3>1
  <2>4. t = u /\ x = y
    <3>1. b \in X[i]
      BY <1>3, <2>2
    <3>. QED  BY <1>0, <2>2, <2>3, <3>1
  <2>5. PICK m \in 1 .. len, z \in Nat : l = before[m] + z /\ Moves(Q[m][t], z, reads[b], b)
    BY <1>7, <2>1, <2>4
  <2>6. m = i
    BY <1>3, <1>20, <2>2, <2>5
  <2>7. x = z
    <3>1. b \in X[i]
      BY <1>3, <2>2
    <3>. QED  BY <1>0, <2>2, <2>5, <2>6, <3>1
  <2>. QED  BY <2>2, <2>4, <2>5, <2>6, <2>7
<1>8. DOMAIN P = Threads
  BY <1>20
<1>9. Carries(P, reads, UNION {X[k] : k \in 1 .. len})
  <2>1. \A t \in DOMAIN P : \A j, a, b : Moves(P[t], j, a, b) => j \in Nat /\ b \in UNION {X[k] : k \in 1 .. len} /\ a = reads[b]
    BY <1>5, <1>8
  <2>2. \A b \in UNION {X[k] : k \in 1 .. len} : \E t \in DOMAIN P : \E j \in Nat : Moves(P[t], j, reads[b], b)
    BY <1>6, <1>8
  <2>3. \A t \in DOMAIN P : P[t] \in Seq(Ops)
    BY <1>2, <1>8
  <2>4. \A t, u \in DOMAIN P : \A j, k \in Nat : \A b \in UNION {X[m] : m \in 1 .. len} :
          Moves(P[t], j, reads[b], b) /\ Moves(P[u], k, reads[b], b) => t = u /\ j = k
    <3>. SUFFICES ASSUME NEW t \in Threads, NEW u \in Threads, NEW j \in Nat, NEW k \in Nat, NEW b,
                         Moves(P[t], j, reads[b], b), Moves(P[u], k, reads[b], b)
                  PROVE  t = u /\ j = k
      BY <1>8
    <3>. QED  BY <1>7
  <2>. QED  BY <2>1, <2>2, <2>3, <2>4 DEF Carries
<1>10. ASSUME NEW t \in Threads, NEW k \in 1 .. len, NEW m \in 1 .. len, NEW j, NEW l, NEW b, NEW d,
              b \in X[k], d \in X[m], k < m, Moves(P[t], j, reads[b], b), Moves(P[t], l, reads[d], d)
       PROVE  j < l
  <2>8. PICK before \in [1 .. len -> Nat] : InParts(P[t], Parts(t), before, len)
    BY <1>2
  <2>1. /\ \A h, a, e : Moves(P[t], h, a, e) =>
             \E i \in 1 .. len, x \in Nat : h = before[i] + x /\ Moves(Q[i][t], x, a, e)
        /\ \A i, o \in 1 .. len, x, y \in Nat :
             i < o /\ x \in DOMAIN Q[i][t] /\ y \in DOMAIN Q[o][t] => before[i] + x < before[o] + y
    BY <1>11, <2>8
  <2>2. PICK i \in 1 .. len, x \in Nat : j = before[i] + x /\ Moves(Q[i][t], x, reads[b], b)
    BY <1>10, <2>1
  <2>3. PICK o \in 1 .. len, y \in Nat : l = before[o] + y /\ Moves(Q[o][t], y, reads[d], d)
    BY <1>10, <2>1
  <2>4. i = k /\ o = m
    BY <1>3, <1>20, <1>10, <2>2, <2>3
  <2>5. x \in DOMAIN Q[i][t] /\ y \in DOMAIN Q[o][t]
    BY <2>2, <2>3 DEF Moves
  <2>6. i < o
    BY ONLY <1>10, <2>4
  <2>7. before[i] + x < before[o] + y
    BY ONLY <2>1, <2>2, <2>3, <2>5, <2>6
  <2>. QED  BY ONLY <2>2, <2>3, <2>7
<1>. QED  BY <1>4, <1>9, <1>10, <1>20

\* The pieces of all threads.
CutsOf(src, dst, size, tiles) ==
  [t \in Threads |-> Cuts(SameAlignment(src, dst), HeadBytes(dst, size), size, tiles, t)]

LEMMA CutsSplit ==
  ASSUME NEW src \in Int, NEW dst \in Int, NEW size \in Nat, NEW tiles \in 1 .. Tiles
  PROVE  Splits(CutsOf(src, dst, size, tiles), size)
<1>1. PICK c : c = CutsOf(src, dst, size, tiles)
  OBVIOUS
<1>2. PICK lead \in Nat : lead = HeadBytes(dst, size) /\ lead < Word /\ lead <= size
  <2>1. PICK w, l : w \in Nat \ {0} /\ w = Word /\ l = HeadBytes(dst, size) /\ l \in 0 .. w - 1 /\ l <= size
    BY LeadIs
  <2>. QED  BY <2>1
<1>3. tiles \in Nat \ {0} /\ tiles <= Tiles
  BY SizesAssumption
<1>4. CASE SameAlignment(src, dst)
  <2>1. \A t \in Threads : c[t] = Cuts(TRUE, lead, size, tiles, t)
    BY <1>1, <1>2, <1>4 DEF CutsOf, Cuts
  <2>. QED  BY <1>1, <1>2, <1>3, <2>1, WordsSplit
<1>5. CASE ~SameAlignment(src, dst)
  <2>1. \A t \in Threads : c[t] = Cuts(FALSE, lead, size, tiles, t)
    BY <1>1, <1>2, <1>5 DEF CutsOf, Cuts
  <2>. QED  BY <1>1, <1>2, <1>3, <2>1, BytesSplit
<1>. QED  BY <1>4, <1>5

\* The j-th piece of thread t has the byte copied from a to b.
Takes(c, t, j, src, dst, size, a, b) == \E x \in 0 .. size - 1 : Has(c, t, j, x) /\ a = src + x /\ b = dst + x

\* What a thread moves of a copy.
LEMMA MemcpyMoves ==
  ASSUME NEW src \in Int, NEW dst \in Int, NEW size \in Nat, NEW tiles \in 1 .. Tiles, NEW t \in Threads
  PROVE  /\ Memcpy(src, dst, size, tiles, t) \in Seq(Ops)
         /\ \A j, a, b : Moves(Memcpy(src, dst, size, tiles, t), j, a, b) <=>
              Takes(CutsOf(src, dst, size, tiles), t, j, src, dst, size, a, b)
<1>1. PICK ops, c : ops = Memcpy(src, dst, size, tiles, t) /\ c = CutsOf(src, dst, size, tiles)
  OBVIOUS
<1>2. Splits(c, size)
  BY <1>1, CutsSplit
<1>3. ops = [j \in DOMAIN c[t] |-> Op(src + AtOf(c[t][j]), dst + AtOf(c[t][j]), LenOf(c[t][j]))]
  <2>1. tiles \in Nat \ {0} /\ c[t] = Cuts(SameAlignment(src, dst), HeadBytes(dst, size), size, tiles, t)
    BY <1>1, SizesAssumption DEF CutsOf
  <2>2. Performs(ops, c[t], src, dst)
    BY <1>1, <2>1, MemcpyIs
  <2>. QED  BY <2>2 DEF Performs
<1>4. PICK len \in Nat : DOMAIN c[t] = 1 .. len
  BY <1>2 DEF Splits
<1>5. ASSUME NEW j \in 1 .. len
      PROVE  \E at \in Nat, l \in Nat \ {0} :
               /\ at = AtOf(c[t][j]) /\ l = LenOf(c[t][j]) /\ at + l <= size
               /\ ops[j] \in Ops /\ ops[j].from = src + at /\ ops[j].to = dst + at /\ ops[j].len = l
  <2>1. PICK at \in Nat, l \in Nat \ {0} : at = AtOf(c[t][j]) /\ l = LenOf(c[t][j]) /\ at + l <= size
    BY <1>2, <1>4 DEF Splits
  <2>2. ops[j] = Op(src + at, dst + at, l)
    BY <1>3, <1>4, <2>1
  <2>3. ops[j] = [from |-> src + at, to |-> dst + at, len |-> l]
    BY <2>2 DEF Op
  <2>4. src + at \in Int /\ dst + at \in Int
    OBVIOUS
  <2>. QED  BY <2>1, <2>3, <2>4 DEF Ops
<1>6. ops \in Seq(Ops) /\ DOMAIN ops = 1 .. len
  <2>1. DOMAIN ops = 1 .. len /\ \A j \in 1 .. len : ops[j] \in Ops
    BY <1>3, <1>4, <1>5
  <2>2. ops \in [1 .. len -> Ops]
    BY <1>3, <2>1
  <2>. QED  BY <2>1, <2>2
<1>7. ASSUME NEW j, NEW a, NEW b
      PROVE  Moves(ops, j, a, b) <=> \E x \in 0 .. size - 1 : Has(c, t, j, x) /\ a = src + x /\ b = dst + x
  <2>1. CASE j \notin 1 .. len
    BY <1>4, <1>6, <2>1 DEF Moves, Has
  <2>2. CASE j \in 1 .. len
    <3>1. PICK at \in Nat, l \in Nat \ {0} :
               /\ at = AtOf(c[t][j]) /\ l = LenOf(c[t][j]) /\ at + l <= size
               /\ ops[j] \in Ops /\ ops[j].from = src + at /\ ops[j].to = dst + at /\ ops[j].len = l
      BY <1>5, <2>2
    <3>2. Moves(ops, j, a, b) <=> \E i \in 0 .. l - 1 : a = (src + at) + i /\ b = (dst + at) + i
      BY <1>6, <2>2, <3>1 DEF Moves, BytesOf
    <3>3. \A x : Has(c, t, j, x) <=> at <= x /\ x < at + l
      BY <1>4, <2>2, <3>1 DEF Has
    <3>4. ASSUME NEW i \in 0 .. l - 1, a = (src + at) + i, b = (dst + at) + i
          PROVE  \E x \in 0 .. size - 1 : Has(c, t, j, x) /\ a = src + x /\ b = dst + x
      <4>1. PICK x \in 0 .. size - 1 : x = at + i /\ at <= x /\ x < at + l
        BY <3>1
      <4>2. a = src + x /\ b = dst + x
        BY <3>4, <4>1
      <4>. QED  BY <3>3, <4>1, <4>2
    <3>5. ASSUME NEW x \in 0 .. size - 1, Has(c, t, j, x), a = src + x, b = dst + x
          PROVE  \E i \in 0 .. l - 1 : a = (src + at) + i /\ b = (dst + at) + i
      <4>1. at <= x /\ x < at + l
        BY <3>3, <3>5
      <4>2. x - at \in 0 .. l - 1 /\ src + x = (src + at) + (x - at) /\ dst + x = (dst + at) + (x - at)
        BY <4>1
      <4>. QED  BY <3>5, <4>2
    <3>. QED  BY <3>2, <3>4, <3>5
  <2>. QED  BY <2>1, <2>2
<1>8. \A j, a, b : Moves(ops, j, a, b) <=> Takes(c, t, j, src, dst, size, a, b)
  BY <1>7 DEF Takes
<1>. QED  BY <1>1, <1>6, <1>8

\* A copy takes size bytes at src to dst.
Copying(P, src, dst, size, tiles) == P = [t \in Threads |-> Memcpy(src, dst, size, tiles, t)]

Onto(reads, src, dst, size) == \A x \in 0 .. size - 1 : reads[dst + x] = src + x

LEMMA MemcpyCarries ==
  ASSUME NEW src \in Int, NEW dst \in Int, NEW size \in Nat, NEW tiles \in 1 .. Tiles,
         NEW P, Copying(P, src, dst, size, tiles), NEW X, X = dst .. dst + size - 1, NEW reads, Onto(reads, src, dst, size)
  PROVE  Carries(P, reads, X)
<1>9. (\A x \in 0 .. size - 1 : reads[dst + x] = src + x) /\ P = [t \in Threads |-> Memcpy(src, dst, size, tiles, t)]
  BY DEF Onto, Copying
<1>1. PICK c : c = CutsOf(src, dst, size, tiles)
  OBVIOUS
<1>2. Splits(c, size)
  BY <1>1, CutsSplit
<1>3. ASSUME NEW t \in Threads
      PROVE  /\ P[t] \in Seq(Ops)
             /\ \A j, a, b : Moves(P[t], j, a, b) <=> Takes(c, t, j, src, dst, size, a, b)
  <2>1. P[t] = Memcpy(src, dst, size, tiles, t)
    BY <1>9
  <2>2. /\ Memcpy(src, dst, size, tiles, t) \in Seq(Ops)
        /\ \A j, a, b : Moves(Memcpy(src, dst, size, tiles, t), j, a, b) <=>
              Takes(CutsOf(src, dst, size, tiles), t, j, src, dst, size, a, b)
    BY MemcpyMoves
  <2>. QED  BY <1>1, <2>1, <2>2
<1>4. DOMAIN P = Threads /\ \A t \in DOMAIN P : P[t] \in Seq(Ops)
  BY <1>3, <1>9
<1>5. ASSUME NEW t \in Threads, NEW j, NEW a, NEW b, Moves(P[t], j, a, b)
      PROVE  j \in Nat /\ b \in X /\ a = reads[b]
  <2>1. PICK x \in 0 .. size - 1 : a = src + x /\ b = dst + x
    <3>1. Takes(c, t, j, src, dst, size, a, b)
      BY <1>3, <1>5
    <3>. QED  BY <3>1 DEF Takes
  <2>2. j \in Nat
    <3>1. j \in DOMAIN P[t] /\ P[t] \in Seq(Ops)
      BY <1>3, <1>5 DEF Moves
    <3>. QED  BY <3>1
  <2>3. dst + x \in dst .. dst + size - 1
    OBVIOUS
  <2>. QED  BY <1>9, <2>1, <2>2, <2>3
<1>6. ASSUME NEW b \in X PROVE \E x \in 0 .. size - 1 : b = dst + x
  <2>1. b - dst \in 0 .. size - 1 /\ b = dst + (b - dst)
    OBVIOUS
  <2>. QED  BY <2>1
<1>7. ASSUME NEW b \in X PROVE \E t \in Threads : \E j \in Nat : Moves(P[t], j, reads[b], b)
  <2>1. PICK x \in 0 .. size - 1 : b = dst + x
    BY <1>6
  <2>2. PICK t \in Threads : \E j \in DOMAIN c[t] : Has(c, t, j, x)
    BY <1>2 DEF Splits
  <2>3. PICK j : Has(c, t, j, x)
    BY <2>2
  <2>4. Takes(c, t, j, src, dst, size, reads[b], b)
    BY <1>9, <2>1, <2>3 DEF Takes
  <2>5. Moves(P[t], j, reads[b], b)
    BY <1>3, <2>4
  <2>. QED  BY <1>5, <2>5
<1>8. ASSUME NEW t \in Threads, NEW u \in Threads, NEW j \in Nat, NEW k \in Nat, NEW b \in X,
             Moves(P[t], j, reads[b], b), Moves(P[u], k, reads[b], b)
      PROVE  t = u /\ j = k
  <2>1. PICK x \in 0 .. size - 1 : Has(c, t, j, x) /\ b = dst + x
    <3>1. Takes(c, t, j, src, dst, size, reads[b], b)
      BY <1>3, <1>8
    <3>. QED  BY <3>1 DEF Takes
  <2>2. PICK y \in 0 .. size - 1 : Has(c, u, k, y) /\ b = dst + y
    <3>1. Takes(c, u, k, src, dst, size, reads[b], b)
      BY <1>3, <1>8
    <3>. QED  BY <3>1 DEF Takes
  <2>3. x = y
    BY <2>1, <2>2
  <2>4. j \in DOMAIN c[t] /\ k \in DOMAIN c[u]
    BY <2>1, <2>2 DEF Has
  <2>. QED  BY <1>2, <2>1, <2>2, <2>3, <2>4 DEF Splits
<1>. QED  BY <1>4, <1>5, <1>7, <1>8 DEF Carries

\* Whether the words of source and destination agree, and how far the destination is
\* from a word, do not change when both are shifted by a distance after which
\* they agree again.
LEMMA SameCuts ==
  ASSUME NEW a \in Int, NEW b \in Int, NEW shift \in Int, NEW size \in Nat, NEW tiles \in 1 .. Tiles
  PROVE  CutsOf(a + shift, a, size, tiles) = CutsOf(b + shift, b, size, tiles) \/ (a - b) % Word # 0
<1>. SUFFICES ASSUME (a - b) % Word = 0 PROVE CutsOf(a + shift, a, size, tiles) = CutsOf(b + shift, b, size, tiles)
  OBVIOUS
<1>1. Word \in Nat \ {0}
  BY SizesAssumption
<1>2. (a + shift) - a = (b + shift) - b
  OBVIOUS
<1>3. SameAlignment(a + shift, a) <=> SameAlignment(b + shift, b)
  BY <1>2 DEF SameAlignment
<1>4. (-a) % Word = (-b) % Word
  <2>1. PICK q \in Int : a - b = q * Word
    <3>1. a - b \in Int
      OBVIOUS
    <3>2. a - b = ((a - b) \div Word) * Word + ((a - b) % Word) /\ (a - b) \div Word \in Int
      BY <1>1, <3>1, DivMod
    <3>3. ((a - b) \div Word) * Word \in Int
      BY <1>1, <3>2
    <3>. QED  BY <3>2, <3>3
  <2>2. PICK p \in Int, r \in 0 .. Word - 1 : -b = p * Word + r /\ r = (-b) % Word
    <3>1. -b \in Int
      OBVIOUS
    <3>2. -b = ((-b) \div Word) * Word + ((-b) % Word) /\ (-b) \div Word \in Int /\ (-b) % Word \in 0 .. Word - 1
      BY <1>1, <3>1, DivMod
    <3>. QED  BY <3>2
  <2>3. -a = (p - q) * Word + r
    <3>1. (p - q) * Word = p * Word - q * Word
      BY <1>1
    <3>2. PICK e \in Int, f \in Int : e = p * Word /\ f = q * Word
      BY <1>1
    <3>3. a - b = f /\ -b = e + r /\ (p - q) * Word = e - f /\ r \in Int
      BY <1>1, <2>1, <2>2, <3>1, <3>2
    <3>4. -a = (e - f) + r
      BY <3>3
    <3>. QED  BY <3>3, <3>4
  <2>4. ((p - q) * Word + r) % Word = r
    <3>1. p - q \in Int
      OBVIOUS
    <3>. QED  BY <1>1, <3>1, DivOf
  <2>. QED  BY <2>2, <2>3, <2>4
<1>5. HeadBytes(a, size) = HeadBytes(b, size)
  BY <1>4 DEF HeadBytes
<1>6. ASSUME NEW t \in Threads
      PROVE  Cuts(SameAlignment(a + shift, a), HeadBytes(a, size), size, tiles, t)
             = Cuts(SameAlignment(b + shift, b), HeadBytes(b, size), size, tiles, t)
  <2>1. PICK lead : lead = HeadBytes(a, size) /\ lead = HeadBytes(b, size)
    BY <1>5
  <2>2. CASE SameAlignment(a + shift, a)
    BY <1>3, <2>1, <2>2 DEF Cuts
  <2>3. CASE ~SameAlignment(a + shift, a)
    BY <1>3, <2>1, <2>3 DEF Cuts
  <2>. QED  BY <2>2, <2>3
<1>. QED  BY <1>6 DEF CutsOf

\* Without word alignment they do not depend on where the destination is.
LEMMA BytesCuts ==
  ASSUME NEW a \in Int, NEW b \in Int, NEW shift \in Int, NEW size \in Nat, NEW tiles \in 1 .. Tiles,
         shift % Word # 0
  PROVE  CutsOf(a + shift, a, size, tiles) = CutsOf(b + shift, b, size, tiles)
<1>1. (a + shift) - a = shift /\ (b + shift) - b = shift
  OBVIOUS
<1>2. ~SameAlignment(a + shift, a) /\ ~SameAlignment(b + shift, b)
  BY <1>1 DEF SameAlignment
<1>3. ASSUME NEW t \in Threads
      PROVE  Cuts(SameAlignment(a + shift, a), HeadBytes(a, size), size, tiles, t)
             = Cuts(SameAlignment(b + shift, b), HeadBytes(b, size), size, tiles, t)
  BY <1>2 DEF Cuts
<1>. QED  BY <1>3 DEF CutsOf

\* Tokens that lie one after another.
LEMMA TokensIn ==
  ASSUME NEW token \in Nat \ {0}, NEW len \in Nat
  PROVE  /\ \A k \in Int : (k - 1) * token \in Int /\ (k - 1) * token + token = k * token
         /\ \A k \in 1 .. len : (k - 1) * token \in Nat /\ (k - 1) * token + token <= len * token
         /\ \A k, m \in Int : k < m => (k - 1) * token + token <= (m - 1) * token
         /\ \A y \in 0 .. len * token - 1 : \E k \in 1 .. len, x \in 0 .. token - 1 : y = (k - 1) * token + x
         /\ len * token \in Nat
<1>1. ASSUME NEW k \in Int PROVE (k - 1) * token \in Int /\ (k - 1) * token + token = k * token
  OBVIOUS
<1>2. ASSUME NEW k \in 1 .. len PROVE (k - 1) * token \in Nat /\ (k - 1) * token + token <= len * token
  <2>1. k - 1 \in Nat /\ k \in Int /\ len \in Int /\ k <= len
    OBVIOUS
  <2>2. k * token <= len * token
    BY <2>1, Monotone
  <2>3. (k - 1) * token \in Nat
    BY <2>1
  <2>. QED  BY <1>1, <2>1, <2>2, <2>3
<1>3. ASSUME NEW k \in Int, NEW m \in Int, k < m PROVE (k - 1) * token + token <= (m - 1) * token
  <2>1. k <= m - 1 /\ m - 1 \in Int
    BY <1>3
  <2>2. k * token <= (m - 1) * token
    BY <2>1, Monotone
  <2>. QED  BY <1>1, <2>2
<1>4. ASSUME NEW y \in 0 .. len * token - 1
      PROVE  \E k \in 1 .. len, x \in 0 .. token - 1 : y = (k - 1) * token + x
  <2>1. PICK all \in Nat : all = len * token
    OBVIOUS
  <2>2. y \in Nat /\ y < all
    BY <2>1
  <2>3. PICK q \in Nat, x \in 0 .. token - 1 : y = q * token + x
    BY <2>2, Divided
  <2>4. q < len
    <3>1. CASE len <= q
      <4>1. len * token <= q * token
        BY <3>1, Monotone
      <4>2. q * token \in Nat
        OBVIOUS
      <4>. QED  BY <2>1, <2>2, <2>3, <4>1, <4>2
    <3>. QED  BY <3>1
  <2>5. q + 1 \in 1 .. len /\ (q + 1) - 1 = q
    BY <2>4
  <2>. QED  BY <2>3, <2>5
<1>5. len * token \in Nat
  OBVIOUS
<1>. QED  BY <1>1, <1>2, <1>3, <1>4, <1>5

\* at[k] is where the k-th token starts, and all is the end.
Cells(at, token, len, all) ==
  /\ at \in [Int -> Int] /\ all \in Nat
  /\ \A k \in 1 .. len : at[k] >= 0 /\ at[k] + token <= all
  /\ \A k, m \in Int : k < m => at[k] + token <= at[m]
  /\ \A y \in 0 .. all - 1 : \E k \in 1 .. len, x \in 0 .. token - 1 : y = at[k] + x

LEMMA TokensAt ==
  ASSUME NEW token \in Nat \ {0}, NEW len \in Nat
  PROVE  \E at, all : Cells(at, token, len, all) /\ all = len * token /\ \A k \in Int : at[k] = (k - 1) * token
<1>1. PICK at : at = [k \in Int |-> (k - 1) * token]
  OBVIOUS
<1>2. PICK all : all = len * token
  OBVIOUS
<1>3. \A k \in Int : at[k] = (k - 1) * token
  BY <1>1
<1>4. at \in [Int -> Int] /\ all \in Nat
  BY <1>1, <1>2
<1>5. ASSUME NEW k \in 1 .. len PROVE at[k] >= 0 /\ at[k] + token <= all
  <2>1. k \in Int
    OBVIOUS
  <2>2. (k - 1) * token \in Nat /\ (k - 1) * token + token <= len * token
    BY TokensIn
  <2>3. PICK o \in Nat : o = at[k] /\ o + token <= all
    BY <1>2, <1>3, <2>1, <2>2
  <2>. QED  BY <2>3
<1>6. ASSUME NEW k \in Int, NEW m \in Int, k < m PROVE at[k] + token <= at[m]
  BY <1>3, <1>6, TokensIn
<1>7. ASSUME NEW y \in 0 .. all - 1 PROVE \E k \in 1 .. len, x \in 0 .. token - 1 : y = at[k] + x
  <2>1. PICK k \in 1 .. len, x \in 0 .. token - 1 : y = (k - 1) * token + x
    BY <1>2, TokensIn
  <2>2. k \in Int
    OBVIOUS
  <2>. QED  BY <1>3, <2>1, <2>2
<1>. QED  BY <1>2, <1>3, <1>4, <1>5, <1>6, <1>7 DEF Cells

\* The bytes of X in len tokens of the same length, the k-th at D[k].
Tiled(D, token, len, X) ==
  /\ D \in [Int -> Int] /\ X \subseteq Int
  /\ \A k \in 1 .. len : D[k] .. D[k] + token - 1 \subseteq X
  /\ \A b \in X : \E k \in 1 .. len : b \in D[k] .. D[k] + token - 1
  /\ \A k, m \in Int, x, y \in 0 .. token - 1 : D[k] + x = D[m] + y => k = m /\ x = y

LEMMA TokenBytes ==
  ASSUME NEW base \in Int, NEW token \in Nat \ {0}, NEW len \in Nat, NEW at, NEW all, Cells(at, token, len, all)
  PROVE  Tiled([k \in Int |-> base + at[k]], token, len, base .. base + all - 1)
<1>1. /\ at \in [Int -> Int] /\ all \in Nat
      /\ \A k \in 1 .. len : at[k] >= 0 /\ at[k] + token <= all
      /\ \A k, m \in Int : k < m => at[k] + token <= at[m]
      /\ \A y \in 0 .. all - 1 : \E k \in 1 .. len, x \in 0 .. token - 1 : y = at[k] + x
  BY DEF Cells
<1>6. PICK D, X : D = [k \in Int |-> base + at[k]] /\ X = base .. base + all - 1
  OBVIOUS
<1>7. D \in [Int -> Int] /\ X \subseteq Int /\ \A k \in Int : D[k] = base + at[k]
  BY <1>1, <1>6
<1>2. ASSUME NEW k \in 1 .. len PROVE D[k] .. D[k] + token - 1 \subseteq X
  <2>1. PICK o \in Int : o = at[k] /\ o >= 0 /\ o + token <= all
    BY <1>1
  <2>2. base + o .. base + o + token - 1 \subseteq base .. base + all - 1
    BY <1>1, <2>1
  <2>. QED  BY <1>6, <1>7, <2>1, <2>2
<1>4. ASSUME NEW b \in X PROVE \E k \in 1 .. len : b \in D[k] .. D[k] + token - 1
  <2>1. b - base \in 0 .. all - 1 /\ b \in Int
    BY <1>1, <1>6
  <2>2. PICK k \in 1 .. len, x \in 0 .. token - 1 : b - base = at[k] + x
    BY <1>1, <2>1
  <2>3. PICK o \in Int : o = at[k] /\ b - base = o + x
    BY <1>1, <2>2
  <2>4. b \in base + o .. base + o + token - 1
    BY <2>1, <2>3
  <2>. QED  BY <1>7, <2>3, <2>4
<1>5. ASSUME NEW k \in Int, NEW m \in Int, NEW x \in 0 .. token - 1, NEW y \in 0 .. token - 1,
             D[k] + x = D[m] + y
      PROVE  k = m /\ x = y
  <2>4. at[k] \in Int /\ at[m] \in Int /\ D[k] = base + at[k] /\ D[m] = base + at[m]
    BY <1>1, <1>7
  <2>5. PICK o \in Int, p \in Int : o = at[k] /\ p = at[m]
    BY <2>4
  <2>1. o = at[k] /\ p = at[m] /\ base + o + x = base + p + y
    BY ONLY <1>5, <2>4, <2>5
  <2>2. (k < m => o + token <= p) /\ (m < k => p + token <= o)
    BY <1>1, <2>1
  <2>3. k = m
    BY <2>1, <2>2
  <2>. QED  BY <2>1, <2>3
<1>8. Tiled(D, token, len, X)
  BY <1>2, <1>4, <1>5, <1>7 DEF Tiled
<1>. QED  BY <1>6, <1>8

\* Where a token is, what token a byte is in, and that it is in no other.
LEMMA TileAt ==
  ASSUME NEW token \in Nat \ {0}, NEW len \in Nat, NEW D, NEW X, Tiled(D, token, len, X), NEW k \in 1 .. len
  PROVE  \E o \in Int : o = D[k] /\ o .. o + token - 1 \subseteq X
<1>1. D[k] \in Int /\ D[k] .. D[k] + token - 1 \subseteq X
  BY DEF Tiled
<1>. QED  BY <1>1

LEMMA TileOf ==
  ASSUME NEW token \in Nat \ {0}, NEW len \in Nat, NEW D, NEW X, Tiled(D, token, len, X)
  PROVE  \A b \in X : \E k \in 1 .. len, x \in 0 .. token - 1, o \in Int : o = D[k] /\ b = o + x
<1>. SUFFICES ASSUME NEW b \in X PROVE \E k \in 1 .. len, x \in 0 .. token - 1, o \in Int : o = D[k] /\ b = o + x
  OBVIOUS
<1>1. PICK k \in 1 .. len : b \in D[k] .. D[k] + token - 1
  BY DEF Tiled
<1>2. b \in Int /\ D[k] \in Int
  BY DEF Tiled
<1>3. PICK o \in Int : o = D[k] /\ b \in o .. o + token - 1
  BY <1>1, <1>2
<1>4. b - o \in 0 .. token - 1 /\ b = o + (b - o)
  BY ONLY <1>2, <1>3, token \in Nat \ {0}
<1>. QED  BY <1>3, <1>4

LEMMA TileOnce ==
  ASSUME NEW token \in Nat \ {0}, NEW len \in Nat, NEW D, NEW X, Tiled(D, token, len, X),
         NEW k \in Int, NEW m \in Int, NEW o \in Int, NEW p \in Int, o = D[k], p = D[m],
         NEW x \in 0 .. token - 1, NEW y \in 0 .. token - 1, o + x = p + y
  PROVE  k = m /\ x = y
<1>1. D[k] + x = D[m] + y
  OBVIOUS
<1>. QED  BY <1>1 DEF Tiled

\* The tokens of X, each moved by shift, which is bias tokens.
Shifting(P, Part, reads, D, X, token, len, bias, shift) ==
  /\ Tiled(D, token, len, X)
  /\ \A k \in Int : D[k + bias] = D[k] + shift
  /\ \A k \in 1 .. len : Part[k] = [t \in Threads |-> Memcpy(D[k] + shift, D[k], token, 1, t)]
  /\ P = [t \in Threads |-> FlattenSeq([k \in 1 .. len |-> Part[k][t]])]
  /\ \A b \in X : reads[b] = b + shift

\* The tokens of a window shifted to the left in place, one after another.
LEMMA ShiftCarries ==
  ASSUME NEW token \in Nat \ {0}, NEW len \in Nat, NEW bias \in Nat \ {0}, NEW barrier, NEW shift \in Nat \ {0},
         NEW D, NEW X, NEW Part, NEW P, NEW reads, Shifting(P, Part, reads, D, X, token, len, bias, shift)
  PROVE  Carries(P, reads, X) /\ OrderKept(P, reads, X, barrier)
<1>. SUFFICES ASSUME Tiled(D, token, len, X), \A k \in Int : D[k + bias] = D[k] + shift,
                     \A k \in 1 .. len : Part[k] = [t \in Threads |-> Memcpy(D[k] + shift, D[k], token, 1, t)],
                     P = [t \in Threads |-> FlattenSeq([k \in 1 .. len |-> Part[k][t]])],
                     \A b \in X : reads[b] = b + shift
              PROVE  Carries(P, reads, X) /\ OrderKept(P, reads, X, barrier)
  BY DEF Shifting
<1>1. 1 \in 1 .. Tiles /\ token \in Nat
  BY ONLY SizesAssumption, token \in Nat \ {0}
<1>2. PICK Bytes : Bytes = [k \in 1 .. len |-> D[k] .. D[k] + token - 1]
  OBVIOUS
<1>3. Tiled(D, token, len, X) /\ token \in Nat \ {0} /\ len \in Nat /\ shift \in Nat \ {0} /\ bias \in Nat \ {0}
  OBVIOUS
<1>4. \A k \in 1 .. len : \E dst \in Int, src \in Int :
        dst = D[k] /\ src = D[k] + shift /\ src = dst + shift /\ Bytes[k] = dst .. dst + token - 1 /\ Bytes[k] \subseteq X
  <2>1. TAKE k \in 1 .. len
  <2>2. PICK dst \in Int : dst = D[k] /\ dst .. dst + token - 1 \subseteq X
    BY ONLY <1>3, k \in 1 .. len, TileAt
  <2>3. PICK src \in Int : src = dst + shift
    BY ONLY <1>3, dst \in Int
  <2>. QED  BY ONLY <1>2, <2>2, <2>3, k \in 1 .. len
<1>5. \A k \in 1 .. len : \A b : b \in Bytes[k] => \E x \in 0 .. token - 1, o \in Int : o = D[k] /\ b = o + x
  <2>1. TAKE k \in 1 .. len
  <2>11. TAKE b
  <2>2. HAVE b \in Bytes[k]
  <2>3. PICK o \in Int : o = D[k] /\ b \in o .. o + token - 1
    BY ONLY <1>4, <2>2, k \in 1 .. len
  <2>4. b - o \in 0 .. token - 1 /\ b = o + (b - o)
    BY ONLY <1>3, <2>3, o \in Int
  <2>. QED  BY ONLY <2>3, <2>4, o \in Int
<1>6. ASSUME NEW k \in 1 .. len, NEW m \in 1 .. len, NEW b, b \in Bytes[k], b \in Bytes[m]
      PROVE  k = m
  <2>1. PICK x \in 0 .. token - 1, o \in Int : o = D[k] /\ b = o + x
    BY ONLY <1>5, <1>6, k \in 1 .. len
  <2>2. PICK y \in 0 .. token - 1, p \in Int : p = D[m] /\ b = p + y
    BY ONLY <1>5, <1>6, m \in 1 .. len
  <2>3. k \in Int /\ m \in Int /\ o + x = p + y
    BY ONLY <2>1, <2>2, k \in 1 .. len, m \in 1 .. len
  <2>4. \A i, h \in Int, v, w \in 0 .. token - 1 : D[i] + v = D[h] + w => i = h /\ v = w
    BY ONLY <1>3 DEF Tiled
  <2>5. D[k] + x = D[m] + y
    BY ONLY <2>1, <2>2, <2>3
  <2>. QED  BY ONLY <2>3, <2>4, <2>5, x \in 0 .. token - 1, y \in 0 .. token - 1
<1>7. \A b \in X : \E k \in 1 .. len : b \in Bytes[k]
  <2>1. TAKE b \in X
  <2>2. PICK k \in 1 .. len, x \in 0 .. token - 1, o \in Int : o = D[k] /\ b = o + x
    <3>1. \A c \in X : \E k \in 1 .. len, x \in 0 .. token - 1, o \in Int : o = D[k] /\ c = o + x
      BY ONLY Tiled(D, token, len, X), token \in Nat \ {0}, len \in Nat, TileOf
    <3>. QED  BY ONLY <3>1, b \in X
  <2>3. o + x \in o .. o + token - 1
    BY ONLY <1>3, o \in Int, x \in 0 .. token - 1
  <2>. QED  BY ONLY <1>4, <2>2, <2>3, k \in 1 .. len
<1>8. X = UNION {Bytes[k] : k \in 1 .. len}
  BY ONLY <1>4, <1>7
<1>9. ASSUME NEW k \in 1 .. len PROVE DOMAIN Part[k] = Threads /\ Carries(Part[k], reads, Bytes[k])
  <2>1. PICK dst \in Int, src \in Int :
          dst = D[k] /\ src = D[k] + shift /\ src = dst + shift /\ Bytes[k] = dst .. dst + token - 1 /\ Bytes[k] \subseteq X
    BY ONLY <1>4, k \in 1 .. len
  <2>2. Part[k] = [t \in Threads |-> Memcpy(D[k] + shift, D[k], token, 1, t)]
    OBVIOUS
  <2>3. PICK part, bytes : part = Part[k] /\ bytes = Bytes[k]
    OBVIOUS
  <2>4. Copying(part, src, dst, token, 1)
    BY ONLY <2>1, <2>2, <2>3 DEF Copying
  <2>5. Onto(reads, src, dst, token)
    <3>0. ASSUME NEW x \in 0 .. token - 1 PROVE reads[dst + x] = src + x
      <4>1. dst + x \in dst .. dst + token - 1
        BY ONLY <1>3, dst \in Int, x \in 0 .. token - 1
      <4>2. dst + x \in X
        BY ONLY <2>1, <4>1
      <4>3. reads[dst + x] = (dst + x) + shift
        BY <4>2
      <4>4. (dst + x) + shift = src + x
        BY ONLY <1>3, <2>1, dst \in Int, x \in 0 .. token - 1
      <4>. QED  BY ONLY <4>3, <4>4
    <3>. QED  BY ONLY <3>0 DEF Onto
  <2>6. Carries(part, reads, bytes)
    BY <1>1, <2>1, <2>3, <2>4, <2>5, MemcpyCarries
  <2>7. DOMAIN part = Threads
    BY ONLY <2>4 DEF Copying
  <2>. QED  BY ONLY <2>3, <2>6, <2>7
<1>13. /\ Carries(P, reads, X)
       /\ \A t \in Threads, k \in 1 .. len : \A j, b :
            b \in Bytes[k] /\ Moves(P[t], j, reads[b], b) => \E x \in Nat : Moves(Part[k][t], x, reads[b], b)
       /\ \A t \in Threads, k, m \in 1 .. len : \A j, l, b, d :
            /\ b \in Bytes[k] /\ d \in Bytes[m] /\ k < m
            /\ Moves(P[t], j, reads[b], b) /\ Moves(P[t], l, reads[d], d)
            => j < l
  <2>1. \A k \in 1 .. len : DOMAIN Part[k] = Threads /\ Carries(Part[k], reads, Bytes[k])
    BY ONLY <1>9
  <2>2. \A k, m \in 1 .. len : \A b : b \in Bytes[k] /\ b \in Bytes[m] => k = m
    BY ONLY <1>6
  <2>3. Partition(Part, reads, Bytes, len, X)
    BY ONLY <1>8, <2>1, <2>2 DEF Partition
  <2>4. Chained(P, Part, len)
    BY DEF Chained
  <2>5. \A t \in Threads, k \in 1 .. len : \A j, b :
            b \in Bytes[k] /\ Moves(P[t], j, reads[b], b) => \E x \in Nat : Moves(Part[k][t], x, reads[b], b)
    BY ONLY <2>3, <2>4, len \in Nat, InTurn
  <2>6. \A t \in Threads, k, m \in 1 .. len : \A j, l, b, d :
            /\ b \in Bytes[k] /\ d \in Bytes[m] /\ k < m
            /\ Moves(P[t], j, reads[b], b) /\ Moves(P[t], l, reads[d], d)
            => j < l
    BY ONLY <2>3, <2>4, len \in Nat, InTurn
  <2>7. Carries(P, reads, X)
    BY ONLY <2>3, <2>4, len \in Nat, InTurn
  <2>. QED  BY ONLY <2>5, <2>6, <2>7
<1>14. ASSUME NEW k \in 1 .. len, NEW m \in 1 .. len, m = k + bias
       PROVE  CutsOf(D[k] + shift, D[k], token, 1) = CutsOf(D[m] + shift, D[m], token, 1)
  <2>1. PICK a \in Int, h \in Int :
          a = D[k] /\ h = D[k] + shift /\ h = a + shift /\ Bytes[k] = a .. a + token - 1 /\ Bytes[k] \subseteq X
    BY ONLY <1>4, k \in 1 .. len
  <2>2. k \in Int
    OBVIOUS
  <2>3. D[m] = h
    BY <1>14, <2>1, <2>2
  <2>4. CASE shift % Word # 0
    <3>1. CutsOf(a + shift, a, token, 1) = CutsOf(h + shift, h, token, 1)
      BY ONLY <1>1, <1>3, <2>4, a \in Int, h \in Int, BytesCuts
    <3>. QED  BY ONLY <2>1, <2>3, <3>1
  <2>5. CASE shift % Word = 0
    <3>1. h - a = shift
      BY ONLY <1>3, <2>1, a \in Int
    <3>2. (h - a) % Word = 0
      BY ONLY <2>5, <3>1
    <3>3. CutsOf(h + shift, h, token, 1) = CutsOf(a + shift, a, token, 1)
      BY <1>1, <1>3, <3>2, SameCuts
    <3>. QED  BY ONLY <2>1, <2>3, <3>3
  <2>. QED  BY ONLY <2>4, <2>5
<1>16. ASSUME NEW k \in 1 .. len, NEW t \in Threads, NEW j \in Nat, NEW b, NEW x \in 0 .. token - 1, b = D[k] + x,
              Moves(Part[k][t], j, reads[b], b)
       PROVE  Has(CutsOf(D[k] + shift, D[k], token, 1), t, j, x)
  <2>1. PICK dst \in Int, src \in Int :
          dst = D[k] /\ src = D[k] + shift /\ src = dst + shift /\ Bytes[k] = dst .. dst + token - 1 /\ Bytes[k] \subseteq X
    BY ONLY <1>4, k \in 1 .. len
  <2>2. Part[k] = [u \in Threads |-> Memcpy(D[k] + shift, D[k], token, 1, u)]
    OBVIOUS
  <2>3. Moves(Memcpy(src, dst, token, 1, t), j, reads[b], b)
    BY ONLY <1>16, <2>1, <2>2, t \in Threads
  <2>4. Takes(CutsOf(src, dst, token, 1), t, j, src, dst, token, reads[b], b)
    BY ONLY <1>1, <2>3, MemcpyMoves, src \in Int, dst \in Int, t \in Threads
  <2>5. PICK z \in 0 .. token - 1 : Has(CutsOf(src, dst, token, 1), t, j, z) /\ b = dst + z
    BY ONLY <2>4 DEF Takes
  <2>6. z = x
    BY ONLY <1>1, <1>16, <2>1, <2>5, dst \in Int, x \in 0 .. token - 1
  <2>. QED  BY ONLY <2>1, <2>5, <2>6
<1>15. ASSUME NEW t \in Threads, NEW u \in Threads, NEW j \in Nat, NEW l \in Nat, NEW b \in X, NEW d \in X,
              Moves(P[t], j, reads[b], b), Moves(P[u], l, reads[d], d), reads[b] = d
       PROVE  j <= l /\ t = u
  <2>1. PICK k \in 1 .. len : b \in Bytes[k]
    BY ONLY <1>7, b \in X
  <2>2. PICK m \in 1 .. len : d \in Bytes[m]
    BY ONLY <1>7, d \in X
  <2>3. PICK x \in 0 .. token - 1, o \in Int : o = D[k] /\ b = o + x
    BY ONLY <1>5, <2>1, k \in 1 .. len
  <2>4. PICK y \in 0 .. token - 1, p \in Int : p = D[m] /\ d = p + y
    BY ONLY <1>5, <2>2, m \in 1 .. len
  <2>5. d = b + shift
    BY <1>15
  <2>6. k + bias \in Int /\ k \in Int /\ m \in Int
    BY ONLY <1>3, k \in 1 .. len, m \in 1 .. len
  <2>7. D[k + bias] = D[k] + shift
    BY <2>6
  <2>20. PICK r \in Int : r = o + shift
    BY ONLY <1>3, o \in Int
  <2>21. r + x = p + y /\ r = D[k + bias]
    BY ONLY <1>3, <2>3, <2>4, <2>5, <2>7, <2>20, o \in Int, p \in Int, x \in 0 .. token - 1, y \in 0 .. token - 1
  <2>8. m = k + bias /\ x = y
    <3>1. \A i, h \in Int, v, w \in 0 .. token - 1 : D[i] + v = D[h] + w => i = h /\ v = w
      BY ONLY <1>3 DEF Tiled
    <3>2. D[k + bias] + x = D[m] + y
      BY ONLY <2>4, <2>21
    <3>. QED  BY ONLY <2>6, <3>1, <3>2, x \in 0 .. token - 1, y \in 0 .. token - 1
  <2>9. PICK e \in Nat : Moves(Part[k][t], e, reads[b], b)
    BY ONLY <1>13, <1>15, <2>1, t \in Threads, k \in 1 .. len
  <2>10. PICK q \in Nat : Moves(Part[m][u], q, reads[d], d)
    BY ONLY <1>13, <1>15, <2>2, u \in Threads, m \in 1 .. len
  <2>11. PICK c : c = CutsOf(D[k] + shift, D[k], token, 1) /\ c = CutsOf(D[m] + shift, D[m], token, 1)
    BY ONLY <1>14, <2>8, k \in 1 .. len, m \in 1 .. len
  <2>12. Has(c, t, e, x)
    BY ONLY <1>16, <2>3, <2>9, <2>11, t \in Threads, k \in 1 .. len, e \in Nat, x \in 0 .. token - 1
  <2>13. Has(c, u, q, x)
    BY ONLY <1>16, <2>4, <2>8, <2>10, <2>11, u \in Threads, m \in 1 .. len, q \in Nat, y \in 0 .. token - 1
  <2>14. Splits(c, token)
    <3>1. PICK dst \in Int, src \in Int :
            dst = D[k] /\ src = D[k] + shift /\ src = dst + shift /\ Bytes[k] = dst .. dst + token - 1 /\ Bytes[k] \subseteq X
      BY ONLY <1>4, k \in 1 .. len
    <3>2. Splits(CutsOf(src, dst, token, 1), token)
      BY ONLY <1>1, src \in Int, dst \in Int, CutsSplit
    <3>. QED  BY ONLY <2>11, <3>1, <3>2
  <2>15. t = u
    <3>1. e \in DOMAIN c[t] /\ q \in DOMAIN c[u]
      BY ONLY <2>12, <2>13 DEF Has
    <3>. QED  BY ONLY <2>12, <2>13, <2>14, <3>1, t \in Threads, u \in Threads, x \in 0 .. token - 1 DEF Splits
  <2>16. k < m
    BY ONLY <1>3, <2>8, k \in 1 .. len
  <2>17. j < l
    BY ONLY <1>13, <1>15, <2>1, <2>2, <2>15, <2>16, t \in Threads, k \in 1 .. len, m \in 1 .. len
  <2>. QED  BY ONLY <2>15, <2>17, j \in Nat, l \in Nat
<1>17. OrderKept(P, reads, X, barrier)
  <2>1. DOMAIN P = Threads
    OBVIOUS
  <2>2. ASSUME NEW t \in Threads, NEW u \in Threads, NEW j \in Nat, NEW l \in Nat, NEW b \in X, NEW d \in X,
               Moves(P[t], j, reads[b], b) /\ Moves(P[u], l, reads[d], d) /\ reads[b] = d
        PROVE  j <= l /\ (t = u \/ barrier)
    BY ONLY <1>15, <2>2, t \in Threads, u \in Threads, j \in Nat, l \in Nat, b \in X, d \in X
  <2>. QED  BY ONLY <2>1, <2>2 DEF OrderKept
<1>. QED  BY ONLY <1>13, <1>17

\* The operations ops take, each once, the bytes at reads[b] to the addresses b of Y.
Single(ops, reads, Y) ==
  /\ ops \in Seq(Ops)
  /\ \A j, a, b : Moves(ops, j, a, b) => j \in Nat /\ b \in Y /\ a = reads[b]
  /\ \A b \in Y : \E j \in Nat : Moves(ops, j, reads[b], b)
  /\ \A j, k \in Nat : \A b \in Y : Moves(ops, j, reads[b], b) /\ Moves(ops, k, reads[b], b) => j = k

\* What thread t does is Parts[t], N[t] pieces that write Y[t], one after another.
Gathers(P, Parts, N, Y, reads, X) ==
  /\ DOMAIN P = Threads
  /\ \A t \in Threads : /\ N[t] \in Nat /\ P[t] \in Seq(Ops)
                        /\ \E before \in [1 .. N[t] -> Nat] : InParts(P[t], Parts[t], before, N[t])
  /\ \A t \in Threads : \A i \in 1 .. N[t] : Single(Parts[t][i], reads, Y[t][i])
  /\ \A t, u \in Threads : \A i \in 1 .. N[t], h \in 1 .. N[u] : \A b : b \in Y[t][i] /\ b \in Y[u][h] => t = u /\ i = h
  /\ \A b : b \in X <=> \E t \in Threads : \E i \in 1 .. N[t] : b \in Y[t][i]

LEMMA Gather ==
  ASSUME NEW P, NEW Parts, NEW N, NEW Y, NEW reads, NEW X, Gathers(P, Parts, N, Y, reads, X)
  PROVE  /\ Carries(P, reads, X)
         /\ \A t \in Threads : \A j, a, b : Moves(P[t], j, a, b) => \E i \in 1 .. N[t] : b \in Y[t][i]
<1>1. DOMAIN P = Threads /\ \A t \in Threads : N[t] \in Nat /\ P[t] \in Seq(Ops)
  BY DEF Gathers
<1>2. ASSUME NEW t \in Threads, NEW j, NEW a, NEW b, Moves(P[t], j, a, b)
      PROVE  j \in Nat /\ a = reads[b] /\ b \in X
             /\ \E i \in 1 .. N[t], x \in Nat : b \in Y[t][i] /\ Moves(Parts[t][i], x, a, b)
  <2>1. PICK before \in [1 .. N[t] -> Nat] : InParts(P[t], Parts[t], before, N[t])
    BY DEF Gathers
  <2>2. PICK i \in 1 .. N[t], x \in Nat : j = before[i] + x /\ Moves(Parts[t][i], x, a, b)
    BY <1>2, <2>1 DEF InParts
  <2>3. PICK ops, y : ops = Parts[t][i] /\ y = Y[t][i] /\ Single(ops, reads, y)
    BY DEF Gathers
  <2>4. b \in y /\ a = reads[b]
    <3>1. Moves(ops, x, a, b)
      BY ONLY <2>2, <2>3
    <3>. QED  BY ONLY <2>3, <3>1 DEF Single
  <2>5. b \in X
    BY <2>3, <2>4 DEF Gathers
  <2>6. j \in Nat
    <3>1. j \in DOMAIN P[t] /\ P[t] \in Seq(Ops)
      BY <1>1, <1>2 DEF Moves
    <3>. QED  BY <3>1
  <2>. QED  BY <2>2, <2>3, <2>4, <2>5, <2>6
<1>3. ASSUME NEW b \in X PROVE \E t \in Threads : \E j \in Nat : Moves(P[t], j, reads[b], b)
  <2>1. PICK t \in Threads : \E i \in 1 .. N[t] : b \in Y[t][i]
    BY DEF Gathers
  <2>2. PICK i \in 1 .. N[t] : b \in Y[t][i]
    BY <2>1
  <2>3. PICK before \in [1 .. N[t] -> Nat] : InParts(P[t], Parts[t], before, N[t])
    BY DEF Gathers
  <2>4. PICK ops, y : ops = Parts[t][i] /\ y = Y[t][i] /\ Single(ops, reads, y)
    BY DEF Gathers
  <2>5. PICK x \in Nat : Moves(ops, x, reads[b], b)
    <3>1. b \in y
      BY <2>2, <2>4
    <3>. QED  BY ONLY <2>4, <3>1 DEF Single
  <2>6. Moves(P[t], before[i] + x, reads[b], b)
    BY <2>3, <2>4, <2>5 DEF InParts
  <2>. QED  BY <1>2, <2>6
<1>4. ASSUME NEW t \in Threads, NEW u \in Threads, NEW j \in Nat, NEW k \in Nat, NEW b \in X,
             Moves(P[t], j, reads[b], b), Moves(P[u], k, reads[b], b)
      PROVE  t = u /\ j = k
  <2>1. PICK i \in 1 .. N[t], x \in Nat : b \in Y[t][i] /\ Moves(Parts[t][i], x, reads[b], b)
    BY <1>2, <1>4
  <2>2. PICK h \in 1 .. N[u], z \in Nat : b \in Y[u][h] /\ Moves(Parts[u][h], z, reads[b], b)
    BY <1>2, <1>4
  <2>3. t = u /\ i = h
    BY <2>1, <2>2 DEF Gathers
  <2>4. PICK before \in [1 .. N[t] -> Nat] : InParts(P[t], Parts[t], before, N[t])
    BY DEF Gathers
  <2>5. PICK ops, y : ops = Parts[t][i] /\ y = Y[t][i] /\ Single(ops, reads, y)
    BY DEF Gathers
  <2>6. \A g \in 1 .. N[t], w \in Nat : b \in Y[t][g] => g = i
    BY <2>1 DEF Gathers
  <2>7. ASSUME NEW m \in Nat, Moves(P[t], m, reads[b], b)
        PROVE  \E w \in Nat : m = before[i] + w /\ Moves(ops, w, reads[b], b)
    <3>1. PICK g \in 1 .. N[t], w \in Nat : m = before[g] + w /\ Moves(Parts[t][g], w, reads[b], b)
      BY <2>4, <2>7 DEF InParts
    <3>2. PICK os, ys : os = Parts[t][g] /\ ys = Y[t][g] /\ Single(os, reads, ys)
      BY DEF Gathers
    <3>3. b \in ys
      <4>1. Moves(os, w, reads[b], b)
        BY ONLY <3>1, <3>2
      <4>. QED  BY ONLY <3>2, <4>1 DEF Single
    <3>4. g = i
      BY <2>6, <3>2, <3>3
    <3>. QED  BY <2>5, <3>1, <3>4
  <2>8. PICK w \in Nat : j = before[i] + w /\ Moves(ops, w, reads[b], b)
    BY <1>4, <2>7
  <2>9. PICK v \in Nat : k = before[i] + v /\ Moves(ops, v, reads[b], b)
    BY <1>4, <2>3, <2>7
  <2>10. b \in y
    BY <2>1, <2>5
  <2>11. w = v
    BY ONLY <2>5, <2>8, <2>9, <2>10, w \in Nat, v \in Nat DEF Single
  <2>. QED  BY <2>3, <2>8, <2>9, <2>11
<1>5. \A t \in DOMAIN P : P[t] \in Seq(Ops)
  BY <1>1
<1>6. \A t \in DOMAIN P : \A j, a, b : Moves(P[t], j, a, b) => j \in Nat /\ b \in X /\ a = reads[b]
  BY <1>1, <1>2
<1>7. \A b \in X : \E t \in DOMAIN P : \E j \in Nat : Moves(P[t], j, reads[b], b)
  BY <1>1, <1>3
<1>8. \A t, u \in DOMAIN P : \A j, k \in Nat : \A b \in X :
        Moves(P[t], j, reads[b], b) /\ Moves(P[u], k, reads[b], b) => t = u /\ j = k
  BY <1>1, <1>4
<1>9. Carries(P, reads, X)
  BY ONLY <1>5, <1>6, <1>7, <1>8 DEF Carries
<1>10. ASSUME NEW t \in Threads, NEW j, NEW a, NEW b, Moves(P[t], j, a, b) PROVE \E i \in 1 .. N[t] : b \in Y[t][i]
  <2>1. PICK i \in 1 .. N[t], x \in Nat : b \in Y[t][i] /\ Moves(Parts[t][i], x, a, b)
    BY <1>2, <1>10
  <2>. QED  BY <2>1
<1>. QED  BY ONLY <1>9, <1>10

\* Parts that do nothing do nothing together.
LEMMA FlatEmpty ==
  ASSUME NEW len \in Nat
  PROVE  FlattenSeq([k \in 1 .. len |-> << >>]) = << >>
<1>1. PICK ss : ss = [k \in 1 .. len |-> << >>]
  OBVIOUS
<1>2. ss \in [1 .. len -> Seq(Ops)] /\ \A k \in 1 .. len : ss[k] = << >>
  BY <1>1
<1>3. PICK flat : flat = FlattenSeq(ss)
  OBVIOUS
<1>4. flat \in Seq(Ops) /\ \E before \in [1 .. len -> Nat] : InParts(flat, ss, before, len)
  BY <1>2, <1>3, FlatMoves
<1>5. ASSUME NEW j \in DOMAIN flat PROVE FALSE
  <2>1. PICK o \in Ops : o = flat[j]
    BY <1>4
  <2>2. o.from \in Int /\ 0 \in BytesOf(o)
    BY DEF Ops, BytesOf
  <2>3. PICK a, b : Moves(flat, j, a, b)
    BY <2>1, <2>2 DEF Moves
  <2>4. PICK i \in 1 .. len, x \in Nat : Moves(ss[i], x, a, b)
    BY <1>4, <2>3 DEF InParts
  <2>5. x \in DOMAIN ss[i]
    BY <2>4 DEF Moves
  <2>. QED  BY <1>2, <2>5
<1>6. flat = << >>
  <2>1. Len(flat) \in Nat /\ DOMAIN flat = 1 .. Len(flat)
    BY <1>4
  <2>2. Len(flat) = 0
    <3>1. PICK l \in Nat : l = Len(flat) /\ DOMAIN flat = 1 .. l
      BY <2>1
    <3>2. CASE l # 0
      <4>1. 1 \in 1 .. l
        BY <3>2
      <4>. QED  BY ONLY <1>5, <3>1, <4>1
    <3>. QED  BY <3>1, <3>2
  <2>. QED  BY <1>4, <2>2, EmptySeq
<1>. QED  BY <1>1, <1>3, <1>6

\* What a lane handles of total elements is handled by no other, and the further on
\* it is the later.
LEMMA LaneOrder ==
  ASSUME NEW total \in Nat, NEW lane \in Nat, NEW other \in Nat,
         NEW i \in DOMAIN OfLane(total, lane), NEW h \in DOMAIN OfLane(total, other),
         OfLane(total, lane)[i] <= OfLane(total, other)[h]
  PROVE  i <= h /\ (OfLane(total, lane)[i] = OfLane(total, other)[h] => lane = other /\ i = h)
<1>1. PICK w \in Nat \ {0} : w = Lanes
  BY SizesAssumption
<1>2. i \in Nat \ {0} /\ h \in Nat \ {0} /\ total \in Int
  <2>1. PICK len \in Nat, m \in Nat : DOMAIN OfLane(total, lane) = 1 .. len /\ DOMAIN OfLane(total, other) = 1 .. m
    <3>1. total \in Int
      OBVIOUS
    <3>. QED  BY <3>1, OfLaneIs
  <2>. QED  BY <2>1
<1>3. PICK a \in Nat, b \in Nat : /\ a = OfLane(total, lane)[i] /\ b = OfLane(total, other)[h] /\ lane < w /\ other < w
                                  /\ a = lane + (i - 1) * w /\ b = other + (h - 1) * w
  <2>1. /\ lane < Lanes /\ OfLane(total, lane)[i] = lane + (i - 1) * Lanes /\ OfLane(total, lane)[i] \in 0 .. total - 1
        /\ other < Lanes /\ OfLane(total, other)[h] = other + (h - 1) * Lanes /\ OfLane(total, other)[h] \in 0 .. total - 1
    BY <1>2, OfLaneIs
  <2>. QED  BY <1>1, <2>1
<1>4. PICK p \in Int, q \in Int : p = (i - 1) * w /\ q = (h - 1) * w /\ a = lane + p /\ b = other + q
  BY ONLY <1>2, <1>3, w \in Nat \ {0}, i \in Nat, h \in Nat
<1>5. a <= b
  BY <1>3
<1>6. i <= h
  <2>1. CASE h < i
    <3>1. h <= i - 1 /\ h \in Int /\ i - 1 \in Int /\ h * w \in Int
      BY <1>2, <2>1
    <3>2. h * w <= p
      BY <1>4, <3>1, Monotone
    <3>3. h * w = q + w
      BY <1>2, <1>4
    <3>4. b < q + w
      BY ONLY <1>3, <1>4, other \in Nat, w \in Nat \ {0}, q \in Int, b \in Nat
    <3>. QED  BY ONLY <1>4, <1>5, <3>2, <3>3, <3>4, lane \in Nat, w \in Nat \ {0}, q \in Int, p \in Int, b \in Nat, a \in Nat
  <2>. QED  BY <1>2, <2>1
<1>7. ASSUME a = b PROVE lane = other /\ i = h
  <2>1. CASE i < h
    <3>1. i <= h - 1 /\ i \in Int /\ h - 1 \in Int /\ i * w \in Int
      BY <1>2, <2>1
    <3>2. i * w <= q
      BY <1>4, <3>1, Monotone
    <3>3. i * w = p + w
      BY <1>2, <1>4
    <3>. QED  BY ONLY <1>3, <1>4, <1>7, <3>2, <3>3, lane \in Nat, other \in Nat, w \in Nat \ {0}, q \in Int, p \in Int, b \in Nat, a \in Nat
  <2>2. i = h
    BY <1>2, <1>6, <2>1
  <2>. QED  BY <1>4, <1>7, <2>2
<1>. QED  BY <1>3, <1>6, <1>7

LEMMA LaneCovers ==
  ASSUME NEW total \in Nat, NEW y \in 0 .. total - 1
  PROVE  \E lane \in 0 .. Lanes - 1 : \E i \in DOMAIN OfLane(total, lane) : OfLane(total, lane)[i] = y
<1>1. PICK w \in Nat \ {0} : w = Lanes
  BY SizesAssumption
<1>2. PICK q \in Nat, lane \in 0 .. w - 1 : y = q * w + lane
  <2>1. y \in Nat
    OBVIOUS
  <2>. QED  BY <2>1, Divided
<1>3. PICK i \in Nat \ {0} : i = q + 1 /\ i - 1 = q
  <2>1. q + 1 \in Nat \ {0} /\ (q + 1) - 1 = q
    OBVIOUS
  <2>. QED  BY <2>1
<1>4. lane \in Nat /\ lane < Lanes /\ lane + (i - 1) * Lanes = y /\ y < total /\ total \in Int /\ lane \in 0 .. Lanes - 1
  <2>1. PICK p \in Nat : p = q * w /\ y = p + lane
    BY <1>2
  <2>. QED  BY <1>1, <1>3, <2>1
<1>5. i \in DOMAIN OfLane(total, lane)
  BY <1>4, OfLaneIs
<1>6. OfLane(total, lane)[i] = lane + (i - 1) * Lanes
  BY <1>4, <1>5, OfLaneIs
<1>. QED  BY <1>4, <1>5, <1>6

\* One element of a DS row.
ElementOps(from, to, elem) ==
  IF elem \in {2, 4} THEN <<Op(from, to, elem)>> ELSE [b \in 1 .. elem |-> Op(from + b - 1, to + b - 1, 1)]

LEMMA ElementSingle ==
  ASSUME NEW from \in Int, NEW to \in Int, NEW elem \in Nat \ {0}, NEW reads, Onto(reads, from, to, elem)
  PROVE  Single(ElementOps(from, to, elem), reads, to .. to + elem - 1)
<1>. DEFINE ops == ElementOps(from, to, elem)
            X == to .. to + elem - 1
<1>0. \A x \in 0 .. elem - 1 : reads[to + x] = from + x
  BY DEF Onto
<1>1. CASE elem \in {2, 4}
  <2>1. ops = <<[from |-> from, to |-> to, len |-> elem]>>
    BY <1>1 DEF ElementOps, Op
  <2>2. PICK o \in Ops : o = [from |-> from, to |-> to, len |-> elem]
    BY DEF Ops
  <2>3. ops = <<o>> /\ ops \in Seq(Ops) /\ DOMAIN ops = {1} /\ ops[1] = o
    BY <2>1, <2>2
  <2>4. BytesOf(o) = 0 .. elem - 1 /\ o.from = from /\ o.to = to
    BY <2>2 DEF BytesOf
  <2>5. \A j, a, b : Moves(ops, j, a, b) <=> j = 1 /\ \E i \in 0 .. elem - 1 : a = from + i /\ b = to + i
    BY <2>3, <2>4 DEF Moves
  <2>. HIDE DEF ops
  <2>6. ASSUME NEW j, NEW a, NEW b, Moves(ops, j, a, b) PROVE j \in Nat /\ b \in X /\ a = reads[b]
    <3>1. PICK i \in 0 .. elem - 1 : j = 1 /\ a = from + i /\ b = to + i
      BY <2>5, <2>6
    <3>. QED  BY <1>0, <3>1
  <2>7. ASSUME NEW b \in X PROVE Moves(ops, 1, reads[b], b)
    <3>1. b - to \in 0 .. elem - 1 /\ b = to + (b - to)
      OBVIOUS
    <3>2. reads[b] = from + (b - to)
      BY <1>0, <3>1
    <3>. QED  BY <2>5, <3>1, <3>2
  <2>8. \A j, k \in Nat : \A b \in X : Moves(ops, j, reads[b], b) /\ Moves(ops, k, reads[b], b) => j = k
    BY <2>5
  <2>9. PICK Y : Y = X
    OBVIOUS
  <2>10. \A j, a, b : Moves(ops, j, a, b) => j \in Nat /\ b \in Y /\ a = reads[b]
    BY ONLY <2>6, <2>9
  <2>11. \A b \in Y : \E j \in Nat : Moves(ops, j, reads[b], b)
    BY ONLY <2>7, <2>9, 1 \in Nat
  <2>12. \A j, k \in Nat : \A b \in Y : Moves(ops, j, reads[b], b) /\ Moves(ops, k, reads[b], b) => j = k
    BY ONLY <2>8, <2>9
  <2>13. Single(ops, reads, Y)
    BY ONLY <2>3, <2>10, <2>11, <2>12 DEF Single
  <2>. QED  BY <2>9, <2>13 DEF ops
<1>2. CASE elem \notin {2, 4}
  <2>1. ops = [x \in 1 .. elem |-> Op(from + x - 1, to + x - 1, 1)]
    BY <1>2 DEF ElementOps
  <2>. HIDE DEF ops
  <2>2. ASSUME NEW x \in 1 .. elem
        PROVE  /\ ops[x] \in Ops /\ BytesOf(ops[x]) = {0}
               /\ ops[x].from = from + (x - 1) /\ ops[x].to = to + (x - 1)
    <3>1. ops[x] = [from |-> from + x - 1, to |-> to + x - 1, len |-> 1]
      BY <2>1 DEF Op
    <3>2. from + x - 1 \in Int /\ to + x - 1 \in Int
      OBVIOUS
    <3>3. from + x - 1 = from + (x - 1) /\ to + x - 1 = to + (x - 1)
      OBVIOUS
    <3>4. 0 .. 1 - 1 = {0}
      OBVIOUS
    <3>. QED  BY <3>1, <3>2, <3>3, <3>4 DEF Ops, BytesOf
  <2>3. ops \in Seq(Ops) /\ DOMAIN ops = 1 .. elem
    <3>1. ops \in [1 .. elem -> Ops]
      BY <2>1, <2>2
    <3>. QED  BY <3>1
  <2>5. ASSUME NEW j, NEW a, NEW b
        PROVE  Moves(ops, j, a, b) <=> j \in 1 .. elem /\ a = from + (j - 1) /\ b = to + (j - 1)
    <3>1. CASE j \notin 1 .. elem
      BY <2>3, <3>1 DEF Moves
    <3>2. CASE j \in 1 .. elem
      <4>1. PICK o : o = ops[j] /\ BytesOf(o) = {0} /\ o.from = from + (j - 1) /\ o.to = to + (j - 1)
        BY <2>2, <3>2
      <4>2. (from + (j - 1)) + 0 = from + (j - 1) /\ (to + (j - 1)) + 0 = to + (j - 1)
        BY <3>2
      <4>3. Moves(ops, j, a, b) <=> a = o.from + 0 /\ b = o.to + 0
        BY <2>3, <3>2, <4>1 DEF Moves
      <4>. QED  BY ONLY <3>2, <4>1, <4>2, <4>3
    <3>. QED  BY <3>1, <3>2
  <2>6. ASSUME NEW j, NEW a, NEW b, Moves(ops, j, a, b) PROVE j \in Nat /\ b \in X /\ a = reads[b]
    <3>1. j \in 1 .. elem /\ a = from + (j - 1) /\ b = to + (j - 1)
      BY <2>5, <2>6
    <3>2. j - 1 \in 0 .. elem - 1 /\ j \in Nat
      BY <3>1
    <3>. QED  BY <1>0, <3>1, <3>2
  <2>7. ASSUME NEW b \in X PROVE \E j \in Nat : Moves(ops, j, reads[b], b)
    <3>1. b - to \in 0 .. elem - 1 /\ b = to + (b - to)
      OBVIOUS
    <3>2. reads[b] = from + (b - to)
      BY <1>0, <3>1
    <3>3. PICK j \in Nat : j = (b - to) + 1 /\ j \in 1 .. elem /\ j - 1 = b - to
      BY <3>1
    <3>4. Moves(ops, j, reads[b], b)
      BY <2>5, <3>1, <3>2, <3>3
    <3>. QED  BY <3>4
  <2>8. ASSUME NEW j \in Nat, NEW k \in Nat, NEW b, Moves(ops, j, reads[b], b), Moves(ops, k, reads[b], b)
        PROVE  j = k
    <3>1. b = to + (j - 1) /\ b = to + (k - 1)
      BY <2>5, <2>8
    <3>. QED  BY <3>1
  <2>9. PICK Y : Y = X
    OBVIOUS
  <2>10. \A j, a, b : Moves(ops, j, a, b) => j \in Nat /\ b \in Y /\ a = reads[b]
    BY ONLY <2>6, <2>9
  <2>11. \A b \in Y : \E j \in Nat : Moves(ops, j, reads[b], b)
    BY ONLY <2>7, <2>9, 1 \in Nat
  <2>12. \A j, k \in Nat : \A b \in Y : Moves(ops, j, reads[b], b) /\ Moves(ops, k, reads[b], b) => j = k
    BY ONLY <2>8, <2>9
  <2>13. Single(ops, reads, Y)
    BY ONLY <2>3, <2>10, <2>11, <2>12 DEF Single
  <2>. QED  BY <2>9, <2>13 DEF ops
<1>. QED  BY <1>1, <1>2

\* Thread t handles row r of rows many.
Rower(t, rows, r) ==
  t[1] = 0 /\ t[2] = "rows" /\ \E i \in DOMAIN OfLane(rows, t[3]) : OfLane(rows, t[3])[i] = r

LEMMA RowerIs ==
  ASSUME NEW rows \in Nat
  PROVE  /\ \A t, u \in Threads : \A r : Rower(t, rows, r) /\ Rower(u, rows, r) => t = u
         /\ \A r \in 0 .. rows - 1 : \E t \in Threads : Rower(t, rows, r)
<1>1. ASSUME NEW t \in Threads, NEW u \in Threads, NEW r, Rower(t, rows, r), Rower(u, rows, r) PROVE t = u
  <2>1. t[1] = u[1] /\ t[2] = u[2] /\ t = <<t[1], t[2], t[3]>> /\ u = <<u[1], u[2], u[3]>>
    BY <1>1, ThreadParts DEF Rower
  <2>2. PICK lane \in Nat, other \in Nat : lane = t[3] /\ other = u[3]
    BY ThreadParts
  <2>3. PICK i \in DOMAIN OfLane(rows, lane) : OfLane(rows, lane)[i] = r
    BY <1>1, <2>2 DEF Rower
  <2>4. PICK h \in DOMAIN OfLane(rows, other) : OfLane(rows, other)[h] = r
    BY <1>1, <2>2 DEF Rower
  <2>5. r \in Int
    <3>1. rows \in Int
      OBVIOUS
    <3>. QED  BY <2>3, <3>1, OfLaneIs
  <2>6. OfLane(rows, lane)[i] <= OfLane(rows, other)[h] /\ OfLane(rows, lane)[i] = OfLane(rows, other)[h]
    BY <2>3, <2>4, <2>5
  <2>7. lane = other
    BY <2>6, LaneOrder
  <2>. QED  BY <2>1, <2>2, <2>7
<1>2. ASSUME NEW r \in 0 .. rows - 1 PROVE \E t \in Threads : Rower(t, rows, r)
  <2>1. PICK lane \in 0 .. Lanes - 1 : \E i \in DOMAIN OfLane(rows, lane) : OfLane(rows, lane)[i] = r
    BY LaneCovers
  <2>2. lane \in Nat /\ lane < Lanes /\ 0 \in 0 .. Tiles - 1
    BY SizesAssumption
  <2>3. PICK t \in Threads : t = <<0, "rows", lane>>
    BY <2>2, ThreadIs
  <2>4. t[1] = 0 /\ t[2] = "rows" /\ t[3] = lane
    BY <2>3
  <2>. QED  BY <2>1, <2>4 DEF Rower
<1>. QED  BY <1>1, <1>2

\* What a thread does for a token of the rows of its lane: rows at the offsets off.
RowsOps(src, dst, rows, off, elem, t) ==
  IF t[1] # 0 \/ t[2] # "rows" THEN << >>
  ELSE FlattenSeq([i \in DOMAIN OfLane(rows, t[3]) |->
                     ElementOps(src + off[OfLane(rows, t[3])[i]], dst + off[OfLane(rows, t[3])[i]], elem)])

RowsProgram(P, src, dst, rows, off, elem) == P = [t \in Threads |-> RowsOps(src, dst, rows, off, elem, t)]

\* Rows that do not overlap.
Apart(off, rows, elem) ==
  /\ off \in [0 .. rows - 1 -> Int]
  /\ \A r, q \in 0 .. rows - 1 : r < q => off[r] + elem <= off[q]

RowBytes(dst, off, elem, r) == dst + off[r] .. dst + off[r] + elem - 1

\* X are the bytes of the token in all rows, to be read from src.
RowsOnto(reads, X, src, dst, rows, off, elem) ==
  /\ \A r \in 0 .. rows - 1 : Onto(reads, src + off[r], dst + off[r], elem)
  /\ \A b : b \in X <=> \E r \in 0 .. rows - 1 : b \in RowBytes(dst, off, elem, r)

LEMMA RowOnce ==
  ASSUME NEW dst \in Int, NEW rows \in Nat, NEW elem \in Nat \ {0}, NEW off, Apart(off, rows, elem),
         NEW r \in 0 .. rows - 1, NEW q \in 0 .. rows - 1, NEW b, b \in RowBytes(dst, off, elem, r), b \in RowBytes(dst, off, elem, q)
  PROVE  r = q
<1>1. off[r] \in Int /\ off[q] \in Int /\ (r < q => off[r] + elem <= off[q]) /\ (q < r => off[q] + elem <= off[r])
  BY DEF Apart
<1>2. PICK e \in Int, f \in Int : e = off[r] /\ f = off[q]
  BY <1>1
<1>3. b \in dst + e .. dst + e + elem - 1 /\ b \in dst + f .. dst + f + elem - 1
  BY <1>2 DEF RowBytes
<1>4. ~(e + elem <= f) /\ ~(f + elem <= e)
  BY ONLY <1>3, dst \in Int, e \in Int, f \in Int, elem \in Nat \ {0}
<1>5. r \in Int /\ q \in Int
  OBVIOUS
<1>. QED  BY ONLY <1>1, <1>2, <1>4, <1>5

LEMMA RowsCarry ==
  ASSUME NEW src \in Int, NEW dst \in Int, NEW rows \in Nat, NEW elem \in Nat \ {0}, NEW off, Apart(off, rows, elem),
         NEW P, RowsProgram(P, src, dst, rows, off, elem), NEW reads, NEW X, RowsOnto(reads, X, src, dst, rows, off, elem)
  PROVE  /\ Carries(P, reads, X)
         /\ \A t \in Threads, r \in 0 .. rows - 1 : \A j, a, b :
              Moves(P[t], j, a, b) /\ b \in RowBytes(dst, off, elem, r) => Rower(t, rows, r)
<1>. DEFINE Busy_(t) == t[1] = 0 /\ t[2] = "rows"
            At(t, i) == OfLane(rows, t[3])[i]
<1>1. PICK N : N = [t \in Threads |-> IF Busy_(t) THEN Len(OfLane(rows, t[3])) ELSE 0]
  OBVIOUS
<1>2. PICK Parts : Parts = [t \in Threads |-> [i \in 1 .. N[t] |-> ElementOps(src + off[At(t, i)], dst + off[At(t, i)], elem)]]
  OBVIOUS
<1>3. PICK Y : Y = [t \in Threads |-> [i \in 1 .. N[t] |-> RowBytes(dst, off, elem, At(t, i))]]
  OBVIOUS
<1>4. \A t \in Threads : N[t] \in Nat /\ (Busy_(t) => 1 .. N[t] = DOMAIN OfLane(rows, t[3])) /\ (~Busy_(t) => N[t] = 0)
  <2>1. TAKE t \in Threads
  <2>2. PICK lane \in Nat : lane = t[3]
    BY ThreadParts
  <2>3. PICK len \in Nat : DOMAIN OfLane(rows, lane) = 1 .. len
    <3>1. rows \in Int
      OBVIOUS
    <3>. QED  BY <3>1, OfLaneIs
  <2>4. Len(OfLane(rows, lane)) = len
    BY <2>3
  <2>. QED  BY <1>1, <2>2, <2>3, <2>4
<1>5. \A t \in Threads : \A i \in 1 .. N[t] : Busy_(t) /\ i \in DOMAIN OfLane(rows, t[3]) /\ At(t, i) \in 0 .. rows - 1
  <2>1. TAKE t \in Threads
  <2>2. TAKE i \in 1 .. N[t]
  <2>3. PICK lane \in Nat : lane = t[3]
    BY ThreadParts
  <2>4. Busy_(t)
    BY <1>4
  <2>5. i \in DOMAIN OfLane(rows, lane) /\ rows \in Int
    BY <1>4, <2>3, <2>4
  <2>6. OfLane(rows, lane)[i] \in 0 .. rows - 1
    BY <2>5, OfLaneIs
  <2>. QED  BY <2>3, <2>4, <2>5, <2>6
<1>6. ASSUME NEW t \in Threads, NEW i \in 1 .. N[t] PROVE Single(Parts[t][i], reads, Y[t][i])
  <2>1. PICK r \in 0 .. rows - 1 : r = At(t, i)
    BY <1>5
  <2>2. off[r] \in Int
    BY DEF Apart
  <2>3. PICK from \in Int, to \in Int : from = src + off[r] /\ to = dst + off[r]
    BY <2>2
  <2>4. Onto(reads, from, to, elem)
    BY <2>3 DEF RowsOnto
  <2>5. Single(ElementOps(from, to, elem), reads, to .. to + elem - 1)
    BY <2>4, ElementSingle
  <2>6. Parts[t][i] = ElementOps(from, to, elem)
    BY <1>2, <2>1, <2>3
  <2>7. Y[t][i] = to .. to + elem - 1
    BY <1>3, <2>1, <2>3 DEF RowBytes
  <2>. QED  BY <2>5, <2>6, <2>7
<1>7. ASSUME NEW t \in Threads
      PROVE  P[t] \in Seq(Ops) /\ \E before \in [1 .. N[t] -> Nat] : InParts(P[t], Parts[t], before, N[t])
  <2>1. PICK len \in Nat : len = N[t]
    BY <1>4
  <2>2. Parts[t] \in [1 .. len -> Seq(Ops)]
    <3>1. \A i \in 1 .. len : Parts[t][i] \in Seq(Ops)
      BY <1>6, <2>1 DEF Single
    <3>. QED  BY <1>2, <2>1, <3>1
  <2>3. CASE Busy_(t)
    <3>1. P[t] = RowsOps(src, dst, rows, off, elem, t)
      BY DEF RowsProgram
    <3>2. P[t] = FlattenSeq([i \in DOMAIN OfLane(rows, t[3]) |->
                     ElementOps(src + off[OfLane(rows, t[3])[i]], dst + off[OfLane(rows, t[3])[i]], elem)])
      BY <2>3, <3>1 DEF RowsOps
    <3>3. Parts[t] = [i \in 1 .. N[t] |-> ElementOps(src + off[At(t, i)], dst + off[At(t, i)], elem)]
      BY <1>2
    <3>4. 1 .. N[t] = DOMAIN OfLane(rows, t[3])
      BY <1>4, <2>3
    <3>5. P[t] = FlattenSeq(Parts[t])
      BY ONLY <3>2, <3>3, <3>4
    <3>. QED  BY <2>1, <2>2, <3>5, FlatMoves
  <2>4. CASE ~Busy_(t)
    <3>1. P[t] = << >> /\ len = 0
      BY <1>4, <2>1, <2>4 DEF RowsProgram, RowsOps
    <3>8. << >> \in Seq(Ops) /\ DOMAIN << >> = {}
      OBVIOUS
    <3>2. PICK empty : empty = << >> /\ empty \in Seq(Ops) /\ DOMAIN empty = {}
      BY <3>8
    <3>3. \A j, a, b : ~Moves(empty, j, a, b)
      BY <3>2 DEF Moves
    <3>4. 1 .. len = {}
      BY <3>1
    <3>5. PICK before : before = [i \in 1 .. len |-> 0]
      OBVIOUS
    <3>6. before \in [1 .. len -> Nat]
      BY <3>5
    <3>7. InParts(empty, Parts[t], before, len)
      BY ONLY <3>3, <3>4 DEF InParts
    <3>. QED  BY <2>1, <3>1, <3>2, <3>6, <3>7
  <2>. QED  BY <2>3, <2>4
<1>8. ASSUME NEW t \in Threads, NEW u \in Threads, NEW i \in 1 .. N[t], NEW h \in 1 .. N[u], NEW b, b \in Y[t][i], b \in Y[u][h]
      PROVE  t = u /\ i = h
  <2>1. PICK r \in 0 .. rows - 1, q \in 0 .. rows - 1 : r = At(t, i) /\ q = At(u, h)
    BY <1>5
  <2>2. b \in RowBytes(dst, off, elem, r) /\ b \in RowBytes(dst, off, elem, q)
    BY <1>3, <1>8, <2>1
  <2>3. r = q
    BY <2>2, RowOnce
  <2>4. Rower(t, rows, r) /\ Rower(u, rows, r)
    BY <1>5, <2>1, <2>3 DEF Rower
  <2>5. t = u
    BY <2>4, RowerIs
  <2>6. PICK lane \in Nat : lane = t[3]
    BY ThreadParts
  <2>7. i \in DOMAIN OfLane(rows, lane) /\ h \in DOMAIN OfLane(rows, lane) /\ OfLane(rows, lane)[i] = r /\ OfLane(rows, lane)[h] = r
    BY <1>5, <2>1, <2>3, <2>5, <2>6
  <2>8. OfLane(rows, lane)[i] <= OfLane(rows, lane)[h] /\ OfLane(rows, lane)[i] = OfLane(rows, lane)[h]
    BY <2>7
  <2>9. i = h
    BY <2>7, <2>8, LaneOrder
  <2>. QED  BY <2>5, <2>9
<1>9. ASSUME NEW b PROVE b \in X <=> \E t \in Threads : \E i \in 1 .. N[t] : b \in Y[t][i]
  <2>1. ASSUME NEW r \in 0 .. rows - 1, b \in RowBytes(dst, off, elem, r)
        PROVE  \E t \in Threads : \E i \in 1 .. N[t] : b \in Y[t][i]
    <3>1. PICK t \in Threads : Rower(t, rows, r)
      BY RowerIs
    <3>2. PICK i \in 1 .. N[t] : At(t, i) = r
      BY <1>4, <3>1 DEF Rower
    <3>. QED  BY <1>3, <2>1, <3>2
  <2>2. ASSUME NEW t \in Threads, NEW i \in 1 .. N[t], b \in Y[t][i]
        PROVE  \E r \in 0 .. rows - 1 : b \in RowBytes(dst, off, elem, r)
    <3>1. At(t, i) \in 0 .. rows - 1 /\ b \in RowBytes(dst, off, elem, At(t, i))
      BY <1>3, <1>5, <2>2
    <3>. QED  BY <3>1
  <2>3. b \in X <=> \E r \in 0 .. rows - 1 : b \in RowBytes(dst, off, elem, r)
    BY DEF RowsOnto
  <2>. QED  BY ONLY <2>1, <2>2, <2>3
<1>10. DOMAIN P = Threads
  BY DEF RowsProgram
<1>11. Gathers(P, Parts, N, Y, reads, X)
  <2>1. \A t \in Threads : /\ N[t] \in Nat /\ P[t] \in Seq(Ops)
                           /\ \E before \in [1 .. N[t] -> Nat] : InParts(P[t], Parts[t], before, N[t])
    BY ONLY <1>4, <1>7
  <2>. QED  BY ONLY <1>6, <1>8, <1>9, <1>10, <2>1 DEF Gathers
<1>12. Carries(P, reads, X) /\ \A t \in Threads : \A j, a, b : Moves(P[t], j, a, b) => \E i \in 1 .. N[t] : b \in Y[t][i]
  BY <1>11, Gather
<1>13. ASSUME NEW t \in Threads, NEW r \in 0 .. rows - 1, NEW j, NEW a, NEW b,
              Moves(P[t], j, a, b), b \in RowBytes(dst, off, elem, r)
       PROVE  Rower(t, rows, r)
  <2>1. PICK i \in 1 .. N[t] : b \in Y[t][i]
    BY <1>12, <1>13
  <2>2. PICK q \in 0 .. rows - 1 : q = At(t, i)
    BY <1>5
  <2>3. b \in RowBytes(dst, off, elem, q)
    BY <1>3, <2>1, <2>2
  <2>4. q = r
    BY <1>13, <2>3, RowOnce
  <2>. QED  BY <1>5, <2>2, <2>4 DEF Rower
<1>. QED  BY ONLY <1>12, <1>13

\* The tokens of a row: the k-th starts D[k] - D[1] into it, and width of them fit
\* the span of a row.
Window(D, elem, width, span) ==
  /\ D \in [Int -> Int]
  /\ \A k \in 1 .. width : D[1] <= D[k] /\ D[k] + elem <= D[1] + span
  /\ \A k, m \in Int : k < m => D[k] + elem <= D[m]

Grid(D, elem, width, off, rows, span) == Window(D, elem, width, span) /\ Apart(off, rows, span)

OneCell(D, elem, width, off, rows) ==
  \A k, m \in 1 .. width, r, q \in 0 .. rows - 1 : \A b :
    b \in RowBytes(D[k], off, elem, r) /\ b \in RowBytes(D[m], off, elem, q) => r = q /\ k = m

LEMMA RowAndToken ==
  ASSUME NEW rows \in Nat, NEW elem \in Nat \ {0}, NEW width \in Nat, NEW span \in Nat \ {0}, NEW off, NEW D,
         Grid(D, elem, width, off, rows, span)
  PROVE  OneCell(D, elem, width, off, rows)
<1>. SUFFICES ASSUME NEW k \in 1 .. width, NEW m \in 1 .. width, NEW r \in 0 .. rows - 1, NEW q \in 0 .. rows - 1, NEW b,
                     b \in RowBytes(D[k], off, elem, r), b \in RowBytes(D[m], off, elem, q)
              PROVE  r = q /\ k = m
  BY DEF OneCell
<1>0. Window(D, elem, width, span) /\ Apart(off, rows, span)
  BY DEF Grid
<1>1. /\ D[1] \in Int /\ D[k] \in Int /\ D[m] \in Int /\ D[1] <= D[k] /\ D[k] + elem <= D[1] + span
      /\ D[1] <= D[m] /\ D[m] + elem <= D[1] + span
      /\ (k < m => D[k] + elem <= D[m]) /\ (m < k => D[m] + elem <= D[k])
  BY <1>0 DEF Window
<1>2. off[r] \in Int /\ off[q] \in Int
  BY <1>0 DEF Apart
<1>3. PICK g \in Int, e \in Int, f \in Int, x \in Int, y \in Int : g = D[1] /\ e = D[k] /\ f = D[m] /\ x = off[r] /\ y = off[q]
  BY <1>1, <1>2
<1>4. b \in e + x .. e + x + elem - 1 /\ b \in f + y .. f + y + elem - 1
  BY <1>3 DEF RowBytes
<1>5. g <= e /\ e + elem <= g + span /\ g <= f /\ f + elem <= g + span
  BY ONLY <1>1, <1>3
<1>6. b \in g + x .. g + x + span - 1 /\ b \in g + y .. g + y + span - 1
  BY ONLY <1>4, <1>5, g \in Int, e \in Int, f \in Int, x \in Int, y \in Int, elem \in Nat, span \in Nat
<1>7. b \in RowBytes(g, off, span, r) /\ b \in RowBytes(g, off, span, q)
  BY ONLY <1>3, <1>6 DEF RowBytes
<1>8. r = q
  BY <1>0, <1>7, RowOnce
<1>9. ~(e + elem <= f) /\ ~(f + elem <= e)
  <2>1. x = y
    BY ONLY <1>3, <1>8
  <2>. QED  BY ONLY <1>4, <2>1, e \in Int, f \in Int, x \in Int, y \in Int, elem \in Nat
<1>10. k \in Int /\ m \in Int
  OBVIOUS
<1>. QED  BY ONLY <1>1, <1>3, <1>8, <1>9, <1>10

\* The rows of a window, moved token by token.
DsMove(P, Part, reads, X, D, delta, rows, off, elem, kept) ==
  /\ Chained(P, Part, kept)
  /\ \A k \in 1 .. kept : RowsProgram(Part[k], D[k] + delta, D[k], rows, off, elem)
  /\ \A b : b \in X <=> \E k \in 1 .. kept, r \in 0 .. rows - 1 : b \in RowBytes(D[k], off, elem, r)
  /\ \A b \in X : reads[b] = b + delta

\* If delta is some tokens, a token is read before it is overwritten.
ShiftsKeepOrder(P, reads, X, D, delta, width, kept) ==
  \A bias \in Nat \ {0}, barrier \in BOOLEAN :
    kept + bias <= width /\ (\A k \in Int : D[k + bias] = D[k] + delta) => OrderKept(P, reads, X, barrier)

LEMMA DsCarries ==
  ASSUME NEW rows \in Nat, NEW elem \in Nat \ {0}, NEW width \in Nat, NEW span \in Nat \ {0}, NEW off, NEW D,
         Window(D, elem, width, span), Apart(off, rows, span), NEW kept \in 0 .. width, NEW delta \in Int,
         NEW P, NEW Part, NEW reads, NEW X, DsMove(P, Part, reads, X, D, delta, rows, off, elem, kept)
  PROVE  Carries(P, reads, X) /\ ShiftsKeepOrder(P, reads, X, D, delta, width, kept)
<1>. SUFFICES /\ Carries(P, reads, X)
              /\ \A bias \in Nat \ {0}, barrier \in BOOLEAN :
                   kept + bias <= width /\ (\A k \in Int : D[k + bias] = D[k] + delta) => OrderKept(P, reads, X, barrier)
  BY DEF ShiftsKeepOrder
<1>20. \A k, m \in 1 .. width, r, q \in 0 .. rows - 1 : \A b :
          b \in RowBytes(D[k], off, elem, r) /\ b \in RowBytes(D[m], off, elem, q) => r = q /\ k = m
  <2>1. Grid(D, elem, width, off, rows, span)
    BY ONLY Window(D, elem, width, span), Apart(off, rows, span) DEF Grid
  <2>2. OneCell(D, elem, width, off, rows)
    BY ONLY <2>1, rows \in Nat, elem \in Nat \ {0}, width \in Nat, span \in Nat \ {0}, RowAndToken
  <2>. QED  BY ONLY <2>2 DEF OneCell
<1>1. PICK Y : Y = [k \in 1 .. kept |-> {b \in X : \E r \in 0 .. rows - 1 : b \in RowBytes(D[k], off, elem, r)}]
  OBVIOUS
<1>2. \A k \in 1 .. kept : k \in 1 .. width /\ k \in Int
  OBVIOUS
<1>3. \A k \in 1 .. kept : \A b : b \in Y[k] <=> \E r \in 0 .. rows - 1 : b \in RowBytes(D[k], off, elem, r)
  <2>1. ASSUME NEW k \in 1 .. kept, NEW b, NEW r \in 0 .. rows - 1, b \in RowBytes(D[k], off, elem, r) PROVE b \in X
    BY <2>1 DEF DsMove
  <2>. QED  BY <1>1, <2>1
<1>4. Apart(off, rows, elem) \/ kept = 0
  <2>1. CASE kept # 0
    <3>1. 1 \in 1 .. width
      BY <2>1
    <3>2. D[1] \in Int /\ D[1] + elem <= D[1] + span
      BY <3>1 DEF Window
    <3>3. elem <= span
      <4>1. PICK g \in Int : g = D[1]
        BY <3>2
      <4>. QED  BY <3>2, <4>1
    <3>4. off \in [0 .. rows - 1 -> Int]
      BY DEF Apart
    <3>5. ASSUME NEW r \in 0 .. rows - 1, NEW q \in 0 .. rows - 1, r < q PROVE off[r] + elem <= off[q]
      <4>1. off[r] + span <= off[q]
        BY <3>5 DEF Apart
      <4>2. PICK x \in Int, y \in Int : x = off[r] /\ y = off[q]
        BY <3>4
      <4>. QED  BY <3>3, <4>1, <4>2
    <3>. QED  BY <3>4, <3>5 DEF Apart
  <2>. QED  BY <2>1
<1>5. ASSUME NEW k \in 1 .. kept
      PROVE  /\ DOMAIN Part[k] = Threads /\ Carries(Part[k], reads, Y[k])
             /\ \A t \in Threads, r \in 0 .. rows - 1 : \A j, a, b :
                  Moves(Part[k][t], j, a, b) /\ b \in RowBytes(D[k], off, elem, r) => Rower(t, rows, r)
  <2>1. D[k] \in Int
    BY <1>2 DEF Window
  <2>2. PICK dst \in Int, src \in Int : dst = D[k] /\ src = D[k] + delta /\ src = dst + delta
    BY <2>1
  <2>3. PICK part, y : part = Part[k] /\ y = Y[k]
    OBVIOUS
  <2>4. RowsProgram(part, src, dst, rows, off, elem)
    BY <2>2, <2>3 DEF DsMove
  <2>5. kept # 0
    OBVIOUS
  <2>6. Apart(off, rows, elem)
    BY <1>4, <2>5
  <2>7. \A b : b \in y <=> \E r \in 0 .. rows - 1 : b \in RowBytes(dst, off, elem, r)
    BY ONLY <1>3, <2>2, <2>3, k \in 1 .. kept
  <2>8. ASSUME NEW r \in 0 .. rows - 1 PROVE Onto(reads, src + off[r], dst + off[r], elem)
    <3>1. PICK o \in Int : o = off[r]
      BY DEF Apart
    <3>2. ASSUME NEW x \in 0 .. elem - 1 PROVE reads[(dst + o) + x] = (src + o) + x
      <4>1. (dst + o) + x \in dst + o .. dst + o + elem - 1
        OBVIOUS
      <4>2. (dst + o) + x \in RowBytes(D[k], off, elem, r)
        BY ONLY <2>2, <3>1, <4>1 DEF RowBytes
      <4>3. (dst + o) + x \in X
        BY <4>2 DEF DsMove
      <4>4. reads[(dst + o) + x] = ((dst + o) + x) + delta
        BY <4>3 DEF DsMove
      <4>5. ((dst + o) + x) + delta = (src + o) + x
        BY ONLY <2>2, dst \in Int, o \in Int, x \in 0 .. elem - 1, delta \in Int
      <4>. QED  BY ONLY <4>4, <4>5
    <3>. QED  BY ONLY <3>1, <3>2 DEF Onto
  <2>9. RowsOnto(reads, y, src, dst, rows, off, elem)
    BY ONLY <2>7, <2>8 DEF RowsOnto
  <2>10. Carries(part, reads, y)
    BY <2>4, <2>6, <2>9, RowsCarry
  <2>11. \A t \in Threads, r \in 0 .. rows - 1 : \A j, a, b :
              Moves(part[t], j, a, b) /\ b \in RowBytes(dst, off, elem, r) => Rower(t, rows, r)
    BY <2>4, <2>6, <2>9, RowsCarry
  <2>12. DOMAIN part = Threads
    BY <2>4 DEF RowsProgram
  <2>. QED  BY ONLY <2>2, <2>3, <2>10, <2>11, <2>12
<1>6. \A k, m \in 1 .. kept : \A b : b \in Y[k] /\ b \in Y[m] => k = m
  <2>. SUFFICES ASSUME NEW k \in 1 .. kept, NEW m \in 1 .. kept, NEW b, b \in Y[k], b \in Y[m] PROVE k = m
    OBVIOUS
  <2>1. PICK r \in 0 .. rows - 1 : b \in RowBytes(D[k], off, elem, r)
    BY <1>3
  <2>2. PICK q \in 0 .. rows - 1 : b \in RowBytes(D[m], off, elem, q)
    BY <1>3
  <2>3. k \in 1 .. width /\ m \in 1 .. width
    BY <1>2
  <2>. QED  BY ONLY <1>20, <2>1, <2>2, <2>3, r \in 0 .. rows - 1, q \in 0 .. rows - 1
<1>7. X = UNION {Y[k] : k \in 1 .. kept}
  <2>1. \A b \in X : \E k \in 1 .. kept : b \in Y[k]
    BY <1>1 DEF DsMove
  <2>2. \A k \in 1 .. kept : Y[k] \subseteq X
    BY <1>1
  <2>. QED  BY ONLY <2>1, <2>2
<1>8. Partition(Part, reads, Y, kept, X)
  BY ONLY <1>5, <1>6, <1>7 DEF Partition
<1>9. Chained(P, Part, kept) /\ kept \in Nat
  BY DEF DsMove
<1>10. Carries(P, reads, X)
  BY ONLY <1>8, <1>9, InTurn
<1>11. \A t \in Threads, k \in 1 .. kept : \A j, b :
          b \in Y[k] /\ Moves(P[t], j, reads[b], b) => \E x \in Nat : Moves(Part[k][t], x, reads[b], b)
  BY ONLY <1>8, <1>9, InTurn
<1>12. \A t \in Threads, k, m \in 1 .. kept : \A j, l, b, d :
          /\ b \in Y[k] /\ d \in Y[m] /\ k < m
          /\ Moves(P[t], j, reads[b], b) /\ Moves(P[t], l, reads[d], d)
          => j < l
  BY ONLY <1>8, <1>9, InTurn
<1>13. ASSUME NEW bias \in Nat \ {0}, NEW barrier \in BOOLEAN, kept + bias <= width, \A k \in Int : D[k + bias] = D[k] + delta
       PROVE  OrderKept(P, reads, X, barrier)
  <2>1. ASSUME NEW t \in Threads, NEW u \in Threads, NEW j \in Nat, NEW l \in Nat, NEW b \in X, NEW d \in X,
               Moves(P[t], j, reads[b], b), Moves(P[u], l, reads[d], d), reads[b] = d
        PROVE  j <= l /\ t = u
    <3>1. PICK k \in 1 .. kept, r \in 0 .. rows - 1 : b \in RowBytes(D[k], off, elem, r) /\ b \in Y[k]
      <4>1. PICK k \in 1 .. kept, r \in 0 .. rows - 1 : b \in RowBytes(D[k], off, elem, r)
        BY DEF DsMove
      <4>. QED  BY <1>3, <4>1
    <3>2. PICK m \in 1 .. kept, q \in 0 .. rows - 1 : d \in RowBytes(D[m], off, elem, q) /\ d \in Y[m]
      <4>1. PICK m \in 1 .. kept, q \in 0 .. rows - 1 : d \in RowBytes(D[m], off, elem, q)
        BY DEF DsMove
      <4>. QED  BY <1>3, <4>1
    <3>3. d = b + delta
      BY <2>1 DEF DsMove
    <3>4. D[k] \in Int /\ D[k + bias] = D[k] + delta /\ off[r] \in Int
      BY <1>2, <1>13 DEF Window, Apart
    <3>5. PICK e \in Int, o \in Int, f \in Int : e = D[k] /\ f = e + delta /\ f = D[k + bias] /\ o = off[r]
      BY <3>4
    <3>6. b \in e + o .. e + o + elem - 1
      BY <3>1, <3>5 DEF RowBytes
    <3>7. d \in f + o .. f + o + elem - 1
      BY ONLY <3>3, <3>5, <3>6, e \in Int, o \in Int, delta \in Int, elem \in Nat
    <3>8. d \in RowBytes(D[k + bias], off, elem, r)
      BY <3>5, <3>7 DEF RowBytes
    <3>9. k + bias \in 1 .. width /\ m \in 1 .. width
      BY <1>2, <1>13
    <3>10. q = r /\ m = k + bias
      BY ONLY <1>20, <3>2, <3>8, <3>9, r \in 0 .. rows - 1, q \in 0 .. rows - 1
    <3>11. PICK x \in Nat : Moves(Part[k][t], x, reads[b], b)
      BY ONLY <1>11, <2>1, <3>1, t \in Threads, k \in 1 .. kept
    <3>12. PICK y \in Nat : Moves(Part[m][u], y, reads[d], d)
      BY ONLY <1>11, <2>1, <3>2, u \in Threads, m \in 1 .. kept
    <3>13. Rower(t, rows, r) /\ Rower(u, rows, r)
      BY <1>5, <3>1, <3>2, <3>10, <3>11, <3>12
    <3>14. t = u
      BY <3>13, RowerIs
    <3>15. k < m
      BY <3>10
    <3>16. j < l
      BY ONLY <1>12, <2>1, <3>1, <3>2, <3>14, <3>15, t \in Threads, k \in 1 .. kept, m \in 1 .. kept
    <3>. QED  BY <3>14, <3>16
  <2>2. DOMAIN P = Threads
    BY <1>9 DEF Chained
  <2>3. ASSUME NEW t \in Threads, NEW u \in Threads, NEW j \in Nat, NEW l \in Nat, NEW b \in X, NEW d \in X,
               Moves(P[t], j, reads[b], b) /\ Moves(P[u], l, reads[d], d) /\ reads[b] = d
        PROVE  j <= l /\ (t = u \/ barrier)
    BY ONLY <2>1, <2>3, t \in Threads, u \in Threads, j \in Nat, l \in Nat, b \in X, d \in X
  <2>. QED  BY ONLY <2>2, <2>3 DEF OrderKept
<1>. QED  BY <1>10, <1>13

\* What batch_memcpy_kernel moves: a byte is moved by the thread and in the iteration
\* that handle its offset.
BatchMove(P, e) == P = [t \in Threads |-> BatchProgram(e, t)]

Byter(t, size, j, x) ==
  t[1] = 0 /\ t[2] = "bytes" /\ j \in DOMAIN OfLane(size, t[3]) /\ OfLane(size, t[3])[j] = x

LEMMA ByterIs ==
  ASSUME NEW size \in Nat
  PROVE  /\ \A t, u \in Threads : \A j, l, x, y :
              Byter(t, size, j, x) /\ Byter(u, size, l, y) /\ x <= y => j <= l /\ (x = y => t = u /\ j = l)
         /\ \A x \in 0 .. size - 1 : \E t \in Threads, j \in Nat : Byter(t, size, j, x)
         /\ \A t \in Threads : \A j, x : Byter(t, size, j, x) => j \in Nat /\ x \in 0 .. size - 1
<1>1. ASSUME NEW t \in Threads, NEW u \in Threads, NEW j, NEW l, NEW x, NEW y, Byter(t, size, j, x), Byter(u, size, l, y), x <= y
      PROVE  j <= l /\ (x = y => t = u /\ j = l)
  <2>1. t[1] = u[1] /\ t[2] = u[2] /\ t = <<t[1], t[2], t[3]>> /\ u = <<u[1], u[2], u[3]>>
    BY <1>1, ThreadParts DEF Byter
  <2>2. PICK lane \in Nat, other \in Nat : lane = t[3] /\ other = u[3]
    BY ThreadParts
  <2>3. j \in DOMAIN OfLane(size, lane) /\ l \in DOMAIN OfLane(size, other)
        /\ OfLane(size, lane)[j] = x /\ OfLane(size, other)[l] = y
    BY <1>1, <2>2 DEF Byter
  <2>4. OfLane(size, lane)[j] <= OfLane(size, other)[l]
    BY <1>1, <2>3
  <2>5. j <= l /\ (OfLane(size, lane)[j] = OfLane(size, other)[l] => lane = other /\ j = l)
    BY ONLY <2>3, <2>4, size \in Nat, lane \in Nat, other \in Nat, LaneOrder
  <2>. QED  BY <2>1, <2>2, <2>3, <2>5
<1>2. ASSUME NEW x \in 0 .. size - 1 PROVE \E t \in Threads : \E j \in DOMAIN OfLane(size, t[3]) : Byter(t, size, j, x)
  <2>1. PICK lane \in 0 .. Lanes - 1 : \E i \in DOMAIN OfLane(size, lane) : OfLane(size, lane)[i] = x
    BY LaneCovers
  <2>2. lane \in Nat /\ lane < Lanes /\ 0 \in 0 .. Tiles - 1
    BY SizesAssumption
  <2>3. PICK t \in Threads : t = <<0, "bytes", lane>>
    BY <2>2, ThreadIs
  <2>4. t[1] = 0 /\ t[2] = "bytes" /\ t[3] = lane
    BY <2>3
  <2>. QED  BY <2>1, <2>4 DEF Byter
<1>3. ASSUME NEW t \in Threads, NEW j, NEW x, Byter(t, size, j, x) PROVE j \in Nat /\ x \in 0 .. size - 1
  <2>1. PICK lane \in Nat : lane = t[3]
    BY ThreadParts
  <2>2. j \in DOMAIN OfLane(size, lane) /\ OfLane(size, lane)[j] = x /\ size \in Int
    BY <1>3, <2>1 DEF Byter
  <2>3. PICK len \in Nat : DOMAIN OfLane(size, lane) = 1 .. len
    BY <2>2, OfLaneIs
  <2>4. \A i \in DOMAIN OfLane(size, lane) : OfLane(size, lane)[i] \in 0 .. size - 1
    BY <2>2, OfLaneIs
  <2>5. j \in 1 .. len
    BY ONLY <2>2, <2>3
  <2>6. x \in 0 .. size - 1
    BY ONLY <2>2, <2>4
  <2>. QED  BY <2>5, <2>6
<1>4. \A x \in 0 .. size - 1 : \E t \in Threads, j \in Nat : Byter(t, size, j, x)
  BY <1>2, <1>3
<1>. QED  BY <1>1, <1>3, <1>4

BatchOf(P, e, src, dst, size) == BatchMove(P, e) /\ src = e.from /\ dst = e.to /\ size = e.size

\* Thread t moves the byte at a to b in iteration j.
Batched(t, j, src, dst, size, a, b) == \E x \in 0 .. size - 1 : Byter(t, size, j, x) /\ a = src + x /\ b = dst + x

LEMMA BatchMoves ==
  ASSUME NEW e, NEW src \in Int, NEW dst \in Int, NEW size \in Nat,
         NEW P, BatchOf(P, e, src, dst, size)
  PROVE  /\ DOMAIN P = Threads /\ \A t \in Threads : P[t] \in Seq(Ops)
         /\ \A t \in Threads : \A j, a, b : Moves(P[t], j, a, b) <=> Batched(t, j, src, dst, size, a, b)
<1>1. DOMAIN P = Threads
  BY DEF BatchOf, BatchMove
<1>2. ASSUME NEW t \in Threads
      PROVE  /\ P[t] \in Seq(Ops)
             /\ \A j, a, b :
                  Moves(P[t], j, a, b) <=> \E x \in 0 .. size - 1 : Byter(t, size, j, x) /\ a = src + x /\ b = dst + x
  <2>1. PICK lane \in Nat : lane = t[3]
    BY ThreadParts
  <2>2. PICK len \in Nat : DOMAIN OfLane(size, lane) = 1 .. len
    <3>1. size \in Int
      OBVIOUS
    <3>. QED  BY <3>1, OfLaneIs
  <2>3. \A i \in 1 .. len : OfLane(size, lane)[i] \in 0 .. size - 1
    <3>1. size \in Int
      OBVIOUS
    <3>. QED  BY <2>2, <3>1, OfLaneIs
  <2>4. P[t] = BatchProgram(e, t)
    BY DEF BatchOf, BatchMove
  <2>5. CASE t[1] = 0 /\ t[2] = "bytes"
    <3>1. P[t] = [i \in 1 .. len |-> Op(src + OfLane(size, lane)[i], dst + OfLane(size, lane)[i], 1)]
      BY <2>1, <2>2, <2>4, <2>5 DEF BatchProgram, BatchOf
    <3>2. ASSUME NEW i \in 1 .. len
          PROVE  /\ P[t][i] \in Ops /\ BytesOf(P[t][i]) = {0}
                 /\ P[t][i].from = src + OfLane(size, lane)[i] /\ P[t][i].to = dst + OfLane(size, lane)[i]
      <4>1. P[t][i] = [from |-> src + OfLane(size, lane)[i], to |-> dst + OfLane(size, lane)[i], len |-> 1]
        BY <3>1 DEF Op
      <4>2. src + OfLane(size, lane)[i] \in Int /\ dst + OfLane(size, lane)[i] \in Int
        BY <2>3
      <4>3. 0 .. 1 - 1 = {0}
        OBVIOUS
      <4>. QED  BY <4>1, <4>2, <4>3 DEF Ops, BytesOf
    <3>3. P[t] \in Seq(Ops) /\ DOMAIN P[t] = 1 .. len
      <4>1. P[t] \in [1 .. len -> Ops]
        BY <3>1, <3>2
      <4>. QED  BY <4>1
    <3>4. ASSUME NEW j, NEW a, NEW b
          PROVE  Moves(P[t], j, a, b) <=> j \in 1 .. len /\ a = src + OfLane(size, lane)[j] /\ b = dst + OfLane(size, lane)[j]
      <4>1. CASE j \notin 1 .. len
        BY <3>3, <4>1 DEF Moves
      <4>2. CASE j \in 1 .. len
        <5>4. OfLane(size, lane)[j] \in Int
          BY <2>3, <4>2
        <5>5. PICK y \in Int : y = OfLane(size, lane)[j]
          BY <5>4
        <5>6. PICK o : o = P[t][j]
          OBVIOUS
        <5>1. BytesOf(o) = {0} /\ o.from = src + y /\ o.to = dst + y
          BY ONLY <3>2, <4>2, <5>5, <5>6
        <5>2. (src + y) + 0 = src + y /\ (dst + y) + 0 = dst + y
          OBVIOUS
        <5>3. Moves(P[t], j, a, b) <=> a = o.from + 0 /\ b = o.to + 0
          BY <3>3, <4>2, <5>1, <5>6 DEF Moves
        <5>. QED  BY ONLY <4>2, <5>1, <5>2, <5>3, <5>5
      <4>. QED  BY <4>1, <4>2
    <3>5. \A j, x : Byter(t, size, j, x) <=> j \in 1 .. len /\ OfLane(size, lane)[j] = x
      BY <2>1, <2>2, <2>5 DEF Byter
    <3>6. \A j \in 1 .. len : OfLane(size, lane)[j] \in 0 .. size - 1
      BY ONLY <2>3
    <3>7. ASSUME NEW j, NEW a, NEW b
          PROVE  Moves(P[t], j, a, b) <=> \E x \in 0 .. size - 1 : Byter(t, size, j, x) /\ a = src + x /\ b = dst + x
      <4>1. ASSUME Moves(P[t], j, a, b)
            PROVE  \E x \in 0 .. size - 1 : Byter(t, size, j, x) /\ a = src + x /\ b = dst + x
        <5>1. j \in 1 .. len /\ a = src + OfLane(size, lane)[j] /\ b = dst + OfLane(size, lane)[j]
          BY ONLY <3>4, <4>1
        <5>2. Byter(t, size, j, OfLane(size, lane)[j]) /\ OfLane(size, lane)[j] \in 0 .. size - 1
          BY ONLY <3>5, <3>6, <5>1
        <5>. QED  BY ONLY <5>1, <5>2
      <4>2. ASSUME NEW x \in 0 .. size - 1, Byter(t, size, j, x), a = src + x, b = dst + x
            PROVE  Moves(P[t], j, a, b)
        <5>1. j \in 1 .. len /\ OfLane(size, lane)[j] = x
          BY ONLY <3>5, <4>2
        <5>. QED  BY ONLY <3>4, <4>2, <5>1
      <4>. QED  BY ONLY <4>1, <4>2
    <3>. QED  BY ONLY <3>3, <3>7
  <2>6. CASE ~(t[1] = 0 /\ t[2] = "bytes")
    <3>1. P[t] = << >>
      BY <2>4, <2>6 DEF BatchProgram
    <3>2. << >> \in Seq(Ops) /\ DOMAIN << >> = {}
      OBVIOUS
    <3>3. \A j, a, b : ~Moves(P[t], j, a, b)
      BY <3>1, <3>2 DEF Moves
    <3>4. \A j, x : ~Byter(t, size, j, x)
      BY <2>6 DEF Byter
    <3>. QED  BY <3>1, <3>2, <3>3, <3>4
  <2>. QED  BY <2>5, <2>6
<1>3. ASSUME NEW t \in Threads, NEW j, NEW a, NEW b PROVE Moves(P[t], j, a, b) <=> Batched(t, j, src, dst, size, a, b)
  <2>1. \A i, c, d : Moves(P[t], i, c, d) <=> \E x \in 0 .. size - 1 : Byter(t, size, i, x) /\ c = src + x /\ d = dst + x
    BY <1>2
  <2>2. Moves(P[t], j, a, b) <=> \E x \in 0 .. size - 1 : Byter(t, size, j, x) /\ a = src + x /\ b = dst + x
    BY ONLY <2>1
  <2>. QED  BY ONLY <2>2 DEF Batched
<1>. QED  BY <1>1, <1>2, <1>3

\* batch_memcpy_kernel copies to the left onto itself as well as between places apart.
LEMMA BatchCarries ==
  ASSUME NEW e, NEW src \in Int, NEW dst \in Int, NEW size \in Nat,
         NEW P, BatchOf(P, e, src, dst, size), NEW X, X = dst .. dst + size - 1, NEW reads, Onto(reads, src, dst, size),
         NEW barrier \in BOOLEAN, dst < src /\ dst + size > src => barrier,
         dst <= src \/ src + size <= dst
  PROVE  Carries(P, reads, X) /\ OrderKept(P, reads, X, barrier)
<1>1. /\ DOMAIN P = Threads /\ \A t \in Threads : P[t] \in Seq(Ops)
      /\ \A t \in Threads : \A j, a, b : Moves(P[t], j, a, b) <=> Batched(t, j, src, dst, size, a, b)
  BY ONLY BatchOf(P, e, src, dst, size), src \in Int, dst \in Int, size \in Nat, BatchMoves
<1>2. /\ \A t, u \in Threads : \A j, l, x, y :
           Byter(t, size, j, x) /\ Byter(u, size, l, y) /\ x <= y => j <= l /\ (x = y => t = u /\ j = l)
      /\ \A x \in 0 .. size - 1 : \E t \in Threads, j \in Nat : Byter(t, size, j, x)
      /\ \A t \in Threads : \A j, x : Byter(t, size, j, x) => j \in Nat /\ x \in 0 .. size - 1
  BY ByterIs
<1>3. \A x \in 0 .. size - 1 : reads[dst + x] = src + x
  BY DEF Onto
<1>4. ASSUME NEW b \in X PROVE \E x \in 0 .. size - 1 : b = dst + x /\ reads[b] = src + x
  <2>1. b - dst \in 0 .. size - 1 /\ b = dst + (b - dst)
    OBVIOUS
  <2>. QED  BY <1>3, <2>1
<1>5. ASSUME NEW t \in Threads, NEW j, NEW a, NEW b, Moves(P[t], j, a, b) PROVE j \in Nat /\ b \in X /\ a = reads[b]
  <2>1. PICK x \in 0 .. size - 1 : Byter(t, size, j, x) /\ a = src + x /\ b = dst + x
    <3>1. Batched(t, j, src, dst, size, a, b)
      BY <1>1, <1>5
    <3>. QED  BY <3>1 DEF Batched
  <2>2. dst + x \in X
    OBVIOUS
  <2>3. j \in Nat
    BY <1>2, <2>1
  <2>. QED  BY <1>3, <2>1, <2>2, <2>3
<1>6. ASSUME NEW b \in X PROVE \E t \in Threads : \E j \in Nat : Moves(P[t], j, reads[b], b)
  <2>1. PICK x \in 0 .. size - 1 : b = dst + x /\ reads[b] = src + x
    BY <1>4
  <2>2. PICK t \in Threads, j \in Nat : Byter(t, size, j, x)
    BY <1>2
  <2>3. Batched(t, j, src, dst, size, reads[b], b)
    BY ONLY <2>1, <2>2, x \in 0 .. size - 1 DEF Batched
  <2>. QED  BY <1>1, <2>3
<1>7. ASSUME NEW t \in Threads, NEW u \in Threads, NEW j, NEW l, NEW b \in X, NEW d \in X,
             Moves(P[t], j, reads[b], b), Moves(P[u], l, reads[d], d)
      PROVE  /\ b = d => t = u /\ j = l
             /\ reads[b] = d => j <= l /\ (t = u \/ barrier)
  <2>10. Batched(t, j, src, dst, size, reads[b], b) /\ Batched(u, l, src, dst, size, reads[d], d)
    BY <1>1, <1>7
  <2>1. PICK x \in 0 .. size - 1 : Byter(t, size, j, x) /\ reads[b] = src + x /\ b = dst + x
    BY ONLY <2>10 DEF Batched
  <2>2. PICK y \in 0 .. size - 1 : Byter(u, size, l, y) /\ reads[d] = src + y /\ d = dst + y
    BY ONLY <2>10 DEF Batched
  <2>3. x <= y => j <= l /\ (x = y => t = u /\ j = l)
    <3>1. \A i, h, v, w : Byter(t, size, i, v) /\ Byter(u, size, h, w) /\ v <= w => i <= h /\ (v = w => t = u /\ i = h)
      BY <1>2
    <3>. QED  BY ONLY <2>1, <2>2, <3>1
  <2>4. ASSUME b = d PROVE x = y /\ x <= y
    BY <2>1, <2>2, <2>4
  <2>5. ASSUME reads[b] = d PROVE x <= y /\ (x = y \/ barrier)
    <3>1. src + x = dst + y
      BY <2>1, <2>2, <2>5
    <3>6. dst <= src \/ src + size <= dst
      OBVIOUS
    <3>2. dst <= src
      BY ONLY <3>1, <3>6, src \in Int, dst \in Int, size \in Nat, x \in 0 .. size - 1, y \in 0 .. size - 1
    <3>3. x <= y
      BY ONLY <3>1, <3>2, src \in Int, dst \in Int, size \in Nat, x \in 0 .. size - 1, y \in 0 .. size - 1
    <3>4. CASE dst = src
      <4>1. x = y
        BY ONLY <3>1, <3>4, src \in Int, dst \in Int, size \in Nat, x \in 0 .. size - 1, y \in 0 .. size - 1
      <4>. QED  BY <3>3, <4>1
    <3>5. CASE dst < src
      <4>1. dst + size > src
        BY ONLY <3>1, src \in Int, dst \in Int, size \in Nat, x \in 0 .. size - 1, y \in 0 .. size - 1
      <4>2. barrier
        BY <3>5, <4>1, Zenon
      <4>. QED  BY <3>3, <4>2
    <3>7. dst = src \/ dst < src
      BY ONLY <3>2, src \in Int, dst \in Int
    <3>. QED  BY ONLY <3>4, <3>5, <3>7
  <2>6. b = d => t = u /\ j = l
    BY <2>3, <2>4
  <2>7. ASSUME reads[b] = d PROVE j <= l /\ (t = u \/ barrier)
    <3>1. j <= l /\ (x = y => t = u)
      BY <2>3, <2>5, <2>7
    <3>. QED  BY <2>5, <2>7, <3>1
  <2>. QED  BY <2>6, <2>7
<1>8. Carries(P, reads, X)
  <2>1. \A t \in DOMAIN P : P[t] \in Seq(Ops)
    BY <1>1
  <2>2. \A t \in DOMAIN P : \A j, a, b : Moves(P[t], j, a, b) => j \in Nat /\ b \in X /\ a = reads[b]
    BY ONLY <1>1, <1>5
  <2>3. \A b \in X : \E t \in DOMAIN P : \E j \in Nat : Moves(P[t], j, reads[b], b)
    BY ONLY <1>1, <1>6
  <2>4. \A t, u \in DOMAIN P : \A j, k \in Nat : \A b \in X :
          Moves(P[t], j, reads[b], b) /\ Moves(P[u], k, reads[b], b) => t = u /\ j = k
    <3>. SUFFICES ASSUME NEW t \in Threads, NEW u \in Threads, NEW j \in Nat, NEW k \in Nat, NEW b \in X,
                         Moves(P[t], j, reads[b], b), Moves(P[u], k, reads[b], b)
                  PROVE  t = u /\ j = k
      BY <1>1
    <3>1. Batched(t, j, src, dst, size, reads[b], b) /\ Batched(u, k, src, dst, size, reads[b], b)
      BY <1>1
    <3>2. PICK x \in 0 .. size - 1 : Byter(t, size, j, x) /\ b = dst + x
      BY ONLY <3>1 DEF Batched
    <3>3. PICK y \in 0 .. size - 1 : Byter(u, size, k, y) /\ b = dst + y
      BY ONLY <3>1 DEF Batched
    <3>4. x <= y /\ x = y
      BY ONLY <3>2, <3>3, dst \in Int, x \in 0 .. size - 1, y \in 0 .. size - 1
    <3>5. \A i, h, v, w : Byter(t, size, i, v) /\ Byter(u, size, h, w) /\ v <= w => i <= h /\ (v = w => t = u /\ i = h)
      BY <1>2
    <3>. QED  BY ONLY <3>2, <3>3, <3>4, <3>5
  <2>. QED  BY ONLY <2>1, <2>2, <2>3, <2>4 DEF Carries
<1>9. OrderKept(P, reads, X, barrier)
  <2>1. ASSUME NEW t \in Threads, NEW u \in Threads, NEW j \in Nat, NEW l \in Nat, NEW b \in X, NEW d \in X,
               Moves(P[t], j, reads[b], b) /\ Moves(P[u], l, reads[d], d) /\ reads[b] = d
        PROVE  j <= l /\ (t = u \/ barrier)
    BY ONLY <1>7, <2>1, t \in Threads, u \in Threads, b \in X, d \in X
  <2>. QED  BY ONLY <1>1, <2>1 DEF OrderKept
<1>. QED  BY <1>8, <1>9

----------------------------------------------------------------------------
(* What state a number stands for.                                         *)

\* What FlattenSeq yields for the first i of a sequence of sequences, for every i.
Passes(k, ss, len) ==
  /\ k[0] = << >>
  /\ \A i \in 1 .. len : k[i] = k[i - 1] \o ss[i]
  /\ \A i \in 0 .. len : FlattenSeq([j \in 1 .. i |-> ss[j]]) = k[i]

LEMMA FlatSteps ==
  ASSUME NEW V, NEW len \in Nat, NEW ss \in [1 .. len -> Seq(V)]
  PROVE  \E k \in [0 .. len -> Seq(V)] : Passes(k, ss, len)
<1>. DEFINE F == [p \in (1 .. len) \X Seq(V) |-> p[2] \o ss[p[1]]]
<1>1. ASSUME NEW i \in 1 .. len, NEW v \in Seq(V)
      PROVE  F[<<i, v>>] = v \o ss[i] /\ F[<<i, v>>] \in Seq(V)
  <2>1. ss[i] \in Seq(V)
    OBVIOUS
  <2>2. v \o ss[i] \in Seq(V)
    BY <2>1, ConcatProperties
  <2>. QED  BY <2>2
<1>2. PICK k \in [0 .. len -> Seq(V)] : k[0] = << >> /\ \A i \in 1 .. len : k[i] = k[i - 1] \o ss[i]
  <2>1. << >> \in Seq(V) /\ \A i \in 1 .. len, v \in Seq(V) : F[<<i, v>>] \in Seq(V)
    <3>1. << >> \in Seq(V)
      OBVIOUS
    <3>. HIDE DEF F
    <3>. QED  BY <1>1, <3>1
  <2>. HIDE DEF F
  <2>2. PICK k \in [0 .. len -> Seq(V)] : Iterates(k, len, << >>, F)
    BY <2>1, Iteration
  <2>3. \A i \in 1 .. len : i - 1 \in 0 .. len
    OBVIOUS
  <2>. QED  BY <1>1, <2>2, <2>3 DEF Iterates
<1>. HIDE DEF F
<1>3. ASSUME NEW m \in 0 .. len PROVE FlattenSeq([j \in 1 .. m |-> ss[j]]) = k[m]
  <2>. DEFINE part == [j \in 1 .. m |-> ss[j]]
  <2>0. Len(part) = m /\ m \in Nat
    OBVIOUS
  <2>1. CASE m = 0
    <3>1. part = << >>
      BY <2>1
    <3>2. FlattenSeq(part) = part
      BY <2>0, <2>1 DEF FlattenSeq
    <3>. QED  BY <1>2, <2>1, <3>1, <3>2
  <2>2. CASE m # 0
    <3>1. k[1] = part[1]
      <4>1. 1 \in 1 .. len /\ 1 - 1 = 0 /\ 1 \in 1 .. m
        BY <2>2
      <4>2. ss[1] \in Seq(V)
        BY <4>1
      <4>3. k[1] = << >> \o ss[1]
        BY <1>2, <4>1
      <4>4. part[1] = ss[1]
        BY <4>1
      <4>. HIDE DEF part
      <4>. QED  BY <4>2, <4>3, <4>4, ConcatEmptySeq
    <3>2. \A i \in 2 .. m : k[i] = k[i - 1] \o part[i]
      <4>1. \A i \in 2 .. m : i \in 1 .. len /\ i \in 1 .. m
        OBVIOUS
      <4>. QED  BY <1>2, <4>1
    <3>. HIDE DEF part
    <3>3. FlattensTo(part, k, m)
      BY <2>0, <2>2, <3>1, <3>2, Flattening
    <3>4. FlattenSeq(part) = k[m]
      BY <3>3 DEF FlattensTo
    <3>. QED  BY <3>4 DEF part
  <2>. QED  BY <2>1, <2>2
<1>4. Passes(k, ss, len)
  BY <1>2, <1>3 DEF Passes
<1>. QED  BY <1>4

\* Two sequences of sequences of the same lengths, the second labelled with positions:
\* the label of the y-th element of all is the first position by which y elements
\* have come.
Labelled(k, h, i) ==
  /\ Len(h[i]) = Len(k[i])
  /\ \A y \in 1 .. Len(h[i]) :
       /\ h[i][y].group \in 1 .. i /\ y <= Len(k[h[i][y].group])
       /\ \A j \in 1 .. i : y <= Len(k[j]) => h[i][y].group <= j

LEMMA LabelIs ==
  ASSUME NEW V, NEW W, NEW len \in Nat, NEW ss \in [1 .. len -> Seq(V)], NEW rr \in [1 .. len -> Seq(W)],
         NEW k \in [0 .. len -> Seq(V)], Passes(k, ss, len), NEW h \in [0 .. len -> Seq(W)], Passes(h, rr, len),
         \A i \in 1 .. len : Len(rr[i]) = Len(ss[i]) /\ \A x \in 1 .. Len(rr[i]) : rr[i][x].group = i
  PROVE  Labelled(k, h, len)
<1>. DEFINE S == {i \in Nat : i <= len => Labelled(k, h, i)}
<1>1. 0 \in S
  <2>1. k[0] = << >> /\ h[0] = << >> /\ Len(<< >>) = 0 /\ 1 .. 0 = {}
    BY DEF Passes
  <2>2. Labelled(k, h, 0)
    BY ONLY <2>1 DEF Labelled
  <2>. QED  BY <2>2
<1>2. ASSUME NEW i \in Nat, i \in S PROVE i + 1 \in S
  <2>. SUFFICES ASSUME i + 1 <= len PROVE Labelled(k, h, i + 1)
    OBVIOUS
  <2>1. Labelled(k, h, i) /\ i + 1 \in 1 .. len /\ i \in 0 .. len /\ i + 1 \in 0 .. len /\ (i + 1) - 1 = i
    BY <1>2
  <2>2. /\ k[i + 1] = k[i] \o ss[i + 1] /\ h[i + 1] = h[i] \o rr[i + 1]
        /\ k[i] \in Seq(V) /\ h[i] \in Seq(W) /\ ss[i + 1] \in Seq(V) /\ rr[i + 1] \in Seq(W)
    BY <2>1 DEF Passes
  <2>3. PICK a \in Nat, b \in Nat : a = Len(k[i]) /\ a = Len(h[i]) /\ b = Len(ss[i + 1]) /\ b = Len(rr[i + 1])
    <3>1. Len(k[i]) \in Nat /\ Len(ss[i + 1]) \in Nat
      BY ONLY <2>2
    <3>2. Len(h[i]) = Len(k[i]) /\ Len(rr[i + 1]) = Len(ss[i + 1])
      BY <2>1 DEF Labelled
    <3>. QED  BY ONLY <3>1, <3>2
  <2>4. /\ Len(k[i + 1]) = a + b /\ Len(h[i + 1]) = a + b
        /\ \A y \in 1 .. a + b : h[i + 1][y] = IF y <= a THEN h[i][y] ELSE rr[i + 1][y - a]
    <3>1. PICK p \in Seq(V), q \in Seq(V) : p = k[i] /\ q = ss[i + 1]
      BY ONLY <2>2
    <3>2. PICK u \in Seq(W), v \in Seq(W) : u = h[i] /\ v = rr[i + 1]
      BY ONLY <2>2
    <3>3. Len(p \o q) = Len(p) + Len(q)
      BY ONLY p \in Seq(V), q \in Seq(V), ConcatProperties
    <3>4. /\ Len(u \o v) = Len(u) + Len(v)
          /\ \A y \in 1 .. Len(u) + Len(v) : (u \o v)[y] = IF y <= Len(u) THEN u[y] ELSE v[y - Len(u)]
      BY ONLY u \in Seq(W), v \in Seq(W), ConcatProperties
    <3>5. Len(p) = a /\ Len(q) = b /\ Len(u) = a /\ Len(v) = b /\ k[i + 1] = p \o q /\ h[i + 1] = u \o v
      BY ONLY <2>2, <2>3, <3>1, <3>2
    <3>6. Len(k[i + 1]) = a + b /\ Len(h[i + 1]) = a + b
      BY ONLY <3>3, <3>4, <3>5
    <3>7. \A y \in 1 .. a + b : h[i + 1][y] = IF y <= a THEN u[y] ELSE v[y - a]
      BY ONLY <3>4, <3>5
    <3>. QED  BY ONLY <3>1, <3>2, <3>6, <3>7
  <2>5. ASSUME NEW y \in 1 .. a + b
        PROVE  /\ h[i + 1][y].group \in 1 .. i + 1 /\ y <= Len(k[h[i + 1][y].group])
               /\ \A j \in 1 .. i + 1 : y <= Len(k[j]) => h[i + 1][y].group <= j
    <3>1. CASE y <= a
      <4>1. y \in 1 .. a /\ h[i + 1][y] = h[i][y]
        BY <2>4, <3>1
      <4>2. PICK g : g = h[i][y].group
        OBVIOUS
      <4>3. g \in 1 .. i /\ y <= Len(k[g]) /\ \A j \in 1 .. i : y <= Len(k[j]) => g <= j
        BY ONLY <2>1, <2>3, <4>1, <4>2 DEF Labelled
      <4>4. g \in 1 .. i + 1 /\ \A j \in 1 .. i + 1 : y <= Len(k[j]) => g <= j
        <5>1. ASSUME NEW j \in 1 .. i + 1, y <= Len(k[j]) PROVE g <= j
          <6>1. CASE j \in 1 .. i
            BY <4>3, <5>1, <6>1
          <6>2. CASE j = i + 1
            BY <4>3, <6>2
          <6>. QED  BY <6>1, <6>2
        <5>. QED  BY <4>3, <5>1
      <4>. QED  BY ONLY <4>1, <4>2, <4>3, <4>4
    <3>2. CASE y > a
      <4>1. y - a \in 1 .. b /\ h[i + 1][y] = rr[i + 1][y - a]
        BY ONLY <2>4, <3>2, a \in Nat, b \in Nat, y \in 1 .. a + b
      <4>2. h[i + 1][y].group = i + 1
        <5>1. \A x \in 1 .. Len(rr[i + 1]) : rr[i + 1][x].group = i + 1
          BY ONLY <2>1, \A g \in 1 .. len : Len(rr[g]) = Len(ss[g]) /\ \A x \in 1 .. Len(rr[g]) : rr[g][x].group = g
        <5>. QED  BY ONLY <2>3, <4>1, <5>1
      <4>3. ASSUME NEW j \in 1 .. i + 1, y <= Len(k[j]) PROVE i + 1 <= j
        <5>1. CASE j = i + 1
          BY <5>1
        <5>2. CASE j \in 1 .. i
          <6>1. Len(k[j]) <= a
            <7>1. \A c \in 1 .. i : Len(k[c]) <= Len(k[i])
              <8>. DEFINE T == {e \in Nat : e <= i => \A c \in 1 .. e : Len(k[c]) <= Len(k[e])}
              <8>1. 0 \in T
                OBVIOUS
              <8>2. ASSUME NEW e \in Nat, e \in T PROVE e + 1 \in T
                <9>. SUFFICES ASSUME e + 1 <= i, NEW c \in 1 .. e + 1 PROVE Len(k[c]) <= Len(k[e + 1])
                  OBVIOUS
                <9>1. e + 1 \in 1 .. len /\ e \in 0 .. len /\ (e + 1) - 1 = e /\ e + 1 \in 0 .. len
                  BY <2>1
                <9>2. k[e + 1] = k[e] \o ss[e + 1] /\ k[e] \in Seq(V) /\ ss[e + 1] \in Seq(V)
                  BY <9>1 DEF Passes
                <9>3. PICK p \in Nat, q \in Nat : p = Len(k[e]) /\ q = Len(ss[e + 1])
                  BY <9>2
                <9>4. Len(k[e + 1]) = p + q
                  BY <9>2, <9>3, ConcatProperties
                <9>5. CASE c = e + 1
                  BY <9>4, <9>5
                <9>6. CASE c \in 1 .. e
                  <10>1. Len(k[c]) <= p /\ c \in 0 .. len
                    BY <8>2, <9>1, <9>3, <9>6
                  <10>2. Len(k[c]) \in Nat
                    BY <10>1
                  <10>. QED  BY <9>4, <10>1, <10>2
                <9>. QED  BY <9>5, <9>6
              <8>. HIDE DEF T
              <8>3. Nat \subseteq T
                BY <8>1, <8>2, Counting
              <8>. QED  BY <8>3 DEF T
            <7>. QED  BY <2>3, <5>2, <7>1
          <6>2. Len(k[j]) \in Nat
            <7>1. j \in 0 .. len
              BY <2>1
            <7>. QED  BY <7>1
          <6>. QED  BY <3>2, <4>3, <6>1, <6>2
        <5>. QED  BY <5>1, <5>2
      <4>4. y <= Len(k[i + 1])
        BY <2>4
      <4>5. i + 1 \in 1 .. i + 1
        OBVIOUS
      <4>6. PICK g : g = h[i + 1][y].group
        OBVIOUS
      <4>7. g = i + 1
        BY ONLY <4>2, <4>6
      <4>8. g \in 1 .. i + 1 /\ y <= Len(k[g]) /\ \A j \in 1 .. i + 1 : y <= Len(k[j]) => g <= j
        BY ONLY <4>3, <4>4, <4>5, <4>7
      <4>. QED  BY ONLY <4>6, <4>8
    <3>3. PICK z \in Nat : z = y
      OBVIOUS
    <3>4. z <= a \/ z > a
      BY ONLY a \in Nat, z \in Nat
    <3>. QED  BY <3>1, <3>2, <3>3, <3>4
  <2>. QED  BY ONLY <2>4, <2>5 DEF Labelled
<1>. HIDE DEF S
<1>3. Nat \subseteq S
  BY <1>1, <1>2, Counting
<1>. QED  BY <1>3 DEF S

----------------------------------------------------------------------------
(* The state tensors of a model.                                           *)

\* The tensors a model may have.
TensorsOf(m) == {t \in Tensor : Laid(t, Models[m].dimFirst)}

\* Members of a sequence of sequences with a property make one of sequences of such.
LEMMA Refined ==
  ASSUME NEW V, NEW W, NEW ss \in Seq(Seq(V)), \A l \in DOMAIN ss : \A s \in DOMAIN ss[l] : ss[l][s] \in W
  PROVE  ss \in Seq(Seq(W))
<1>1. ASSUME NEW l \in DOMAIN ss PROVE ss[l] \in Seq(W)
  <2>1. ss[l] \in Seq(V)
    OBVIOUS
  <2>2. PICK u : u = ss[l] /\ u \in Seq(V) /\ \A s \in DOMAIN u : u[s] \in W
    BY <2>1
  <2>3. PICK len \in Nat : u \in [1 .. len -> V]
    BY ONLY <2>2, SeqDef
  <2>4. u \in [1 .. len -> W]
    BY ONLY <2>2, <2>3
  <2>5. u \in Seq(W)
    BY ONLY <2>4, len \in Nat, SeqDef
  <2>. QED  BY <2>2, <2>5
<1>2. PICK len \in Nat : ss \in [1 .. len -> Seq(V)]
  BY ONLY ss \in Seq(Seq(V)), SeqDef
<1>3. ss \in [1 .. len -> Seq(W)]
  BY ONLY <1>1, <1>2
<1>. QED  BY ONLY <1>3, len \in Nat, SeqDef

\* The positions of the mamba groups.
LEMMA GroupIdsAre ==
  ASSUME NEW m \in DOMAIN Models
  PROVE  \E c \in Nat : MambaGroupIds[m] \in [1 .. c -> DOMAIN Models[m].groups]
<1>1. PICK S : S = {g \in DOMAIN Models[m].groups : Models[m].groups[g].mamba}
  OBVIOUS
<1>2. PICK len \in Nat : DOMAIN Models[m].groups = 1 .. len
  BY ModelsAssumption
<1>3. S \in SUBSET Int /\ IsFiniteSet(S) /\ S \subseteq 1 .. len
  <2>1. S \subseteq 1 .. len
    BY <1>1, <1>2
  <2>2. IsFiniteSet(1 .. len)
    BY FS_Interval
  <2>3. IsFiniteSet(S)
    BY ONLY <2>1, <2>2, FS_Subset
  <2>4. 1 .. len \subseteq Int
    OBVIOUS
  <2>. QED  BY ONLY <2>1, <2>3, <2>4
<1>4. Cardinality(S) \in Nat /\ Ascending(S) \in [1 .. Cardinality(S) -> S]
  BY ONLY <1>3, AscendingIs
<1>5. MambaGroupIds[m] = Ascending(S)
  BY <1>1 DEF MambaGroupIds
<1>6. Ascending(S) \in [1 .. Cardinality(S) -> 1 .. len]
  BY ONLY <1>3, <1>4
<1>. QED  BY ONLY <1>2, <1>4, <1>5, <1>6

LEMMA OfGroupIs ==
  ASSUME NEW m \in DOMAIN Models, NEW i \in DOMAIN MambaGroupIds[m]
  PROVE  OfGroup(m, i) \in Seq(TensorsOf(m))
<1>1. PICK g \in DOMAIN Models[m].groups : g = MambaGroupIds[m][i]
  BY GroupIdsAre
<1>2. PICK ss : ss = Models[m].groups[g].layers
  OBVIOUS
<1>3. ss \in Seq(Seq(Tensor))
  <2>1. Models[m].groups \in Seq([mamba : BOOLEAN, layers : Seq(Seq(Tensor))])
    BY ModelsAssumption
  <2>2. Models[m].groups[g] \in [mamba : BOOLEAN, layers : Seq(Seq(Tensor))]
    <3>1. PICK u, A : u = Models[m].groups /\ A = [mamba : BOOLEAN, layers : Seq(Seq(Tensor))] /\ u \in Seq(A)
      BY ONLY <2>1
    <3>2. u \in Seq(A)
      BY ONLY <3>1
    <3>3. \A y \in DOMAIN u : u[y] \in A
      BY ONLY <3>2
    <3>. QED  BY ONLY <3>1, <3>3, g \in DOMAIN Models[m].groups
  <2>. QED  BY ONLY <1>2, <2>2
<1>4. ASSUME NEW l \in DOMAIN ss, NEW s \in DOMAIN ss[l] PROVE ss[l][s] \in TensorsOf(m)
  <2>1. ss[l] \in Seq(Tensor)
    BY <1>3
  <2>2. ss[l][s] \in Tensor
    BY ONLY <2>1, s \in DOMAIN ss[l]
  <2>3. Laid(ss[l][s], Models[m].dimFirst)
    BY <1>2, ModelsAssumption
  <2>. QED  BY ONLY <2>2, <2>3 DEF TensorsOf
<1>5. ss \in Seq(Seq(TensorsOf(m)))
  BY ONLY <1>3, <1>4, Refined
<1>6. PICK len \in Nat : ss \in [1 .. len -> Seq(TensorsOf(m))]
  BY ONLY <1>5
<1>7. FlattenSeq(ss) \in Seq(TensorsOf(m))
  BY ONLY <1>6, len \in Nat, FlatIs
<1>. QED  BY <1>1, <1>2, <1>7 DEF OfGroup

\* The states of a model are laid-out tensors; the group a state is labelled with is
\* the one its number falls in.
LEMMA StatesAre ==
  ASSUME NEW m \in DOMAIN Models
  PROVE  /\ States[m] \in Seq([tensor : TensorsOf(m), group : Nat])
         /\ \A s \in DOMAIN States[m] : GroupOf(m, s) = States[m][s].group
<1>1. PICK c \in Nat : DOMAIN MambaGroupIds[m] = 1 .. c
  BY GroupIdsAre
<1>. DEFINE T == TensorsOf(m)
            R == [tensor : T, group : Nat]
            ss == [i \in 1 .. c |-> OfGroup(m, i)]
            Of(i) == [s \in DOMAIN OfGroup(m, i) |-> [tensor |-> OfGroup(m, i)[s], group |-> i]]
            rr == [i \in 1 .. c |-> Of(i)]
<1>2. ASSUME NEW i \in 1 .. c
      PROVE  /\ OfGroup(m, i) \in Seq(T) /\ Of(i) \in Seq(R) /\ Len(Of(i)) = Len(OfGroup(m, i))
             /\ \A x \in 1 .. Len(Of(i)) : Of(i)[x].group = i
  <2>1. PICK u \in Seq(T) : u = OfGroup(m, i)
    BY <1>1, OfGroupIs
  <2>2. PICK len \in Nat : len = Len(u) /\ DOMAIN u = 1 .. len /\ \A s \in 1 .. len : u[s] \in T
    OBVIOUS
  <2>3. Of(i) = [s \in 1 .. len |-> [tensor |-> u[s], group |-> i]]
    BY ONLY <2>1, <2>2
  <2>4. Of(i) \in [1 .. len -> R]
    <3>1. i \in Nat
      OBVIOUS
    <3>. HIDE DEF Of, T
    <3>. QED  BY ONLY <2>2, <2>3, <3>1 DEF R
  <2>5. Of(i) \in Seq(R) /\ Len(Of(i)) = len
    <3>. HIDE DEF Of, R
    <3>. QED  BY ONLY <2>4, len \in Nat, SeqDef, LenProperties
  <2>6. \A x \in 1 .. len : Of(i)[x].group = i
    BY ONLY <2>3
  <2>. QED  BY ONLY <2>1, <2>2, <2>5, <2>6
<1>3. ss \in [1 .. c -> Seq(T)] /\ rr \in [1 .. c -> Seq(R)]
  <2>. HIDE DEF T, R, Of
  <2>. QED  BY <1>2
<1>4. \A i \in 1 .. c : Len(rr[i]) = Len(ss[i]) /\ \A x \in 1 .. Len(rr[i]) : rr[i][x].group = i
  <2>. HIDE DEF T, R, Of
  <2>. QED  BY <1>2
<1>5. /\ States[m] = FlattenSeq([j \in 1 .. c |-> rr[j]])
      /\ \A i \in 1 .. c : [j \in 1 .. i |-> OfGroup(m, j)] = [j \in 1 .. i |-> ss[j]]
  <2>1. [j \in 1 .. c |-> rr[j]] = [j \in 1 .. c |-> Of(j)]
    <3>. HIDE DEF Of
    <3>. QED  OBVIOUS
  <2>2. States[m] = FlattenSeq([j \in 1 .. c |-> Of(j)])
    BY <1>1 DEF States
  <2>3. ASSUME NEW i \in 1 .. c PROVE [j \in 1 .. i |-> OfGroup(m, j)] = [j \in 1 .. i |-> ss[j]]
    <3>1. \A j \in 1 .. i : ss[j] = OfGroup(m, j)
      OBVIOUS
    <3>. HIDE DEF ss
    <3>. QED  BY ONLY <3>1
  <2>. QED  BY ONLY <2>1, <2>2, <2>3
<1>. HIDE DEF ss, rr, R, T, Of
<1>6. PICK k \in [0 .. c -> Seq(T)] : Passes(k, ss, c)
  BY ONLY <1>3, c \in Nat, FlatSteps
<1>7. PICK h \in [0 .. c -> Seq(R)] : Passes(h, rr, c)
  BY ONLY <1>3, c \in Nat, FlatSteps
<1>8. Labelled(k, h, c)
  BY ONLY <1>3, <1>4, <1>6, <1>7, c \in Nat, LabelIs
<1>9. c \in 0 .. c
  OBVIOUS
<1>10. States[m] = h[c] /\ h[c] \in Seq(R)
  BY ONLY <1>5, <1>7, <1>9 DEF Passes
<1>11. ASSUME NEW s \in DOMAIN h[c] PROVE GroupOf(m, s) = h[c][s].group
  <2>1. s \in 1 .. Len(h[c])
    BY ONLY <1>10, s \in DOMAIN h[c]
  <2>2. PICK g : g = h[c][s].group
    OBVIOUS
  <2>3. g \in 1 .. c /\ s <= Len(k[g]) /\ \A j \in 1 .. c : s <= Len(k[j]) => g <= j
    BY ONLY <1>8, <2>1, <2>2 DEF Labelled
  <2>4. PICK Set : Set = {i \in DOMAIN MambaGroupIds[m] : s <= Len(FlattenSeq([j \in 1 .. i |-> OfGroup(m, j)]))}
    OBVIOUS
  <2>5. \A i \in 1 .. c : FlattenSeq([j \in 1 .. i |-> OfGroup(m, j)]) = k[i]
    <3>1. \A i \in 1 .. c : i \in 0 .. c
      OBVIOUS
    <3>2. \A i \in 0 .. c : FlattenSeq([j \in 1 .. i |-> ss[j]]) = k[i]
      BY ONLY <1>6 DEF Passes
    <3>. QED  BY ONLY <1>5, <3>1, <3>2
  <2>6. \A i : i \in Set <=> i \in 1 .. c /\ s <= Len(k[i])
    BY ONLY <1>1, <2>4, <2>5
  <2>7. g \in Set /\ \A j \in Set : g <= j
    BY ONLY <2>3, <2>6
  <2>8. Set \subseteq Int
    BY ONLY <2>6
  <2>9. \A x \in Set : (\A y \in Set : x <= y) => x = g
    BY ONLY <2>7, <2>8
  <2>10. Min(Set) = g
    BY ONLY <2>7, <2>9 DEF Min
  <2>. QED  BY ONLY <2>2, <2>4, <2>10 DEF GroupOf
<1>. QED  BY ONLY <1>10, <1>11 DEF R, T

----------------------------------------------------------------------------
(* Where the bytes of a tensor are.                                        *)

LEMMA SumOfTwo ==
  ASSUME NEW f \in [1 .. 2 -> Nat]
  PROVE  FoldLeft(+, 0, f) = f[1] + f[2]
<1>1. PICK k : Sums(k, f, 2) /\ FoldLeft(+, 0, f) = k[2]
  BY SumSteps
<1>2. k[0] = 0 /\ \A i \in 1 .. 2 : k[i] = k[i - 1] + f[i]
  BY <1>1 DEF Sums
<1>3. 1 \in 1 .. 2 /\ 2 \in 1 .. 2 /\ 1 - 1 = 0 /\ 2 - 1 = 1
  OBVIOUS
<1>4. k[1] = k[0] + f[1] /\ k[2] = k[1] + f[2]
  BY <1>2, <1>3
<1>5. f[1] \in Nat /\ f[2] \in Nat
  BY <1>3
<1>6. k[1] = f[1]
  BY ONLY <1>2, <1>4, <1>5
<1>. QED  BY ONLY <1>1, <1>4, <1>6

LEMMA SumOfThree ==
  ASSUME NEW f \in [1 .. 3 -> Nat]
  PROVE  FoldLeft(+, 0, f) = f[1] + f[2] + f[3]
<1>1. PICK k : Sums(k, f, 3) /\ FoldLeft(+, 0, f) = k[3]
  BY SumSteps
<1>2. k[0] = 0 /\ \A i \in 1 .. 3 : k[i] = k[i - 1] + f[i]
  BY <1>1 DEF Sums
<1>3. 1 \in 1 .. 3 /\ 2 \in 1 .. 3 /\ 3 \in 1 .. 3 /\ 1 - 1 = 0 /\ 2 - 1 = 1 /\ 3 - 1 = 2
  OBVIOUS
<1>4. k[1] = k[0] + f[1] /\ k[2] = k[1] + f[2] /\ k[3] = k[2] + f[3]
  BY <1>2, <1>3
<1>5. f[1] \in Nat /\ f[2] \in Nat
  BY <1>3
<1>6. k[1] = f[1]
  BY ONLY <1>2, <1>4, <1>5
<1>. QED  BY ONLY <1>1, <1>4, <1>6

\* The product of one factor.
LEMMA ProductOfOne ==
  ASSUME NEW x \in Nat
  PROVE  FoldLeft(LAMBDA m, y : m * y, 1, <<x>>) = x
<1>. DEFINE t == <<x>>
            G(g) == [s \in SUBSET (1 .. 1) |->
                       IF s = {} THEN 1 ELSE g[s \ {Max(s)}] * t[Max(s)]]
            f == CHOOSE g : g = G(g)
            h == [s \in SUBSET (1 .. 1) |-> IF s = {} THEN 1 ELSE x]
<1>1. \A s \in SUBSET (1 .. 1) : s # {} => Max(s) = 1 /\ s \ {Max(s)} = {} /\ s = 1 .. 1
  <2>1. ASSUME NEW s \in SUBSET (1 .. 1), s # {} PROVE s = {1}
    <3>1. \A y \in s : y = 1
      OBVIOUS
    <3>. QED  BY <2>1, <3>1
  <2>2. Max({1, 1}) = 1
    BY MaxOf
  <2>3. {1, 1} = {1} /\ 1 .. 1 = {1}
    OBVIOUS
  <2>. QED  BY ONLY <2>1, <2>2, <2>3
<1>2. h = G(h)
  <2>1. ASSUME NEW s \in SUBSET (1 .. 1) PROVE h[s] = G(h)[s]
    <3>1. CASE s = {}
      BY <3>1
    <3>2. CASE s # {}
      <4>1. Max(s) = 1 /\ s \ {Max(s)} = {} /\ t[1] = x /\ h[{}] = 1 /\ h[s] = x
        BY <1>1, <3>2
      <4>2. G(h)[s] = h[s \ {Max(s)}] * t[Max(s)]
        <5>. HIDE DEF h, t
        <5>. QED  BY <3>2
      <4>3. 1 * x = x
        OBVIOUS
      <4>. QED  BY ONLY <4>1, <4>2, <4>3
    <3>. QED  BY <3>1, <3>2
  <2>. QED  BY <2>1
<1>3. f = G(f)
  <2>. HIDE DEF G, h
  <2>. QED  BY <1>2
<1>4. FoldLeft(LAMBDA m, y : m * y, 1, <<x>>) = f[1 .. 1]
  <2>1. DOMAIN <<x>> = 1 .. 1
    OBVIOUS
  <2>. QED  BY <2>1 DEF FoldLeft, MapThenFoldSet, f
<1>. HIDE DEF f
<1>5. 1 .. 1 # {} /\ 1 .. 1 \in SUBSET (1 .. 1) /\ {} \in SUBSET (1 .. 1)
  OBVIOUS
<1>6. f[{}] = 1
  BY <1>3, <1>5
<1>7. f[1 .. 1] = f[(1 .. 1) \ {Max(1 .. 1)}] * t[Max(1 .. 1)]
  <2>. HIDE DEF t
  <2>. QED  BY <1>3, <1>5
<1>8. Max(1 .. 1) = 1 /\ (1 .. 1) \ {Max(1 .. 1)} = {} /\ t[1] = x /\ 1 * x = x
  BY <1>1, <1>5
<1>. QED  BY ONLY <1>4, <1>6, <1>7, <1>8

\* The address of a byte, from the strides.
LEMMA AddressOfTwo ==
  ASSUME NEW t \in Tensor, NEW b \in Nat, NEW w \in Nat, NEW byte, Len(t.stride) = 2
  PROVE  ByteAddr(t, <<b, w>>, byte) = t.ptr + byte + t.elem * (t.stride[1] * b + t.stride[2] * w)
<1>1. PICK s \in Seq(Nat) : s = t.stride /\ Len(s) = 2
  BY DEF Tensor
<1>2. PICK x \in Nat, y \in Nat : x = s[1] /\ y = s[2]
  BY ONLY s \in Seq(Nat), <1>1
<1>3. x * b \in Nat /\ y * w \in Nat
  BY NatClosed
<1>4. PICK f : f = [i \in DOMAIN <<b, w>> |-> s[i] * <<b, w>>[i]]
  OBVIOUS
<1>5. DOMAIN <<b, w>> = 1 .. 2 /\ <<b, w>>[1] = b /\ <<b, w>>[2] = w
  OBVIOUS
<1>6. DOMAIN f = 1 .. 2 /\ f = [i \in 1 .. 2 |-> f[i]] /\ f[1] = x * b /\ f[2] = y * w
  <2>1. 1 \in 1 .. 2 /\ 2 \in 1 .. 2
    OBVIOUS
  <2>. QED  BY ONLY <1>2, <1>4, <1>5, <2>1
<1>7. \A i \in 1 .. 2 : i = 1 \/ i = 2
  OBVIOUS
<1>8. f \in [1 .. 2 -> Nat]
  BY ONLY <1>3, <1>6, <1>7
<1>9. FoldLeft(+, 0, f) = x * b + y * w
  BY ONLY <1>6, <1>8, SumOfTwo
<1>. QED  BY ONLY <1>1, <1>2, <1>4, <1>9 DEF ByteAddr

LEMMA AddressOfThree ==
  ASSUME NEW t \in Tensor, NEW b \in Nat, NEW w \in Nat, NEW d \in Nat, NEW byte, Len(t.stride) = 3
  PROVE  ByteAddr(t, <<b, w, d>>, byte) = t.ptr + byte + t.elem * (t.stride[1] * b + t.stride[2] * w + t.stride[3] * d)
<1>1. PICK s \in Seq(Nat) : s = t.stride /\ Len(s) = 3
  BY DEF Tensor
<1>2. PICK x \in Nat, y \in Nat, z \in Nat : x = s[1] /\ y = s[2] /\ z = s[3]
  <2>1. DOMAIN s = 1 .. 3 /\ \A i \in DOMAIN s : s[i] \in Nat
    <3>1. DOMAIN s = 1 .. Len(s) /\ \A i \in DOMAIN s : s[i] \in Nat
      BY ONLY s \in Seq(Nat)
    <3>2. Len(s) = 3
      BY <1>1
    <3>. QED  BY ONLY <3>1, <3>2
  <2>2. 1 \in 1 .. 3 /\ 2 \in 1 .. 3 /\ 3 \in 1 .. 3
    OBVIOUS
  <2>3. s[1] \in Nat /\ s[2] \in Nat /\ s[3] \in Nat
    BY ONLY <2>1, <2>2
  <2>. QED  BY ONLY <2>3
<1>3. x * b \in Nat /\ y * w \in Nat /\ z * d \in Nat
  BY NatClosed
<1>4. PICK f : f = [i \in DOMAIN <<b, w, d>> |-> s[i] * <<b, w, d>>[i]]
  OBVIOUS
<1>5. DOMAIN <<b, w, d>> = 1 .. 3 /\ <<b, w, d>>[1] = b /\ <<b, w, d>>[2] = w /\ <<b, w, d>>[3] = d
  OBVIOUS
<1>6. DOMAIN f = 1 .. 3 /\ f = [i \in 1 .. 3 |-> f[i]] /\ f[1] = x * b /\ f[2] = y * w /\ f[3] = z * d
  <2>1. 1 \in 1 .. 3 /\ 2 \in 1 .. 3 /\ 3 \in 1 .. 3
    OBVIOUS
  <2>. QED  BY ONLY <1>2, <1>4, <1>5, <2>1
<1>7. \A i \in 1 .. 3 : i = 1 \/ i = 2 \/ i = 3
  OBVIOUS
<1>8. f \in [1 .. 3 -> Nat]
  BY ONLY <1>3, <1>6, <1>7
<1>9. FoldLeft(+, 0, f) = x * b + y * w + z * d
  BY ONLY <1>6, <1>8, SumOfThree
<1>. QED  BY ONLY <1>1, <1>2, <1>4, <1>9 DEF ByteAddr

----------------------------------------------------------------------------
(* The blocks of a state.                                                  *)

\* The greatest of finitely many numbers.
LEMMA GreatestOf ==
  ASSUME NEW len \in Nat, NEW f \in [1 .. len -> Nat], NEW i \in 1 .. len
  PROVE  Max({f[j] : j \in 1 .. len}) \in Nat /\ f[i] <= Max({f[j] : j \in 1 .. len})
<1>. DEFINE T == {e \in Nat : e <= len => \E top \in Nat : \A j \in 1 .. e : f[j] <= top}
<1>1. 0 \in T
  <2>1. 0 \in Nat /\ \A j \in 1 .. 0 : f[j] <= 0
    OBVIOUS
  <2>. QED  BY <2>1
<1>2. ASSUME NEW e \in Nat, e \in T PROVE e + 1 \in T
  <2>. SUFFICES ASSUME e + 1 <= len PROVE \E top \in Nat : \A j \in 1 .. e + 1 : f[j] <= top
    OBVIOUS
  <2>1. PICK top \in Nat : \A j \in 1 .. e : f[j] <= top
    BY <1>2
  <2>2. PICK x \in Nat : x = f[e + 1]
    OBVIOUS
  <2>3. top + x \in Nat /\ \A j \in 1 .. e + 1 : f[j] <= top + x
    <3>1. ASSUME NEW j \in 1 .. e + 1 PROVE f[j] <= top + x
      <4>1. CASE j = e + 1
        BY <2>2, <4>1
      <4>2. CASE j \in 1 .. e
        <5>1. f[j] <= top /\ f[j] \in Nat
          BY <2>1, <4>2
        <5>. QED  BY <5>1
      <4>. QED  BY <4>1, <4>2
    <3>. QED  BY <3>1
  <2>. QED  BY <2>3
<1>. HIDE DEF T
<1>3. len \in T
  BY <1>1, <1>2, Counting
<1>4. PICK top \in Nat : \A j \in 1 .. len : f[j] <= top
  BY <1>3 DEF T
<1>5. PICK s : s = {f[j] : j \in 1 .. len}
  OBVIOUS
<1>6. s \in SUBSET (0 .. top) /\ f[i] \in s /\ s \subseteq Nat
  BY <1>4, <1>5
<1>7. PICK b \in s : \A y \in s : b >= y
  BY ONLY <1>6, top \in Nat, Greatest
<1>8. Max(s) \in s /\ \A y \in s : Max(s) >= y
  BY <1>7 DEF Max
<1>9. Max(s) \in Nat /\ f[i] \in Nat /\ f[i] <= Max(s)
  BY ONLY <1>6, <1>8
<1>. QED  BY ONLY <1>5, <1>9

\* Where a block starts, and what it holds.
BlockStart(t, b) == t.ptr + b * (t.stride[1] * t.elem)
BlockSize(t) == t.stride[1] * t.elem
BlockBytes(t, b) == BlockStart(t, b) .. BlockStart(t, b) + BlockSize(t) - 1

\* The numbers of a tensor.
LEMMA TensorIs ==
  ASSUME NEW m, NEW t \in TensorsOf(m)
  PROVE  /\ t.ptr \in Nat /\ t.elem \in Nat \ {0} /\ t.conv \in BOOLEAN
         /\ t.shape[1] \in Nat \ {0} /\ t.shape[2] \in Nat \ {0} /\ (t.conv => t.shape[3] \in Nat \ {0})
         /\ t.stride[1] \in Nat /\ t.stride[2] \in Nat
         /\ Len(t.shape) = (IF t.conv THEN 3 ELSE 2) /\ Len(t.stride) = (IF t.conv THEN 3 ELSE 2)
         /\ (~t.conv => t.stride[2] = 1) /\ (t.conv => t.stride[3] = 1)
         /\ t.stride[1] >= t.shape[2] * t.stride[2]
         /\ t.conv => IF Models[m].dimFirst THEN t.stride[2] >= t.shape[3] ELSE t.stride[2] = t.shape[3]
<1>1. t \in Tensor /\ Laid(t, Models[m].dimFirst)
  BY DEF TensorsOf
<1>2. t.ptr \in Nat /\ t.elem \in Nat \ {0} /\ t.conv \in BOOLEAN
  BY <1>1 DEF Tensor
<1>3. t.shape \in Seq(Nat \ {0}) /\ t.stride \in Seq(Nat)
  BY <1>1 DEF Tensor
<1>4. /\ Len(t.shape) = (IF t.conv THEN 3 ELSE 2) /\ Len(t.stride) = Len(t.shape)
      /\ t.stride[Len(t.stride)] = 1
      /\ t.conv => IF Models[m].dimFirst THEN t.stride[2] >= t.shape[3] ELSE t.stride[2] = t.shape[3]
      /\ t.stride[1] >= t.shape[2] * t.stride[2]
  BY <1>1 DEF Laid
<1>5. PICK a \in Seq(Nat \ {0}), s \in Seq(Nat) : a = t.shape /\ s = t.stride
  BY ONLY <1>3
<1>6. PICK l : l = Len(a) /\ l = Len(s) /\ l = IF t.conv THEN 3 ELSE 2
  BY ONLY <1>4, <1>5
<1>7. /\ DOMAIN a = 1 .. Len(a) /\ \A i \in DOMAIN a : a[i] \in Nat \ {0}
      /\ DOMAIN s = 1 .. Len(s) /\ \A i \in DOMAIN s : s[i] \in Nat
  BY ONLY a \in Seq(Nat \ {0}), s \in Seq(Nat)
<1>8. 1 \in 1 .. l /\ 2 \in 1 .. l /\ (t.conv => 3 \in 1 .. l)
  BY <1>2, <1>6
<1>9. a[1] \in Nat \ {0} /\ a[2] \in Nat \ {0} /\ (t.conv => a[3] \in Nat \ {0}) /\ s[1] \in Nat /\ s[2] \in Nat
  BY ONLY <1>6, <1>7, <1>8
<1>10. (~t.conv => s[2] = 1) /\ (t.conv => s[3] = 1)
  BY ONLY <1>2, <1>4, <1>5, <1>6
<1>. QED  BY ONLY <1>2, <1>4, <1>5, <1>6, <1>9, <1>10

\* The blocks of a state are in memory.
LEMMA BlocksIn ==
  ASSUME NEW m \in DOMAIN Models, NEW s \in DOMAIN States[m], NEW t, t = States[m][s].tensor
  PROVE  /\ t \in TensorsOf(m) /\ MemoryOf[m] \subseteq Int
         /\ \A b \in 0 .. t.shape[1] - 1 : BlockStart(t, b) \in Int /\ BlockBytes(t, b) \subseteq MemoryOf[m]
<1>. DEFINE End(u) == u.ptr + u.elem * u.shape[1] * u.stride[1]
            R == [tensor : TensorsOf(m), group : Nat]
<1>1. PICK q \in Seq(R) : q = States[m]
  BY StatesAre
<1>2. PICK len \in Nat : DOMAIN q = 1 .. len /\ \A i \in 1 .. len : q[i] \in R
  <2>. HIDE DEF R
  <2>. QED  OBVIOUS
<1>3. \A i \in 1 .. len : q[i].tensor \in TensorsOf(m)
  BY ONLY <1>2
<1>4. ASSUME NEW u \in TensorsOf(m) PROVE End(u) \in Nat
  <2>1. PICK a \in Nat, e \in Nat, p \in Nat, w \in Nat : a = u.ptr /\ e = u.elem /\ p = u.shape[1] /\ w = u.stride[1]
    BY TensorIs
  <2>2. a + e * p * w \in Nat
    BY ONLY a \in Nat, e \in Nat, p \in Nat, w \in Nat, NatClosed
  <2>. QED  BY ONLY <2>1, <2>2
<1>5. PICK f \in [1 .. len -> Nat] : \A i \in 1 .. len : f[i] = End(q[i].tensor)
  <2>. HIDE DEF End
  <2>1. [i \in 1 .. len |-> End(q[i].tensor)] \in [1 .. len -> Nat]
    BY ONLY <1>3, <1>4
  <2>. QED  BY <2>1
<1>6. MemoryOf[m] = 0 .. Max({f[i] : i \in 1 .. len}) - 1
  <2>1. MemoryOf[m] = 0 .. Max({End(u) : u \in {States[m][i].tensor : i \in DOMAIN States[m]}}) - 1
    BY DEF MemoryOf
  <2>2. {End(u) : u \in {States[m][i].tensor : i \in DOMAIN States[m]}} = {f[i] : i \in 1 .. len}
    <3>. HIDE DEF End
    <3>1. DOMAIN States[m] = 1 .. len /\ \A i \in 1 .. len : States[m][i] = q[i]
      BY ONLY <1>1, <1>2
    <3>2. ASSUME NEW x PROVE x \in {End(u) : u \in {States[m][i].tensor : i \in 1 .. len}} <=> x \in {f[i] : i \in 1 .. len}
      <4>1. \A i \in 1 .. len : f[i] = End(States[m][i].tensor)
        BY ONLY <1>5, <3>1
      <4>. QED  BY ONLY <4>1
    <3>. QED  BY ONLY <3>1, <3>2
  <2>. QED  BY ONLY <2>1, <2>2
<1>7. s \in 1 .. len /\ t = q[s].tensor
  BY ONLY <1>1, <1>2, s \in DOMAIN States[m], t = States[m][s].tensor
<1>8. PICK top \in Nat : f[s] <= top /\ MemoryOf[m] = 0 .. top - 1
  BY ONLY <1>6, <1>7, len \in Nat, f \in [1 .. len -> Nat], GreatestOf
<1>9. t \in TensorsOf(m) /\ f[s] = End(t)
  BY ONLY <1>3, <1>5, <1>7
<1>10. PICK a \in Nat, e \in Nat, p \in Nat, w \in Nat : a = t.ptr /\ e = t.elem /\ p = t.shape[1] /\ w = t.stride[1]
  BY <1>9, TensorIs
<1>11. ASSUME NEW b \in 0 .. p - 1
       PROVE  BlockStart(t, b) \in Int /\ BlockBytes(t, b) \subseteq 0 .. top - 1
  <2>1. PICK z \in Nat : z = w * e
    BY NatClosed
  <2>2. b \in Nat /\ p - 1 - b \in Nat
    BY ONLY b \in 0 .. p - 1, p \in Nat
  <2>3. b * z \in Nat /\ (p - 1 - b) * z \in Nat
    BY <2>2, NatClosed
  <2>4. e * p * w = b * z + z + (p - 1 - b) * z
    BY ONLY <2>1, b \in 0 .. p - 1, p \in Nat, e \in Nat, w \in Nat
  <2>5. a + e * p * w <= top
    BY ONLY <1>8, <1>9, <1>10
  <2>9. PICK y \in Nat, x \in Nat : y = b * z /\ x = (p - 1 - b) * z
    BY ONLY <2>3
  <2>10. a + (y + z + x) <= top
    BY ONLY <2>4, <2>5, <2>9
  <2>6. y = b * z /\ a + y + z <= top
    <3>1. a + y + z <= top
      BY ONLY <2>10, a \in Nat, z \in Nat, top \in Nat, y \in Nat, x \in Nat
    <3>. QED  BY ONLY <2>9, <3>1
  <2>7. BlockStart(t, b) = a + y /\ BlockSize(t) = z
    BY ONLY <1>10, <2>1, <2>6 DEF BlockStart, BlockSize
  <2>8. a + y \in Int /\ a + y .. a + y + z - 1 \subseteq 0 .. top - 1
    <3>1. ASSUME NEW j \in a + y .. a + y + z - 1 PROVE j \in 0 .. top - 1
      BY ONLY <2>6, a \in Nat, z \in Nat, y \in Nat, top \in Nat, j \in a + y .. a + y + z - 1
    <3>2. a + y \in Int
      BY ONLY a \in Nat, y \in Nat
    <3>. QED  BY ONLY <3>1, <3>2
  <2>. QED  BY ONLY <2>7, <2>8 DEF BlockBytes
<1>12. MemoryOf[m] \subseteq Int
  BY <1>8
<1>. QED  BY ONLY <1>8, <1>9, <1>10, <1>11, <1>12

\* Different blocks have no byte in common.
LEMMA BlocksApart ==
  ASSUME NEW m, NEW t \in TensorsOf(m), NEW b \in Nat, NEW d \in Nat, b < d
  PROVE  BlockStart(t, b) + BlockSize(t) <= BlockStart(t, d)
<1>1. PICK a \in Nat, z \in Nat : a = t.ptr /\ z = t.stride[1] * t.elem
  <2>1. PICK e \in Nat, w \in Nat : e = t.elem /\ w = t.stride[1] /\ t.ptr \in Nat
    BY TensorIs
  <2>. QED  BY <2>1, NatClosed
<1>2. d * z = b * z + z + (d - b - 1) * z
  BY ONLY b \in Nat, d \in Nat, z \in Nat
<1>3. d - b - 1 \in Nat
  OBVIOUS
<1>4. (d - b - 1) * z \in Nat /\ b * z \in Nat
  BY <1>3, NatClosed
<1>5. a + b * z + z <= a + d * z
  BY ONLY <1>2, <1>4, a \in Nat, z \in Nat
<1>. QED  BY ONLY <1>1, <1>5 DEF BlockStart, BlockSize

----------------------------------------------------------------------------
(* What a move means, byte by byte.                                        *)

\* Numbers below a product, as a place in a row and a row.
LEMMA MixedDigits ==
  ASSUME NEW a \in Nat, NEW d \in Nat \ {0}
  PROVE  /\ a * d \in Nat
         /\ \A w \in 0 .. a - 1, x \in 0 .. d - 1 : w * d + x \in 0 .. a * d - 1
         /\ \A y \in 0 .. a * d - 1 : \E w \in 0 .. a - 1, x \in 0 .. d - 1 : y = w * d + x
<1>1. a * d \in Nat
  BY NatClosed
<1>2. ASSUME NEW w \in 0 .. a - 1, NEW x \in 0 .. d - 1 PROVE w * d + x \in 0 .. a * d - 1
  <2>1. w \in Nat /\ a - 1 - w \in Nat
    OBVIOUS
  <2>2. PICK p \in Nat, q \in Nat : p = w * d /\ q = (a - 1 - w) * d
    BY <2>1, NatClosed
  <2>3. a * d = w * d + d + (a - 1 - w) * d
    OBVIOUS
  <2>4. a * d = p + d + q
    BY ONLY <2>2, <2>3
  <2>5. p + x \in 0 .. (p + d + q) - 1
    BY ONLY p \in Nat, q \in Nat, d \in Nat \ {0}, x \in 0 .. d - 1
  <2>. QED  BY ONLY <2>2, <2>4, <2>5
<1>3. ASSUME NEW y \in 0 .. a * d - 1 PROVE \E w \in 0 .. a - 1, x \in 0 .. d - 1 : y = w * d + x
  <2>1. y \in Int
    BY <1>1
  <2>2. PICK w \in Int, x \in 0 .. d - 1 : y = w * d + x
    <3>1. y = (y \div d) * d + (y % d) /\ y % d \in 0 .. d - 1 /\ y \div d \in Int
      BY ONLY <2>1, d \in Nat \ {0}, DivMod
    <3>. QED  BY ONLY <3>1
  <2>3. w >= 0
    <3>1. ASSUME w <= -1 PROVE FALSE
      <4>1. PICK v \in Nat : v = -w - 1
        BY ONLY <3>1, w \in Int
      <4>2. PICK p \in Nat : p = v * d
        BY NatClosed
      <4>3. w * d = -(v * d) - d
        BY ONLY <4>1, w \in Int, d \in Nat, v \in Nat
      <4>4. y = -p - d + x
        BY ONLY <2>2, <4>2, <4>3, p \in Nat
      <4>5. -p - d + x < 0
        BY ONLY p \in Nat, d \in Nat \ {0}, x \in 0 .. d - 1
      <4>6. y >= 0
        BY <1>1
      <4>. QED  BY ONLY <4>4, <4>5, <4>6, y \in Int, p \in Nat, d \in Nat \ {0}, x \in 0 .. d - 1
    <3>. QED  BY ONLY <3>1, w \in Int
  <2>4. w <= a - 1
    <3>1. ASSUME w >= a PROVE FALSE
      <4>1. PICK v \in Nat : v = w - a
        BY ONLY <3>1, w \in Int, a \in Nat
      <4>2. PICK p \in Nat, q \in Nat : p = v * d /\ q = a * d
        BY NatClosed
      <4>3. w * d = a * d + v * d
        BY ONLY <4>1, w \in Int, d \in Nat, v \in Nat, a \in Nat
      <4>4. y = q + p + x /\ y <= q - 1
        BY ONLY <1>1, <2>2, <4>2, <4>3, y \in 0 .. a * d - 1
      <4>. QED  BY ONLY <4>4, p \in Nat, q \in Nat, x \in 0 .. d - 1, d \in Nat \ {0}
    <3>. QED  BY ONLY <3>1, w \in Int, a \in Nat
  <2>5. w \in 0 .. a - 1
    BY ONLY <2>3, <2>4, w \in Int, a \in Nat
  <2>. QED  BY ONLY <2>2, <2>5
<1>. QED  BY <1>1, <1>2, <1>3

\* A move of size bytes in a row.
Straight(meant, from, to, size) ==
  \A pair : pair \in meant <=> \E y \in 0 .. size - 1 : pair = <<from + y, to + y>>

\* A temporal block.
LEMMA MeantTemporal ==
  ASSUME NEW m, NEW s, NEW listed, NEW src, NEW dst, NEW bias, NEW t \in TensorsOf(m), t = States[m][s].tensor, ~t.conv,
         listed[src + bias] \in Nat, listed[dst] \in Nat
  PROVE  Straight(Meant(m, s, listed, src, dst, bias),
                  BlockStart(t, listed[src + bias]), BlockStart(t, listed[dst]), t.shape[2] * t.elem)
<1>1. PICK a \in Nat, e \in Nat \ {0}, h \in Nat \ {0}, w \in Nat :
        a = t.ptr /\ e = t.elem /\ h = t.shape[2] /\ w = t.stride[1]
  BY TensorIs
<1>2. Len(t.stride) = 2 /\ t.stride[2] = 1 /\ t \in Tensor
  BY TensorIs DEF TensorsOf
<1>3. PICK b \in Nat, d \in Nat : b = listed[src + bias] /\ d = listed[dst]
  OBVIOUS
<1>4. ASSUME NEW c \in Nat, NEW i \in Nat, NEW x \in Nat
      PROVE  ByteAddr(t, <<c, i>>, x) = a + x + e * (w * c + 1 * i)
  <2>1. ByteAddr(t, <<c, i>>, x) = t.ptr + x + t.elem * (t.stride[1] * c + t.stride[2] * i)
    BY ONLY <1>2, c \in Nat, i \in Nat, AddressOfTwo
  <2>. QED  BY ONLY <1>1, <1>2, <2>1
<1>5. \A c \in Nat : BlockStart(t, c) = a + c * (w * e)
  BY ONLY <1>1 DEF BlockStart
<1>6. ASSUME NEW c \in Nat, NEW i \in Nat, NEW x \in Nat
      PROVE  ByteAddr(t, <<c, i>>, x) = BlockStart(t, c) + (i * e + x)
  <2>1. a + x + e * (w * c + 1 * i) = (a + c * (w * e)) + (i * e + x)
    BY ONLY a \in Nat, e \in Nat, w \in Nat, c \in Nat, i \in Nat, x \in Nat
  <2>2. ByteAddr(t, <<c, i>>, x) = a + x + e * (w * c + 1 * i)
    BY ONLY <1>4, c \in Nat, i \in Nat, x \in Nat
  <2>3. BlockStart(t, c) = a + c * (w * e)
    BY ONLY <1>5, c \in Nat
  <2>. QED  BY ONLY <2>1, <2>2, <2>3
<1>7. Meant(m, s, listed, src, dst, bias)
      = {<<ByteAddr(t, <<b, p[1]>>, p[2]), ByteAddr(t, <<d, p[1]>>, p[2])>> : p \in (0 .. h - 1) \X (0 .. e - 1)}
  BY ONLY <1>1, <1>3, ~t.conv, t = States[m][s].tensor DEF Meant
<1>8. ASSUME NEW pair
      PROVE  pair \in Meant(m, s, listed, src, dst, bias)
             <=> \E y \in 0 .. h * e - 1 : pair = <<BlockStart(t, b) + y, BlockStart(t, d) + y>>
  <2>1. pair \in Meant(m, s, listed, src, dst, bias)
        <=> \E i \in 0 .. h - 1, x \in 0 .. e - 1 :
              pair = <<ByteAddr(t, <<b, i>>, x), ByteAddr(t, <<d, i>>, x)>>
    <3>1. ASSUME pair \in Meant(m, s, listed, src, dst, bias)
          PROVE  \E i \in 0 .. h - 1, x \in 0 .. e - 1 :
                   pair = <<ByteAddr(t, <<b, i>>, x), ByteAddr(t, <<d, i>>, x)>>
      <4>1. PICK p \in (0 .. h - 1) \X (0 .. e - 1) :
              pair = <<ByteAddr(t, <<b, p[1]>>, p[2]), ByteAddr(t, <<d, p[1]>>, p[2])>>
        BY ONLY <1>7, <3>1
      <4>2. p[1] \in 0 .. h - 1 /\ p[2] \in 0 .. e - 1
        BY ONLY p \in (0 .. h - 1) \X (0 .. e - 1)
      <4>. QED  BY ONLY <4>1, <4>2
    <3>2. ASSUME NEW i \in 0 .. h - 1, NEW x \in 0 .. e - 1,
                 pair = <<ByteAddr(t, <<b, i>>, x), ByteAddr(t, <<d, i>>, x)>>
          PROVE  pair \in Meant(m, s, listed, src, dst, bias)
      <4>1. PICK p : p = <<i, x>>
        OBVIOUS
      <4>2. p \in (0 .. h - 1) \X (0 .. e - 1) /\ p[1] = i /\ p[2] = x
        BY ONLY <4>1, i \in 0 .. h - 1, x \in 0 .. e - 1
      <4>. QED  BY ONLY <1>7, <3>2, <4>2
    <3>. QED  BY ONLY <3>1, <3>2
  <2>2. \A i \in 0 .. h - 1, x \in 0 .. e - 1 :
          /\ ByteAddr(t, <<b, i>>, x) = BlockStart(t, b) + (i * e + x)
          /\ ByteAddr(t, <<d, i>>, x) = BlockStart(t, d) + (i * e + x)
    <3>. SUFFICES ASSUME NEW i \in 0 .. h - 1, NEW x \in 0 .. e - 1
                  PROVE  /\ ByteAddr(t, <<b, i>>, x) = BlockStart(t, b) + (i * e + x)
                         /\ ByteAddr(t, <<d, i>>, x) = BlockStart(t, d) + (i * e + x)
      OBVIOUS
    <3>1. i \in Nat /\ x \in Nat
      OBVIOUS
    <3>. QED  BY ONLY <1>6, <3>1, b \in Nat, d \in Nat
  <2>3. pair \in Meant(m, s, listed, src, dst, bias)
        <=> \E i \in 0 .. h - 1, x \in 0 .. e - 1 :
              pair = <<BlockStart(t, b) + (i * e + x), BlockStart(t, d) + (i * e + x)>>
    BY ONLY <2>1, <2>2
  <2>4. /\ \A i \in 0 .. h - 1, x \in 0 .. e - 1 : i * e + x \in 0 .. h * e - 1
        /\ \A y \in 0 .. h * e - 1 : \E i \in 0 .. h - 1, x \in 0 .. e - 1 : y = i * e + x
    BY ONLY h \in Nat \ {0}, e \in Nat \ {0}, MixedDigits
  <2>5. PICK from, to : from = BlockStart(t, b) /\ to = BlockStart(t, d)
    OBVIOUS
  <2>6. ASSUME NEW i \in 0 .. h - 1, NEW x \in 0 .. e - 1, pair = <<from + (i * e + x), to + (i * e + x)>>
        PROVE  \E y \in 0 .. h * e - 1 : pair = <<from + y, to + y>>
    <3>1. PICK y \in 0 .. h * e - 1 : y = i * e + x
      BY ONLY <2>4, i \in 0 .. h - 1, x \in 0 .. e - 1
    <3>2. pair = <<from + y, to + y>>
      BY ONLY <2>6, <3>1
    <3>. QED  BY ONLY <3>2, y \in 0 .. h * e - 1
  <2>7. ASSUME NEW y \in 0 .. h * e - 1, pair = <<from + y, to + y>>
        PROVE  \E i \in 0 .. h - 1, x \in 0 .. e - 1 : pair = <<from + (i * e + x), to + (i * e + x)>>
    <3>1. PICK i \in 0 .. h - 1, x \in 0 .. e - 1 : y = i * e + x
      BY ONLY <2>4, y \in 0 .. h * e - 1
    <3>2. pair = <<from + (i * e + x), to + (i * e + x)>>
      BY ONLY <2>7, <3>1
    <3>. QED  BY ONLY <3>2, i \in 0 .. h - 1, x \in 0 .. e - 1
  <2>8. (\E i \in 0 .. h - 1, x \in 0 .. e - 1 : pair = <<from + (i * e + x), to + (i * e + x)>>)
        <=> (\E y \in 0 .. h * e - 1 : pair = <<from + y, to + y>>)
    BY ONLY <2>6, <2>7
  <2>. QED  BY ONLY <2>3, <2>5, <2>8
<1>. QED  BY ONLY <1>1, <1>3, <1>8 DEF Straight

\* A conv window in the SD layout: whole tokens.
LEMMA MeantSd ==
  ASSUME NEW m, NEW s, NEW listed, NEW src, NEW dst, NEW bias \in Nat,
         NEW t \in TensorsOf(m), t = States[m][s].tensor, t.conv, ~Models[m].dimFirst, bias < t.shape[2],
         listed[src] \in Nat, listed[dst] \in Nat,
         NEW token, token = t.stride[2] * t.elem
  PROVE  Straight(Meant(m, s, listed, src, dst, bias),
                  BlockStart(t, listed[src]) + bias * token, BlockStart(t, listed[dst]), (t.shape[2] - bias) * token)
<1>1. PICK a \in Nat, e \in Nat \ {0}, h \in Nat \ {0}, g \in Nat \ {0}, w \in Nat :
        a = t.ptr /\ e = t.elem /\ h = t.shape[2] /\ g = t.shape[3] /\ w = t.stride[1] /\ g = t.stride[2]
  <2>1. /\ t.ptr \in Nat /\ t.elem \in Nat \ {0} /\ t.shape[2] \in Nat \ {0} /\ t.shape[3] \in Nat \ {0}
        /\ t.stride[1] \in Nat /\ t.stride[2] = t.shape[3]
    BY TensorIs
  <2>. QED  BY ONLY <2>1
<1>2. Len(t.stride) = 3 /\ t.stride[3] = 1 /\ t \in Tensor
  BY TensorIs DEF TensorsOf
<1>3. PICK b \in Nat, d \in Nat : b = listed[src] /\ d = listed[dst]
  OBVIOUS
<1>4. ASSUME NEW c \in Nat, NEW j \in Nat, NEW i \in Nat, NEW x \in Nat
      PROVE  ByteAddr(t, <<c, j, i>>, x) = a + x + e * (w * c + g * j + 1 * i)
  <2>1. ByteAddr(t, <<c, j, i>>, x) = t.ptr + x + t.elem * (t.stride[1] * c + t.stride[2] * j + t.stride[3] * i)
    BY ONLY <1>2, c \in Nat, j \in Nat, i \in Nat, AddressOfThree
  <2>. QED  BY ONLY <1>1, <1>2, <2>1
<1>5. \A c \in Nat : BlockStart(t, c) = a + c * (w * e)
  BY ONLY <1>1 DEF BlockStart
<1>6. token = g * e /\ token \in Nat \ {0}
  <2>1. g * e \in Nat /\ g * e # 0
    BY ONLY g \in Nat \ {0}, e \in Nat \ {0}
  <2>. QED  BY ONLY <1>1, <2>1, token = t.stride[2] * t.elem
<1>7. ASSUME NEW c \in Nat, NEW j \in Nat, NEW i \in Nat, NEW x \in Nat
      PROVE  ByteAddr(t, <<c, j, i>>, x) = BlockStart(t, c) + (j * token + (i * e + x))
  <2>1. a + x + e * (w * c + g * j + 1 * i) = (a + c * (w * e)) + (j * (g * e) + (i * e + x))
    BY ONLY a \in Nat, e \in Nat, w \in Nat, g \in Nat, c \in Nat, j \in Nat, i \in Nat, x \in Nat
  <2>2. ByteAddr(t, <<c, j, i>>, x) = a + x + e * (w * c + g * j + 1 * i)
    BY ONLY <1>4, c \in Nat, j \in Nat, i \in Nat, x \in Nat
  <2>3. BlockStart(t, c) = a + c * (w * e)
    BY ONLY <1>5, c \in Nat
  <2>. QED  BY ONLY <1>6, <2>1, <2>2, <2>3
<1>8. Meant(m, s, listed, src, dst, bias)
      = {<<ByteAddr(t, <<b, p[1] + bias, p[2]>>, p[3]), ByteAddr(t, <<d, p[1], p[2]>>, p[3])>>
           : p \in (0 .. h - bias - 1) \X (0 .. g - 1) \X (0 .. e - 1)}
  BY ONLY <1>1, <1>3, t.conv, ~Models[m].dimFirst, t = States[m][s].tensor DEF Meant
<1>9. PICK kept \in Nat : kept = h - bias
  BY <1>1
<1>10. \A c \in Nat : BlockStart(t, c) \in Int
  <2>1. \A c \in Nat : a + c * (w * e) \in Int
    BY ONLY a \in Nat, w \in Nat, e \in Nat
  <2>. QED  BY ONLY <1>5, <2>1
<1>11. PICK f \in Int, u \in Int : f = BlockStart(t, b) + bias * token /\ u = BlockStart(t, d)
  <2>1. bias * token \in Int
    BY <1>6, NatClosed
  <2>2. PICK f \in Int : f = BlockStart(t, b)
    BY ONLY <1>10, b \in Nat
  <2>. QED  BY ONLY <1>10, <2>1, <2>2, d \in Nat
<1>12. ASSUME NEW j \in 0 .. kept - 1, NEW i \in 0 .. g - 1, NEW x \in 0 .. e - 1
       PROVE  /\ ByteAddr(t, <<b, j + bias, i>>, x) = f + (j * token + (i * e + x))
              /\ ByteAddr(t, <<d, j, i>>, x) = u + (j * token + (i * e + x))
  <2>1. j \in Nat /\ i \in Nat /\ x \in Nat /\ j + bias \in Nat
    OBVIOUS
  <2>2. PICK y \in Nat, v \in Nat, l \in Nat : y = i * e + x /\ v = j * token /\ l = bias * token
    BY <1>6, <2>1, NatClosed
  <2>3. (j + bias) * token = v + l
    BY ONLY <1>6, <2>1, <2>2, bias \in Nat
  <2>4. ByteAddr(t, <<b, j + bias, i>>, x) = BlockStart(t, b) + ((v + l) + y)
    BY ONLY <1>7, <2>1, <2>2, <2>3, b \in Nat
  <2>5. PICK q \in Int : q = BlockStart(t, b)
    BY ONLY <1>10, b \in Nat
  <2>6. q + ((v + l) + y) = (q + l) + (v + y)
    BY ONLY q \in Int, v \in Nat, l \in Nat, y \in Nat
  <2>7. f = q + l
    BY ONLY <1>11, <2>2, <2>5
  <2>8. ByteAddr(t, <<b, j + bias, i>>, x) = f + (v + y)
    BY ONLY <2>4, <2>5, <2>6, <2>7
  <2>9. ByteAddr(t, <<d, j, i>>, x) = u + (v + y)
    BY ONLY <1>7, <1>11, <2>1, <2>2, d \in Nat
  <2>. QED  BY ONLY <2>2, <2>8, <2>9
<1>13. ASSUME NEW pair
       PROVE  pair \in Meant(m, s, listed, src, dst, bias)
              <=> \E y \in 0 .. kept * token - 1 : pair = <<f + y, u + y>>
  <2>1. pair \in Meant(m, s, listed, src, dst, bias)
        <=> \E j \in 0 .. kept - 1, i \in 0 .. g - 1, x \in 0 .. e - 1 :
              pair = <<ByteAddr(t, <<b, j + bias, i>>, x), ByteAddr(t, <<d, j, i>>, x)>>
    <3>1. ASSUME pair \in Meant(m, s, listed, src, dst, bias)
          PROVE  \E j \in 0 .. kept - 1, i \in 0 .. g - 1, x \in 0 .. e - 1 :
                   pair = <<ByteAddr(t, <<b, j + bias, i>>, x), ByteAddr(t, <<d, j, i>>, x)>>
      <4>1. PICK p \in (0 .. kept - 1) \X (0 .. g - 1) \X (0 .. e - 1) :
              pair = <<ByteAddr(t, <<b, p[1] + bias, p[2]>>, p[3]), ByteAddr(t, <<d, p[1], p[2]>>, p[3])>>
        BY ONLY <1>8, <1>9, <3>1
      <4>2. p[1] \in 0 .. kept - 1 /\ p[2] \in 0 .. g - 1 /\ p[3] \in 0 .. e - 1
        BY ONLY p \in (0 .. kept - 1) \X (0 .. g - 1) \X (0 .. e - 1)
      <4>. QED  BY ONLY <4>1, <4>2
    <3>2. ASSUME NEW j \in 0 .. kept - 1, NEW i \in 0 .. g - 1, NEW x \in 0 .. e - 1,
                 pair = <<ByteAddr(t, <<b, j + bias, i>>, x), ByteAddr(t, <<d, j, i>>, x)>>
          PROVE  pair \in Meant(m, s, listed, src, dst, bias)
      <4>1. PICK p : p = <<j, i, x>>
        OBVIOUS
      <4>2. p \in (0 .. kept - 1) \X (0 .. g - 1) \X (0 .. e - 1) /\ p[1] = j /\ p[2] = i /\ p[3] = x
        BY ONLY <4>1, j \in 0 .. kept - 1, i \in 0 .. g - 1, x \in 0 .. e - 1
      <4>. QED  BY ONLY <1>8, <1>9, <3>2, <4>2
    <3>. QED  BY ONLY <3>1, <3>2
  <2>2. pair \in Meant(m, s, listed, src, dst, bias)
        <=> \E j \in 0 .. kept - 1, i \in 0 .. g - 1, x \in 0 .. e - 1 :
              pair = <<f + (j * token + (i * e + x)), u + (j * token + (i * e + x))>>
    <3>1. \A j \in 0 .. kept - 1, i \in 0 .. g - 1, x \in 0 .. e - 1 :
            /\ ByteAddr(t, <<b, j + bias, i>>, x) = f + (j * token + (i * e + x))
            /\ ByteAddr(t, <<d, j, i>>, x) = u + (j * token + (i * e + x))
      BY ONLY <1>12
    <3>2. \A j \in 0 .. kept - 1, i \in 0 .. g - 1, x \in 0 .. e - 1 :
            pair = <<ByteAddr(t, <<b, j + bias, i>>, x), ByteAddr(t, <<d, j, i>>, x)>>
            <=> pair = <<f + (j * token + (i * e + x)), u + (j * token + (i * e + x))>>
      BY ONLY <3>1, Zenon
    <3>. QED  BY ONLY <2>1, <3>2, Zenon
  <2>3. /\ \A i \in 0 .. g - 1, x \in 0 .. e - 1 : i * e + x \in 0 .. token - 1
        /\ \A y \in 0 .. token - 1 : \E i \in 0 .. g - 1, x \in 0 .. e - 1 : y = i * e + x
    <3>1. /\ \A i \in 0 .. g - 1, x \in 0 .. e - 1 : i * e + x \in 0 .. g * e - 1
          /\ \A y \in 0 .. g * e - 1 : \E i \in 0 .. g - 1, x \in 0 .. e - 1 : y = i * e + x
      BY ONLY g \in Nat \ {0}, e \in Nat \ {0}, MixedDigits
    <3>. QED  BY ONLY <1>6, <3>1
  <2>4. /\ \A j \in 0 .. kept - 1, z \in 0 .. token - 1 : j * token + z \in 0 .. kept * token - 1
        /\ \A y \in 0 .. kept * token - 1 : \E j \in 0 .. kept - 1, z \in 0 .. token - 1 : y = j * token + z
    BY ONLY <1>6, kept \in Nat, MixedDigits
  <2>5. ASSUME NEW y \in 0 .. kept * token - 1, pair = <<f + y, u + y>> PROVE pair \in Meant(m, s, listed, src, dst, bias)
    <3>1. PICK j \in 0 .. kept - 1, z \in 0 .. token - 1 : y = j * token + z
      BY ONLY <2>4, y \in 0 .. kept * token - 1
    <3>2. PICK i \in 0 .. g - 1, x \in 0 .. e - 1 : z = i * e + x
      BY ONLY <2>3, z \in 0 .. token - 1
    <3>. QED  BY ONLY <2>2, <2>5, <3>1, <3>2, j \in 0 .. kept - 1, i \in 0 .. g - 1, x \in 0 .. e - 1
  <2>6. ASSUME pair \in Meant(m, s, listed, src, dst, bias) PROVE \E y \in 0 .. kept * token - 1 : pair = <<f + y, u + y>>
    <3>1. PICK j \in 0 .. kept - 1, i \in 0 .. g - 1, x \in 0 .. e - 1 :
            pair = <<f + (j * token + (i * e + x)), u + (j * token + (i * e + x))>>
      BY ONLY <2>2, <2>6
    <3>2. j * token + (i * e + x) \in 0 .. kept * token - 1
      BY ONLY <2>3, <2>4, j \in 0 .. kept - 1, i \in 0 .. g - 1, x \in 0 .. e - 1
    <3>. QED  BY ONLY <3>1, <3>2
  <2>. QED  BY ONLY <2>5, <2>6
<1>. QED  BY ONLY <1>1, <1>3, <1>9, <1>11, <1>13 DEF Straight

----------------------------------------------------------------------------
(* The kernels do what a move means.                                       *)

\* Only the first tile has something to do of a copy that is not shared.
LEMMA IdleTiles ==
  ASSUME NEW src \in Int, NEW dst \in Int, NEW size \in Nat, NEW t \in Threads, t[1] # 0
  PROVE  Memcpy(src, dst, size, 1, t) = << >>
<1>1. PICK tile \in Nat, lane \in Nat : tile = t[1] /\ lane = t[3] /\ tile # 0
  BY ThreadParts
<1>2. \A total \in Nat : DOMAIN Strided(total, 1, tile, lane) = {}
  <2>. SUFFICES ASSUME NEW total \in Nat, NEW i \in DOMAIN Strided(total, 1, tile, lane) PROVE FALSE
    OBVIOUS
  <2>1. 1 \in Nat \ {0} /\ 1 \in 1 .. 1 /\ 1 - 1 = 0
    OBVIOUS
  <2>2. PICK y : y = Strided(total, 1, tile, lane)[i]
    OBVIOUS
  <2>3. y \in 0 .. total - 1
    BY ONLY <2>1, <2>2, total \in Nat, tile \in Nat, lane \in Nat, i \in DOMAIN Strided(total, 1, tile, lane), StridedIs
    DEF StridesBy
  <2>4. PICK a \in 0 .. 1 - 1, h \in 0 .. Lanes - 1 :
          \E k \in DOMAIN Strided(total, 1, a, h) : Strided(total, 1, a, h)[k] = y
    BY ONLY <2>1, <2>3, total \in Nat, StridedCovers
  <2>5. a = 0 /\ h \in Nat
    BY ONLY <2>1, a \in 0 .. 1 - 1, h \in 0 .. Lanes - 1, SizesAssumption
  <2>6. PICK k \in DOMAIN Strided(total, 1, a, h) : Strided(total, 1, a, h)[k] = Strided(total, 1, tile, lane)[i]
    BY ONLY <2>2, <2>4
  <2>7. a \in Nat
    BY <2>5
  <2>8. a = tile
    BY ONLY <2>1, <2>5, <2>6, <2>7, total \in Nat, tile \in Nat, lane \in Nat, i \in DOMAIN Strided(total, 1, tile, lane),
            k \in DOMAIN Strided(total, 1, a, h), StridedOnce
  <2>. QED  BY ONLY <1>1, <2>5, <2>8
<1>3. BodyWords(dst, size) \in Nat
  BY LeadIs DEF BodyWords
<1>4. DOMAIN Strided(size, 1, tile, lane) = {} /\ DOMAIN Strided(BodyWords(dst, size), 1, tile, lane) = {}
  BY ONLY <1>2, <1>3, size \in Nat
<1>5. PICK a, b : a = Strided(size, 1, tile, lane) /\ b = Strided(BodyWords(dst, size), 1, tile, lane)
                  /\ DOMAIN a = {} /\ DOMAIN b = {}
  BY ONLY <1>4
<1>6. PICK f : f = Memcpy(src, dst, size, 1, t)
  OBVIOUS
<1>7. \/ f = << >>
      \/ f = [i \in DOMAIN a |-> Op(src + a[i], dst + a[i], 1)]
      \/ f = [i \in DOMAIN b |-> Op(src + HeadBytes(dst, size) + Word * b[i], dst + HeadBytes(dst, size) + Word * b[i], Word)]
  BY ONLY <1>1, <1>5, <1>6 DEF Memcpy
<1>8. [i \in DOMAIN a |-> Op(src + a[i], dst + a[i], 1)] = << >>
  BY <1>5
<1>9. [i \in DOMAIN b |-> Op(src + HeadBytes(dst, size) + Word * b[i], dst + HeadBytes(dst, size) + Word * b[i], Word)] = << >>
  BY <1>5
<1>. QED  BY ONLY <1>6, <1>7, <1>8, <1>9

\* A program carries out a move, in memory and in an order that no thread can upset.
Moved(meant, X, delta) == \A pair : pair \in meant <=> \E b \in X : pair = <<b + delta, b>>

Realizes(P, meant, barrier, memory) ==
  \E X, reads :
    /\ reads \in [X -> memory] /\ X \subseteq memory
    /\ Carries(P, reads, X) /\ OrderKept(P, reads, X, barrier)
    /\ \A pair : pair \in meant <=> \E b \in X : pair = <<reads[b], b>>

LEMMA Realized ==
  ASSUME NEW P, NEW meant, NEW barrier, NEW memory, NEW X, X \subseteq memory, NEW delta, \A b \in X : b + delta \in memory,
         Moved(meant, X, delta),
         \A reads : (\A b \in X : reads[b] = b + delta) => Carries(P, reads, X) /\ OrderKept(P, reads, X, barrier)
  PROVE  Realizes(P, meant, barrier, memory)
<1>1. PICK reads : reads = [b \in X |-> b + delta]
  OBVIOUS
<1>2. \A b \in X : reads[b] = b + delta
  BY ONLY <1>1
<1>3. reads \in [X -> memory]
  BY ONLY <1>1, \A b \in X : b + delta \in memory
<1>4. Carries(P, reads, X) /\ OrderKept(P, reads, X, barrier)
  BY <1>2
<1>5. \A pair : pair \in meant <=> \E b \in X : pair = <<reads[b], b>>
  BY ONLY <1>2, Moved(meant, X, delta) DEF Moved
<1>. QED  BY ONLY <1>3, <1>4, <1>5, X \subseteq memory DEF Realizes

\* A move of bytes in a row.
Hop(from, to, size, memory, delta, X) ==
  /\ from .. from + size - 1 \subseteq memory /\ to .. to + size - 1 \subseteq memory
  /\ delta = from - to /\ X = to .. to + size - 1

LEMMA StraightMoved ==
  ASSUME NEW from \in Int, NEW to \in Int, NEW size \in Nat, NEW meant, Straight(meant, from, to, size),
         NEW memory, NEW delta, NEW X, Hop(from, to, size, memory, delta, X)
  PROVE  /\ X \subseteq memory /\ \A b \in X : b + delta \in memory /\ b + delta \in from .. from + size - 1
         /\ Moved(meant, X, delta)
         /\ \A reads : (\A b \in X : reads[b] = b + delta) => Onto(reads, from, to, size)
<1>0. /\ from .. from + size - 1 \subseteq memory /\ to .. to + size - 1 \subseteq memory
      /\ delta = from - to /\ X = to .. to + size - 1
  BY DEF Hop
<1>1. ASSUME NEW b \in X
      PROVE  /\ b + delta \in from .. from + size - 1 /\ b - to \in 0 .. size - 1
             /\ from + (b - to) = b + delta /\ to + (b - to) = b
  BY ONLY b \in X, <1>0, from \in Int, to \in Int, size \in Nat
<1>2. ASSUME NEW y \in 0 .. size - 1 PROVE to + y \in X /\ (to + y) + delta = from + y
  BY ONLY y \in 0 .. size - 1, <1>0, from \in Int, to \in Int, size \in Nat
<1>3. ASSUME NEW pair PROVE pair \in meant <=> \E b \in X : pair = <<b + delta, b>>
  <2>1. pair \in meant <=> \E y \in 0 .. size - 1 : pair = <<from + y, to + y>>
    BY ONLY Straight(meant, from, to, size) DEF Straight
  <2>2. ASSUME NEW y \in 0 .. size - 1, pair = <<from + y, to + y>> PROVE \E b \in X : pair = <<b + delta, b>>
    BY ONLY <1>2, <2>2, y \in 0 .. size - 1
  <2>3. ASSUME NEW b \in X, pair = <<b + delta, b>> PROVE \E y \in 0 .. size - 1 : pair = <<from + y, to + y>>
    BY ONLY <1>1, <2>3, b \in X
  <2>. QED  BY ONLY <2>1, <2>2, <2>3
<1>4. Moved(meant, X, delta)
  BY ONLY <1>3 DEF Moved
<1>5. \A reads : (\A b \in X : reads[b] = b + delta) => Onto(reads, from, to, size)
  BY ONLY <1>2 DEF Onto
<1>6. X \subseteq memory /\ \A b \in X : b + delta \in memory /\ b + delta \in from .. from + size - 1
  <2>1. \A b \in X : b + delta \in from .. from + size - 1
    BY ONLY <1>1
  <2>. QED  BY ONLY <1>0, <2>1
<1>. QED  BY ONLY <1>4, <1>5, <1>6

\* A plain copy, onto itself or elsewhere.
LEMMA PlainRealizes ==
  ASSUME NEW from \in Int, NEW to \in Int, NEW size \in Nat, NEW meant, Straight(meant, from, to, size),
         NEW memory, from .. from + size - 1 \subseteq memory, to .. to + size - 1 \subseteq memory,
         NEW tiles \in 1 .. Tiles, NEW P, Copying(P, from, to, size, tiles), NEW barrier,
         from = to \/ from + size <= to \/ to + size <= from
  PROVE  Realizes(P, meant, barrier, memory)
<1>1. PICK delta, X : delta = from - to /\ X = to .. to + size - 1
  OBVIOUS
<1>2. /\ X \subseteq memory /\ \A b \in X : b + delta \in memory /\ b + delta \in from .. from + size - 1
      /\ Moved(meant, X, delta)
      /\ \A reads : (\A b \in X : reads[b] = b + delta) => Onto(reads, from, to, size)
  <2>1. Hop(from, to, size, memory, delta, X)
    BY ONLY <1>1, from .. from + size - 1 \subseteq memory, to .. to + size - 1 \subseteq memory DEF Hop
  <2>. QED  BY ONLY <2>1, from \in Int, to \in Int, size \in Nat, Straight(meant, from, to, size), StraightMoved
<1>3. ASSUME NEW reads, \A b \in X : reads[b] = b + delta
      PROVE  Carries(P, reads, X) /\ OrderKept(P, reads, X, barrier)
  <2>1. Onto(reads, from, to, size)
    BY ONLY <1>2, <1>3
  <2>2. X = to .. to + size - 1
    BY ONLY <1>1
  <2>3. Carries(P, reads, X)
    BY ONLY <2>1, <2>2, from \in Int, to \in Int, size \in Nat, tiles \in 1 .. Tiles, Copying(P, from, to, size, tiles),
            MemcpyCarries
  <2>4. \A b \in X : reads[b] \in X => reads[b] = b
    <3>. SUFFICES ASSUME NEW b \in X, reads[b] \in X PROVE reads[b] = b
      OBVIOUS
    <3>1. PICK y \in Int : y = b + delta /\ y = reads[b] /\ y \in from .. from + size - 1
      BY ONLY <1>2, <1>3, b \in X, from \in Int, size \in Nat
    <3>2. y \in to .. to + size - 1 /\ b \in to .. to + size - 1
      BY ONLY <2>2, <3>1, b \in X, reads[b] \in X
    <3>3. from = to
      BY ONLY <3>1, <3>2, from = to \/ from + size <= to \/ to + size <= from, from \in Int, to \in Int, size \in Nat, y \in Int
    <3>4. y = b
      BY ONLY <1>1, <3>1, <3>2, <3>3, from \in Int, to \in Int, size \in Nat
    <3>. QED  BY ONLY <3>1, <3>4
  <2>5. OrderKept(P, reads, X, barrier)
    BY ONLY <2>3, <2>4, ApartKeepsOrder
  <2>. QED  BY ONLY <2>3, <2>5
<1>4. X \subseteq memory /\ (\A b \in X : b + delta \in memory) /\ Moved(meant, X, delta)
  BY ONLY <1>2
<1>. QED  BY ONLY <1>3, <1>4, Realized

\* The batch kernel, to the left with a barrier or out of the way.
LEMMA BatchRealizes ==
  ASSUME NEW from \in Int, NEW to \in Int, NEW size \in Nat, NEW meant, Straight(meant, from, to, size),
         NEW memory, from .. from + size - 1 \subseteq memory, to .. to + size - 1 \subseteq memory,
         NEW e, NEW P, BatchOf(P, e, from, to, size), NEW barrier \in BOOLEAN,
         to < from /\ to + size > from => barrier, to <= from \/ from + size <= to
  PROVE  Realizes(P, meant, barrier, memory)
<1>1. PICK delta, X : delta = from - to /\ X = to .. to + size - 1
  OBVIOUS
<1>2. /\ X \subseteq memory /\ \A b \in X : b + delta \in memory /\ b + delta \in from .. from + size - 1
      /\ Moved(meant, X, delta)
      /\ \A reads : (\A b \in X : reads[b] = b + delta) => Onto(reads, from, to, size)
  <2>1. Hop(from, to, size, memory, delta, X)
    BY ONLY <1>1, from .. from + size - 1 \subseteq memory, to .. to + size - 1 \subseteq memory DEF Hop
  <2>. QED  BY ONLY <2>1, from \in Int, to \in Int, size \in Nat, Straight(meant, from, to, size), StraightMoved
<1>3. ASSUME NEW reads, \A b \in X : reads[b] = b + delta
      PROVE  Carries(P, reads, X) /\ OrderKept(P, reads, X, barrier)
  <2>1. Onto(reads, from, to, size)
    BY ONLY <1>2, <1>3
  <2>2. X = to .. to + size - 1
    BY ONLY <1>1
  <2>. QED  BY ONLY <2>1, <2>2, from \in Int, to \in Int, size \in Nat, BatchOf(P, e, from, to, size), barrier \in BOOLEAN,
                    to < from /\ to + size > from => barrier, to <= from \/ from + size <= to, BatchCarries
<1>4. X \subseteq memory /\ (\A b \in X : b + delta \in memory) /\ Moved(meant, X, delta)
  BY ONLY <1>2
<1>. QED  BY ONLY <1>3, <1>4, Realized

\* What a launch does that shifts a window in place, token by token.
ShiftProgram(P, base, token, kept, bias) ==
  P = [t \in Threads |->
         FlattenSeq([k \in 1 .. kept |-> Memcpy(base + (k - 1 + bias) * token, base + (k - 1) * token, token, 1, t)])]

LEMMA ShiftRealizes ==
  ASSUME NEW base \in Int, NEW token \in Nat \ {0}, NEW kept \in Nat, NEW bias \in Nat \ {0},
         NEW shift, shift = bias * token, NEW size, size = kept * token,
         NEW meant, Straight(meant, base + shift, base, size),
         NEW memory, base + shift .. base + shift + size - 1 \subseteq memory, base .. base + size - 1 \subseteq memory,
         NEW P, ShiftProgram(P, base, token, kept, bias), NEW barrier
  PROVE  Realizes(P, meant, barrier, memory)
<1>1. shift \in Nat \ {0} /\ size \in Nat
  <2>1. bias * token \in Nat /\ bias * token # 0
    BY ONLY bias \in Nat \ {0}, token \in Nat \ {0}
  <2>2. kept * token \in Nat
    BY ONLY kept \in Nat, token \in Nat \ {0}
  <2>. QED  BY ONLY <2>1, <2>2, shift = bias * token, size = kept * token
<1>2. PICK at, all : Cells(at, token, kept, all) /\ all = kept * token /\ \A k \in Int : at[k] = (k - 1) * token
  BY ONLY token \in Nat \ {0}, kept \in Nat, TokensAt
<1>3. PICK D : D = [k \in Int |-> base + at[k]]
  OBVIOUS
<1>4. PICK X : X = base .. base + size - 1
  OBVIOUS
<1>5. Tiled(D, token, kept, X)
  <2>1. Tiled([k \in Int |-> base + at[k]], token, kept, base .. base + all - 1)
    BY ONLY <1>2, base \in Int, token \in Nat \ {0}, kept \in Nat, TokenBytes
  <2>. QED  BY ONLY <1>2, <1>3, <1>4, <2>1, size = kept * token
<1>6. \A k \in Int : D[k] = base + (k - 1) * token
  BY ONLY <1>2, <1>3
<1>7. ASSUME NEW k \in Int PROVE D[k + bias] = D[k] + shift /\ D[k] + shift = base + (k - 1 + bias) * token
  <2>1. k + bias \in Int
    OBVIOUS
  <2>2. D[k + bias] = base + ((k + bias) - 1) * token
    BY ONLY <1>6, <2>1
  <2>3. base + ((k + bias) - 1) * token = (base + (k - 1) * token) + bias * token
    BY ONLY base \in Int, k \in Int, bias \in Nat, token \in Nat
  <2>4. base + (k - 1 + bias) * token = (base + (k - 1) * token) + bias * token
    BY ONLY base \in Int, k \in Int, bias \in Nat, token \in Nat
  <2>. QED  BY ONLY <1>6, <2>2, <2>3, <2>4, k \in Int, shift = bias * token
<1>8. PICK Part : Part = [k \in 1 .. kept |-> [t \in Threads |-> Memcpy(D[k] + shift, D[k], token, 1, t)]]
  OBVIOUS
<1>9. \A k \in 1 .. kept : Part[k] = [t \in Threads |-> Memcpy(D[k] + shift, D[k], token, 1, t)]
  BY ONLY <1>8
<1>10. P = [t \in Threads |-> FlattenSeq([k \in 1 .. kept |-> Part[k][t]])]
  <2>1. ASSUME NEW t \in Threads
        PROVE  [k \in 1 .. kept |-> Memcpy(base + (k - 1 + bias) * token, base + (k - 1) * token, token, 1, t)]
               = [k \in 1 .. kept |-> Part[k][t]]
    <3>1. ASSUME NEW k \in 1 .. kept
          PROVE  Memcpy(base + (k - 1 + bias) * token, base + (k - 1) * token, token, 1, t) = Part[k][t]
      <4>1. k \in Int
        OBVIOUS
      <4>2. D[k] + shift = base + (k - 1 + bias) * token /\ D[k] = base + (k - 1) * token
        BY ONLY <1>6, <1>7, <4>1
      <4>3. Part[k][t] = Memcpy(D[k] + shift, D[k], token, 1, t)
        BY ONLY <1>9, k \in 1 .. kept, t \in Threads
      <4>. QED  BY ONLY <4>2, <4>3
    <3>. QED  BY ONLY <3>1
  <2>. QED  BY ONLY <2>1, ShiftProgram(P, base, token, kept, bias) DEF ShiftProgram
<1>11. PICK from, delta : from = base + shift /\ delta = from - base /\ delta = shift /\ from \in Int
  BY ONLY <1>1, base \in Int
<1>12. Hop(from, base, size, memory, delta, X)
  BY ONLY <1>4, <1>11, base + shift .. base + shift + size - 1 \subseteq memory, base .. base + size - 1 \subseteq memory DEF Hop
<1>13. Straight(meant, from, base, size)
  BY ONLY <1>11, Straight(meant, base + shift, base, size)
<1>14. X \subseteq memory /\ (\A b \in X : b + delta \in memory) /\ Moved(meant, X, delta)
  BY ONLY <1>1, <1>11, <1>12, <1>13, base \in Int, StraightMoved
<1>15. ASSUME NEW reads, \A b \in X : reads[b] = b + delta
       PROVE  Carries(P, reads, X) /\ OrderKept(P, reads, X, barrier)
  <2>1. \A b \in X : reads[b] = b + shift
    BY ONLY <1>11, <1>15
  <2>2. \A k \in Int : D[k + bias] = D[k] + shift
    BY ONLY <1>7
  <2>3. Shifting(P, Part, reads, D, X, token, kept, bias, shift)
    BY ONLY <1>5, <1>9, <1>10, <2>1, <2>2 DEF Shifting
  <2>. QED  BY ONLY <1>1, <2>3, token \in Nat \ {0}, kept \in Nat, bias \in Nat \ {0}, ShiftCarries
<1>. QED  BY ONLY <1>14, <1>15, Realized

\* A conv window in the DS layout: a token of every row.
InRows(meant, from, to, rows, stride, kept, bias, elem) ==
  \A pair : pair \in meant <=>
    \E j \in 0 .. kept - 1, i \in 0 .. rows - 1, x \in 0 .. elem - 1 :
      pair = <<from + (i * stride + ((j + bias) * elem + x)), to + (i * stride + (j * elem + x))>>

LEMMA MeantDs ==
  ASSUME NEW m, NEW s, NEW listed, NEW src, NEW dst, NEW bias \in Nat,
         NEW t \in TensorsOf(m), t = States[m][s].tensor, t.conv, Models[m].dimFirst, bias < t.shape[3],
         listed[src] \in Nat, listed[dst] \in Nat,
         NEW stride, stride = t.stride[2] * t.elem
  PROVE  InRows(Meant(m, s, listed, src, dst, bias), BlockStart(t, listed[src]), BlockStart(t, listed[dst]),
                t.shape[2], stride, t.shape[3] - bias, bias, t.elem)
<1>1. PICK a \in Nat, e \in Nat \ {0}, h \in Nat \ {0}, l \in Nat \ {0}, g \in Nat, w \in Nat :
        a = t.ptr /\ e = t.elem /\ h = t.shape[2] /\ l = t.shape[3] /\ w = t.stride[1] /\ g = t.stride[2]
  <2>1. /\ t.ptr \in Nat /\ t.elem \in Nat \ {0} /\ t.shape[2] \in Nat \ {0} /\ t.shape[3] \in Nat \ {0}
        /\ t.stride[1] \in Nat /\ t.stride[2] \in Nat
    BY TensorIs
  <2>. QED  BY ONLY <2>1
<1>2. Len(t.stride) = 3 /\ t.stride[3] = 1 /\ t \in Tensor
  BY TensorIs DEF TensorsOf
<1>3. PICK b \in Nat, d \in Nat : b = listed[src] /\ d = listed[dst]
  OBVIOUS
<1>4. ASSUME NEW c \in Nat, NEW i \in Nat, NEW j \in Nat, NEW x \in Nat
      PROVE  ByteAddr(t, <<c, i, j>>, x) = BlockStart(t, c) + (i * stride + (j * e + x))
  <2>1. ByteAddr(t, <<c, i, j>>, x) = t.ptr + x + t.elem * (t.stride[1] * c + t.stride[2] * i + t.stride[3] * j)
    BY ONLY <1>2, c \in Nat, j \in Nat, i \in Nat, AddressOfThree
  <2>2. ByteAddr(t, <<c, i, j>>, x) = a + x + e * (w * c + g * i + 1 * j)
    BY ONLY <1>1, <1>2, <2>1
  <2>3. a + x + e * (w * c + g * i + 1 * j) = (a + c * (w * e)) + (i * (g * e) + (j * e + x))
    BY ONLY a \in Nat, e \in Nat, w \in Nat, g \in Nat, c \in Nat, j \in Nat, i \in Nat, x \in Nat
  <2>4. BlockStart(t, c) = a + c * (w * e)
    BY ONLY <1>1 DEF BlockStart
  <2>. QED  BY ONLY <1>1, <2>2, <2>3, <2>4, stride = t.stride[2] * t.elem
<1>5. Meant(m, s, listed, src, dst, bias)
      = {<<ByteAddr(t, <<b, p[2], p[1] + bias>>, p[3]), ByteAddr(t, <<d, p[2], p[1]>>, p[3])>>
           : p \in (0 .. l - bias - 1) \X (0 .. h - 1) \X (0 .. e - 1)}
  BY ONLY <1>1, <1>3, t.conv, Models[m].dimFirst, t = States[m][s].tensor DEF Meant
<1>6. PICK kept : kept = l - bias
  OBVIOUS
<1>7. PICK f, u : f = BlockStart(t, b) /\ u = BlockStart(t, d)
  OBVIOUS
<1>8. \A j \in 0 .. kept - 1, i \in 0 .. h - 1, x \in 0 .. e - 1 :
        /\ ByteAddr(t, <<b, i, j + bias>>, x) = f + (i * stride + ((j + bias) * e + x))
        /\ ByteAddr(t, <<d, i, j>>, x) = u + (i * stride + (j * e + x))
  <2>. SUFFICES ASSUME NEW j \in 0 .. kept - 1, NEW i \in 0 .. h - 1, NEW x \in 0 .. e - 1
                PROVE  /\ ByteAddr(t, <<b, i, j + bias>>, x) = f + (i * stride + ((j + bias) * e + x))
                       /\ ByteAddr(t, <<d, i, j>>, x) = u + (i * stride + (j * e + x))
    OBVIOUS
  <2>1. j \in Nat /\ i \in Nat /\ x \in Nat /\ j + bias \in Nat
    OBVIOUS
  <2>2. ByteAddr(t, <<b, i, j + bias>>, x) = f + (i * stride + ((j + bias) * e + x))
    BY ONLY <1>4, <1>7, <2>1, b \in Nat
  <2>3. ByteAddr(t, <<d, i, j>>, x) = u + (i * stride + (j * e + x))
    BY ONLY <1>4, <1>7, <2>1, d \in Nat
  <2>. QED  BY ONLY <2>2, <2>3
<1>9. ASSUME NEW pair
      PROVE  pair \in Meant(m, s, listed, src, dst, bias)
             <=> \E j \in 0 .. kept - 1, i \in 0 .. h - 1, x \in 0 .. e - 1 :
                   pair = <<f + (i * stride + ((j + bias) * e + x)), u + (i * stride + (j * e + x))>>
  <2>1. pair \in Meant(m, s, listed, src, dst, bias)
        <=> \E j \in 0 .. kept - 1, i \in 0 .. h - 1, x \in 0 .. e - 1 :
              pair = <<ByteAddr(t, <<b, i, j + bias>>, x), ByteAddr(t, <<d, i, j>>, x)>>
    <3>1. ASSUME pair \in Meant(m, s, listed, src, dst, bias)
          PROVE  \E j \in 0 .. kept - 1, i \in 0 .. h - 1, x \in 0 .. e - 1 :
                   pair = <<ByteAddr(t, <<b, i, j + bias>>, x), ByteAddr(t, <<d, i, j>>, x)>>
      <4>1. PICK p \in (0 .. kept - 1) \X (0 .. h - 1) \X (0 .. e - 1) :
              pair = <<ByteAddr(t, <<b, p[2], p[1] + bias>>, p[3]), ByteAddr(t, <<d, p[2], p[1]>>, p[3])>>
        BY ONLY <1>5, <1>6, <3>1
      <4>2. p[1] \in 0 .. kept - 1 /\ p[2] \in 0 .. h - 1 /\ p[3] \in 0 .. e - 1
        BY ONLY p \in (0 .. kept - 1) \X (0 .. h - 1) \X (0 .. e - 1)
      <4>. QED  BY ONLY <4>1, <4>2
    <3>2. ASSUME NEW j \in 0 .. kept - 1, NEW i \in 0 .. h - 1, NEW x \in 0 .. e - 1,
                 pair = <<ByteAddr(t, <<b, i, j + bias>>, x), ByteAddr(t, <<d, i, j>>, x)>>
          PROVE  pair \in Meant(m, s, listed, src, dst, bias)
      <4>1. PICK p : p = <<j, i, x>>
        OBVIOUS
      <4>2. p \in (0 .. kept - 1) \X (0 .. h - 1) \X (0 .. e - 1) /\ p[1] = j /\ p[2] = i /\ p[3] = x
        BY ONLY <4>1, j \in 0 .. kept - 1, i \in 0 .. h - 1, x \in 0 .. e - 1
      <4>. QED  BY ONLY <1>5, <1>6, <3>2, <4>2
    <3>. QED  BY ONLY <3>1, <3>2
  <2>2. \A j \in 0 .. kept - 1, i \in 0 .. h - 1, x \in 0 .. e - 1 :
          pair = <<ByteAddr(t, <<b, i, j + bias>>, x), ByteAddr(t, <<d, i, j>>, x)>>
          <=> pair = <<f + (i * stride + ((j + bias) * e + x)), u + (i * stride + (j * e + x))>>
    BY ONLY <1>8, ZenonT(40)
  <2>. QED  BY ONLY <2>1, <2>2, ZenonT(40)
<1>. QED  BY ONLY <1>1, <1>3, <1>6, <1>7, <1>9 DEF InRows

\* The numbers of a DS window: rows of at least width elements, a stride apart.
Sheet(rows, stride, width, elem) == rows \in Nat /\ stride \in Nat \ {0} /\ elem \in Nat \ {0} /\ width \in Nat /\ width * elem <= stride

\* Where its rows and tokens are.
Ruled(off, D, to, rows, stride, elem) ==
  /\ off = [r \in 0 .. rows - 1 |-> r * stride]
  /\ D = [k \in Int |-> to + (k - 1) * elem]

LEMMA SheetGrid ==
  ASSUME NEW rows, NEW stride, NEW width, NEW elem, Sheet(rows, stride, width, elem), NEW to \in Int,
         NEW off, NEW D, Ruled(off, D, to, rows, stride, elem)
  PROVE  Window(D, elem, width, stride) /\ Apart(off, rows, stride)
<1>1. rows \in Nat /\ stride \in Nat \ {0} /\ elem \in Nat \ {0} /\ width \in Nat /\ width * elem <= stride
  BY DEF Sheet
<1>2. off = [r \in 0 .. rows - 1 |-> r * stride] /\ D = [k \in Int |-> to + (k - 1) * elem]
  BY DEF Ruled
<1>3. \A k \in Int : (k - 1) * elem \in Int /\ (k - 1) * elem + elem = k * elem
  BY ONLY <1>1
<1>4. ASSUME NEW k \in Int PROVE D[k] = to + (k - 1) * elem /\ D[k] \in Int
  <2>1. PICK p \in Int : p = (k - 1) * elem
    BY ONLY <1>3, k \in Int
  <2>2. D[k] = to + p
    BY ONLY <1>2, <2>1, k \in Int
  <2>3. to + p \in Int
    BY ONLY to \in Int, p \in Int
  <2>. QED  BY ONLY <2>1, <2>2, <2>3
<1>5. D \in [Int -> Int]
  BY ONLY <1>2, <1>4
<1>6. ASSUME NEW k \in 1 .. width PROVE D[1] <= D[k] /\ D[k] + elem <= D[1] + stride
  <2>1. k \in Int /\ k - 1 \in Nat /\ k \in Nat /\ width - k \in Nat
    BY ONLY <1>1, k \in 1 .. width
  <2>2. PICK p \in Nat, q \in Nat : p = (k - 1) * elem /\ q = (width - k) * elem
    BY ONLY <1>1, <2>1, NatClosed
  <2>3. width * elem = (k - 1) * elem + elem + (width - k) * elem
    BY ONLY <1>1, <2>1
  <2>4. p + elem + q <= stride
    BY ONLY <1>1, <2>2, <2>3
  <2>5. D[k] = to + p /\ D[1] = to
    <3>1. 1 \in Int /\ (1 - 1) * elem = 0
      BY ONLY <1>1
    <3>2. D[1] = to + (1 - 1) * elem
      BY ONLY <1>4, <3>1
    <3>3. to + 0 = to
      BY ONLY to \in Int
    <3>4. D[k] = to + (k - 1) * elem
      BY ONLY <1>4, <2>1
    <3>. QED  BY ONLY <2>2, <3>1, <3>2, <3>3, <3>4
  <2>6. to <= to + p /\ (to + p) + elem <= to + stride
    BY ONLY <1>1, <2>4, p \in Nat, q \in Nat, to \in Int
  <2>. QED  BY ONLY <2>5, <2>6
<1>7. ASSUME NEW k \in Int, NEW m \in Int, k < m PROVE D[k] + elem <= D[m]
  <2>1. PICK j \in Nat : j = m - 1 - k
    BY ONLY <1>7, k \in Int, m \in Int
  <2>2. PICK p \in Nat, q \in Int : p = j * elem /\ q = (k - 1) * elem
    BY ONLY <1>1, <1>3, NatClosed, k \in Int, j \in Nat
  <2>3. (m - 1) * elem = (k - 1) * elem + elem + j * elem
    BY ONLY <1>1, <2>1, k \in Int, m \in Int
  <2>4. D[k] = to + q /\ D[m] = to + (q + elem + p)
    BY ONLY <1>4, <2>2, <2>3, k \in Int, m \in Int
  <2>. QED  BY ONLY <1>1, <2>4, p \in Nat, q \in Int, to \in Int
<1>8. Window(D, elem, width, stride)
  BY ONLY <1>5, <1>6, <1>7 DEF Window
<1>9. \A r \in Int : r * stride \in Int
  BY ONLY <1>1
<1>10. \A r \in 0 .. rows - 1 : off[r] = r * stride /\ off[r] \in Int
  <2>1. \A r \in 0 .. rows - 1 : r \in Int
    BY ONLY <1>1
  <2>. QED  BY ONLY <1>2, <1>9, <2>1
<1>11. off \in [0 .. rows - 1 -> Int]
  BY ONLY <1>2, <1>10
<1>12. ASSUME NEW r \in 0 .. rows - 1, NEW q \in 0 .. rows - 1, r < q PROVE off[r] + stride <= off[q]
  <2>1. PICK j \in Nat : j = q - 1 - r /\ r \in Int /\ q \in Int
    BY ONLY <1>1, <1>12, r \in 0 .. rows - 1, q \in 0 .. rows - 1
  <2>2. PICK p \in Nat, l \in Int : p = j * stride /\ l = r * stride
    BY ONLY <1>1, <1>9, <2>1, NatClosed, j \in Nat
  <2>3. q * stride = r * stride + stride + j * stride
    BY ONLY <1>1, <2>1
  <2>4. off[r] = l /\ off[q] = l + stride + p
    BY ONLY <1>10, <2>2, <2>3, r \in 0 .. rows - 1, q \in 0 .. rows - 1
  <2>. QED  BY ONLY <1>1, <2>4, p \in Nat, l \in Int
<1>13. Apart(off, rows, stride)
  BY ONLY <1>11, <1>12 DEF Apart
<1>. QED  BY ONLY <1>8, <1>13

\* The bytes of the first kept tokens of all rows.
KeptBytes(X, D, off, rows, elem, kept) ==
  X = UNION {RowBytes(D[k], off, elem, r) : k \in 1 .. kept, r \in 0 .. rows - 1}

LEMMA InRowsMoved ==
  ASSUME NEW rows, NEW stride, NEW width, NEW elem, Sheet(rows, stride, width, elem), NEW to \in Int, NEW from \in Int,
         NEW off, NEW D, Ruled(off, D, to, rows, stride, elem), NEW bias \in Nat, NEW kept \in Nat, kept + bias <= width,
         NEW delta, delta = from - to + bias * elem, NEW X, KeptBytes(X, D, off, rows, elem, kept),
         NEW meant, InRows(meant, from, to, rows, stride, kept, bias, elem)
  PROVE  /\ Moved(meant, X, delta)
         /\ X \subseteq to .. to + rows * stride - 1
         /\ \A b \in X : b + delta \in from .. from + rows * stride - 1
<1>1. rows \in Nat /\ stride \in Nat \ {0} /\ elem \in Nat \ {0} /\ width \in Nat /\ width * elem <= stride
  BY DEF Sheet
<1>2. off = [r \in 0 .. rows - 1 |-> r * stride] /\ D = [k \in Int |-> to + (k - 1) * elem]
  BY DEF Ruled
<1>3. PICK z \in Nat : z = bias * elem /\ delta = from - to + z
  BY ONLY <1>1, bias \in Nat, NatClosed, delta = from - to + bias * elem
<1>4. ASSUME NEW j \in 0 .. kept - 1, NEW i \in 0 .. rows - 1, NEW x \in 0 .. elem - 1
      PROVE  /\ i * stride + (j * elem + x) \in Nat
             /\ i * stride + ((j + bias) * elem + x) = (i * stride + (j * elem + x)) + z
             /\ i * stride + (j * elem + x) \in 0 .. rows * stride - 1
             /\ i * stride + ((j + bias) * elem + x) \in 0 .. rows * stride - 1
  <2>1. i \in Nat /\ j \in Nat /\ x \in Nat /\ j + bias \in 0 .. width - 1
    BY ONLY <1>1, j \in 0 .. kept - 1, i \in 0 .. rows - 1, x \in 0 .. elem - 1, bias \in Nat, kept \in Nat, kept + bias <= width
  <2>2. PICK p \in Nat, q \in Nat : p = i * stride /\ q = j * elem + x
    BY ONLY <1>1, <2>1, NatClosed
  <2>3. (j + bias) * elem + x = q + z
    <3>1. (j + bias) * elem + x = (j * elem + x) + bias * elem
      BY ONLY <1>1, <2>1, bias \in Nat
    <3>. QED  BY ONLY <1>3, <2>2, <3>1
  <2>4. (j + bias) * elem + x \in 0 .. width * elem - 1
    BY ONLY <1>1, <2>1, x \in 0 .. elem - 1, MixedDigits
  <2>5. q + z \in 0 .. stride - 1 /\ q \in 0 .. stride - 1
    <3>1. PICK v \in Nat : v = width * elem /\ v <= stride
      BY ONLY <1>1, NatClosed
    <3>2. q + z \in 0 .. v - 1
      BY ONLY <2>3, <2>4, <3>1
    <3>. QED  BY ONLY <1>1, <3>1, <3>2, q \in Nat, z \in Nat
  <2>6. i * stride + q \in 0 .. rows * stride - 1 /\ i * stride + (q + z) \in 0 .. rows * stride - 1
    <3>1. \A w \in 0 .. rows - 1, y \in 0 .. stride - 1 : w * stride + y \in 0 .. rows * stride - 1
      BY ONLY <1>1, MixedDigits
    <3>. QED  BY ONLY <2>5, <3>1, i \in 0 .. rows - 1
  <2>7. p + (q + z) = (p + q) + z /\ p + q \in Nat
    BY ONLY p \in Nat, q \in Nat, z \in Nat
  <2>. QED  BY ONLY <2>2, <2>3, <2>6, <2>7
<1>5. rows * stride \in Nat
  BY ONLY <1>1, NatClosed
<1>6. PICK all \in Nat : all = rows * stride
  BY ONLY <1>5
<1>7. ASSUME NEW b
      PROVE  b \in X <=> \E j \in 0 .. kept - 1, i \in 0 .. rows - 1, x \in 0 .. elem - 1 : b = to + (i * stride + (j * elem + x))
  <2>1. b \in X <=> \E k \in 1 .. kept, r \in 0 .. rows - 1 : b \in RowBytes(D[k], off, elem, r)
    BY ONLY KeptBytes(X, D, off, rows, elem, kept) DEF KeptBytes
  <2>2. ASSUME NEW k \in 1 .. kept, NEW r \in 0 .. rows - 1
        PROVE  b \in RowBytes(D[k], off, elem, r) <=> \E x \in 0 .. elem - 1 : b = to + (r * stride + ((k - 1) * elem + x))
    <3>1. k \in Int /\ k - 1 \in Nat /\ r \in Nat
      BY ONLY <1>1, k \in 1 .. kept, r \in 0 .. rows - 1
    <3>2. PICK p \in Nat, q \in Nat : p = r * stride /\ q = (k - 1) * elem
      BY ONLY <1>1, <3>1, NatClosed
    <3>3. D[k] = to + q /\ off[r] = p
      BY ONLY <1>2, <3>1, <3>2, r \in 0 .. rows - 1
    <3>4. b \in RowBytes(D[k], off, elem, r) <=> b \in (to + q) + p .. (to + q) + p + elem - 1
      BY ONLY <3>3 DEF RowBytes
    <3>5. b \in (to + q) + p .. (to + q) + p + elem - 1 <=> \E x \in 0 .. elem - 1 : b = to + (p + (q + x))
      <4>1. ASSUME b \in (to + q) + p .. (to + q) + p + elem - 1 PROVE \E x \in 0 .. elem - 1 : b = to + (p + (q + x))
        <5>1. b - to - p - q \in 0 .. elem - 1 /\ b = to + (p + (q + (b - to - p - q)))
          BY ONLY <1>1, <4>1, to \in Int, p \in Nat, q \in Nat
        <5>. QED  BY ONLY <5>1
      <4>2. ASSUME NEW x \in 0 .. elem - 1, b = to + (p + (q + x)) PROVE b \in (to + q) + p .. (to + q) + p + elem - 1
        BY ONLY <1>1, <4>2, x \in 0 .. elem - 1, to \in Int, p \in Nat, q \in Nat
      <4>. QED  BY ONLY <4>1, <4>2
    <3>. QED  BY ONLY <3>2, <3>4, <3>5
  <2>3. ASSUME NEW k \in 1 .. kept, NEW r \in 0 .. rows - 1, b \in RowBytes(D[k], off, elem, r)
        PROVE  \E j \in 0 .. kept - 1, i \in 0 .. rows - 1, x \in 0 .. elem - 1 : b = to + (i * stride + (j * elem + x))
    <3>1. PICK x \in 0 .. elem - 1 : b = to + (r * stride + ((k - 1) * elem + x))
      BY ONLY <2>2, <2>3, k \in 1 .. kept, r \in 0 .. rows - 1
    <3>2. PICK j \in 0 .. kept - 1 : j = k - 1
      BY ONLY k \in 1 .. kept, kept \in Nat
    <3>. QED  BY ONLY <3>1, <3>2, r \in 0 .. rows - 1
  <2>4. ASSUME NEW j \in 0 .. kept - 1, NEW i \in 0 .. rows - 1, NEW x \in 0 .. elem - 1,
               b = to + (i * stride + (j * elem + x))
        PROVE  \E k \in 1 .. kept, r \in 0 .. rows - 1 : b \in RowBytes(D[k], off, elem, r)
    <3>1. PICK k \in 1 .. kept : j = k - 1
      <4>1. j + 1 \in 1 .. kept /\ (j + 1) - 1 = j
        BY ONLY j \in 0 .. kept - 1, kept \in Nat
      <4>. QED  BY ONLY <4>1
    <3>2. b \in RowBytes(D[k], off, elem, i)
      BY ONLY <2>2, <2>4, <3>1, k \in 1 .. kept, i \in 0 .. rows - 1, x \in 0 .. elem - 1
    <3>. QED  BY ONLY <3>2, i \in 0 .. rows - 1
  <2>. QED  BY ONLY <2>1, <2>3, <2>4
<1>8. ASSUME NEW j \in 0 .. kept - 1, NEW i \in 0 .. rows - 1, NEW x \in 0 .. elem - 1,
             NEW b, b = to + (i * stride + (j * elem + x))
      PROVE  /\ b + delta = from + (i * stride + ((j + bias) * elem + x))
             /\ b \in to .. to + rows * stride - 1 /\ b + delta \in from .. from + rows * stride - 1
  <2>1. PICK o \in Nat, p \in Nat : o = i * stride + (j * elem + x) /\ p = i * stride + ((j + bias) * elem + x)
    <3>1. \A l \in 0 .. all - 1 : l \in Nat
      BY ONLY all \in Nat
    <3>. QED  BY ONLY <1>4, <1>6, <3>1, j \in 0 .. kept - 1, i \in 0 .. rows - 1, x \in 0 .. elem - 1
  <2>4. p = o + z /\ o \in 0 .. all - 1 /\ p \in 0 .. all - 1
    BY ONLY <1>4, <1>6, <2>1, j \in 0 .. kept - 1, i \in 0 .. rows - 1, x \in 0 .. elem - 1
  <2>5. b = to + o
    BY ONLY <1>8, <2>1
  <2>2. b + delta = from + p
    BY ONLY <1>3, <2>4, <2>5, to \in Int, from \in Int, o \in Nat, z \in Nat
  <2>3. to + o \in to .. to + all - 1 /\ from + p \in from .. from + all - 1
    BY ONLY <2>4, to \in Int, from \in Int, o \in Nat, p \in Nat, all \in Nat
  <2>. QED  BY ONLY <1>6, <2>1, <2>2, <2>3, <2>5
<1>9. X \subseteq to .. to + rows * stride - 1 /\ \A b \in X : b + delta \in from .. from + rows * stride - 1
  <2>1. ASSUME NEW b \in X PROVE b \in to .. to + rows * stride - 1 /\ b + delta \in from .. from + rows * stride - 1
    <3>1. PICK j \in 0 .. kept - 1, i \in 0 .. rows - 1, x \in 0 .. elem - 1 : b = to + (i * stride + (j * elem + x))
      BY ONLY <1>7, b \in X
    <3>. QED  BY ONLY <1>8, <3>1, j \in 0 .. kept - 1, i \in 0 .. rows - 1, x \in 0 .. elem - 1
  <2>. QED  BY ONLY <2>1
<1>10. ASSUME NEW pair PROVE pair \in meant <=> \E b \in X : pair = <<b + delta, b>>
  <2>1. pair \in meant <=> \E j \in 0 .. kept - 1, i \in 0 .. rows - 1, x \in 0 .. elem - 1 :
          pair = <<from + (i * stride + ((j + bias) * elem + x)), to + (i * stride + (j * elem + x))>>
    BY ONLY InRows(meant, from, to, rows, stride, kept, bias, elem) DEF InRows
  <2>2. ASSUME NEW b \in X, pair = <<b + delta, b>> PROVE pair \in meant
    <3>1. PICK j \in 0 .. kept - 1, i \in 0 .. rows - 1, x \in 0 .. elem - 1 : b = to + (i * stride + (j * elem + x))
      BY ONLY <1>7, b \in X
    <3>2. b + delta = from + (i * stride + ((j + bias) * elem + x))
      BY ONLY <1>8, <3>1, j \in 0 .. kept - 1, i \in 0 .. rows - 1, x \in 0 .. elem - 1
    <3>3. pair = <<from + (i * stride + ((j + bias) * elem + x)), to + (i * stride + (j * elem + x))>>
      BY ONLY <2>2, <3>1, <3>2
    <3>. QED  BY ONLY <2>1, <3>3, j \in 0 .. kept - 1, i \in 0 .. rows - 1, x \in 0 .. elem - 1
  <2>3. ASSUME pair \in meant PROVE \E b \in X : pair = <<b + delta, b>>
    <3>1. PICK j \in 0 .. kept - 1, i \in 0 .. rows - 1, x \in 0 .. elem - 1 :
          pair = <<from + (i * stride + ((j + bias) * elem + x)), to + (i * stride + (j * elem + x))>>
      BY ONLY <2>1, <2>3
    <3>2. PICK b : b = to + (i * stride + (j * elem + x))
      OBVIOUS
    <3>3. b \in X
      BY ONLY <1>7, <3>2, j \in 0 .. kept - 1, i \in 0 .. rows - 1, x \in 0 .. elem - 1
    <3>4. b + delta = from + (i * stride + ((j + bias) * elem + x))
      BY ONLY <1>8, <3>2, j \in 0 .. kept - 1, i \in 0 .. rows - 1, x \in 0 .. elem - 1
    <3>5. pair = <<b + delta, b>>
      BY ONLY <3>1, <3>2, <3>4
    <3>. QED  BY ONLY <3>3, <3>5
  <2>. QED  BY ONLY <2>2, <2>3
<1>11. Moved(meant, X, delta)
  BY ONLY <1>10 DEF Moved
<1>. QED  BY ONLY <1>9, <1>11

\* What a launch does that moves a DS window.
DsLaunch(P, from, to, rows, stride, kept, bias, elem) ==
  P = [t \in Threads |->
         IF t[1] # 0 \/ t[2] # "rows" THEN << >>
         ELSE FlattenSeq([k \in 1 .. kept |->
                FlattenSeq([i \in 1 .. Len(OfLane(rows, t[3])) |->
                  ElementOps(from + OfLane(rows, t[3])[i] * stride + (k - 1 + bias) * elem,
                             to + OfLane(rows, t[3])[i] * stride + (k - 1) * elem, elem)])])]

\* The launch takes the bytes of X by delta, token by token.
DsSetting(off, D, X, delta, to, from, rows, stride, elem, kept, bias) ==
  /\ Ruled(off, D, to, rows, stride, elem) /\ KeptBytes(X, D, off, rows, elem, kept)
  /\ delta = from - to + bias * elem

DsMoves(P, X, D, delta, rows, off, elem, kept) ==
  \E Part : \A reads : (\A b \in X : reads[b] = b + delta) => DsMove(P, Part, reads, X, D, delta, rows, off, elem, kept)

LEMMA DsLaunchMoves ==
  ASSUME NEW rows, NEW stride, NEW width, NEW elem, Sheet(rows, stride, width, elem), NEW to \in Int, NEW from \in Int,
         NEW bias \in Nat, NEW kept \in Nat, NEW off, NEW D, NEW delta, NEW X,
         DsSetting(off, D, X, delta, to, from, rows, stride, elem, kept, bias),
         NEW P, DsLaunch(P, from, to, rows, stride, kept, bias, elem)
  PROVE  DsMoves(P, X, D, delta, rows, off, elem, kept)
<1>. SUFFICES ASSUME Ruled(off, D, to, rows, stride, elem), delta = from - to + bias * elem, KeptBytes(X, D, off, rows, elem, kept)
              PROVE  DsMoves(P, X, D, delta, rows, off, elem, kept)
  BY DEF DsSetting
<1>1. rows \in Nat /\ stride \in Nat \ {0} /\ elem \in Nat \ {0} /\ width \in Nat
  BY DEF Sheet
<1>2. off = [r \in 0 .. rows - 1 |-> r * stride] /\ D = [k \in Int |-> to + (k - 1) * elem]
  BY DEF Ruled
<1>3. PICK Part : Part = [k \in 1 .. kept |-> [t \in Threads |-> RowsOps(D[k] + delta, D[k], rows, off, elem, t)]]
  OBVIOUS
<1>4. \A k \in 1 .. kept : RowsProgram(Part[k], D[k] + delta, D[k], rows, off, elem)
  BY ONLY <1>3 DEF RowsProgram
<1>5. \A k \in 1 .. kept, t \in Threads : Part[k][t] = RowsOps(D[k] + delta, D[k], rows, off, elem, t)
  BY ONLY <1>3
<1>6. ASSUME NEW t \in Threads PROVE P[t] = FlattenSeq([k \in 1 .. kept |-> Part[k][t]])
  <2>1. PICK lane \in Nat : lane = t[3]
    BY ThreadParts
  <2>2. CASE t[1] # 0 \/ t[2] # "rows"
    <3>1. P[t] = << >>
      BY ONLY <2>2, t \in Threads, DsLaunch(P, from, to, rows, stride, kept, bias, elem) DEF DsLaunch
    <3>2. \A k \in 1 .. kept : Part[k][t] = << >>
      BY ONLY <1>5, <2>2, t \in Threads DEF RowsOps
    <3>3. [k \in 1 .. kept |-> Part[k][t]] = [k \in 1 .. kept |-> << >>]
      BY ONLY <3>2
    <3>4. FlattenSeq([k \in 1 .. kept |-> << >>]) = << >>
      BY ONLY kept \in Nat, FlatEmpty
    <3>. QED  BY ONLY <3>1, <3>3, <3>4
  <2>3. CASE ~(t[1] # 0 \/ t[2] # "rows")
    <3>0. PICK s : s = OfLane(rows, lane)
      OBVIOUS
    <3>1. PICK l \in Nat : DOMAIN s = 1 .. l /\ Len(s) = l /\ \A i \in 1 .. l : s[i] \in 0 .. rows - 1
      <4>0. rows \in Int
        BY ONLY <1>1
      <4>1. PICK l \in Nat : DOMAIN OfLane(rows, lane) = 1 .. l
        BY ONLY <4>0, lane \in Nat, OfLaneIs
      <4>2. \A i \in DOMAIN OfLane(rows, lane) : OfLane(rows, lane)[i] \in 0 .. rows - 1
        BY ONLY <4>0, lane \in Nat, OfLaneIs
      <4>4. OfLane(rows, lane) = [i \in DOMAIN OfLane(rows, lane) |-> OfLane(rows, lane)[i]]
        <5>1. CASE lane >= Lanes
          BY ONLY <5>1 DEF OfLane
        <5>2. CASE ~(lane >= Lanes)
          BY ONLY <5>2 DEF OfLane
        <5>. QED  BY ONLY <5>1, <5>2
      <4>5. s \in [1 .. l -> 0 .. rows - 1]
        BY ONLY <3>0, <4>1, <4>2, <4>4
      <4>7. Len(s) = l
        BY ONLY <4>5, l \in Nat
      <4>. QED  BY ONLY <4>5, <4>7
    <3>2. ASSUME NEW k \in 1 .. kept
          PROVE  FlattenSeq([i \in 1 .. Len(s) |->
                   ElementOps(from + s[i] * stride + (k - 1 + bias) * elem, to + s[i] * stride + (k - 1) * elem, elem)])
                 = Part[k][t]
      <4>1. k \in Int
        OBVIOUS
      <4>2. PICK d \in Int : d = (k - 1) * elem
        BY ONLY <1>1, <4>1
      <4>3. PICK z \in Nat : z = bias * elem
        BY ONLY <1>1, bias \in Nat, NatClosed
      <4>4. (k - 1 + bias) * elem = d + z
        BY ONLY <1>1, <4>1, <4>2, <4>3, bias \in Nat
      <4>5. D[k] = to + d /\ D[k] + delta = from + d + z
        <5>1. D[k] = to + d
          BY ONLY <1>2, <4>1, <4>2
        <5>2. (to + d) + (from - to + z) = from + d + z
          BY ONLY to \in Int, from \in Int, d \in Int, z \in Nat
        <5>. QED  BY ONLY <4>3, <5>1, <5>2, delta = from - to + bias * elem
      <4>6. Part[k][t] = FlattenSeq([i \in DOMAIN s |-> ElementOps((D[k] + delta) + off[s[i]], D[k] + off[s[i]], elem)])
        BY ONLY <1>5, <2>1, <2>3, <3>0, k \in 1 .. kept, t \in Threads DEF RowsOps
      <4>7. ASSUME NEW i \in 1 .. l
            PROVE  /\ from + s[i] * stride + (k - 1 + bias) * elem = (D[k] + delta) + off[s[i]]
                   /\ to + s[i] * stride + (k - 1) * elem = D[k] + off[s[i]]
        <5>1. PICK r \in 0 .. rows - 1 : r = s[i]
          BY ONLY <3>1, i \in 1 .. l
        <5>2. r \in Nat
          BY ONLY <1>1, r \in 0 .. rows - 1
        <5>3. PICK v \in Nat : v = r * stride
          BY ONLY <1>1, <5>2, NatClosed
        <5>4. off[r] = v
          BY ONLY <1>2, <5>3, r \in 0 .. rows - 1
        <5>5. from + v + (d + z) = (from + d + z) + v /\ to + v + d = (to + d) + v
          BY ONLY from \in Int, to \in Int, d \in Int, z \in Nat, v \in Nat
        <5>. QED  BY ONLY <4>2, <4>4, <4>5, <5>1, <5>3, <5>4, <5>5
      <4>8. [i \in 1 .. Len(s) |->
               ElementOps(from + s[i] * stride + (k - 1 + bias) * elem, to + s[i] * stride + (k - 1) * elem, elem)]
            = [i \in DOMAIN s |-> ElementOps((D[k] + delta) + off[s[i]], D[k] + off[s[i]], elem)]
        BY ONLY <3>1, <4>7
      <4>. QED  BY ONLY <4>6, <4>8
    <3>3. P[t] = FlattenSeq([k \in 1 .. kept |->
                   FlattenSeq([i \in 1 .. Len(s) |->
                     ElementOps(from + s[i] * stride + (k - 1 + bias) * elem, to + s[i] * stride + (k - 1) * elem, elem)])])
      BY ONLY <2>1, <2>3, <3>0, t \in Threads, DsLaunch(P, from, to, rows, stride, kept, bias, elem) DEF DsLaunch
    <3>4. [k \in 1 .. kept |->
                   FlattenSeq([i \in 1 .. Len(s) |->
                     ElementOps(from + s[i] * stride + (k - 1 + bias) * elem, to + s[i] * stride + (k - 1) * elem, elem)])]
          = [k \in 1 .. kept |-> Part[k][t]]
      BY ONLY <3>2
    <3>. QED  BY ONLY <3>3, <3>4
  <2>. QED  BY ONLY <2>2, <2>3
<1>7. Chained(P, Part, kept)
  <2>1. P = [t \in Threads |-> P[t]]
    BY ONLY DsLaunch(P, from, to, rows, stride, kept, bias, elem) DEF DsLaunch
  <2>2. [t \in Threads |-> P[t]] = [t \in Threads |-> FlattenSeq([k \in 1 .. kept |-> Part[k][t]])]
    BY ONLY <1>6
  <2>. QED  BY ONLY <2>1, <2>2 DEF Chained
<1>8. \A b : b \in X <=> \E k \in 1 .. kept, r \in 0 .. rows - 1 : b \in RowBytes(D[k], off, elem, r)
  BY ONLY KeptBytes(X, D, off, rows, elem, kept) DEF KeptBytes
<1>9. \A reads : (\A b \in X : reads[b] = b + delta) => DsMove(P, Part, reads, X, D, delta, rows, off, elem, kept)
  BY ONLY <1>4, <1>7, <1>8 DEF DsMove
<1>. QED  BY ONLY <1>9 DEF DsMoves

LEMMA DsRealizes ==
  ASSUME NEW rows, NEW stride, NEW width, NEW elem, Sheet(rows, stride, width, elem), NEW to \in Int, NEW from \in Int,
         NEW bias \in Nat, NEW kept \in Nat, kept + bias <= width,
         NEW meant, InRows(meant, from, to, rows, stride, kept, bias, elem),
         NEW memory, from .. from + rows * stride - 1 \subseteq memory, to .. to + rows * stride - 1 \subseteq memory,
         from = to \/ from + rows * stride <= to \/ to + rows * stride <= from,
         NEW P, DsLaunch(P, from, to, rows, stride, kept, bias, elem)
  PROVE  Realizes(P, meant, FALSE, memory)
<1>1. rows \in Nat /\ stride \in Nat \ {0} /\ elem \in Nat \ {0} /\ width \in Nat
  BY DEF Sheet
<1>2. PICK off, D : Ruled(off, D, to, rows, stride, elem)
  BY DEF Ruled
<1>. DEFINE X == UNION {RowBytes(D[k], off, elem, r) : k \in 1 .. kept, r \in 0 .. rows - 1}
<1>3. KeptBytes(X, D, off, rows, elem, kept)
  BY DEF KeptBytes
<1>. HIDE DEF X
<1>4. PICK delta : delta = from - to + bias * elem
  OBVIOUS
<1>5. /\ Moved(meant, X, delta)
      /\ X \subseteq to .. to + rows * stride - 1
      /\ \A b \in X : b + delta \in from .. from + rows * stride - 1
  BY ONLY <1>2, <1>3, <1>4, InRowsMoved, Sheet(rows, stride, width, elem), to \in Int, from \in Int, bias \in Nat, kept \in Nat,
          kept + bias <= width, InRows(meant, from, to, rows, stride, kept, bias, elem)
<1>6. PICK Part : \A reads : (\A b \in X : reads[b] = b + delta) => DsMove(P, Part, reads, X, D, delta, rows, off, elem, kept)
  <2>1. DsSetting(off, D, X, delta, to, from, rows, stride, elem, kept, bias)
    BY ONLY <1>2, <1>3, <1>4 DEF DsSetting
  <2>2. DsMoves(P, X, D, delta, rows, off, elem, kept)
    BY ONLY <2>1, DsLaunchMoves, Sheet(rows, stride, width, elem), to \in Int, from \in Int, bias \in Nat, kept \in Nat,
            DsLaunch(P, from, to, rows, stride, kept, bias, elem)
  <2>. QED  BY ONLY <2>2 DEF DsMoves
<1>7. PICK z \in Nat : z = bias * elem
  BY ONLY <1>1, bias \in Nat, NatClosed
<1>8. delta \in Int /\ delta = from - to + z /\ kept \in 0 .. width
  BY ONLY <1>1, <1>4, <1>7, to \in Int, from \in Int, kept \in Nat, bias \in Nat, kept + bias <= width
<1>9. Window(D, elem, width, stride) /\ Apart(off, rows, stride)
  BY ONLY <1>2, SheetGrid, Sheet(rows, stride, width, elem), to \in Int
<1>10. PICK all \in Nat : all = rows * stride
  BY ONLY <1>1, NatClosed
<1>11. ASSUME NEW reads, \A b \in X : reads[b] = b + delta
       PROVE  Carries(P, reads, X) /\ OrderKept(P, reads, X, FALSE)
  <2>1. DsMove(P, Part, reads, X, D, delta, rows, off, elem, kept)
    BY ONLY <1>6, <1>11
  <2>2. /\ Carries(P, reads, X)
        /\ \A amount \in Nat \ {0}, barrier \in BOOLEAN :
              kept + amount <= width /\ (\A k \in Int : D[k + amount] = D[k] + delta) => OrderKept(P, reads, X, barrier)
    <3>1. Carries(P, reads, X) /\ ShiftsKeepOrder(P, reads, X, D, delta, width, kept)
      BY ONLY <1>1, <1>8, <1>9, <2>1, DsCarries
    <3>. QED  BY ONLY <3>1 DEF ShiftsKeepOrder
  <2>3. CASE from = to /\ bias # 0
    <3>1. \A k \in Int : D[k + bias] = D[k] + delta
      <4>. SUFFICES ASSUME NEW k \in Int PROVE D[k + bias] = D[k] + delta
        OBVIOUS
      <4>1. k + bias \in Int
        BY ONLY k \in Int, bias \in Nat
      <4>2. D[k + bias] = to + ((k + bias) - 1) * elem /\ D[k] = to + (k - 1) * elem
        BY ONLY <1>2, <4>1, k \in Int DEF Ruled
      <4>3. ((k + bias) - 1) * elem = (k - 1) * elem + bias * elem
        BY ONLY <1>1, k \in Int, bias \in Nat
      <4>4. PICK p \in Int : p = (k - 1) * elem
        BY ONLY <1>1, k \in Int
      <4>5. to + (p + z) = (to + p) + delta
        BY ONLY <1>8, <2>3, to \in Int, from \in Int, p \in Int, z \in Nat
      <4>. QED  BY ONLY <1>7, <4>2, <4>3, <4>4, <4>5
    <3>2. bias \in Nat \ {0} /\ FALSE \in BOOLEAN
      BY ONLY <2>3, bias \in Nat
    <3>. QED  BY ONLY <2>2, <3>1, <3>2, kept + bias <= width
  <2>4. CASE ~(from = to /\ bias # 0)
    <3>1. \A b \in X : reads[b] \in X => reads[b] = b
      <4>. SUFFICES ASSUME NEW b \in X, reads[b] \in X PROVE reads[b] = b
        OBVIOUS
      <4>1. PICK y : y = b + delta /\ y = reads[b] /\ y \in from .. from + all - 1
        BY ONLY <1>5, <1>10, <1>11, b \in X
      <4>2. b \in to .. to + all - 1 /\ y \in to .. to + all - 1
        BY ONLY <1>5, <1>10, <4>1, b \in X, reads[b] \in X
      <4>3. from = to
        BY ONLY <1>10, <4>1, <4>2, from = to \/ from + rows * stride <= to \/ to + rows * stride <= from,
                from \in Int, to \in Int, all \in Nat
      <4>4. bias * elem = 0
        <5>1. bias = 0
          BY ONLY <2>4, <4>3
        <5>2. 0 * elem = 0
          BY ONLY <1>1
        <5>. QED  BY ONLY <5>1, <5>2
      <4>5. y = b
        BY ONLY <1>7, <1>8, <4>1, <4>2, <4>3, <4>4, from \in Int, to \in Int, all \in Nat
      <4>. QED  BY ONLY <4>1, <4>5
    <3>2. OrderKept(P, reads, X, FALSE)
      BY ONLY <2>2, <3>1, ApartKeepsOrder
    <3>. QED  BY ONLY <2>2, <3>2
  <2>. QED  BY ONLY <2>3, <2>4
<1>12. X \subseteq memory /\ \A b \in X : b + delta \in memory
  BY ONLY <1>5, from .. from + rows * stride - 1 \subseteq memory, to .. to + rows * stride - 1 \subseteq memory
<1>. QED  BY ONLY <1>5, <1>11, <1>12, Realized

\* A slot holds the state's numbers.
SlotHolds(k, t, group, dimFirst) ==
  /\ k.base = t.ptr /\ k.numBlocks = t.shape[1] /\ k.blockStride = t.stride[1] * t.elem
  /\ k.elem = t.elem /\ k.group = group
  /\ ~t.conv => k.width = 0 /\ k.inner = t.shape[2]
  /\ t.conv /\ ~dimFirst => k.width = t.shape[2] /\ k.inner = t.stride[2]
  /\ t.conv /\ dimFirst => k.width = t.shape[3] /\ k.rows = t.shape[2] /\ k.rowStride = t.stride[2] * t.elem

LEMMA ElementsOf ==
  ASSUME NEW m, NEW t \in TensorsOf(m), ~t.conv
  PROVE  NaturalElements(t) = t.shape[2]
<1>1. t.shape \in Seq(Nat \ {0})
  BY DEF TensorsOf, Tensor
<1>2. Len(t.shape) = 2 /\ t.shape[2] \in Nat
  BY TensorIs
<1>3. PICK z \in Nat : z = t.shape[2]
  BY <1>2
<1>4. Tail(t.shape) = <<z>>
  <2>1. PICK x : x = t.shape
    OBVIOUS
  <2>2. x \in Seq(Nat \ {0}) /\ Len(x) = 2 /\ x[2] = z
    BY ONLY <1>1, <1>2, <1>3, <2>1
  <2>3. x # << >>
    BY ONLY <2>2
  <2>4. /\ Tail(x) \in Seq(Nat \ {0}) /\ Len(Tail(x)) = Len(x) - 1
        /\ \A i \in 1 .. Len(Tail(x)) : Tail(x)[i] = x[i + 1]
    BY ONLY <2>2, <2>3, HeadTailProperties
  <2>5. PICK y : y = Tail(x)
    OBVIOUS
  <2>6. y \in Seq(Nat \ {0}) /\ Len(y) = 1 /\ y[1] = z
    <3>1. y \in Seq(Nat \ {0}) /\ Len(y) = Len(x) - 1 /\ \A i \in 1 .. Len(y) : y[i] = x[i + 1]
      BY ONLY <2>4, <2>5
    <3>2. Len(y) = 1
      BY ONLY <2>2, <3>1
    <3>3. 1 \in 1 .. Len(y) /\ 1 + 1 = 2
      BY ONLY <3>2
    <3>4. y[1] = x[2]
      BY ONLY <3>1, <3>3
    <3>. QED  BY ONLY <2>2, <3>1, <3>2, <3>4
  <2>7. y = <<z>>
    BY ONLY <2>6
  <2>. QED  BY ONLY <2>1, <2>5, <2>7
<1>5. FoldLeft(LAMBDA a, y : a * y, 1, <<z>>) = z
  BY ONLY z \in Nat, ProductOfOne
<1>. QED  BY ONLY <1>3, <1>4, <1>5 DEF NaturalElements

LEMMA SlotIs ==
  ASSUME NEW m \in DOMAIN Models, NEW s \in DOMAIN States[m], NEW t, t = States[m][s].tensor
  PROVE  SlotHolds(Metadata[m][s], t, States[m][s].group, Models[m].dimFirst)
<1>1. t \in TensorsOf(m)
  BY ONLY BlocksIn, m \in DOMAIN Models, s \in DOMAIN States[m], t = States[m][s].tensor
<1>2. Metadata[m][s] = Slot(States[m][s], Models[m].dimFirst)
  BY DEF Metadata
<1>3. ~t.conv => NaturalElements(t) = t.shape[2]
  BY ONLY <1>1, ElementsOf
<1>4. t.conv \in BOOLEAN /\ Models[m].dimFirst \in BOOLEAN
  BY <1>1, TensorIs, ModelsAssumption
<1>. QED  BY ONLY <1>2, <1>3, <1>4, t = States[m][s].tensor DEF Slot, SlotHolds

\* The tensor of a call's state and the blocks it names.
Chosen(c, m, s, t, row, src, dst) ==
  /\ m = c.model /\ s = c.state /\ t = States[m][s].tensor /\ row = c.tables[States[m][s].group]
  /\ src = row[IF t.conv THEN c.src ELSE c.src + c.bias] /\ dst = row[c.dst]

LEMMA ChosenIs ==
  ASSUME NEW c \in Calls, NEW m, NEW s, NEW t, NEW row, NEW src, NEW dst, Chosen(c, m, s, t, row, src, dst)
  PROVE  /\ m \in DOMAIN Models /\ s \in DOMAIN States[m] /\ t \in TensorsOf(m) /\ Models[m].dimFirst \in BOOLEAN
         /\ src \in Int /\ dst \in Int /\ c.bias \in Nat
         /\ t.conv => c.bias < Metadata[m][s].width
         /\ GroupOf(m, s) = States[m][s].group
         /\ c.path \in {"fused", "batch"}
         /\ c.path = "batch" => /\ ~Models[m].dimFirst
                                /\ src \in 0 .. t.shape[1] - 1 /\ dst \in 0 .. t.shape[1] - 1
<1>1. /\ m = c.model /\ s = c.state /\ t = States[m][s].tensor /\ row = c.tables[States[m][s].group]
      /\ src = row[IF t.conv THEN c.src ELSE c.src + c.bias] /\ dst = row[c.dst]
  BY DEF Chosen
<1>2. /\ c.path \in {"fused", "batch"}
      /\ m \in DOMAIN Models /\ s \in DOMAIN States[m]
      /\ row \in Seq(Int)
      /\ {c.src, IF t.conv THEN c.src ELSE c.src + c.bias, c.dst} \subseteq DOMAIN row
      /\ c.bias \in Nat
      /\ t.conv => c.bias < Metadata[m][s].width
      /\ c.path = "batch" => /\ ~Models[m].dimFirst
                             /\ {src, dst} \subseteq 0 .. t.shape[1] - 1
  BY ONLY <1>1, CallsAssumption, c \in Calls
<1>3. src \in Int /\ dst \in Int
  <2>1. \A i \in DOMAIN row : row[i] \in Int
    BY ONLY <1>2
  <2>. QED  BY ONLY <1>1, <1>2, <2>1
<1>4. t \in TensorsOf(m)
  BY ONLY <1>1, <1>2, BlocksIn
<1>5. GroupOf(m, s) = States[m][s].group
  BY ONLY <1>2, StatesAre
<1>6. Models[m].dimFirst \in BOOLEAN
  BY ONLY <1>2, ModelsAssumption
<1>. QED  BY ONLY <1>2, <1>3, <1>4, <1>5, <1>6

\* What a thread of a fused launch sees.
Sees(l, c, m, s, t, src, dst) ==
  /\ l.k = Metadata[m][s] /\ l.src = src /\ l.dst = dst /\ l.bias = c.bias
  /\ l.k.width > 0 <=> t.conv
  /\ l.k.width = 0 <=> ~t.conv
  /\ BlockAddr(l, l.src) = BlockStart(t, src) /\ BlockAddr(l, l.dst) = BlockStart(t, dst)
  /\ InPool(l, l.src) <=> src \in 0 .. t.shape[1] - 1
  /\ InPool(l, l.dst) <=> dst \in 0 .. t.shape[1] - 1

LEMMA LaunchIs ==
  ASSUME NEW c \in Calls, NEW m, NEW s, NEW t, NEW row, NEW src, NEW dst, Chosen(c, m, s, t, row, src, dst)
  PROVE  Sees(Launch(c), c, m, s, t, src, dst)
<1>1. /\ m \in DOMAIN Models /\ s \in DOMAIN States[m] /\ t \in TensorsOf(m) /\ Models[m].dimFirst \in BOOLEAN
      /\ src \in Int /\ dst \in Int
  BY ONLY ChosenIs, c \in Calls, Chosen(c, m, s, t, row, src, dst)
<1>2. /\ m = c.model /\ s = c.state /\ t = States[m][s].tensor /\ row = c.tables[States[m][s].group]
      /\ src = row[IF t.conv THEN c.src ELSE c.src + c.bias] /\ dst = row[c.dst]
  BY ONLY Chosen(c, m, s, t, row, src, dst) DEF Chosen
<1>3. SlotHolds(Metadata[m][s], t, States[m][s].group, Models[m].dimFirst)
  BY ONLY <1>1, <1>2, SlotIs
<1>4. PICK k : k = Metadata[m][s]
  OBVIOUS
<1>5. /\ k.base = t.ptr /\ k.numBlocks = t.shape[1] /\ k.blockStride = t.stride[1] * t.elem
      /\ k.group = States[m][s].group
      /\ ~t.conv => k.width = 0
      /\ t.conv => k.width = t.shape[2] \/ k.width = t.shape[3]
  BY ONLY <1>1, <1>3, <1>4 DEF SlotHolds
<1>6. t.conv \in BOOLEAN /\ t.shape[1] \in Nat /\ t.shape[2] \in Nat \ {0} /\ (t.conv => t.shape[3] \in Nat \ {0})
  BY ONLY <1>1, TensorIs
<1>7. (k.width > 0 <=> t.conv) /\ (k.width = 0 <=> ~t.conv)
  BY ONLY <1>5, <1>6
<1>8. Launch(c) = [k |-> k, dst |-> dst, bias |-> c.bias, src |-> src]
  BY ONLY <1>2, <1>4, <1>5, <1>7 DEF Launch
<1>9. PICK l : l = Launch(c)
  OBVIOUS
<1>10. l.k = k /\ l.src = src /\ l.dst = dst /\ l.bias = c.bias
  BY ONLY <1>8, <1>9
<1>11. BlockAddr(l, l.src) = BlockStart(t, src) /\ BlockAddr(l, l.dst) = BlockStart(t, dst)
  BY ONLY <1>5, <1>10 DEF BlockAddr, BlockStart
<1>12. /\ InPool(l, l.src) <=> src \in 0 .. t.shape[1] - 1
       /\ InPool(l, l.dst) <=> dst \in 0 .. t.shape[1] - 1
  <2>1. /\ InPool(l, l.src) <=> 0 <= src /\ src < t.shape[1]
        /\ InPool(l, l.dst) <=> 0 <= dst /\ dst < t.shape[1]
    BY ONLY <1>5, <1>10 DEF InPool
  <2>. QED  BY ONLY <1>1, <1>6, <2>1
<1>. QED  BY ONLY <1>4, <1>7, <1>9, <1>10, <1>11, <1>12 DEF Sees

\* Part of a block is in memory; parts of two blocks are apart.
LEMMA PartOfBlock ==
  ASSUME NEW m \in DOMAIN Models, NEW s \in DOMAIN States[m], NEW t, t = States[m][s].tensor,
         NEW b \in 0 .. t.shape[1] - 1, NEW o \in Nat, NEW size \in Nat, o + size <= BlockSize(t)
  PROVE  /\ BlockStart(t, b) \in Int
         /\ BlockStart(t, b) + o .. BlockStart(t, b) + o + size - 1 \subseteq MemoryOf[m]
<1>1. t \in TensorsOf(m) /\ BlockStart(t, b) \in Int /\ BlockBytes(t, b) \subseteq MemoryOf[m]
  BY ONLY BlocksIn, m \in DOMAIN Models, s \in DOMAIN States[m], t = States[m][s].tensor, b \in 0 .. t.shape[1] - 1
<1>2. PICK start \in Int : start = BlockStart(t, b)
  BY ONLY <1>1
<1>3. BlockSize(t) \in Nat
  BY ONLY <1>1, TensorIs, NatClosed DEF BlockSize
<1>4. PICK full \in Nat : full = BlockSize(t)
  BY ONLY <1>3
<1>5. start + o .. start + o + size - 1 \subseteq start .. start + full - 1
  BY ONLY <1>4, start \in Int, o \in Nat, size \in Nat, full \in Nat, o + size <= BlockSize(t)
<1>. QED  BY ONLY <1>1, <1>2, <1>4, <1>5 DEF BlockBytes

LEMMA PartsApart ==
  ASSUME NEW m, NEW t \in TensorsOf(m), NEW b \in Nat, NEW d \in Nat, NEW size \in Nat, size <= BlockSize(t)
  PROVE  \/ b = d
         \/ b # d /\ BlockStart(t, b) + size <= BlockStart(t, d)
         \/ b # d /\ BlockStart(t, d) + size <= BlockStart(t, b)
<1>1. \A x, y \in Nat : x < y => BlockStart(t, x) + BlockSize(t) <= BlockStart(t, y)
  BY ONLY BlocksApart, t \in TensorsOf(m)
<1>2. BlockSize(t) \in Nat
  BY ONLY TensorIs, t \in TensorsOf(m), NatClosed DEF BlockSize
<1>3. \A x \in Nat : BlockStart(t, x) \in Int
  <2>1. \A x \in Nat : x * (t.stride[1] * t.elem) \in Nat
    BY ONLY <1>2, NatClosed DEF BlockSize
  <2>2. PICK p \in Nat : p = t.ptr
    BY ONLY TensorIs, t \in TensorsOf(m)
  <2>3. ASSUME NEW x \in Nat PROVE BlockStart(t, x) \in Int
    <3>1. PICK z \in Nat : z = x * (t.stride[1] * t.elem)
      BY ONLY <2>1, x \in Nat
    <3>2. p + z \in Int
      BY ONLY p \in Nat, z \in Nat
    <3>. QED  BY ONLY <2>2, <3>1, <3>2 DEF BlockStart
  <2>. QED  BY ONLY <2>3
<1>4. PICK x \in Int, y \in Int, full \in Nat : x = BlockStart(t, b) /\ y = BlockStart(t, d) /\ full = BlockSize(t)
  BY ONLY <1>2, <1>3, b \in Nat, d \in Nat
<1>5. CASE b < d
  <2>1. x + full <= y
    BY ONLY <1>1, <1>4, <1>5, b \in Nat, d \in Nat
  <2>2. x + size <= y
    BY ONLY <1>4, <2>1, x \in Int, y \in Int, full \in Nat, size \in Nat, size <= BlockSize(t)
  <2>. QED  BY ONLY <1>4, <1>5, <2>2, b \in Nat, d \in Nat
<1>6. CASE d < b
  <2>1. y + full <= x
    BY ONLY <1>1, <1>4, <1>6, b \in Nat, d \in Nat
  <2>2. y + size <= x
    BY ONLY <1>4, <2>1, x \in Int, y \in Int, full \in Nat, size \in Nat, size <= BlockSize(t)
  <2>. QED  BY ONLY <1>4, <1>6, <2>2, b \in Nat, d \in Nat
<1>. QED  BY ONLY <1>5, <1>6, b \in Nat, d \in Nat

\* The programs of all threads, the pairs of addresses a call means, and that the
\* one does the other.
ProgramsOf(c) == [u \in Threads |-> ThreadProgram(c, u)]
Aim(c) == Meant(c.model, c.state, c.tables[GroupOf(c.model, c.state)], c.src, c.dst, c.bias)
Brings(c) == Realizes(ProgramsOf(c), Aim(c), LeftOverlap(c), MemoryOf[c.model])

\* A valid call: its tensor and its blocks.
Fit(c, m, s, t, row, src, dst) ==
  /\ Chosen(c, m, s, t, row, src, dst) /\ m \in DOMAIN Models /\ s \in DOMAIN States[m] /\ t \in TensorsOf(m)
  /\ c.bias \in Nat
  /\ src \in 0 .. t.shape[1] - 1 /\ dst \in 0 .. t.shape[1] - 1 /\ src \in Nat /\ dst \in Nat
  /\ Aim(c) = Meant(m, s, row, c.src, c.dst, c.bias)

\* Nothing keeps the copy from being made: that is so exactly if its blocks are some of
\* the tensor's.
GoesAhead(c) == c.path = "batch" \/ LET l == Launch(c) IN InPool(l, l.src) /\ InPool(l, l.dst)

LEMMA GoesAheadIsValid ==
  ASSUME NEW c \in Calls
  PROVE  Valid(c) <=> GoesAhead(c)
<1>1. PICK m, s, t, row, src, dst : Chosen(c, m, s, t, row, src, dst)
  <2>1. PICK m, s, t, row, src, dst :
          /\ m = c.model /\ s = c.state /\ t = States[m][s].tensor /\ row = c.tables[States[m][s].group]
          /\ src = row[IF t.conv THEN c.src ELSE c.src + c.bias] /\ dst = row[c.dst]
    OBVIOUS
  <2>. QED  BY ONLY <2>1 DEF Chosen
<1>2. /\ m = c.model /\ s = c.state /\ t = States[m][s].tensor /\ row = c.tables[States[m][s].group]
      /\ src = row[IF t.conv THEN c.src ELSE c.src + c.bias] /\ dst = row[c.dst]
  BY ONLY <1>1 DEF Chosen
<1>3. /\ GroupOf(m, s) = States[m][s].group /\ c.path \in {"fused", "batch"}
      /\ c.path = "batch" => src \in 0 .. t.shape[1] - 1 /\ dst \in 0 .. t.shape[1] - 1
  BY ONLY ChosenIs, c \in Calls, <1>1
<1>4. Valid(c) <=> src \in 0 .. t.shape[1] - 1 /\ dst \in 0 .. t.shape[1] - 1
  BY ONLY <1>2, <1>3 DEF Valid
<1>5. Sees(Launch(c), c, m, s, t, src, dst)
  BY ONLY LaunchIs, c \in Calls, <1>1
<1>6. GoesAhead(c) <=> c.path = "batch" \/ (src \in 0 .. t.shape[1] - 1 /\ dst \in 0 .. t.shape[1] - 1)
  BY ONLY <1>5 DEF GoesAhead, Sees
<1>. QED  BY ONLY <1>3, <1>4, <1>6

LEMMA FitIs ==
  ASSUME NEW c \in Calls, NEW m, NEW s, NEW t, NEW row, NEW src, NEW dst, Chosen(c, m, s, t, row, src, dst), GoesAhead(c)
  PROVE  Fit(c, m, s, t, row, src, dst)
<1>1. /\ m \in DOMAIN Models /\ s \in DOMAIN States[m] /\ t \in TensorsOf(m) /\ c.bias \in Nat
      /\ src \in Int /\ dst \in Int
      /\ GroupOf(m, s) = States[m][s].group
      /\ c.path = "batch" => src \in 0 .. t.shape[1] - 1 /\ dst \in 0 .. t.shape[1] - 1
  BY ONLY ChosenIs, c \in Calls, Chosen(c, m, s, t, row, src, dst)
<1>2. m = c.model /\ s = c.state /\ row = c.tables[States[m][s].group]
  BY ONLY Chosen(c, m, s, t, row, src, dst) DEF Chosen
<1>3. Sees(Launch(c), c, m, s, t, src, dst)
  BY ONLY LaunchIs, c \in Calls, Chosen(c, m, s, t, row, src, dst)
<1>4. src \in 0 .. t.shape[1] - 1 /\ dst \in 0 .. t.shape[1] - 1
  <2>1. c.path = "batch" \/ (InPool(Launch(c), Launch(c).src) /\ InPool(Launch(c), Launch(c).dst))
    BY ONLY GoesAhead(c) DEF GoesAhead
  <2>. QED  BY ONLY <1>1, <1>3, <2>1 DEF Sees
<1>5. src \in Nat /\ dst \in Nat
  BY ONLY <1>1, <1>4
<1>6. Aim(c) = Meant(m, s, row, c.src, c.dst, c.bias)
  BY ONLY <1>1, <1>2 DEF Aim
<1>. QED  BY ONLY <1>1, <1>4, <1>5, <1>6, Chosen(c, m, s, t, row, src, dst) DEF Fit

\* How many bytes a move takes, from how far into its block.
Amount(t, offset, size) == offset \in Nat /\ size \in Nat /\ offset + size <= BlockSize(t)

LEMMA Placed ==
  ASSUME NEW c, NEW m, NEW s, NEW t, NEW row, NEW src, NEW dst, Fit(c, m, s, t, row, src, dst),
         NEW offset, NEW size, Amount(t, offset, size),
         NEW x, x = BlockStart(t, src), NEW y, y = BlockStart(t, dst)
  PROVE  /\ x \in Int /\ y \in Int
         /\ x + offset .. x + offset + size - 1 \subseteq MemoryOf[m] /\ y .. y + size - 1 \subseteq MemoryOf[m]
         /\ \/ src = dst /\ x = y
            \/ src # dst /\ x + offset + size <= y
            \/ src # dst /\ y + size <= x + offset
<1>1. /\ m \in DOMAIN Models /\ s \in DOMAIN States[m] /\ t = States[m][s].tensor /\ t \in TensorsOf(m)
      /\ src \in 0 .. t.shape[1] - 1 /\ dst \in 0 .. t.shape[1] - 1 /\ src \in Nat /\ dst \in Nat
  BY ONLY Fit(c, m, s, t, row, src, dst) DEF Fit, Chosen
<1>2. offset \in Nat /\ size \in Nat /\ offset + size <= BlockSize(t)
  BY ONLY Amount(t, offset, size) DEF Amount
<1>3. BlockSize(t) \in Nat
  BY ONLY <1>1, TensorIs, NatClosed DEF BlockSize
<1>4. 0 + size <= BlockSize(t) /\ 0 \in Nat /\ offset + size \in Nat
  BY ONLY <1>2, <1>3
<1>5. x \in Int /\ x + offset .. x + offset + size - 1 \subseteq MemoryOf[m]
  BY ONLY <1>1, <1>2, PartOfBlock, x = BlockStart(t, src)
<1>6. y \in Int /\ y + 0 .. y + 0 + size - 1 \subseteq MemoryOf[m]
  BY ONLY <1>1, <1>2, <1>4, PartOfBlock, y = BlockStart(t, dst)
<1>7. y + 0 = y
  BY ONLY <1>6
<1>8. \/ src = dst
      \/ src # dst /\ x + (offset + size) <= y
      \/ src # dst /\ y + (offset + size) <= x
  BY ONLY <1>1, <1>2, <1>4, PartsApart, x = BlockStart(t, src), y = BlockStart(t, dst)
<1>9. \/ src = dst /\ x = y
      \/ src # dst /\ x + offset + size <= y
      \/ src # dst /\ y + size <= x + offset
  BY ONLY <1>2, <1>5, <1>6, <1>8, x = BlockStart(t, src), y = BlockStart(t, dst)
<1>. QED  BY ONLY <1>5, <1>6, <1>7, <1>9

\* What is left of a window after some tokens fits its block, as the whole
\* of a temporal block does.
LEMMA WindowAmount ==
  ASSUME NEW m, NEW t \in TensorsOf(m), NEW bias \in Nat, bias <= t.shape[2], NEW token, token = t.stride[2] * t.elem
  PROVE  Amount(t, bias * token, (t.shape[2] - bias) * token) /\ token \in Nat
<1>1. /\ t.elem \in Nat \ {0} /\ t.shape[2] \in Nat /\ t.stride[1] \in Nat /\ t.stride[2] \in Nat
      /\ t.stride[1] >= t.shape[2] * t.stride[2]
  BY ONLY t \in TensorsOf(m), TensorIs
<1>2. token \in Nat
  BY ONLY <1>1, NatClosed, token = t.stride[2] * t.elem
<1>3. PICK kept \in Nat : kept = t.shape[2] - bias
  BY ONLY <1>1, bias \in Nat, bias <= t.shape[2]
<1>4. PICK x \in Nat, y \in Nat : x = bias * token /\ y = kept * token
  BY ONLY <1>2, <1>3, NatClosed, bias \in Nat
<1>5. x + y = t.shape[2] * token
  <2>1. bias * token + kept * token = (bias + kept) * token
    BY ONLY <1>2, bias \in Nat, kept \in Nat
  <2>2. bias + kept = t.shape[2]
    BY ONLY <1>1, <1>3, bias \in Nat
  <2>. QED  BY ONLY <1>4, <2>1, <2>2
<1>6. t.shape[2] * token <= t.stride[1] * t.elem
  <2>1. PICK a \in Nat, b \in Nat, d \in Nat, e \in Nat : a = t.shape[2] /\ b = t.stride[2] /\ d = t.stride[1] /\ e = t.elem
    BY ONLY <1>1
  <2>2. a * (b * e) = (a * b) * e
    BY ONLY a \in Nat, b \in Nat, e \in Nat
  <2>3. PICK z \in Nat : z = a * b
    BY ONLY NatClosed, a \in Nat, b \in Nat
  <2>4. z <= d
    BY ONLY <1>1, <2>1, <2>3
  <2>5. z * e <= d * e
    BY ONLY <2>4, z \in Nat, d \in Nat, e \in Nat
  <2>. QED  BY ONLY <2>1, <2>2, <2>3, <2>5, token = t.stride[2] * t.elem
<1>. QED  BY ONLY <1>2, <1>3, <1>4, <1>5, <1>6 DEF Amount, BlockSize

LEMMA TilesAre == 1 \in 1 .. Tiles /\ Tiles \in 1 .. Tiles /\ Tiles \in Nat \ {0}
BY SizesAssumption

\* What a copy of a temporal block takes: all of its elements.
Whole(c, m, s, t, row, src, dst, x, y, size) ==
  /\ Fit(c, m, s, t, row, src, dst) /\ ~t.conv
  /\ size \in Nat /\ size = t.shape[2] * t.elem
  /\ x \in Int /\ x = BlockStart(t, src) /\ y \in Int /\ y = BlockStart(t, dst)
  /\ x .. x + size - 1 \subseteq MemoryOf[m] /\ y .. y + size - 1 \subseteq MemoryOf[m]
  /\ x = y \/ x + size <= y \/ y + size <= x
  /\ Straight(Aim(c), x, y, size)

LEMMA WholeIs ==
  ASSUME NEW c \in Calls, GoesAhead(c), NEW m, NEW s, NEW t, NEW row, NEW src, NEW dst,
         Chosen(c, m, s, t, row, src, dst), ~t.conv
  PROVE  \E x, y, size : Whole(c, m, s, t, row, src, dst, x, y, size)
<1>1. Fit(c, m, s, t, row, src, dst)
  BY ONLY FitIs, c \in Calls, GoesAhead(c), Chosen(c, m, s, t, row, src, dst)
<1>2. /\ m \in DOMAIN Models /\ s \in DOMAIN States[m] /\ t \in TensorsOf(m) /\ src \in Nat /\ dst \in Nat
      /\ Aim(c) = Meant(m, s, row, c.src, c.dst, c.bias)
      /\ t = States[m][s].tensor /\ src = row[c.src + c.bias] /\ dst = row[c.dst]
  BY ONLY <1>1, ~t.conv DEF Fit, Chosen
<1>4. PICK token \in Nat : token = t.stride[2] * t.elem
  BY ONLY <1>2, TensorIs, NatClosed
<1>5. 0 \in Nat /\ 0 <= t.shape[2] /\ t.shape[2] \in Nat /\ t.stride[2] = 1 /\ t.elem \in Nat
  BY ONLY <1>2, TensorIs, ~t.conv
<1>6. PICK size \in Nat : size = t.shape[2] * t.elem
  BY ONLY <1>5, NatClosed
<1>7. Amount(t, 0, size)
  <2>1. Amount(t, 0 * token, (t.shape[2] - 0) * token)
    BY ONLY <1>2, <1>4, <1>5, WindowAmount
  <2>2. 0 * token = 0 /\ t.shape[2] - 0 = t.shape[2] /\ token = t.elem
    BY ONLY <1>4, <1>5
  <2>. QED  BY ONLY <1>6, <2>1, <2>2
<1>8. PICK x, y : x = BlockStart(t, src) /\ y = BlockStart(t, dst)
  OBVIOUS
<1>9. /\ x \in Int /\ y \in Int
      /\ x + 0 .. x + 0 + size - 1 \subseteq MemoryOf[m] /\ y .. y + size - 1 \subseteq MemoryOf[m]
      /\ \/ src = dst /\ x = y
         \/ src # dst /\ x + 0 + size <= y
         \/ src # dst /\ y + size <= x + 0
  BY ONLY <1>1, <1>7, <1>8, Placed
<1>10. /\ x .. x + size - 1 \subseteq MemoryOf[m]
       /\ x = y \/ x + size <= y \/ y + size <= x
  BY ONLY <1>9, size \in Nat
<1>11. Straight(Aim(c), x, y, size)
  BY ONLY <1>2, <1>6, <1>8, MeantTemporal, ~t.conv
<1>12. Whole(c, m, s, t, row, src, dst, x, y, size)
  BY ONLY <1>1, <1>6, <1>8, <1>9, <1>10, <1>11, ~t.conv DEF Whole
<1>. QED  BY ONLY <1>12

\* A temporal block, shared among the tiles.
LEMMA TemporalBrings ==
  ASSUME NEW c \in Calls, GoesAhead(c), c.path = "fused", NEW m, NEW s, NEW t, NEW row, NEW src, NEW dst,
         Chosen(c, m, s, t, row, src, dst), ~t.conv
  PROVE  Brings(c)
<1>1. PICK x, y, size : Whole(c, m, s, t, row, src, dst, x, y, size)
  BY ONLY WholeIs, c \in Calls, GoesAhead(c), Chosen(c, m, s, t, row, src, dst), ~t.conv
<1>2. /\ m \in DOMAIN Models /\ s \in DOMAIN States[m]
      /\ src \in 0 .. t.shape[1] - 1 /\ dst \in 0 .. t.shape[1] - 1
      /\ m = c.model /\ t = States[m][s].tensor
      /\ size = t.shape[2] * t.elem /\ x = BlockStart(t, src) /\ y = BlockStart(t, dst)
  BY ONLY <1>1 DEF Whole, Fit, Chosen
<1>3. Sees(Launch(c), c, m, s, t, src, dst) /\ SlotHolds(Metadata[m][s], t, States[m][s].group, Models[m].dimFirst)
  BY ONLY <1>2, LaunchIs, SlotIs, c \in Calls, Chosen(c, m, s, t, row, src, dst)
<1>4. Copying(ProgramsOf(c), x, y, size, Tiles)
  <2>1. PICK l : l = Launch(c)
    OBVIOUS
  <2>2. InPool(l, l.src) /\ InPool(l, l.dst) /\ l.k.width = 0 /\ l.k.inner * l.k.elem = size
        /\ BlockAddr(l, l.src) = x /\ BlockAddr(l, l.dst) = y
    BY ONLY <1>2, <1>3, <2>1, ~t.conv DEF Sees, SlotHolds
  <2>3. \A u : ThreadProgram(c, u) = TemporalProgram(l, u)
    BY ONLY <2>1, <2>2, c.path = "fused" DEF ThreadProgram
  <2>4. \A u : TemporalProgram(l, u) = Memcpy(x, y, size, Tiles, u)
    BY ONLY <2>2 DEF TemporalProgram
  <2>5. [u \in Threads |-> ThreadProgram(c, u)] = [u \in Threads |-> Memcpy(x, y, size, Tiles, u)]
    BY ONLY <2>3, <2>4
  <2>. QED  BY ONLY <2>5 DEF Copying, ProgramsOf
<1>5. Realizes(ProgramsOf(c), Aim(c), LeftOverlap(c), MemoryOf[m])
  <2>1. /\ x \in Int /\ y \in Int /\ size \in Nat /\ Straight(Aim(c), x, y, size)
        /\ x .. x + size - 1 \subseteq MemoryOf[m] /\ y .. y + size - 1 \subseteq MemoryOf[m]
        /\ x = y \/ x + size <= y \/ y + size <= x
    BY ONLY <1>1 DEF Whole
  <2>. QED  BY ONLY <1>4, <2>1, PlainRealizes, TilesAre
<1>. QED  BY ONLY <1>2, <1>5 DEF Brings

\* What SD copies take: the window from its bias on.
Shifted(c, m, s, t, row, src, dst, token, x, y, offset, size) ==
  /\ Fit(c, m, s, t, row, src, dst) /\ t.conv /\ ~Models[m].dimFirst /\ c.bias < t.shape[2]
  /\ token \in Nat \ {0} /\ token = t.stride[2] * t.elem
  /\ offset \in Nat /\ offset = c.bias * token /\ size \in Nat /\ size = (t.shape[2] - c.bias) * token
  /\ x \in Int /\ x = BlockStart(t, src) /\ y \in Int /\ y = BlockStart(t, dst)
  /\ x + offset .. x + offset + size - 1 \subseteq MemoryOf[m] /\ y .. y + size - 1 \subseteq MemoryOf[m]
  /\ \/ src = dst /\ x = y
     \/ src # dst /\ x + offset + size <= y
     \/ src # dst /\ y + size <= x + offset
  /\ Straight(Aim(c), x + offset, y, size)

LEMMA ShiftedIs ==
  ASSUME NEW c \in Calls, GoesAhead(c), NEW m, NEW s, NEW t, NEW row, NEW src, NEW dst,
         Chosen(c, m, s, t, row, src, dst), t.conv, ~Models[m].dimFirst
  PROVE  \E token, x, y, offset, size : Shifted(c, m, s, t, row, src, dst, token, x, y, offset, size)
<1>1. Fit(c, m, s, t, row, src, dst)
  BY ONLY FitIs, c \in Calls, GoesAhead(c), Chosen(c, m, s, t, row, src, dst)
<1>2. /\ m \in DOMAIN Models /\ s \in DOMAIN States[m] /\ t \in TensorsOf(m) /\ src \in Nat /\ dst \in Nat
      /\ Aim(c) = Meant(m, s, row, c.src, c.dst, c.bias)
      /\ t = States[m][s].tensor /\ src = row[c.src] /\ dst = row[c.dst] /\ c.bias \in Nat
  BY ONLY <1>1, t.conv DEF Fit, Chosen
<1>3. c.bias < t.shape[2]
  <2>1. c.bias < Metadata[m][s].width
    BY ONLY ChosenIs, c \in Calls, Chosen(c, m, s, t, row, src, dst), t.conv
  <2>2. SlotHolds(Metadata[m][s], t, States[m][s].group, Models[m].dimFirst)
    BY ONLY <1>2, SlotIs
  <2>. QED  BY ONLY <2>1, <2>2, t.conv, ~Models[m].dimFirst DEF SlotHolds
<1>4. t.elem \in Nat \ {0} /\ t.shape[2] \in Nat /\ t.shape[3] \in Nat \ {0} /\ t.stride[2] = t.shape[3]
  BY ONLY <1>2, TensorIs, t.conv, ~Models[m].dimFirst
<1>5. PICK token \in Nat \ {0} : token = t.stride[2] * t.elem
  <2>1. PICK a \in Nat \ {0}, b \in Nat \ {0} : a = t.stride[2] /\ b = t.elem
    BY ONLY <1>4
  <2>2. a * b \in Nat \ {0}
    BY ONLY a \in Nat \ {0}, b \in Nat \ {0}
  <2>. QED  BY ONLY <2>1, <2>2
<1>6. c.bias <= t.shape[2]
  BY ONLY <1>2, <1>3, <1>4
<1>7. Amount(t, c.bias * token, (t.shape[2] - c.bias) * token)
  BY ONLY <1>2, <1>5, <1>6, WindowAmount
<1>8. PICK offset, size : offset = c.bias * token /\ size = (t.shape[2] - c.bias) * token
  OBVIOUS
<1>9. Amount(t, offset, size) /\ offset \in Nat /\ size \in Nat
  BY ONLY <1>7, <1>8 DEF Amount
<1>10. PICK x, y : x = BlockStart(t, src) /\ y = BlockStart(t, dst)
  OBVIOUS
<1>11. /\ x \in Int /\ y \in Int
       /\ x + offset .. x + offset + size - 1 \subseteq MemoryOf[m] /\ y .. y + size - 1 \subseteq MemoryOf[m]
       /\ \/ src = dst /\ x = y
          \/ src # dst /\ x + offset + size <= y
          \/ src # dst /\ y + size <= x + offset
  BY ONLY <1>1, <1>9, <1>10, Placed
<1>12. Straight(Aim(c), x + offset, y, size)
  <2>1. row[c.src] \in Nat /\ row[c.dst] \in Nat
    BY ONLY <1>2
  <2>2. Straight(Meant(m, s, row, c.src, c.dst, c.bias),
                  BlockStart(t, row[c.src]) + c.bias * token, BlockStart(t, row[c.dst]), (t.shape[2] - c.bias) * token)
    BY ONLY <1>2, <1>3, <1>5, <2>1, MeantSd, t.conv, ~Models[m].dimFirst
  <2>. QED  BY ONLY <1>2, <1>8, <1>10, <2>2
<1>13. Shifted(c, m, s, t, row, src, dst, token, x, y, offset, size)
  BY ONLY <1>1, <1>3, <1>5, <1>8, <1>9, <1>10, <1>11, <1>12, t.conv, ~Models[m].dimFirst DEF Shifted
<1>. QED  BY ONLY <1>13

\* An SD program, by its numbers.
SdLaunch(P, shifts, x, y, token, kept, bias, offset, size) ==
  P = [t \in Threads |->
         IF t[1] # 0 THEN << >>
         ELSE IF shifts
         THEN FlattenSeq([k \in 1 .. kept |-> Memcpy(x + (k - 1 + bias) * token, y + (k - 1) * token, token, 1, t)])
         ELSE Memcpy(x + offset, y, size, 1, t)]

LEMMA SdCopies ==
  ASSUME NEW x \in Int, NEW y \in Int, NEW token, NEW kept, NEW bias, NEW offset \in Nat, NEW size \in Nat,
         NEW P, SdLaunch(P, FALSE, x, y, token, kept, bias, offset, size)
  PROVE  Copying(P, x + offset, y, size, 1)
<1>1. PICK from \in Int : from = x + offset
  BY ONLY x \in Int, offset \in Nat
<1>2. ASSUME NEW t \in Threads
      PROVE  (IF t[1] # 0 THEN << >> ELSE Memcpy(from, y, size, 1, t)) = Memcpy(from, y, size, 1, t)
  <2>1. t[1] # 0 => Memcpy(from, y, size, 1, t) = << >>
    BY ONLY IdleTiles, from \in Int, y \in Int, size \in Nat, t \in Threads
  <2>. QED  BY ONLY <2>1
<1>3. P = [t \in Threads |-> IF t[1] # 0 THEN << >> ELSE Memcpy(from, y, size, 1, t)]
  BY ONLY <1>1, SdLaunch(P, FALSE, x, y, token, kept, bias, offset, size) DEF SdLaunch
<1>4. [t \in Threads |-> IF t[1] # 0 THEN << >> ELSE Memcpy(from, y, size, 1, t)]
      = [t \in Threads |-> Memcpy(from, y, size, 1, t)]
  BY ONLY <1>2
<1>. QED  BY ONLY <1>1, <1>3, <1>4 DEF Copying

LEMMA SdShifts ==
  ASSUME NEW x \in Int, NEW token \in Nat, NEW kept \in Nat, NEW bias \in Nat, NEW offset, NEW size,
         NEW P, SdLaunch(P, TRUE, x, x, token, kept, bias, offset, size)
  PROVE  ShiftProgram(P, x, token, kept, bias)
<1>. DEFINE Of(t) == FlattenSeq([k \in 1 .. kept |-> Memcpy(x + (k - 1 + bias) * token, x + (k - 1) * token, token, 1, t)])
<1>1. ASSUME NEW t \in Threads PROVE (IF t[1] # 0 THEN << >> ELSE Of(t)) = Of(t)
  <2>1. CASE t[1] # 0
    <3>1. ASSUME NEW k \in 1 .. kept
          PROVE  Memcpy(x + (k - 1 + bias) * token, x + (k - 1) * token, token, 1, t) = << >>
      <4>1. PICK a \in Nat, b \in Nat : a = k - 1 /\ b = k - 1 + bias
        BY ONLY k \in 1 .. kept, kept \in Nat, bias \in Nat
      <4>2. PICK i \in Nat, j \in Nat : i = a * token /\ j = b * token
        BY ONLY NatClosed, a \in Nat, b \in Nat, token \in Nat
      <4>3. x + i \in Int /\ x + j \in Int
        BY ONLY x \in Int, i \in Nat, j \in Nat
      <4>4. Memcpy(x + j, x + i, token, 1, t) = << >>
        BY ONLY <2>1, <4>3, IdleTiles, token \in Nat, t \in Threads
      <4>. QED  BY ONLY <4>1, <4>2, <4>4
    <3>2. [k \in 1 .. kept |-> Memcpy(x + (k - 1 + bias) * token, x + (k - 1) * token, token, 1, t)]
          = [k \in 1 .. kept |-> << >>]
      BY ONLY <3>1
    <3>3. FlattenSeq([k \in 1 .. kept |-> << >>]) = << >>
      BY ONLY kept \in Nat, FlatEmpty
    <3>. QED  BY ONLY <2>1, <3>2, <3>3
  <2>2. CASE ~(t[1] # 0)
    BY ONLY <2>2
  <2>. QED  BY ONLY <2>1, <2>2
<1>2. P = [t \in Threads |-> IF t[1] # 0 THEN << >> ELSE Of(t)]
  BY ONLY SdLaunch(P, TRUE, x, x, token, kept, bias, offset, size) DEF SdLaunch
<1>3. [t \in Threads |-> IF t[1] # 0 THEN << >> ELSE Of(t)] = [t \in Threads |-> Of(t)]
  <2>. HIDE DEF Of
  <2>. QED  BY ONLY <1>1
<1>. QED  BY ONLY <1>2, <1>3 DEF ShiftProgram

\* An SD window: one copy, or token by token inside its own block.
LEMMA SdBrings ==
  ASSUME NEW c \in Calls, GoesAhead(c), c.path = "fused", NEW m, NEW s, NEW t, NEW row, NEW src, NEW dst,
         Chosen(c, m, s, t, row, src, dst), t.conv, ~Models[m].dimFirst
  PROVE  Brings(c)
<1>1. PICK token, x, y, offset, size : Shifted(c, m, s, t, row, src, dst, token, x, y, offset, size)
  BY ONLY ShiftedIs, c \in Calls, GoesAhead(c), Chosen(c, m, s, t, row, src, dst), t.conv, ~Models[m].dimFirst
<1>2. /\ Fit(c, m, s, t, row, src, dst) /\ c.bias < t.shape[2]
      /\ token \in Nat \ {0} /\ token = t.stride[2] * t.elem
      /\ offset \in Nat /\ offset = c.bias * token /\ size \in Nat /\ size = (t.shape[2] - c.bias) * token
      /\ x \in Int /\ x = BlockStart(t, src) /\ y \in Int /\ y = BlockStart(t, dst)
      /\ x + offset .. x + offset + size - 1 \subseteq MemoryOf[m] /\ y .. y + size - 1 \subseteq MemoryOf[m]
      /\ \/ src = dst /\ x = y
         \/ src # dst /\ x + offset + size <= y
         \/ src # dst /\ y + size <= x + offset
      /\ Straight(Aim(c), x + offset, y, size)
  BY ONLY <1>1 DEF Shifted
<1>3. /\ m \in DOMAIN Models /\ s \in DOMAIN States[m] /\ t \in TensorsOf(m) /\ c.bias \in Nat
      /\ src \in 0 .. t.shape[1] - 1 /\ dst \in 0 .. t.shape[1] - 1
      /\ m = c.model /\ s = c.state /\ t = States[m][s].tensor
  BY ONLY <1>2 DEF Fit, Chosen
<1>4. Sees(Launch(c), c, m, s, t, src, dst) /\ SlotHolds(Metadata[m][s], t, States[m][s].group, Models[m].dimFirst)
  BY ONLY <1>3, LaunchIs, SlotIs, c \in Calls, Chosen(c, m, s, t, row, src, dst)
<1>5. PICK kept \in Nat : kept = t.shape[2] - c.bias
  <2>1. t.shape[2] \in Nat
    BY ONLY <1>3, TensorIs
  <2>2. PICK w \in Nat, b \in Nat : w = t.shape[2] /\ b = c.bias
    BY ONLY <1>3, <2>1
  <2>3. w - b \in Nat
    BY ONLY <1>2, <2>2, w \in Nat, b \in Nat
  <2>. QED  BY ONLY <2>2, <2>3
<1>6. PICK shifts \in BOOLEAN : shifts <=> src = dst /\ c.bias # 0
  <2>1. (src = dst /\ c.bias # 0) \in BOOLEAN
    OBVIOUS
  <2>. QED  BY ONLY <2>1
<1>7. PICK P : P = ProgramsOf(c)
  OBVIOUS
<1>8. SdLaunch(P, shifts, x, y, token, kept, c.bias, offset, size)
  <2>1. PICK l : l = Launch(c)
    OBVIOUS
  <2>2. /\ InPool(l, l.src) /\ InPool(l, l.dst) /\ l.k.width > 0 /\ l.k.width # 0
        /\ l.k.inner * l.k.elem = token /\ l.k.width = t.shape[2] /\ l.bias = c.bias /\ l.src = src /\ l.dst = dst
        /\ BlockAddr(l, l.src) = x /\ BlockAddr(l, l.dst) = y
    <3>1. /\ l.k = Metadata[m][s] /\ l.src = src /\ l.dst = dst /\ l.bias = c.bias /\ l.k.width > 0 /\ l.k.width # 0
          /\ BlockAddr(l, l.src) = x /\ BlockAddr(l, l.dst) = y
      BY ONLY <1>2, <1>4, <2>1, t.conv DEF Sees
    <3>2. InPool(l, l.src) /\ InPool(l, l.dst)
      BY ONLY <1>3, <1>4, <2>1 DEF Sees
    <3>3. Metadata[m][s].width = t.shape[2] /\ Metadata[m][s].inner = t.stride[2] /\ Metadata[m][s].elem = t.elem
      BY ONLY <1>4, t.conv, ~Models[m].dimFirst DEF SlotHolds
    <3>4. token = t.stride[2] * t.elem
      BY ONLY <1>2
    <3>. QED  BY ONLY <3>1, <3>2, <3>3, <3>4
  <2>3. Kept(l) = kept /\ (InPlace(l) <=> shifts)
    BY ONLY <1>5, <1>6, <2>2 DEF Kept, InPlace
  <2>4. \A u : ThreadProgram(c, u) = SdProgram(l, u)
    BY ONLY <1>3, <2>1, <2>2, c.path = "fused", ~Models[m].dimFirst DEF ThreadProgram
  <2>5. ASSUME NEW u
        PROVE  SdProgram(l, u)
               = IF u[1] # 0 THEN << >>
                 ELSE IF shifts
                 THEN FlattenSeq([k \in 1 .. kept |-> Memcpy(x + (k - 1 + c.bias) * token, y + (k - 1) * token, token, 1, u)])
                 ELSE Memcpy(x + offset, y, size, 1, u)
    <3>1. size = kept * token /\ offset = c.bias * token
      BY ONLY <1>2, <1>5
    <3>. QED  BY ONLY <2>2, <2>3, <3>1 DEF SdProgram
  <2>6. P = [u \in Threads |-> ThreadProgram(c, u)]
    BY ONLY <1>7 DEF ProgramsOf
  <2>. QED  BY ONLY <2>4, <2>5, <2>6 DEF SdLaunch
<1>9. Realizes(P, Aim(c), LeftOverlap(c), MemoryOf[m])
  <2>1. PICK from \in Int : from = x + offset
    BY ONLY <1>2
  <2>2. CASE shifts
    <3>1. SdLaunch(P, TRUE, x, x, token, kept, c.bias, offset, size)
      <4>1. shifts = TRUE /\ x = y
        BY ONLY <1>2, <1>6, <2>2
      <4>. QED  BY ONLY <1>8, <4>1
    <3>2. ShiftProgram(P, x, token, kept, c.bias)
      <4>1. x \in Int /\ token \in Nat /\ c.bias \in Nat
        BY ONLY <1>2, <1>3
      <4>. QED  BY ONLY <3>1, <4>1, SdShifts, kept \in Nat
    <3>3. c.bias \in Nat \ {0} /\ y = x /\ size = kept * token
      BY ONLY <1>2, <1>3, <1>5, <1>6, <2>2
    <3>4. Straight(Aim(c), x + offset, x, size)
      BY ONLY <1>2, <3>3
    <3>5. x + offset .. x + offset + size - 1 \subseteq MemoryOf[m] /\ x .. x + size - 1 \subseteq MemoryOf[m]
      BY ONLY <1>2, <3>3
    <3>. QED  BY ONLY <1>2, <3>2, <3>3, <3>4, <3>5, ShiftRealizes, kept \in Nat
  <2>3. CASE ~shifts
    <3>1. SdLaunch(P, FALSE, x, y, token, kept, c.bias, offset, size)
      <4>1. shifts = FALSE
        BY ONLY <2>3, shifts \in BOOLEAN
      <4>. QED  BY ONLY <1>8, <4>1
    <3>2. Copying(P, from, y, size, 1)
      BY ONLY <1>2, <2>1, <3>1, SdCopies
    <3>3. from = y \/ from + size <= y \/ y + size <= from
      <4>1. CASE src = dst
        <5>1. c.bias = 0
          BY ONLY <1>6, <2>3, <4>1
        <5>2. offset = 0
          BY ONLY <1>2, <5>1
        <5>. QED  BY ONLY <1>2, <2>1, <4>1, <5>2
      <4>2. CASE src # dst
        BY ONLY <1>2, <2>1, <4>2
      <4>. QED  BY ONLY <4>1, <4>2
    <3>4. from .. from + size - 1 \subseteq MemoryOf[m] /\ y .. y + size - 1 \subseteq MemoryOf[m] /\ Straight(Aim(c), from, y, size)
      BY ONLY <1>2, <2>1
    <3>5. y \in Int /\ size \in Nat
      BY ONLY <1>2
    <3>. QED  BY ONLY <3>2, <3>3, <3>4, <3>5, PlainRealizes, TilesAre, from \in Int
  <2>. QED  BY ONLY <2>2, <2>3
<1>. QED  BY ONLY <1>3, <1>7, <1>9 DEF Brings

LEMMA Associate == ASSUME NEW a \in Nat, NEW b \in Nat, NEW d \in Nat PROVE (a * b) * d = a * (b * d) /\ (a * b) * d = b * (a * d)
OBVIOUS

\* What batch_memcpy is given.
LEMMA EntryIs ==
  ASSUME NEW c, NEW m, NEW s, NEW t, NEW row, NEW src, NEW dst, Fit(c, m, s, t, row, src, dst), ~Models[m].dimFirst,
         NEW token, token = t.stride[2] * t.elem
  PROVE  /\ Entry(c).to = BlockStart(t, dst)
         /\ t.conv => /\ Entry(c).from = BlockStart(t, src) + c.bias * token
                      /\ Entry(c).size = (t.shape[2] - c.bias) * token
         /\ ~t.conv => /\ Entry(c).from = BlockStart(t, src)
                       /\ Entry(c).size = t.shape[2] * t.elem
<1>1. /\ m = c.model /\ s = c.state /\ t = States[m][s].tensor /\ row = c.tables[States[m][s].group]
      /\ src = row[IF t.conv THEN c.src ELSE c.src + c.bias] /\ dst = row[c.dst]
      /\ t \in TensorsOf(m) /\ c.bias \in Nat /\ src \in Nat /\ dst \in Nat
  BY ONLY Fit(c, m, s, t, row, src, dst) DEF Fit, Chosen
<1>2. /\ t.ptr \in Nat /\ t.elem \in Nat \ {0} /\ t.conv \in BOOLEAN
      /\ t.shape[1] \in Nat \ {0} /\ t.shape[2] \in Nat \ {0} /\ (t.conv => t.shape[3] \in Nat \ {0})
      /\ t.stride[1] \in Nat /\ t.stride[2] \in Nat
      /\ Len(t.shape) = (IF t.conv THEN 3 ELSE 2) /\ Len(t.stride) = (IF t.conv THEN 3 ELSE 2)
      /\ (~t.conv => t.stride[2] = 1) /\ (t.conv => t.stride[3] = 1)
      /\ t.conv => t.stride[2] = t.shape[3]
  BY ONLY <1>1, TensorIs, ~Models[m].dimFirst
<1>3. t \in Tensor
  BY ONLY <1>1 DEF TensorsOf
<1>4. PICK spec : spec = CopySpec(t, row, c.src, c.bias)
  OBVIOUS
<1>5. /\ Entry(c).from = spec.from /\ Entry(c).size = spec.elements * t.elem
      /\ Entry(c).to = t.ptr + dst * t.stride[1] * t.elem
  BY ONLY <1>1, <1>4 DEF Entry, CopyEntry
<1>6. PICK p \in Nat, e \in Nat, a \in Nat, b \in Nat, w \in Nat, g \in Nat, q \in Nat, z \in Nat :
        /\ p = t.ptr /\ e = t.elem /\ a = t.stride[1] /\ b = t.stride[2] /\ w = t.shape[2]
        /\ g = c.bias /\ q = src /\ z = dst
  <2>1. /\ t.ptr \in Nat /\ t.elem \in Nat /\ t.stride[1] \in Nat /\ t.stride[2] \in Nat
        /\ t.shape[2] \in Nat /\ c.bias \in Nat /\ src \in Nat /\ dst \in Nat
    BY ONLY <1>1, <1>2
  <2>2. PICK p \in Nat, e \in Nat, a \in Nat, b \in Nat : p = t.ptr /\ e = t.elem /\ a = t.stride[1] /\ b = t.stride[2]
    BY ONLY <2>1
  <2>3. PICK w \in Nat, g \in Nat, q \in Nat, z \in Nat : w = t.shape[2] /\ g = c.bias /\ q = src /\ z = dst
    BY ONLY <2>1
  <2>. QED  BY ONLY <2>2, <2>3
<1>7. Entry(c).to = BlockStart(t, dst)
  <2>1. (z * a) * e = z * (a * e)
    BY ONLY Associate, z \in Nat, a \in Nat, e \in Nat
  <2>. QED  BY ONLY <1>5, <1>6, <2>1 DEF BlockStart
<1>8. ASSUME t.conv
      PROVE  /\ Entry(c).from = BlockStart(t, src) + c.bias * token
             /\ Entry(c).size = (t.shape[2] - c.bias) * token
  <2>1. spec = [from |-> ByteAddr(t, <<src, c.bias, 0>>, 0), elements |-> (t.shape[2] - c.bias) * t.shape[3]]
    BY ONLY <1>1, <1>4, <1>8 DEF CopySpec
  <2>2. Len(t.stride) = 3 /\ 0 \in Nat
    BY ONLY <1>2, <1>8
  <2>3. ByteAddr(t, <<q, g, 0>>, 0) = t.ptr + 0 + t.elem * (t.stride[1] * q + t.stride[2] * g + t.stride[3] * 0)
    BY ONLY <1>3, <2>2, AddressOfThree, q \in Nat, g \in Nat
  <2>4. p + 0 + e * (a * q + b * g + 1 * 0) = (p + q * (a * e)) + g * (b * e)
    <3>1. e * (a * q + b * g + 1 * 0) = q * (a * e) + g * (b * e)
      <4>1. PICK i \in Nat, j \in Nat : i = a * q /\ j = b * g
        BY ONLY NatClosed, a \in Nat, b \in Nat, q \in Nat, g \in Nat
      <4>2. e * (i + j + 1 * 0) = i * e + j * e
        BY ONLY e \in Nat, i \in Nat, j \in Nat
      <4>3. (a * q) * e = q * (a * e) /\ (b * g) * e = g * (b * e)
        BY ONLY Associate, a \in Nat, b \in Nat, e \in Nat, q \in Nat, g \in Nat
      <4>. QED  BY ONLY <4>1, <4>2, <4>3
    <3>2. PICK i \in Nat, j \in Nat : i = q * (a * e) /\ j = g * (b * e)
      BY ONLY NatClosed, a \in Nat, b \in Nat, e \in Nat, q \in Nat, g \in Nat
    <3>3. p + 0 + (i + j) = (p + i) + j
      BY ONLY p \in Nat, i \in Nat, j \in Nat
    <3>. QED  BY ONLY <3>1, <3>2, <3>3
  <2>5. Entry(c).from = BlockStart(t, src) + c.bias * token
    <3>1. t.stride[3] = 1
      BY ONLY <1>2, <1>8
    <3>2. spec.from = ByteAddr(t, <<src, c.bias, 0>>, 0)
      BY ONLY <2>1
    <3>. QED  BY ONLY <1>5, <1>6, <2>3, <2>4, <3>1, <3>2, token = t.stride[2] * t.elem DEF BlockStart
  <2>6. Entry(c).size = (t.shape[2] - c.bias) * token
    <3>1. spec.elements = (w - c.bias) * b
      BY ONLY <1>2, <1>6, <1>8, <2>1
    <3>2. PICK k \in Int : k = w - g
      BY ONLY g \in Nat, w \in Nat
    <3>3. (k * b) * e = k * (b * e)
      BY ONLY k \in Int, b \in Nat, e \in Nat
    <3>. QED  BY ONLY <1>5, <1>6, <3>1, <3>2, <3>3, token = t.stride[2] * t.elem
  <2>. QED  BY ONLY <2>5, <2>6
<1>9. ASSUME ~t.conv
      PROVE  /\ Entry(c).from = BlockStart(t, src)
             /\ Entry(c).size = t.shape[2] * t.elem
  <2>1. spec = [from |-> ByteAddr(t, <<src, 0>>, 0), elements |-> NaturalElements(t)]
    BY ONLY <1>1, <1>4, <1>9 DEF CopySpec
  <2>2. Len(t.stride) = 2 /\ 0 \in Nat
    BY ONLY <1>2, <1>9
  <2>3. ByteAddr(t, <<q, 0>>, 0) = t.ptr + 0 + t.elem * (t.stride[1] * q + t.stride[2] * 0)
    BY ONLY <1>3, <2>2, AddressOfTwo, q \in Nat
  <2>4. p + 0 + e * (a * q + 1 * 0) = p + q * (a * e)
    <3>1. PICK i \in Nat : i = a * q
      BY ONLY NatClosed, a \in Nat, q \in Nat
    <3>2. e * (i + 1 * 0) = i * e
      BY ONLY e \in Nat, i \in Nat
    <3>3. (a * q) * e = q * (a * e)
      BY ONLY Associate, a \in Nat, e \in Nat, q \in Nat
    <3>4. PICK j \in Nat : j = q * (a * e)
      BY ONLY NatClosed, a \in Nat, e \in Nat, q \in Nat
    <3>5. p + 0 + j = p + j
      BY ONLY p \in Nat, j \in Nat
    <3>. QED  BY ONLY <3>1, <3>2, <3>3, <3>4, <3>5
  <2>5. NaturalElements(t) = t.shape[2]
    BY ONLY <1>1, <1>9, ElementsOf
  <2>6. spec.from = ByteAddr(t, <<src, 0>>, 0) /\ spec.elements = t.shape[2] /\ t.stride[2] = 1
    BY ONLY <1>2, <1>9, <2>1, <2>5
  <2>7. Entry(c).from = BlockStart(t, src)
    BY ONLY <1>5, <1>6, <2>3, <2>4, <2>6 DEF BlockStart
  <2>. QED  BY ONLY <1>5, <2>6, <2>7
<1>. QED  BY ONLY <1>7, <1>8, <1>9

\* What the first runner copies.
LEMMA BatchBrings ==
  ASSUME NEW c \in Calls, c.path = "batch", NEW m, NEW s, NEW t, NEW row, NEW src, NEW dst,
         Chosen(c, m, s, t, row, src, dst)
  PROVE  Brings(c)
<1>1. GoesAhead(c)
  BY ONLY c.path = "batch" DEF GoesAhead
<1>2. Fit(c, m, s, t, row, src, dst)
  BY ONLY <1>1, FitIs, c \in Calls, Chosen(c, m, s, t, row, src, dst)
<1>3. ~Models[m].dimFirst /\ m = c.model /\ t.conv \in BOOLEAN
  <2>1. ~Models[m].dimFirst /\ t \in TensorsOf(m)
    BY ONLY ChosenIs, c \in Calls, Chosen(c, m, s, t, row, src, dst), c.path = "batch"
  <2>. QED  BY ONLY <2>1, TensorIs, Chosen(c, m, s, t, row, src, dst) DEF Chosen
<1>4. PICK e : e = Entry(c)
  OBVIOUS
<1>5. \E from \in Int, to \in Int, size \in Nat :
        /\ e.from = from /\ e.to = to /\ e.size = size
        /\ from .. from + size - 1 \subseteq MemoryOf[m] /\ to .. to + size - 1 \subseteq MemoryOf[m]
        /\ Straight(Aim(c), from, to, size)
        /\ to <= from \/ from + size <= to
  <2>1. CASE t.conv
    <3>1. PICK token, x, y, offset, size : Shifted(c, m, s, t, row, src, dst, token, x, y, offset, size)
      BY ONLY <1>1, <1>3, <2>1, ShiftedIs, c \in Calls, Chosen(c, m, s, t, row, src, dst)
    <3>2. /\ token = t.stride[2] * t.elem
          /\ offset \in Nat /\ offset = c.bias * token /\ size \in Nat /\ size = (t.shape[2] - c.bias) * token
          /\ x \in Int /\ x = BlockStart(t, src) /\ y \in Int /\ y = BlockStart(t, dst)
          /\ x + offset .. x + offset + size - 1 \subseteq MemoryOf[m] /\ y .. y + size - 1 \subseteq MemoryOf[m]
          /\ \/ src = dst /\ x = y
             \/ src # dst /\ x + offset + size <= y
             \/ src # dst /\ y + size <= x + offset
          /\ Straight(Aim(c), x + offset, y, size)
      BY ONLY <3>1 DEF Shifted
    <3>3. e.from = x + offset /\ e.to = y /\ e.size = size
      BY ONLY <1>2, <1>3, <1>4, <2>1, <3>2, EntryIs
    <3>4. x + offset \in Int /\ (y <= x + offset \/ x + offset + size <= y)
      BY ONLY <3>2
    <3>. QED  BY ONLY <3>2, <3>3, <3>4
  <2>2. CASE ~t.conv
    <3>1. PICK x, y, size : Whole(c, m, s, t, row, src, dst, x, y, size)
      BY ONLY <1>1, <2>2, WholeIs, c \in Calls, Chosen(c, m, s, t, row, src, dst)
    <3>2. /\ x \in Int /\ y \in Int /\ size \in Nat /\ Straight(Aim(c), x, y, size) /\ size = t.shape[2] * t.elem
          /\ x = BlockStart(t, src) /\ y = BlockStart(t, dst)
          /\ x .. x + size - 1 \subseteq MemoryOf[m] /\ y .. y + size - 1 \subseteq MemoryOf[m]
          /\ x = y \/ x + size <= y \/ y + size <= x
      BY ONLY <3>1 DEF Whole
    <3>3. e.from = x /\ e.to = y /\ e.size = size
      BY ONLY <1>2, <1>3, <1>4, <2>2, <3>2, EntryIs
    <3>4. y <= x \/ x + size <= y
      BY ONLY <3>2
    <3>. QED  BY ONLY <3>2, <3>3, <3>4
  <2>. QED  BY ONLY <1>3, <2>1, <2>2
<1>6. PICK from \in Int, to \in Int, size \in Nat :
        /\ e.from = from /\ e.to = to /\ e.size = size
        /\ from .. from + size - 1 \subseteq MemoryOf[m] /\ to .. to + size - 1 \subseteq MemoryOf[m]
        /\ Straight(Aim(c), from, to, size)
        /\ to <= from \/ from + size <= to
  BY ONLY <1>5
<1>7. BatchOf(ProgramsOf(c), e, from, to, size)
  <2>1. \A u : ThreadProgram(c, u) = BatchProgram(e, u)
    BY ONLY <1>4, c.path = "batch" DEF ThreadProgram
  <2>2. [u \in Threads |-> ThreadProgram(c, u)] = [u \in Threads |-> BatchProgram(e, u)]
    BY ONLY <2>1
  <2>. QED  BY ONLY <1>6, <2>2 DEF BatchOf, BatchMove, ProgramsOf
<1>8. PICK barrier \in BOOLEAN : barrier = LeftOverlap(c)
  <2>1. LeftOverlap(c) \in BOOLEAN
    BY DEF LeftOverlap
  <2>. QED  BY ONLY <2>1
<1>9. to < from /\ to + size > from => barrier
  BY ONLY <1>4, <1>6, <1>8, c.path = "batch" DEF LeftOverlap
<1>10. Realizes(ProgramsOf(c), Aim(c), barrier, MemoryOf[m])
  BY ONLY <1>6, <1>7, <1>9, BatchRealizes, from \in Int, to \in Int, size \in Nat, barrier \in BOOLEAN
<1>. QED  BY ONLY <1>3, <1>8, <1>10 DEF Brings

\* A DS window: the rows of a sheet.
LEMMA DsBrings ==
  ASSUME NEW c \in Calls, GoesAhead(c), c.path = "fused", NEW m, NEW s, NEW t, NEW row, NEW src, NEW dst,
         Chosen(c, m, s, t, row, src, dst), t.conv, Models[m].dimFirst
  PROVE  Brings(c)
<1>1. Fit(c, m, s, t, row, src, dst)
  BY ONLY FitIs, c \in Calls, GoesAhead(c), Chosen(c, m, s, t, row, src, dst)
<1>2. /\ m \in DOMAIN Models /\ s \in DOMAIN States[m] /\ t \in TensorsOf(m) /\ src \in Nat /\ dst \in Nat
      /\ src \in 0 .. t.shape[1] - 1 /\ dst \in 0 .. t.shape[1] - 1
      /\ Aim(c) = Meant(m, s, row, c.src, c.dst, c.bias) /\ m = c.model
      /\ t = States[m][s].tensor /\ src = row[c.src] /\ dst = row[c.dst] /\ c.bias \in Nat
  BY ONLY <1>1, t.conv DEF Fit, Chosen
<1>3. Sees(Launch(c), c, m, s, t, src, dst) /\ SlotHolds(Metadata[m][s], t, States[m][s].group, Models[m].dimFirst)
  BY ONLY <1>2, LaunchIs, SlotIs, c \in Calls, Chosen(c, m, s, t, row, src, dst)
<1>4. c.bias < t.shape[3]
  <2>1. c.bias < Metadata[m][s].width
    BY ONLY ChosenIs, c \in Calls, Chosen(c, m, s, t, row, src, dst), t.conv
  <2>. QED  BY ONLY <1>3, <2>1, t.conv, Models[m].dimFirst DEF SlotHolds
<1>5. t.elem \in Nat \ {0} /\ t.shape[2] \in Nat /\ t.shape[3] \in Nat \ {0} /\ t.stride[2] \in Nat /\ t.stride[2] >= t.shape[3]
  BY ONLY <1>2, TensorIs, t.conv, Models[m].dimFirst
<1>6. PICK rows \in Nat, width \in Nat \ {0}, elem \in Nat \ {0}, pitch \in Nat \ {0}, bias \in Nat :
        /\ rows = t.shape[2] /\ width = t.shape[3] /\ elem = t.elem /\ pitch = t.stride[2] /\ bias = c.bias
        /\ bias < width /\ width <= pitch
  <2>1. PICK w \in Nat \ {0}, p \in Nat : w = t.shape[3] /\ p = t.stride[2] /\ w <= p
    BY ONLY <1>5
  <2>2. p \in Nat \ {0}
    BY ONLY <2>1, w \in Nat \ {0}, p \in Nat
  <2>. QED  BY ONLY <1>2, <1>4, <1>5, <2>1, <2>2
<1>7. PICK stride \in Nat \ {0} : stride = pitch * elem
  <2>1. pitch * elem \in Nat \ {0}
    BY ONLY pitch \in Nat \ {0}, elem \in Nat \ {0}
  <2>. QED  BY ONLY <2>1
<1>8. PICK kept \in Nat : kept = width - bias
  <2>1. width - bias \in Nat
    BY ONLY <1>6, width \in Nat \ {0}, bias \in Nat
  <2>. QED  BY ONLY <2>1
<1>9. Sheet(rows, stride, width, elem) /\ kept + bias <= width
  <2>1. width * elem <= pitch * elem
    BY ONLY <1>6, width \in Nat \ {0}, pitch \in Nat \ {0}, elem \in Nat \ {0}
  <2>2. kept + bias <= width
    BY ONLY <1>8, width \in Nat \ {0}, bias \in Nat
  <2>3. width \in Nat
    OBVIOUS
  <2>. QED  BY ONLY <1>7, <2>1, <2>2, <2>3, rows \in Nat, stride \in Nat \ {0}, elem \in Nat \ {0} DEF Sheet
<1>10. PICK size \in Nat : size = rows * stride
  BY ONLY NatClosed, rows \in Nat, stride \in Nat \ {0}
<1>11. Amount(t, 0, size)
  <2>1. stride = t.stride[2] * t.elem /\ 0 \in Nat /\ 0 <= t.shape[2]
    BY ONLY <1>5, <1>6, <1>7
  <2>2. Amount(t, 0 * stride, (t.shape[2] - 0) * stride)
    BY ONLY <1>2, <2>1, WindowAmount
  <2>3. 0 * stride = 0 /\ rows - 0 = rows
    BY ONLY stride \in Nat \ {0}, rows \in Nat
  <2>. QED  BY ONLY <1>6, <1>10, <2>2, <2>3
<1>12. PICK x, y : x = BlockStart(t, src) /\ y = BlockStart(t, dst)
  OBVIOUS
<1>13. /\ x \in Int /\ y \in Int
       /\ x + 0 .. x + 0 + size - 1 \subseteq MemoryOf[m] /\ y .. y + size - 1 \subseteq MemoryOf[m]
       /\ \/ src = dst /\ x = y
          \/ src # dst /\ x + 0 + size <= y
          \/ src # dst /\ y + size <= x + 0
  BY ONLY <1>1, <1>11, <1>12, Placed
<1>14. /\ x .. x + rows * stride - 1 \subseteq MemoryOf[m] /\ y .. y + rows * stride - 1 \subseteq MemoryOf[m]
       /\ x = y \/ x + rows * stride <= y \/ y + rows * stride <= x
  <2>1. /\ x .. x + size - 1 \subseteq MemoryOf[m] /\ y .. y + size - 1 \subseteq MemoryOf[m]
        /\ x = y \/ x + size <= y \/ y + size <= x
    BY ONLY <1>13, size \in Nat
  <2>. QED  BY ONLY <1>10, <2>1
<1>15. InRows(Aim(c), x, y, rows, stride, kept, bias, elem)
  <2>1. row[c.src] \in Nat /\ row[c.dst] \in Nat /\ stride = t.stride[2] * t.elem
    BY ONLY <1>2, <1>6, <1>7
  <2>2. InRows(Meant(m, s, row, c.src, c.dst, c.bias), BlockStart(t, row[c.src]), BlockStart(t, row[c.dst]),
               t.shape[2], stride, t.shape[3] - c.bias, c.bias, t.elem)
    BY ONLY <1>2, <1>4, <2>1, MeantDs, t.conv, Models[m].dimFirst
  <2>. QED  BY ONLY <1>2, <1>6, <1>8, <1>12, <2>2
<1>16. DsLaunch(ProgramsOf(c), x, y, rows, stride, kept, bias, elem)
  <2>1. PICK l : l = Launch(c)
    OBVIOUS
  <2>2. /\ InPool(l, l.src) /\ InPool(l, l.dst) /\ l.k.width > 0 /\ l.k.width # 0
        /\ l.k.rows = rows /\ l.k.rowStride = stride /\ l.k.elem = elem /\ l.k.width = width /\ l.bias = bias
        /\ BlockAddr(l, l.src) = x /\ BlockAddr(l, l.dst) = y
    BY ONLY <1>2, <1>3, <1>6, <1>7, <1>12, <2>1, t.conv, Models[m].dimFirst DEF Sees, SlotHolds
  <2>3. Kept(l) = kept
    BY ONLY <1>8, <2>2 DEF Kept
  <2>4. \A u : ThreadProgram(c, u) = DsProgram(l, u)
    BY ONLY <1>2, <2>1, <2>2, c.path = "fused", Models[m].dimFirst DEF ThreadProgram
  <2>5. ASSUME NEW u
        PROVE  DsProgram(l, u)
               = IF u[1] # 0 \/ u[2] # "rows" THEN << >>
                 ELSE FlattenSeq([k \in 1 .. kept |->
                        FlattenSeq([i \in 1 .. Len(OfLane(rows, u[3])) |->
                          ElementOps(x + OfLane(rows, u[3])[i] * stride + (k - 1 + bias) * elem,
                                     y + OfLane(rows, u[3])[i] * stride + (k - 1) * elem, elem)])])
    BY ONLY <2>2, <2>3 DEF DsProgram, ElementOps
  <2>6. [u \in Threads |-> ThreadProgram(c, u)]
        = [u \in Threads |->
             IF u[1] # 0 \/ u[2] # "rows" THEN << >>
             ELSE FlattenSeq([k \in 1 .. kept |->
                    FlattenSeq([i \in 1 .. Len(OfLane(rows, u[3])) |->
                      ElementOps(x + OfLane(rows, u[3])[i] * stride + (k - 1 + bias) * elem,
                                 y + OfLane(rows, u[3])[i] * stride + (k - 1) * elem, elem)])])]
    BY ONLY <2>4, <2>5
  <2>. QED  BY ONLY <2>6 DEF DsLaunch, ProgramsOf
<1>17. LeftOverlap(c) = FALSE
  BY ONLY c.path = "fused" DEF LeftOverlap
<1>18. Realizes(ProgramsOf(c), Aim(c), FALSE, MemoryOf[m])
  BY ONLY <1>9, <1>13, <1>14, <1>15, <1>16, DsRealizes, bias \in Nat, kept \in Nat
<1>. QED  BY ONLY <1>2, <1>17, <1>18 DEF Brings

\* Every valid call does what it means, whatever the layout and the path.
LEMMA ValidBrings ==
  ASSUME NEW c \in Calls, GoesAhead(c)
  PROVE  Brings(c)
<1>1. PICK m, s, t, row, src, dst : Chosen(c, m, s, t, row, src, dst)
  <2>1. PICK m, s, t, row, src, dst :
          /\ m = c.model /\ s = c.state /\ t = States[m][s].tensor /\ row = c.tables[States[m][s].group]
          /\ src = row[IF t.conv THEN c.src ELSE c.src + c.bias] /\ dst = row[c.dst]
    OBVIOUS
  <2>. QED  BY ONLY <2>1 DEF Chosen
<1>2. c.path \in {"fused", "batch"} /\ Models[m].dimFirst \in BOOLEAN /\ t \in TensorsOf(m)
  BY ONLY ChosenIs, c \in Calls, <1>1
<1>3. t.conv \in BOOLEAN
  BY ONLY <1>2, TensorIs
<1>4. CASE c.path = "batch"
  BY ONLY <1>1, <1>4, BatchBrings, c \in Calls
<1>5. CASE c.path = "fused" /\ ~t.conv
  BY ONLY <1>1, <1>5, TemporalBrings, c \in Calls, GoesAhead(c)
<1>6. CASE c.path = "fused" /\ t.conv /\ Models[m].dimFirst
  BY ONLY <1>1, <1>6, DsBrings, c \in Calls, GoesAhead(c)
<1>7. CASE c.path = "fused" /\ t.conv /\ ~Models[m].dimFirst
  BY ONLY <1>1, <1>7, SdBrings, c \in Calls, GoesAhead(c)
<1>. QED  BY ONLY <1>2, <1>3, <1>4, <1>5, <1>6, <1>7

\* The pairs of addresses a call stands for.
Stands(c) == IF GoesAhead(c) THEN Aim(c) ELSE {}

\* The threads with something to do carry it out.
LEMMA CallRealizes ==
  ASSUME NEW c \in Calls
  PROVE  Realizes(ProgramOf(c), Stands(c), LeftOverlap(c), MemoryOf[c.model]) /\ MemoryOf[c.model] \subseteq Int
<1>0. MemoryOf[c.model] \subseteq Int
  <2>1. c.model \in DOMAIN Models /\ c.state \in DOMAIN States[c.model]
    BY ONLY CallsAssumption, c \in Calls
  <2>. QED  BY ONLY <2>1, BlocksIn
<1>1. PICK P : P = ProgramsOf(c)
  OBVIOUS
<1>2. PICK Q : Q = ProgramOf(c)
  OBVIOUS
<1>3. DOMAIN P = Threads /\ \A u \in Threads : P[u] = ThreadProgram(c, u)
  BY ONLY <1>1 DEF ProgramsOf
<1>4. Q = [t \in {u \in DOMAIN P : P[u] # << >>} |-> P[t]]
  <2>1. {u \in Threads : ThreadProgram(c, u) # << >>} = {u \in DOMAIN P : P[u] # << >>}
    BY ONLY <1>3
  <2>2. Q = [t \in {u \in Threads : ThreadProgram(c, u) # << >>} |-> ThreadProgram(c, t)]
    BY ONLY <1>2 DEF ProgramOf
  <2>3. \A t \in {u \in DOMAIN P : P[u] # << >>} : ThreadProgram(c, t) = P[t]
    BY ONLY <1>3
  <2>. QED  BY ONLY <2>1, <2>2, <2>3
<1>5. CASE GoesAhead(c)
  <2>1. Realizes(P, Aim(c), LeftOverlap(c), MemoryOf[c.model])
    BY ONLY <1>1, <1>5, ValidBrings, c \in Calls DEF Brings
  <2>2. PICK X, reads : /\ reads \in [X -> MemoryOf[c.model]] /\ X \subseteq MemoryOf[c.model]
                        /\ Carries(P, reads, X) /\ OrderKept(P, reads, X, LeftOverlap(c))
                        /\ \A pair : pair \in Aim(c) <=> \E b \in X : pair = <<reads[b], b>>
    BY ONLY <2>1 DEF Realizes
  <2>3. Carries(Q, reads, X) /\ OrderKept(Q, reads, X, LeftOverlap(c))
    BY ONLY <1>4, <2>2, Busy
  <2>4. Realizes(Q, Aim(c), LeftOverlap(c), MemoryOf[c.model])
    BY ONLY <2>2, <2>3 DEF Realizes
  <2>. QED  BY ONLY <1>0, <1>2, <1>5, <2>4 DEF Stands
<1>6. CASE ~GoesAhead(c)
  <2>1. \A u \in Threads : ThreadProgram(c, u) = << >>
    BY ONLY <1>6 DEF GoesAhead, ThreadProgram
  <2>2. DOMAIN Q = {}
    BY ONLY <1>3, <1>4, <2>1
  <2>3. PICK X : X = {}
    OBVIOUS
  <2>4. PICK reads : reads = [b \in X |-> b]
    OBVIOUS
  <2>5. reads \in [X -> MemoryOf[c.model]] /\ X \subseteq MemoryOf[c.model]
    BY ONLY <2>3, <2>4
  <2>6. Carries(Q, reads, X) /\ OrderKept(Q, reads, X, LeftOverlap(c))
    BY ONLY <2>2, <2>3 DEF Carries, OrderKept
  <2>7. \A pair : pair \in {} <=> \E b \in X : pair = <<reads[b], b>>
    BY ONLY <2>3
  <2>8. Realizes(Q, {}, LeftOverlap(c), MemoryOf[c.model])
    BY ONLY <2>5, <2>6, <2>7 DEF Realizes
  <2>. QED  BY ONLY <1>0, <1>2, <1>6, <2>8 DEF Stands
<1>. QED  BY ONLY <1>5, <1>6

\* The programs stopped are some of a launch's, and none of a valid one's.
StoppedBy(c) == {tile \in 0 .. Tiles - 1 : Stopped(c, tile)}

LEMMA StoppedIs ==
  ASSUME NEW c \in Calls
  PROVE  /\ Cardinality(StoppedBy(c)) \in 0 .. Tiles
         /\ Cardinality(StoppedBy(c)) > 0 <=> ~GoesAhead(c)
<1>1. Tiles \in Nat \ {0} /\ IsFiniteSet(0 .. Tiles - 1) /\ Cardinality(0 .. Tiles - 1) = Tiles
  <2>1. Tiles \in Nat \ {0}
    BY TilesAre
  <2>2. Tiles - 1 \in Int /\ 0 \in Int /\ 0 <= Tiles - 1 /\ (Tiles - 1) - 0 + 1 = Tiles
    BY ONLY <2>1
  <2>. QED  BY ONLY <2>1, <2>2, FS_Interval
<1>2. StoppedBy(c) \subseteq 0 .. Tiles - 1
  BY DEF StoppedBy
<1>3. IsFiniteSet(StoppedBy(c)) /\ Cardinality(StoppedBy(c)) <= Tiles /\ Cardinality(StoppedBy(c)) \in Nat
  BY ONLY <1>1, <1>2, FS_Subset, FS_CardinalityType
<1>4. Cardinality(StoppedBy(c)) = 0 <=> StoppedBy(c) = {}
  BY ONLY <1>3, FS_EmptySet
<1>5. StoppedBy(c) = {} <=> GoesAhead(c)
  <2>1. c.path \in {"fused", "batch"}
    BY ONLY CallsAssumption, c \in Calls
  <2>2. ASSUME GoesAhead(c) PROVE StoppedBy(c) = {}
    BY ONLY <2>2 DEF StoppedBy, Stopped, GoesAhead
  <2>3. ASSUME ~GoesAhead(c) PROVE StoppedBy(c) # {}
    <3>1. c.path = "fused" /\ ~(InPool(Launch(c), Launch(c).src) /\ InPool(Launch(c), Launch(c).dst))
      BY ONLY <2>1, <2>3 DEF GoesAhead
    <3>2. Stopped(c, 0)
      BY ONLY <3>1 DEF Stopped
    <3>3. 0 \in 0 .. Tiles - 1
      BY ONLY <1>1
    <3>. QED  BY ONLY <3>2, <3>3 DEF StoppedBy
  <2>. QED  BY ONLY <2>2, <2>3
<1>. QED  BY ONLY <1>1, <1>3, <1>4, <1>5

\* A launch in flight: it moves what its call says, and memory has nothing but
\* its own addresses, moved or not.
KernelInv ==
  /\ MovingInv
  /\ call \in Calls /\ program = ProgramOf(call) /\ waits = LeftOverlap(call)
  /\ mem = [a \in MemoryOf[call.model] |-> mem[a]]
  /\ guardHits = Cardinality(StoppedBy(call))

LEMMA KernelStarts == KernelInit => KernelInv
<1>. SUFFICES ASSUME KernelInit PROVE KernelInv
  OBVIOUS
<1>1. /\ call \in Calls /\ program = ProgramOf(call) /\ waits = LeftOverlap(call)
      /\ mem = [a \in MemoryOf[call.model] |-> a]
      /\ pc = [t \in DOMAIN program |-> 0] /\ reg = [t \in DOMAIN program |-> << >>]
      /\ guardHits = Cardinality(StoppedBy(call))
  BY DEF KernelInit, StoppedBy
<1>2. Realizes(program, Stands(call), waits, MemoryOf[call.model]) /\ MemoryOf[call.model] \subseteq Int
  BY ONLY <1>1, CallRealizes
<1>3. Disciplined(program, waits, MemoryOf[call.model])
  BY ONLY <1>2, OrderDisciplines DEF Realizes
<1>4. mem = [a \in MemoryOf[call.model] |-> mem[a]] /\ DOMAIN mem = MemoryOf[call.model] /\ \A a \in DOMAIN mem : mem[a] = a
  BY ONLY <1>1
<1>5. ASSUME NEW t \in DOMAIN program PROVE ThreadMoves(t)
  <2>1. pc[t] = 0 /\ reg[t] = << >>
    BY ONLY <1>1, t \in DOMAIN program
  <2>2. program[t] \in Seq(Ops)
    BY ONLY <1>3, t \in DOMAIN program DEF Disciplined
  <2>3. Len(program[t]) \in Nat /\ DOMAIN program[t] \subseteq Nat \ {0}
    BY ONLY <2>2
  <2>4. pc[t] <= 2 * Len(program[t])
    BY ONLY <2>1, <2>3
  <2>5. Loading(t)
    BY ONLY <2>1 DEF Loading
  <2>6. \A j \in DOMAIN program[t] : ~Stored(t, j)
    BY ONLY <2>1, <2>3 DEF Stored
  <2>. QED  BY ONLY <2>1, <2>4, <2>5, <2>6 DEF ThreadMoves
<1>6. \A a \in DOMAIN mem : MovedOrKept(a)
  BY ONLY <1>4 DEF MovedOrKept
<1>7. BarrierKept
  <2>1. ASSUME NEW u \in DOMAIN program, NEW j \in DOMAIN program[u] PROVE ~Stored(u, j)
    <3>1. pc[u] = 0 /\ program[u] \in Seq(Ops)
      BY ONLY <1>1, <1>3, u \in DOMAIN program DEF Disciplined
    <3>2. j \in Nat \ {0}
      BY ONLY <3>1, j \in DOMAIN program[u]
    <3>. QED  BY ONLY <3>1, <3>2 DEF Stored
  <2>. QED  BY ONLY <2>1 DEF BarrierKept
<1>8. pc \in [DOMAIN program -> Nat] /\ DOMAIN reg = DOMAIN program
  BY ONLY <1>1
<1>9. MovingInv
  BY ONLY <1>2, <1>3, <1>4, <1>5, <1>6, <1>7, <1>8 DEF MovingInv
<1>. QED  BY ONLY <1>1, <1>4, <1>9 DEF KernelInv

LEMMA KernelSteps == KernelInv /\ [KernelNext]_kernelVars => KernelInv'
<1>. SUFFICES ASSUME KernelInv, [KernelNext]_kernelVars PROVE KernelInv'
  OBVIOUS
<1>1. /\ MovingInv /\ call \in Calls /\ program = ProgramOf(call) /\ waits = LeftOverlap(call)
      /\ mem = [a \in MemoryOf[call.model] |-> mem[a]] /\ guardHits = Cardinality(StoppedBy(call))
  BY DEF KernelInv
<1>2. ASSUME NEW t \in DOMAIN program, Load(t) PROVE KernelInv'
  <2>1. MovingInv'
    BY ONLY <1>1, <1>2, LoadKeeps
  <2>2. call' = call /\ program' = program /\ waits' = waits /\ mem' = mem /\ guardHits' = guardHits
    BY ONLY <1>2 DEF Load
  <2>3. mem' = [a \in MemoryOf[call.model] |-> mem'[a]]
    BY ONLY <1>1, <2>2
  <2>. QED  BY ONLY <1>1, <2>1, <2>2, <2>3, Zenon DEF KernelInv
<1>3. ASSUME NEW t \in DOMAIN program, Store(t) PROVE KernelInv'
  <2>1. MovingInv'
    BY ONLY <1>1, <1>3, StoreKeeps
  <2>2. call' = call /\ program' = program /\ waits' = waits /\ guardHits' = guardHits
    BY ONLY <1>3 DEF Store
  <2>3. mem' = [a \in MemoryOf[call.model] |-> mem'[a]]
    <3>1. Addresses = MemoryOf[call.model]
      BY ONLY <1>1 DEF Addresses
    <3>. QED  BY ONLY <1>3, <3>1 DEF Store
  <2>. QED  BY ONLY <1>1, <2>1, <2>2, <2>3 DEF KernelInv
<1>4. CASE UNCHANGED kernelVars
  <2>1. /\ call' = call /\ program' = program /\ waits' = waits /\ mem' = mem
        /\ pc' = pc /\ reg' = reg /\ guardHits' = guardHits
    BY ONLY <1>4 DEF kernelVars
  <2>2. MovingInv'
    <3>1. \A t \in DOMAIN program : ThreadMoves(t) => ThreadMoves(t)'
      BY ONLY <2>1 DEF ThreadMoves, Stored, Loading, OpAt
    <3>2. \A a \in DOMAIN mem : MovedOrKept(a) => MovedOrKept(a)'
      BY ONLY <2>1 DEF MovedOrKept, Stored
    <3>3. BarrierKept => BarrierKept'
      BY ONLY <2>1 DEF BarrierKept, Stored, Running
    <3>. QED  BY ONLY <1>1, <2>1, <3>1, <3>2, <3>3, Zenon DEF MovingInv
  <2>3. mem' = [a \in MemoryOf[call.model] |-> mem'[a]]
    BY ONLY <1>1, <2>1
  <2>. QED  BY ONLY <1>1, <2>1, <2>2, <2>3, Zenon DEF KernelInv
<1>5. CASE \E t \in DOMAIN program : Load(t) \/ Store(t)
  BY ONLY <1>2, <1>3, <1>5
<1>. QED  BY ONLY <1>4, <1>5, [KernelNext]_kernelVars DEF KernelNext

LEMMA KernelTypes == KernelInv => TypeOK
<1>. SUFFICES ASSUME KernelInv PROVE TypeOK
  OBVIOUS
<1>1. /\ MovingInv /\ call \in Calls
      /\ mem = [a \in MemoryOf[call.model] |-> mem[a]] /\ guardHits = Cardinality(StoppedBy(call))
  BY DEF KernelInv
<1>2. /\ Disciplined(program, waits, DOMAIN mem)
      /\ pc \in [DOMAIN program -> Nat] /\ \A t \in DOMAIN program : ThreadMoves(t)
      /\ \A a \in DOMAIN mem : MovedOrKept(a)
  BY ONLY <1>1 DEF MovingInv
<1>3. /\ \A t \in DOMAIN program : program[t] \in Seq(Ops)
      /\ \A t \in DOMAIN program : \A j \in DOMAIN program[t] : \A i \in BytesOf(program[t][j]) :
           program[t][j].from + i \in DOMAIN mem /\ program[t][j].to + i \in DOMAIN mem
  BY ONLY <1>2 DEF Disciplined
<1>4. ASSUME NEW a \in DOMAIN mem PROVE mem[a] \in DOMAIN mem
  <2>1. CASE mem[a] = a
    BY ONLY <2>1, a \in DOMAIN mem
  <2>2. CASE mem[a] # a
    <3>1. PICK t \in DOMAIN program : \E j \in DOMAIN program[t] : \E i \in BytesOf(program[t][j]) :
            Stored(t, j) /\ a = program[t][j].to + i
      BY ONLY <1>2, <2>2, a \in DOMAIN mem DEF MovedOrKept
    <3>2. PICK j \in DOMAIN program[t] : \E i \in BytesOf(program[t][j]) : Stored(t, j) /\ a = program[t][j].to + i
      BY ONLY <3>1
    <3>3. PICK i \in BytesOf(program[t][j]) : Stored(t, j) /\ a = program[t][j].to + i
      BY ONLY <3>2
    <3>4. mem[program[t][j].to + i] = program[t][j].from + i
      BY ONLY <1>2, <3>3, t \in DOMAIN program, j \in DOMAIN program[t], i \in BytesOf(program[t][j]) DEF ThreadMoves
    <3>5. program[t][j].from + i \in DOMAIN mem
      BY ONLY <1>3, t \in DOMAIN program, j \in DOMAIN program[t], i \in BytesOf(program[t][j])
    <3>. QED  BY ONLY <3>3, <3>4, <3>5
  <2>. QED  BY ONLY <2>1, <2>2
<1>5. mem \in [Addresses -> Addresses]
  <2>1. mem = [a \in DOMAIN mem |-> mem[a]]
    <3>1. DOMAIN mem = MemoryOf[call.model]
      BY ONLY <1>1
    <3>. QED  BY ONLY <1>1, <3>1
  <2>. QED  BY ONLY <1>4, <2>1 DEF Addresses
<1>6. ASSUME NEW t \in DOMAIN program PROVE reg[t] \in Seq(Addresses)
  <2>1. reg[t] = IF Loading(t) THEN << >> ELSE [i \in 1 .. OpAt(t).len |-> OpAt(t).from + i - 1]
    BY ONLY <1>2, t \in DOMAIN program DEF ThreadMoves
  <2>2. CASE Loading(t)
    BY ONLY <2>1, <2>2
  <2>3. CASE ~Loading(t)
    <3>1. pc[t] <= 2 * Len(program[t]) /\ pc[t] \in Nat /\ Len(program[t]) \in Nat
      <4>1. pc[t] <= 2 * Len(program[t])
        BY ONLY <1>2, t \in DOMAIN program DEF ThreadMoves
      <4>2. pc[t] \in Nat
        BY ONLY <1>2, t \in DOMAIN program
      <4>3. program[t] \in Seq(Ops)
        BY ONLY <1>3, t \in DOMAIN program
      <4>4. Len(program[t]) \in Nat
        BY ONLY <4>3
      <4>. QED  BY ONLY <4>1, <4>2, <4>4
    <3>2. pc[t] % 2 # 0
      BY ONLY <2>3 DEF Loading
    <3>3. Running(t)
      <4>1. PICK p \in Nat, l \in Nat : p = pc[t] /\ l = Len(program[t])
        BY ONLY <3>1
      <4>2. p # 2 * l
        BY ONLY <3>2, <4>1, p \in Nat, l \in Nat
      <4>. QED  BY ONLY <3>1, <4>1, <4>2, p \in Nat, l \in Nat DEF Running
    <3>4. PICK j \in DOMAIN program[t] : OpAt(t) = program[t][j] /\ program[t][j] \in Ops
      BY ONLY <1>1, <3>3, AtIs, t \in DOMAIN program
    <3>5. PICK len \in Nat \ {0}, from \in Int : len = OpAt(t).len /\ from = OpAt(t).from
      BY ONLY <3>4 DEF Ops
    <3>6. ASSUME NEW i \in 1 .. len PROVE from + i - 1 \in Addresses
      <4>1. i - 1 \in BytesOf(program[t][j])
        BY ONLY <3>4, <3>5, i \in 1 .. len, len \in Nat \ {0} DEF BytesOf
      <4>2. from + (i - 1) \in DOMAIN mem
        BY ONLY <1>3, <3>4, <3>5, <4>1, t \in DOMAIN program, j \in DOMAIN program[t]
      <4>3. from + (i - 1) = from + i - 1
        BY ONLY from \in Int, len \in Nat \ {0}, i \in 1 .. len
      <4>. QED  BY ONLY <4>2, <4>3 DEF Addresses
    <3>7. [i \in 1 .. len |-> from + i - 1] \in [1 .. len -> Addresses]
      BY ONLY <3>6
    <3>8. [i \in 1 .. len |-> from + i - 1] \in Seq(Addresses)
      <4>1. PICK g : g = [i \in 1 .. len |-> from + i - 1]
        OBVIOUS
      <4>2. g \in [1 .. len -> Addresses] /\ len \in Nat
        BY ONLY <3>7, <4>1, len \in Nat \ {0}
      <4>3. g \in Seq(Addresses)
        BY ONLY <4>2, SeqDef
      <4>. QED  BY ONLY <4>1, <4>3
    <3>. QED  BY ONLY <2>1, <2>3, <3>5, <3>8
  <2>. QED  BY ONLY <2>2, <2>3
<1>7. guardHits \in 0 .. Tiles
  BY ONLY <1>1, StoppedIs
<1>8. ASSUME NEW t \in DOMAIN program, Running(t) PROVE Touches(t) \subseteq Addresses
  <2>1. PICK j \in DOMAIN program[t] : OpAt(t) = program[t][j] /\ program[t][j] \in Ops
    BY ONLY <1>1, <1>8, AtIs, t \in DOMAIN program
  <2>2. PICK len \in Nat \ {0}, from \in Int, to \in Int :
          len = OpAt(t).len /\ from = OpAt(t).from /\ to = OpAt(t).to
    BY ONLY <2>1 DEF Ops
  <2>3. ASSUME NEW i \in 0 .. len - 1 PROVE from + i \in Addresses /\ to + i \in Addresses
    <3>1. i \in BytesOf(program[t][j])
      BY ONLY <2>1, <2>2, i \in 0 .. len - 1 DEF BytesOf
    <3>. QED  BY ONLY <1>3, <2>1, <2>2, <3>1, t \in DOMAIN program, j \in DOMAIN program[t] DEF Addresses
  <2>4. \A a \in from .. from + len - 1 : a \in Addresses
    <3>1. \A a \in from .. from + len - 1 : a - from \in 0 .. len - 1 /\ from + (a - from) = a
      BY ONLY from \in Int, len \in Nat \ {0}
    <3>. QED  BY ONLY <2>3, <3>1
  <2>5. \A a \in to .. to + len - 1 : a \in Addresses
    <3>1. \A a \in to .. to + len - 1 : a - to \in 0 .. len - 1 /\ to + (a - to) = a
      BY ONLY to \in Int, len \in Nat \ {0}
    <3>. QED  BY ONLY <2>3, <3>1
  <2>6. Touches(t) = from .. from + len - 1 \/ Touches(t) = to .. to + len - 1
    BY ONLY <2>2 DEF Touches
  <2>. QED  BY ONLY <2>4, <2>5, <2>6
<1>. QED  BY ONLY <1>2, <1>5, <1>6, <1>7, <1>8 DEF TypeOK

LEMMA KernelMoves == KernelInv => MoveExact
<1>. SUFFICES ASSUME KernelInv, Done PROVE MoveExact
  BY DEF MoveExact
<1>1. /\ MovingInv /\ call \in Calls /\ program = ProgramOf(call)
      /\ mem = [a \in MemoryOf[call.model] |-> mem[a]] /\ guardHits = Cardinality(StoppedBy(call))
  BY DEF KernelInv
<1>2. /\ pc \in [DOMAIN program -> Nat] /\ \A t \in DOMAIN program : ThreadMoves(t)
      /\ \A a \in DOMAIN mem : MovedOrKept(a)
      /\ \A t \in DOMAIN program : program[t] \in Seq(Ops)
  BY ONLY <1>1 DEF MovingInv, Disciplined
<1>3. PICK X, reads : /\ Carries(program, reads, X)
                      /\ \A pair : pair \in Stands(call) <=> \E b \in X : pair = <<reads[b], b>>
  BY ONLY <1>1, CallRealizes DEF Realizes
<1>4. ASSUME NEW t \in DOMAIN program, NEW j \in DOMAIN program[t] PROVE Stored(t, j)
  <2>1. ~Running(t)
    BY ONLY Done, t \in DOMAIN program DEF Done
  <2>2. PICK p \in Nat, l \in Nat : p = pc[t] /\ l = Len(program[t]) /\ DOMAIN program[t] = 1 .. l
    BY ONLY <1>2, t \in DOMAIN program
  <2>3. ~(p < 2 * l)
    BY ONLY <2>1, <2>2 DEF Running
  <2>4. j \in 1 .. l
    BY ONLY <2>2, j \in DOMAIN program[t]
  <2>5. 2 * j <= p
    BY ONLY <2>3, <2>4, p \in Nat, l \in Nat
  <2>. QED  BY ONLY <2>2, <2>5 DEF Stored
<1>5. ASSUME NEW b \in X PROVE mem[b] = reads[b]
  <2>1. PICK t \in DOMAIN program, j \in Nat : Moves(program[t], j, reads[b], b)
    BY ONLY <1>3, b \in X DEF Carries
  <2>2. j \in DOMAIN program[t]
    BY ONLY <2>1 DEF Moves
  <2>3. PICK i \in BytesOf(program[t][j]) : reads[b] = program[t][j].from + i /\ b = program[t][j].to + i
    BY ONLY <2>1 DEF Moves
  <2>4. mem[program[t][j].to + i] = program[t][j].from + i
    BY ONLY <1>2, <1>4, <2>2, t \in DOMAIN program, i \in BytesOf(program[t][j]) DEF ThreadMoves
  <2>. QED  BY ONLY <2>3, <2>4
<1>6. ASSUME NEW pair \in Stands(call) PROVE mem[pair[2]] = pair[1]
  <2>1. PICK b \in X : pair = <<reads[b], b>>
    BY ONLY <1>3, pair \in Stands(call)
  <2>2. mem[b] = reads[b]
    BY ONLY <1>5, b \in X
  <2>. QED  BY ONLY <2>1, <2>2
<1>7. ASSUME NEW a \in Addresses, mem[a] # a PROVE a \in {pair[2] : pair \in Stands(call)}
  <2>0. a \in DOMAIN mem
    BY ONLY a \in Addresses DEF Addresses
  <2>1. PICK t \in DOMAIN program : \E j \in DOMAIN program[t] : \E i \in BytesOf(program[t][j]) :
          Stored(t, j) /\ a = program[t][j].to + i
    BY ONLY <1>2, <1>7, <2>0 DEF MovedOrKept
  <2>2. PICK j \in DOMAIN program[t] : \E i \in BytesOf(program[t][j]) : a = program[t][j].to + i
    BY ONLY <2>1
  <2>3. PICK i \in BytesOf(program[t][j]) : a = program[t][j].to + i
    BY ONLY <2>2
  <2>4. Moves(program[t], j, program[t][j].from + i, a)
    BY ONLY <2>3, j \in DOMAIN program[t], i \in BytesOf(program[t][j]) DEF Moves
  <2>5. a \in X
    BY ONLY <1>3, <2>4, t \in DOMAIN program DEF Carries
  <2>6. <<reads[a], a>> \in Stands(call) /\ <<reads[a], a>>[2] = a
    BY ONLY <1>3, <2>5
  <2>. QED  BY ONLY <2>6
<1>8. guardHits > 0 <=> ~GoesAhead(call)
  BY ONLY <1>1, StoppedIs
<1>9. Valid(call) <=> GoesAhead(call)
  BY ONLY <1>1, GoesAheadIsValid
<1>10. Stands(call) = IF Valid(call)
                     THEN Meant(call.model, call.state, call.tables[GroupOf(call.model, call.state)], call.src, call.dst, call.bias)
                     ELSE {}
  BY ONLY <1>9 DEF Stands, Aim
<1>. QED  BY ONLY <1>6, <1>7, <1>8, <1>9, <1>10 DEF MoveExact

\* A launch in flight keeps to the invariant.
THEOREM KernelInvariance == KernelSpec => []KernelInv
BY KernelStarts, KernelSteps, PTL DEF KernelSpec

\* TypeOK: no thread of a launch reads or writes outside the state pools, whatever
\* the tensors, the padding and the block ids.
THEOREM KernelTyped == KernelSpec => []TypeOK
BY KernelInvariance, KernelTypes, PTL

\* MoveExact: for every model, every layout and alignment of its state tensors, every
\* width of a word, number of lanes and of tiles, and every interleaving, a launch that is
\* over has moved exactly the bytes the assignment between views means, in place too;
\* and the guard counts exactly the launches it stops.
THEOREM KernelMovesExactly == KernelSpec => []MoveExact
BY KernelInvariance, KernelMoves, PTL
===============================================================================
