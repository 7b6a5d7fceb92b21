--------------------------- MODULE EngineStepProofs ---------------------------
(***************************************************************************)
(* Proofs about an engine step: the choices a decode step makes, of blocks *)
(* to read and tokens to draft (DecodeStep), and the capture window of the *)
(* profiler around it (StepProfile).  For every number of columns, blocks, *)
(* tokens, rows and weights, every width of a word and a byte, and every   *)
(* length of the window.                                                   *)
(***************************************************************************)
EXTENDS DecodeStep, StepProfile, SequenceTheorems, FiniteSetTheorems, TLAPS

----------------------------------------------------------------------------
(* General facts about numbers, sets and sequences. The two functions that *)
(* FoldLeft and FlattenSeq recur by are CHOOSEn: that there is such a      *)
(* function is proved by counting up.                                      *)

\* Induction for a set of numbers: the least one outside would be the successor of
\* one inside.
LEMMA Counting ==
  ASSUME NEW S, 0 \in S, \A len \in Nat : len \in S => len + 1 \in S
  PROVE  Nat \subseteq S
<1>. SUFFICES ASSUME NEW len \in Nat, len \notin S PROVE FALSE
  OBVIOUS
<1>. DEFINE T == {m \in Nat : m \notin S}
            below == {0 .. m : m \in T}
<1>1. IsWellFoundedOn(StrictSubsetOrdering(Nat), FiniteSubsetsOf(Nat))
  BY FS_StrictSubsetOrderingWellFounded
<1>2. below \subseteq FiniteSubsetsOf(Nat) /\ below # {}
  <2>1. ASSUME NEW m \in T PROVE 0 .. m \in FiniteSubsetsOf(Nat)
    BY FS_Interval DEF FiniteSubsetsOf
  <2>. QED  BY <2>1
<1>3. PICK b \in below : \A c \in below : ~(<<c, b>> \in StrictSubsetOrdering(Nat))
  BY <1>1, <1>2, WFMin
<1>4. PICK m \in T : b = 0 .. m
  BY <1>3
<1>5. m # 0 /\ m - 1 \in Nat /\ (m - 1) + 1 = m
  BY <1>4
<1>6. CASE m - 1 \in S
  BY <1>4, <1>5, <1>6
<1>7. CASE m - 1 \notin S
  <2>1. 0 .. m - 1 \in below
    BY <1>5, <1>7
  <2>2. 0 .. m - 1 \in SUBSET (0 .. m) /\ m \in 0 .. m /\ m \notin 0 .. m - 1
    BY <1>4, <1>5
  <2>3. 0 .. m - 1 \in SUBSET Nat /\ 0 .. m \in SUBSET Nat
    BY <1>4, <1>5
  <2>4. <<0 .. m - 1, 0 .. m>> \in StrictSubsetOrdering(Nat)
    BY <2>2, <2>3 DEF StrictSubsetOrdering
  <2>. QED  BY <1>3, <1>4, <2>1, <2>4
<1>. QED  BY <1>6, <1>7

\* A function on the numbers up to len, from its first value and its steps.
Iterates(k, len, base, F) == k[0] = base /\ \A i \in 1 .. len : k[i] = F[<<i, k[i - 1]>>]

\* Such a k exists for every base and F.
LEMMA Iteration ==
  ASSUME NEW len \in Nat, NEW V, NEW base \in V, NEW F,
         \A i \in 1 .. len, v \in V : F[<<i, v>>] \in V
  PROVE  \E k \in [0 .. len -> V] : Iterates(k, len, base, F)
<1>. DEFINE Upto(m) == \E k \in [0 .. m -> V] : k[0] = base /\ \A i \in 1 .. m : k[i] = F[<<i, k[i - 1]>>]
<1>1. Upto(0)
  <2>. DEFINE k == [i \in 0 .. 0 |-> base]
  <2>1. k \in [0 .. 0 -> V] /\ k[0] = base /\ 1 .. 0 = {}
    OBVIOUS
  <2>. QED  BY <2>1
<1>2. ASSUME NEW m \in Nat, Upto(m), m + 1 <= len PROVE Upto(m + 1)
  <2>1. PICK k \in [0 .. m -> V] : k[0] = base /\ \A i \in 1 .. m : k[i] = F[<<i, k[i - 1]>>]
    BY <1>2
  <2>. DEFINE h == [i \in 0 .. m + 1 |-> IF i = m + 1 THEN F[<<m + 1, k[m]>>] ELSE k[i]]
  <2>2. m + 1 \in 1 .. len /\ k[m] \in V
    BY <1>2, <2>1
  <2>3. h \in [0 .. m + 1 -> V]
    BY <2>1, <2>2
  <2>4. ASSUME NEW i \in 1 .. m + 1 PROVE h[i] = F[<<i, h[i - 1]>>]
    <3>1. i - 1 \in 0 .. m + 1 /\ i - 1 # m + 1
      BY ONLY m \in Nat, i \in 1 .. m + 1
    <3>2. h[i - 1] = k[i - 1]
      BY <3>1
    <3>3. CASE i = m + 1
      <4>1. h[m + 1] = F[<<m + 1, k[m]>>] /\ (m + 1) - 1 = m
        OBVIOUS
      <4>. HIDE DEF h
      <4>. QED  BY ONLY <3>2, <3>3, <4>1
    <3>4. CASE i # m + 1
      <4>1. i \in 0 .. m + 1 /\ i \in 1 .. m
        BY ONLY <3>4, m \in Nat, i \in 1 .. m + 1
      <4>2. h[i] = k[i]
        BY <3>4, <4>1
      <4>. HIDE DEF h
      <4>. QED  BY ONLY <2>1, <3>2, <4>1, <4>2
    <3>. QED  BY ONLY <3>3, <3>4
  <2>5. h[0] = base
    BY <2>1
  <2>. QED  BY <2>3, <2>4, <2>5
<1>. HIDE DEF Upto
<1>3. Upto(len)
  <2>. DEFINE S == {m \in Nat : m <= len => Upto(m)}
  <2>1. 0 \in S
    BY <1>1
  <2>2. \A m \in Nat : m \in S => m + 1 \in S
    <3>. SUFFICES ASSUME NEW m \in Nat, m \in S, m + 1 <= len PROVE Upto(m + 1)
      OBVIOUS
    <3>1. m <= len /\ Upto(m)
      OBVIOUS
    <3>. QED  BY <1>2, <3>1
  <2>3. \A m \in Nat : m \in S
    <3>. HIDE DEF S
    <3>. QED  BY <2>1, <2>2, Counting
  <2>. QED  BY <2>3
<1>. QED  BY <1>3 DEF Upto, Iterates

\* A set of numbers with an upper bound has a greatest one.
LEMMA Greatest ==
  ASSUME NEW top \in Nat, NEW s \in SUBSET (0 .. top), s # {}
  PROVE  \E b \in s : \A y \in s : b >= y
<1>. DEFINE P(m) == m <= top => \A t \in SUBSET (0 .. m) : t # {} => \E b \in t : \A y \in t : b >= y
<1>1. P(0)
  <2>1. ASSUME NEW t \in SUBSET (0 .. 0), t # {} PROVE 0 \in t /\ \A y \in t : 0 >= y
    <3>1. \A y \in t : y = 0
      OBVIOUS
    <3>2. PICK y \in t : TRUE
      BY <2>1
    <3>. QED  BY <3>1, <3>2
  <2>. QED  BY <2>1
<1>2. ASSUME NEW m \in Nat, P(m) PROVE P(m + 1)
  <2>. SUFFICES ASSUME m + 1 <= top, NEW t \in SUBSET (0 .. m + 1), t # {}
                PROVE  \E b \in t : \A y \in t : b >= y
    OBVIOUS
  <2>1. CASE m + 1 \in t
    <3>1. \A y \in t : m + 1 >= y
      OBVIOUS
    <3>. QED  BY <2>1, <3>1
  <2>2. CASE m + 1 \notin t
    <3>1. \A y \in t : y \in 0 .. m
      BY <2>2
    <3>. QED  BY <1>2, <3>1
  <2>. QED  BY <2>1, <2>2
<1>. HIDE DEF P
<1>3. \A m \in Nat : P(m)
  <2>. DEFINE T == {m \in Nat : P(m)}
  <2>1. 0 \in T /\ \A m \in Nat : m \in T => m + 1 \in T
    BY <1>1, <1>2
  <2>. HIDE DEF T
  <2>2. \A m \in Nat : m \in T
    BY <2>1, Counting
  <2>. QED  BY <2>2 DEF T
<1>4. P(top)
  BY <1>3
<1>. QED  BY <1>4 DEF P

\* The initial segments of an interval.
LEMMA Segments ==
  ASSUME NEW len \in Nat
  PROVE  /\ 1 .. 0 = {} /\ 1 .. 0 \in SUBSET (1 .. len)
         /\ \A i \in 1 .. len : /\ 1 .. i \in SUBSET (1 .. len) /\ 1 .. i # {}
                                /\ Max(1 .. i) = i /\ (1 .. i) \ {i} = 1 .. i - 1
<1>1. ASSUME NEW i \in 1 .. len PROVE Max(1 .. i) = i
  <2>1. i \in 1 .. i /\ \A x \in 1 .. i : (\A y \in 1 .. i : x >= y) => x = i
    OBVIOUS
  <2>. QED  BY <2>1 DEF Max
<1>2. \A i \in 1 .. len : (1 .. i) \ {i} = 1 .. i - 1 /\ 1 .. i \in SUBSET (1 .. len) /\ 1 .. i # {}
  <2>. SUFFICES ASSUME NEW i \in 1 .. len
                PROVE  (1 .. i) \ {i} = 1 .. i - 1 /\ 1 .. i \in SUBSET (1 .. len) /\ 1 .. i # {}
    OBVIOUS
  <2>1. i \in 1 .. i
    OBVIOUS
  <2>. QED  BY <2>1
<1>3. 1 .. 0 = {}
  OBVIOUS
<1>. QED  BY <1>1, <1>2, <1>3

\* The function FoldLeft recurs by, over the subsets of an interval.
IsFold(g, len, base, F) ==
  \A s \in SUBSET (1 .. len) : g[s] = IF s = {} THEN base ELSE F[<<Max(s), g[s \ {Max(s)}]>>]

\* Such a function exists for every base and F.
LEMMA FoldOver ==
  ASSUME NEW len \in Nat, NEW V, NEW base \in V, NEW F,
         \A i \in 1 .. len, v \in V : F[<<i, v>>] \in V
  PROVE  \E g \in [SUBSET (1 .. len) -> V] :
           IsFold(g, len, base, F)
<1>. DEFINE R(m, g) == \A s \in SUBSET (1 .. m) : g[s] = IF s = {} THEN base ELSE F[<<Max(s), g[s \ {Max(s)}]>>]
            Upto(m) == \E g \in [SUBSET (1 .. m) -> V] : R(m, g)
<1>1. Upto(0)
  <2>. DEFINE g == [s \in SUBSET (1 .. 0) |-> base]
  <2>1. 1 .. 0 = {}
    OBVIOUS
  <2>2. \A s \in SUBSET (1 .. 0) : s = {}
    BY <2>1
  <2>3. g \in [SUBSET (1 .. 0) -> V] /\ R(0, g)
    BY <2>2
  <2>. QED  BY <2>3
<1>2. ASSUME NEW m \in Nat, Upto(m), m + 1 <= len PROVE Upto(m + 1)
  <2>1. PICK g \in [SUBSET (1 .. m) -> V] : R(m, g)
    BY <1>2
  <2>. DEFINE h == [s \in SUBSET (1 .. m + 1) |->
                      IF m + 1 \in s THEN F[<<m + 1, g[s \ {m + 1}]>>] ELSE g[s]]
  <2>2. ASSUME NEW s \in SUBSET (1 .. m + 1) PROVE s \ {m + 1} \in SUBSET (1 .. m)
    <3>1. \A x \in s \ {m + 1} : x \in 1 .. m
      OBVIOUS
    <3>. QED  BY <3>1
  <2>3. ASSUME NEW s \in SUBSET (1 .. m + 1), m + 1 \notin s PROVE s \in SUBSET (1 .. m)
    <3>1. \A x \in s : x \in 1 .. m
      BY <2>3
    <3>. QED  BY <3>1
  <2>4. h \in [SUBSET (1 .. m + 1) -> V]
    BY <1>2, <2>2, <2>3
  <2>5. ASSUME NEW s \in SUBSET (1 .. m + 1)
        PROVE  h[s] = IF s = {} THEN base ELSE F[<<Max(s), h[s \ {Max(s)}]>>]
    <3>1. CASE m + 1 \in s
      <4>1. Max(s) = m + 1
        <5>1. \A y \in s : m + 1 >= y
          OBVIOUS
        <5>2. \A x \in s : (\A y \in s : x >= y) => x = m + 1
          BY <3>1
        <5>. QED  BY <3>1, <5>1, <5>2 DEF Max
      <4>2. h[s \ {m + 1}] = g[s \ {m + 1}]
        BY <2>2
      <4>. QED  BY <3>1, <4>1, <4>2
    <3>2. CASE m + 1 \notin s
      <4>1. s \in SUBSET (1 .. m) /\ h[s] = g[s]
        BY <2>3, <3>2
      <4>2. h[s \ {Max(s)}] = g[s \ {Max(s)}]
        BY <4>1, <3>2
      <4>. QED  BY <2>1, <4>1, <4>2
    <3>. QED  BY <3>1, <3>2
  <2>6. R(m + 1, h)
    BY <2>5
  <2>. HIDE DEF h, R
  <2>. QED  BY <2>4, <2>6
<1>. HIDE DEF Upto
<1>3. Upto(len)
  <2>. DEFINE S == {m \in Nat : m <= len => Upto(m)}
  <2>1. 0 \in S
    BY <1>1
  <2>2. \A m \in Nat : m \in S => m + 1 \in S
    <3>. SUFFICES ASSUME NEW m \in Nat, m \in S, m + 1 <= len PROVE Upto(m + 1)
      OBVIOUS
    <3>1. m <= len /\ Upto(m)
      OBVIOUS
    <3>. QED  BY <1>2, <3>1
  <2>3. \A m \in Nat : m \in S
    <3>. HIDE DEF S
    <3>. QED  BY <2>1, <2>2, Counting
  <2>. QED  BY <2>3
<1>. QED  BY <1>3 DEF Upto, IsFold

\* Two functions that take the same steps from the same value are the same.
LEMMA Agreement ==
  ASSUME NEW len \in Nat, NEW f, NEW k, f[1] = k[1],
         \A i \in 2 .. len : f[i - 1] = k[i - 1] => f[i] = k[i]
  PROVE  \A i \in 1 .. len : f[i] = k[i]
<1>. DEFINE P(m) == m + 1 <= len => f[m + 1] = k[m + 1]
<1>1. P(0)
  OBVIOUS
<1>2. ASSUME NEW m \in Nat, P(m) PROVE P(m + 1)
  <2>. SUFFICES ASSUME (m + 1) + 1 <= len PROVE f[(m + 1) + 1] = k[(m + 1) + 1]
    OBVIOUS
  <2>1. (m + 1) + 1 \in 2 .. len /\ ((m + 1) + 1) - 1 = m + 1 /\ m + 1 <= len
    OBVIOUS
  <2>. QED  BY <1>2, <2>1
<1>. HIDE DEF P
<1>3. \A m \in Nat : P(m)
  <2>. DEFINE T == {m \in Nat : P(m)}
  <2>1. 0 \in T /\ \A m \in Nat : m \in T => m + 1 \in T
    BY <1>1, <1>2
  <2>. HIDE DEF T
  <2>2. \A m \in Nat : m \in T
    BY <2>1, Counting
  <2>. QED  BY <2>2 DEF T
<1>. SUFFICES ASSUME NEW i \in 1 .. len PROVE f[i] = k[i]
  OBVIOUS
<1>4. i - 1 \in Nat /\ (i - 1) + 1 = i
  OBVIOUS
<1>5. P(i - 1)
  BY <1>3, <1>4
<1>. QED  BY <1>4, <1>5 DEF P

\* A sequence of sequences, put together, is the last of those it passes through.
FlattensTo(ss, k, len) == FlattenSeq(ss) = k[len]

\* What FlattenSeq yields, from the sequences it passes through.
LEMMA Flattening ==
  ASSUME NEW len \in Nat \ {0}, NEW ss, Len(ss) = len, NEW k, k[1] = ss[1],
         \A i \in 2 .. len : k[i] = k[i - 1] \o ss[i]
  PROVE  FlattensTo(ss, k, len)
<1>. DEFINE G(f) == [i \in 1 .. len |-> IF i = 1 THEN ss[i] ELSE f[i - 1] \o ss[i]]
            f0 == [i \in 1 .. len |-> k[i]]
            f1 == CHOOSE f : f = G(f)
<1>1. f0 = G(f0)
  <2>1. ASSUME NEW i \in 1 .. len PROVE f0[i] = G(f0)[i]
    <3>1. CASE i = 1
      BY <3>1
    <3>2. CASE i # 1
      <4>1. i \in 2 .. len /\ i - 1 \in 1 .. len
        BY <3>2
      <4>2. f0[i - 1] = k[i - 1]
        BY <4>1
      <4>. HIDE DEF f0
      <4>3. G(f0)[i] = f0[i - 1] \o ss[i]
        BY <3>2
      <4>. QED  BY <4>1, <4>2, <4>3 DEF f0
    <3>. QED  BY <3>1, <3>2
  <2>. QED  BY <2>1
<1>2. f1 = G(f1)
  <2>. HIDE DEF f0, G
  <2>. QED  BY <1>1
<1>. HIDE DEF f1
<1>3. \A i \in 1 .. len : f1[i] = IF i = 1 THEN ss[i] ELSE f1[i - 1] \o ss[i]
  BY <1>2
<1>4. \A i \in 2 .. len : f1[i - 1] = k[i - 1] => f1[i] = k[i]
  <2>. SUFFICES ASSUME NEW i \in 2 .. len, f1[i - 1] = k[i - 1] PROVE f1[i] = k[i]
    OBVIOUS
  <2>1. i \in 1 .. len /\ i # 1
    OBVIOUS
  <2>2. f1[i] = f1[i - 1] \o ss[i]
    BY ONLY <1>3, <2>1
  <2>3. k[i] = k[i - 1] \o ss[i]
    OBVIOUS
  <2>. QED  BY ONLY <2>2, <2>3, f1[i - 1] = k[i - 1]
<1>5. f1[1] = k[1]
  BY <1>3
<1>6. f1[len] = k[len]
  <2>1. len \in Nat /\ len \in 1 .. len
    OBVIOUS
  <2>2. \A i \in 1 .. len : f1[i] = k[i]
    <3>. HIDE DEF G
    <3>. QED  BY ONLY <1>4, <1>5, <2>1, Agreement
  <2>. QED  BY ONLY <2>1, <2>2
<1>. QED  BY <1>6 DEF f1, FlattenSeq, FlattensTo

\* The lesser of two numbers.
LEMMA MinOf ==
  ASSUME NEW a \in Int, NEW b \in Int
  PROVE  Min({a, b}) = IF a <= b THEN a ELSE b
<1>. DEFINE least == IF a <= b THEN a ELSE b
<1>1. least \in {a, b} /\ \A y \in {a, b} : least <= y
  OBVIOUS
<1>2. \A x \in {a, b} : (\A y \in {a, b} : x <= y) => x = least
  OBVIOUS
<1>. HIDE DEF least
<1>3. Min({a, b}) = least
  BY <1>1, <1>2 DEF Min
<1>. QED  BY <1>3 DEF least

\* The greater of two numbers.
LEMMA MaxOf ==
  ASSUME NEW a \in Int, NEW b \in Int
  PROVE  Max({a, b}) = IF a >= b THEN a ELSE b
<1>. DEFINE most == IF a >= b THEN a ELSE b
<1>1. most \in {a, b} /\ \A y \in {a, b} : most >= y
  OBVIOUS
<1>2. \A x \in {a, b} : (\A y \in {a, b} : x >= y) => x = most
  OBVIOUS
<1>. HIDE DEF most
<1>3. Max({a, b}) = most
  BY <1>1, <1>2 DEF Max
<1>. QED  BY <1>3 DEF most

\* Quotient and remainder.
LEMMA DivMod == ASSUME NEW a \in Int, NEW d \in Nat \ {0}
  PROVE a = (a \div d) * d + (a % d) /\ a % d \in 0 .. d - 1 /\ a \div d \in Int
OBVIOUS

\* The only quotient and remainder.
LEMMA DivOf == ASSUME NEW q \in Int, NEW r \in Int, NEW d \in Nat \ {0}, 0 <= r, r < d
  PROVE (q * d + r) \div d = q /\ (q * d + r) % d = r
OBVIOUS

\* Multiples divide.
LEMMA Multiple == ASSUME NEW q \in Int, NEW d \in Nat \ {0}
  PROVE  (q * d) % d = 0 /\ (q * d) \div d = q
OBVIOUS

\* Sums and products of naturals.
LEMMA NatClosed == ASSUME NEW a \in Nat, NEW b \in Nat PROVE a * b \in Nat /\ a + b \in Nat
OBVIOUS

\* An element appended.
LEMMA RangeAppend ==
  ASSUME NEW S, NEW s \in Seq(S), NEW x \in S
  PROVE  Range(Append(s, x)) = Range(s) \union {x}
<1>1. PICK len \in Nat : len = Len(s)
  OBVIOUS
<1>2. DOMAIN s = 1 .. len /\ DOMAIN Append(s, x) = 1 .. len + 1
  BY <1>1, AppendProperties
<1>3. \A i \in 1 .. len : Append(s, x)[i] = s[i]
  BY <1>1, AppendProperties
<1>4. Append(s, x)[len + 1] = x
  BY <1>1, AppendProperties
<1>5. \A i : i \in 1 .. len + 1 <=> i \in 1 .. len \/ i = len + 1
  OBVIOUS
<1>6. \A y : y \in Range(Append(s, x)) <=> (\E i \in 1 .. len + 1 : y = Append(s, x)[i])
  BY <1>2 DEF Range
<1>7. \A y : y \in Range(s) <=> (\E i \in 1 .. len : y = s[i])
  BY <1>2 DEF Range
<1>8. ASSUME NEW y PROVE y \in Range(Append(s, x)) <=> y \in Range(s) \/ y = x
  <2>1. (\E i \in 1 .. len + 1 : y = Append(s, x)[i]) <=> (\E i \in 1 .. len : y = s[i]) \/ y = x
    BY <1>3, <1>4, <1>5
  <2>. QED  BY <1>6, <1>7, <2>1
<1>. QED  BY <1>8

\* A piece of a sequence.
LEMMA PieceIs ==
  ASSUME NEW V, NEW len \in Nat, NEW s \in [1 .. len -> V], NEW from \in Nat, NEW size \in Nat, from + size <= len
  PROVE  SubSeq(s, from + 1, from + size) = [j \in 1 .. size |-> s[from + j]]
<1>1. s \in Seq(V) /\ Len(s) = len
  OBVIOUS
<1>2. (from + size) - (from + 1) + 1 = size
  OBVIOUS
<1>3. DOMAIN SubSeq(s, from + 1, from + size) = 1 .. size
  BY <1>1, <1>2
<1>4. ASSUME NEW j \in 1 .. size PROVE SubSeq(s, from + 1, from + size)[j] = s[from + j]
  <2>1. (from + 1) + j - 1 = from + j /\ from + j \in 1 .. len
    OBVIOUS
  <2>. QED  BY <1>1, <1>2, <2>1
<1>5. SubSeq(s, from + 1, from + size) \in Seq(V)
  BY <1>1
<1>. QED  BY <1>3, <1>4, <1>5

\* Two neighbouring pieces of a sequence make one.
LEMMA Joined ==
  ASSUME NEW V, NEW s \in Seq(V), NEW from \in Nat, NEW to \in Nat, from <= to, to <= Len(s)
  PROVE  SubSeq(s, 1, to) = SubSeq(s, 1, from) \o SubSeq(s, from + 1, to)
<1>. DEFINE a == SubSeq(s, 1, from)
            b == SubSeq(s, from + 1, to)
            c == SubSeq(s, 1, to)
<1>1. /\ a \in Seq(V) /\ Len(a) = from /\ \A i \in 1 .. from : a[i] = s[i]
  <2>1. \A i \in 1 .. from : 1 + i - 1 = i
    OBVIOUS
  <2>. QED  BY <2>1
<1>2. /\ b \in Seq(V) /\ Len(b) = to - from /\ \A i \in 1 .. to - from : b[i] = s[from + i]
  <2>1. \A i \in 1 .. to - from : (from + 1) + i - 1 = from + i
    OBVIOUS
  <2>. QED  BY <2>1
<1>3. /\ c \in Seq(V) /\ Len(c) = to /\ \A i \in 1 .. to : c[i] = s[i]
  <2>1. \A i \in 1 .. to : 1 + i - 1 = i
    OBVIOUS
  <2>. QED  BY <2>1
<1>. HIDE DEF a, b, c
<1>4. a \o b \in Seq(V) /\ Len(a \o b) = to
  <2>1. from + (to - from) = to
    OBVIOUS
  <2>2. a \o b \in Seq(V) /\ Len(a \o b) = Len(a) + Len(b)
    BY ONLY <1>1, <1>2, ConcatProperties
  <2>. QED  BY ONLY <1>1, <1>2, <2>1, <2>2
<1>5. ASSUME NEW i \in 1 .. to PROVE (a \o b)[i] = c[i]
  <2>0. (a \o b)[i] = IF i <= from THEN a[i] ELSE b[i - from]
    <3>1. i \in 1 .. Len(a) + Len(b)
      BY <1>1, <1>2
    <3>2. (a \o b)[i] = IF i <= Len(a) THEN a[i] ELSE b[i - Len(a)]
      BY <1>1, <1>2, <3>1, ConcatProperties
    <3>. QED  BY <1>1, <3>2
  <2>1. CASE i <= from
    BY <1>1, <1>3, <2>0, <2>1
  <2>2. CASE i > from
    <3>1. i - from \in 1 .. to - from /\ from + (i - from) = i
      BY <2>2
    <3>2. (a \o b)[i] = b[i - from]
      BY <2>0, <2>2
    <3>. QED  BY <1>2, <1>3, <3>1, <3>2
  <2>3. i <= from \/ i > from
    OBVIOUS
  <2>. QED  BY <2>1, <2>2, <2>3
<1>6. a \o b = c
  BY <1>3, <1>4, <1>5
<1>. QED  BY <1>6 DEF a, b, c

----------------------------------------------------------------------------
(* Which KV blocks a row attends to (QsaTopK).                             *)

\* As many columns are read as the row sees or may attend to.
Reads == Min({visible, BlockTopk})

\* What the row is scored and chosen from.
ScoresOK ==
  /\ columns \in Nat \ {0} /\ visible \in 0 .. columns
  /\ logits \in [0 .. columns - 1 -> Scores]

\* A choice of torch.topk among masked scores starts with the columns to be read:
\* they are visible, and none that is left visible scores higher.
LEMMA TopkStartsVisible ==
  ASSUME ScoresOK, NEW s \in TorchTopk(QsaMaskInvisible, Min({BlockTopk, columns}))
  PROVE  /\ Reads <= Min({BlockTopk, columns}) /\ Reads <= visible /\ Reads \in Nat
         /\ \A i \in 1 .. Reads : s[i] \in 0 .. visible - 1
         /\ \A i, j \in 1 .. Reads : s[i] = s[j] => i = j
         /\ \A i \in 1 .. Reads, c \in 0 .. visible - 1 :
              c \notin {s[j] : j \in 1 .. Reads} => logits[s[i]] >= logits[c]
<1>. DEFINE k == Min({BlockTopk, columns})
            v == QsaMaskInvisible
            m == Reads
<1>0. BlockTopk \in Nat /\ columns \in Nat /\ visible \in Nat /\ visible <= columns
  BY TopkAssumption DEF ScoresOK
<1>1. /\ k \in Nat /\ m \in Nat /\ m <= k /\ m <= visible
      /\ m = visible \/ m = k
  <2>1. k = IF BlockTopk <= columns THEN BlockTopk ELSE columns
    BY <1>0, MinOf
  <2>2. m = IF visible <= BlockTopk THEN visible ELSE BlockTopk
    BY <1>0, MinOf DEF Reads
  <2>. QED  BY <1>0, <2>1, <2>2
<1>. HIDE DEF k, m
<1>2. \A c \in 0 .. columns - 1 :
        /\ v[c] \in Int
        /\ c \in 0 .. visible - 1 => v[c] = logits[c] /\ v[c] > NegInf
        /\ c \notin 0 .. visible - 1 => v[c] = NegInf
  <2>. SUFFICES ASSUME NEW c \in 0 .. columns - 1
                PROVE  /\ v[c] \in Int
                       /\ c \in 0 .. visible - 1 => v[c] = logits[c] /\ v[c] > NegInf
                       /\ c \notin 0 .. visible - 1 => v[c] = NegInf
    OBVIOUS
  <2>1. logits[c] \in Scores /\ logits[c] \in Int /\ NegInf \in Int /\ NegInf < logits[c]
    BY TopkAssumption DEF ScoresOK
  <2>2. v[c] = IF c >= visible THEN NegInf ELSE logits[c]
    BY DEF QsaMaskInvisible, Columns
  <2>3. c \in 0 .. visible - 1 <=> ~(c >= visible)
    BY <1>0
  <2>. HIDE DEF v
  <2>. QED  BY <2>1, <2>2, <2>3
<1>. HIDE DEF v
<1>3. /\ \A i \in 1 .. k : s[i] \in 0 .. columns - 1
      /\ \A i, j \in 1 .. k : s[i] = s[j] => i = j
      /\ \A i \in 1 .. k, c \in (0 .. columns - 1) \ {s[j] : j \in 1 .. k} : v[s[i]] >= v[c]
      /\ \A i, j \in 1 .. k : i < j /\ v[s[i]] < v[s[j]] => \E l \in 1 .. k : v[s[l]] < v[s[i]]
  BY DEF TorchTopk, k, v, Columns
\* A column that is not visible, among those read, has all visible ones before it.
<1>4. ASSUME NEW i \in 1 .. m, s[i] \notin 0 .. visible - 1
      PROVE  FALSE
  <2>1. i \in 1 .. k /\ v[s[i]] = NegInf /\ NegInf \in Int
    BY <1>1, <1>2, <1>3, <1>4, TopkAssumption
  <2>2. ASSUME NEW c \in 0 .. visible - 1 PROVE \E j \in 1 .. i - 1 : c = s[j]
    <3>1. c \in 0 .. columns - 1 /\ v[c] > NegInf /\ v[c] \in Int
      BY <1>0, <1>2
    <3>2. c \in {s[j] : j \in 1 .. k}
      BY <1>3, <2>1, <3>1
    <3>3. PICK j \in 1 .. k : c = s[j]
      BY <3>2
    <3>4. ~(i < j)
      <4>1. ASSUME NEW l \in 1 .. k PROVE ~(v[s[l]] < NegInf)
        BY <1>2, <1>3, <2>1
      <4>. QED  BY <1>3, <2>1, <3>1, <3>3, <4>1
    <3>5. j # i
      BY <1>4, <3>3
    <3>. QED  BY <1>1, <3>3, <3>4, <3>5
  <2>. DEFINE before == [c \in 0 .. visible - 1 |-> CHOOSE j \in 1 .. i - 1 : c = s[j]]
  <2>3. \A c \in 0 .. visible - 1 : before[c] \in 1 .. i - 1 /\ c = s[before[c]]
    BY <2>2
  <2>4. before \in Injection(0 .. visible - 1, 1 .. i - 1)
    <3>1. before \in [0 .. visible - 1 -> 1 .. i - 1]
      BY <2>3
    <3>. HIDE DEF before
    <3>. QED  BY <2>3, <3>1 DEF Injection, IsInjective
  <2>5. /\ IsFiniteSet(1 .. i - 1) /\ Cardinality(1 .. i - 1) = i - 1
        /\ IsFiniteSet(0 .. visible - 1) /\ Cardinality(0 .. visible - 1) = visible
    <3>1. i - 1 \in Nat /\ visible - 1 \in Int /\ (i - 1) - 1 + 1 = i - 1 /\ visible \in Nat
      BY ONLY <1>0, <1>1, <2>1
    <3>2. IsFiniteSet(1 .. i - 1) /\ Cardinality(1 .. i - 1) = i - 1
      BY ONLY <3>1, FS_Interval
    <3>3. IsFiniteSet(0 .. visible - 1) /\ Cardinality(0 .. visible - 1) = visible
      BY ONLY <3>1, FS_Interval
    <3>. QED  BY ONLY <3>2, <3>3
  <2>6. Cardinality(0 .. visible - 1) <= Cardinality(1 .. i - 1)
    BY <2>4, <2>5, FS_Injection
  <2>. QED  BY <1>0, <1>1, <2>5, <2>6
<1>5. \A i, j \in 1 .. m : s[i] = s[j] => i = j
  BY <1>1, <1>3
<1>6. ASSUME NEW i \in 1 .. m, NEW c \in 0 .. visible - 1, c \notin {s[j] : j \in 1 .. m}
      PROVE  logits[s[i]] >= logits[c]
  <2>1. i \in 1 .. k /\ s[i] \in 0 .. columns - 1 /\ c \in 0 .. columns - 1
    BY <1>0, <1>1, <1>3
  <2>2. v[s[i]] = logits[s[i]] /\ v[c] = logits[c]
    BY <1>2, <1>4, <2>1
  <2>3. CASE c \notin {s[j] : j \in 1 .. k}
    BY <1>3, <2>1, <2>2, <2>3
  \* Otherwise all the visible columns are read.
  <2>4. CASE c \in {s[j] : j \in 1 .. k}
    <3>1. m = visible
      BY <1>1, <1>6, <2>4
    <3>. DEFINE read == {s[j] : j \in 1 .. m}
                row == [j \in 1 .. m |-> s[j]]
    <3>2. read \subseteq 0 .. visible - 1
      BY <1>4
    <3>3. IsFiniteSet(1 .. m) /\ Cardinality(1 .. m) = m
      BY <1>1, FS_Interval
    <3>4. row \in Injection(1 .. m, read) /\ row \in Surjection(1 .. m, read)
      BY <1>5 DEF Injection, Surjection, IsInjective
    <3>5. IsFiniteSet(read) /\ Cardinality(read) = m
      <4>. HIDE DEF row, read
      <4>. QED  BY <3>3, <3>4, FS_Surjection
    <3>6. IsFiniteSet(0 .. visible - 1) /\ Cardinality(0 .. visible - 1) = visible
      BY <1>0, FS_Interval
    <3>7. read = 0 .. visible - 1
      <4>. HIDE DEF read
      <4>. QED  BY <3>1, <3>2, <3>5, <3>6, FS_Subset
    <3>. QED  BY <1>6, <3>7
  <2>. QED  BY <2>3, <2>4
<1>. QED  BY <1>1, <1>4, <1>5, <1>6 DEF k, m

\* What a batch leaves behind: scores to choose from, then a choice.
AttendsInv ==
  /\ stage = "select" => ScoresOK
  /\ AttendsBestBlocks

\* The choice is the best there is, for every batch and whatever torch.topk
\* returns.
LEMMA SelectsBest ==
  ASSUME ScoresOK, SelectBlocks
  PROVE  BestBlocks'
<1>. DEFINE k == Min({BlockTopk, columns})
<1>1. PICK s \in TorchTopk(QsaMaskInvisible, k) :
        blocks' = [i \in 1 .. BlockTopk |-> IF i <= k THEN s[i] ELSE -1]
  BY DEF SelectBlocks, ExactTopk, TorchTopk, Columns
<1>2. logits' = QsaMaskInvisible /\ visible' = visible /\ columns' = columns
  BY DEF SelectBlocks, ExactTopk
<1>3. /\ Reads <= k /\ Reads <= visible /\ Reads \in Nat /\ visible \in Nat /\ columns \in Nat
      /\ \A i \in 1 .. Reads : s[i] \in 0 .. visible - 1
      /\ \A i, j \in 1 .. Reads : s[i] = s[j] => i = j
      /\ \A i \in 1 .. Reads, c \in 0 .. visible - 1 :
           c \notin {s[j] : j \in 1 .. Reads} => logits[s[i]] >= logits[c]
  <2>1. visible \in Nat /\ columns \in Nat
    BY DEF ScoresOK
  <2>. QED  BY <1>1, <2>1, TopkStartsVisible
<1>4. k \in Nat /\ k <= BlockTopk /\ BlockTopk \in Nat
  BY <1>3, TopkAssumption, MinOf
<1>. HIDE DEF k
<1>5. BlocksRead' = {s[i] : i \in 1 .. Reads}
  <2>1. BlocksRead' = {blocks'[i] : i \in 1 .. Reads}
    BY <1>2 DEF BlocksRead, Reads
  <2>2. \A i \in 1 .. Reads : blocks'[i] = s[i]
    BY <1>1, <1>3, <1>4
  <2>. QED  BY <2>1, <2>2
<1>6. Cardinality(BlocksRead') = Reads
  <2>. DEFINE read == {s[j] : j \in 1 .. Reads}
              row == [j \in 1 .. Reads |-> s[j]]
  <2>1. IsFiniteSet(1 .. Reads) /\ Cardinality(1 .. Reads) = Reads
    BY <1>3, FS_Interval
  <2>2. row \in Injection(1 .. Reads, read) /\ row \in Surjection(1 .. Reads, read)
    BY <1>3 DEF Injection, Surjection, IsInjective
  <2>. HIDE DEF row, read
  <2>3. Cardinality(read) = Reads
    BY <2>1, <2>2, FS_Surjection
  <2>. QED  BY <1>5, <2>3 DEF read
<1>7. \A c \in 0 .. visible - 1 : logits'[c] = logits[c]
  <2>. SUFFICES ASSUME NEW c \in 0 .. visible - 1 PROVE logits'[c] = logits[c]
    OBVIOUS
  <2>1. c \in 0 .. columns - 1 /\ ~(c >= visible)
    BY <1>3 DEF ScoresOK
  <2>. QED  BY <1>2, <2>1 DEF QsaMaskInvisible, Columns
<1>8. \A b \in BlocksRead', c \in 0 .. visible - 1 \ BlocksRead' : logits'[b] >= logits'[c]
  BY <1>3, <1>5, <1>7
<1>9. BlocksRead' \subseteq 0 .. visible - 1
  BY <1>3, <1>5
<1>. QED  BY <1>2, <1>6, <1>8, <1>9 DEF BestBlocks, Reads

\* The row attends to its best visible blocks in every batch, whatever the memory the
\* scoring kernel left unwritten holds, whichever of tied blocks torch.topk takes and
\* in whatever order it lists those above the tie.
THEOREM AttendsBest == StepSpec => []AttendsBestBlocks
<1>1. StepInit => AttendsInv
  BY DEF StepInit, AttendsInv, AttendsBestBlocks
<1>2. AttendsInv /\ [StepNext]_stepVars => AttendsInv'
  <2>. SUFFICES ASSUME AttendsInv, [StepNext]_stepVars PROVE AttendsInv'
    OBVIOUS
  <2>. USE DEF AttendsInv, AttendsBestBlocks
  <2>1. CASE Prepare
    BY <2>1 DEF Prepare
  <2>2. CASE Serve
    BY <2>2 DEF Serve
  <2>3. CASE Score
    <3>1. /\ columns' \in 1 .. MaxColumns /\ visible' \in 0 .. columns'
          /\ logits' \in [0 .. columns' - 1 -> Scores] /\ MaxColumns \in Nat
      BY <2>3, TopkAssumption DEF Score, ScoreBlocks
    <3>2. columns' \in Nat \ {0}
      BY <3>1
    <3>3. ScoresOK'
      BY <3>1, <3>2 DEF ScoresOK
    <3>4. stage' = "select"
      BY <2>3 DEF Score
    <3>. QED  BY <3>3, <3>4
  <2>4. CASE Select
    BY <2>4, SelectsBest DEF Select
  <2>5. CASE Draft
    BY <2>5 DEF Draft
  <2>6. CASE UNCHANGED stepVars
    BY <2>6 DEF stepVars, qsaVars, ScoresOK, BestBlocks, BlocksRead
  <2>. QED  BY <2>1, <2>2, <2>3, <2>4, <2>5, <2>6 DEF StepNext
<1>. QED  BY <1>1, <1>2, PTL DEF StepSpec, AttendsInv

----------------------------------------------------------------------------
(* The draft vocabulary, as build_draft_vocab.py chooses it.               *)

\* How the vocabulary grows, id by id.
Grows(k, keep, most, len, ids) ==
  /\ k[0] = keep
  /\ \A i \in 1 .. len : k[i] = IF Cardinality(k[i - 1]) >= most THEN k[i - 1]
                                ELSE k[i - 1] \union {ids[i]}

\* Added passes through such a sequence of vocabularies.
LEMMA AddedSteps ==
  ASSUME NEW keep, NEW most, NEW len \in Nat, NEW ids, DOMAIN ids = 1 .. len
  PROVE  \E k : Grows(k, keep, most, len, ids) /\ Added(keep, most, ids) = k[len]
<1>. DEFINE U == keep \union {ids[i] : i \in 1 .. len}
<1>0. keep \in SUBSET U /\ \A i \in 1 .. len : ids[i] \in U
  OBVIOUS
<1>. HIDE DEF U
<1>. DEFINE F == [p \in (1 .. len) \X SUBSET U |->
                    IF Cardinality(p[2]) >= most THEN p[2] ELSE p[2] \union {ids[p[1]]}]
            G(g) == [s \in SUBSET (1 .. len) |->
                       IF s = {} THEN keep
                       ELSE IF Cardinality(g[s \ {Max(s)}]) >= most THEN g[s \ {Max(s)}]
                            ELSE g[s \ {Max(s)}] \union {ids[Max(s)]}]
            f == CHOOSE g : g = G(g)
<1>1. ASSUME NEW i \in 1 .. len, NEW v \in SUBSET U
      PROVE  /\ F[<<i, v>>] = IF Cardinality(v) >= most THEN v ELSE v \union {ids[i]}
             /\ F[<<i, v>>] \in SUBSET U
  BY <1>0
<1>2. PICK g \in [SUBSET (1 .. len) -> SUBSET U] :
        \A s \in SUBSET (1 .. len) : g[s] = IF s = {} THEN keep ELSE F[<<Max(s), g[s \ {Max(s)}]>>]
  <2>. DEFINE V == SUBSET U
  <2>1. keep \in V /\ \A i \in 1 .. len, v \in V : F[<<i, v>>] \in V
    BY <1>0, <1>1
  <2>. HIDE DEF F, V
  <2>2. \E g \in [SUBSET (1 .. len) -> V] : IsFold(g, len, keep, F)
    BY <2>1, FoldOver
  <2>. QED  BY <2>2 DEF V, IsFold
<1>3. g = G(g)
  <2>1. ASSUME NEW s \in SUBSET (1 .. len) PROVE g[s] = G(g)[s]
    <3>1. CASE s = {}
      BY <1>2, <3>1
    <3>2. CASE s # {}
      <4>1. Max(s) \in 1 .. len
        <5>1. PICK b \in s : \A y \in s : b >= y
          <6>1. s \in SUBSET (0 .. len)
            OBVIOUS
          <6>. QED  BY <3>2, <6>1, Greatest
        <5>. QED  BY <5>1 DEF Max
      <4>2. g[s \ {Max(s)}] \in SUBSET U
        OBVIOUS
      <4>3. g[s] = F[<<Max(s), g[s \ {Max(s)}]>>]
        <5>. HIDE DEF F
        <5>. QED  BY <1>2, <3>2
      <4>. HIDE DEF F
      <4>. QED  BY <1>1, <3>2, <4>1, <4>2, <4>3
    <3>. QED  BY <3>1, <3>2
  <2>. QED  BY <1>2, <2>1
<1>4. f = G(f)
  <2>. HIDE DEF G
  <2>. QED  BY <1>3
<1>. HIDE DEF f
<1>5. f[1 .. 0] = keep
  BY <1>4, Segments
<1>6. ASSUME NEW i \in 1 .. len
      PROVE  f[1 .. i] = IF Cardinality(f[1 .. i - 1]) >= most THEN f[1 .. i - 1]
                         ELSE f[1 .. i - 1] \union {ids[i]}
  <2>1. f[1 .. i] = IF Cardinality(f[(1 .. i) \ {Max(1 .. i)}]) >= most THEN f[(1 .. i) \ {Max(1 .. i)}]
                    ELSE f[(1 .. i) \ {Max(1 .. i)}] \union {ids[Max(1 .. i)]}
    BY <1>4, Segments
  <2>. QED  BY <2>1, Segments
<1>7. Added(keep, most, ids) = f[1 .. len]
  BY DEF Added, FoldLeft, MapThenFoldSet, f
<1>. DEFINE k == [i \in 0 .. len |-> f[1 .. i]]
<1>8. k[0] = keep /\ Added(keep, most, ids) = k[len]
  BY <1>5, <1>7
<1>9. \A i \in 1 .. len : k[i] = IF Cardinality(k[i - 1]) >= most THEN k[i - 1]
                                 ELSE k[i - 1] \union {ids[i]}
  <2>. SUFFICES ASSUME NEW i \in 1 .. len
                PROVE  k[i] = IF Cardinality(k[i - 1]) >= most THEN k[i - 1] ELSE k[i - 1] \union {ids[i]}
    OBVIOUS
  <2>1. i \in 0 .. len /\ i - 1 \in 0 .. len
    OBVIOUS
  <2>2. k[i] = f[1 .. i] /\ k[i - 1] = f[1 .. i - 1]
    BY <2>1
  <2>. HIDE DEF k
  <2>. QED  BY <1>6, <2>2
<1>. HIDE DEF k
<1>. QED  BY <1>8, <1>9 DEF Grows

\* The vocabulary after the first i ids.
With(keep, ids, i) == keep \union {ids[j] : j \in 1 .. i}

\* One id more.
LEMMA WithGrows ==
  ASSUME NEW keep, NEW ids, NEW i \in Nat \ {0}
  PROVE  With(keep, ids, i) = With(keep, ids, i - 1) \union {ids[i]}
<1>1. \A j : j \in 1 .. i <=> j \in 1 .. i - 1 \/ j = i
  OBVIOUS
<1>. QED  BY <1>1 DEF With

\* The vocabulary with the first ids of a sequence.
LEMMA WithIs ==
  ASSUME NEW U, IsFiniteSet(U), NEW keep \in SUBSET U, NEW len \in Nat, NEW ids \in [1 .. len -> U]
  PROVE  /\ With(keep, ids, 0) = keep
         /\ \A i \in 0 .. len : With(keep, ids, i) \in SUBSET U /\ Cardinality(With(keep, ids, i)) \in Nat
                                 /\ IsFiniteSet(With(keep, ids, i))
<1>1. With(keep, ids, 0) = keep
  BY DEF With
<1>2. ASSUME NEW i \in 0 .. len
      PROVE  With(keep, ids, i) \in SUBSET U /\ Cardinality(With(keep, ids, i)) \in Nat /\ IsFiniteSet(With(keep, ids, i))
  <2>1. With(keep, ids, i) \in SUBSET U
    BY DEF With
  <2>. QED  BY <2>1, FS_Subset, FS_CardinalityType
<1>. QED  BY <1>1, <1>2

\* Ids are added from the front, until there are enough.
StopsAt(m, keep, most, len, ids) ==
  /\ m \in 0 .. len
  /\ Cardinality(With(keep, ids, m)) < most => m = len
  /\ \A j \in 0 .. m - 1 : Cardinality(With(keep, ids, j)) < most

\* What Added yields: the first ids that bring the vocabulary to its size, or all.
LEMMA AddedIs ==
  ASSUME NEW U, IsFiniteSet(U), NEW keep \in SUBSET U, NEW most \in Nat,
         NEW len \in Nat, NEW ids \in [1 .. len -> U]
  PROVE  \E m : Added(keep, most, ids) = With(keep, ids, m) /\ StopsAt(m, keep, most, len, ids)
<1>0. PICK k : Grows(k, keep, most, len, ids) /\ Added(keep, most, ids) = k[len]
  <2>1. DOMAIN ids = 1 .. len
    OBVIOUS
  <2>. QED  BY <2>1, AddedSteps
<1>1. /\ k[0] = keep /\ Added(keep, most, ids) = k[len]
      /\ \A i \in 1 .. len : k[i] = IF Cardinality(k[i - 1]) >= most THEN k[i - 1]
                                    ELSE k[i - 1] \union {ids[i]}
  BY <1>0 DEF Grows
<1>. DEFINE K == [i \in 0 .. len |-> With(keep, ids, i)]
            C == [i \in 0 .. len |-> Cardinality(With(keep, ids, i))]
            P(i) == i <= len => \E m \in 0 .. i : /\ k[i] = K[m] /\ (C[m] < most => m = i)
                                                  /\ \A j \in 0 .. m - 1 : C[j] < most
<1>2. /\ With(keep, ids, 0) = keep
      /\ \A i \in 0 .. len : Cardinality(With(keep, ids, i)) \in Nat
      /\ \A i \in 1 .. len : With(keep, ids, i) = With(keep, ids, i - 1) \union {ids[i]}
  <2>1. With(keep, ids, 0) = keep
    BY WithIs
  <2>2. \A i \in 0 .. len : Cardinality(With(keep, ids, i)) \in Nat
    BY WithIs
  <2>3. \A i \in 1 .. len : With(keep, ids, i) = With(keep, ids, i - 1) \union {ids[i]}
    BY WithGrows
  <2>. QED  BY <2>1, <2>2, <2>3
<1>a. K[0] = keep
  BY <1>2
<1>b. \A i \in 0 .. len : C[i] \in Nat /\ C[i] = Cardinality(K[i])
  BY <1>2
<1>c. \A i \in 1 .. len : K[i] = K[i - 1] \union {ids[i]}
  <2>1. \A i \in 1 .. len : i \in 0 .. len /\ i - 1 \in 0 .. len
    OBVIOUS
  <2>. QED  BY <1>2, <2>1
<1>. HIDE DEF K, C
<1>3. P(0)
  <2>. SUFFICES \E m \in 0 .. 0 : /\ k[0] = K[m] /\ (C[m] < most => m = 0)
                                  /\ \A j \in 0 .. m - 1 : C[j] < most
    OBVIOUS
  <2>1. 0 \in 0 .. 0 /\ \A j \in 0 .. 0 - 1 : FALSE
    OBVIOUS
  <2>. QED  BY <1>1, <1>a, <2>1
<1>4. ASSUME NEW i \in Nat, P(i) PROVE P(i + 1)
  <2>. SUFFICES ASSUME i + 1 <= len
                PROVE  \E m \in 0 .. i + 1 : /\ k[i + 1] = K[m] /\ (C[m] < most => m = i + 1)
                                             /\ \A j \in 0 .. m - 1 : C[j] < most
    OBVIOUS
  <2>1. PICK m \in 0 .. i : /\ k[i] = K[m] /\ (C[m] < most => m = i)
                            /\ \A j \in 0 .. m - 1 : C[j] < most
    BY <1>4
  <2>2. i + 1 \in 1 .. len /\ (i + 1) - 1 = i /\ m \in 0 .. len /\ m \in 0 .. i + 1
    OBVIOUS
  <2>3. C[m] = Cardinality(k[i]) /\ C[m] \in Nat
    <3>1. C[m] \in Nat /\ C[m] = Cardinality(K[m])
      BY <1>b, <2>2
    <3>. QED  BY <2>1, <3>1
  <2>4. CASE C[m] >= most
    <3>1. k[i + 1] = k[i]
      BY <1>1, <2>2, <2>3, <2>4
    <3>2. ~(C[m] < most)
      BY <2>3, <2>4
    <3>. QED  BY <2>1, <2>2, <3>1, <3>2
  <2>5. CASE C[m] < most
    <3>1. k[i + 1] = k[i] \union {ids[i + 1]}
      <4>1. ~(C[m] >= most)
        BY <2>3, <2>5
      <4>. QED  BY <1>1, <2>2, <2>3, <4>1
    <3>2. m = i /\ K[i + 1] = K[i] \union {ids[i + 1]}
      BY <1>c, <2>1, <2>2, <2>5
    <3>3. k[i + 1] = K[i + 1]
      BY <2>1, <3>1, <3>2
    <3>4. \A j \in 0 .. (i + 1) - 1 : C[j] < most
      BY <2>1, <2>5, <3>2
    <3>5. i + 1 \in 0 .. i + 1
      OBVIOUS
    <3>. QED  BY <3>3, <3>4, <3>5
  <2>. QED  BY <2>3, <2>4, <2>5
<1>. HIDE DEF P
<1>5. \A m \in Nat : P(m)
  <2>. DEFINE T == {m \in Nat : P(m)}
  <2>1. 0 \in T /\ \A m \in Nat : m \in T => m + 1 \in T
    BY <1>3, <1>4
  <2>. HIDE DEF T
  <2>2. \A m \in Nat : m \in T
    BY <2>1, Counting
  <2>. QED  BY <2>2 DEF T
<1>6. PICK m \in 0 .. len : /\ k[len] = K[m] /\ (C[m] < most => m = len)
                            /\ \A j \in 0 .. m - 1 : C[j] < most
  <2>1. P(len)
    BY <1>5
  <2>. QED  BY <2>1 DEF P
<1>7. K[m] = With(keep, ids, m) /\ C[m] = Cardinality(With(keep, ids, m))
  BY DEF K, C
<1>8. \A j \in 0 .. m - 1 : C[j] = Cardinality(With(keep, ids, j))
  <2>1. \A j \in 0 .. m - 1 : j \in 0 .. len
    OBVIOUS
  <2>. QED  BY <2>1 DEF C
<1>. QED  BY <1>1, <1>6, <1>7, <1>8 DEF StopsAt

\* The numbers of a finite set, in ascending order, are those of the set.
LEMMA AscendingIs ==
  ASSUME NEW S \in SUBSET Int, IsFiniteSet(S)
  PROVE  /\ Cardinality(S) \in Nat /\ Ascending(S) \in [1 .. Cardinality(S) -> S]
         /\ Range(Ascending(S)) = S
<1>. DEFINE below(t) == {u \in S : u < t}
            rank == [t \in S |-> Cardinality(below(t))]
            size == Cardinality(S)
<1>1. size \in Nat
  BY FS_CardinalityType
<1>2. ASSUME NEW t \in S PROVE /\ rank[t] \in 0 .. size - 1 /\ below(t) \in SUBSET S
                               /\ IsFiniteSet(below(t)) /\ Cardinality(below(t)) \in Nat
  <2>1. IsFiniteSet(below(t)) /\ Cardinality(below(t)) <= size /\ (size = Cardinality(below(t)) => S = below(t))
    BY FS_Subset
  <2>a. t \in Int /\ ~(t < t)
    <3>1. \A i \in Int : ~(i < i)
      OBVIOUS
    <3>. QED  BY <3>1
  <2>2. t \notin below(t)
    BY <2>a
  <2>b. Cardinality(below(t)) \in Nat
    <3>. HIDE DEF below
    <3>. QED  BY <2>1, FS_CardinalityType
  <2>3. Cardinality(below(t)) # size
    <3>. HIDE DEF below, size
    <3>. QED  BY <2>1, <2>2
  <2>4. Cardinality(below(t)) \in 0 .. size - 1
    <3>. HIDE DEF below, size
    <3>. QED  BY <1>1, <2>1, <2>b, <2>3
  <2>5. rank[t] = Cardinality(below(t)) /\ below(t) \in SUBSET S
    OBVIOUS
  <2>. QED  BY <2>1, <2>b, <2>4, <2>5
<1>3. ASSUME NEW t \in S, NEW u \in S, t < u PROVE rank[t] # rank[u]
  <2>1. below(t) \in SUBSET below(u) /\ t \in below(u) /\ t \notin below(t)
    <3>1. t \in Int /\ u \in Int /\ ~(t < t) /\ \A v \in Int : v < t => v < u
      BY <1>3
    <3>. QED  BY <1>3, <3>1
  <2>2. Cardinality(below(u)) # Cardinality(below(t))
    <3>1. IsFiniteSet(below(u))
      BY <1>2
    <3>. HIDE DEF below
    <3>. QED  BY <2>1, <3>1, FS_Subset
  <2>. QED  BY <2>2
<1>4. \A t, u \in S : rank[t] = rank[u] => t = u
  <2>. HIDE DEF rank
  <2>. QED  BY <1>3
<1>5. rank \in Injection(S, 0 .. size - 1)
  <2>1. rank \in [S -> 0 .. size - 1]
    BY <1>2
  <2>. HIDE DEF rank, size
  <2>. QED  BY <1>4, <2>1 DEF Injection, IsInjective
<1>6. rank \in Surjection(S, 0 .. size - 1)
  <2>1. IsFiniteSet(0 .. size - 1) /\ Cardinality(0 .. size - 1) = size
    <3>. HIDE DEF size
    <3>1. size - 1 \in Int /\ (size - 1) - 0 + 1 = size /\ (0 > size - 1 => size = 0)
      BY ONLY <1>1
    <3>. QED  BY ONLY <1>1, <3>1, FS_Interval
  <2>. HIDE DEF rank
  <2>. QED  BY <1>5, <2>1, FS_Injection
<1>7. ASSUME NEW i \in 1 .. size
      PROVE  Ascending(S)[i] \in S /\ rank[Ascending(S)[i]] = i - 1
  <2>1. PICK t \in S : rank[t] = i - 1
    <3>1. i - 1 \in 0 .. size - 1
      BY <1>1
    <3>. HIDE DEF rank
    <3>. QED  BY <1>6, <3>1 DEF Surjection
  <2>2. Cardinality({u \in S : u < t}) = i - 1
    BY <2>1
  <2>3. Ascending(S)[i] = CHOOSE v \in S : Cardinality({u \in S : u < v}) = i - 1
    BY DEF Ascending
  <2>4. Ascending(S)[i] \in S /\ Cardinality({u \in S : u < Ascending(S)[i]}) = i - 1
    BY <2>2, <2>3
  <2>. QED  BY <2>4
<1>8. Ascending(S) \in [1 .. size -> S]
  <2>. DEFINE a == [i \in 1 .. size |-> CHOOSE t \in S : Cardinality({u \in S : u < t}) = i - 1]
  <2>1. Ascending(S) = a
    BY DEF Ascending
  <2>2. a \in [1 .. size -> S]
    BY <1>7, <2>1
  <2>. QED  BY <2>1, <2>2
<1>9. ASSUME NEW t \in S PROVE \E i \in 1 .. size : Ascending(S)[i] = t
  <2>1. rank[t] + 1 \in 1 .. size /\ (rank[t] + 1) - 1 = rank[t]
    <3>1. rank[t] \in 0 .. size - 1
      BY <1>2
    <3>. HIDE DEF rank, size
    <3>. QED  BY <1>1, <3>1
  <2>2. rank[Ascending(S)[rank[t] + 1]] = rank[t] /\ Ascending(S)[rank[t] + 1] \in S
    <3>. HIDE DEF rank
    <3>. QED  BY <1>7, <2>1
  <2>3. Ascending(S)[rank[t] + 1] = t
    <3>. HIDE DEF rank
    <3>. QED  BY <1>4, <2>2
  <2>. QED  BY <2>1, <2>3
<1>10. Range(Ascending(S)) = S
  <2>1. DOMAIN Ascending(S) = 1 .. size
    BY <1>8
  <2>. HIDE DEF size
  <2>2. \A t : t \in Range(Ascending(S)) <=> \E i \in 1 .. size : Ascending(S)[i] = t
    BY <2>1 DEF Range
  <2>. QED  BY <1>7, <1>9, <2>2
<1>. QED  BY <1>1, <1>8, <1>10

\* No more are added than were wanted.
LEMMA StopsInTime ==
  ASSUME NEW U, IsFiniteSet(U), NEW keep \in SUBSET U, NEW most \in Nat,
         NEW len \in Nat, NEW ids \in [1 .. len -> U], NEW m, StopsAt(m, keep, most, len, ids), m # 0
  PROVE  Cardinality(With(keep, ids, m)) <= most
<1>1. m \in Nat \ {0} /\ m - 1 \in 0 .. m - 1 /\ m - 1 \in 0 .. len /\ m \in 0 .. len /\ m \in 1 .. len
  BY DEF StopsAt
<1>2. PICK K : K = With(keep, ids, m - 1)
  OBVIOUS
<1>3. With(keep, ids, m) = K \union {ids[m]}
  BY <1>1, <1>2, WithGrows
<1>4. Cardinality(K) < most
  BY <1>1, <1>2 DEF StopsAt
<1>5. \A i \in 0 .. len : IsFiniteSet(With(keep, ids, i)) /\ Cardinality(With(keep, ids, i)) \in Nat
  BY WithIs
<1>6. IsFiniteSet(K) /\ Cardinality(K) \in Nat
  BY <1>1, <1>2, <1>5
<1>7. Cardinality(K \union {ids[m]}) = IF ids[m] \in K THEN Cardinality(K) ELSE Cardinality(K) + 1
  BY <1>6, FS_AddElement
<1>. QED  BY <1>3, <1>4, <1>6, <1>7

\* The tokens seen, the most frequent first.
Ranks(ranking, len, counts) ==
  /\ \A t \in Seen(counts) : \E i \in 1 .. len : ranking[i] = t
  /\ \A i, j \in 1 .. len : i < j => counts[ranking[i]] >= counts[ranking[j]]

\* The sets and sequences the vocabulary is made from.
FromTokens(specials, counts, ranking, U) ==
  /\ Tokens \in Nat /\ IsFiniteSet(U) /\ Cardinality(U) = Tokens
  /\ Always(specials) \in SUBSET U /\ IsFiniteSet(Always(specials))
  /\ InOrder \in [1 .. Tokens -> U] /\ \A t \in U : \E i \in 1 .. Tokens : InOrder[i] = t
  /\ \E len \in Nat : ranking \in [1 .. len -> U] /\ Ranks(ranking, len, counts)

LEMMA Ingredients ==
  ASSUME NEW specials \in Specials, NEW counts \in [0 .. Tokens - 1 -> 0 .. 2],
         NEW ranking \in Rankings(counts), NEW U, U = 0 .. Tokens - 1
  PROVE  FromTokens(specials, counts, ranking, U)
<1>1. Tokens \in Nat /\ Tokens # 0
  BY DraftAssumption
<1>2. IsFiniteSet(U) /\ Cardinality(U) = Tokens
  BY <1>1, FS_Interval
<1>3. Always(specials) \in SUBSET U
  BY DraftAssumption DEF Always
<1>4. IsFiniteSet(Always(specials))
  BY <1>2, <1>3, FS_Subset
<1>5. InOrder \in [1 .. Tokens -> U]
  BY <1>1 DEF InOrder
<1>6. ASSUME NEW t \in U PROVE \E i \in 1 .. Tokens : InOrder[i] = t
  <2>1. t + 1 \in 1 .. Tokens /\ (t + 1) - 1 = t
    BY <1>1
  <2>. QED  BY <2>1 DEF InOrder
<1>7. Seen(counts) \in SUBSET U
  BY DEF Seen
<1>8. IsFiniteSet(Seen(counts)) /\ Cardinality(Seen(counts)) \in Nat
  BY <1>2, <1>7, FS_Subset, FS_CardinalityType
<1>9. PICK len \in Nat : len = Cardinality(Seen(counts))
  BY <1>8
<1>10. /\ ranking \in [1 .. len -> Seen(counts)]
       /\ \A i, j \in 1 .. len : i # j => ranking[i] # ranking[j]
       /\ \A i, j \in 1 .. len : i < j => counts[ranking[i]] >= counts[ranking[j]]
  BY <1>9 DEF Rankings, SetToSeqs
<1>11. ranking \in Surjection(1 .. len, Seen(counts))
  <2>1. IsFiniteSet(1 .. len) /\ Cardinality(1 .. len) = len
    BY FS_Interval
  <2>2. ranking \in Injection(1 .. len, Seen(counts))
    BY <1>10 DEF Injection, IsInjective
  <2>. QED  BY <1>8, <1>9, <2>1, <2>2, FS_Injection
<1>12. \A t \in Seen(counts) : \E i \in 1 .. len : ranking[i] = t
  BY <1>11 DEF Surjection
<1>13. ranking \in [1 .. len -> U]
  BY <1>7, <1>10
<1>. QED  BY <1>1, <1>2, <1>3, <1>4, <1>5, <1>6, <1>10, <1>12, <1>13 DEF Ranks, FromTokens

\* A vocabulary keeps what it must, has the size asked for and leaves out no token
\* more frequent than one it takes.
AsPromised(keep, always, counts, most) ==
  /\ keep \in SUBSET (0 .. Tokens - 1) /\ IsFiniteSet(keep)
  /\ always \subseteq keep
  /\ Cardinality(keep) = Min({Tokens, Max({most, Cardinality(always)})})
  /\ \A t \in keep \ always, u \in Seen(counts) \ keep : counts[t] >= counts[u]

\* The vocabulary that the tool chooses is such a one.
LEMMA VocabularyIs ==
  ASSUME NEW specials \in Specials, NEW counts \in [0 .. Tokens - 1 -> 0 .. 2], NEW most \in Sizes,
         NEW ranking \in Rankings(counts), NEW keep, keep = DraftVocabulary(specials, ranking, most),
         NEW always, always = Always(specials)
  PROVE  AsPromised(keep, always, counts, most)
<1>1. PICK U : U = 0 .. Tokens - 1
  OBVIOUS
<1>2. /\ Tokens \in Nat /\ IsFiniteSet(U) /\ Cardinality(U) = Tokens
      /\ always \in SUBSET U /\ IsFiniteSet(always)
      /\ InOrder \in [1 .. Tokens -> U] /\ \A t \in U : \E i \in 1 .. Tokens : InOrder[i] = t
      /\ \E len \in Nat : ranking \in [1 .. len -> U] /\ Ranks(ranking, len, counts)
  <2>1. FromTokens(specials, counts, ranking, U)
    BY ONLY <1>1, specials \in Specials, counts \in [0 .. Tokens - 1 -> 0 .. 2], ranking \in Rankings(counts), Ingredients
  <2>. QED  BY ONLY <2>1, always = Always(specials) DEF FromTokens
<1>3. PICK len \in Nat : ranking \in [1 .. len -> U] /\ Ranks(ranking, len, counts)
  BY ONLY <1>2
<1>4. most \in Nat
  BY DraftAssumption
<1>5. PICK m : Added(always, most, ranking) = With(always, ranking, m) /\ StopsAt(m, always, most, len, ranking)
  BY <1>2, <1>3, <1>4, AddedIs
<1>a. m \in 0 .. len
  BY <1>5 DEF StopsAt
<1>6. PICK first : first = With(always, ranking, m)
  OBVIOUS
<1>7. /\ first \in SUBSET U /\ Cardinality(first) \in Nat /\ IsFiniteSet(first)
      /\ always \subseteq first
  <2>1. first \in SUBSET U /\ Cardinality(first) \in Nat /\ IsFiniteSet(first)
    BY <1>2, <1>3, <1>6, <1>a, WithIs
  <2>. QED  BY <1>6, <2>1 DEF With
<1>8. PICK l : Added(first, most, InOrder) = With(first, InOrder, l) /\ StopsAt(l, first, most, Tokens, InOrder)
  BY <1>2, <1>4, <1>7, AddedIs
<1>9. keep = With(first, InOrder, l)
  BY <1>5, <1>6, <1>8 DEF DraftVocabulary
<1>b. l \in 0 .. Tokens
  BY <1>8 DEF StopsAt
<1>10. keep \in SUBSET U /\ IsFiniteSet(keep) /\ Cardinality(keep) \in Nat /\ first \subseteq keep
  <2>1. keep \in SUBSET U /\ Cardinality(keep) \in Nat /\ IsFiniteSet(keep)
    <3>1. IsFiniteSet(U) /\ first \in SUBSET U /\ Tokens \in Nat /\ InOrder \in [1 .. Tokens -> U]
      BY <1>2, <1>7
    <3>2. \A i \in 0 .. Tokens : /\ With(first, InOrder, i) \in SUBSET U /\ IsFiniteSet(With(first, InOrder, i))
                                 /\ Cardinality(With(first, InOrder, i)) \in Nat
      BY <3>1, WithIs
    <3>. QED  BY <1>9, <1>b, <3>2
  <2>. QED  BY <1>9, <2>1 DEF With
<1>11. /\ Cardinality(always) \in Nat /\ Cardinality(always) <= Cardinality(keep)
       /\ Cardinality(keep) <= Tokens
  BY <1>2, <1>7, <1>10, FS_Subset, FS_CardinalityType
<1>12. Cardinality(first) <= most \/ first = always
  <2>1. CASE m = 0
    BY <1>2, <1>3, <1>6, <2>1, WithIs
  <2>2. CASE m # 0
    BY <1>2, <1>3, <1>4, <1>5, <1>6, <2>2, StopsInTime
  <2>. QED  BY <2>1, <2>2
<1>13. Cardinality(keep) <= most \/ keep = first
  <2>1. CASE l = 0
    <3>1. With(first, InOrder, 0) = first
      BY DEF With
    <3>. QED  BY <1>9, <2>1, <3>1
  <2>2. CASE l # 0
    BY <1>2, <1>4, <1>7, <1>8, <1>9, <2>2, StopsInTime
  <2>. QED  BY <2>1, <2>2
<1>14. Cardinality(keep) < most => Cardinality(keep) = Tokens
  <2>. SUFFICES ASSUME Cardinality(keep) < most PROVE keep = U
    BY <1>2
  <2>1. l = Tokens
    BY <1>8, <1>9 DEF StopsAt
  <2>. QED  BY <1>2, <1>9, <1>10, <2>1 DEF With
<1>15. Cardinality(keep) = Min({Tokens, Max({most, Cardinality(always)})})
  <2>. DEFINE a == Cardinality(always)
              b == Cardinality(keep)
              top == IF most >= a THEN most ELSE a
  <2>1. Max({most, a}) = top
    BY <1>4, <1>11, MaxOf
  <2>2. top \in Nat
    BY <1>4, <1>11
  <2>3. Min({Tokens, top}) = IF Tokens <= top THEN Tokens ELSE top
    <3>. HIDE DEF top
    <3>. QED  BY <1>2, <2>2, MinOf
  <2>4. b <= most \/ b = a
    BY <1>10, <1>12, <1>13
  <2>5. a \in Nat /\ b \in Nat /\ a <= b /\ b <= Tokens /\ (b < most => b = Tokens)
    BY <1>10, <1>11, <1>14
  <2>6. b = IF Tokens <= top THEN Tokens ELSE top
    <3>. HIDE DEF a, b
    <3>. QED  BY <1>2, <1>4, <2>4, <2>5
  <2>. QED  BY <2>1, <2>3, <2>6
<1>16. ASSUME NEW t \in keep \ always, NEW u \in Seen(counts) \ keep
       PROVE  counts[t] >= counts[u]
  <2>1. PICK j \in 1 .. len : ranking[j] = u
    BY <1>3 DEF Ranks
  <2>2. ~(j \in 1 .. m)
    BY <1>6, <1>10, <2>1 DEF With
  <2>3. m # len /\ m < j
    BY <1>a, <2>2
  <2>4. ~(Cardinality(first) < most)
    BY <1>5, <1>6, <2>3 DEF StopsAt
  <2>5. l = 0
    <3>1. With(first, InOrder, 0) = first
      BY DEF With
    <3>2. l # 0 => 0 \in 0 .. l - 1
      BY <1>b
    <3>. QED  BY <1>8, <2>4, <3>1, <3>2 DEF StopsAt
  <2>6. keep = first
    <3>1. With(first, InOrder, 0) = first
      BY DEF With
    <3>. QED  BY <1>9, <2>5, <3>1
  <2>7. PICK i \in 1 .. m : ranking[i] = t
    BY <1>6, <2>6 DEF With
  <2>8. i \in 1 .. len /\ i < j
    BY <1>a, <2>3
  <2>. QED  BY <1>3, <2>1, <2>7, <2>8 DEF Ranks
<1>. QED  BY <1>1, <1>7, <1>10, <1>15, <1>16 DEF AsPromised

\* A vocabulary that was just built keeps the tool's promise.
LEMMA BuildsByRank ==
  ASSUME BuildDraftVocab
  PROVE  VocabularyByRank'
<1>1. PICK specials \in Specials, counts \in [0 .. Tokens - 1 -> 0 .. 2], most \in Sizes :
        \E ranking \in Rankings(counts) :
          /\ idsFile' = Ascending(DraftVocabulary(specials, ranking, most))
          /\ request' = [specials |-> specials, counts |-> counts, n |-> most]
  BY DEF BuildDraftVocab
<1>2. PICK ranking \in Rankings(counts) :
        /\ idsFile' = Ascending(DraftVocabulary(specials, ranking, most))
        /\ request' = [specials |-> specials, counts |-> counts, n |-> most]
  BY <1>1
<1>3. PICK keep, always : keep = DraftVocabulary(specials, ranking, most) /\ always = Always(specials)
  OBVIOUS
<1>4. /\ keep \in SUBSET (0 .. Tokens - 1) /\ IsFiniteSet(keep)
      /\ always \subseteq keep
      /\ Cardinality(keep) = Min({Tokens, Max({most, Cardinality(always)})})
      /\ \A t \in keep \ always, u \in Seen(counts) \ keep : counts[t] >= counts[u]
  <2>1. AsPromised(keep, always, counts, most)
    BY <1>3, VocabularyIs
  <2>. QED  BY <2>1 DEF AsPromised
<1>5. Range(idsFile') = keep
  <2>1. keep \in SUBSET Int
    BY <1>4
  <2>. QED  BY <1>2, <1>3, <1>4, <2>1, AscendingIs
<1>6. request'.specials = specials /\ request'.counts = counts /\ request'.n = most
  BY <1>2
<1>. QED  BY <1>3, <1>4, <1>5, <1>6 DEF VocabularyByRank

\* build_draft_vocab.py keeps what it promises of its ids: the special tokens and the
\* bytes, as many ids as asked for, and the most frequent of the corpus.
THEOREM VocabularyKept == StepSpec => []VocabularyByRank
<1>1. StepInit => VocabularyByRank
  BY DEF StepInit, DraftInit, VocabularyByRank
<1>2. VocabularyByRank /\ [StepNext]_stepVars => VocabularyByRank'
  <2>. SUFFICES ASSUME VocabularyByRank, [StepNext]_stepVars PROVE VocabularyByRank'
    OBVIOUS
  <2>1. CASE BuildDraftVocab
    BY <2>1, BuildsByRank
  <2>2. CASE QuantizeLmHead
    BY <2>2 DEF QuantizeLmHead, VocabularyByRank
  <2>3. CASE UNCHANGED <<idsFile, request>>
    BY <2>3 DEF VocabularyByRank
  <2>4. CASE Prepare
    BY <2>1, <2>2, <2>4 DEF Prepare
  <2>5. CASE Serve \/ Score \/ Select \/ Draft \/ UNCHANGED stepVars
    BY <2>3, <2>5 DEF Serve, Score, Select, Draft, ComputeLogits, stepVars, draftVars
  <2>. QED  BY <2>4, <2>5 DEF StepNext
<1>. QED  BY <1>1, <1>2, PTL DEF StepSpec

----------------------------------------------------------------------------
(* The ids the private head is built for, and the chunks it is read in.    *)

\* The ids that a sequence keeps, one after another.
Keeps(k, ids, len) ==
  /\ k[0] = << >>
  /\ \A i \in 1 .. len : k[i] = IF 0 <= ids[i] /\ ids[i] < Vocab THEN Append(k[i - 1], ids[i]) ELSE k[i - 1]

\* OfModel passes through such a sequence.
LEMMA OfModelSteps ==
  ASSUME NEW len \in Nat, NEW ids \in [1 .. len -> Int]
  PROVE  \E k : Keeps(k, ids, len) /\ OfModel(ids) = k[len]
<1>. DEFINE V == Seq(Int)
            F == [p \in (1 .. len) \X V |->
                    IF 0 <= ids[p[1]] /\ ids[p[1]] < Vocab THEN Append(p[2], ids[p[1]]) ELSE p[2]]
            G(g) == [s \in SUBSET (1 .. len) |->
                       IF s = {} THEN << >>
                       ELSE IF 0 <= ids[Max(s)] /\ ids[Max(s)] < Vocab
                            THEN Append(g[s \ {Max(s)}], ids[Max(s)]) ELSE g[s \ {Max(s)}]]
            f == CHOOSE g : g = G(g)
<1>0. << >> \in V /\ \A v \in V, t \in Int : Append(v, t) \in V
  OBVIOUS
<1>. HIDE DEF V
<1>1. ASSUME NEW i \in 1 .. len, NEW v \in V
      PROVE  /\ F[<<i, v>>] = IF 0 <= ids[i] /\ ids[i] < Vocab THEN Append(v, ids[i]) ELSE v
             /\ F[<<i, v>>] \in V
  BY <1>0
<1>2. PICK g \in [SUBSET (1 .. len) -> V] :
        \A s \in SUBSET (1 .. len) : g[s] = IF s = {} THEN << >> ELSE F[<<Max(s), g[s \ {Max(s)}]>>]
  <2>1. << >> \in V /\ \A i \in 1 .. len, v \in V : F[<<i, v>>] \in V
    BY <1>0, <1>1
  <2>. HIDE DEF F
  <2>2. \E g \in [SUBSET (1 .. len) -> V] : IsFold(g, len, << >>, F)
    BY <2>1, FoldOver
  <2>. QED  BY <2>2 DEF IsFold
<1>3. g = G(g)
  <2>1. ASSUME NEW s \in SUBSET (1 .. len) PROVE g[s] = G(g)[s]
    <3>1. CASE s = {}
      BY <1>2, <3>1
    <3>2. CASE s # {}
      <4>1. Max(s) \in 1 .. len
        <5>1. PICK b \in s : \A y \in s : b >= y
          <6>1. s \in SUBSET (0 .. len)
            OBVIOUS
          <6>. QED  BY <3>2, <6>1, Greatest
        <5>. QED  BY <5>1 DEF Max
      <4>2. g[s \ {Max(s)}] \in V
        OBVIOUS
      <4>3. g[s] = F[<<Max(s), g[s \ {Max(s)}]>>]
        <5>. HIDE DEF F
        <5>. QED  BY <1>2, <3>2
      <4>. HIDE DEF F
      <4>. QED  BY <1>1, <3>2, <4>1, <4>2, <4>3
    <3>. QED  BY <3>1, <3>2
  <2>. QED  BY <1>2, <2>1
<1>4. f = G(f)
  <2>. HIDE DEF G
  <2>. QED  BY <1>3
<1>. HIDE DEF f
<1>5. f[1 .. 0] = << >>
  BY <1>4, Segments
<1>6. ASSUME NEW i \in 1 .. len
      PROVE  f[1 .. i] = IF 0 <= ids[i] /\ ids[i] < Vocab THEN Append(f[1 .. i - 1], ids[i]) ELSE f[1 .. i - 1]
  <2>1. f[1 .. i] = IF 0 <= ids[Max(1 .. i)] /\ ids[Max(1 .. i)] < Vocab
                    THEN Append(f[(1 .. i) \ {Max(1 .. i)}], ids[Max(1 .. i)])
                    ELSE f[(1 .. i) \ {Max(1 .. i)}]
    BY <1>4, Segments
  <2>. QED  BY <2>1, Segments
<1>7. OfModel(ids) = f[1 .. len]
  BY DEF OfModel, FoldLeft, MapThenFoldSet, f
<1>. DEFINE k == [i \in 0 .. len |-> f[1 .. i]]
<1>8. k[0] = << >> /\ OfModel(ids) = k[len]
  BY <1>5, <1>7
<1>9. \A i \in 1 .. len : k[i] = IF 0 <= ids[i] /\ ids[i] < Vocab THEN Append(k[i - 1], ids[i]) ELSE k[i - 1]
  <2>. SUFFICES ASSUME NEW i \in 1 .. len
                PROVE  k[i] = IF 0 <= ids[i] /\ ids[i] < Vocab THEN Append(k[i - 1], ids[i]) ELSE k[i - 1]
    OBVIOUS
  <2>1. i \in 0 .. len /\ i - 1 \in 0 .. len
    OBVIOUS
  <2>2. k[i] = f[1 .. i] /\ k[i - 1] = f[1 .. i - 1]
    BY <2>1
  <2>. HIDE DEF k
  <2>. QED  BY <1>6, <2>2
<1>. HIDE DEF k
<1>. QED  BY <1>8, <1>9 DEF Keeps

\* Of a sequence of ids, those the model has.
LEMMA OfModelIs ==
  ASSUME NEW len \in Nat, NEW ids \in [1 .. len -> Int]
  PROVE  /\ OfModel(ids) \in Seq(0 .. Vocab - 1)
         /\ Range(OfModel(ids)) = {t \in 0 .. Vocab - 1 : \E i \in 1 .. len : t = ids[i]}
<1>1. PICK k : Keeps(k, ids, len) /\ OfModel(ids) = k[len]
  BY OfModelSteps
<1>2. Vocab \in Nat
  BY DraftAssumption
<1>. DEFINE W == 0 .. Vocab - 1
            P(i) == i <= len => k[i] \in Seq(W) /\ Range(k[i]) = {t \in W : \E j \in 1 .. i : t = ids[j]}
<1>3. P(0)
  <2>1. k[0] = << >>
    BY <1>1 DEF Keeps
  <2>2. k[0] \in Seq(W) /\ Range(k[0]) = {}
    BY <2>1 DEF Range
  <2>3. {t \in W : \E j \in 1 .. 0 : t = ids[j]} = {}
    OBVIOUS
  <2>. QED  BY <2>2, <2>3
<1>4. ASSUME NEW i \in Nat, P(i) PROVE P(i + 1)
  <2>. SUFFICES ASSUME i + 1 <= len
                PROVE  /\ k[i + 1] \in Seq(W)
                       /\ Range(k[i + 1]) = {t \in W : \E j \in 1 .. i + 1 : t = ids[j]}
    OBVIOUS
  <2>1. i + 1 \in 1 .. len /\ (i + 1) - 1 = i /\ ids[i + 1] \in Int
    OBVIOUS
  <2>2. k[i + 1] = IF 0 <= ids[i + 1] /\ ids[i + 1] < Vocab THEN Append(k[i], ids[i + 1]) ELSE k[i]
    BY <1>1, <2>1 DEF Keeps
  <2>3. k[i] \in Seq(W) /\ Range(k[i]) = {t \in W : \E j \in 1 .. i : t = ids[j]}
    BY <1>4, <2>1
  <2>4. \A j : j \in 1 .. i + 1 <=> j \in 1 .. i \/ j = i + 1
    OBVIOUS
  <2>5. CASE ids[i + 1] \in W
    <3>1. k[i + 1] = Append(k[i], ids[i + 1])
      BY <1>2, <2>1, <2>2, <2>5
    <3>2. k[i + 1] \in Seq(W)
      BY <2>3, <2>5, <3>1
    <3>3. Range(k[i + 1]) = Range(k[i]) \union {ids[i + 1]}
      <4>1. PICK s \in Seq(W) : s = k[i]
        BY <2>3
      <4>2. PICK x \in W : x = ids[i + 1]
        BY <2>5
      <4>3. Range(Append(s, x)) = Range(s) \union {x}
        <5>. HIDE DEF W
        <5>. QED  BY RangeAppend
      <4>. QED  BY <3>1, <4>1, <4>2, <4>3
    <3>4. {t \in W : \E j \in 1 .. i + 1 : t = ids[j]} = {t \in W : \E j \in 1 .. i : t = ids[j]} \union {ids[i + 1]}
      BY <2>4, <2>5
    <3>. QED  BY <2>3, <3>2, <3>3, <3>4
  <2>6. CASE ids[i + 1] \notin W
    <3>1. k[i + 1] = k[i]
      BY <1>2, <2>1, <2>2, <2>6
    <3>2. {t \in W : \E j \in 1 .. i + 1 : t = ids[j]} = {t \in W : \E j \in 1 .. i : t = ids[j]}
      BY <2>4, <2>6
    <3>. QED  BY <2>3, <3>1, <3>2
  <2>. QED  BY <2>5, <2>6
<1>. HIDE DEF P
<1>5. \A m \in Nat : P(m)
  <2>. DEFINE T == {m \in Nat : P(m)}
  <2>1. 0 \in T /\ \A m \in Nat : m \in T => m + 1 \in T
    BY <1>3, <1>4
  <2>. HIDE DEF T
  <2>2. \A m \in Nat : m \in T
    BY <2>1, Counting
  <2>. QED  BY <2>2 DEF T
<1>6. P(len)
  BY <1>5
<1>. QED  BY <1>1, <1>6 DEF P

\* Padding repeats the last id, so that the ids stay what they are.
LEMMA PaddedIs ==
  ASSUME NEW s \in Seq(0 .. Vocab - 1), s # << >>
  PROVE  /\ Padded(s) \in Seq(0 .. Vocab - 1) /\ Padded(s) # << >>
         /\ Range(Padded(s)) = Range(s)
         /\ int4 => Len(Padded(s)) % Align = 0
<1>. DEFINE W == 0 .. Vocab - 1
<1>1. Align \in Nat \ {0}
  BY DraftAssumption
<1>2. CASE ~(int4 /\ Len(s) % Align # 0)
  BY <1>2 DEF Padded
<1>3. CASE int4 /\ Len(s) % Align # 0
  <2>1. PICK len \in Nat : len = Len(s)
    OBVIOUS
  <2>2. len = (len \div Align) * Align + (len % Align) /\ len % Align \in 0 .. Align - 1 /\ len \div Align \in Int
    <3>. HIDE DEF W
    <3>1. len \in Int
      OBVIOUS
    <3>. QED  BY <1>1
  <2>3. PICK r \in 1 .. Align - 1, q \in Int : r = len % Align /\ q = len \div Align
    BY <1>1, <1>3, <2>1, <2>2
  <2>4. PICK p \in 1 .. Align - 1 : p = Align - r
    BY <1>1
  <2>. DEFINE t == [i \in 1 .. p |-> Last(s)]
  <2>5. len \in 1 .. len /\ s[len] \in W /\ Last(s) = s[len] /\ DOMAIN s = 1 .. len
    <3>1. len # 0 /\ DOMAIN s = 1 .. len
      BY <2>1
    <3>2. len \in 1 .. len
      BY <3>1
    <3>3. s[len] \in W
      <4>. HIDE DEF W
      <4>1. s \in Seq(W)
        BY DEF W
      <4>. QED  BY <2>1, <3>2, <4>1
    <3>. QED  BY <2>1, <3>1, <3>2, <3>3 DEF Last
  <2>6. t \in Seq(W) /\ Len(t) = p /\ Range(t) = {s[len]}
    <3>1. t \in [1 .. p -> W] /\ p \in Nat
      BY <2>5
    <3>2. 1 \in 1 .. p
      OBVIOUS
    <3>3. Range(t) = {s[len]}
      BY <2>5, <3>2 DEF Range
    <3>. QED  BY <3>1, <3>3
  <2>7. Padded(s) = s \o t
    BY <1>3, <2>1, <2>3, <2>4 DEF Padded
  <2>. HIDE DEF t, W
  <2>8. s \o t \in Seq(W) /\ Len(s \o t) = len + p /\ Range(s \o t) = Range(s) \union {s[len]}
    <3>1. s \in Seq(W)
      BY DEF W
    <3>2. s \o t \in Seq(W) /\ Len(s \o t) = len + p
      BY <2>1, <2>6, <3>1, ConcatProperties
    <3>3. Range(s \o t) = Range(s) \union Range(t)
      BY <2>6, <3>1, RangeConcatenation
    <3>. QED  BY <2>6, <3>2, <3>3
  <2>9. s[len] \in Range(s)
    BY <2>5 DEF Range
  <2>10. (len + p) % Align = 0
    <3>1. len + p = (q + 1) * Align
      <4>1. (q + 1) * Align = q * Align + Align
        BY <1>1
      <4>. QED  BY <1>1, <2>2, <2>3, <2>4, <4>1
    <3>2. q + 1 \in Int
      OBVIOUS
    <3>. QED  BY <1>1, <3>1, <3>2, Multiple
  <2>11. s \o t # << >>
    BY <2>1, <2>5, <2>8
  <2>. QED  BY <2>7, <2>8, <2>9, <2>10, <2>11 DEF W
<1>. QED  BY <1>2, <1>3

\* Where a chunk starts and stops.
Start(i) == (i - 1) * Chunk

Stop(i, len) == IF i * Chunk <= len THEN i * Chunk ELSE len

\* A sequence is read in num chunks.
Chunked(sel, len, num) ==
  /\ num \in Nat \ {0} /\ len <= num * Chunk
  /\ DOMAIN Chunks(sel) = 1 .. num /\ Len(Chunks(sel)) = num
  /\ \A i \in 1 .. num :
       /\ Start(i) \in Nat /\ Stop(i, len) \in Nat
       /\ Start(i) < len /\ Start(i) < Stop(i, len) /\ Stop(i, len) <= len
       /\ Chunks(sel)[i] = SubSeq(sel, Start(i) + 1, Stop(i, len))

\* Where the chunks start and end.
LEMMA ChunksAre ==
  ASSUME NEW len \in Nat \ {0}, NEW sel \in Seq(Int), Len(sel) = len
  PROVE  \E num : Chunked(sel, len, num)
<1>1. Chunk \in Nat \ {0}
  BY DraftAssumption
<1>2. PICK num \in Int, r \in 0 .. Chunk - 1 : num = (len + Chunk - 1) \div Chunk /\ len + Chunk - 1 = num * Chunk + r
  <2>1. len + Chunk - 1 \in Int
    BY <1>1
  <2>2. PICK a \in Int : a = len + Chunk - 1
    BY <2>1
  <2>3. a = (a \div Chunk) * Chunk + (a % Chunk) /\ a % Chunk \in 0 .. Chunk - 1 /\ a \div Chunk \in Int
    BY <1>1, DivMod
  <2>. QED  BY <2>2, <2>3
<1>3. num \in Nat \ {0} /\ len <= num * Chunk
  <2>1. len <= num * Chunk /\ num * Chunk \in Int
    BY <1>1, <1>2
  <2>2. ~(num <= 0)
    <3>1. num <= 0 => num * Chunk <= 0
      BY <1>1
    <3>. QED  BY <2>1, <3>1
  <2>. QED  BY <2>1, <2>2
<1>4. Chunks(sel) = [i \in 1 .. num |-> ChunkOf(sel, i - 1)]
  BY <1>2 DEF Chunks
<1>5. ASSUME NEW i \in 1 .. num
      PROVE  /\ Start(i) \in Nat /\ Stop(i, len) \in Nat
             /\ Start(i) < len /\ Start(i) < Stop(i, len) /\ Stop(i, len) <= len
             /\ Chunks(sel)[i] = SubSeq(sel, Start(i) + 1, Stop(i, len))
  <2>1. PICK from \in Nat : from = Start(i) /\ from = (i - 1) * Chunk /\ i * Chunk = from + Chunk
    <3>1. (i - 1) * Chunk \in Nat /\ i * Chunk = (i - 1) * Chunk + Chunk
      BY <1>1
    <3>. QED  BY <3>1 DEF Start
  <2>2. i * Chunk <= num * Chunk /\ num * Chunk \in Nat
    BY <1>1
  <2>3. from < len
    BY <1>1, <1>2, <2>1, <2>2
  <2>4. Stop(i, len) \in Nat /\ from < Stop(i, len) /\ Stop(i, len) <= len
    BY <1>1, <2>1, <2>3 DEF Stop
  <2>5. Chunks(sel)[i] = SubSeq(sel, from + 1, Min({((i - 1) + 1) * Chunk, len}))
    BY <1>4, <2>1 DEF ChunkOf
  <2>6. Min({((i - 1) + 1) * Chunk, len}) = Stop(i, len)
    <3>1. (i - 1) + 1 = i /\ i * Chunk \in Int
      BY <1>1
    <3>. QED  BY <3>1, MinOf DEF Stop
  <2>. QED  BY <2>1, <2>3, <2>4, <2>5, <2>6
<1>6. Len(Chunks(sel)) = num /\ DOMAIN Chunks(sel) = 1 .. num
  BY <1>3, <1>4
<1>. QED  BY <1>3, <1>5, <1>6 DEF Chunked

\* The chunks of aligned rows are aligned.
LEMMA ChunksAligned ==
  ASSUME NEW len \in Nat \ {0}, NEW sel \in Seq(Int), Len(sel) = len, len % Align = 0
  PROVE  \A i \in DOMAIN Chunks(sel) : Len(Chunks(sel)[i]) % Align = 0
<1>1. Chunk \in Nat \ {0} /\ Align \in Nat \ {0} /\ Chunk % Align = 0
  BY DraftAssumption
<1>2. PICK c \in Int, l \in Int : Chunk = c * Align /\ len = l * Align
  <2>1. Chunk = (Chunk \div Align) * Align + 0 /\ Chunk \div Align \in Int
    BY <1>1, DivMod
  <2>2. len = (len \div Align) * Align + 0 /\ len \div Align \in Int
    BY <1>1, DivMod
  <2>3. \A q \in Int : q * Align + 0 = q * Align
    BY <1>1
  <2>. QED  BY <2>1, <2>2, <2>3
<1>. SUFFICES ASSUME NEW i \in DOMAIN Chunks(sel) PROVE Len(Chunks(sel)[i]) % Align = 0
  OBVIOUS
<1>3. PICK num : Chunked(sel, len, num)
  <2>1. len \in Nat \ {0} /\ sel \in Seq(Int) /\ Len(sel) = len
    OBVIOUS
  <2>. QED  BY <2>1, ChunksAre
<1>4. PICK from \in Nat, to \in Nat :
        /\ from = Start(i) /\ from = (i - 1) * Chunk /\ to = Stop(i, len) /\ from < len /\ from < to /\ to <= len
        /\ Chunks(sel)[i] = SubSeq(sel, from + 1, to) /\ i \in Nat
  <2>1. i \in 1 .. num /\ num \in Nat
    BY <1>3 DEF Chunked
  <2>2. /\ Start(i) \in Nat /\ Stop(i, len) \in Nat
        /\ Start(i) < len /\ Start(i) < Stop(i, len) /\ Stop(i, len) <= len
        /\ Chunks(sel)[i] = SubSeq(sel, Start(i) + 1, Stop(i, len))
    BY <1>3, <2>1 DEF Chunked
  <2>3. Start(i) = (i - 1) * Chunk
    BY DEF Start
  <2>4. PICK from \in Nat, to \in Nat : from = Start(i) /\ to = Stop(i, len)
    BY <2>2
  <2>5. /\ from < len /\ from < to /\ to <= len /\ from = (i - 1) * Chunk /\ i \in Nat
        /\ Chunks(sel)[i] = SubSeq(sel, from + 1, to)
    BY <2>1, <2>2, <2>3, <2>4
  <2>. QED  BY <2>4, <2>5
<1>5. Len(Chunks(sel)[i]) = to - from
  <2>1. sel \in Seq(Int) /\ Len(sel) = len
    OBVIOUS
  <2>2. from < to /\ to <= len /\ Chunks(sel)[i] = SubSeq(sel, from + 1, to)
    BY ONLY <1>4
  <2>3. to - (from + 1) + 1 = to - from /\ from + 1 \in 1 .. len /\ to \in from + 1 .. len
    BY ONLY <2>2, from \in Nat, to \in Nat, len \in Nat
  <2>4. Len(SubSeq(sel, from + 1, to)) = to - (from + 1) + 1
    BY ONLY <2>1, <2>3
  <2>. QED  BY ONLY <2>2, <2>3, <2>4
<1>6. \E q \in Int : to - from = q * Align
  <2>1. CASE i * Chunk <= len
    <3>1. to = i * Chunk
      BY <1>4, <2>1 DEF Stop
    <3>2. i * Chunk = (i - 1) * Chunk + Chunk
      BY <1>1, <1>4
    <3>3. to - from = Chunk
      BY <1>1, <1>4, <3>1, <3>2
    <3>. QED  BY <1>2, <3>3
  <2>2. CASE ~(i * Chunk <= len)
    <3>1. (i - 1) * Chunk = ((i - 1) * c) * Align
      BY <1>1, <1>2, <1>4
    <3>2. l * Align - ((i - 1) * c) * Align = (l - (i - 1) * c) * Align
      BY <1>1, <1>2, <1>4
    <3>3. to = len
      BY <1>4, <2>2 DEF Stop
    <3>4. to - from = (l - (i - 1) * c) * Align
      BY <1>2, <1>4, <3>1, <3>2, <3>3
    <3>5. l - (i - 1) * c \in Int
      BY <1>2, <1>4
    <3>. QED  BY <3>4, <3>5
  <2>. QED  BY <2>1, <2>2
<1>7. PICK q \in Int : to - from = q * Align
  BY <1>6
<1>8. (q * Align) % Align = 0
  BY <1>1, Multiple
<1>. QED  BY <1>5, <1>7, <1>8

\* The chunks put together are the rows again.
LEMMA ChunksFlat ==
  ASSUME NEW len \in Nat \ {0}, NEW sel \in Seq(Int), Len(sel) = len
  PROVE  FlattenSeq(Chunks(sel)) = sel
<1>1. Chunk \in Nat \ {0}
  BY DraftAssumption
<1>2. PICK num : Chunked(sel, len, num)
  BY ChunksAre
<1>20. /\ num \in Nat \ {0} /\ len <= num * Chunk /\ Len(Chunks(sel)) = num
       /\ \A i \in 1 .. num :
            /\ Start(i) \in Nat /\ Stop(i, len) \in Nat
            /\ Start(i) < len /\ Start(i) < Stop(i, len) /\ Stop(i, len) <= len
            /\ Chunks(sel)[i] = SubSeq(sel, Start(i) + 1, Stop(i, len))
  BY <1>2 DEF Chunked
<1>3. PICK k : k = [i \in 1 .. num |-> SubSeq(sel, 1, Stop(i, len))]
  OBVIOUS
<1>4. k[1] = Chunks(sel)[1]
  <2>1. 1 \in 1 .. num /\ Start(1) + 1 = 1
    BY <1>1, <1>20 DEF Start
  <2>. QED  BY <1>20, <1>3, <2>1
<1>5. ASSUME NEW i \in 2 .. num PROVE k[i] = k[i - 1] \o Chunks(sel)[i]
  <2>1. i \in 1 .. num /\ i - 1 \in 1 .. num
    BY <1>20
  <2>2. /\ Start(i) \in Nat /\ Stop(i, len) \in Nat
        /\ Start(i) < len /\ Start(i) < Stop(i, len) /\ Stop(i, len) <= len
        /\ Chunks(sel)[i] = SubSeq(sel, Start(i) + 1, Stop(i, len))
    BY <1>20, <2>1
  <2>3. Stop(i - 1, len) = Start(i)
    BY <2>2 DEF Start, Stop
  <2>4. k[i] = SubSeq(sel, 1, Stop(i, len)) /\ k[i - 1] = SubSeq(sel, 1, Stop(i - 1, len))
    BY <1>3, <2>1
  <2>5. Start(i) <= Stop(i, len)
    BY <2>2
  <2>6. SubSeq(sel, 1, Stop(i, len)) = SubSeq(sel, 1, Start(i)) \o SubSeq(sel, Start(i) + 1, Stop(i, len))
    BY <2>2, <2>5, Joined
  <2>. QED  BY <2>2, <2>3, <2>4, <2>6
<1>6. FlattenSeq(Chunks(sel)) = k[num]
  <2>1. \A i \in 2 .. num : k[i] = k[i - 1] \o Chunks(sel)[i]
    BY <1>5
  <2>2. FlattensTo(Chunks(sel), k, num)
    BY <1>20, <1>4, <2>1, Flattening
  <2>. QED  BY <2>2 DEF FlattensTo
<1>7. k[num] = sel
  <2>1. num \in 1 .. num
    BY <1>20
  <2>2. Stop(num, len) = len
    <3>1. num * Chunk \in Nat
      BY <1>1, <1>20
    <3>. QED  BY <1>20, <3>1 DEF Stop
  <2>3. SubSeq(sel, 1, len) = sel
    OBVIOUS
  <2>. QED  BY <1>3, <2>1, <2>2, <2>3
<1>. QED  BY <1>6, <1>7

\* The ids are those of a sequence, id 0 among them.
HasIds(ids) == \E len \in Nat : ids \in [1 .. len -> Int] /\ \E i \in 1 .. len : ids[i] = 0

\* What the environment names as the draft vocabulary.
IdsOK == idsFile = NoFile \/ HasIds(idsFile)

\* The rows of the private head, with a vocabulary and without.
LEMMA SelectedIs ==
  ASSUME IdsOK
  PROVE  /\ Selected \in Seq(0 .. OutRows - 1) /\ Selected # << >>
         /\ int4 => Len(Selected) % Align = 0
         /\ idsFile # NoFile => Range(Selected) = {t \in 0 .. Vocab - 1 : t \in Range(idsFile)}
<1>1. OutRows \in Nat /\ Vocab \in Nat /\ Vocab # 0 /\ OutRows # 0 /\ Vocab <= OutRows /\ OutRows % Align = 0
  BY DraftAssumption
<1>2. CASE idsFile = NoFile
  <2>. DEFINE all == [i \in 1 .. OutRows |-> i - 1]
  <2>1. Selected = all
    BY <1>2 DEF Selected
  <2>2. all \in [1 .. OutRows -> 0 .. OutRows - 1]
    BY <1>1
  <2>3. all \in Seq(0 .. OutRows - 1) /\ Len(all) = OutRows /\ DOMAIN all = 1 .. OutRows
    BY <1>1, <2>2
  <2>4. 1 \in DOMAIN all
    BY <1>1, <2>3
  <2>. HIDE DEF all
  <2>5. all # << >>
    BY <2>4
  <2>. QED  BY <1>1, <1>2, <2>1, <2>3, <2>5
<1>3. CASE idsFile # NoFile
  <2>1. PICK len \in Nat : idsFile \in [1 .. len -> Int] /\ \E i \in 1 .. len : idsFile[i] = 0
    BY <1>3 DEF IdsOK, HasIds
  <2>2. PICK s : s = OfModel(idsFile)
    OBVIOUS
  <2>3. s \in Seq(0 .. Vocab - 1) /\ Range(s) = {t \in 0 .. Vocab - 1 : \E i \in 1 .. len : t = idsFile[i]}
    BY <2>1, <2>2, OfModelIs
  <2>4. Range(idsFile) = {idsFile[i] : i \in 1 .. len}
    BY <2>1 DEF Range
  <2>5. Range(s) = {t \in 0 .. Vocab - 1 : t \in Range(idsFile)}
    BY <2>3, <2>4
  <2>6. s # << >>
    <3>1. 0 \in Range(s)
      BY <1>1, <2>1, <2>3
    <3>2. Range(<< >>) = {}
      BY DEF Range
    <3>. QED  BY <3>1, <3>2
  <2>7. Selected = Padded(s)
    BY <1>3, <2>2 DEF Selected, DraftIds
  <2>8. /\ Padded(s) \in Seq(0 .. Vocab - 1) /\ Padded(s) # << >> /\ Range(Padded(s)) = Range(s)
        /\ int4 => Len(Padded(s)) % Align = 0
    BY <2>3, <2>6, PaddedIs
  <2>9. Padded(s) \in Seq(0 .. OutRows - 1)
    <3>1. \A t \in 0 .. Vocab - 1 : t \in 0 .. OutRows - 1
      BY <1>1
    <3>2. PICK W, V : W = 0 .. Vocab - 1 /\ V = 0 .. OutRows - 1
      OBVIOUS
    <3>3. \A t \in W : t \in V
      BY <3>1, <3>2
    <3>4. Padded(s) \in Seq(W)
      BY <2>8, <3>2
    <3>5. Padded(s) \in Seq(V)
      BY <3>3, <3>4
    <3>. QED  BY <3>2, <3>5
  <2>. QED  BY <2>5, <2>7, <2>8, <2>9
<1>. QED  BY <1>2, <1>3

\* Whatever the vocabulary, the private head can be built.
LEMMA SelectedBuilds ==
  ASSUME IdsOK
  PROVE  Buildable(Selected)
<1>1. PICK sel : sel = Selected
  OBVIOUS
<1>2. sel \in Seq(0 .. OutRows - 1) /\ sel # << >> /\ (int4 => Len(sel) % Align = 0)
  BY <1>1, SelectedIs
<1>3. PICK len \in Nat : len = Len(sel)
  BY <1>2
<1>4. len # 0
  BY <1>2, <1>3
<1>5. sel \in Seq(Int)
  <2>1. PICK W : W = 0 .. OutRows - 1
    OBVIOUS
  <2>2. \A t \in W : t \in Int
    BY <2>1
  <2>3. sel \in Seq(W)
    BY <1>2, <2>1
  <2>. QED  BY <2>2, <2>3
<1>6. int4 => \A i \in DOMAIN Chunks(sel) : Len(Chunks(sel)[i]) % Align = 0
  <2>. SUFFICES ASSUME int4 PROVE \A i \in DOMAIN Chunks(sel) : Len(Chunks(sel)[i]) % Align = 0
    OBVIOUS
  <2>1. len \in Nat \ {0} /\ Len(sel) = len /\ len % Align = 0
    BY <1>2, <1>3, <1>4
  <2>. QED  BY <1>5, <2>1, ChunksAligned
<1>. QED  BY <1>1, <1>2, <1>6 DEF Buildable

\* What the tool writes has id 0, one of the bytes, in it.
LEMMA BuildsIds ==
  ASSUME BuildDraftVocab
  PROVE  HasIds(idsFile')
<1>1. PICK specials \in Specials, counts \in [0 .. Tokens - 1 -> 0 .. 2], most \in Sizes :
        \E ranking \in Rankings(counts) : idsFile' = Ascending(DraftVocabulary(specials, ranking, most))
  BY DEF BuildDraftVocab
<1>2. PICK ranking \in Rankings(counts) : idsFile' = Ascending(DraftVocabulary(specials, ranking, most))
  BY <1>1
<1>3. PICK keep, always : keep = DraftVocabulary(specials, ranking, most) /\ always = Always(specials)
  OBVIOUS
<1>4. keep \in SUBSET (0 .. Tokens - 1) /\ IsFiniteSet(keep) /\ always \subseteq keep
  <2>1. AsPromised(keep, always, counts, most)
    BY <1>3, VocabularyIs
  <2>. QED  BY <2>1 DEF AsPromised
<1>5. 0 \in keep
  <2>1. 0 \in always
    BY <1>3, DraftAssumption DEF Always
  <2>. QED  BY <1>4, <2>1
<1>6. PICK len \in Nat : idsFile' \in [1 .. len -> keep] /\ Range(idsFile') = keep
  <2>1. keep \in SUBSET Int
    BY <1>4
  <2>. QED  BY <1>2, <1>3, <1>4, <2>1, AscendingIs
<1>7. \E i \in 1 .. len : idsFile'[i] = 0
  BY <1>5, <1>6 DEF Range
<1>8. idsFile' \in [1 .. len -> Int]
  <2>1. \A t \in keep : t \in Int
    BY <1>4
  <2>. QED  BY <1>6, <2>1
<1>. QED  BY <1>7, <1>8 DEF HasIds

----------------------------------------------------------------------------
(* Words and bytes: what is packed is read back.                           *)

\* The powers of two that a word has room for.
LEMMA Pow2Is ==
  /\ WordBits \in Nat /\ Pow2[0] = 1
  /\ \A i \in 0 .. WordBits : Pow2[i] \in Nat \ {0}
  /\ \A i \in 1 .. WordBits : Pow2[i] = 2 * Pow2[i - 1]
<1>. DEFINE G(f) == [i \in 0 .. WordBits |-> IF i = 0 THEN 1 ELSE 2 * f[i - 1]]
            F == [p \in (1 .. WordBits) \X Nat |-> 2 * p[2]]
<1>1. WordBits \in Nat
  BY GptqAssumption
<1>2. ASSUME NEW i \in 1 .. WordBits, NEW v \in Nat PROVE F[<<i, v>>] = 2 * v /\ F[<<i, v>>] \in Nat
  OBVIOUS
<1>3. PICK k \in [0 .. WordBits -> Nat] : k[0] = 1 /\ \A i \in 1 .. WordBits : k[i] = F[<<i, k[i - 1]>>]
  <2>. HIDE DEF F
  <2>1. 1 \in Nat /\ \A i \in 1 .. WordBits, v \in Nat : F[<<i, v>>] \in Nat
    BY <1>2
  <2>2. \E k \in [0 .. WordBits -> Nat] : Iterates(k, WordBits, 1, F)
    BY <1>1, <2>1, Iteration
  <2>. QED  BY <2>2 DEF Iterates
<1>4. \A i \in 1 .. WordBits : k[i] = 2 * k[i - 1]
  <2>. SUFFICES ASSUME NEW i \in 1 .. WordBits PROVE k[i] = 2 * k[i - 1]
    OBVIOUS
  <2>1. i - 1 \in 0 .. WordBits
    BY <1>1
  <2>2. k[i - 1] \in Nat
    BY <1>3, <2>1
  <2>. HIDE DEF F
  <2>. QED  BY <1>2, <1>3, <2>2
<1>5. k = G(k)
  <2>1. ASSUME NEW i \in 0 .. WordBits PROVE k[i] = G(k)[i]
    <3>1. i # 0 => i \in 1 .. WordBits
      BY <1>1
    <3>. QED  BY <1>3, <1>4, <3>1
  <2>. QED  BY <2>1
<1>6. Pow2 = G(Pow2)
  <2>1. Pow2 = CHOOSE f : f = G(f)
    BY DEF Pow2
  <2>. HIDE DEF G
  <2>. QED  BY <1>5, <2>1
<1>7. Pow2[0] = 1
  <2>1. 0 \in 0 .. WordBits
    BY <1>1
  <2>. QED  BY <1>6, <2>1
<1>8. ASSUME NEW i \in 1 .. WordBits PROVE Pow2[i] = 2 * Pow2[i - 1]
  <2>1. i \in 0 .. WordBits /\ i # 0
    BY <1>1
  <2>. QED  BY <1>6, <2>1
<1>. DEFINE P(m) == m <= WordBits => Pow2[m] \in Nat \ {0}
<1>9. P(0)
  BY <1>7
<1>10. ASSUME NEW m \in Nat, P(m) PROVE P(m + 1)
  <2>. SUFFICES ASSUME m + 1 <= WordBits PROVE Pow2[m + 1] \in Nat \ {0}
    OBVIOUS
  <2>1. m + 1 \in 1 .. WordBits /\ (m + 1) - 1 = m /\ m <= WordBits
    BY <1>1
  <2>2. Pow2[m + 1] = 2 * Pow2[m] /\ Pow2[m] \in Nat \ {0}
    BY <1>8, <1>10, <2>1
  <2>. QED  BY <2>2
<1>. HIDE DEF P
<1>11. \A m \in Nat : P(m)
  <2>. DEFINE T == {m \in Nat : P(m)}
  <2>1. 0 \in T /\ \A m \in Nat : m \in T => m + 1 \in T
    BY <1>9, <1>10
  <2>. HIDE DEF T
  <2>2. \A m \in Nat : m \in T
    BY <2>1, Counting
  <2>. QED  BY <2>2 DEF T
<1>12. \A i \in 0 .. WordBits : Pow2[i] \in Nat \ {0}
  BY <1>1, <1>11 DEF P
<1>. QED  BY <1>1, <1>7, <1>8, <1>12

\* Powers multiply.
LEMMA Pow2Sum ==
  ASSUME NEW a \in Nat, NEW b \in Nat, a + b <= WordBits
  PROVE  Pow2[a + b] = Pow2[a] * Pow2[b]
<1>0. WordBits \in Nat
  BY Pow2Is
<1>. DEFINE P(m) == a + m <= WordBits => Pow2[a + m] = Pow2[a] * Pow2[m]
<1>1. P(0)
  <2>1. a \in 0 .. WordBits /\ a + 0 = a
    BY <1>0
  <2>2. Pow2[0] = 1 /\ Pow2[a] \in Nat
    BY <2>1, Pow2Is
  <2>. QED  BY <2>1, <2>2
<1>2. ASSUME NEW m \in Nat, P(m) PROVE P(m + 1)
  <2>. SUFFICES ASSUME a + (m + 1) <= WordBits PROVE Pow2[a + (m + 1)] = Pow2[a] * Pow2[m + 1]
    OBVIOUS
  <2>1. /\ a + (m + 1) \in 1 .. WordBits /\ (a + (m + 1)) - 1 = a + m
        /\ m + 1 \in 1 .. WordBits /\ (m + 1) - 1 = m
        /\ a + m <= WordBits /\ a \in 0 .. WordBits /\ m \in 0 .. WordBits
    BY <1>0
  <2>2. Pow2[a + (m + 1)] = 2 * Pow2[a + m] /\ Pow2[m + 1] = 2 * Pow2[m]
    BY <2>1, Pow2Is
  <2>3. Pow2[a + m] = Pow2[a] * Pow2[m]
    BY <1>2, <2>1
  <2>4. PICK x \in Nat, y \in Nat : x = Pow2[a] /\ y = Pow2[m]
    BY <2>1, Pow2Is
  <2>5. 2 * (x * y) = x * (2 * y)
    OBVIOUS
  <2>. QED  BY <2>2, <2>3, <2>4, <2>5
<1>. HIDE DEF P
<1>3. \A m \in Nat : P(m)
  <2>. DEFINE T == {m \in Nat : P(m)}
  <2>1. 0 \in T /\ \A m \in Nat : m \in T => m + 1 \in T
    BY <1>1, <1>2
  <2>. HIDE DEF T
  <2>2. \A m \in Nat : m \in T
    BY <2>1, Counting
  <2>. QED  BY <2>2 DEF T
<1>. QED  BY <1>3 DEF P

\* A digit more still fits.
LEMMA Fits ==
  ASSUME NEW x \in Nat \ {0}, NEW B \in Nat \ {0}, NEW c \in 0 .. B - 1, NEW w \in Nat, w < x
  PROVE  c * x \in Nat /\ w + c * x \in Nat /\ w + c * x < x * B
<1>1. PICK e \in Nat : B = c + 1 + e
  <2>1. B - c - 1 \in Nat /\ B = c + 1 + (B - c - 1)
    OBVIOUS
  <2>. QED  BY <2>1
<1>2. x * (c + 1 + e) = c * x + x + x * e
  OBVIOUS
<1>3. c * x \in Nat /\ x * e \in Nat
  OBVIOUS
<1>. QED  BY <1>1, <1>2, <1>3

\* The digits of W[num], a sum of digits d at weights D, are those it was made of.
ReadsBack(W, D, d, B, num) == \A j \in 1 .. num : (W[num] \div D[j - 1]) % B = d[j]

\* A number written in some base, digit by digit, is read back.
LEMMA Digits ==
  ASSUME NEW num \in Nat, NEW B \in Nat \ {0}, NEW D \in [0 .. num -> Nat \ {0}], NEW d \in [1 .. num -> 0 .. B - 1],
         D[0] = 1, \A i \in 1 .. num : D[i] = D[i - 1] * B,
         NEW W, W[0] = 0, \A i \in 1 .. num : W[i] = W[i - 1] + d[i] * D[i - 1]
  PROVE  ReadsBack(W, D, d, B, num)
<1>. DEFINE Splits(m, j) ==
              /\ \E e \in Nat : D[m] = (e * B) * D[j - 1]
              /\ \E h \in Nat, l \in Nat : l < D[j - 1] /\ W[m] = (h * B + d[j]) * D[j - 1] + l
            P(m) == m <= num => /\ W[m] \in Nat /\ W[m] < D[m]
                                /\ \A j \in 1 .. m : Splits(m, j)
<1>1. P(0)
  BY DEF P
<1>2. ASSUME NEW m \in Nat, P(m) PROVE P(m + 1)
  <2>. SUFFICES ASSUME m + 1 <= num
                PROVE  /\ W[m + 1] \in Nat /\ W[m + 1] < D[m + 1]
                       /\ \A j \in 1 .. m + 1 : Splits(m + 1, j)
    OBVIOUS
  <2>1. m + 1 \in 1 .. num /\ (m + 1) - 1 = m /\ m \in 0 .. num /\ m <= num
    OBVIOUS
  <2>2. PICK x \in Nat \ {0}, c \in 0 .. B - 1, w \in Nat : x = D[m] /\ c = d[m + 1] /\ w = W[m] /\ w < x
    BY <1>2, <2>1
  <2>3. D[m + 1] = x * B /\ W[m + 1] = w + c * x
    BY <2>1, <2>2
  <2>4. c * x \in Nat /\ w + c * x \in Nat /\ w + c * x < x * B
    BY <2>2, Fits
  <2>5. ASSUME NEW j \in 1 .. m PROVE Splits(m + 1, j)
    <3>1. j - 1 \in 0 .. num /\ j \in 1 .. num
      BY <2>1
    <3>2. PICK y \in Nat \ {0}, z \in 0 .. B - 1 : y = D[j - 1] /\ z = d[j]
      BY <3>1
    <3>3. Splits(m, j)
      BY <1>2, <2>1
    <3>4. PICK e \in Nat : x = (e * B) * y
      BY <2>2, <3>2, <3>3
    <3>5. PICK h \in Nat, l \in Nat : l < y /\ w = (h * B + z) * y + l
      BY <2>2, <3>2, <3>3
    <3>6. D[m + 1] = ((e * B) * B) * y
      <4>1. ((e * B) * y) * B = ((e * B) * B) * y
        OBVIOUS
      <4>. QED  BY <2>3, <3>4, <4>1
    <3>7. W[m + 1] = ((h + c * e) * B + z) * y + l
      <4>1. c * ((e * B) * y) = ((c * e) * B) * y
        OBVIOUS
      <4>2. ((h + c * e) * B + z) * y = (h * B + z) * y + ((c * e) * B) * y
        <5>1. (h + c * e) * B = h * B + (c * e) * B
          OBVIOUS
        <5>2. PICK u \in Int, v \in Int : u = h * B + z /\ v = (c * e) * B
          OBVIOUS
        <5>3. (u + v) * y = u * y + v * y
          OBVIOUS
        <5>4. (h + c * e) * B + z = u + v
          BY <5>1, <5>2
        <5>. QED  BY <5>2, <5>3, <5>4
      <4>3. PICK a1 \in Int, b1 \in Int : a1 = (h * B + z) * y /\ b1 = ((c * e) * B) * y
        OBVIOUS
      <4>4. W[m + 1] = (a1 + l) + b1
        BY <2>3, <3>4, <3>5, <4>1, <4>3
      <4>. QED  BY <4>2, <4>3, <4>4
    <3>8. e * B \in Nat /\ h + c * e \in Nat
      <4>1. c \in Nat /\ B \in Nat
        OBVIOUS
      <4>2. c * e \in Nat
        BY <4>1, NatClosed
      <4>. QED  BY <4>1, <4>2, NatClosed
    <3>9. \E f \in Nat : D[m + 1] = (f * B) * D[j - 1]
      BY <3>2, <3>6, <3>8
    <3>10. \E g \in Nat, l1 \in Nat : l1 < D[j - 1] /\ W[m + 1] = (g * B + d[j]) * D[j - 1] + l1
      BY <3>2, <3>5, <3>7, <3>8
    <3>. QED  BY <3>9, <3>10
  <2>6. Splits(m + 1, m + 1)
    <3>1. D[m + 1] = (1 * B) * x
      BY <2>3
    <3>2. W[m + 1] = (0 * B + c) * x + w
      BY <2>3
    <3>3. \E f \in Nat : D[m + 1] = (f * B) * D[(m + 1) - 1]
      BY <2>1, <2>2, <3>1
    <3>4. \E g \in Nat, l1 \in Nat : l1 < D[(m + 1) - 1] /\ W[m + 1] = (g * B + d[m + 1]) * D[(m + 1) - 1] + l1
      BY <2>1, <2>2, <3>2
    <3>. QED  BY <3>3, <3>4
  <2>7. \A j \in 1 .. m + 1 : Splits(m + 1, j)
    <3>1. \A j \in 1 .. m + 1 : j \in 1 .. m \/ j = m + 1
      OBVIOUS
    <3>. HIDE DEF Splits
    <3>. QED  BY <2>5, <2>6, <3>1
  <2>. HIDE DEF Splits
  <2>. QED  BY <2>3, <2>4, <2>7
<1>. HIDE DEF P
<1>3. \A m \in Nat : P(m)
  <2>. DEFINE T == {m \in Nat : P(m)}
  <2>1. 0 \in T /\ \A m \in Nat : m \in T => m + 1 \in T
    BY <1>1, <1>2
  <2>. HIDE DEF T
  <2>2. \A m \in Nat : m \in T
    BY <2>1, Counting
  <2>. QED  BY <2>2 DEF T
<1>. SUFFICES ASSUME NEW j \in 1 .. num PROVE (W[num] \div D[j - 1]) % B = d[j]
  BY DEF ReadsBack
<1>4. Splits(num, j)
  <2>1. P(num)
    BY <1>3
  <2>. HIDE DEF Splits
  <2>. QED  BY <2>1 DEF P
<1>5. j - 1 \in 0 .. num
  OBVIOUS
<1>6. PICK y \in Nat \ {0}, z \in 0 .. B - 1 : y = D[j - 1] /\ z = d[j]
  BY <1>5
<1>7. PICK h \in Nat, l \in Nat : l < y /\ W[num] = (h * B + z) * y + l
  BY <1>4, <1>6
<1>. HIDE DEF Splits, P
<1>8. ((h * B + z) * y + l) \div y = h * B + z
  <2>1. PICK q \in Int : q = h * B + z
    OBVIOUS
  <2>2. 0 <= l /\ l \in Int
    OBVIOUS
  <2>3. (q * y + l) \div y = q
    BY <1>7, <2>2, DivOf
  <2>. QED  BY <2>1, <2>3
<1>9. (h * B + z) % B = z
  <2>1. 0 <= z /\ z < B /\ z \in Int /\ h \in Int
    OBVIOUS
  <2>. QED  BY <2>1, DivOf
<1>. QED  BY <1>6, <1>7, <1>8, <1>9

\* The partial sums of a sequence.
Sums(k, s, len) == k[0] = 0 /\ \A i \in 1 .. len : k[i] = k[i - 1] + s[i]

\* FoldLeft(+) adds up so.
LEMMA SumSteps ==
  ASSUME NEW len \in Nat, NEW t \in [1 .. len -> Nat]
  PROVE  \E k : Sums(k, t, len) /\ FoldLeft(+, 0, t) = k[len]
<1>. DEFINE F == [p \in (1 .. len) \X Nat |-> p[2] + t[p[1]]]
            G(g) == [s \in SUBSET (1 .. len) |->
                       IF s = {} THEN 0 ELSE g[s \ {Max(s)}] + t[Max(s)]]
            f == CHOOSE g : g = G(g)
<1>1. ASSUME NEW i \in 1 .. len, NEW v \in Nat
      PROVE  F[<<i, v>>] = v + t[i] /\ F[<<i, v>>] \in Nat
  OBVIOUS
<1>2. PICK g \in [SUBSET (1 .. len) -> Nat] :
        \A s \in SUBSET (1 .. len) : g[s] = IF s = {} THEN 0 ELSE F[<<Max(s), g[s \ {Max(s)}]>>]
  <2>1. 0 \in Nat /\ \A i \in 1 .. len, v \in Nat : F[<<i, v>>] \in Nat
    BY <1>1
  <2>. HIDE DEF F
  <2>2. \E g \in [SUBSET (1 .. len) -> Nat] : IsFold(g, len, 0, F)
    BY <2>1, FoldOver
  <2>. QED  BY <2>2 DEF IsFold
<1>3. g = G(g)
  <2>1. ASSUME NEW s \in SUBSET (1 .. len) PROVE g[s] = G(g)[s]
    <3>1. CASE s = {}
      BY <1>2, <3>1
    <3>2. CASE s # {}
      <4>1. Max(s) \in 1 .. len
        <5>1. PICK b \in s : \A y \in s : b >= y
          <6>1. s \in SUBSET (0 .. len)
            OBVIOUS
          <6>. QED  BY <3>2, <6>1, Greatest
        <5>. QED  BY <5>1 DEF Max
      <4>2. g[s \ {Max(s)}] \in Nat
        OBVIOUS
      <4>3. g[s] = F[<<Max(s), g[s \ {Max(s)}]>>]
        <5>. HIDE DEF F
        <5>. QED  BY <1>2, <3>2
      <4>. HIDE DEF F
      <4>. QED  BY <1>1, <3>2, <4>1, <4>2, <4>3
    <3>. QED  BY <3>1, <3>2
  <2>. QED  BY <1>2, <2>1
<1>4. f = G(f)
  <2>. HIDE DEF G
  <2>. QED  BY <1>3
<1>. HIDE DEF f
<1>5. f[1 .. 0] = 0
  BY <1>4, Segments
<1>6. ASSUME NEW i \in 1 .. len PROVE f[1 .. i] = f[1 .. i - 1] + t[i]
  <2>1. f[1 .. i] = f[(1 .. i) \ {Max(1 .. i)}] + t[Max(1 .. i)]
    BY <1>4, Segments
  <2>. QED  BY <2>1, Segments
<1>7. FoldLeft(+, 0, t) = f[1 .. len]
  BY DEF FoldLeft, MapThenFoldSet, f
<1>. DEFINE k == [i \in 0 .. len |-> f[1 .. i]]
<1>8. k[0] = 0 /\ k[len] = f[1 .. len]
  <2>1. 0 \in 0 .. len /\ len \in 0 .. len
    OBVIOUS
  <2>2. k[0] = f[1 .. 0] /\ k[len] = f[1 .. len]
    BY <2>1
  <2>. HIDE DEF k
  <2>. QED  BY <1>5, <2>2
<1>9. \A i \in 1 .. len : k[i] = k[i - 1] + t[i]
  <2>. SUFFICES ASSUME NEW i \in 1 .. len PROVE k[i] = k[i - 1] + t[i]
    OBVIOUS
  <2>1. i \in 0 .. len /\ i - 1 \in 0 .. len
    OBVIOUS
  <2>2. k[i] = f[1 .. i] /\ k[i - 1] = f[1 .. i - 1]
    BY <2>1
  <2>. HIDE DEF k
  <2>. QED  BY <1>6, <2>2
<1>. HIDE DEF k
<1>. QED  BY <1>7, <1>8, <1>9 DEF Sums

\* A word has room for whole bytes.
LEMMA PackFactorIs ==
  /\ Bits \in Nat \ {0} /\ PackFactor \in Nat \ {0} /\ PackFactor * Bits = WordBits
  /\ \A i \in 0 .. PackFactor : Bits * i \in 0 .. WordBits
<1>1. Bits \in Nat \ {0} /\ WordBits \in Nat \ {0} /\ WordBits % Bits = 0
  BY GptqAssumption
<1>2. PICK q \in Int : q = PackFactor /\ WordBits = q * Bits
  <2>1. WordBits = (WordBits \div Bits) * Bits + (WordBits % Bits) /\ WordBits \div Bits \in Int
    BY <1>1, DivMod
  <2>2. PICK q \in Int : q = WordBits \div Bits
    BY <2>1
  <2>3. q * Bits \in Int
    BY <1>1
  <2>. QED  BY <1>1, <2>1, <2>2, <2>3 DEF PackFactor
<1>3. q > 0
  <2>1. q <= 0 => q * Bits <= 0
    BY <1>1
  <2>. QED  BY <1>1, <1>2, <2>1
<1>4. ASSUME NEW i \in 0 .. q PROVE Bits * i \in 0 .. q * Bits
  <2>1. PICK e \in Nat : q = i + e
    <3>1. q - i \in Nat /\ q = i + (q - i)
      OBVIOUS
    <3>. QED  BY <3>1
  <2>2. (i + e) * Bits = Bits * i + Bits * e
    BY <1>1
  <2>3. Bits * i \in Nat /\ Bits * e \in Nat
    BY <1>1, <1>3, NatClosed
  <2>. QED  BY <2>1, <2>2, <2>3
<1>. QED  BY <1>1, <1>2, <1>3, <1>4

\* Half is half of what a byte can hold.
LEMMA ByteIs ==
  /\ Pow2[Bits] \in Nat \ {0} /\ Pow2[Bits] = 2 * Half /\ Half \in Nat \ {0}
<1>1. Bits \in 1 .. WordBits /\ Bits - 1 \in 0 .. WordBits /\ Bits \in 0 .. WordBits
  <2>1. 1 \in 0 .. PackFactor /\ Bits * 1 = Bits
    BY PackFactorIs
  <2>2. Bits \in 0 .. WordBits
    BY <2>1, PackFactorIs
  <2>3. Bits \in Nat \ {0} /\ WordBits \in Nat
    BY PackFactorIs, Pow2Is
  <2>. QED  BY <2>2, <2>3
<1>. QED  BY <1>1, Pow2Is DEF Half

\* The bytes of a word are read back where they were put.
LEMMA PackedWordIs ==
  ASSUME NEW bytes \in [1 .. PackFactor -> 0 .. Pow2[Bits] - 1]
  PROVE  /\ PackedWord(bytes) \in Int
         /\ \A j \in 1 .. PackFactor : (PackedWord(bytes) \div Pow2[Bits * (j - 1)]) % Pow2[Bits] = bytes[j]
<1>1. PICK num \in Nat \ {0} : num = PackFactor
  BY PackFactorIs
<1>2. PICK B \in Nat \ {0} : B = Pow2[Bits]
  BY ByteIs
<1>. DEFINE D == [i \in 0 .. num |-> Pow2[Bits * i]]
            t == [i \in 1 .. num |-> bytes[i] * D[i - 1]]
<1>3. D \in [0 .. num -> Nat \ {0}]
  <2>1. \A i \in 0 .. num : Bits * i \in 0 .. WordBits
    BY <1>1, PackFactorIs
  <2>. QED  BY <2>1, Pow2Is
<1>4. D[0] = 1
  <2>1. Bits * 0 = 0 /\ 0 \in 0 .. num
    BY PackFactorIs
  <2>. QED  BY <2>1, Pow2Is
<1>5. ASSUME NEW i \in 1 .. num PROVE D[i] = D[i - 1] * B
  <2>1. i - 1 \in 0 .. num /\ i \in 0 .. num
    OBVIOUS
  <2>2. Bits * (i - 1) + Bits = Bits * i
    BY PackFactorIs
  <2>3. Bits * (i - 1) \in Nat /\ Bits \in Nat /\ Bits * i <= WordBits
    BY <1>1, <2>1, PackFactorIs, Pow2Is
  <2>4. PICK a \in Nat : a = Bits * (i - 1)
    BY <2>3
  <2>5. Pow2[a + Bits] = Pow2[a] * Pow2[Bits]
    BY <2>2, <2>3, <2>4, Pow2Sum
  <2>. QED  BY <1>2, <2>1, <2>2, <2>4, <2>5
<1>6. bytes \in [1 .. num -> 0 .. B - 1]
  BY <1>1, <1>2
<1>7. t \in [1 .. num -> Nat]
  <2>1. ASSUME NEW i \in 1 .. num PROVE bytes[i] * D[i - 1] \in Nat
    <3>1. i - 1 \in 0 .. num /\ bytes[i] \in Nat
      <4>. HIDE DEF D
      <4>1. bytes[i] \in 0 .. B - 1
        BY <1>6
      <4>. QED  BY <4>1
    <3>2. D[i - 1] \in Nat
      BY <1>3, <3>1
    <3>. HIDE DEF D
    <3>. QED  BY <3>1, <3>2, NatClosed
  <2>. HIDE DEF D
  <2>. QED  BY <2>1
<1>8. PackedWord(bytes) = FoldLeft(+, 0, t)
  <2>1. t = [i \in 1 .. PackFactor |-> bytes[i] * Pow2[Bits * (i - 1)]]
    <3>1. \A i \in 1 .. num : i - 1 \in 0 .. num
      OBVIOUS
    <3>. QED  BY <1>1, <3>1
  <2>. HIDE DEF t
  <2>. QED  BY <2>1 DEF PackedWord
<1>9. PICK W : Sums(W, t, num) /\ FoldLeft(+, 0, t) = W[num]
  <2>. HIDE DEF t
  <2>. QED  BY <1>7, SumSteps
<1>10. W[0] = 0 /\ \A i \in 1 .. num : W[i] = W[i - 1] + bytes[i] * D[i - 1]
  <2>1. \A i \in 1 .. num : t[i] = bytes[i] * D[i - 1]
    OBVIOUS
  <2>. HIDE DEF t, D
  <2>. QED  BY <1>9, <2>1 DEF Sums
<1>11. \A j \in 1 .. num : (W[num] \div D[j - 1]) % B = bytes[j]
  <2>. HIDE DEF D
  <2>1. \A i \in 1 .. num : D[i] = D[i - 1] * B
    BY <1>5
  <2>2. ReadsBack(W, D, bytes, B, num)
    BY <1>3, <1>4, <1>6, <1>10, <2>1, Digits
  <2>. QED  BY <2>2 DEF ReadsBack
<1>12. \A j \in 1 .. num : (W[num] \div Pow2[Bits * (j - 1)]) % B = bytes[j]
  <2>1. \A j \in 1 .. num : D[j - 1] = Pow2[Bits * (j - 1)]
    <3>1. \A i \in 1 .. num : i - 1 \in 0 .. num
      OBVIOUS
    <3>. QED  BY <3>1
  <2>. HIDE DEF D
  <2>. QED  BY <1>11, <2>1
<1>. DEFINE P(m) == m <= num => W[m] \in Nat
<1>13. P(0)
  BY <1>10
<1>14. ASSUME NEW m \in Nat, P(m) PROVE P(m + 1)
  <2>. SUFFICES ASSUME m + 1 <= num PROVE W[m + 1] \in Nat
    OBVIOUS
  <2>1. m + 1 \in 1 .. num /\ (m + 1) - 1 = m /\ m <= num
    OBVIOUS
  <2>2. W[m + 1] = W[m] + t[m + 1]
    BY <1>9, <2>1 DEF Sums
  <2>. HIDE DEF t
  <2>. QED  BY <1>7, <1>14, <2>1, <2>2
<1>. HIDE DEF P
<1>15. \A m \in Nat : P(m)
  <2>. DEFINE T == {m \in Nat : P(m)}
  <2>1. 0 \in T /\ \A m \in Nat : m \in T => m + 1 \in T
    BY <1>13, <1>14
  <2>. HIDE DEF T
  <2>2. \A m \in Nat : m \in T
    BY <2>1, Counting
  <2>. QED  BY <2>2 DEF T
<1>16. W[num] \in Nat
  <2>1. P(num)
    BY <1>15
  <2>. QED  BY <2>1 DEF P
<1>17. PackedWord(bytes) = W[num]
  <2>. HIDE DEF t
  <2>. QED  BY <1>8, <1>9
<1>. HIDE DEF t, D, P
<1>. QED  BY <1>1, <1>2, <1>12, <1>16, <1>17

----------------------------------------------------------------------------
(* Rounding: what a byte stands for.                                       *)

\* Rounding is off by at most half of what it divides by.
LEMMA RoundsTo ==
  ASSUME NEW m \in Int, NEW e \in Nat \ {0}, NEW q \in Int, NEW r \in 0 .. e - 1, m = q * e + r,
         NEW x \in {q, q + 1}, x = q => 2 * r <= e, x = q + 1 => e <= 2 * r
  PROVE  2 * (x * e - m) <= e /\ 2 * (m - x * e) <= e
<1>1. CASE x = q
  <2>1. m - x * e = r
    BY <1>1
  <2>2. PICK y \in Int : y = x * e
    OBVIOUS
  <2>. QED  BY <1>1, <2>1, <2>2
<1>2. CASE x = q + 1
  <2>1. (q + 1) * e = q * e + e
    OBVIOUS
  <2>2. PICK y \in Int : y = x * e
    OBVIOUS
  <2>3. PICK z \in Int : z = q * e
    OBVIOUS
  <2>4. y = z + e /\ m = z + r
    BY <1>2, <2>1, <2>2, <2>3
  <2>5. e <= 2 * r
    BY <1>2
  <2>. QED  BY <2>2, <2>4, <2>5
<1>. QED  BY <1>1, <1>2

\* RoundDiv does so for divisors of either sign.
LEMMA RoundDivIs ==
  ASSUME NEW num \in Int, NEW d \in Int \ {0}
  PROVE  /\ RoundDiv(num, d) \in Int
         /\ 2 * Magnitude(RoundDiv(num, d) * d - num) <= Magnitude(d)
<1>. DEFINE m == IF d < 0 THEN -num ELSE num
            e == IF d < 0 THEN -d ELSE d
            x == RoundDiv(num, d)
<1>1. m \in Int /\ e \in Nat \ {0}
  OBVIOUS
<1>2. PICK q \in Int, r \in 0 .. e - 1 : q = m \div e /\ r = m % e /\ m = q * e + r
  <2>. HIDE DEF m, e
  <2>1. m = (m \div e) * e + (m % e) /\ m % e \in 0 .. e - 1 /\ m \div e \in Int
    BY <1>1, DivMod
  <2>. QED  BY <2>1
<1>3. x = IF 2 * r > e \/ (2 * r = e /\ q % 2 = 1) THEN q + 1 ELSE q
  BY <1>2 DEF RoundDiv
<1>. HIDE DEF m, e, x
<1>4. x \in {q, q + 1} /\ (x = q => 2 * r <= e) /\ (x = q + 1 => e <= 2 * r)
  BY <1>1, <1>3
<1>5. 2 * (x * e - m) <= e /\ 2 * (m - x * e) <= e
  BY <1>1, <1>2, <1>4, RoundsTo
<1>6. x \in Int
  BY <1>4
<1>7. CASE d < 0
  <2>1. m = -num /\ e = -d
    BY <1>7 DEF m, e
  <2>2. x * (-d) = -(x * d)
    BY <1>6
  <2>3. PICK y \in Int : y = x * d
    BY <1>6
  <2>. QED  BY <1>5, <1>6, <1>7, <2>1, <2>2, <2>3 DEF x, Magnitude
<1>8. CASE ~(d < 0)
  <2>1. m = num /\ e = d
    BY <1>8 DEF m, e
  <2>3. PICK y \in Int : y = x * d
    BY <1>6
  <2>. QED  BY <1>5, <1>6, <1>8, <2>1, <2>3 DEF x, Magnitude
<1>. QED  BY <1>7, <1>8

\* A sequence of numbers has a least and a greatest one.
LEMMA Extremes ==
  ASSUME NEW num \in Nat \ {0}, NEW t \in [1 .. num -> Int]
  PROVE  /\ \E i \in 1 .. num : Min(Range(t)) = t[i]
         /\ \E i \in 1 .. num : Max(Range(t)) = t[i]
         /\ \A i \in 1 .. num : Min(Range(t)) <= t[i] /\ t[i] <= Max(Range(t))
<1>. DEFINE P(m) == m + 1 <= num => \E i, j \in 1 .. m + 1 : \A h \in 1 .. m + 1 : t[i] <= t[h] /\ t[h] <= t[j]
<1>1. P(0)
  <2>1. 1 \in 1 .. num /\ \A h \in 1 .. 0 + 1 : h = 1
    OBVIOUS
  <2>. QED  BY <2>1
<1>2. ASSUME NEW m \in Nat, P(m) PROVE P(m + 1)
  <2>. SUFFICES ASSUME (m + 1) + 1 <= num
                PROVE  \E i, j \in 1 .. (m + 1) + 1 : \A h \in 1 .. (m + 1) + 1 : t[i] <= t[h] /\ t[h] <= t[j]
    OBVIOUS
  <2>1. PICK i \in 1 .. m + 1, j \in 1 .. m + 1 : \A h \in 1 .. m + 1 : t[i] <= t[h] /\ t[h] <= t[j]
    BY <1>2
  <2>2. PICK last \in 1 .. num : last = (m + 1) + 1
    OBVIOUS
  <2>3. \A h \in 1 .. last : h \in 1 .. num /\ (h \in 1 .. m + 1 \/ h = last)
    BY <2>2
  <2>4. last \in 1 .. last /\ i \in 1 .. last /\ j \in 1 .. last
    BY <2>2
  <2>. DEFINE a == IF t[last] <= t[i] THEN last ELSE i
              b == IF t[last] <= t[j] THEN j ELSE last
  <2>5. a \in 1 .. last /\ b \in 1 .. last
    BY <2>4
  <2>6. t[last] \in Int /\ t[i] \in Int /\ t[j] \in Int /\ t[i] <= t[j]
    BY <2>1, <2>3, <2>4
  <2>7. ASSUME NEW h \in 1 .. last PROVE t[a] <= t[h] /\ t[h] <= t[b]
    <3>1. t[h] \in Int
      BY <2>3
    <3>2. CASE h = last
      BY <2>6, <3>2
    <3>3. CASE h \in 1 .. m + 1
      BY <2>1, <2>6, <3>1, <3>3
    <3>. QED  BY <2>3, <3>2, <3>3
  <2>. HIDE DEF a, b
  <2>. QED  BY <2>2, <2>5, <2>7
<1>. HIDE DEF P
<1>3. \A m \in Nat : P(m)
  <2>. DEFINE T == {m \in Nat : P(m)}
  <2>1. 0 \in T /\ \A m \in Nat : m \in T => m + 1 \in T
    BY <1>1, <1>2
  <2>. HIDE DEF T
  <2>2. \A m \in Nat : m \in T
    BY <2>1, Counting
  <2>. QED  BY <2>2 DEF T
<1>4. PICK i \in 1 .. num, j \in 1 .. num : \A h \in 1 .. num : t[i] <= t[h] /\ t[h] <= t[j]
  <2>1. num - 1 \in Nat /\ (num - 1) + 1 = num
    OBVIOUS
  <2>2. P(num - 1)
    BY <1>3, <2>1
  <2>. QED  BY <2>1, <2>2 DEF P
<1>5. Range(t) = {t[h] : h \in 1 .. num}
  BY DEF Range
<1>6. Min(Range(t)) = t[i]
  <2>1. t[i] \in Range(t) /\ \A y \in Range(t) : t[i] <= y
    BY <1>4, <1>5
  <2>2. \A x \in Range(t) : (\A y \in Range(t) : x <= y) => x = t[i]
    <3>1. t[i] \in Int /\ \A x \in Range(t) : x \in Int
      BY <1>5
    <3>. QED  BY <2>1, <3>1
  <2>. QED  BY <2>1, <2>2 DEF Min
<1>7. Max(Range(t)) = t[j]
  <2>1. t[j] \in Range(t) /\ \A y \in Range(t) : t[j] >= y
    BY <1>4, <1>5
  <2>2. \A x \in Range(t) : (\A y \in Range(t) : x >= y) => x = t[j]
    <3>1. t[j] \in Int /\ \A x \in Range(t) : x \in Int
      BY <1>5
    <3>. QED  BY <2>1, <3>1
  <2>. QED  BY <2>1, <2>2 DEF Max
<1>. QED  BY <1>4, <1>6, <1>7

\* The weight a group's scale is picked from is no smaller than any of the group.
LEMMA PickedIs ==
  ASSUME NEW num \in Nat \ {0}, NEW group \in [1 .. num -> Int]
  PROVE  /\ Picked(group) \in Int
         /\ \A i \in 1 .. num : Magnitude(group[i]) <= Magnitude(Picked(group))
<1>1. PICK lo \in Int, hi \in Int : /\ lo = Min(Range(group)) /\ hi = Max(Range(group))
                                    /\ \A i \in 1 .. num : lo <= group[i] /\ group[i] <= hi
  BY Extremes
<1>2. Picked(group) = IF -lo > hi THEN lo ELSE hi
  BY <1>1 DEF Picked
<1>3. ASSUME NEW i \in 1 .. num PROVE Magnitude(group[i]) <= Magnitude(Picked(group))
  <2>1. PICK w \in Int : w = group[i] /\ lo <= w /\ w <= hi
    BY <1>1
  <2>. QED  BY <1>2, <2>1 DEF Magnitude
<1>. QED  BY <1>2, <1>3

\* A weight divided by the greatest of its group is between -Half and Half; at Half
\* the rounding was away from zero.
LEMMA Quotient ==
  ASSUME NEW h \in Nat \ {0}, NEW p \in Int \ {0}, NEW w \in Int, Magnitude(w) <= Magnitude(p),
         NEW x \in Int, NEW e \in Int, e = x * p + w * h, 2 * Magnitude(e) <= Magnitude(p)
  PROVE  /\ x \in -h .. h
         /\ x = h => /\ 0 < p => 0 <= e
                     /\ p < 0 => e <= 0
<1>1. CASE p > 0
  <2>1. -p <= w /\ w <= p /\ 2 * e <= p /\ -(2 * e) <= p
    BY <1>1 DEF Magnitude
  <2>2. PICK a \in Nat, b \in Nat : a = p - w /\ b = w + p
    BY <2>1
  <2>3. a * h \in Nat /\ b * h \in Nat
    BY NatClosed
  <2>4. a * h = p * h - w * h /\ b * h = w * h + p * h
    BY <2>2
  <2>5. PICK ph \in Int, wh \in Int, xp \in Int : ph = p * h /\ wh = w * h /\ xp = x * p
    OBVIOUS
  <2>6. wh <= ph /\ -wh <= ph
    BY <2>3, <2>4, <2>5
  <2>7. ~(x >= h + 1)
    <3>. SUFFICES ASSUME x >= h + 1 PROVE FALSE
      OBVIOUS
    <3>1. PICK u \in Nat : x = h + 1 + u
      <4>1. x - h - 1 \in Nat /\ x = h + 1 + (x - h - 1)
        OBVIOUS
      <4>. QED  BY <4>1
    <3>2. (h + 1 + u) * p = p * h + p + u * p /\ u * p \in Nat
      BY <1>1, NatClosed
    <3>. QED  BY <1>1, <2>1, <2>5, <2>6, <3>1, <3>2
  <2>8. ~(x <= -h - 1)
    <3>. SUFFICES ASSUME x <= -h - 1 PROVE FALSE
      OBVIOUS
    <3>1. PICK u \in Nat : x = -h - 1 - u
      <4>1. -h - 1 - x \in Nat /\ x = -h - 1 - (-h - 1 - x)
        OBVIOUS
      <4>. QED  BY <4>1
    <3>2. (-h - 1 - u) * p = -(p * h) - p - u * p /\ u * p \in Nat
      BY <1>1, NatClosed
    <3>. QED  BY <1>1, <2>1, <2>5, <2>6, <3>1, <3>2
  <2>9. x = h => 0 <= e
    <3>1. h * p = p * h
      OBVIOUS
    <3>. QED  BY <2>5, <2>6, <3>1
  <2>. QED  BY <1>1, <2>7, <2>8, <2>9
<1>2. CASE p < 0
  <2>0. PICK v \in Nat : p = -v /\ v > 0
    <3>1. -p \in Nat /\ p = -(-p)
      BY <1>2
    <3>. QED  BY <1>2, <3>1
  <2>1. -v <= w /\ w <= v /\ 2 * e <= v /\ -(2 * e) <= v
    BY <1>2, <2>0 DEF Magnitude
  <2>2. PICK a \in Nat, b \in Nat : a = v - w /\ b = w + v
    BY <2>1
  <2>3. a * h \in Nat /\ b * h \in Nat
    BY NatClosed
  <2>4. a * h = v * h - w * h /\ b * h = w * h + v * h
    BY <2>2
  <2>5. PICK vh \in Int, wh \in Int, xv \in Int : vh = v * h /\ wh = w * h /\ xv = x * v
    OBVIOUS
  <2>6. wh <= vh /\ -wh <= vh
    BY <2>3, <2>4, <2>5
  <2>61. e = wh - xv
    <3>1. x * (-v) = -(x * v)
      OBVIOUS
    <3>. QED  BY <2>0, <2>5, <3>1
  <2>7. ~(x >= h + 1)
    <3>. SUFFICES ASSUME x >= h + 1 PROVE FALSE
      OBVIOUS
    <3>1. PICK u \in Nat : x = h + 1 + u
      <4>1. x - h - 1 \in Nat /\ x = h + 1 + (x - h - 1)
        OBVIOUS
      <4>. QED  BY <4>1
    <3>2. (h + 1 + u) * v = v * h + v + u * v /\ u * v \in Nat
      BY NatClosed
    <3>. QED  BY <2>0, <2>1, <2>5, <2>6, <2>61, <3>1, <3>2
  <2>8. ~(x <= -h - 1)
    <3>. SUFFICES ASSUME x <= -h - 1 PROVE FALSE
      OBVIOUS
    <3>1. PICK u \in Nat : x = -h - 1 - u
      <4>1. -h - 1 - x \in Nat /\ x = -h - 1 - (-h - 1 - x)
        OBVIOUS
      <4>. QED  BY <4>1
    <3>2. (-h - 1 - u) * v = -(v * h) - v - u * v /\ u * v \in Nat
      BY NatClosed
    <3>. QED  BY <2>0, <2>1, <2>5, <2>6, <2>61, <3>1, <3>2
  <2>9. x = h => e <= 0
    <3>1. h * v = v * h
      OBVIOUS
    <3>. QED  BY <2>5, <2>6, <2>61, <3>1
  <2>. QED  BY <1>2, <2>7, <2>8, <2>9
<1>. QED  BY <1>1, <1>2

\* What a byte stands for is as close to the weight as promised.
LEMMA FaithfulByte ==
  ASSUME NEW p \in Int, NEW w \in Int, Magnitude(w) <= Magnitude(p), NEW nan \in 0 .. 2 * Half - 1,
         NEW b, b = IF p = 0 THEN nan ELSE Clamp(RoundDiv(-w * Half, p) + Half)
  PROVE  b \in 0 .. 2 * Half - 1 /\ Faithful(-(b - Half) * p, w, p)
<1>0. PICK h \in Nat \ {0} : h = Half
  BY ByteIs
<1>1. CASE p = 0
  <2>1. w = 0
    BY <1>1 DEF Magnitude
  <2>2. b = nan
    BY <1>1
  <2>3. -(nan - h) * 0 = 0 /\ 0 * h = 0
    OBVIOUS
  <2>. QED  BY <1>0, <1>1, <2>1, <2>2, <2>3 DEF Faithful, Magnitude
<1>2. CASE p # 0
  <2>1. PICK num \in Int : num = -w * h
    OBVIOUS
  <2>2. PICK x \in Int : x = RoundDiv(num, p) /\ 2 * Magnitude(x * p - num) <= Magnitude(p)
    BY <1>2, RoundDivIs
  <2>3. PICK e \in Int : e = x * p - num
    OBVIOUS
  <2>4. e = x * p + w * h
    <3>1. -w * h = -(w * h)
      OBVIOUS
    <3>2. PICK xp \in Int, wh \in Int : xp = x * p /\ wh = w * h
      OBVIOUS
    <3>. QED  BY <2>1, <2>3, <3>1, <3>2
  <2>5. /\ x \in -h .. h
        /\ x = h => ((0 < p => 0 <= e) /\ (p < 0 => e <= 0))
    BY <1>2, <2>2, <2>3, <2>4, Quotient
  <2>6. b = Clamp(x + h)
    BY <1>0, <1>2, <2>1, <2>2
  <2>7. PICK xp \in Int, wh \in Int : xp = x * p /\ wh = w * h /\ e = xp + wh
    BY <2>4
  <2>8. CASE x # h
    <3>1. b = x + h
      BY <1>0, <2>5, <2>6, <2>8 DEF Clamp
    <3>2. -(x + h - h) * p = -(x * p)
      OBVIOUS
    <3>3. -(b - Half) * p = -xp
      BY <1>0, <2>7, <3>1, <3>2
    <3>4. 2 * Magnitude(-xp - wh) <= Magnitude(p)
      BY <2>2, <2>3, <2>7 DEF Magnitude
    <3>5. b \in 0 .. 2 * Half - 1
      BY <1>0, <2>5, <2>8, <3>1
    <3>. QED  BY <1>0, <2>7, <3>3, <3>4, <3>5 DEF Faithful
  <2>9. CASE x = h
    <3>1. b = 2 * h - 1
      BY <1>0, <2>6, <2>9 DEF Clamp
    <3>2. -(2 * h - 1 - h) * p = -(h * p) + p
      OBVIOUS
    <3>3. -(b - Half) * p = -xp + p
      BY <1>0, <2>7, <2>9, <3>1, <3>2
    <3>4. PICK score \in Int : score = -(b - Half) * p /\ score - w * Half = p - e
      BY <1>0, <2>7, <3>3
    <3>5. b \in 0 .. 2 * Half - 1
      BY <1>0, <3>1
    <3>6. xp = h * p
      BY <2>7, <2>9
    <3>7. CASE 2 * Magnitude(e) = Magnitude(p)
      <4>1. 2 * Magnitude(p - e) <= Magnitude(p)
        BY <1>2, <2>5, <2>9, <3>7 DEF Magnitude
      <4>. QED  BY <3>4, <3>5, <4>1 DEF Faithful
    <3>8. CASE 2 * Magnitude(e) # Magnitude(p)
      <4>1. Magnitude(p - e) <= Magnitude(p)
        BY <1>2, <2>2, <2>3, <2>5, <2>9, <3>8 DEF Magnitude
      <4>2. 2 * Magnitude(w) * h > (2 * h - 1) * Magnitude(p)
        <5>0. PICK hp \in Int : hp = h * p
          OBVIOUS
        <5>1. CASE p > 0
          <6>1. wh = e - hp /\ 0 <= e /\ 2 * e < p
            BY <2>2, <2>3, <2>5, <2>7, <2>9, <3>6, <3>8, <5>0, <5>1 DEF Magnitude
          <6>2. w <= 0
            <7>1. w > 0 => w * h > 0
              OBVIOUS
            <7>2. h * p >= p
              BY <5>1
            <7>. QED  BY <2>7, <5>0, <5>1, <6>1, <7>1, <7>2
          <6>3. 2 * Magnitude(w) * h = -(2 * wh)
            <7>1. Magnitude(w) = -w
              BY <6>2 DEF Magnitude
            <7>2. 2 * (-w) * h = -(2 * (w * h))
              OBVIOUS
            <7>. QED  BY <2>7, <7>1, <7>2
          <6>4. (2 * h - 1) * Magnitude(p) = 2 * hp - p
            <7>1. Magnitude(p) = p
              BY <5>1 DEF Magnitude
            <7>2. (2 * h - 1) * p = 2 * (h * p) - p
              OBVIOUS
            <7>. QED  BY <5>0, <7>1, <7>2
          <6>. QED  BY <6>1, <6>3, <6>4
        <5>2. CASE p < 0
          <6>1. wh = e - hp /\ e <= 0 /\ -(2 * e) < -p
            BY <2>2, <2>3, <2>5, <2>7, <2>9, <3>6, <3>8, <5>0, <5>2 DEF Magnitude
          <6>2. w >= 0
            <7>1. w < 0 => w * h < 0
              OBVIOUS
            <7>2. h * p <= p
              BY <5>2
            <7>. QED  BY <2>7, <5>0, <5>2, <6>1, <7>1, <7>2
          <6>3. 2 * Magnitude(w) * h = 2 * wh
            <7>1. Magnitude(w) = w
              BY <6>2 DEF Magnitude
            <7>2. 2 * w * h = 2 * (w * h)
              OBVIOUS
            <7>. QED  BY <2>7, <7>1, <7>2
          <6>4. (2 * h - 1) * Magnitude(p) = p - 2 * hp
            <7>1. Magnitude(p) = -p
              BY <5>2 DEF Magnitude
            <7>2. (2 * h - 1) * (-p) = p - 2 * (h * p)
              OBVIOUS
            <7>. QED  BY <5>0, <7>1, <7>2
          <6>. QED  BY <6>1, <6>3, <6>4
        <5>. QED  BY <1>2, <5>1, <5>2
      <4>. QED  BY <1>0, <3>4, <3>5, <4>1, <4>2 DEF Faithful
    <3>. QED  BY <3>7, <3>8
  <2>. QED  BY <2>8, <2>9
<1>. QED  BY <1>1, <1>2

----------------------------------------------------------------------------
(* Rows of the head, quantized and read back.                              *)

\* Where an element of a sequence cut in equal pieces is found.
Cut(len, size, i) ==
  /\ (len \div size) * size = len /\ len \div size \in Nat
  /\ (i - 1) \div size + 1 \in 1 .. len \div size
  /\ ((i - 1) % size) + 1 \in 1 .. size
  /\ ((i - 1) \div size) * size + ((i - 1) % size) = i - 1
  /\ ((i - 1) \div size + 1) * size <= len
  /\ ((i - 1) \div size) * size \in Nat
  /\ ((i - 1) \div size + 1) * size = ((i - 1) \div size) * size + size

\* Every element is in one whole piece.
LEMMA Pieces ==
  ASSUME NEW len \in Nat, NEW size \in Nat \ {0}, len % size = 0, NEW i \in 1 .. len
  PROVE  Cut(len, size, i)
<1>1. PICK num \in Int : num = len \div size /\ len = num * size
  <2>1. len = (len \div size) * size + 0 /\ len \div size \in Int
    BY DivMod
  <2>2. PICK num \in Int : num = len \div size
    BY <2>1
  <2>3. num * size \in Int
    OBVIOUS
  <2>. QED  BY <2>1, <2>2, <2>3
<1>2. PICK q \in Int, r \in 0 .. size - 1 : q = (i - 1) \div size /\ r = (i - 1) % size /\ i - 1 = q * size + r
  <2>1. i - 1 \in Int
    OBVIOUS
  <2>. QED  BY <2>1, DivMod
<1>3. q >= 0
  <2>1. q <= -1 => q * size <= -size
    <3>. SUFFICES ASSUME q <= -1 PROVE q * size <= -size
      OBVIOUS
    <3>1. PICK u \in Nat : q = -1 - u
      <4>1. -1 - q \in Nat /\ q = -1 - (-1 - q)
        OBVIOUS
      <4>. QED  BY <4>1
    <3>2. (-1 - u) * size = -size - u * size /\ u * size \in Nat
      BY NatClosed
    <3>. QED  BY <3>1, <3>2
  <2>. QED  BY <1>2, <2>1
<1>4. q + 1 <= num
  <2>1. q >= num => q * size >= num * size
    <3>. SUFFICES ASSUME q >= num PROVE q * size >= num * size
      OBVIOUS
    <3>1. PICK u \in Nat : q = num + u
      <4>1. q - num \in Nat /\ q = num + (q - num)
        OBVIOUS
      <4>. QED  BY <4>1
    <3>2. (num + u) * size = num * size + u * size /\ u * size \in Nat
      BY NatClosed
    <3>. QED  BY <3>1, <3>2
  <2>. QED  BY <1>1, <1>2, <2>1
<1>5. (q + 1) * size = q * size + size /\ q * size \in Nat
  BY <1>3, NatClosed
<1>6. (q + 1) * size <= num * size
  <2>1. PICK u \in Nat : num = q + 1 + u
    <3>1. num - (q + 1) \in Nat /\ num = q + 1 + (num - (q + 1))
      BY <1>4
    <3>. QED  BY <3>1
  <2>2. (q + 1 + u) * size = (q + 1) * size + u * size /\ u * size \in Nat
    BY NatClosed
  <2>. QED  BY <2>1, <2>2
<1>7. num \in Nat
  BY <1>3, <1>4
<1>. QED  BY <1>1, <1>2, <1>3, <1>4, <1>5, <1>6, <1>7 DEF Cut

\* The piece that element i belongs to.
PieceAt(row, size, i) ==
  LET q == (i - 1) \div size
  IN  SubSeq(row, q * size + 1, (q + 1) * size)

\* It has the element at its place.
HasElement(row, size, i) ==
  /\ PieceAt(row, size, i) \in [1 .. size -> Int]
  /\ ((i - 1) % size) + 1 \in 1 .. size
  /\ PieceAt(row, size, i)[((i - 1) % size) + 1] = row[i]

LEMMA InPiece ==
  ASSUME NEW len \in Nat, NEW size \in Nat \ {0}, len % size = 0, NEW row \in [1 .. len -> Int], NEW i \in 1 .. len
  PROVE  HasElement(row, size, i)
<1>1. PICK q : q = (i - 1) \div size
  OBVIOUS
<1>2. q \in Int /\ \E r \in Nat : r = (i - 1) % size
  <2>1. PICK a \in Int : a = i - 1
    OBVIOUS
  <2>2. a % size \in 0 .. size - 1 /\ a \div size \in Int
    BY DivMod
  <2>3. \A c \in 0 .. size - 1 : c \in Nat
    OBVIOUS
  <2>. QED  BY <1>1, <2>1, <2>2, <2>3
<1>3. PICK r \in Nat : r = (i - 1) % size
  BY <1>2
<1>4. PICK from \in Nat, to \in Nat :
        /\ from = q * size /\ to = (q + 1) * size
        /\ to = from + size /\ to <= len /\ r + 1 \in 1 .. size /\ from + r = i - 1
  <2>1. /\ ((i - 1) % size) + 1 \in 1 .. size
        /\ ((i - 1) \div size) * size + ((i - 1) % size) = i - 1
        /\ ((i - 1) \div size + 1) * size <= len
        /\ ((i - 1) \div size) * size \in Nat
        /\ ((i - 1) \div size + 1) * size = ((i - 1) \div size) * size + size
    <3>1. Cut(len, size, i)
      BY Pieces
    <3>. QED  BY <3>1 DEF Cut
  <2>2. (q + 1) * size \in Nat
    BY <1>1, <1>2, <2>1
  <2>. QED  BY <1>1, <1>3, <2>1, <2>2
<1>5. /\ SubSeq(row, from + 1, to) \in [1 .. size -> Int]
      /\ SubSeq(row, from + 1, to)[r + 1] = row[i]
  <2>1. SubSeq(row, from + 1, from + size) = [j \in 1 .. size |-> row[from + j]]
    <3>1. from + size <= len
      BY <1>4
    <3>2. size \in Nat
      OBVIOUS
    <3>. QED  BY <3>1, <3>2, PieceIs
  <2>2. from + (r + 1) = i /\ r + 1 \in 1 .. size /\ to = from + size
    <3>1. from + r = i - 1 /\ r + 1 \in 1 .. size /\ to = from + size
      BY <1>4
    <3>. QED  BY <3>1
  <2>3. \A j \in 1 .. size : row[from + j] \in Int
    <3>1. from + size <= len
      BY <1>4
    <3>2. \A j \in 1 .. size : from + j \in 1 .. len
      BY <3>1
    <3>. QED  BY <3>2
  <2>. QED  BY <2>1, <2>2, <2>3
<1>6. PieceAt(row, size, i) = SubSeq(row, from + 1, to)
  BY <1>1, <1>4 DEF PieceAt
<1>. QED  BY <1>3, <1>4, <1>5, <1>6 DEF HasElement

\* A row of the head, as quantize accepts it.
IsRow(row, len) ==
  /\ len \in Nat \ {0} /\ row \in [1 .. len -> Int]
  /\ len % GroupSize = 0 /\ len % PackFactor = 0

\* The group of element i of a row.
GroupAt(row, i) == WeightGroup(row, (i - 1) \div GroupSize + 1)

LEMMA GroupIs ==
  ASSUME NEW row, NEW len, IsRow(row, len), NEW i \in 1 .. len
  PROVE  /\ GroupAt(row, i) \in [1 .. GroupSize -> Int]
         /\ ((i - 1) % GroupSize) + 1 \in 1 .. GroupSize
         /\ GroupAt(row, i)[((i - 1) % GroupSize) + 1] = row[i]
<1>1. GroupSize \in Nat \ {0} /\ len \in Nat /\ len % GroupSize = 0 /\ row \in [1 .. len -> Int]
  BY GptqAssumption DEF IsRow
<1>2. PICK q \in Int : q = (i - 1) \div GroupSize
  <2>1. i - 1 \in Int
    OBVIOUS
  <2>. QED  BY <1>1, <2>1, DivMod
<1>3. (q + 1) - 1 = q
  OBVIOUS
<1>4. GroupAt(row, i) = PieceAt(row, GroupSize, i)
  BY <1>2, <1>3 DEF GroupAt, WeightGroup, PieceAt
<1>5. HasElement(row, GroupSize, i)
  BY <1>1, InPiece
<1>. QED  BY <1>4, <1>5 DEF HasElement

\* The weight that the scale of element i was picked from, and the byte written for it.
PickedAt(row, i) == Picked(GroupAt(row, i))

ByteAt(row, nan, i) ==
  IF PickedAt(row, i) = 0 THEN nan ELSE Clamp(RoundDiv(-row[i] * Half, PickedAt(row, i)) + Half)

\* That byte stands for the weight.
LEMMA ByteAtIs ==
  ASSUME NEW row, NEW len, IsRow(row, len), NEW nan \in 0 .. 2 * Half - 1, NEW i \in 1 .. len
  PROVE  /\ PickedAt(row, i) \in Int
         /\ ByteAt(row, nan, i) \in 0 .. 2 * Half - 1
         /\ Faithful(-(ByteAt(row, nan, i) - Half) * PickedAt(row, i), row[i], PickedAt(row, i))
<1>1. PICK group \in [1 .. GroupSize -> Int], j \in 1 .. GroupSize : group = GroupAt(row, i) /\ group[j] = row[i]
  BY GroupIs
<1>2. GroupSize \in Nat \ {0} /\ row[i] \in Int
  BY GptqAssumption DEF IsRow
<1>3. Picked(group) \in Int /\ Magnitude(row[i]) <= Magnitude(Picked(group))
  BY <1>1, <1>2, PickedIs
<1>4. PICK p \in Int, w \in Int : p = PickedAt(row, i) /\ w = row[i] /\ Magnitude(w) <= Magnitude(p)
  BY <1>1, <1>2, <1>3 DEF PickedAt
<1>5. PICK b : b = ByteAt(row, nan, i)
  OBVIOUS
<1>6. b = IF p = 0 THEN nan ELSE Clamp(RoundDiv(-w * Half, p) + Half)
  BY <1>4, <1>5 DEF ByteAt
<1>7. b \in 0 .. 2 * Half - 1 /\ Faithful(-(b - Half) * p, w, p)
  BY <1>4, <1>6, FaithfulByte
<1>. QED  BY <1>4, <1>5, <1>7

\* The bytes of a row.
LEMMA QuantizedRowIs ==
  ASSUME NEW row, NEW len, IsRow(row, len), NEW nan \in 0 .. 2 * Half - 1
  PROVE  /\ QuantizedRow(row, nan) \in [1 .. len -> 0 .. Pow2[Bits] - 1]
         /\ \A i \in 1 .. len : QuantizedRow(row, nan)[i] = ByteAt(row, nan, i)
<1>1. GroupSize \in Nat \ {0} /\ len \in Nat \ {0} /\ len % GroupSize = 0 /\ Len(row) = len
  BY GptqAssumption DEF IsRow
<1>2. (Len(row) \div GroupSize) * GroupSize = len
  <2>1. 1 \in 1 .. len
    BY <1>1
  <2>. QED  BY <1>1, <2>1, Pieces DEF Cut
<1>3. QuantizedRow(row, nan) = [i \in 1 .. len |-> QuantizedGroup(GroupAt(row, i), nan)[((i - 1) % GroupSize) + 1]]
  BY <1>2 DEF QuantizedRow, GroupAt
<1>4. ASSUME NEW i \in 1 .. len
      PROVE  /\ QuantizedGroup(GroupAt(row, i), nan)[((i - 1) % GroupSize) + 1] = ByteAt(row, nan, i)
             /\ ByteAt(row, nan, i) \in 0 .. Pow2[Bits] - 1
  <2>1. PICK j \in 1 .. GroupSize : j = ((i - 1) % GroupSize) + 1 /\ GroupAt(row, i)[j] = row[i]
    BY GroupIs
  <2>2. QuantizedGroup(GroupAt(row, i), nan)[j] = ByteAt(row, nan, i)
    BY <2>1 DEF QuantizedGroup, ByteAt, PickedAt
  <2>3. ByteAt(row, nan, i) \in 0 .. 2 * Half - 1
    BY ByteAtIs
  <2>. QED  BY <2>1, <2>2, <2>3, ByteIs
<1>5. QuantizedRow(row, nan) = [i \in 1 .. len |-> ByteAt(row, nan, i)]
  BY <1>3, <1>4
<1>. QED  BY <1>4, <1>5

\* The byte read back from the words of a row.
RowReads(words, bytes, len) ==
  /\ Len(words) = len \div PackFactor
  /\ \A i \in 1 .. len :
       (words[(i - 1) \div PackFactor + 1] \div Pow2[Bits * ((i - 1) % PackFactor)]) % Pow2[Bits] = bytes[i]

\* PackedRow packs so.
LEMMA PackedRowIs ==
  ASSUME NEW len \in Nat \ {0}, len % PackFactor = 0, NEW bytes \in [1 .. len -> 0 .. Pow2[Bits] - 1]
  PROVE  RowReads(PackedRow(bytes), bytes, len)
<1>1. PICK B : B = 0 .. Pow2[Bits] - 1
  OBVIOUS
<1>2. bytes \in Seq(B) /\ Len(bytes) = len /\ bytes \in [1 .. len -> B]
  <2>1. bytes \in [1 .. len -> B]
    BY <1>1
  <2>2. DOMAIN bytes = 1 .. len /\ len \in Nat
    BY <2>1
  <2>3. bytes \in Seq(B)
    BY <2>1, <2>2
  <2>4. Len(bytes) = len
    BY <2>2, <2>3
  <2>. QED  BY <2>1, <2>3, <2>4
<1>3. PackFactor \in Nat \ {0}
  BY PackFactorIs
<1>4. PICK words \in Nat : words = len \div PackFactor
  <2>1. 1 \in 1 .. len
    OBVIOUS
  <2>. QED  BY <1>3, <2>1, Pieces DEF Cut
<1>5. PackedRow(bytes) = [w \in 1 .. words |-> PackedWord(SubSeq(bytes, (w - 1) * PackFactor + 1, w * PackFactor))]
  BY <1>2, <1>4 DEF PackedRow
<1>6. Len(PackedRow(bytes)) = words
  BY <1>5
<1>7. ASSUME NEW i \in 1 .. len
      PROVE (PackedRow(bytes)[(i - 1) \div PackFactor + 1] \div Pow2[Bits * ((i - 1) % PackFactor)]) % Pow2[Bits] = bytes[i]
  <2>1. PICK q \in Int, r \in Nat : q = (i - 1) \div PackFactor /\ r = (i - 1) % PackFactor
    <3>1. PICK a \in Int : a = i - 1
      OBVIOUS
    <3>2. a % PackFactor \in 0 .. PackFactor - 1 /\ a \div PackFactor \in Int
      BY <1>3, DivMod
    <3>3. \A c \in 0 .. PackFactor - 1 : c \in Nat
      OBVIOUS
    <3>. QED  BY <3>1, <3>2, <3>3
  <2>2. PICK from \in Nat, to \in Nat :
          /\ from = q * PackFactor /\ to = (q + 1) * PackFactor
          /\ to = from + PackFactor /\ to <= len /\ r + 1 \in 1 .. PackFactor /\ from + r = i - 1
          /\ q + 1 \in 1 .. words
    <3>1. /\ ((i - 1) % PackFactor) + 1 \in 1 .. PackFactor
          /\ ((i - 1) \div PackFactor) * PackFactor + ((i - 1) % PackFactor) = i - 1
          /\ ((i - 1) \div PackFactor + 1) * PackFactor <= len
          /\ ((i - 1) \div PackFactor) * PackFactor \in Nat
          /\ ((i - 1) \div PackFactor + 1) * PackFactor = ((i - 1) \div PackFactor) * PackFactor + PackFactor
          /\ (i - 1) \div PackFactor + 1 \in 1 .. len \div PackFactor
      <4>1. Cut(len, PackFactor, i)
        BY <1>3, Pieces
      <4>. QED  BY <4>1 DEF Cut
    <3>2. (q + 1) * PackFactor \in Nat
      BY <1>3, <2>1, <3>1
    <3>. QED  BY <1>4, <2>1, <3>1, <3>2
  <2>3. PICK piece : piece = SubSeq(bytes, from + 1, to)
    OBVIOUS
  <2>4. piece \in [1 .. PackFactor -> B] /\ piece[r + 1] = bytes[i]
    <3>1. SubSeq(bytes, from + 1, from + PackFactor) = [j \in 1 .. PackFactor |-> bytes[from + j]]
      BY <1>2, <1>3, <2>2, PieceIs
    <3>2. from + (r + 1) = i /\ r + 1 \in 1 .. PackFactor /\ to = from + PackFactor
      <4>1. from + r = i - 1 /\ r + 1 \in 1 .. PackFactor /\ to = from + PackFactor
        BY <2>2
      <4>. QED  BY <4>1
    <3>3. \A j \in 1 .. PackFactor : bytes[from + j] \in B
      <4>1. from + PackFactor <= len
        BY <2>2
      <4>2. \A j \in 1 .. PackFactor : from + j \in 1 .. len
        BY <1>3, <4>1
      <4>. QED  BY <1>2, <4>2
    <3>. QED  BY <2>3, <3>1, <3>2, <3>3
  <2>5. PackedRow(bytes)[q + 1] = PackedWord(piece)
    <3>1. (q + 1) - 1 = q
      OBVIOUS
    <3>. QED  BY <1>5, <2>2, <2>3, <3>1
  <2>6. (PackedWord(piece) \div Pow2[Bits * ((r + 1) - 1)]) % Pow2[Bits] = piece[r + 1]
    BY <1>1, <2>2, <2>4, PackedWordIs
  <2>7. (r + 1) - 1 = r
    OBVIOUS
  <2>. QED  BY <2>1, <2>4, <2>5, <2>6, <2>7
<1>. QED  BY <1>4, <1>6, <1>7 DEF RowReads

\* A row read back from the head: each byte against the zero point, times its scale.
LEMMA DequantRowIs ==
  ASSUME NEW bf16 \in Weights, NEW nan \in 0 .. 2 * Half - 1, NEW r \in 0 .. OutRows - 1
  PROVE  \E len : /\ IsRow(bf16[r], len)
                  /\ DequantRow(QuantizedHead(bf16, nan), r) =
                       [i \in 1 .. len |-> -(ByteAt(bf16[r], nan, i) - Half) * PickedAt(bf16[r], i)]
<1>0. PICK row : row = bf16[r]
  OBVIOUS
<1>1. PICK len \in Nat \ {0} : row = bf16[r] /\ len = Len(row) /\ IsRow(row, len)
  <2>1. row = bf16[r]
    BY <1>0
  <2>2. row \in Seq(Int) /\ row # << >> /\ Len(row) % GroupSize = 0 /\ Len(row) % PackFactor = 0
    BY <2>1, WeightsAssumption
  <2>3. PICK len \in Nat : len = Len(row) /\ row \in [1 .. len -> Int] /\ len # 0
    BY <2>2
  <2>. QED  BY <2>1, <2>2, <2>3 DEF IsRow
<1>2. /\ PackFactor \in Nat \ {0} /\ OutRows \in Nat \ {0} /\ OutRows % PackFactor = 0
      /\ GroupSize \in Nat \ {0} /\ len % PackFactor = 0 /\ len % GroupSize = 0
  BY <1>1, PackFactorIs, DraftAssumption, GptqAssumption DEF IsRow
<1>. DEFINE hd == QuantizedHead(bf16, nan)
<1>3. DOMAIN bf16 = 0 .. OutRows - 1 /\ Cardinality(0 .. OutRows - 1) = OutRows
  BY <1>2, WeightsAssumption, FS_Interval
<1>4. /\ DOMAIN hd.qweight = 0 .. OutRows - 1
      /\ hd.qweight[r] = PackedRow(QuantizedRow(row, nan))
      /\ hd.qzeros = [i \in 1 .. OutRows \div PackFactor |-> PackedWord([j \in 1 .. PackFactor |-> Half - 1])]
      /\ hd.scales[r] = [g \in 1 .. len \div GroupSize |-> Picked(WeightGroup(row, g))]
  BY <1>1, <1>3 DEF QuantizedHead, Groups
<1>. HIDE DEF hd
<1>5. PICK wide \in Nat \ {0} : wide = OutRows \div PackFactor /\ OutRows = wide * PackFactor
  <2>1. 1 \in 1 .. OutRows
    BY <1>2
  <2>2. (OutRows \div PackFactor) * PackFactor = OutRows /\ OutRows \div PackFactor \in Nat
    BY <1>2, <2>1, Pieces DEF Cut
  <2>3. 0 * PackFactor = 0
    BY <1>2
  <2>. QED  BY <1>2, <2>2, <2>3
<1>6. Len(hd.qzeros) = wide /\ hd.qzeros[1] = PackedWord([j \in 1 .. PackFactor |-> Half - 1])
  BY <1>4, <1>5
<1>7. Cardinality(DOMAIN hd.qweight) \div Len(hd.qzeros) = PackFactor
  <2>1. (PackFactor * wide) \div wide = PackFactor
    BY <1>2, Multiple
  <2>2. PackFactor * wide = wide * PackFactor
    BY <1>2
  <2>. QED  BY <1>3, <1>4, <1>5, <1>6, <2>1, <2>2
<1>8. WordBits \div PackFactor = Bits
  <2>1. (Bits * PackFactor) \div PackFactor = Bits
    BY PackFactorIs, Multiple
  <2>2. Bits * PackFactor = PackFactor * Bits
    BY PackFactorIs
  <2>. QED  BY <2>1, <2>2, PackFactorIs
<1>9. PICK bytes \in [1 .. len -> 0 .. Pow2[Bits] - 1] :
        bytes = QuantizedRow(row, nan) /\ \A i \in 1 .. len : bytes[i] = ByteAt(row, nan, i)
  BY <1>1, QuantizedRowIs
<1>10. /\ Len(hd.qweight[r]) * PackFactor = len
       /\ \A i \in 1 .. len :
            (hd.qweight[r][(i - 1) \div PackFactor + 1] \div Pow2[Bits * ((i - 1) % PackFactor)]) % Pow2[Bits] = bytes[i]
  <2>1. 1 \in 1 .. len
    OBVIOUS
  <2>2. (len \div PackFactor) * PackFactor = len
    BY <1>2, <2>1, Pieces DEF Cut
  <2>3. RowReads(PackedRow(bytes), bytes, len)
    BY <1>2, PackedRowIs
  <2>4. hd.qweight[r] = PackedRow(bytes)
    BY <1>4, <1>9
  <2>. QED  BY <2>2, <2>3, <2>4 DEF RowReads
<1>11. len \div Len(hd.scales[r]) = GroupSize
  <2>1. 1 \in 1 .. len
    OBVIOUS
  <2>2. (len \div GroupSize) * GroupSize = len /\ len \div GroupSize \in Nat
    BY <1>2, <2>1, Pieces DEF Cut
  <2>3. PICK groups \in Nat : groups = len \div GroupSize /\ groups * GroupSize = len
    BY <2>2
  <2>4. groups # 0
    <3>1. 0 * GroupSize = 0
      BY <1>2
    <3>. QED  BY <2>3, <3>1
  <2>5. Len(hd.scales[r]) = groups
    BY <1>4, <2>3
  <2>6. (GroupSize * groups) \div groups = GroupSize
    BY <1>2, <2>4, Multiple
  <2>7. GroupSize * groups = groups * GroupSize
    BY <1>2
  <2>. QED  BY <2>3, <2>5, <2>6, <2>7
<1>12. ZeroPoint(hd, Bits) = Half
  <2>1. [j \in 1 .. PackFactor |-> Half - 1] \in [1 .. PackFactor -> 0 .. Pow2[Bits] - 1]
    BY ByteIs
  <2>2. PICK zeros \in [1 .. PackFactor -> 0 .. Pow2[Bits] - 1] : zeros = [j \in 1 .. PackFactor |-> Half - 1]
    BY <2>1
  <2>3. 1 \in 1 .. PackFactor /\ zeros[1] = Half - 1
    BY <1>2, <2>2
  <2>4. PackedWord(zeros) \in Int /\ (PackedWord(zeros) \div Pow2[Bits * (1 - 1)]) % Pow2[Bits] = Half - 1
    BY <2>3, PackedWordIs
  <2>5. Bits * (1 - 1) = 0
    BY PackFactorIs
  <2>6. PackedWord(zeros) \div 1 = PackedWord(zeros)
    BY <2>4
  <2>7. PackedWord(zeros) % Pow2[Bits] = Half - 1
    BY <2>4, <2>5, <2>6, Pow2Is
  <2>. QED  BY <1>6, <2>2, <2>7, ByteIs DEF ZeroPoint
<1>13. ASSUME NEW i \in 1 .. len
       PROVE  hd.scales[r][(i - 1) \div GroupSize + 1] = PickedAt(row, i)
  <2>1. (i - 1) \div GroupSize + 1 \in 1 .. len \div GroupSize
    BY <1>2, Pieces DEF Cut
  <2>. QED  BY <1>4, <2>1 DEF PickedAt, GroupAt
<1>14. DequantRow(hd, r) =
         [i \in 1 .. len |->
            -(((hd.qweight[r][(i - 1) \div PackFactor + 1] \div Pow2[Bits * ((i - 1) % PackFactor)]) % Pow2[Bits])
               - ZeroPoint(hd, Bits)) * hd.scales[r][(i - 1) \div GroupSize + 1]]
  BY <1>7, <1>8, <1>10, <1>11 DEF DequantRow
<1>15. DequantRow(hd, r) = [i \in 1 .. len |-> -(ByteAt(row, nan, i) - Half) * PickedAt(row, i)]
  BY <1>9, <1>10, <1>12, <1>13, <1>14
<1>. QED  BY <1>1, <1>15 DEF hd

\* A row of the head read back is the row that was quantized, as near as promised.
LEMMA RowFaithful ==
  ASSUME NEW bf16 \in Weights, NEW nan \in 0 .. 2 * Half - 1, NEW r \in 0 .. OutRows - 1,
         NEW row, row = bf16[r], NEW read, read = DequantRow(QuantizedHead(bf16, nan), r)
  PROVE  \E len : /\ IsRow(row, len) /\ read \in [1 .. len -> Int]
                  /\ \A i \in 1 .. len :
                       Faithful(read[i], row[i], Picked(WeightGroup(row, (i - 1) \div GroupSize + 1)))
<1>1. PICK len : IsRow(row, len) /\ read = [i \in 1 .. len |-> -(ByteAt(row, nan, i) - Half) * PickedAt(row, i)]
  BY DequantRowIs
<1>2. ASSUME NEW i \in 1 .. len
      PROVE  /\ -(ByteAt(row, nan, i) - Half) * PickedAt(row, i) \in Int
             /\ Faithful(read[i], row[i], Picked(WeightGroup(row, (i - 1) \div GroupSize + 1)))
  <2>1. /\ PickedAt(row, i) \in Int
        /\ ByteAt(row, nan, i) \in 0 .. 2 * Half - 1
        /\ Faithful(-(ByteAt(row, nan, i) - Half) * PickedAt(row, i), row[i], PickedAt(row, i))
    BY <1>1, ByteAtIs
  <2>2. read[i] = -(ByteAt(row, nan, i) - Half) * PickedAt(row, i)
    BY <1>1
  <2>3. PickedAt(row, i) = Picked(WeightGroup(row, (i - 1) \div GroupSize + 1))
    BY DEF PickedAt, GroupAt
  <2>4. -(ByteAt(row, nan, i) - Half) * PickedAt(row, i) \in Int
    <3>1. PICK b \in Int, p \in Int : b = ByteAt(row, nan, i) /\ p = PickedAt(row, i)
      BY <2>1
    <3>. QED  BY <3>1, ByteIs
  <2>. QED  BY <2>1, <2>2, <2>3, <2>4
<1>. QED  BY <1>1, <1>2

----------------------------------------------------------------------------
(* The rows of an int4 head (marlin_quantize).                             *)

\* A quotient is cut off by nothing if the scale was chosen for its extremes.
LEMMA NoneCutOff ==
  ASSUME NEW h \in Nat \ {0, 1}, NEW span \in Nat \ {0}, NEW m \in Int,
         m <= (h - 1) * span, -m <= h * span,
         NEW x \in Int, NEW y \in Int, y = x * span, 2 * (y - m) <= span, 2 * (m - y) <= span
  PROVE  x \in -h .. h - 1
<1>1. PICK hs \in Int : hs = h * span
  OBVIOUS
<1>2. (h - 1) * span = hs - span
  BY <1>1
<1>3. ~(x >= h)
  <2>. SUFFICES ASSUME x >= h PROVE FALSE
    OBVIOUS
  <2>1. PICK u \in Nat : x = h + u
    <3>1. x - h \in Nat /\ x = h + (x - h)
      OBVIOUS
    <3>. QED  BY <3>1
  <2>2. (h + u) * span = h * span + u * span /\ u * span \in Nat
    BY NatClosed
  <2>. QED  BY <1>1, <1>2, <2>1, <2>2
<1>4. ~(x <= -h - 1)
  <2>. SUFFICES ASSUME x <= -h - 1 PROVE FALSE
    OBVIOUS
  <2>1. PICK u \in Nat : x = -h - 1 - u
    <3>1. -h - 1 - x \in Nat /\ x = -h - 1 - (-h - 1 - x)
      OBVIOUS
    <3>. QED  BY <3>1
  <2>2. (-h - 1 - u) * span = -(h * span) - span - u * span /\ u * span \in Nat
    BY NatClosed
  <2>. QED  BY <1>1, <2>1, <2>2
<1>. QED  BY <1>3, <1>4

\* The span of a group covers its weights on either side.
LEMMA SpanCovers ==
  ASSUME NEW num \in Nat \ {0}, NEW group \in [1 .. num -> Int], NEW i \in 1 .. num
  PROVE  /\ Int4Span(group) \in Nat
         /\ Int4Span(group) = 0 => group[i] = 0
         /\ group[i] * Int4Unit \in Int
         /\ group[i] * Int4Unit <= (Int4Half - 1) * Int4Span(group)
         /\ -(group[i] * Int4Unit) <= Int4Half * Int4Span(group)
<1>1. PICK lo \in Int, hi \in Int, w \in Int :
        /\ lo = Min(Range(group)) /\ hi = Max(Range(group)) /\ w = group[i]
        /\ lo <= w /\ w <= hi
  BY Extremes
<1>2. PICK h \in Nat \ {0, 1} : h = Int4Half
  BY DraftAssumption
<1>3. PICK a \in Nat, b \in Nat : a = Magnitude(hi) /\ b = Magnitude(lo) /\ w <= a /\ -w <= b
  BY <1>1 DEF Magnitude
<1>4. PICK k \in Nat : k = h - 1 /\ k # 0
  BY <1>2
<1>5. a * h \in Nat /\ b * k \in Nat
  BY NatClosed
<1>6. PICK span \in Nat : span = Int4Span(group) /\ a * h <= span /\ b * k <= span
  <2>1. PICK ah \in Nat, bk \in Nat : ah = a * h /\ bk = b * k
    BY <1>5
  <2>2. Int4Span(group) = Max({ah, bk})
    BY <1>1, <1>2, <1>3, <1>4, <2>1 DEF Int4Span
  <2>3. Max({ah, bk}) = IF ah >= bk THEN ah ELSE bk
    BY MaxOf
  <2>. QED  BY <2>1, <2>2, <2>3
<1>7. w * h <= span /\ -(w * k) <= span
  <2>1. PICK u \in Nat, v \in Nat : u = a - w /\ v = b + w
    BY <1>3
  <2>2. u * h \in Nat /\ v * k \in Nat
    BY NatClosed
  <2>3. (a - w) * h = a * h - w * h /\ (b + w) * k = b * k + w * k
    OBVIOUS
  <2>4. PICK ah \in Int, bk \in Int, wh \in Int, wk \in Int : ah = a * h /\ bk = b * k /\ wh = w * h /\ wk = w * k
    OBVIOUS
  <2>. QED  BY <1>6, <2>1, <2>2, <2>3, <2>4
<1>8. span = 0 => w = 0
  <2>. SUFFICES ASSUME span = 0 PROVE w = 0
    OBVIOUS
  <2>1. w > 0 => w * h > 0
    <3>. SUFFICES ASSUME w > 0 PROVE w * h > 0
      OBVIOUS
    <3>1. PICK u \in Nat : w = u + 1
      <4>1. w - 1 \in Nat /\ w = (w - 1) + 1
        OBVIOUS
      <4>. QED  BY <4>1
    <3>2. (u + 1) * h = u * h + h /\ u * h \in Nat
      BY NatClosed
    <3>. QED  BY <3>1, <3>2
  <2>2. w < 0 => -(w * k) > 0
    <3>. SUFFICES ASSUME w < 0 PROVE -(w * k) > 0
      OBVIOUS
    <3>1. PICK u \in Nat : w = -1 - u
      <4>1. -1 - w \in Nat /\ w = -1 - (-1 - w)
        OBVIOUS
      <4>. QED  BY <4>1
    <3>2. (-1 - u) * k = -k - u * k /\ u * k \in Nat
      BY NatClosed
    <3>. QED  BY <1>4, <3>1, <3>2
  <2>. QED  BY <1>7, <2>1, <2>2
<1>9. w * (h * k) <= k * span /\ -(w * (h * k)) <= h * span
  <2>1. PICK u \in Nat, v \in Nat, wh \in Int, wk \in Int :
          wh = w * h /\ wk = w * k /\ u = span - wh /\ v = span + wk
    BY <1>7
  <2>2. k * u \in Nat /\ h * v \in Nat
    BY NatClosed
  <2>3. k * (span - wh) = k * span - k * wh /\ h * (span + wk) = h * span + h * wk
    OBVIOUS
  <2>4. k * (w * h) = w * (h * k) /\ h * (w * k) = w * (h * k)
    OBVIOUS
  <2>. QED  BY <2>1, <2>2, <2>3, <2>4
<1>10. Int4Unit = h * k
  BY <1>2, <1>4 DEF Int4Unit
<1>. QED  BY <1>1, <1>2, <1>4, <1>6, <1>8, <1>9, <1>10

\* Every weight of a requantized row is within half a step of what it was.
LEMMA RequantizedIs ==
  ASSUME NEW len \in Nat, len % Int4Group = 0, NEW row \in [1 .. len -> Int]
  PROVE  Requantized(row) \in [1 .. len -> Int] /\ WithinInt4(Requantized(row), row)
<1>1. ASSUME NEW i \in 1 .. len
      PROVE  /\ Requantized(row)[i] \in Int
             /\ 2 * Magnitude(Requantized(row)[i] - row[i] * Int4Unit) <= Int4Span(Int4GroupOf(row, i))
  <2>1. Int4Group \in Nat \ {0}
    BY DraftAssumption
  <2>2. PICK group \in [1 .. Int4Group -> Int], j \in 1 .. Int4Group :
          group = Int4GroupOf(row, i) /\ group[j] = row[i]
    <3>1. Int4GroupOf(row, i) = PieceAt(row, Int4Group, i)
      BY DEF Int4GroupOf, PieceAt
    <3>2. HasElement(row, Int4Group, i)
      BY <2>1, InPiece
    <3>. QED  BY <3>1, <3>2 DEF HasElement
  <2>3. PICK span \in Nat, m \in Int, h \in Nat \ {0, 1} :
          /\ span = Int4Span(group) /\ m = row[i] * Int4Unit /\ h = Int4Half
          /\ span = 0 => row[i] = 0
          /\ m <= (h - 1) * span /\ -m <= h * span
    BY <2>1, <2>2, SpanCovers, DraftAssumption
  <2>4. PICK q : q = Requantized(row)[i]
    OBVIOUS
  <2>5. q = IF span = 0 THEN 0 ELSE Int4Clamp(RoundDiv(m, span)) * span
    BY <2>2, <2>3, <2>4 DEF Requantized
  <2>6. CASE span = 0
    <3>1. row[i] = 0 /\ m = 0
      <4>1. Int4Unit \in Int
        BY <2>3 DEF Int4Unit
      <4>2. 0 * Int4Unit = 0
        BY <4>1
      <4>. QED  BY <2>3, <2>6, <4>2
    <3>2. q \in Int /\ 2 * Magnitude(q - m) <= span
      BY <2>5, <2>6, <3>1 DEF Magnitude
    <3>. QED  BY <2>2, <2>3, <2>4, <3>2
  <2>7. CASE span # 0
    <3>1. PICK x \in Int : x = RoundDiv(m, span) /\ 2 * Magnitude(x * span - m) <= Magnitude(span)
      <4>1. span \in Int \ {0}
        BY <2>7
      <4>. QED  BY <4>1, RoundDivIs
    <3>2. PICK y \in Int : y = x * span /\ 2 * Magnitude(y - m) <= span
      BY <3>1 DEF Magnitude
    <3>3. 2 * (y - m) <= span /\ 2 * (m - y) <= span
      BY <3>2 DEF Magnitude
    <3>4. x \in -h .. h - 1
      BY <2>3, <2>7, <3>2, <3>3, NoneCutOff
    <3>5. Int4Clamp(x) = x
      BY <2>3, <3>4 DEF Int4Clamp
    <3>6. q = y
      BY <2>5, <2>7, <3>1, <3>2, <3>5
    <3>. QED  BY <2>2, <2>3, <2>4, <3>2, <3>6
  <2>. QED  BY <2>6, <2>7
<1>2. DOMAIN row = 1 .. len
  OBVIOUS
<1>3. Requantized(row) \in [1 .. len -> Int]
  <2>1. PICK f : f = Requantized(row)
    OBVIOUS
  <2>2. f = [i \in 1 .. len |-> f[i]]
    BY <1>2, <2>1 DEF Requantized
  <2>3. \A i \in 1 .. len : f[i] \in Int
    BY <1>1, <2>1
  <2>. QED  BY <2>1, <2>2, <2>3
<1>. QED  BY <1>1, <1>2, <1>3 DEF WithinInt4

\* The row of the private head for token t.
PrivateRow(t) == IF int4 THEN Requantized(DequantRow(head, t)) ELSE DequantRow(head, t)

LEMMA PrivateRowScores ==
  ASSUME NEW nan \in 0 .. 2 * Half - 1, weights \in Weights, head = QuantizedHead(weights, nan),
         NEW t \in 0 .. OutRows - 1
  PROVE  ScoredByOwnRow(PrivateRow(t), t)
<1>1. PICK row, read : row = weights[t] /\ read = DequantRow(head, t)
  OBVIOUS
<1>2. PICK len : /\ IsRow(row, len) /\ read \in [1 .. len -> Int]
                 /\ \A i \in 1 .. len :
                      Faithful(read[i], row[i], Picked(WeightGroup(row, (i - 1) \div GroupSize + 1)))
  BY <1>1, RowFaithful
<1>3. /\ len \in Nat /\ DOMAIN row = 1 .. len /\ len % Int4Group = 0
  <2>1. len \in Nat /\ row \in [1 .. len -> Int]
    BY <1>2 DEF IsRow
  <2>2. Len(row) = len
    BY <2>1
  <2>. QED  BY <1>1, <2>1, <2>2, WeightsAssumption
<1>4. PICK f : f = PrivateRow(t)
  OBVIOUS
<1>5. f \in [1 .. len -> Int] /\ IF int4 THEN WithinInt4(f, read) ELSE f = read
  BY <1>1, <1>2, <1>3, <1>4, RequantizedIs DEF PrivateRow
<1>6. f # Masked
  <2>1. f \in Seq(Int)
    BY <1>3, <1>5
  <2>. QED  BY <2>1, DraftAssumption
<1>. QED  BY <1>1, <1>2, <1>3, <1>4, <1>5, <1>6 DEF ScoredByOwnRow

\* The private head holds the rows of the tokens selected.
LEMMA PrivateHeadIs ==
  ASSUME IdsOK
  PROVE  PrivateHead(Selected) = [i \in DOMAIN Selected |-> PrivateRow(Selected[i])]
<1>1. PICK sel, W : sel = Selected /\ W = 0 .. OutRows - 1
  OBVIOUS
<1>2. sel \in Seq(W) /\ sel # << >>
  BY <1>1, SelectedIs
<1>3. PICK len \in Nat : len = Len(sel)
  BY <1>2
<1>4. len # 0
  BY <1>2, <1>3
<1>5. sel \in Seq(Int)
  <2>1. \A t \in W : t \in Int
    BY <1>1
  <2>. QED  BY <1>2, <2>1
<1>6. FlattenSeq(Chunks(sel)) = sel
  BY <1>3, <1>4, <1>5, ChunksFlat
<1>. QED  BY <1>1, <1>6 DEF PrivateHead, PrivateRow

----------------------------------------------------------------------------
(* The draft head from the tools to the scores.                            *)

\* A private head that scores every token it has by the token's row.
Serves(st) ==
  IF idsFile = NoFile
  THEN st.ids = NoFile /\ \A t \in 0 .. Vocab - 1 : ScoredByOwnRow(st.rows[t + 1], t)
  ELSE /\ st.ids # NoFile
       /\ \A t \in 0 .. Vocab - 1 : t \in Range(st.ids) <=> t \in Range(idsFile)
       /\ \A i \in DOMAIN st.ids : ScoredByOwnRow(st.rows[i], st.ids[i])

\* The head in the checkpoint was quantized from the weights.
HeadOK == head # NoFile => \E nan \in 0 .. 2 * Half - 1 : weights \in Weights /\ head = QuantizedHead(weights, nan)

\* The inductive invariant of the draft head.
DraftInv ==
  /\ IdsOK /\ HeadOK /\ ~raised
  /\ stage = "prepare" => dvState = NotBuilt /\ draft = << >>
  /\ dvState # NotBuilt => Serves(dvState)
  /\ DraftScoresAreHeads

\* The private head that the first step builds.
LEMMA BuiltServes ==
  ASSUME IdsOK, HeadOK, head # NoFile,
         NEW st, st = [ids |-> IF idsFile = NoFile THEN NoFile ELSE Selected, rows |-> PrivateHead(Selected)]
  PROVE  Serves(st)
<1>1. PICK nan \in 0 .. 2 * Half - 1 : weights \in Weights /\ head = QuantizedHead(weights, nan)
  BY DEF HeadOK
<1>2. PICK sel : sel = Selected
  OBVIOUS
<1>3. PICK W : W = 0 .. OutRows - 1
  OBVIOUS
<1>4. sel \in Seq(W)
  BY <1>2, <1>3, SelectedIs
<1>5. st.rows = [i \in DOMAIN sel |-> PrivateRow(sel[i])]
  BY <1>2, PrivateHeadIs
<1>6. ASSUME NEW i \in DOMAIN sel PROVE ScoredByOwnRow(st.rows[i], sel[i])
  <2>1. sel[i] \in W
    BY <1>4
  <2>2. PICK r \in 0 .. OutRows - 1 : r = sel[i]
    BY <1>3, <2>1
  <2>3. ScoredByOwnRow(PrivateRow(r), r)
    BY <1>1, PrivateRowScores
  <2>. QED  BY <1>5, <2>2, <2>3
<1>7. CASE idsFile = NoFile
  <2>1. sel = [i \in 1 .. OutRows |-> i - 1]
    BY <1>2, <1>7 DEF Selected
  <2>2. ASSUME NEW t \in 0 .. Vocab - 1 PROVE ScoredByOwnRow(st.rows[t + 1], t)
    <3>1. t + 1 \in 1 .. OutRows /\ (t + 1) - 1 = t
      BY DraftAssumption
    <3>2. t + 1 \in DOMAIN sel /\ sel[t + 1] = t
      BY <2>1, <3>1
    <3>. QED  BY <1>6, <3>2
  <2>. QED  BY <1>7, <2>2 DEF Serves
<1>8. CASE idsFile # NoFile
  <2>1. st.ids = sel
    BY <1>2, <1>8
  <2>2. sel # NoFile
    <3>1. \A t \in W : t \in Int
      BY <1>3
    <3>2. sel \in Seq(Int)
      BY <1>4, <3>1
    <3>. QED  BY <3>2, DraftAssumption
  <2>3. \A t \in 0 .. Vocab - 1 : t \in Range(sel) <=> t \in Range(idsFile)
    <3>1. Range(sel) = {t \in 0 .. Vocab - 1 : t \in Range(idsFile)}
      BY <1>2, <1>8, SelectedIs
    <3>. QED  BY <3>1
  <2>. QED  BY <1>6, <1>8, <2>1, <2>2, <2>3 DEF Serves
<1>. QED  BY <1>7, <1>8

\* What a step drafts from such a head.
LEMMA ServesScores ==
  ASSUME NEW st, Serves(st), NEW f \in Logits(st)
  PROVE  \A t \in 0 .. Vocab - 1 :
           IF idsFile = NoFile \/ t \in Range(idsFile) THEN ScoredByOwnRow(f[t], t) ELSE f[t] = Masked
<1>. SUFFICES ASSUME NEW t \in 0 .. Vocab - 1
              PROVE  IF idsFile = NoFile \/ t \in Range(idsFile) THEN ScoredByOwnRow(f[t], t) ELSE f[t] = Masked
  OBVIOUS
<1>1. IF st.ids = NoFile THEN f[t] = st.rows[t + 1]
      ELSE IF t \in Range(st.ids) THEN \E i \in DOMAIN st.ids : st.ids[i] = t /\ f[t] = st.rows[i]
      ELSE f[t] = Masked
  BY DEF Logits
<1>2. CASE idsFile = NoFile
  BY <1>1, <1>2 DEF Serves
<1>3. CASE idsFile # NoFile
  BY <1>1, <1>3 DEF Serves
<1>. QED  BY <1>2, <1>3

\* A draft step.
LEMMA DraftsScores ==
  ASSUME DraftInv, ComputeLogits, stage \in {"draft", "prepare"}, stage # "prepare"
  PROVE  /\ ~raised' /\ DraftScoresAreHeads' /\ (dvState # NotBuilt => Serves(dvState))' 
<1>1. IdsOK /\ HeadOK /\ head # NoFile /\ Buildable(Selected)
  BY SelectedBuilds DEF DraftInv, ComputeLogits
<1>2. /\ dvState' = IF dvState # NotBuilt THEN dvState
                    ELSE [ids |-> IF idsFile = NoFile THEN NoFile ELSE Selected, rows |-> PrivateHead(Selected)]
      /\ draft' \in Logits(dvState') /\ raised' = raised
      /\ UNCHANGED <<idsFile, int4, weights, head>>
  BY <1>1 DEF ComputeLogits
<1>3. PICK st : st = dvState'
  OBVIOUS
<1>4. Serves(st)
  <2>1. CASE dvState # NotBuilt
    BY <1>2, <1>3, <2>1 DEF DraftInv
  <2>2. CASE dvState = NotBuilt
    BY <1>1, <1>2, <1>3, <2>2, BuiltServes
  <2>. QED  BY <2>1, <2>2
<1>5. \A t \in 0 .. Vocab - 1 :
        IF idsFile = NoFile \/ t \in Range(idsFile) THEN ScoredByOwnRow(draft'[t], t) ELSE draft'[t] = Masked
  <2>1. PICK f \in Logits(st) : f = draft'
    BY <1>2, <1>3
  <2>. QED  BY <1>4, <2>1, ServesScores
<1>6. DraftScoresAreHeads'
  BY <1>2, <1>5 DEF DraftScoresAreHeads, ScoredByOwnRow, WithinInt4
<1>7. Serves(dvState)'
  BY <1>2, <1>3, <1>4 DEF Serves, ScoredByOwnRow, WithinInt4
<1>. QED  BY <1>2, <1>6, <1>7 DEF DraftInv

\* Every step keeps the invariant.
LEMMA DraftInvKept == DraftInv /\ [StepNext]_stepVars => DraftInv'
<1>. SUFFICES ASSUME DraftInv, [StepNext]_stepVars PROVE DraftInv'
  OBVIOUS
<1>1. CASE Prepare
  <2>1. stage = "prepare" /\ stage' = "prepare" /\ dvState = NotBuilt /\ draft = << >> /\ ~raised
    BY <1>1 DEF Prepare, DraftInv
  <2>2. CASE BuildDraftVocab
    <3>1. UNCHANGED <<weights, head, dvState, draft, raised>> /\ head = NoFile
      BY <2>2 DEF BuildDraftVocab
    <3>2. IdsOK' /\ HeadOK'
      BY <2>2, <3>1, BuildsIds DEF IdsOK, HasIds, HeadOK
    <3>. QED  BY <2>1, <3>1, <3>2 DEF DraftInv, DraftScoresAreHeads
  <2>3. CASE QuantizeLmHead
    <3>1. UNCHANGED <<idsFile, dvState, draft, raised>>
      BY <2>3 DEF QuantizeLmHead
    <3>2. IdsOK' /\ HeadOK'
      BY <2>3, <3>1 DEF QuantizeLmHead, DraftInv, IdsOK, HasIds, HeadOK
    <3>. QED  BY <2>1, <3>1, <3>2 DEF DraftInv, DraftScoresAreHeads
  <2>. QED  BY <1>1, <2>2, <2>3 DEF Prepare
<1>2. CASE Draft
  <2>1. ComputeLogits /\ stage = "draft" /\ stage' # "prepare"
    BY <1>2 DEF Draft
  <2>2. UNCHANGED <<idsFile, weights, head>>
    BY <2>1 DEF ComputeLogits
  <2>3. IdsOK' /\ HeadOK'
    BY <2>2 DEF DraftInv, IdsOK, HasIds, HeadOK
  <2>4. stage \in {"draft", "prepare"} /\ stage # "prepare"
    BY <2>1
  <2>5. ~raised' /\ DraftScoresAreHeads' /\ (dvState # NotBuilt => Serves(dvState))'
    BY <2>1, <2>4, DraftsScores
  <2>. QED  BY <2>1, <2>3, <2>5 DEF DraftInv
<1>3. CASE /\ UNCHANGED <<idsFile, int4, weights, head, dvState, draft, raised>>
           /\ stage' = "prepare" => stage = "prepare"
  <2>1. IdsOK' /\ HeadOK' /\ DraftScoresAreHeads' /\ ~raised'
    BY <1>3 DEF DraftInv, IdsOK, HasIds, HeadOK, DraftScoresAreHeads, ScoredByOwnRow, WithinInt4
  <2>2. (dvState # NotBuilt => Serves(dvState))'
    BY <1>3 DEF DraftInv, Serves, ScoredByOwnRow, WithinInt4
  <2>. QED  BY <1>3, <2>1, <2>2 DEF DraftInv
\* Whether the head will be int4 is settled before it is built.
<1>4. CASE Serve
  <2>1. /\ dvState = NotBuilt /\ draft = << >> /\ stage' = "score"
        /\ UNCHANGED <<idsFile, weights, head, dvState, draft, raised>>
    BY <1>4 DEF Serve, DraftInv
  <2>. QED  BY <2>1 DEF DraftInv, IdsOK, HasIds, HeadOK, DraftScoresAreHeads
<1>5. CASE Score \/ Select \/ UNCHANGED stepVars
  BY <1>3, <1>5 DEF Score, Select, stepVars, draftVars
<1>. QED  BY <1>1, <1>2, <1>4, <1>5 DEF StepNext

\* The invariant, for every head and vocabulary.
LEMMA DraftInvHolds == StepSpec => []DraftInv
<1>1. StepInit => DraftInv
  BY DEF StepInit, DraftInit, DraftInv, IdsOK, HeadOK, DraftScoresAreHeads
<1>. QED  BY <1>1, DraftInvKept, PTL DEF StepSpec

\* With a vocabulary from the tool the first step that drafts can always build the
\* private head (_dv_build), whatever the alignment of its rows.
THEOREM DraftSurvives == StepSpec => []DraftNeverRaises
<1>1. DraftInv => DraftNeverRaises
  BY DEF DraftInv, DraftNeverRaises
<1>. QED  BY <1>1, DraftInvHolds, PTL

\* The scores of a draft are those of the bf16 head, to within the steps of the
\* quantizations they went through, each under its own token (_dv_compute_logits).
THEOREM DraftScoresFaithful == StepSpec => []DraftScoresAreHeads
<1>1. DraftInv => DraftScoresAreHeads
  BY DEF DraftInv
<1>. QED  BY <1>1, DraftInvHolds, PTL

----------------------------------------------------------------------------
(* The capture window of the profiler. Of the guard's telemetry nothing is *)
(* used: no step of it touches the capture.                                *)

CaptureType ==
  /\ phase \in {"idle", "ran"}
  /\ trigger \in BOOLEAN /\ prof \in BOOLEAN /\ stuck \in BOOLEAN
  /\ steps \in Nat /\ window \in Nat /\ failed \in Nat /\ touches \in Nat

\* While a capture runs, st["steps"] is behind the steps captured by the one that
\* is under way, and the window is not yet full between steps.
WindowCounted ==
  prof => window = (IF phase = "ran" THEN steps + 1 ELSE steps) /\ steps < Steps

\* A touch is still in the trigger, or became the capture under way, or was used
\* up by at most one failure.
TouchesPay ==
  ~stuck => /\ failed <= touches
            /\ trigger \/ prof => failed < touches
            /\ trigger /\ prof => failed + 1 < touches

IInv == CaptureType /\ WindowCounted /\ TouchesPay /\ TraceCoversWindow

LEMMA InitIInv == PInit => IInv
<1>. SUFFICES ASSUME PInit PROVE IInv
  OBVIOUS
<1>1. CaptureType /\ WindowCounted /\ TraceCoversWindow
  BY DEF PInit, CaptureType, WindowCounted, TraceCoversWindow
<1>2. TouchesPay
  BY DEF PInit, TouchesPay
<1>. QED  BY <1>1, <1>2 DEF IInv

\* A step begins, perhaps a capture with it.
LEMMA BeginKeeps ==
  ASSUME IInv, BeginStep
  PROVE  IInv'
<1>. USE DEF IInv
<1>0. Steps \in Nat \ {0}
  BY ProfileAssumption
<1>1. phase = "idle" /\ phase' = "ran" /\ UNCHANGED <<traces, touches, failed>>
  BY DEF BeginStep
<1>2. TraceCoversWindow'
  BY <1>1 DEF TraceCoversWindow
<1>3. CASE ~prof /\ trigger
  <2>1. /\ prof' = TRUE /\ steps' = 0 /\ window' = 1
        /\ \/ trigger' = FALSE /\ stuck' = stuck
           \/ trigger' = TRUE /\ stuck' = TRUE
    BY <1>3 DEF BeginStep, StartCapture
  <2>2. CaptureType'
    BY <1>1, <2>1 DEF CaptureType
  <2>3. WindowCounted'
    BY <1>0, <1>1, <2>1 DEF WindowCounted
  <2>4. TouchesPay'
    BY <1>1, <1>3, <2>1 DEF CaptureType, TouchesPay
  <2>. QED  BY <1>2, <2>2, <2>3, <2>4
<1>4. CASE ~(~prof /\ trigger)
  <2>1. UNCHANGED <<trigger, prof, steps, stuck>> /\ window' = Lengthened
    BY <1>4 DEF BeginStep
  <2>2. CaptureType' /\ WindowCounted'
    BY <1>0, <1>1, <2>1 DEF CaptureType, WindowCounted, Lengthened
  <2>3. TouchesPay'
    BY <1>1, <2>1 DEF TouchesPay
  <2>. QED  BY <1>2, <2>2, <2>3
<1>. QED  BY <1>3, <1>4

\* A step ends inside the window, or with nothing captured.
LEMMA EndKeeps ==
  ASSUME IInv, EndStep
  PROVE  IInv'
<1>. USE DEF IInv
<1>0. Steps \in Nat \ {0}
  BY ProfileAssumption
<1>1. /\ phase = "ran" /\ phase' = "idle" /\ steps' = IF prof THEN steps + 1 ELSE steps
      /\ prof => steps + 1 < Steps
      /\ UNCHANGED <<trigger, prof, traces, touches, window, failed, stuck>>
  BY <1>0 DEF EndStep, LastOfWindow, CaptureType
<1>2. CaptureType' /\ WindowCounted'
  BY <1>0, <1>1 DEF CaptureType, WindowCounted
<1>3. TouchesPay' /\ TraceCoversWindow'
  BY <1>1 DEF TouchesPay, TraceCoversWindow
<1>. QED  BY <1>2, <1>3

\* The engine starts again: the capture is gone, and at most one failure more was
\* counted, if there was one.
LEMMA RestartKeeps ==
  ASSUME IInv, Restart, failed' \in Nat,
         failed' = failed \/ (prof /\ failed' <= failed + 1)
  PROVE  IInv'
<1>. USE DEF IInv
<1>1. /\ phase' = "idle" /\ prof' = FALSE /\ steps' = 0 /\ window' = 0
      /\ UNCHANGED <<trigger, traces, touches, stuck>>
  BY DEF Restart
<1>2. CaptureType' /\ WindowCounted' /\ TraceCoversWindow'
  BY <1>1 DEF CaptureType, WindowCounted, TraceCoversWindow
<1>3. TouchesPay'
  <2>2. CASE failed' = failed
    BY <1>1, <2>2 DEF CaptureType, TouchesPay
  <2>3. CASE prof /\ failed' <= failed + 1
    <3>1. ~stuck => failed < touches /\ (trigger => failed + 1 < touches)
      BY <2>3 DEF TouchesPay
    <3>2. failed \in Nat /\ touches \in Nat /\ failed' \in Nat /\ failed' <= failed + 1
      BY <2>3 DEF CaptureType
    <3>3. ~stuck => failed' <= touches /\ (trigger => failed' < touches)
      BY <3>1, <3>2
    <3>4. prof' = FALSE /\ UNCHANGED <<trigger, touches, stuck>>
      BY <1>1
    <3>. QED  BY <3>3, <3>4 DEF TouchesPay
  <2>. QED  BY <2>2, <2>3
<1>. QED  BY <1>2, <1>3

\* The trace is written.
LEMMA WriteKeeps ==
  ASSUME IInv, WriteTrace
  PROVE  IInv'
<1>. USE DEF IInv
<1>0. Steps \in Nat \ {0}
  BY ProfileAssumption
<1>1. /\ phase = "ran" /\ prof /\ steps + 1 >= Steps
      /\ phase' = "idle" /\ prof' = FALSE /\ window' = 0 /\ steps' = steps + 1
      /\ traces' = {t \in traces : t.n # n + 1} \union {[n |-> n + 1, length |-> window]}
      /\ UNCHANGED <<trigger, touches, failed, stuck>>
  BY DEF WriteTrace, LastOfWindow
<1>2. window = Steps
  BY <1>0, <1>1 DEF CaptureType, WindowCounted
<1>3. TraceCoversWindow'
  BY <1>1, <1>2 DEF TraceCoversWindow
<1>4. CaptureType' /\ WindowCounted'
  BY <1>1 DEF CaptureType, WindowCounted
<1>5. TouchesPay'
  BY <1>1 DEF CaptureType, TouchesPay
<1>. QED  BY <1>3, <1>4, <1>5

LEMMA Inductive == IInv /\ [PNext]_allVars => IInv'
<1>1. SUFFICES ASSUME IInv, [PNext]_allVars PROVE IInv'
  OBVIOUS
<1>2. CASE TouchTrigger
  <2>1. touches' = touches + 1 /\ trigger' = TRUE
        /\ UNCHANGED <<phase, prof, steps, traces, window, failed, stuck>>
    BY <1>2 DEF TouchTrigger
  <2>3. TouchesPay'
    BY <1>1, <2>1 DEF IInv, CaptureType, TouchesPay
  <2>. QED  BY <1>1, <2>1, <2>3 DEF IInv, CaptureType, WindowCounted, TraceCoversWindow
<1>3. CASE StepRaises
  BY <1>1, <1>3, RestartKeeps DEF StepRaises, IInv, CaptureType
<1>4. CASE WriteFails
  <2>1. Restart /\ prof /\ (failed' = failed \/ failed' = failed + 1)
    BY <1>4 DEF WriteFails, LastOfWindow
  <2>. QED  BY <1>1, <2>1, RestartKeeps DEF IInv, CaptureType
<1>5. CASE (Device /\ UNCHANGED profVars) \/ UNCHANGED allVars
  BY <1>1, <1>5 DEF profVars, allVars, IInv, CaptureType, WindowCounted, TouchesPay, TraceCoversWindow
<1>. QED  BY <1>1, <1>2, <1>3, <1>4, <1>5, BeginKeeps, EndKeeps, WriteKeeps DEF PNext

\* The invariant, for every window, number of touches and number of errors.
THEOREM Invariance == PSpec => []IInv
BY InitIInv, Inductive, PTL DEF PSpec

\* A trace covers exactly the steps asked for.
THEOREM TracesFull == PSpec => []TraceCoversWindow
<1>1. IInv => TraceCoversWindow
  BY DEF IInv
<1>. QED  BY <1>1, Invariance, PTL

\* A touch of the trigger costs at most one engine.
THEOREM FailuresPaid == PSpec => []OneFailurePerTrigger
<1>1. IInv => OneFailurePerTrigger
  BY DEF IInv, TouchesPay, OneFailurePerTrigger
<1>. QED  BY <1>1, Invariance, PTL
===============================================================================
