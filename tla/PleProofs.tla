------------------------------ MODULE PleProofs ------------------------------
(***************************************************************************)
(* Proofs about the n-gram (PLE) table: how it is prepared, opened and     *)
(* gathered from (PleTable, PleGather), and the prefetch pipeline in front *)
(* of it (PlePrefetch).  For every size of the table, every division into  *)
(* shards and files, and batches of any length.                            *)
(***************************************************************************)
EXTENDS PleGather, PlePrefetch, SequenceTheorems, FiniteSetTheorems, TLAPS

----------------------------------------------------------------------------
(* Least and greatest elements.                                            *)

LEMMA MinExists ==
  ASSUME NEW S \in SUBSET Nat, S # {}
  PROVE  Min(S) \in S /\ \A x \in S : Min(S) <= x
<1>. DEFINE Below == {0 .. x : x \in S}
<1>1. IsWellFoundedOn(StrictSubsetOrdering(Nat), FiniteSubsetsOf(Nat))
  BY FS_StrictSubsetOrderingWellFounded
<1>2. Below \subseteq FiniteSubsetsOf(Nat) /\ Below # {}
  <2>1. ASSUME NEW x \in S PROVE 0 .. x \in FiniteSubsetsOf(Nat)
    BY FS_Interval DEF FiniteSubsetsOf
  <2>. QED  BY <2>1
<1>3. PICK b \in Below : \A c \in Below : ~(<<c, b>> \in StrictSubsetOrdering(Nat))
  BY <1>1, <1>2, WFMin
<1>4. PICK m \in S : b = 0 .. m
  BY <1>3
<1>5. ASSUME NEW y \in S, y < m PROVE FALSE
  <2>1. 0 .. y \in Below /\ 0 .. y \subseteq 0 .. m /\ 0 .. y # 0 .. m
    BY <1>5
  <2>2. 0 .. y \in SUBSET Nat /\ 0 .. m \in SUBSET Nat
    OBVIOUS
  <2>3. <<0 .. y, 0 .. m>> \in StrictSubsetOrdering(Nat)
    BY <2>1, <2>2 DEF StrictSubsetOrdering
  <2>. QED  BY <1>3, <1>4, <2>1, <2>3
<1>6. \A y \in S : m <= y
  BY <1>5
<1>. QED  BY <1>6 DEF Min

LEMMA MaxExists ==
  ASSUME NEW n \in Nat, NEW S \in SUBSET (0 .. n), S # {}
  PROVE  Max(S) \in S /\ \A x \in S : x <= Max(S)
<1>. DEFINE T == {n - x : x \in S}
<1>1. T \in SUBSET Nat /\ T # {}
  <2>1. \A x \in S : n - x \in Nat
    OBVIOUS
  <2>. QED  BY <2>1
<1>2. PICK t \in T : \A u \in T : t <= u
  BY <1>1, MinExists
<1>3. PICK m \in S : t = n - m
  BY <1>2
<1>4. ASSUME NEW x \in S PROVE m >= x
  <2>1. n - m <= n - x /\ x \in Int /\ m \in Int
    BY <1>2, <1>3
  <2>. QED  BY <2>1
<1>. QED  BY <1>4 DEF Max

LEMMA Pairs ==
  ASSUME NEW a \in Int, NEW b \in Int
  PROVE  /\ Min({a, b}) = IF a <= b THEN a ELSE b
         /\ Max({a, b}) = IF a >= b THEN a ELSE b
BY DEF Min, Max

----------------------------------------------------------------------------
(* Rows and shards.                                                        *)

LEMMA Product ==
  ASSUME NEW a \in Nat, NEW b \in Nat
  PROVE  a * b \in Nat
OBVIOUS

LEMMA DivBounds ==
  ASSUME NEW n \in Int, NEW d \in Nat \ {0}
  PROVE  n \div d \in Int /\ (n \div d) * d <= n /\ n < (n \div d) * d + d
OBVIOUS

LEMMA Multiple ==
  ASSUME NEW q \in Nat, NEW d \in Nat \ {0}
  PROVE  (q * d) % d = 0
<1>1. PICK x \in Nat : x = q * d
  BY Product
<1>2. PICK t, r \in Int : r = x % d /\ x = t * d + r /\ 0 <= r /\ r < d
  <2>1. x \div d \in Int /\ x % d \in Int /\ 0 <= x % d /\ x % d < d /\ x = (x \div d) * d + (x % d)
    BY <1>1
  <2>. QED  BY <2>1
<1>3. (q - t) * d = r
  BY <1>1, <1>2
<1>4. CASE q - t <= -1
  <2>1. (q - t) * d <= -d
    <3>1. t - q - 1 \in Nat /\ (t - q - 1) * d \in Nat
      BY <1>2, <1>4, Product
    <3>. QED  BY <1>2, <3>1
  <2>. QED  BY <1>2, <1>3, <2>1
<1>5. CASE q - t >= 1
  <2>1. (q - t) * d >= d
    <3>1. q - t - 1 \in Nat /\ (q - t - 1) * d \in Nat
      BY <1>2, <1>5, Product
    <3>. QED  BY <1>2, <3>1
  <2>. QED  BY <1>2, <1>3, <2>1
<1>6. CASE q - t = 0
  BY <1>1, <1>2, <1>3, <1>6
<1>. QED  BY <1>2, <1>4, <1>5, <1>6

LEMMA ShardSizeType == ShardSize \in Nat /\ ShardSize > 0
<1>1. Vocab \in Nat \ {0} /\ Parts \in Nat \ {0}
  BY TableAssumption
<1>2. PICK q \in Int : q = ShardSize /\ Vocab + Parts - 1 < q * Parts + Parts
  BY <1>1, DivBounds DEF ShardSize
<1>3. q > 0
  <2>1. CASE q <= 0
    <3>1. q * Parts <= 0
      BY <1>1, <2>1
    <3>. QED  BY <1>1, <1>2, <3>1
  <2>. QED  BY <2>1
<1>. QED  BY <1>2, <1>3

\* A row is found where its id says.
LEMMA RowPlace ==
  ASSUME NEW id \in Int
  PROVE  /\ ShardOf(id) \in Int /\ ShardOf(id) * ShardSize \in Int
         /\ LocalOf(id) \in Int /\ 0 <= LocalOf(id) /\ LocalOf(id) < ShardSize
         /\ LocalOf(id) = id - ShardOf(id) * ShardSize
         /\ RowAt(ShardOf(id), id) = id
BY ShardSizeType, DivBounds DEF ShardOf, LocalOf, RowAt

LEMMA ExpectedIs ==
  ASSUME NEW i \in Int
  PROVE  /\ Expected(i) = IF Vocab - i * ShardSize <= 0 THEN 0
                          ELSE IF Vocab - i * ShardSize < ShardSize THEN Vocab - i * ShardSize
                          ELSE ShardSize
         /\ Expected(i) \in Nat
<1>1. PICK rest \in Int : rest = Vocab - i * ShardSize
  BY ShardSizeType, TableAssumption
<1>2. PICK m \in Int : m = Min({ShardSize, rest}) /\ m = IF ShardSize <= rest THEN ShardSize ELSE rest
  BY ShardSizeType, Pairs
<1>3. Expected(i) = IF 0 >= m THEN 0 ELSE m
  <2>1. Expected(i) = Max({0, m})
    BY <1>1, <1>2 DEF Expected
  <2>. QED  BY <2>1, Pairs
<1>. QED  BY <1>1, <1>2, <1>3, ShardSizeType

----------------------------------------------------------------------------
(* What an opened table holds.                                             *)

Tables == [shards : [ShardIndexes -> Int], dtypes : SUBSET {"F8", "BF16"}, scale : BOOLEAN, cut : BOOLEAN]

\* The loader's checks have passed.
Opened ==
  /\ table \in Tables
  /\ Found # {}
  /\ \A i \in Found : table.shards[i] = Expected(i)

LEMMA MappedBounds ==
  ASSUME table \in Tables, Found # {}
  PROVE  Mapped \in Nat /\ \A i \in Found : i \in Int /\ i < Mapped
<1>1. Parts - 1 \in Nat /\ Found \in SUBSET (0 .. Parts - 1)
  BY TableAssumption DEF Found, Present, ShardIndexes
<1>2. PICK m \in Found : m = Max(Found) /\ \A i \in Found : i <= m
  BY <1>1, MaxExists
<1>3. Mapped = 1 + m
  BY <1>2 DEF Mapped
<1>4. m \in Nat /\ \A i \in Found : i \in Nat
  BY <1>1
<1>. QED  BY <1>2, <1>3, <1>4

LEMMA ReadableIsStored ==
  ASSUME Opened, NEW id \in Nat
  PROVE  Readable(ShardOf(id), LocalOf(id)) <=> Stored(id)
<1>1. PICK s, l, base \in Int : /\ s = ShardOf(id) /\ l = LocalOf(id) /\ base = s * ShardSize
                                /\ 0 <= l /\ l < ShardSize /\ l = id - base
  BY RowPlace
<1>2. Vocab \in Nat /\ ShardSize \in Nat
  BY TableAssumption, ShardSizeType
<1>3. s \in Found => (l < table.shards[s] <=> id < Vocab)
  <2>1. s \in Found => table.shards[s] = Expected(s)
    BY DEF Opened
  <2>. QED  BY <1>1, <1>2, <2>1, ExpectedIs
<1>. QED  BY <1>1, <1>2, <1>3 DEF Readable, Stored

\* No row of the table lies outside what is mapped.
LEMMA StoredInRange ==
  ASSUME Opened, NEW id \in Int, Stored(id)
  PROVE  0 <= id /\ id < ShardSize * Mapped
<1>1. PICK s, l, base \in Int : /\ s = ShardOf(id) /\ l = LocalOf(id) /\ base = s * ShardSize
                                /\ 0 <= l /\ l < ShardSize /\ l = id - base
  BY RowPlace
<1>2. s \in Found /\ s < Mapped /\ Mapped \in Nat /\ ShardSize \in Nat
  BY <1>1, MappedBounds, ShardSizeType DEF Stored, Opened
<1>3. (s + 1) * ShardSize <= ShardSize * Mapped
  <2>1. PICK m, size \in Nat : m = Mapped /\ size = ShardSize
    BY <1>2
  <2>2. PICK d \in Nat : d = m - s - 1
    <3>1. m - s - 1 \in Nat
      BY <1>2, <2>1
    <3>. QED  BY <3>1
  <2>3. d * size \in Nat
    BY <2>1, <2>2, Product
  <2>4. size * m = (s + 1) * size + d * size
    <3>1. m = s + 1 + d
      BY <2>1, <2>2
    <3>. QED  BY <2>1, <2>2, <3>1
  <2>5. (s + 1) * size \in Int
    BY <2>1
  <2>. QED  BY <2>1, <2>3, <2>4, <2>5
<1>4. (s + 1) * ShardSize = base + ShardSize
  BY <1>1, <1>2
<1>. QED  BY <1>1, <1>2, <1>3, <1>4 DEF Stored

----------------------------------------------------------------------------
(* The distinct ids of a batch.                                            *)

LEMMA RangeFinite ==
  ASSUME NEW s \in Seq(Int)
  PROVE  IsFiniteSet(ToSet(s)) /\ ToSet(s) \in SUBSET Int
<1>. DEFINE f == [i \in 1 .. Len(s) |-> s[i]]
<1>1. f \in Surjection(1 .. Len(s), ToSet(s))
  <2>1. ToSet(s) = {s[i] : i \in 1 .. Len(s)}
    BY DEF ToSet
  <2>. QED  BY <2>1 DEF Surjection
<1>2. IsFiniteSet(1 .. Len(s))
  BY FS_Interval
<1>3. IsFiniteSet(ToSet(s))
  BY <1>1, <1>2, FS_Surjection
<1>. QED  BY <1>3 DEF ToSet

\* Every number below the size of a finite set of integers is the rank of one of
\* its elements.
LEMMA RankExists ==
  ASSUME NEW S \in SUBSET Int, IsFiniteSet(S)
  PROVE  /\ Cardinality(S) \in Nat
         /\ \A x \in S : Cardinality(Smaller(S, x)) \in 0 .. Cardinality(S) - 1
         /\ \A x, y \in S : Cardinality(Smaller(S, x)) = Cardinality(Smaller(S, y)) => x = y
         /\ \A k \in 0 .. Cardinality(S) - 1 : \E x \in S : Cardinality(Smaller(S, x)) = k
<1>. DEFINE rank == [x \in S |-> Cardinality(Smaller(S, x))]
            ranks == 0 .. Cardinality(S) - 1
<1>1. Cardinality(S) \in Nat
  BY FS_CardinalityType
<1>2. ASSUME NEW x \in S, NEW y \in S, x < y
      PROVE  Cardinality(Smaller(S, x)) < Cardinality(Smaller(S, y))
  <2>1. Smaller(S, y) \in SUBSET S /\ Smaller(S, x) \in SUBSET Smaller(S, y)
    <3>1. \A z \in S : z < x => z < y
      BY <1>2
    <3>. QED  BY <3>1 DEF Smaller
  <2>2. IsFiniteSet(Smaller(S, y)) /\ IsFiniteSet(Smaller(S, x))
    BY <2>1, FS_Subset
  <2>3. x \in Smaller(S, y) /\ x \notin Smaller(S, x)
    BY <1>2 DEF Smaller
  <2>. QED  BY <2>1, <2>2, <2>3, FS_Subset, FS_CardinalityType
<1>3. ASSUME NEW x \in S PROVE Cardinality(Smaller(S, x)) \in ranks
  <2>1. Smaller(S, x) \in SUBSET S /\ x \notin Smaller(S, x)
    BY DEF Smaller
  <2>2. /\ IsFiniteSet(Smaller(S, x)) /\ Cardinality(Smaller(S, x)) <= Cardinality(S)
        /\ Cardinality(Smaller(S, x)) # Cardinality(S)
    BY <2>1, FS_Subset
  <2>. QED  BY <1>1, <2>2, FS_CardinalityType
<1>4. \A x, y \in S : Cardinality(Smaller(S, x)) = Cardinality(Smaller(S, y)) => x = y
  <2>1. SUFFICES ASSUME NEW x \in S, NEW y \in S, x # y
                 PROVE  Cardinality(Smaller(S, x)) # Cardinality(Smaller(S, y))
    OBVIOUS
  <2>2. x < y \/ y < x
    BY <2>1
  <2>3. Cardinality(Smaller(S, x)) \in Int /\ Cardinality(Smaller(S, y)) \in Int
    BY <1>3
  <2>. QED  BY <1>2, <2>2, <2>3
<1>5. rank \in Injection(S, ranks)
  BY <1>3, <1>4 DEF Injection, IsInjective
<1>6. IsFiniteSet(ranks) /\ Cardinality(ranks) = Cardinality(S)
  BY <1>1, FS_Interval
<1>7. rank \in Surjection(S, ranks)
  BY <1>5, <1>6, FS_Injection
<1>8. \A k \in ranks : \E x \in S : Cardinality(Smaller(S, x)) = k
  BY <1>7 DEF Surjection
<1>. QED  BY <1>1, <1>3, <1>4, <1>8

\* np.unique: the distinct ids, and of each id of the batch where it is.
LEMMA UniqueFacts ==
  ASSUME NEW s \in Seq(Int)
  PROVE  /\ Unique(s) \in Seq(Int)
         /\ \A k \in 1 .. Len(Unique(s)) : \E i \in 1 .. Len(s) : Unique(s)[k] = s[i]
         /\ \A i \in 1 .. Len(s) : \E k \in 1 .. Len(Unique(s)) : Unique(s)[k] = s[i]
<1>. DEFINE S == ToSet(s)
            n == Cardinality(S)
<1>1. S \in SUBSET Int /\ IsFiniteSet(S)
  BY RangeFinite
<1>2. n \in Nat
  BY <1>1, RankExists
<1>3. ASSUME NEW k \in 1 .. n
      PROVE  Unique(s)[k] \in S /\ Cardinality(Smaller(S, Unique(s)[k])) = k - 1
  <2>1. k - 1 \in 0 .. n - 1
    BY <1>2
  <2>2. \E x \in S : Cardinality(Smaller(S, x)) = k - 1
    BY <1>1, <2>1, RankExists
  <2>3. Unique(s)[k] = CHOOSE x \in S : Cardinality(Smaller(S, x)) = k - 1
    BY DEF Unique
  <2>. QED  BY <2>2, <2>3
<1>4. Unique(s) \in [1 .. n -> Int]
  <2>1. Unique(s) = [k \in 1 .. n |-> Unique(s)[k]]
    BY DEF Unique
  <2>. QED  BY <1>1, <1>3, <2>1
<1>5. Unique(s) \in Seq(Int) /\ Len(Unique(s)) = n
  BY <1>2, <1>4
<1>6. ASSUME NEW i \in 1 .. Len(s)
      PROVE  \E k \in 1 .. n : Unique(s)[k] = s[i]
  <2>1. s[i] \in S
    BY DEF ToSet
  <2>2. Cardinality(Smaller(S, s[i])) \in 0 .. n - 1
    BY <1>1, <2>1, RankExists
  <2>3. PICK k \in 1 .. n : Cardinality(Smaller(S, s[i])) = k - 1
    <3>1. Cardinality(Smaller(S, s[i])) + 1 \in 1 .. n
      BY <1>2, <2>2
    <3>. QED  BY <2>2, <3>1
  <2>4. Unique(s)[k] = s[i]
    BY <1>1, <1>3, <2>1, <2>3, RankExists
  <2>. QED  BY <2>4
<1>7. \A x \in S : \E i \in 1 .. Len(s) : x = s[i]
  BY DEF ToSet
<1>. QED  BY <1>3, <1>5, <1>6, <1>7

LEMMA InverseFacts ==
  ASSUME NEW s \in Seq(Int)
  PROVE  /\ Len(InverseOf(s)) = Len(s)
         /\ \A i \in 1 .. Len(s) : /\ InverseOf(s)[i] \in 1 .. Len(Unique(s))
                                   /\ Unique(s)[InverseOf(s)[i]] = s[i]
<1>1. InverseOf(s) = [i \in 1 .. Len(s) |-> CHOOSE k \in 1 .. Len(Unique(s)) : Unique(s)[k] = s[i]]
  BY DEF InverseOf
<1>2. ASSUME NEW i \in 1 .. Len(s)
      PROVE  InverseOf(s)[i] \in 1 .. Len(Unique(s)) /\ Unique(s)[InverseOf(s)[i]] = s[i]
  <2>1. \E k \in 1 .. Len(Unique(s)) : Unique(s)[k] = s[i]
    BY UniqueFacts
  <2>2. InverseOf(s)[i] = CHOOSE k \in 1 .. Len(Unique(s)) : Unique(s)[k] = s[i]
    BY <1>1
  <2>. QED  BY <2>1, <2>2
<1>3. Len(InverseOf(s)) = Len(s)
  <2>1. InverseOf(s) \in [1 .. Len(s) -> 1 .. Len(Unique(s))]
    BY <1>1, <1>2
  <2>2. Len(s) \in Nat
    OBVIOUS
  <2>. QED  BY <2>1, <2>2
<1>. QED  BY <1>2, <1>3

----------------------------------------------------------------------------
(* The tasks of a batch.                                                   *)

\* The end of a run that begins at k, and that it is one.
LEMMA RunEnds ==
  ASSUME NEW u \in Seq(Int), NEW k \in 1 .. Len(u)
  PROVE  /\ EndOf(u, k) \in k + 1 .. Len(u) + 1
         /\ \A e \in k .. EndOf(u, k) - 1 : ShardOf(u[e]) = ShardOf(u[k])
         /\ EndOf(u, k) = Len(u) + 1 \/ ShardOf(u[EndOf(u, k)]) # ShardOf(u[k])
<1>. DEFINE ends == {e \in k + 1 .. Len(u) + 1 : e = Len(u) + 1 \/ ShardOf(u[e]) # ShardOf(u[k])}
<1>1. ends \in SUBSET Nat /\ Len(u) + 1 \in ends
  OBVIOUS
<1>2. EndOf(u, k) \in ends /\ \A e \in ends : EndOf(u, k) <= e
  BY <1>1, MinExists DEF EndOf
<1>3. ASSUME NEW e \in k .. EndOf(u, k) - 1 PROVE ShardOf(u[e]) = ShardOf(u[k])
  <2>1. e \notin ends
    BY <1>2
  <2>2. e = k \/ e \in k + 1 .. Len(u)
    BY <1>2
  <2>. QED  BY <2>1, <2>2
<1>. QED  BY <1>2, <1>3

\* A task stays within the batch and within one shard.
LEMMA TaskFacts ==
  ASSUME NEW u \in Seq(Int), NEW t \in Tasks(u)
  PROVE  /\ t.first \in Int /\ t.last \in Int
         /\ \A p \in t.first .. t.last : p \in 1 .. Len(u) /\ ShardOf(u[p]) = t.shard
<1>0. PICK k \in Starts(u) :
        \E c \in k .. EndOf(u, k) - 1 :
          t = [shard |-> ShardOf(u[k]), first |-> c, last |-> Min({c + Chunk, EndOf(u, k)}) - 1]
  BY DEF Tasks
<1>1. PICK c \in k .. EndOf(u, k) - 1 :
        t = [shard |-> ShardOf(u[k]), first |-> c, last |-> Min({c + Chunk, EndOf(u, k)}) - 1]
  BY <1>0
<1>2. k \in 1 .. Len(u)
  BY <1>0 DEF Starts
<1>3. /\ EndOf(u, k) \in k + 1 .. Len(u) + 1
      /\ \A e \in k .. EndOf(u, k) - 1 : ShardOf(u[e]) = ShardOf(u[k])
  BY <1>2, RunEnds
<1>4. PICK m \in Int : m = Min({c + Chunk, EndOf(u, k)}) /\ m <= EndOf(u, k)
  <2>1. c \in Int /\ c + Chunk \in Int /\ EndOf(u, k) \in Int
    BY <1>1, <1>2, <1>3, SizesAssumption
  <2>2. Min({c + Chunk, EndOf(u, k)}) = IF c + Chunk <= EndOf(u, k) THEN c + Chunk ELSE EndOf(u, k)
    BY <2>1, Pairs
  <2>. QED  BY <2>1, <2>2
<1>5. t.shard = ShardOf(u[k]) /\ t.first = c /\ t.last = m - 1
  BY <1>1, <1>4
<1>6. PICK end \in Int : end = EndOf(u, k)
  BY <1>2, <1>3
<1>7. ASSUME NEW p \in t.first .. t.last
      PROVE  p \in 1 .. Len(u) /\ ShardOf(u[p]) = t.shard
  <2>1. p \in k .. end - 1
    BY <1>1, <1>2, <1>4, <1>5, <1>6
  <2>2. p \in 1 .. Len(u)
    BY <1>2, <1>3, <1>6, <2>1
  <2>. QED  BY <1>3, <1>5, <1>6, <2>1, <2>2
<1>8. t.first \in Int /\ t.last \in Int
  BY <1>1, <1>2, <1>4, <1>5, <1>6
<1>. QED  BY <1>7, <1>8

\* Every position is read by some task: it lies in the run of its shard, and in a
\* chunk of the run.
LEMMA TasksCover ==
  ASSUME NEW u \in Seq(Int), NEW p \in 1 .. Len(u)
  PROVE  \E t \in Tasks(u) : p \in t.first .. t.last
<1>. DEFINE from == {j \in 1 .. p : \A e \in j .. p : ShardOf(u[e]) = ShardOf(u[p])}
<1>1. from \in SUBSET Nat /\ p \in from
  OBVIOUS
<1>2. PICK k \in from : \A j \in from : k <= j
  BY <1>1, MinExists
<1>3. k \in 1 .. p /\ k \in 1 .. Len(u) /\ \A e \in k .. p : ShardOf(u[e]) = ShardOf(u[p])
  OBVIOUS
<1>4. k \in Starts(u)
  <2>1. ASSUME k # 1 PROVE ShardOf(u[k]) # ShardOf(u[k - 1])
    <3>1. k - 1 \notin from /\ k - 1 \in 1 .. p
      <4>1. k - 1 \in 1 .. p /\ ~(k <= k - 1)
        BY <1>3, <2>1
      <4>. QED  BY <1>2, <4>1
    <3>2. PICK e \in k - 1 .. p : ShardOf(u[e]) # ShardOf(u[p])
      BY <3>1
    <3>3. e = k - 1 /\ ShardOf(u[k]) = ShardOf(u[p])
      BY <1>3, <3>2
    <3>. QED  BY <3>2, <3>3
  <2>. QED  BY <1>3, <2>1 DEF Starts
<1>5. PICK end \in Int : end = EndOf(u, k) /\ end \in k + 1 .. Len(u) + 1 /\ p < end
  <2>1. PICK end \in Int : /\ end = EndOf(u, k) /\ end \in k + 1 .. Len(u) + 1
                           /\ end = Len(u) + 1 \/ ShardOf(u[end]) # ShardOf(u[k])
    <3>1. /\ EndOf(u, k) \in k + 1 .. Len(u) + 1
          /\ EndOf(u, k) = Len(u) + 1 \/ ShardOf(u[EndOf(u, k)]) # ShardOf(u[k])
      BY <1>3, RunEnds
    <3>2. EndOf(u, k) \in Int
      BY <1>3, <3>1
    <3>. QED  BY <3>1, <3>2
  <2>2. ShardOf(u[k]) = ShardOf(u[p])
    BY <1>3
  <2>3. end \in k .. p => ShardOf(u[end]) = ShardOf(u[p])
    BY <1>3
  <2>. QED  BY <1>3, <2>1, <2>2, <2>3
<1>6. Chunk \in Nat \ {0}
  BY SizesAssumption
<1>7. PICK c \in Int : c <= p /\ p < c + Chunk /\ k <= c /\ (c - k) % Chunk = 0
  <2>1. PICK q, w \in Int : q = (p - k) \div Chunk /\ w = q * Chunk /\ w <= p - k /\ p - k < w + Chunk
    <3>1. p - k \in Int
      BY <1>3
    <3>2. (p - k) \div Chunk \in Int /\ ((p - k) \div Chunk) * Chunk \in Int
      BY <1>6, <3>1, DivBounds
    <3>. QED  BY <1>6, <3>1, <3>2, DivBounds
  <2>2. q >= 0
    <3>1. CASE q <= -1
      <4>1. q * Chunk <= -Chunk
        BY <1>6, <3>1
      <4>. QED  BY <1>3, <1>6, <2>1, <4>1
    <3>. QED  BY <3>1
  <2>3. w >= 0 /\ w % Chunk = 0
    <3>1. q \in Nat
      BY <2>1, <2>2
    <3>2. q * Chunk \in Nat /\ (q * Chunk) % Chunk = 0
      BY <1>6, <3>1, Multiple, Product
    <3>. QED  BY <2>1, <3>2
  <2>4. PICK c \in Int : c = k + w /\ c - k = w
    BY <1>3, <2>1
  <2>5. c <= p /\ p < c + Chunk /\ k <= c
    BY <1>3, <1>6, <2>1, <2>3, <2>4
  <2>6. (c - k) % Chunk = 0
    BY <2>3, <2>4
  <2>. QED  BY <2>5, <2>6
<1>. HIDE DEF from
<1>8. PICK t \in Tasks(u) : t.first = c /\ t.last = Min({c + Chunk, end}) - 1
  <2>1. c \in {d \in k .. EndOf(u, k) - 1 : (d - k) % Chunk = 0}
    BY <1>3, <1>5, <1>7
  <2>2. [shard |-> ShardOf(u[k]), first |-> c, last |-> Min({c + Chunk, EndOf(u, k)}) - 1] \in Tasks(u)
    <3>1. [shard |-> ShardOf(u[k]), first |-> c, last |-> Min({c + Chunk, EndOf(u, k)}) - 1]
          \in {[shard |-> ShardOf(u[k]), first |-> d, last |-> Min({d + Chunk, EndOf(u, k)}) - 1] :
                 d \in {d \in k .. EndOf(u, k) - 1 : (d - k) % Chunk = 0}}
      BY <2>1
    <3>. QED  BY <1>4, <3>1 DEF Tasks
  <2>. QED  BY <1>5, <2>2
<1>9. p \in t.first .. t.last
  <2>1. c + Chunk \in Int
    BY <1>5, <1>6
  <2>2. Min({c + Chunk, end}) = IF c + Chunk <= end THEN c + Chunk ELSE end
    BY <2>1, Pairs
  <2>. QED  BY <1>3, <1>5, <1>7, <1>8, <2>1, <2>2
<1>. QED  BY <1>8, <1>9

----------------------------------------------------------------------------
(* The inductive invariant.                                                *)

Phases ==
  {"preparing", "loading", "loaded", "refused", "ready", "gathering", "returned", "raised"}

GatherTypeOK ==
  /\ fetched \in SUBSET DOMAIN Files
  /\ lean \in [DOMAIN Files -> {"absent", "cut", "whole"}]
  /\ copying = NotRunning \/ copying \in SUBSET fetched
  /\ complete \in BOOLEAN
  /\ phase \in Phases
  /\ table \in Tables
  /\ prepared \in BOOLEAN
  /\ loads \in Seq(BOOLEAN)
  /\ calls \in Nat
  /\ scale \in {"none", "table", "streamed"}

\* A file that is no longer to be copied is whole in the copy, and only a finished
\* copy of a finished download counts as complete.
CopyInv ==
  /\ copying # NotRunning => ~complete /\ \A f \in fetched \ copying : lean[f] = "whole"
  /\ complete => fetched = DOMAIN Files /\ \A f \in DOMAIN Files : lean[f] = "whole"

\* A finished directory shows the loader the whole table.
ServedInv ==
  prepared => phase \in {"loading", "loaded"} /\ table = TableIn(DOMAIN Files, FALSE)

\* The scale after the calls made so far.
ScaleInv ==
  phase \in {"loading", "loaded"} =>
    /\ loads # << >> /\ calls <= Len(loads)
    /\ phase = "loaded" => calls = Len(loads)
    /\ scale = IF \E i \in 1 .. calls : loads[i] THEN "streamed"
               ELSE IF calls > 0 /\ "F8" \in table.dtypes THEN "table" ELSE "none"

\* From the first call on, the table is one whose shards have the size expected.
AcceptedInv ==
  \/ phase = "loading" /\ calls > 0
  \/ phase \in {"loaded", "ready", "gathering", "returned", "raised"}
  => Opened

TableInv == GatherTypeOK /\ CopyInv /\ ServedInv /\ ScaleInv /\ AcceptedInv

\* While the pool works, a row of the output is the one asked for, or its task has
\* still to run.
PoolInv ==
  phase = "gathering" =>
    /\ uniq = Unique(Asked(ids, expand))
    /\ \A k \in 1 .. Len(uniq) : 0 <= uniq[k]
    /\ out \in [1 .. Len(uniq) -> Int]
    /\ todo \in SUBSET Tasks(uniq)
    /\ \A k \in 1 .. Len(uniq) :
         \/ \E t \in todo : k \in t.first .. t.last
         \/ Stored(uniq[k]) /\ out[k] = uniq[k]

GatherInv ==
  /\ ids \in Seq(Int) /\ expand \in BOOLEAN
  /\ PoolInv
  /\ AnswerExact
  /\ RaisesOnlyForAbsentRows

GatherIInv == TableInv /\ GatherInv

----------------------------------------------------------------------------
(* Preparing and opening the table.                                        *)

LEMMA TableInIs ==
  ASSUME NEW files \in SUBSET DOMAIN Files, NEW cut \in BOOLEAN
  PROVE  TableIn(files, cut) \in Tables
<1>1. \A i \in ShardIndexes : Expected(i) \in Int
  BY ExpectedIs, TableAssumption DEF ShardIndexes
<1>. QED  BY <1>1 DEF TableIn, Tables, NoShard

LEMMA WholeTable ==
  LET t == TableIn(DOMAIN Files, FALSE)
  IN  /\ Present(t) = ShardIndexes /\ ShardIndexes # {}
      /\ t.dtypes = {"F8"} /\ t.scale = TRUE /\ t.cut = FALSE
      /\ \A i \in ShardIndexes : t.shards[i] = Expected(i)
<1>. DEFINE t == TableIn(DOMAIN Files, FALSE)
<1>1. \A i \in ShardIndexes : \E f \in DOMAIN Files : i \in Files[f]
  BY TableAssumption DEF ShardIndexes
<1>2. \A i \in ShardIndexes : t.shards[i] = Expected(i)
  BY <1>1 DEF TableIn
<1>3. \A i \in ShardIndexes : t.shards[i] # NoShard
  <2>1. SUFFICES ASSUME NEW i \in ShardIndexes PROVE t.shards[i] # NoShard
    OBVIOUS
  <2>2. i \in Int
    BY TableAssumption DEF ShardIndexes
  <2>3. Expected(i) \in Nat
    BY <2>2, ExpectedIs
  <2>4. Expected(i) # NoShard
    BY <2>3 DEF NoShard
  <2>. QED  BY <1>2, <2>4
<1>4. ShardIndexes # {}
  <2>1. Parts \in Nat \ {0}
    BY TableAssumption
  <2>2. 0 \in ShardIndexes
    BY <2>1 DEF ShardIndexes
  <2>. QED  BY <2>2
<1>5. DOMAIN Files # {} /\ ScaleFile \in DOMAIN Files
  BY TableAssumption
<1>6. t.dtypes = {"F8"} /\ t.scale = TRUE /\ t.cut = FALSE
  BY <1>5 DEF TableIn
<1>. QED  BY <1>2, <1>3, <1>4, <1>6 DEF Present

LEMMA CheckpointTablesTyped == CheckpointTables \in SUBSET Tables
<1>1. {NoShard} \cup 0 .. ShardSize \in SUBSET Int
  BY DEF NoShard
<1>2. ASSUME NEW t \in CheckpointTables PROVE t \in Tables
  BY <1>1 DEF CheckpointTables, Tables
<1>. QED  BY <1>2

LEMMA CopyingFile ==
  ASSUME GatherTypeOK, copying \notin {NotRunning, {}}
  PROVE  Min(copying) \in copying /\ copying \in SUBSET fetched
<1>1. copying \in SUBSET fetched /\ copying \in SUBSET Nat /\ copying # {}
  BY TableAssumption DEF GatherTypeOK
<1>. QED  BY <1>1, MinExists

LEMMA NotCopying == \A S \in SUBSET DOMAIN Files : S # NotRunning
<1>1. -1 \in NotRunning /\ -1 \notin Nat
  BY DEF NotRunning
<1>2. DOMAIN Files \in SUBSET Nat
  BY TableAssumption
<1>. QED  BY <1>1, <1>2

LEMMA NoCalls == << >> \in Seq(BOOLEAN)
OBVIOUS

LEMMA InitTable == TableInit => TableInv
<1>. SUFFICES ASSUME TableInit PROVE TableInv
  OBVIOUS
<1>1. GatherTypeOK
  <2>1. {} \in SUBSET DOMAIN Files /\ FALSE \in BOOLEAN
    OBVIOUS
  <2>2. table \in Tables
    BY <2>1, TableInIs DEF TableInit
  <2>3. lean \in [DOMAIN Files -> {"absent", "cut", "whole"}]
    BY DEF TableInit
  <2>. QED  BY <2>2, <2>3, NoCalls DEF TableInit, GatherTypeOK, Phases
<1>2. CopyInv /\ ServedInv /\ ScaleInv /\ AcceptedInv
  BY DEF TableInit, CopyInv, ServedInv, ScaleInv, AcceptedInv
<1>. QED  BY <1>1, <1>2 DEF TableInv

\* Downloads and copies.
LEMMA PrepareStep ==
  ASSUME TableInv,
         \/ \E f \in DOMAIN Files : Fetch(f)
         \/ StripStart \/ StripBegin \/ StripEnd \/ StripDone \/ Interrupt
  PROVE  TableInv'
<1>. USE DEF TableInv
<1>1. phase = "preparing" /\ phase' = phase /\ UNCHANGED loadVars
  BY DEF Fetch, StripStart, StripBegin, StripEnd, StripDone, Interrupt
<1>2. ServedInv' /\ ScaleInv' /\ AcceptedInv'
  BY <1>1 DEF ServedInv, ScaleInv, AcceptedInv, loadVars
<1>3. /\ phase' \in Phases /\ (table \in Tables)' /\ prepared' \in BOOLEAN
      /\ (loads \in Seq(BOOLEAN))' /\ calls' \in Nat /\ scale' \in {"none", "table", "streamed"}
  BY <1>1 DEF GatherTypeOK, loadVars, Tables
<1>. SUFFICES (GatherTypeOK /\ CopyInv)'
  BY <1>2
<1>4. ASSUME NEW f \in DOMAIN Files, Fetch(f) PROVE (GatherTypeOK /\ CopyInv)'
  BY <1>3, <1>4 DEF Fetch, GatherTypeOK, CopyInv
<1>5. CASE StripStart
  <2>1. copying' \in SUBSET DOMAIN Files /\ copying' # NotRunning
    BY <1>5, NotCopying DEF StripStart, GatherTypeOK
  <2>2. GatherTypeOK'
    BY <1>3, <1>5, <2>1 DEF StripStart, GatherTypeOK
  <2>3. CopyInv'
    BY <1>5 DEF StripStart, CopyInv
  <2>. QED  BY <2>2, <2>3
<1>6. CASE StripBegin
  <2>1. PICK f \in copying : f = Min(copying) /\ copying \in SUBSET fetched
    BY <1>6, CopyingFile DEF StripBegin
  <2>2. /\ lean' = [lean EXCEPT ![f] = "cut"]
        /\ UNCHANGED <<fetched, complete, copying>>
    BY <1>6, <2>1 DEF StripBegin, ToWrite
  <2>3. f \in DOMAIN Files /\ copying # NotRunning
    BY <1>6, <2>1 DEF GatherTypeOK, StripBegin
  <2>4. GatherTypeOK'
    BY <1>3, <2>2 DEF GatherTypeOK
  <2>5. CopyInv'
    BY <2>1, <2>2, <2>3 DEF GatherTypeOK, CopyInv
  <2>. QED  BY <2>4, <2>5
<1>7. CASE StripEnd
  <2>1. PICK f \in copying : f = Min(copying) /\ copying \in SUBSET fetched
    BY <1>7, CopyingFile DEF StripEnd
  <2>2. /\ lean' = [lean EXCEPT ![f] = "whole"]
        /\ copying' = copying \ {f}
        /\ UNCHANGED <<fetched, complete>>
    BY <1>7, <2>1 DEF StripEnd
  <2>3. f \in DOMAIN Files /\ copying # NotRunning
    BY <1>7, <2>1 DEF GatherTypeOK, StripEnd
  <2>4. GatherTypeOK'
    BY <1>3, <2>1, <2>2 DEF GatherTypeOK
  <2>5. CopyInv'
    BY <2>1, <2>2, <2>3 DEF GatherTypeOK, CopyInv
  <2>. QED  BY <2>4, <2>5
<1>8. CASE StripDone
  <2>1. copying = {} /\ {} # NotRunning
    BY <1>8 DEF StripDone, NotRunning
  <2>2. GatherTypeOK'
    BY <1>3, <1>8 DEF StripDone, GatherTypeOK
  <2>3. CopyInv'
    BY <1>8, <2>1 DEF StripDone, GatherTypeOK, CopyInv
  <2>. QED  BY <2>2, <2>3
<1>9. CASE Interrupt
  BY <1>3, <1>9 DEF Interrupt, GatherTypeOK, CopyInv
<1>. QED  BY <1>4, <1>5, <1>6, <1>7, <1>8, <1>9

\* Starting the server.
LEMMA ServeStep ==
  ASSUME TableInv, Serve
  PROVE  TableInv'
<1>. USE DEF TableInv
<1>1. PICK t \in Tables, finished \in BOOLEAN :
        ServeFrom(t, finished) /\ (finished => t = TableIn(DOMAIN Files, FALSE))
  <2>1. CASE ServeFrom(TableIn(fetched, FALSE), fetched = DOMAIN Files)
    <3>1. TableIn(fetched, FALSE) \in Tables /\ (fetched = DOMAIN Files) \in BOOLEAN
      BY TableInIs DEF GatherTypeOK
    <3>. QED  BY <2>1, <3>1
  <2>2. CASE ServeFrom(TableIn(Copied, \E f \in Copied : lean[f] = "cut"), complete)
    <3>1. PICK cut \in BOOLEAN : cut = \E f \in Copied : lean[f] = "cut"
      OBVIOUS
    <3>2. TableIn(Copied, cut) \in Tables
      BY TableInIs DEF Copied
    <3>3. complete => Copied = DOMAIN Files /\ cut = FALSE
      BY <3>1 DEF CopyInv, Copied
    <3>. QED  BY <2>2, <3>1, <3>2, <3>3 DEF GatherTypeOK
  <2>3. CASE \E t \in CheckpointTables :
               Cardinality(t.dtypes) <= Cardinality(Present(t)) /\ ServeFrom(t, FALSE)
    BY <2>3, CheckpointTablesTyped
  <2>. QED  BY <2>1, <2>2, <2>3 DEF Serve
<1>2. /\ phase' = "loading" /\ table' = t /\ prepared' = finished /\ calls' = 0 /\ scale' = "none"
      /\ loads' \in Seq(BOOLEAN) /\ loads' # << >> /\ UNCHANGED prepVars
  BY <1>1, TableAssumption DEF ServeFrom
<1>3. GatherTypeOK'
  BY <1>1, <1>2 DEF GatherTypeOK, prepVars, Phases
<1>4. CopyInv'
  BY <1>2 DEF CopyInv, prepVars
<1>5. ServedInv'
  BY <1>1, <1>2 DEF ServedInv
<1>6. ScaleInv' /\ AcceptedInv'
  BY <1>2 DEF ScaleInv, AcceptedInv
<1>. QED  BY <1>3, <1>4, <1>5, <1>6

\* One call of load_weights.
LEMMA LoadStep ==
  ASSUME TableInv, LoadWeights
  PROVE  TableInv'
<1>. USE DEF TableInv
<1>1. PICK known \in {"none", "table", "streamed"} :
        known = IF loads[calls + 1] THEN "streamed" ELSE scale
  BY DEF GatherTypeOK
<1>2. /\ phase = "loading" /\ calls < Len(loads) /\ calls' = calls + 1
      /\ UNCHANGED <<prepVars, table, prepared, loads>>
      /\ calls = 0 /\ Acceptable(known) => scale' = ScaleAfter(known) /\ phase' = phase
      /\ calls = 0 /\ ~Acceptable(known) => scale' = known /\ phase' = "refused"
      /\ calls # 0 => scale' = known /\ phase' = phase
  BY <1>1 DEF LoadWeights
<1>3. GatherTypeOK'
  <2>1. ScaleAfter(known) \in {"none", "table", "streamed"}
    BY DEF ScaleAfter
  <2>. QED  BY <1>2, <2>1 DEF GatherTypeOK, prepVars, Phases
<1>4. CopyInv'
  BY <1>2 DEF CopyInv, prepVars
<1>5. ServedInv'
  <2>1. SUFFICES ASSUME prepared PROVE phase' # "refused"
    BY <1>2 DEF ServedInv
  <2>2. table = TableIn(DOMAIN Files, FALSE)
    BY <2>1 DEF ServedInv
  <2>3. /\ Found = ShardIndexes /\ ShardIndexes # {} /\ table.dtypes = {"F8"}
        /\ table.scale = TRUE /\ table.cut = FALSE
        /\ \A i \in ShardIndexes : table.shards[i] = Expected(i)
    BY <2>2, WholeTable DEF Found
  <2>4. Cardinality({"F8"}) = 1
    BY FS_Singleton
  <2>5. Acceptable(known)
    BY <2>3, <2>4 DEF Acceptable
  <2>. QED  BY <1>2, <2>5
<1>6. ScaleInv'
  <2>1. SUFFICES ASSUME phase' = "loading"
                 PROVE  scale' = IF \E i \in 1 .. calls' : loads[i] THEN "streamed"
                                 ELSE IF "F8" \in table.dtypes THEN "table" ELSE "none"
    BY <1>2 DEF ScaleInv, GatherTypeOK
  <2>2. (\E i \in 1 .. calls' : loads[i]) <=> (\E i \in 1 .. calls : loads[i]) \/ loads[calls + 1]
    BY <1>2 DEF GatherTypeOK
  <2>3. CASE calls = 0
    <3>1. scale = "none" /\ scale' = ScaleAfter(known)
      BY <1>2, <2>1, <2>3 DEF ScaleInv
    <3>. QED  BY <1>1, <2>2, <2>3, <3>1 DEF ScaleAfter
  <2>4. CASE calls # 0
    BY <1>1, <1>2, <2>2, <2>4 DEF ScaleInv, GatherTypeOK
  <2>. QED  BY <2>3, <2>4
<1>7. AcceptedInv'
  <2>1. CASE phase' = "refused"
    BY <2>1 DEF AcceptedInv
  <2>2. CASE phase' = "loading"
    <3>1. Opened
      <4>1. CASE calls = 0
        BY <1>2, <2>2, <4>1 DEF Acceptable, Opened, GatherTypeOK
      <4>2. CASE calls # 0
        BY <1>2, <4>2 DEF AcceptedInv, GatherTypeOK
      <4>. QED  BY <4>1, <4>2
    <3>2. Opened'
      BY <1>2, <3>1 DEF Opened, Found, Present
    <3>. QED  BY <3>2 DEF AcceptedInv
  <2>. QED  BY <1>2, <2>1, <2>2
<1>. QED  BY <1>3, <1>4, <1>5, <1>6, <1>7

LEMMA OpenedKept ==
  ASSUME table' = table
  PROVE  /\ Opened' <=> Opened
         /\ Found' = Found /\ Mapped' = Mapped
         /\ \A id : Stored(id)' <=> Stored(id)
BY DEF Opened, Found, Present, Mapped, Stored

LEMMA TableStep ==
  ASSUME TableInv, TableNext
  PROVE  TableInv'
<1>. USE DEF TableInv
<1>1. CASE Loaded
  <2>1. calls > 0
    BY <1>1 DEF Loaded, ScaleInv, GatherTypeOK
  <2>2. GatherTypeOK' /\ CopyInv' /\ ServedInv'
    BY <1>1 DEF Loaded, GatherTypeOK, CopyInv, ServedInv, prepVars, loadVars, Phases
  <2>3. ScaleInv'
    BY <1>1 DEF Loaded, ScaleInv, prepVars, loadVars
  <2>4. AcceptedInv'
    BY <1>1, <2>1, OpenedKept DEF Loaded, AcceptedInv, loadVars
  <2>. QED  BY <2>2, <2>3, <2>4
<1>2. CASE Refused
  <2>1. table' \in Tables
    BY <1>2, TableInIs DEF Refused
  <2>2. GatherTypeOK'
    BY <1>2, <2>1, NoCalls DEF Refused, GatherTypeOK, prepVars, Phases
  <2>4. CopyInv' /\ ServedInv' /\ ScaleInv'
    BY <1>2 DEF Refused, CopyInv, ServedInv, ScaleInv, prepVars
  <2>3. AcceptedInv'
    BY <1>2 DEF Refused, AcceptedInv
  <2>. QED  BY <2>2, <2>3, <2>4
<1>3. CASE Start
  <2>1. GatherTypeOK'
    BY <1>3, NoCalls DEF Start, GatherTypeOK, Phases
  <2>3. CopyInv' /\ ServedInv' /\ ScaleInv'
    BY <1>3 DEF Start, CopyInv, ServedInv, ScaleInv
  <2>2. AcceptedInv'
    BY <1>3, OpenedKept DEF Start, AcceptedInv
  <2>. QED  BY <2>1, <2>2, <2>3
<1>. QED  BY <1>1, <1>2, <1>3, PrepareStep, ServeStep, LoadStep DEF TableNext

\* A step of the gather does not touch the table.
LEMMA GatherKeepsTable ==
  ASSUME TableInv, UNCHANGED <<prepVars, loadVars>>,
         phase \in {"ready", "gathering", "returned", "raised"},
         phase' \in {"ready", "gathering", "returned", "raised"}
  PROVE  TableInv'
<1>. USE DEF TableInv
<1>1. GatherTypeOK' /\ CopyInv' /\ ServedInv'
  BY DEF GatherTypeOK, CopyInv, ServedInv, prepVars, loadVars, Phases
<1>2. ScaleInv' /\ AcceptedInv'
  BY OpenedKept DEF ScaleInv, AcceptedInv, loadVars
<1>. QED  BY <1>1, <1>2

----------------------------------------------------------------------------
(* The gather.                                                             *)

\* The gather is asked for ids of the batch, and for all of them.
LEMMA AskedFacts ==
  ASSUME NEW s \in Seq(Int), NEW e \in BOOLEAN
  PROVE  /\ Asked(s, e) \in Seq(Int)
         /\ \A k \in 1 .. Len(Asked(s, e)) : \E i \in 1 .. Len(s) : Asked(s, e)[k] = s[i]
         /\ \A i \in 1 .. Len(s) : \E k \in 1 .. Len(Asked(s, e)) : Asked(s, e)[k] = s[i]
<1>1. CASE e
  BY <1>1, UniqueFacts DEF Asked
<1>2. CASE ~e
  BY <1>2 DEF Asked
<1>. QED  BY <1>1, <1>2

\* The answer expanded to the batch, once the rows asked for are there.
LEMMA AnswerIs ==
  ASSUME NEW s \in Seq(Int), NEW e \in BOOLEAN
  PROVE  (IF e THEN [i \in 1 .. Len(s) |-> Asked(s, e)[InverseOf(s)[i]]] ELSE Asked(s, e)) = s
<1>1. CASE e
  <2>1. Asked(s, e) = Unique(s)
    BY <1>1 DEF Asked
  <2>2. \A i \in 1 .. Len(s) : Unique(s)[InverseOf(s)[i]] = s[i]
    BY InverseFacts
  <2>3. [i \in 1 .. Len(s) |-> Unique(s)[InverseOf(s)[i]]] = [i \in 1 .. Len(s) |-> s[i]]
    BY <2>2
  <2>4. [i \in 1 .. Len(s) |-> s[i]] = s
    OBVIOUS
  <2>. QED  BY <1>1, <2>1, <2>3, <2>4
<1>2. CASE ~e
  BY <1>2 DEF Asked
<1>. QED  BY <1>1, <1>2

\* A position that can be read in the shard of its row holds a row of the table, and
\* the other way round.
LEMMA ReadableRows ==
  ASSUME Opened, NEW u \in Seq(Int), \A k \in 1 .. Len(u) : 0 <= u[k], NEW k \in 1 .. Len(u)
  PROVE  /\ Readable(ShardOf(u[k]), LocalOf(u[k])) <=> Stored(u[k])
         /\ RowAt(ShardOf(u[k]), u[k]) = u[k]
<1>1. u[k] \in Nat /\ u[k] \in Int
  OBVIOUS
<1>. QED  BY <1>1, ReadableIsStored, RowPlace

\* A batch that is asked for: refused for an id out of range, answered on the spot,
\* or left to the pool.
LEMMA GatherStep ==
  ASSUME GatherIInv, NEW b \in Batches, NEW e \in BOOLEAN, Gather(b, e)
  PROVE  GatherIInv'
<1>. DEFINE s == Asked(b, e)
<1>1. b \in Seq(Int) /\ s \in Seq(Int)
  BY BatchesAssumption, AskedFacts
<1>2. /\ phase = "ready" /\ ids' = b /\ expand' = e /\ UNCHANGED <<prepVars, loadVars>>
      /\ \/ s = << >> /\ phase' = "returned" /\ out' = << >>
         \/ ~InRange(s) /\ phase' = "raised"
         \/ InRange(s) /\ FastGather(s)
         \/ InRange(s) /\ SlowGather(s)
  BY DEF Gather
<1>3. phase' \in {"gathering", "returned", "raised"} /\ table' = table
  BY <1>2 DEF FastGather, SlowGather, loadVars
<1>4. TableInv'
  BY <1>2, <1>3, GatherKeepsTable DEF GatherIInv
<1>5. Opened
  BY <1>2 DEF GatherIInv, TableInv, AcceptedInv
<1>6. \A id : Stored(id)' <=> Stored(id)
  BY <1>3, OpenedKept
<1>7. /\ \A k \in 1 .. Len(s) : \E i \in 1 .. Len(b) : s[k] = b[i]
      /\ \A i \in 1 .. Len(b) : \E k \in 1 .. Len(s) : s[k] = b[i]
  BY <1>1, AskedFacts
<1>8. ASSUME InRange(s) PROVE \A k \in 1 .. Len(s) : 0 <= s[k]
  BY <1>8 DEF InRange
<1>9. ASSUME out' = s, phase' = "returned", \A k \in 1 .. Len(s) : Stored(s[k])
      PROVE  AnswerExact'
  <2>1. Answer' = b
    <3>1. (IF e THEN [i \in 1 .. Len(b) |-> s[InverseOf(b)[i]]] ELSE s) = b
      BY <1>1, AnswerIs
    <3>2. Answer' = IF e THEN [i \in 1 .. Len(b) |-> s[InverseOf(b)[i]]] ELSE s
      BY <1>2, <1>9 DEF Answer
    <3>. QED  BY <3>1, <3>2
  <2>2. \A i \in 1 .. Len(b) : Stored(b[i])'
    BY <1>6, <1>7, <1>9
  <2>. QED  BY <1>2, <2>1, <2>2 DEF AnswerExact
<1>10. ASSUME phase' = "raised", NEW k \in 1 .. Len(s), ~Stored(s[k])
       PROVE  RaisesOnlyForAbsentRows'
  <2>1. PICK i \in 1 .. Len(b) : ~Stored(b[i])'
    BY <1>6, <1>7, <1>10
  <2>. QED  BY <1>2, <2>1 DEF RaisesOnlyForAbsentRows
<1>. HIDE DEF s
<1>11. CASE s = << >> /\ phase' = "returned" /\ out' = << >>
  <2>1. AnswerExact'
    BY <1>9, <1>11
  <2>. QED  BY <1>1, <1>2, <1>4, <1>11, <2>1 DEF GatherIInv, GatherInv, PoolInv, RaisesOnlyForAbsentRows
<1>12. CASE ~InRange(s) /\ phase' = "raised"
  <2>1. PICK k \in 1 .. Len(s) : ~(0 <= s[k] /\ s[k] < ShardSize * Mapped)
    BY <1>12 DEF InRange
  <2>2. ~Stored(s[k])
    BY <1>1, <1>5, <2>1, StoredInRange
  <2>3. RaisesOnlyForAbsentRows'
    BY <1>10, <1>12, <2>2
  <2>. QED  BY <1>1, <1>2, <1>4, <1>12, <2>3 DEF GatherIInv, GatherInv, PoolInv, AnswerExact
<1>13. CASE InRange(s) /\ FastGather(s)
  <2>1. \A k \in 1 .. Len(s) : /\ Readable(ShardOf(s[k]), LocalOf(s[k])) <=> Stored(s[k])
                               /\ RowAt(ShardOf(s[k]), s[k]) = s[k]
    BY <1>1, <1>5, <1>8, <1>13, ReadableRows
  <2>2. out' = s
    <3>1. out' = [i \in 1 .. Len(s) |-> s[i]]
      BY <1>13, <2>1 DEF FastGather
    <3>2. [i \in 1 .. Len(s) |-> s[i]] = s
      BY <1>1
    <3>. QED  BY <3>1, <3>2
  <2>3. CASE phase' = "returned"
    <3>1. \A k \in 1 .. Len(s) : Stored(s[k])
      BY <1>13, <2>1, <2>3 DEF FastGather
    <3>2. AnswerExact'
      BY <1>9, <2>2, <2>3, <3>1
    <3>. QED  BY <1>1, <1>2, <1>4, <2>3, <3>2 DEF GatherIInv, GatherInv, PoolInv, RaisesOnlyForAbsentRows
  <2>4. CASE phase' = "raised"
    <3>1. PICK k \in 1 .. Len(s) : ~Stored(s[k])
      BY <1>13, <2>1, <2>4 DEF FastGather
    <3>2. RaisesOnlyForAbsentRows'
      BY <1>10, <2>4, <3>1
    <3>. QED  BY <1>1, <1>2, <1>4, <2>4, <3>2 DEF GatherIInv, GatherInv, PoolInv, AnswerExact
  <2>. QED  BY <1>13, <2>3, <2>4 DEF FastGather
<1>14. CASE InRange(s) /\ SlowGather(s)
  <2>1. PICK u \in Seq(Int) : u = Unique(s)
    BY <1>1, UniqueFacts
  <2>2. /\ phase' = "gathering" /\ uniq' = u /\ todo' = Tasks(u)
        /\ out' = [k \in 1 .. Len(u) |-> Unset]
    BY <1>14, <2>1 DEF SlowGather
  <2>3. \A k \in 1 .. Len(u) : 0 <= u[k]
    BY <1>1, <1>8, <1>14, <2>1, UniqueFacts
  <2>4. \A k \in 1 .. Len(u) : \E t \in Tasks(u) : k \in t.first .. t.last
    BY TasksCover
  <2>5. out' \in [1 .. Len(u) -> Int]
    BY <2>2 DEF Unset
  <2>6. uniq' = Unique(Asked(ids', expand'))
    BY <1>2, <2>1, <2>2 DEF s
  <2>7. PoolInv'
    BY <2>2, <2>3, <2>4, <2>5, <2>6 DEF PoolInv
  <2>. QED  BY <1>1, <1>2, <1>4, <2>2, <2>7 DEF GatherIInv, GatherInv, AnswerExact, RaisesOnlyForAbsentRows
<1>. QED  BY <1>2, <1>11, <1>12, <1>13, <1>14 DEF s

\* A task of the pool: its rows are read, or one of them is not there.
LEMMA TaskStep ==
  ASSUME GatherIInv, NEW t \in todo, RunTask(t)
  PROVE  GatherIInv'
<1>1. /\ phase = "gathering" /\ todo' = todo \ {t}
      /\ UNCHANGED <<prepVars, loadVars, expand, ids, uniq>> /\ table' = table
  BY DEF RunTask, loadVars
<1>2. phase' \in {"gathering", "raised"}
  BY <1>1 DEF RunTask
<1>3. TableInv' /\ Opened
  BY <1>1, <1>2, GatherKeepsTable DEF GatherIInv, TableInv, AcceptedInv
<1>4. \A id : Stored(id)' <=> Stored(id)
  BY <1>1, OpenedKept
<1>5. PICK a \in Seq(Int) : a = Asked(ids, expand)
  BY AskedFacts DEF GatherIInv, GatherInv
<1>6. PICK u \in Seq(Int) : u = uniq /\ u = Unique(a)
  BY <1>1, <1>5, UniqueFacts DEF GatherIInv, GatherInv, PoolInv
<1>7. /\ \A k \in 1 .. Len(u) : 0 <= u[k]
      /\ out \in [1 .. Len(u) -> Int]
      /\ todo \in SUBSET Tasks(u)
      /\ \A k \in 1 .. Len(u) : (\E v \in todo : k \in v.first .. v.last) \/ (Stored(u[k]) /\ out[k] = u[k])
  BY <1>1, <1>6 DEF GatherIInv, GatherInv, PoolInv
<1>8. \A p \in t.first .. t.last : p \in 1 .. Len(u) /\ ShardOf(u[p]) = t.shard
  BY <1>7, TaskFacts
<1>9. \A p \in t.first .. t.last : /\ Readable(t.shard, LocalOf(u[p])) <=> Stored(u[p])
                                   /\ RowAt(t.shard, u[p]) = u[p]
  BY <1>3, <1>7, <1>8, ReadableRows
<1>10. CASE \A p \in t.first .. t.last : Readable(t.shard, LocalOf(uniq[p]))
  <2>1. /\ phase' = "gathering"
        /\ out' = [k \in 1 .. Len(out) |->
                     IF k \in t.first .. t.last THEN RowAt(t.shard, u[k]) ELSE out[k]]
    BY <1>1, <1>6, <1>10 DEF RunTask
  <2>2. Len(out) = Len(u)
    BY <1>7
  <2>3. out' = [k \in 1 .. Len(u) |-> IF k \in t.first .. t.last THEN u[k] ELSE out[k]]
    BY <1>9, <2>1, <2>2
  <2>4. out' \in [1 .. Len(u) -> Int]
    BY <1>7, <2>3
  <2>5. \A k \in 1 .. Len(u) :
          (\E v \in todo' : k \in v.first .. v.last) \/ (Stored(u[k])' /\ out'[k] = u[k])
    <3>1. SUFFICES ASSUME NEW k \in 1 .. Len(u)
                   PROVE  (\E v \in todo' : k \in v.first .. v.last) \/ (Stored(u[k])' /\ out'[k] = u[k])
      OBVIOUS
    <3>2. CASE k \in t.first .. t.last
      BY <1>4, <1>6, <1>9, <1>10, <2>3, <3>2
    <3>3. CASE k \notin t.first .. t.last
      BY <1>1, <1>4, <1>7, <2>3, <3>3
    <3>. QED  BY <3>2, <3>3
  <2>6. PoolInv'
    BY <1>1, <1>5, <1>6, <1>7, <2>1, <2>4, <2>5 DEF PoolInv
  <2>. QED  BY <1>1, <1>3, <2>1, <2>6 DEF GatherIInv, GatherInv, AnswerExact, RaisesOnlyForAbsentRows
<1>11. CASE ~\A p \in t.first .. t.last : Readable(t.shard, LocalOf(uniq[p]))
  <2>1. phase' = "raised"
    BY <1>11 DEF RunTask
  <2>2. PICK p \in 1 .. Len(u) : ~Stored(u[p])
    BY <1>6, <1>8, <1>9, <1>11
  <2>3. PICK j \in 1 .. Len(a) : u[p] = a[j]
    <3>1. \A k \in 1 .. Len(Unique(a)) : \E j \in 1 .. Len(a) : Unique(a)[k] = a[j]
      BY UniqueFacts
    <3>. QED  BY <1>6, <2>2, <3>1
  <2>4. PICK i \in 1 .. Len(ids) : a[j] = ids[i]
    <3>1. \A k \in 1 .. Len(Asked(ids, expand)) : \E i \in 1 .. Len(ids) : Asked(ids, expand)[k] = ids[i]
      BY AskedFacts DEF GatherIInv, GatherInv
    <3>. QED  BY <1>5, <2>3, <3>1
  <2>5. RaisesOnlyForAbsentRows'
    BY <1>1, <1>4, <2>2, <2>3, <2>4 DEF RaisesOnlyForAbsentRows
  <2>. QED  BY <1>1, <1>3, <2>1, <2>5 DEF GatherIInv, GatherInv, PoolInv, AnswerExact
<1>. QED  BY <1>10, <1>11

\* Every task is done: the answer is expanded to what the gather was asked for.
LEMMA ReturnStep ==
  ASSUME GatherIInv, Return
  PROVE  GatherIInv'
<1>1. /\ phase = "gathering" /\ todo = {} /\ phase' = "returned"
      /\ UNCHANGED <<prepVars, loadVars, expand, ids, uniq, todo>> /\ table' = table
  BY DEF Return, loadVars
<1>2. TableInv' /\ Opened
  BY <1>1, GatherKeepsTable DEF GatherIInv, TableInv, AcceptedInv
<1>3. \A id : Stored(id)' <=> Stored(id)
  BY <1>1, OpenedKept
<1>4. PICK s \in Seq(Int), e \in BOOLEAN : s = ids /\ e = expand
  BY DEF GatherIInv, GatherInv
<1>5. PICK a \in Seq(Int) : a = Asked(s, e)
  BY AskedFacts
<1>6. PICK u \in Seq(Int) : u = uniq /\ u = Unique(a)
  BY <1>1, <1>4, <1>5, UniqueFacts DEF GatherIInv, GatherInv, PoolInv
<1>7. \A k \in 1 .. Len(u) : Stored(u[k]) /\ out[k] = u[k]
  BY <1>1, <1>6 DEF GatherIInv, GatherInv, PoolInv
<1>8. out' = a
  <2>1. out' = [i \in 1 .. Len(a) |-> out[InverseOf(a)[i]]]
    <3>1. out' = [i \in 1 .. Len(InverseOf(a)) |-> out[InverseOf(a)[i]]]
      BY <1>4, <1>5 DEF Return
    <3>. QED  BY <3>1, InverseFacts
  <2>2. \A i \in 1 .. Len(a) : out[InverseOf(a)[i]] = a[i]
    BY <1>6, <1>7, InverseFacts
  <2>3. out' = [i \in 1 .. Len(a) |-> a[i]]
    BY <2>1, <2>2
  <2>4. [i \in 1 .. Len(a) |-> a[i]] = a
    OBVIOUS
  <2>. QED  BY <2>3, <2>4
<1>9. \A i \in 1 .. Len(s) : Stored(s[i])'
  <2>1. SUFFICES ASSUME NEW i \in 1 .. Len(s) PROVE Stored(s[i])
    BY <1>3
  <2>2. PICK j \in 1 .. Len(a) : a[j] = s[i]
    <3>1. \A x \in 1 .. Len(s) : \E j \in 1 .. Len(Asked(s, e)) : Asked(s, e)[j] = s[x]
      BY AskedFacts
    <3>. QED  BY <1>5, <2>1, <3>1
  <2>3. PICK k \in 1 .. Len(u) : u[k] = a[j]
    <3>1. \A x \in 1 .. Len(a) : \E k \in 1 .. Len(Unique(a)) : Unique(a)[k] = a[x]
      BY UniqueFacts
    <3>. QED  BY <1>6, <2>2, <3>1
  <2>. QED  BY <1>7, <2>2, <2>3
<1>10. Answer' = s
  <2>1. Answer' = IF e THEN [i \in 1 .. Len(s) |-> a[InverseOf(s)[i]]] ELSE a
    BY <1>1, <1>4, <1>8 DEF Answer
  <2>2. (IF e THEN [i \in 1 .. Len(s) |-> a[InverseOf(s)[i]]] ELSE a) = s
    BY <1>5, AnswerIs
  <2>. QED  BY <2>1, <2>2
<1>11. AnswerExact'
  BY <1>1, <1>4, <1>9, <1>10 DEF AnswerExact
<1>. QED  BY <1>1, <1>2, <1>4, <1>11 DEF GatherIInv, GatherInv, PoolInv, RaisesOnlyForAbsentRows

LEMMA InitGather == GatherInit => GatherIInv
<1>1. << >> \in Seq(Int)
  OBVIOUS
<1>2. ASSUME GatherInit PROVE phase = "preparing"
  BY <1>2 DEF GatherInit, TableInit
<1>. QED  BY <1>1, <1>2, InitTable
         DEF GatherInit, GatherIInv, GatherInv, PoolInv, AnswerExact, RaisesOnlyForAbsentRows

LEMMA Inductive == GatherIInv /\ [GatherNext]_pleVars => GatherIInv'
<1>1. SUFFICES ASSUME GatherIInv, [GatherNext]_pleVars PROVE GatherIInv'
  OBVIOUS
<1>2. CASE TableNext /\ UNCHANGED gatherVars
  <2>1. TableInv'
    BY <1>1, <1>2, TableStep DEF GatherIInv
  <2>2. phase' \in {"preparing", "loading", "loaded", "refused", "ready"}
    BY <1>2 DEF TableNext, Fetch, StripStart, StripBegin, StripEnd, StripDone, Interrupt,
                Serve, ServeFrom, LoadWeights, Loaded, Refused, Start
  <2>. QED  BY <1>1, <1>2, <2>1, <2>2
            DEF GatherIInv, GatherInv, PoolInv, AnswerExact, RaisesOnlyForAbsentRows, gatherVars
<1>3. CASE \E b \in Batches, e \in BOOLEAN : Gather(b, e)
  BY <1>1, <1>3, GatherStep
<1>4. CASE \E t \in todo : RunTask(t)
  BY <1>1, <1>4, TaskStep
<1>5. CASE Return
  BY <1>1, <1>5, ReturnStep
<1>6. CASE Finish
  <2>1. TableInv'
    BY <1>1, <1>6, GatherKeepsTable DEF Finish, GatherIInv
  <2>2. << >> \in Seq(Int)
    OBVIOUS
  <2>. QED  BY <1>6, <2>1, <2>2
            DEF Finish, GatherIInv, GatherInv, PoolInv, AnswerExact, RaisesOnlyForAbsentRows
<1>7. CASE UNCHANGED pleVars
  <2>1. TableInv'
    BY <1>1, <1>7 DEF GatherIInv, TableInv, GatherTypeOK, CopyInv, ServedInv, ScaleInv, AcceptedInv, Opened,
                      Found, Present, pleVars, tableVars, prepVars, loadVars
  <2>2. GatherInv'
    BY <1>1, <1>7 DEF GatherIInv, GatherInv, PoolInv, AnswerExact, RaisesOnlyForAbsentRows, Answer, Stored,
                      Found, Present, pleVars, tableVars, loadVars, gatherVars
  <2>. QED  BY <2>1, <2>2 DEF GatherIInv
<1>. QED  BY <1>1, <1>2, <1>3, <1>4, <1>5, <1>6, <1>7 DEF GatherNext

----------------------------------------------------------------------------
(* The theorems.                                                           *)

\* For every table, however divided, every run of interrupted downloads and copies
\* and every division of the weights into calls: the invariant above.
THEOREM GatherInvariance == GatherSpec => []GatherIInv
BY InitGather, Inductive, PTL DEF GatherSpec

\* A directory whose download or copy has finished is accepted, with every shard
\* found there.
THEOREM FinishedIsServed == GatherSpec => []FinishedTableIsServed
<1>1. GatherIInv => FinishedTableIsServed
  BY WholeTable DEF GatherIInv, TableInv, ServedInv, FinishedTableIsServed, Found
<1>. QED  BY <1>1, GatherInvariance, PTL

\* The scale the engine ends up with is the one the calls of load_weights determine.
THEOREM ScaleIsTheStreams == GatherSpec => []ScaleFollowsStream
<1>1. GatherIInv => ScaleFollowsStream
  <2>1. SUFFICES ASSUME GatherIInv, phase = "loaded"
                 PROVE  scale = IF \E i \in 1 .. Len(loads) : loads[i] THEN "streamed"
                                ELSE IF "F8" \in table.dtypes THEN "table" ELSE "none"
    BY DEF ScaleFollowsStream
  <2>2. Len(loads) > 0
    BY <2>1 DEF GatherIInv, TableInv, GatherTypeOK, ScaleInv
  <2>. QED  BY <2>1, <2>2 DEF GatherIInv, TableInv, ScaleInv
<1>. QED  BY <1>1, GatherInvariance, PTL

\* A gather that returns answers each id with its row, for batches of any length,
\* on either path and in whatever order the tasks run.
THEOREM GatherExact == GatherSpec => []AnswerExact
<1>1. GatherIInv => AnswerExact
  BY DEF GatherIInv, GatherInv
<1>. QED  BY <1>1, GatherInvariance, PTL

\* A gather raises for absent rows only.
THEOREM NoSpuriousRaise == GatherSpec => []RaisesOnlyForAbsentRows
<1>1. GatherIInv => RaisesOnlyForAbsentRows
  BY DEF GatherIInv, GatherInv
<1>. QED  BY <1>1, GatherInvariance, PTL

----------------------------------------------------------------------------
(* The prefetch pipeline, for any batches of ids, any size of a slot and   *)
(* any number of job dictionaries.  What makes it safe is how little it    *)
(* has under way: a step copies rows to the device only when everything    *)
(* before is done, so that the stream never holds more than the rows of    *)
(* one step and, after them, the ids of the next.                          *)

----------------------------------------------------------------------------
(* The inductive invariant.                                                *)

JobType == [slot : Slots, ids : Ids, copied : BOOLEAN, ok : BOOLEAN, done : BOOLEAN]
RowsCopy == [op : {"rows"}, from : Slots \cup {Pinned}, want : Ids]
IdsCopy == [op : {"ids"}, job : JobIds]
MainType == [at : {"idle", "slot", "forward", "rows", "sync", "gather"}, ids : Ids \cup {None},
             hashed : Ids \cup {None}, job : JobIds \cup {None}]

\* Everybody's reference to a job is to one that is kept.
TypeOK ==
  /\ idsBuf \in [Slots -> Ids \cup {NoIds}]
  /\ rowsBuf \in [Slots \cup {Pinned} -> Ids \cup {NoIds, Torn}]
  /\ DOMAIN job \subseteq JobIds
  /\ job \in [DOMAIN job -> JobType]
  /\ jobs \in [Slots -> DOMAIN job \cup {None}]
  /\ pending \in JobIds \cup {None}
  /\ slot \in Slots
  /\ itemSize \in {1, 2}
  /\ queue \in Seq(DOMAIN job)
  /\ main \in MainType
  /\ worker \in [at : {"get", "event", "gather", "write"}, job : DOMAIN job \cup {None},
                 ids : Ids \cup {NoIds}]

\* A slot's job knows its slot, and an unfinished job still has it.
JobsInv ==
  /\ \A s \in Slots : jobs[s] # None => job[jobs[s]].slot = s
  /\ \A j \in DOMAIN job : ~job[j].done => jobs[job[j].slot] = j

\* What is queued or in the worker's hands is unfinished, and there once only.
WorkerInv ==
  /\ \A i \in 1 .. Len(queue) : ~job[queue[i]].done /\ queue[i] # worker.job
  /\ \A i, k \in 1 .. Len(queue) : queue[i] = queue[k] => i = k
  /\ worker.at # "get" => worker.job # None /\ ~job[worker.job].done
  /\ worker.at \in {"gather", "write"} =>
       job[worker.job].copied /\ worker.ids = job[worker.job].ids

\* What a slot's job has put into the slot is there.
BufferInv ==
  \A s \in Slots : jobs[s] # None =>
    /\ job[jobs[s]].copied => idsBuf[s] = job[jobs[s]].ids
    /\ job[jobs[s]].ok =>
         job[jobs[s]].done /\ job[jobs[s]].copied /\ rowsBuf[s] = job[jobs[s]].ids

\* The job that this step's prefetch, if it took place, has put into its slot.
ThisStep == jobs[1 - slot]

\* The main thread has this step's batch and never another step's job.
MainInv ==
  /\ main.at # "idle" => main.ids \in Ids
  /\ main.at = "slot" => main.hashed \in Hashed(main.ids)
  /\ itemSize = 1 /\ pending # None =>
       /\ main.at = "forward"
       /\ pending = ThisStep
       /\ main.hashed \in Hashed(main.ids)
       /\ job[pending].ids = main.hashed
  /\ main.at = "rows" =>
       main.job # None /\ main.job = ThisStep /\ job[main.job].ids = main.ids

\* A copy of rows whose source holds them.
Intact(r) == r \in RowsCopy /\ rowsBuf[r.from] = r.want

\* Nobody is going to write into pinned buffer s.
Undisturbed(s) == s \in Slots => jobs[s] # None /\ job[jobs[s]].done

\* A copy of this step's ids.
ThisSteps(c) ==
  /\ c \in IdsCopy
  /\ c.job = ThisStep /\ c.job \in DOMAIN job /\ ~job[c.job].copied
  /\ main.at \in {"forward", "rows", "sync"}

\* The rows of the step before are on their way, and this step waits for nothing.
RowsOnly ==
  \E r \in RowsCopy :
    /\ stream = <<r>>
    /\ Intact(r) /\ Undisturbed(r.from)
    /\ main.at \notin {"rows", "gather"}
    /\ itemSize = 1 => pending = None

IdsOnly == \E c \in IdsCopy : stream = <<c>> /\ ThisSteps(c)

\* The ids of this step may go to the slot whose rows are on their way: the
\* worker cannot have them before the rows have left.
RowsThenIds ==
  \E r \in RowsCopy, c \in IdsCopy :
    /\ stream = <<r, c>>
    /\ Intact(r) /\ ThisSteps(c)
    /\ r.from = 1 - slot \/ Undisturbed(r.from)

StreamInv == stream = << >> \/ RowsOnly \/ IdsOnly \/ RowsThenIds

IInv == TypeOK /\ JobsInv /\ WorkerInv /\ BufferInv /\ MainInv /\ StreamInv

----------------------------------------------------------------------------
(* Lemmas about short sequences and about queues.                          *)

LEMMA PairEqual ==
  ASSUME NEW S, NEW s \in Seq(S), NEW t \in Seq(S),
         Len(s) = 2, Len(t) = 2, s[1] = t[1], s[2] = t[2]
  PROVE  s = t
BY SeqEqual

LEMMA ShortSeqs ==
  ASSUME NEW a, NEW b
  PROVE  /\ <<a>> # << >> /\ <<a, b>> # << >>
         /\ Head(<<a>>) = a /\ Tail(<<a>>) = << >>
         /\ Head(<<a, b>>) = a /\ Tail(<<a, b>>) = <<b>>
         /\ Append(<< >>, a) = <<a>> /\ Append(<<a>>, b) = <<a, b>>
<1>1. <<a>> # << >> /\ <<a, b>> # << >> /\ Head(<<a>>) = a /\ Head(<<a, b>>) = a
  OBVIOUS
<1>2. Tail(<<a>>) = << >>
  OBVIOUS
<1>3. Tail(<<a, b>>) = <<b>> /\ Append(<< >>, a) = <<a>>
  OBVIOUS
<1>4. Append(<<a>>, b) = <<a, b>>
  <2>. DEFINE s == Append(<<a>>, b)
              t == <<a, b>>
  <2>1. s \in Seq({a, b}) /\ t \in Seq({a, b})
    OBVIOUS
  <2>2. Len(s) = 2 /\ Len(t) = 2 /\ s[1] = t[1] /\ s[2] = t[2]
    OBVIOUS
  <2>. HIDE DEF s, t
  <2>3. s = t
    BY <2>1, <2>2, PairEqual
  <2>. QED  BY <2>3 DEF s, t
<1>. QED  BY <1>1, <1>2, <1>3, <1>4

LEMMA SeqWithin ==
  ASSUME NEW S, NEW T, NEW q \in Seq(S), \A i \in 1 .. Len(q) : q[i] \in T
  PROVE  q \in Seq(T)
<1>1. q \in [1 .. Len(q) -> T] /\ Len(q) \in Nat
  OBVIOUS
<1>. QED  BY <1>1

LEMMA QueueHead ==
  ASSUME NEW S, NEW q \in Seq(S), q # << >>
  PROVE  /\ Head(q) = q[1] /\ Head(q) \in S
         /\ Tail(q) \in Seq(S) /\ Len(Tail(q)) = Len(q) - 1
         /\ \A i \in 1 .. Len(q) - 1 : Tail(q)[i] = q[i + 1]
         /\ Len(q) \in Nat \ {0}
OBVIOUS

LEMMA InitIInv == Init => IInv
<1>. SUFFICES ASSUME Init PROVE IInv
  OBVIOUS
<1>. USE DEF Init, Slots, Pinned
<1>1. DOMAIN job = {}
  OBVIOUS
<1>2. TypeOK
  <2>1. job \in [{} -> JobType]
    BY <1>1
  <2>. QED  BY <1>1, <2>1, SizeAssumption DEF TypeOK, MainType
<1>3. JobsInv /\ WorkerInv /\ BufferInv /\ MainInv
  BY <1>1 DEF JobsInv, WorkerInv, BufferInv, MainInv
<1>4. StreamInv
  BY DEF StreamInv
<1>. QED  BY <1>2, <1>3, <1>4 DEF IInv

----------------------------------------------------------------------------
(* The main thread.                                                        *)

LEMMA HookIInv ==
  ASSUME IInv, NEW v \in Ids, NEW h \in Hashed(v), Hook(v, h)
  PROVE  IInv'
<1>. USE DEF IInv, memory, Slots, Pinned
<1>1. UNCHANGED <<idsBuf, rowsBuf, job, jobs, pending, queue, worker, stream, itemSize>>
  BY DEF Hook
<1>2. /\ main.at = "idle" /\ main'.at \in {"slot", "forward"} /\ main'.ids = v
      /\ main'.at = "slot" => main'.hashed \in Hashed(v)
      /\ main' \in MainType
  <2>1. h \in Ids
    BY DEF Hashed
  <2>. QED  BY <2>1 DEF Hook, TypeOK, MainType
<1>3. slot' \in Slots
  BY DEF Hook, TypeOK, NextSlot
<1>4. TypeOK'
  BY <1>1, <1>2, <1>3 DEF TypeOK
<1>5. JobsInv' /\ WorkerInv' /\ BufferInv'
  BY <1>1 DEF JobsInv, WorkerInv, BufferInv
<1>6. MainInv'
  BY <1>1, <1>2 DEF MainInv
<1>7. StreamInv'
  <2>1. stream = << >> \/ RowsOnly
    BY <1>2 DEF StreamInv, IdsOnly, RowsThenIds, ThisSteps
  <2>2. RowsOnly => RowsOnly'
    BY <1>1, <1>2 DEF RowsOnly, Intact, Undisturbed
  <2>. QED  BY <1>1, <2>1, <2>2 DEF StreamInv
<1>. QED  BY <1>4, <1>5, <1>6, <1>7

LEMMA NoHookIInv ==
  ASSUME IInv, NEW v \in Ids, NoHook(v)
  PROVE  IInv'
<1>. USE DEF IInv, memory, prefetcher, Slots, Pinned
<1>1. /\ UNCHANGED <<idsBuf, rowsBuf, job, jobs, pending, slot, queue, itemSize, worker, stream>>
      /\ main.at = "idle" /\ main'.at = "forward" /\ main'.ids = v /\ main' \in MainType
  BY DEF NoHook, TypeOK, MainType
<1>2. TypeOK'
  BY <1>1 DEF TypeOK
<1>3. JobsInv' /\ WorkerInv' /\ BufferInv'
  BY <1>1 DEF JobsInv, WorkerInv, BufferInv
<1>4. MainInv'
  BY <1>1 DEF MainInv
<1>5. StreamInv'
  <2>1. stream = << >> \/ RowsOnly
    BY <1>1 DEF StreamInv, IdsOnly, RowsThenIds, ThisSteps
  <2>2. RowsOnly => RowsOnly'
    BY <1>1 DEF RowsOnly, Intact, Undisturbed
  <2>. QED  BY <1>1, <2>1, <2>2 DEF StreamInv
<1>. QED  BY <1>2, <1>3, <1>4, <1>5


\* Without copies of ids under way, the jobs that survive a prefetch are the
\* worker's, the other slot's and the queue's.
LEMMA SurvivorsFacts ==
  ASSUME TypeOK, StreamInv, main.at = "slot", NEW s \in Slots
  PROVE  /\ Survivors(s) \subseteq DOMAIN job
         /\ worker.job \in Survivors(s) \cup {None}
         /\ jobs[1 - s] \in Survivors(s) \cup {None}
         /\ \A i \in 1 .. Len(queue) : queue[i] \in Survivors(s)
<1>1. \A c \in Range(stream) : c.op # "ids"
  BY DEF StreamInv, RowsOnly, RowsCopy, IdsOnly, RowsThenIds, ThisSteps, Range
<1>2. Range(queue) = {queue[i] : i \in 1 .. Len(queue)} /\ Range(queue) \subseteq DOMAIN job
  <2>1. queue \in Seq(DOMAIN job)
    BY DEF TypeOK
  <2>2. DOMAIN queue = 1 .. Len(queue) /\ \A i \in 1 .. Len(queue) : queue[i] \in DOMAIN job
    BY <2>1
  <2>. QED  BY <2>2 DEF Range
<1>3. None \notin DOMAIN job
  BY JobsAssumption DEF TypeOK
<1>4. Survivors(s) = ({worker.job, jobs[1 - s]} \cup Range(queue)) \ {None}
  BY <1>1 DEF Survivors
<1>5. worker.job \in DOMAIN job \cup {None} /\ jobs[1 - s] \in DOMAIN job \cup {None}
  BY DEF TypeOK, Slots
<1>. QED  BY <1>2, <1>3, <1>4, <1>5

LEMMA PrefetchIInv ==
  ASSUME IInv, Prefetch
  PROVE  IInv'
<1>. USE DEF IInv, memory
<1>. DEFINE kept == Survivors(TakenSlot)
            new == [slot |-> TakenSlot, ids |-> main.hashed,
                    copied |-> FALSE, ok |-> FALSE, done |-> FALSE]
<1>1. PICK j \in JobIds \ kept :
        /\ job' = [i \in kept \cup {j} |-> IF i = j THEN new ELSE job[i]]
        /\ jobs' = [jobs EXCEPT ![TakenSlot] = j]
        /\ pending' = j
        /\ queue' = Append(queue, j)
        /\ stream' = Append(stream, [op |-> "ids", job |-> j])
  BY DEF Prefetch
<1>2. /\ main.at = "slot" /\ SlotFree(TakenSlot)
      /\ UNCHANGED <<idsBuf, rowsBuf, slot, itemSize, worker>>
      /\ main'.at = "forward" /\ main'.ids = main.ids /\ main'.hashed = main.hashed
      /\ main' \in MainType
  BY DEF Prefetch, TypeOK, MainType
<1>3. /\ TakenSlot = 1 - slot /\ TakenSlot \in Slots /\ slot = 1 - TakenSlot
      /\ Slots = {TakenSlot, slot} /\ slot # TakenSlot
  BY DEF TakenSlot, Slots, TypeOK
<1>4. /\ kept \subseteq DOMAIN job
      /\ worker.job \in kept \cup {None}
      /\ jobs[slot] \in kept \cup {None}
      /\ \A i \in 1 .. Len(queue) : queue[i] \in kept
  BY <1>2, <1>3, SurvivorsFacts
<1>5. /\ jobs'[TakenSlot] = j /\ jobs'[slot] = jobs[slot]
      /\ DOMAIN job' = kept \cup {j} /\ j # None
      /\ job'[j] = new
      /\ \A i \in kept : i # j /\ job'[i] = job[i]
  BY <1>1, <1>3, JobsAssumption DEF TypeOK
<1>6. main.ids \in Ids /\ main.hashed \in Ids /\ main.hashed \in Hashed(main.ids)
  BY <1>2 DEF MainInv, Hashed
<1>7. new \in JobType
  BY <1>3, <1>6 DEF JobType
<1>. HIDE DEF new
<1>8. TypeOK'
  <2>1. DOMAIN job' \subseteq JobIds
    BY <1>1, <1>4, <1>5 DEF TypeOK
  <2>2. job' \in [DOMAIN job' -> JobType]
    BY <1>1, <1>4, <1>5, <1>7 DEF TypeOK
  <2>3. jobs' \in [Slots -> DOMAIN job' \cup {None}]
    BY <1>1, <1>3, <1>4, <1>5 DEF TypeOK
  <2>4. queue' \in Seq(DOMAIN job')
    <3>1. queue \in Seq(DOMAIN job)
      BY DEF TypeOK
    <3>2. queue \in Seq(kept)
      BY <1>4, <3>1, SeqWithin
    <3>3. queue \in Seq(DOMAIN job') /\ j \in DOMAIN job'
      BY <1>5, <3>2, SeqMonotonic
    <3>. QED  BY <1>1, <3>3
  <2>5. worker' \in [at : {"get", "event", "gather", "write"}, job : DOMAIN job' \cup {None},
                     ids : Ids \cup {NoIds}]
    BY <1>2, <1>4, <1>5 DEF TypeOK
  <2>. QED  BY <1>1, <1>2, <2>1, <2>2, <2>3, <2>4, <2>5 DEF TypeOK
<1>9. JobsInv'
  <2>1. \A s \in Slots : jobs'[s] # None => job'[jobs'[s]].slot = s
    BY <1>3, <1>4, <1>5 DEF new, JobsInv
  <2>2. ASSUME NEW i \in DOMAIN job', ~job'[i].done
        PROVE  jobs'[job'[i].slot] = i
    <3>1. CASE i = j
      BY <1>5, <3>1 DEF new
    <3>2. CASE i \in kept
      <4>1. jobs[job[i].slot] = i /\ ~job[i].done /\ job[i].slot \in Slots
        BY <1>4, <1>5, <2>2, <3>2 DEF JobsInv, TypeOK, JobType
      <4>2. job[i].slot # TakenSlot
        BY <1>2, <4>1, <1>4, <3>2, JobsAssumption DEF SlotFree, TypeOK
      <4>. QED  BY <1>3, <1>5, <3>2, <4>1, <4>2
    <3>. QED  BY <1>5, <2>2, <3>1, <3>2
  <2>. QED  BY <2>1, <2>2 DEF JobsInv
<1>10. WorkerInv'
  <2>1. /\ Len(queue') = Len(queue) + 1 /\ Len(queue) \in Nat
        /\ \A i \in 1 .. Len(queue) : queue'[i] = queue[i]
        /\ queue'[Len(queue) + 1] = j
    BY <1>1 DEF TypeOK
  <2>2. \A i \in 1 .. Len(queue) : queue[i] # j
    BY <1>4, <1>1
  <2>3. \A i \in 1 .. Len(queue') : ~job'[queue'[i]].done /\ queue'[i] # worker.job
    BY <2>1, <1>1, <1>4, <1>5 DEF WorkerInv, new
  <2>4. \A i, k \in 1 .. Len(queue') : queue'[i] = queue'[k] => i = k
    BY <2>1, <2>2 DEF WorkerInv
  <2>5. worker.at # "get" => worker.job \in kept
    BY <1>4 DEF WorkerInv
  <2>. QED  BY <1>2, <1>5, <2>3, <2>4, <2>5 DEF WorkerInv
<1>11. BufferInv'
  BY <1>2, <1>3, <1>4, <1>5 DEF BufferInv, new
<1>12. MainInv'
  BY <1>1, <1>2, <1>3, <1>5, <1>6 DEF MainInv, ThisStep, new
<1>13. StreamInv'
  <2>. DEFINE c == [op |-> "ids", job |-> j]
  <2>1. c \in IdsCopy /\ ThisSteps(c)'
    BY <1>1, <1>2, <1>3, <1>5 DEF IdsCopy, ThisSteps, ThisStep, new
  <2>. HIDE DEF c
  <2>2. CASE stream = << >>
    BY <1>1, <2>1, <2>2, ShortSeqs DEF StreamInv, IdsOnly, c
  <2>3. CASE RowsOnly
    <3>1. PICK r \in RowsCopy : stream = <<r>> /\ Intact(r) /\ Undisturbed(r.from)
      BY <2>3 DEF RowsOnly
    <3>2. stream' = <<r, c>>
      BY <1>1, <3>1, ShortSeqs DEF c
    <3>3. Intact(r)'
      BY <1>2, <3>1 DEF Intact
    <3>4. r.from # 1 - slot => Undisturbed(r.from)'
      BY <1>3, <1>4, <1>5, <3>1 DEF Undisturbed
    <3>. QED  BY <1>2, <2>1, <3>2, <3>3, <3>4 DEF StreamInv, RowsThenIds
  <2>. QED  BY <1>2, <2>2, <2>3 DEF StreamInv, IdsOnly, RowsThenIds, ThisSteps
<1>. QED  BY <1>8, <1>9, <1>10, <1>11, <1>12, <1>13

LEMMA SkipStuckSlotIInv ==
  ASSUME IInv, SkipStuckSlot
  PROVE  IInv'
<1>. USE DEF IInv, memory, prefetcher
<1>1. /\ UNCHANGED <<idsBuf, rowsBuf, job, jobs, pending, slot, queue, itemSize, worker, stream>>
      /\ main.at = "slot" /\ main'.at = "forward"
      /\ main'.ids = main.ids /\ main'.hashed = main.hashed
      /\ main' \in MainType
  BY DEF SkipStuckSlot, TypeOK, MainType
<1>2. TypeOK'
  BY <1>1 DEF TypeOK
<1>3. JobsInv' /\ WorkerInv' /\ BufferInv'
  BY <1>1 DEF JobsInv, WorkerInv, BufferInv
<1>4. MainInv'
  BY <1>1 DEF MainInv
<1>5. StreamInv'
  <2>1. stream = << >> \/ RowsOnly
    BY <1>1 DEF StreamInv, IdsOnly, RowsThenIds, ThisSteps
  <2>2. RowsOnly => RowsOnly'
    BY <1>1 DEF RowsOnly, Intact, Undisturbed
  <2>. QED  BY <1>1, <2>1, <2>2 DEF StreamInv
<1>. QED  BY <1>2, <1>3, <1>4, <1>5

\* The pending job, usable, is for this very batch: what the hook hashed is the
\* batch or of another size.
LEMMA ConsumeIInv ==
  ASSUME IInv, Consume
  PROVE  IInv'
<1>. USE DEF IInv, memory, Taken
<1>1. /\ UNCHANGED <<idsBuf, rowsBuf, job, jobs, slot, queue, itemSize, worker, stream>>
      /\ main.at = "forward" /\ itemSize = 1 /\ pending' = None
      /\ main'.at \in {"rows", "sync"} /\ main'.ids = main.ids /\ main' \in MainType
  BY DEF Consume, TypeOK, MainType
<1>2. main'.at = "rows" => /\ main'.job = pending /\ pending # None
                           /\ Size[job[pending].ids] = Size[main.ids]
  BY DEF Consume, Usable, TypeOK, MainType
<1>3. TypeOK'
  BY <1>1 DEF TypeOK
<1>4. JobsInv' /\ WorkerInv' /\ BufferInv'
  BY <1>1 DEF JobsInv, WorkerInv, BufferInv
<1>5. MainInv'
  BY <1>1, <1>2 DEF MainInv, ThisStep, Hashed
<1>6. StreamInv'
  <2>1. RowsOnly => RowsOnly'
    BY <1>1, <1>2 DEF RowsOnly, Intact, Undisturbed
  <2>2. IdsOnly => IdsOnly'
    BY <1>1 DEF IdsOnly, ThisSteps, ThisStep
  <2>3. RowsThenIds => RowsThenIds'
    BY <1>1 DEF RowsThenIds, Intact, Undisturbed, ThisSteps, ThisStep
  <2>. QED  BY <1>1, <2>1, <2>2, <2>3 DEF StreamInv
<1>. QED  BY <1>3, <1>4, <1>5, <1>6

LEMMA NoConsumeIInv ==
  ASSUME IInv, NoConsume
  PROVE  IInv'
<1>. USE DEF IInv, memory, prefetcher
<1>1. /\ UNCHANGED <<idsBuf, rowsBuf, job, jobs, pending, slot, queue, itemSize, worker, stream>>
      /\ main.at = "forward" /\ itemSize = 2 /\ main'.at = "sync" /\ main'.ids = main.ids
      /\ main' \in MainType
  BY DEF NoConsume, TypeOK, MainType
<1>2. TypeOK'
  BY <1>1 DEF TypeOK
<1>3. JobsInv' /\ WorkerInv' /\ BufferInv'
  BY <1>1 DEF JobsInv, WorkerInv, BufferInv
<1>4. MainInv'
  BY <1>1 DEF MainInv
<1>5. StreamInv'
  <2>1. RowsOnly => RowsOnly'
    BY <1>1 DEF RowsOnly, Intact, Undisturbed
  <2>2. IdsOnly => IdsOnly'
    BY <1>1 DEF IdsOnly, ThisSteps, ThisStep
  <2>3. RowsThenIds => RowsThenIds'
    BY <1>1 DEF RowsThenIds, Intact, Undisturbed, ThisSteps, ThisStep
  <2>. QED  BY <1>1, <2>1, <2>2, <2>3 DEF StreamInv
<1>. QED  BY <1>2, <1>3, <1>4, <1>5

\* A job that is done and ok has had its ids copied, and before them everything
\* that was under way: the stream is empty.
LEMMA HitStream ==
  ASSUME IInv, main.at = "rows", job[main.job].ok
  PROVE  stream = << >>
<1>1. main.job = ThisStep /\ main.job # None /\ job[main.job].copied
  BY DEF IInv, MainInv, BufferInv, ThisStep, TypeOK, Slots
<1>2. ~RowsOnly
  BY DEF RowsOnly
<1>3. ~IdsOnly /\ ~RowsThenIds
  BY <1>1 DEF IdsOnly, RowsThenIds, ThisSteps
<1>. QED  BY <1>2, <1>3 DEF IInv, StreamInv

LEMMA HitIInv ==
  ASSUME IInv, Hit
  PROVE  IInv'
<1>. USE DEF IInv, memory, prefetcher
<1>1. /\ UNCHANGED <<idsBuf, rowsBuf, job, jobs, pending, slot, queue, itemSize, worker>>
      /\ main.at = "rows" /\ job[main.job].done /\ job[main.job].ok
      /\ main'.at = "idle" /\ main' \in MainType
      /\ stream' = Append(stream,
           [op |-> "rows", from |-> job[main.job].slot, want |-> main.ids])
  BY DEF Hit, Finished, TypeOK, MainType
<1>2. /\ main.job = ThisStep /\ main.job # None /\ 1 - slot \in Slots
      /\ job[main.job].slot = 1 - slot /\ job[main.job].ids = main.ids
      /\ rowsBuf[1 - slot] = main.ids /\ main.ids \in Ids
  BY <1>1 DEF MainInv, BufferInv, JobsInv, ThisStep, TypeOK, Slots
<1>3. PICK r : r = [op |-> "rows", from |-> 1 - slot, want |-> main.ids] /\ stream' = <<r>>
  BY <1>1, <1>2, HitStream, ShortSeqs
<1>4. TypeOK'
  BY <1>1 DEF TypeOK
<1>5. JobsInv' /\ WorkerInv' /\ BufferInv'
  BY <1>1 DEF JobsInv, WorkerInv, BufferInv
<1>6. MainInv'
  BY <1>1 DEF MainInv
<1>7. StreamInv'
  <2>1. r \in RowsCopy /\ r.from = 1 - slot /\ r.want = main.ids
    BY <1>2, <1>3 DEF RowsCopy
  <2>2. Intact(r)' /\ Undisturbed(r.from)'
    BY <1>1, <1>2, <2>1 DEF Intact, Undisturbed, ThisStep
  <2>3. itemSize' = 1 => pending' = None
    BY <1>1 DEF MainInv
  <2>. QED  BY <1>1, <1>3, <2>1, <2>2, <2>3 DEF StreamInv, RowsOnly
<1>. QED  BY <1>4, <1>5, <1>6, <1>7

LEMMA MissIInv ==
  ASSUME IInv, Miss
  PROVE  IInv'
<1>. USE DEF IInv, memory, prefetcher
<1>1. /\ UNCHANGED <<idsBuf, rowsBuf, job, jobs, pending, slot, queue, itemSize, worker, stream>>
      /\ main.at = "rows" /\ main'.at = "sync" /\ main'.ids = main.ids
      /\ main' \in MainType
  BY DEF Miss, TypeOK, MainType
<1>2. TypeOK'
  BY <1>1 DEF TypeOK
<1>3. JobsInv' /\ WorkerInv' /\ BufferInv'
  BY <1>1 DEF JobsInv, WorkerInv, BufferInv
<1>4. MainInv'
  BY <1>1 DEF MainInv
<1>5. StreamInv'
  <2>1. ~RowsOnly
    BY <1>1 DEF RowsOnly
  <2>2. IdsOnly => IdsOnly'
    BY <1>1 DEF IdsOnly, ThisSteps, ThisStep
  <2>3. RowsThenIds => RowsThenIds'
    BY <1>1 DEF RowsThenIds, Intact, Undisturbed, ThisSteps, ThisStep
  <2>. QED  BY <1>1, <2>1, <2>2, <2>3 DEF StreamInv
<1>. QED  BY <1>2, <1>3, <1>4, <1>5

\* The gather starts when the stream has run empty, and nothing is issued before
\* its rows are there.
LEMMA SyncStartIInv ==
  ASSUME IInv, SyncStart
  PROVE  IInv'
<1>. USE DEF IInv, memory, prefetcher
<1>1. /\ UNCHANGED <<idsBuf, rowsBuf, job, jobs, pending, slot, queue, itemSize, worker, stream>>
      /\ stream = << >>
      /\ main.at = "sync" /\ main'.at = "gather" /\ main'.ids = main.ids /\ main' \in MainType
  BY DEF SyncStart, DeviceIdle, TypeOK, MainType
<1>2. TypeOK'
  BY <1>1 DEF TypeOK
<1>3. JobsInv' /\ WorkerInv' /\ BufferInv'
  BY <1>1 DEF JobsInv, WorkerInv, BufferInv
<1>4. MainInv'
  BY <1>1 DEF MainInv
<1>5. StreamInv'
  BY <1>1 DEF StreamInv
<1>. QED  BY <1>2, <1>3, <1>4, <1>5

LEMMA GatherStream ==
  ASSUME IInv, main.at = "gather"
  PROVE  stream = << >>
<1>1. ~RowsOnly
  BY DEF RowsOnly
<1>2. ~IdsOnly /\ ~RowsThenIds
  BY DEF IdsOnly, RowsThenIds, ThisSteps
<1>. QED  BY <1>1, <1>2 DEF IInv, StreamInv

LEMMA SyncGatherIInv ==
  ASSUME IInv, SyncGather
  PROVE  IInv'
<1>. USE DEF IInv, memory, prefetcher
<1>1. /\ UNCHANGED <<idsBuf, job, jobs, pending, slot, queue, itemSize, worker>>
      /\ rowsBuf' = [rowsBuf EXCEPT ![Pinned] = main.ids]
      /\ main.at = "gather" /\ stream = << >>
      /\ main'.at = "idle" /\ main' \in MainType
      /\ stream' = Append(stream, [op |-> "rows", from |-> Pinned, want |-> main.ids])
  BY GatherStream DEF SyncGather, Finished, TypeOK, MainType
<1>2. main.ids \in Ids
  BY <1>1 DEF MainInv
<1>3. PICK r : r = [op |-> "rows", from |-> Pinned, want |-> main.ids] /\ stream' = <<r>>
  BY <1>1, ShortSeqs
<1>4. rowsBuf'[Pinned] = main.ids /\ \A s \in Slots : rowsBuf'[s] = rowsBuf[s]
  BY <1>1 DEF TypeOK, Slots, Pinned
<1>5. TypeOK'
  BY <1>1, <1>2 DEF TypeOK
<1>6. JobsInv' /\ WorkerInv' /\ BufferInv'
  BY <1>1, <1>4 DEF JobsInv, WorkerInv, BufferInv
<1>7. MainInv'
  BY <1>1 DEF MainInv
<1>8. StreamInv'
  <2>1. r \in RowsCopy /\ r.from = Pinned /\ r.want = main.ids
    BY <1>2, <1>3 DEF RowsCopy
  <2>2. Intact(r)' /\ Undisturbed(r.from)'
    BY <1>4, <2>1 DEF Intact, Undisturbed, Pinned, Slots
  <2>3. itemSize' = 1 => pending' = None
    BY <1>1 DEF MainInv
  <2>. QED  BY <1>1, <1>3, <2>1, <2>2, <2>3 DEF StreamInv, RowsOnly
<1>. QED  BY <1>5, <1>6, <1>7, <1>8

----------------------------------------------------------------------------
(* The worker.                                                             *)

LEMMA WorkerGetIInv ==
  ASSUME IInv, WorkerGet
  PROVE  IInv'
<1>. USE DEF IInv, memory
<1>1. /\ UNCHANGED <<idsBuf, rowsBuf, job, jobs, pending, slot, itemSize, main, stream>>
      /\ queue # << >> /\ queue' = Tail(queue)
      /\ worker' = [worker EXCEPT !.at = "event", !.job = Head(queue)]
  BY DEF WorkerGet
<1>2. /\ Head(queue) = queue[1] /\ Head(queue) \in DOMAIN job
      /\ queue' \in Seq(DOMAIN job) /\ Len(queue') = Len(queue) - 1
      /\ \A i \in 1 .. Len(queue) - 1 : queue'[i] = queue[i + 1]
      /\ Len(queue) \in Nat \ {0}
  BY <1>1, QueueHead DEF TypeOK
<1>3. worker'.at = "event" /\ worker'.job = queue[1]
  BY <1>1, <1>2 DEF TypeOK
<1>4. TypeOK'
  BY <1>1, <1>2 DEF TypeOK
<1>5. JobsInv' /\ BufferInv' /\ MainInv'
  BY <1>1 DEF JobsInv, BufferInv, MainInv, ThisStep
<1>6. WorkerInv'
  <2>1. queue[1] # None
    BY <1>2, JobsAssumption DEF TypeOK
  <2>2. \A i \in 1 .. Len(queue') : i + 1 \in 1 .. Len(queue)
    BY <1>2
  <2>3. ASSUME NEW i \in 1 .. Len(queue')
        PROVE  ~job[queue'[i]].done /\ queue'[i] # queue[1]
    <3>1. queue'[i] = queue[i + 1] /\ i + 1 \in 1 .. Len(queue) /\ 1 \in 1 .. Len(queue) /\ i + 1 # 1
      BY <1>2, <2>2
    <3>. QED  BY <3>1 DEF WorkerInv
  <2>4. \A i, k \in 1 .. Len(queue') : queue'[i] = queue'[k] => i = k
    BY <1>2, <2>2 DEF WorkerInv
  <2>5. ~job[queue[1]].done
    BY <1>2 DEF WorkerInv
  <2>. QED  BY <1>1, <1>3, <2>1, <2>3, <2>4, <2>5 DEF WorkerInv
<1>7. StreamInv'
  BY <1>1 DEF StreamInv, RowsOnly, IdsOnly, RowsThenIds, Intact, Undisturbed, ThisSteps, ThisStep
<1>. QED  BY <1>4, <1>5, <1>6, <1>7

\* The slot of the worker's job is the worker's: the job is unfinished.
LEMMA WorkersSlot ==
  ASSUME IInv, worker.at # "get"
  PROVE  /\ worker.job \in DOMAIN job /\ worker.job # None
         /\ job[worker.job] \in JobType /\ ~job[worker.job].done
         /\ job[worker.job].slot \in Slots
         /\ jobs[job[worker.job].slot] = worker.job
BY DEF IInv, TypeOK, WorkerInv, JobsInv, JobType

LEMMA WorkerReadIdsIInv ==
  ASSUME IInv, WorkerReadIds
  PROVE  IInv'
<1>. USE DEF IInv, memory, prefetcher
<1>1. /\ UNCHANGED <<idsBuf, rowsBuf, job, jobs, pending, slot, queue, itemSize, main, stream>>
      /\ worker.at = "event" /\ job[worker.job].copied
      /\ worker' = [worker EXCEPT !.at = "gather", !.ids = idsBuf[job[worker.job].slot]]
  BY DEF WorkerReadIds, IdsCopied
<1>2. /\ worker.job \in DOMAIN job /\ worker.job # None /\ ~job[worker.job].done
      /\ idsBuf[job[worker.job].slot] = job[worker.job].ids
      /\ job[worker.job].ids \in Ids
  BY <1>1, WorkersSlot DEF BufferInv, JobType
<1>3. worker'.at = "gather" /\ worker'.job = worker.job /\ worker'.ids = job[worker.job].ids
  BY <1>1, <1>2 DEF TypeOK
<1>4. TypeOK'
  BY <1>1, <1>2 DEF TypeOK
<1>5. JobsInv' /\ BufferInv' /\ MainInv'
  BY <1>1 DEF JobsInv, BufferInv, MainInv, ThisStep
<1>6. WorkerInv'
  BY <1>1, <1>2, <1>3 DEF WorkerInv
<1>7. StreamInv'
  BY <1>1 DEF StreamInv, RowsOnly, IdsOnly, RowsThenIds, Intact, Undisturbed, ThisSteps, ThisStep
<1>. QED  BY <1>4, <1>5, <1>6, <1>7

\* No copy reads the slot the worker writes: its job is unfinished, and the copy
\* of its ids, behind which the rows before it have left, is over.
LEMMA WorkerWrites ==
  ASSUME IInv, worker.at \in {"gather", "write"},
         UNCHANGED <<jobs, slot, itemSize, main, stream, pending>>,
         NEW w \in Ids \cup {NoIds, Torn},
         rowsBuf' = [rowsBuf EXCEPT ![job[worker.job].slot] = w],
         DOMAIN job' = DOMAIN job,
         \A j \in DOMAIN job : /\ job'[j].copied = job[j].copied
                               /\ job[j].done => job'[j].done
  PROVE  StreamInv'
<1>. DEFINE s == job[worker.job].slot
<1>1. s \in Slots /\ jobs[s] = worker.job /\ ~job[worker.job].done /\ job[worker.job].copied
  BY WorkersSlot DEF IInv, WorkerInv
<1>. HIDE DEF s
<1>2. \A p \in Slots \cup {Pinned} : p # s => rowsBuf'[p] = rowsBuf[p]
  BY DEF IInv, TypeOK, s
<1>3. \A p : Undisturbed(p) => p # s /\ Undisturbed(p)'
  BY <1>1 DEF Undisturbed, IInv, TypeOK
<1>4. \A c : ThisSteps(c) => ThisSteps(c)' /\ 1 - slot # s
  BY <1>1 DEF ThisSteps, ThisStep
<1>5. \A r : Intact(r) /\ r.from # s => Intact(r)'
  BY <1>2 DEF Intact, RowsCopy
<1>6. RowsOnly => RowsOnly'
  BY <1>3, <1>5 DEF RowsOnly
<1>7. IdsOnly => IdsOnly'
  BY <1>4 DEF IdsOnly
<1>8. RowsThenIds => RowsThenIds'
  BY <1>3, <1>4, <1>5 DEF RowsThenIds
<1>. QED  BY <1>6, <1>7, <1>8 DEF IInv, StreamInv

LEMMA WorkerWriteRowsIInv ==
  ASSUME IInv, WorkerWriteRows
  PROVE  IInv'
<1>. USE DEF IInv, memory, prefetcher
<1>. DEFINE s == job[worker.job].slot
<1>1. /\ UNCHANGED <<idsBuf, job, jobs, pending, slot, queue, itemSize, main, stream>>
      /\ worker.at = "gather"
      /\ worker' = [worker EXCEPT !.at = "write", !.ids = IF idsBuf[s] = @ THEN @ ELSE Torn]
      /\ rowsBuf' = [rowsBuf EXCEPT ![s] = Torn]
  BY DEF WorkerWriteRows
<1>2. /\ worker.job \in DOMAIN job /\ worker.job # None /\ ~job[worker.job].done
      /\ s \in Slots /\ jobs[s] = worker.job /\ job[worker.job].copied
      /\ idsBuf[s] = worker.ids /\ worker.ids = job[worker.job].ids
  BY <1>1, WorkersSlot DEF BufferInv, WorkerInv
<1>3. worker'.at = "write" /\ worker'.job = worker.job /\ worker'.ids = worker.ids
  BY <1>1, <1>2 DEF TypeOK
<1>4. StreamInv'
  BY <1>1, WorkerWrites
<1>. HIDE DEF s
<1>5. TypeOK'
  BY <1>1, <1>2 DEF TypeOK
<1>6. JobsInv' /\ MainInv'
  BY <1>1 DEF JobsInv, MainInv, ThisStep
<1>7. WorkerInv'
  BY <1>1, <1>2, <1>3 DEF WorkerInv
<1>8. BufferInv'
  BY <1>1, <1>2 DEF BufferInv, TypeOK
<1>. QED  BY <1>4, <1>5, <1>6, <1>7, <1>8

LEMMA WorkerDoneIInv ==
  ASSUME IInv, WorkerDone
  PROVE  IInv'
<1>. USE DEF IInv, memory
<1>. DEFINE j == worker.job
            s == job[j].slot
<1>1. /\ UNCHANGED <<idsBuf, jobs, pending, slot, queue, itemSize, main, stream>>
      /\ worker.at = "write"
      /\ worker' = [at |-> "get", job |-> None, ids |-> NoIds]
      /\ job' = [job EXCEPT ![j].ok = TRUE, ![j].done = TRUE]
      /\ rowsBuf' = [rowsBuf EXCEPT ![s] = worker.ids]
  BY DEF WorkerDone
<1>2. /\ j \in DOMAIN job /\ j # None /\ job[j] \in JobType /\ ~job[j].done
      /\ s \in Slots /\ jobs[s] = j /\ job[j].copied /\ worker.ids = job[j].ids
      /\ worker.ids \in Ids
  BY <1>1, WorkersSlot DEF WorkerInv, JobType
<1>3. /\ DOMAIN job' = DOMAIN job
      /\ \A i \in DOMAIN job : i # j => job'[i] = job[i]
      /\ job'[j] = [job[j] EXCEPT !.ok = TRUE, !.done = TRUE]
  BY <1>1, <1>2 DEF TypeOK
<1>4. /\ job'[j] \in JobType /\ job'[j].slot = s /\ job'[j].ids = job[j].ids
      /\ job'[j].copied /\ job'[j].done
  BY <1>2, <1>3 DEF JobType
<1>5. StreamInv'
  <2>1. \A i \in DOMAIN job : job'[i].copied = job[i].copied /\ (job[i].done => job'[i].done)
    BY <1>2, <1>3, <1>4
  <2>. QED  BY <1>1, <1>2, <1>3, <2>1, WorkerWrites
<1>. HIDE DEF j, s
<1>6. TypeOK'
  <2>1. job' \in [DOMAIN job' -> JobType]
    BY <1>1, <1>3, <1>4 DEF TypeOK
  <2>. QED  BY <1>1, <1>2, <1>3, <2>1 DEF TypeOK
<1>7. JobsInv'
  BY <1>1, <1>2, <1>3, <1>4 DEF JobsInv, TypeOK
<1>8. MainInv'
  <2>1. \A i \in DOMAIN job : job'[i].ids = job[i].ids
    BY <1>3, <1>4
  <2>2. ThisStep' = ThisStep /\ ThisStep \in DOMAIN job \cup {None}
    BY <1>1 DEF ThisStep, TypeOK, Slots
  <2>. QED  BY <1>1, <2>1, <2>2 DEF MainInv
<1>9. WorkerInv'
  <2>1. \A i \in 1 .. Len(queue) : queue[i] # j /\ queue[i] \in DOMAIN job /\ queue[i] # None
    BY JobsAssumption DEF WorkerInv, TypeOK, j
  <2>. QED  BY <1>1, <1>3, <2>1 DEF WorkerInv
<1>10. BufferInv'
  BY <1>1, <1>2, <1>3, <1>4 DEF BufferInv, JobsInv, TypeOK
<1>. QED  BY <1>5, <1>6, <1>7, <1>8, <1>9, <1>10

LEMMA WorkerErrorIInv ==
  ASSUME IInv, WorkerError
  PROVE  IInv'
<1>. USE DEF IInv, memory
<1>. DEFINE j == worker.job
<1>1. /\ UNCHANGED <<idsBuf, rowsBuf, jobs, pending, slot, queue, itemSize, main, stream>>
      /\ worker.at # "get"
      /\ worker' = [at |-> "get", job |-> None, ids |-> NoIds]
      /\ job' = [job EXCEPT ![j].done = TRUE]
  BY DEF WorkerError
<1>2. /\ j \in DOMAIN job /\ j # None /\ job[j] \in JobType /\ ~job[j].done
      /\ job[j].slot \in Slots /\ jobs[job[j].slot] = j
  BY <1>1, WorkersSlot
<1>3. /\ DOMAIN job' = DOMAIN job
      /\ \A i \in DOMAIN job : i # j => job'[i] = job[i]
      /\ job'[j] = [job[j] EXCEPT !.done = TRUE]
  BY <1>1, <1>2 DEF TypeOK
<1>4. /\ job'[j] \in JobType /\ job'[j].slot = job[j].slot /\ job'[j].ids = job[j].ids
      /\ job'[j].copied = job[j].copied /\ job'[j].done /\ job'[j].ok = job[j].ok
  BY <1>2, <1>3 DEF JobType
<1>. HIDE DEF j
<1>5. TypeOK'
  <2>1. job' \in [DOMAIN job' -> JobType]
    BY <1>1, <1>3, <1>4 DEF TypeOK
  <2>. QED  BY <1>1, <1>2, <1>3, <2>1 DEF TypeOK
<1>6. JobsInv'
  BY <1>1, <1>2, <1>3, <1>4 DEF JobsInv, TypeOK
<1>7. MainInv'
  BY <1>1, <1>2, <1>3, <1>4 DEF MainInv, ThisStep
<1>8. WorkerInv'
  <2>1. \A i \in 1 .. Len(queue) : queue[i] # j /\ queue[i] \in DOMAIN job /\ queue[i] # None
    BY JobsAssumption DEF WorkerInv, TypeOK, j
  <2>. QED  BY <1>1, <1>3, <2>1 DEF WorkerInv
<1>9. BufferInv'
  BY <1>1, <1>2, <1>3, <1>4 DEF BufferInv, TypeOK
<1>10. StreamInv'
  <2>1. \A p : Undisturbed(p) => Undisturbed(p)'
    BY <1>1, <1>2, <1>3, <1>4 DEF Undisturbed, TypeOK
  <2>2. \A c : ThisSteps(c) => ThisSteps(c)'
    BY <1>1, <1>2, <1>3, <1>4 DEF ThisSteps, ThisStep
  <2>. QED  BY <1>1, <2>1, <2>2 DEF StreamInv, RowsOnly, IdsOnly, RowsThenIds, Intact
<1>. QED  BY <1>5, <1>6, <1>7, <1>8, <1>9, <1>10

----------------------------------------------------------------------------
(* The device.                                                             *)

LEMMA CopyIdsIInv ==
  ASSUME IInv, CopyIds
  PROVE  IInv'
<1>. USE DEF IInv, memory
<1>1. PICK c : /\ c = Head(stream) /\ c.op = "ids" /\ stream' = Tail(stream) /\ stream # << >>
               /\ idsBuf' = [idsBuf EXCEPT ![job[c.job].slot] = job[c.job].ids]
               /\ job' = [job EXCEPT ![c.job].copied = TRUE]
               /\ UNCHANGED <<rowsBuf, jobs, pending, slot, queue, main, worker, itemSize>>
  BY DEF CopyIds
<1>2. stream = <<c>> /\ ThisSteps(c)
  BY <1>1, ShortSeqs DEF StreamInv, RowsOnly, IdsOnly, RowsThenIds, RowsCopy
<1>3. PICK j : j = c.job /\ j = ThisStep /\ j \in DOMAIN job /\ ~job[j].copied
  BY <1>2 DEF ThisSteps
<1>4. /\ job[j] \in JobType /\ j # None /\ 1 - slot \in Slots
      /\ jobs[1 - slot] = j /\ job[j].slot = 1 - slot
  BY <1>3, JobsAssumption DEF TypeOK, JobsInv, ThisStep, Slots
<1>5. /\ DOMAIN job' = DOMAIN job
      /\ \A i \in DOMAIN job : i # j => job'[i] = job[i]
      /\ job'[j] = [job[j] EXCEPT !.copied = TRUE]
  BY <1>1, <1>3 DEF TypeOK
<1>6. /\ job'[j] \in JobType /\ job'[j].copied
      /\ job'[j].slot = job[j].slot /\ job'[j].ids = job[j].ids
      /\ job'[j].ok = job[j].ok /\ job'[j].done = job[j].done
  BY <1>4, <1>5 DEF JobType
<1>7. /\ idsBuf' \in [Slots -> Ids \cup {NoIds}]
      /\ idsBuf'[1 - slot] = job[j].ids
      /\ \A s \in Slots : s # 1 - slot => idsBuf'[s] = idsBuf[s]
  BY <1>1, <1>3, <1>4 DEF TypeOK, JobType
<1>8. TypeOK'
  <2>1. job' \in [DOMAIN job' -> JobType]
    BY <1>1, <1>5, <1>6 DEF TypeOK
  <2>. QED  BY <1>1, <1>5, <1>7, <2>1 DEF TypeOK
<1>9. \A i \in DOMAIN job :
        /\ job'[i].slot = job[i].slot /\ job'[i].ids = job[i].ids
        /\ job'[i].ok = job[i].ok /\ job'[i].done = job[i].done
        /\ job[i].copied => job'[i].copied
  BY <1>5, <1>6
<1>10. JobsInv'
  BY <1>1, <1>5, <1>9, JobsAssumption DEF JobsInv, TypeOK
<1>11. WorkerInv'
  <2>1. \A i \in 1 .. Len(queue) : queue[i] \in DOMAIN job
    BY DEF TypeOK
  <2>2. worker.at # "get" => worker.job \in DOMAIN job
    BY DEF WorkerInv, TypeOK
  <2>. QED  BY <1>1, <1>9, <2>1, <2>2 DEF WorkerInv
<1>12. BufferInv'
  <2>1. ASSUME NEW s \in Slots, jobs[s] # None
        PROVE  /\ job'[jobs[s]].copied => idsBuf'[s] = job'[jobs[s]].ids
               /\ job'[jobs[s]].ok =>
                    job'[jobs[s]].done /\ job'[jobs[s]].copied /\ rowsBuf[s] = job'[jobs[s]].ids
    <3>1. jobs[s] \in DOMAIN job
      BY <2>1 DEF TypeOK
    <3>2. CASE s = 1 - slot
      BY <1>3, <1>4, <1>6, <1>7, <1>9, <2>1, <3>2 DEF BufferInv
    <3>3. CASE s # 1 - slot
      <4>1. jobs[s] # j
        BY <1>4, <2>1, <3>3 DEF JobsInv
      <4>. QED  BY <1>5, <1>7, <2>1, <3>1, <3>3, <4>1 DEF BufferInv
    <3>. QED  BY <3>2, <3>3
  <2>. QED  BY <1>1, <2>1 DEF BufferInv
<1>13. MainInv'
  BY <1>1, <1>3, <1>9 DEF MainInv, ThisStep
<1>14. StreamInv'
  BY <1>1, <1>2, ShortSeqs DEF StreamInv
<1>. QED  BY <1>8, <1>10, <1>11, <1>12, <1>13, <1>14

LEMMA CopyRowsIInv ==
  ASSUME IInv, CopyRows
  PROVE  IInv'
<1>. USE DEF IInv, memory, prefetcher
<1>1. /\ Head(stream).op = "rows" /\ stream' = Tail(stream) /\ stream # << >>
      /\ UNCHANGED <<idsBuf, rowsBuf, job, jobs, pending, slot, queue, itemSize, main, worker>>
  BY DEF CopyRows
<1>2. TypeOK' /\ JobsInv' /\ WorkerInv' /\ BufferInv' /\ MainInv'
  BY <1>1 DEF TypeOK, JobsInv, WorkerInv, BufferInv, MainInv, ThisStep
<1>3. StreamInv'
  <2>1. CASE RowsOnly
    BY <1>1, <2>1, ShortSeqs DEF StreamInv, RowsOnly
  <2>2. CASE RowsThenIds
    <3>1. PICK c \in IdsCopy : stream' = <<c>> /\ ThisSteps(c)
      BY <1>1, <2>2, ShortSeqs DEF RowsThenIds
    <3>2. ThisSteps(c)'
      BY <1>1, <3>1 DEF ThisSteps, ThisStep
    <3>. QED  BY <3>1, <3>2 DEF StreamInv, IdsOnly
  <2>3. ~IdsOnly
    BY <1>1, ShortSeqs DEF IdsOnly, IdsCopy
  <2>. QED  BY <1>1, <2>1, <2>2, <2>3 DEF StreamInv
<1>. QED  BY <1>2, <1>3

----------------------------------------------------------------------------
(* The invariant of the pipeline and what it says of the properties.       *)

LEMMA NextIInv ==
  ASSUME IInv, [Next]_vars
  PROVE  IInv'
<1>1. CASE Assemble
  BY <1>1, HookIInv, NoHookIInv DEF Assemble
<1>2. CASE Lookup
  BY <1>2, PrefetchIInv, SkipStuckSlotIInv, ConsumeIInv, NoConsumeIInv, HitIInv, MissIInv,
     SyncStartIInv DEF Lookup
<1>3. CASE Worker
  BY <1>3, WorkerGetIInv, WorkerReadIdsIInv, WorkerWriteRowsIInv, WorkerDoneIInv,
     WorkerErrorIInv DEF Worker
<1>4. CASE Device
  BY <1>4, CopyIdsIInv, CopyRowsIInv DEF Device
<1>5. CASE SyncGather
  BY <1>5, SyncGatherIInv
<1>6. CASE UNCHANGED vars
  BY <1>6 DEF vars, memory, prefetcher, IInv, TypeOK, JobsInv,
     WorkerInv, BufferInv, MainInv, ThisStep, StreamInv, RowsOnly, IdsOnly, RowsThenIds, Intact,
     Undisturbed, ThisSteps
<1>. QED  BY <1>1, <1>2, <1>3, <1>4, <1>5, <1>6 DEF Next

\* The invariant holds in every state of the pipeline, however the main thread,
\* the worker and the device of vllm_ple_mmap.py interleave.
THEOREM Invariance == Spec => []IInv
BY InitIInv, NextIInv, PTL DEF Spec

\* Pinned memory under a copy that was issued and not executed still holds the
\* rows the copy was issued for, although prefetch, the worker and the
\* synchronous gather reuse it without asking the device.
THEOREM PinnedRowsSafe == Spec => []CopiesIntact
<1>1. IInv => CopiesIntact
  BY DEF IInv, StreamInv, RowsOnly, IdsOnly, RowsThenIds, Intact, IdsCopy, ThisSteps,
     CopiesIntact, Source, Range
<1>. QED  BY Invariance, <1>1, PTL

\* Two unfinished jobs never share a slot: prefetch waits for the slot's former
\* job or skips the step.
THEOREM SlotsExclusive == Spec => []OneJobPerSlot
<1>1. IInv => OneJobPerSlot
  BY DEF IInv, JobsInv, OneJobPerSlot, Unfinished
<1>. QED  BY Invariance, <1>1, PTL

\* What consume takes from _pending was put there by the prefetch of its step.
THEOREM PendingFresh == Spec => []PendingIsThisSteps
<1>1. IInv => PendingIsThisSteps
  BY DEF IInv, MainInv, PendingIsThisSteps
<1>. QED  BY Invariance, <1>1, PTL

----------------------------------------------------------------------------
(* The refinement of RowLookup.                                            *)

LEMMA NoneOnTheWay ==
  /\ OnTheWay(<< >>) = << >>
  /\ \A c \in IdsCopy : OnTheWay(<<c>>) = << >>
<1>1. ASSUME NEW s, RowsIssued(s) = {} PROVE OnTheWay(s) = << >>
  <2>1. Cardinality(RowsIssued(s)) = 0
    BY <1>1, FS_EmptySet
  <2>. QED  BY <1>1, <2>1 DEF OnTheWay
<1>2. RowsIssued(<< >>) = {} /\ \A c \in IdsCopy : RowsIssued(<<c>>) = {}
  BY DEF RowsIssued, IdsCopy
<1>. QED  BY <1>1, <1>2

LEMMA OneOnTheWay ==
  ASSUME NEW r \in RowsCopy
  PROVE  /\ OnTheWay(<<r>>) = <<r.want>>
         /\ \A c \in IdsCopy : OnTheWay(<<r, c>>) = <<r.want>>
<1>1. ASSUME NEW s, RowsIssued(s) = {1}, s[1] = r PROVE OnTheWay(s) = <<r.want>>
  <2>. DEFINE nth(n) == CHOOSE i \in {1} : Cardinality({k \in {1} : k <= i}) = n
  <2>1. Cardinality({1}) = 1 /\ {k \in {1} : k <= 1} = {1}
    BY FS_Singleton
  <2>2. nth(1) = 1
    BY <2>1
  <2>3. OnTheWay(s) = [n \in 1 .. Cardinality({1}) |-> s[nth(n)].want]
    BY <1>1 DEF OnTheWay
  <2>. HIDE DEF nth
  <2>. QED  BY <1>1, <2>1, <2>2, <2>3
<1>2. RowsIssued(<<r>>) = {1} /\ \A c \in IdsCopy : RowsIssued(<<r, c>>) = {1}
  BY DEF RowsIssued, RowsCopy, IdsCopy
<1>. QED  BY <1>1, <1>2

LEMMA AskInOrder ==
  ASSUME NEW w, NEW v
  PROVE  /\ Append(<< >> \o << >>, v) = << >> \o <<v>>
         /\ Append(<<w>> \o << >>, v) = <<w>> \o <<v>>
         /\ <<w>> \o << >> = << >> \o <<w>>
<1>1. << >> \o << >> = << >> /\ << >> \o <<v>> = <<v>> /\ << >> \o <<w>> = <<w>> /\ <<w>> \o << >> = <<w>>
  OBVIOUS
<1>2. <<w>> \o <<v>> = Append(<<w>>, v)
  OBVIOUS
<1>. QED  BY <1>1, <1>2, ShortSeqs

LEMMA AnswerInOrder ==
  ASSUME NEW w, NEW v, NEW rest, rest = << >> \/ rest = <<v>>
  PROVE  /\ <<w>> \o rest # << >> /\ Head(<<w>> \o rest) = w
         /\ Tail(<<w>> \o rest) = << >> \o rest
<1>1. CASE rest = << >>
  BY <1>1, ShortSeqs, AskInOrder
<1>2. CASE rest = <<v>>
  <2>1. <<w>> \o <<v>> = Append(<<w>>, v) /\ << >> \o <<v>> = <<v>>
    OBVIOUS
  <2>2. <<w>> \o <<v>> = <<w, v>>
    BY <2>1, ShortSeqs
  <2>3. <<w, v>> # << >> /\ Head(<<w, v>>) = w /\ Tail(<<w, v>>) = <<v>>
    BY ShortSeqs
  <2>. QED  BY <1>2, <2>1, <2>2, <2>3
<1>. QED  BY <1>1, <1>2

\* What is asked for is the rows under way and the batch of the step.
Asking == IF main.at = "idle" THEN << >> ELSE <<main.ids>>

LEMMA AskedShape ==
  /\ AskedSoFar = OnTheWay(stream) \o Asking
  /\ AskedSoFar' = OnTheWay(stream') \o Asking'
BY DEF AskedSoFar, Asking

LEMMA InitRefines == Init => Lookups!Init
<1>. SUFFICES ASSUME Init PROVE Lookups!Init
  OBVIOUS
<1>1. AskedSoFar = << >> \o << >>
  BY NoneOnTheWay, AskedShape DEF Init, Asking
<1>. QED  BY <1>1 DEF Init, Lookups!Init

\* A step of the pipeline asks when the main thread takes up a batch, answers
\* when rows reach the device, and in between keeps what is asked for.
LEMMA AskRefines ==
  ASSUME IInv, Assemble
  PROVE  Lookups!Next
<1>1. PICK v \in Ids : /\ main.at = "idle" /\ main'.at # "idle" /\ main'.ids = v
                       /\ stream' = stream /\ output' = output
  <2>1. main \in MainType
    BY DEF IInv, TypeOK
  <2>. QED  BY <2>1 DEF Assemble, Hook, NoHook, MainType
<1>2. OnTheWay(stream) = << >> \/ \E w \in Ids : OnTheWay(stream) = <<w>>
  BY <1>1, NoneOnTheWay, OneOnTheWay
     DEF IInv, StreamInv, RowsOnly, IdsOnly, RowsThenIds, ThisSteps, RowsCopy
<1>3. AskedSoFar' = Append(AskedSoFar, v)
  BY <1>1, <1>2, AskedShape, AskInOrder DEF Asking
<1>. QED  BY <1>1, <1>3 DEF Lookups!Next, Lookups!Ask

LEMMA AnswerRefines ==
  ASSUME IInv, CopyRows
  PROVE  Lookups!Next
<1>1. /\ Head(stream).op = "rows" /\ stream # << >> /\ stream' = Tail(stream)
      /\ output' = [want |-> Head(stream).want, got |-> rowsBuf[Head(stream).from]]
      /\ main' = main
  BY DEF CopyRows, Source
<1>2. PICK r \in RowsCopy :
        /\ Intact(r) /\ Head(stream) = r
        /\ OnTheWay(stream) = <<r.want>> /\ OnTheWay(stream') = << >>
  <2>1. CASE RowsOnly
    BY <1>1, <2>1, ShortSeqs, NoneOnTheWay, OneOnTheWay DEF RowsOnly
  <2>2. CASE RowsThenIds
    <3>1. PICK r \in RowsCopy, c \in IdsCopy : stream = <<r, c>> /\ Intact(r)
      BY <2>2 DEF RowsThenIds
    <3>2. Head(stream) = r /\ stream' = <<c>>
      BY <1>1, <3>1, ShortSeqs
    <3>3. OnTheWay(stream) = <<r.want>> /\ OnTheWay(stream') = << >>
      BY <3>1, <3>2, NoneOnTheWay, OneOnTheWay
    <3>. QED  BY <3>1, <3>2, <3>3
  <2>3. ~IdsOnly
    BY <1>1, ShortSeqs DEF IdsOnly, IdsCopy
  <2>. QED  BY <1>1, <2>1, <2>2, <2>3 DEF IInv, StreamInv
<1>3. Asking' = Asking /\ (Asking = << >> \/ Asking = <<main.ids>>)
  BY <1>1 DEF Asking
<1>4. AskedSoFar # << >> /\ Head(AskedSoFar) = r.want /\ AskedSoFar' = Tail(AskedSoFar)
  BY <1>2, <1>3, AskedShape, AnswerInOrder
<1>5. output' = [want |-> Head(AskedSoFar), got |-> Head(AskedSoFar)]
  BY <1>1, <1>2, <1>4 DEF Intact
<1>. QED  BY <1>4, <1>5 DEF Lookups!Next, Lookups!Answer

LEMMA IssueStutters ==
  ASSUME IInv, Hit \/ SyncGather
  PROVE  UNCHANGED <<AskedSoFar, output>>
<1>1. stream = << >> /\ main.at # "idle"
  BY HitStream, GatherStream DEF Hit, SyncGather
<1>2. PICK r \in RowsCopy : r.want = main.ids /\ stream' = <<r>> /\ main'.at = "idle" /\ output' = output
  <2>1. main \in MainType /\ main.ids \in Ids
    BY <1>1 DEF IInv, TypeOK, MainInv
  <2>2. CASE Hit
    <3>1. job[main.job].slot \in Slots
      BY <2>2 DEF Hit, IInv, MainInv, BufferInv, ThisStep, TypeOK, Slots, JobType
    <3>2. [op |-> "rows", from |-> job[main.job].slot, want |-> main.ids] \in RowsCopy
      BY <2>1, <3>1 DEF RowsCopy
    <3>. QED  BY <1>1, <2>1, <2>2, <3>2, ShortSeqs DEF Hit, Finished, MainType
  <2>3. CASE SyncGather
    <3>1. [op |-> "rows", from |-> Pinned, want |-> main.ids] \in RowsCopy
      BY <2>1 DEF RowsCopy
    <3>. QED  BY <1>1, <2>1, <2>3, <3>1, ShortSeqs DEF SyncGather, Finished, MainType
  <2>. QED  BY <2>2, <2>3
<1>3. AskedSoFar = << >> \o <<main.ids>> /\ AskedSoFar' = <<main.ids>> \o << >>
  BY <1>1, <1>2, AskedShape, NoneOnTheWay, OneOnTheWay DEF Asking
<1>. QED  BY <1>2, <1>3, AskInOrder

LEMMA OthersStutter ==
  ASSUME IInv, Prefetch \/ SkipStuckSlot \/ Consume \/ NoConsume \/ Miss \/ SyncStart
               \/ Worker \/ CopyIds \/ UNCHANGED vars
  PROVE  UNCHANGED <<AskedSoFar, output>>
<1>1. output' = output
  BY DEF Prefetch, SkipStuckSlot, Consume, NoConsume, Miss, SyncStart, Worker, WorkerGet,
     WorkerReadIds, WorkerWriteRows, WorkerDone, WorkerError, CopyIds,
     vars
<1>2. Asking' = Asking
  <2>1. main \in MainType
    BY DEF IInv, TypeOK
  <2>2. main' = main \/ (main.at # "idle" /\ main'.at # "idle" /\ main'.ids = main.ids)
    BY <2>1 DEF MainType, Prefetch, SkipStuckSlot, Consume, NoConsume, Miss, SyncStart, Worker,
       WorkerGet, WorkerReadIds, WorkerWriteRows, WorkerDone, WorkerError, CopyIds, vars
  <2>. QED  BY <2>2 DEF Asking
<1>3. OnTheWay(stream') = OnTheWay(stream)
  <2>1. CASE Prefetch
    <3>1. PICK c \in IdsCopy : stream' = Append(stream, c) /\ main.at = "slot"
      BY <2>1 DEF Prefetch, IdsCopy
    <3>2. stream = << >> \/ RowsOnly
      BY <3>1 DEF IInv, StreamInv, IdsOnly, RowsThenIds, ThisSteps
    <3>3. CASE stream = << >>
      BY <3>1, <3>3, ShortSeqs, NoneOnTheWay
    <3>4. CASE RowsOnly
      <4>1. PICK r \in RowsCopy : stream = <<r>>
        BY <3>4 DEF RowsOnly
      <4>2. stream' = <<r, c>>
        BY <3>1, <4>1, ShortSeqs
      <4>. QED  BY <4>1, <4>2, OneOnTheWay
    <3>. QED  BY <3>2, <3>3, <3>4
  <2>2. CASE CopyIds
    <3>1. Head(stream).op = "ids" /\ stream # << >> /\ stream' = Tail(stream)
      BY <2>2 DEF CopyIds
    <3>2. IdsOnly
      BY <3>1, ShortSeqs DEF IInv, StreamInv, RowsOnly, RowsThenIds, RowsCopy
    <3>. QED  BY <3>1, <3>2, ShortSeqs, NoneOnTheWay DEF IdsOnly
  <2>3. CASE ~Prefetch /\ ~CopyIds
    BY <2>3 DEF SkipStuckSlot, Consume, NoConsume, Miss, SyncStart, Worker, WorkerGet,
       WorkerReadIds, WorkerWriteRows, WorkerDone, WorkerError, vars
  <2>. QED  BY <2>1, <2>2, <2>3
<1>. QED  BY <1>1, <1>2, <1>3, AskedShape

LEMMA NextRefines ==
  ASSUME IInv, [Next]_vars
  PROVE  [Lookups!Next]_<<AskedSoFar, output>>
<1>1. CASE Assemble \/ CopyRows
  BY <1>1, AskRefines, AnswerRefines
<1>2. CASE Hit \/ SyncGather
  BY <1>2, IssueStutters
<1>. QED  BY <1>1, <1>2, OthersStutter DEF Next, Lookup, Device

\* The pipeline implements the promise of RowLookup: whichever path served a
\* lookup and however late the worker was, lookups are answered in the order
\* they were asked and each with the rows of its own ids.
THEOREM Refinement == Spec => ImplementsRowLookup
<1>1. Spec => [][Next]_vars
  BY PTL DEF Spec
<1>. QED  BY InitRefines, NextRefines, Invariance, PTL
            DEF Spec, ImplementsRowLookup, Lookups!Spec
===============================================================================
