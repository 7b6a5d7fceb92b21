-------------------------------- MODULE Gptq --------------------------------
(***************************************************************************)
(* The 8-bit GPTQ layout of the output head: what                          *)
(* quantize_lm_head_int8.py writes, and how the draft head reads it back.  *)
(*                                                                         *)
(* A row is a sequence of integer weights.  A scale is kept as the weight  *)
(* it was picked from (scale = picked / -Half), so that all values are     *)
(* integers, scaled by Half; the rounding of scales to f16 is left out.    *)
(***************************************************************************)
EXTENDS Integers, Sequences, SequencesExt, FiniteSetsExt

CONSTANTS
  Bits,       \* BITS, 8 in the tool
  WordBits,   \* 32
  GroupSize   \* GROUP, 128

ASSUME GptqAssumption ==
  /\ {Bits, WordBits, GroupSize} \subseteq Nat \ {0}
  /\ WordBits % Bits = 0

Pow2[n \in 0 .. WordBits] == IF n = 0 THEN 1 ELSE 2 * Pow2[n - 1]
Half == Pow2[Bits - 1]
PackFactor == WordBits \div Bits

\* torch.round(n / d): to the nearest, halves to even.
RoundDiv(n, d) ==
  LET m == IF d < 0 THEN -n ELSE n
      e == IF d < 0 THEN -d ELSE d
      q == m \div e
      twice == 2 * (m % e)
  IN  IF twice > e \/ (twice = e /\ q % 2 = 1) THEN q + 1 ELSE q

Clamp(q) == IF q < 0 THEN 0 ELSE IF q > 2 * Half - 1 THEN 2 * Half - 1 ELSE q

\* The weight of greatest magnitude, of two the positive one.
Picked(group) ==
  LET wmin == Min(Range(group))
      wmax == Max(Range(group))
  IN  IF -wmin > wmax THEN wmin ELSE wmax

\* quantize() on one group.  The scale of an all-zero group is zero and dividing
\* by it gives NaN; the byte that becomes is undefined, nan stands for it.
QuantizedGroup(group, nan) ==
  [i \in 1 .. GroupSize |->
     IF Picked(group) = 0 THEN nan
     ELSE Clamp(RoundDiv(-group[i] * Half, Picked(group)) + Half)]

WeightGroup(row, g) == SubSeq(row, (g - 1) * GroupSize + 1, g * GroupSize)

\* The bytes of a row, group after group.
QuantizedRow(row, nan) ==
  [i \in 1 .. (Len(row) \div GroupSize) * GroupSize |->
     QuantizedGroup(WeightGroup(row, (i - 1) \div GroupSize + 1), nan)[((i - 1) % GroupSize) + 1]]

\* Little endian along the inputs.
PackedWord(bytes) == FoldLeft(+, 0, [i \in 1 .. PackFactor |-> bytes[i] * Pow2[Bits * (i - 1)]])

PackedRow(bytes) ==
  [w \in 1 .. Len(bytes) \div PackFactor |->
     PackedWord(SubSeq(bytes, (w - 1) * PackFactor + 1, w * PackFactor))]

Groups(row) == 1 .. Len(row) \div GroupSize

\* What quantize() writes: words and scales row by row, and the zero points, which
\* are packed along the rows and stored less one.
QuantizedHead(weights, nan) ==
  [qweight |-> [r \in DOMAIN weights |-> PackedRow(QuantizedRow(weights[r], nan))],
   qzeros  |-> [i \in 1 .. Cardinality(DOMAIN weights) \div PackFactor |->
                  PackedWord([j \in 1 .. PackFactor |-> Half - 1])],
   scales  |-> [r \in DOMAIN weights |->
                  [g \in Groups(weights[r]) |-> Picked(WeightGroup(weights[r], g))]]]

----------------------------------------------------------------------------
(* _dv_gptq_rows: the layout is inferred from the shapes alone.            *)

\* The stored zero point taken for the zero point itself.
ZeroPoint_AsStored(head, bits) == head.qzeros[1] % Pow2[bits]

ZeroPoint(head, bits) == (head.qzeros[1] % Pow2[bits]) + 1

\* Row r in bf16, scaled by Half.
DequantRow(head, r) ==
  LET pack == Cardinality(DOMAIN head.qweight) \div Len(head.qzeros)
      bits == WordBits \div pack
      inputs == Len(head.qweight[r]) * pack
      group == inputs \div Len(head.scales[r])
      byte(i) == (head.qweight[r][(i - 1) \div pack + 1] \div Pow2[bits * ((i - 1) % pack)]) % Pow2[bits]
  IN  [i \in 1 .. inputs |->
         -(byte(i) - ZeroPoint(head, bits)) * head.scales[r][(i - 1) \div group + 1]]
=============================================================================
