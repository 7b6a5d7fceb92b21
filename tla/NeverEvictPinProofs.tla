------------------------ MODULE NeverEvictPinProofs ------------------------
(***************************************************************************)
(* Proofs about the pin, alone and under the scheduler.                    *)
(*                                                                         *)
(* Alone: NeverEvictPin for any pool, any hashes and requests, any marked  *)
(* prompts and any cap.  The four invariants the runs check are inductive  *)
(* together; everything else follows from them, what is said of the        *)
(* history of the pin too: history variables only record, so every step of *)
(* HNext is one of Next.                                                   *)
(*                                                                         *)
(* Under the scheduler: every step of PinScheduler is an action of the     *)
(* pool or leaves it alone (SchedulerUsesPin), so all of that holds there  *)
(* too, and the prompt that was marked stays cached (MarkedPromptPinned).  *)
(***************************************************************************)
EXTENDS NeverEvictHistory, PinScheduler, SequenceTheorems, FiniteSetTheorems, TLAPS

\* The inductive invariant: no part of it is preserved without the others.
IInv == TypeOK /\ PoolPartition /\ ReservationSound /\ CapRespected

Holders == [Hashes -> Blocks \union {NoBlock}]

----------------------------------------------------------------------------
(* Lemmas about the operators.                                             *)

\* The cap computed from a fraction is a positive number of blocks.
LEMMA CapForType ==
  ASSUME NEW num \in Nat, NEW den \in Nat \ {0}
  PROVE  CapFor(num, den) \in Nat /\ CapFor(num, den) >= 1
<1>1. Cardinality(Blocks) \in Nat
  BY FS_CardinalityType, BlocksAssumption
<1>2. NumGpuBlocks * num \in Nat
  BY <1>1 DEF NumGpuBlocks
<1>3. (NumGpuBlocks * num) \div den \in Int
  BY <1>2
<1>. QED  BY <1>3 DEF CapFor

\* A function has no more values on a finite set than the set has elements.
LEMMA ImageBound ==
  ASSUME NEW S, IsFiniteSet(S), NEW f
  PROVE  /\ IsFiniteSet({f[x] : x \in S})
         /\ Cardinality({f[x] : x \in S}) <= Cardinality(S)
<1>. DEFINE T == {f[x] : x \in S}
            g == [x \in S |-> f[x]]
<1>1. g \in Surjection(S, T)
  BY DEF Surjection
<1>. QED  BY <1>1, FS_Surjection

\* Blocks with distinct hashes each stand for their own; the other hashes keep
\* the holder they had.
LEMMA HolderAmongFacts ==
  ASSUME NEW bs \in SUBSET Blocks, DistinctHashes(bs),
         \A b \in bs : blockHash[b] \in Hashes,
         NEW other \in Holders
  PROVE  /\ HolderAmong(bs, other) \in Holders
         /\ \A b \in bs : HolderAmong(bs, other)[blockHash[b]] = b
         /\ \A h \in Hashes :
              (~ \E b \in bs : blockHash[b] = h) => HolderAmong(bs, other)[h] = other[h]
         /\ \A h \in Hashes :
              (\E b \in bs : blockHash[b] = h) =>
                 /\ HolderAmong(bs, other)[h] \in bs
                 /\ blockHash[HolderAmong(bs, other)[h]] = h
<1>1. \A h \in Hashes : (\E b \in bs : blockHash[b] = h) =>
        /\ HolderAmong(bs, other)[h] \in bs
        /\ blockHash[HolderAmong(bs, other)[h]] = h
  BY DEF HolderAmong
<1>2. \A h \in Hashes :
        (~ \E b \in bs : blockHash[b] = h) => HolderAmong(bs, other)[h] = other[h]
  BY DEF HolderAmong
<1>3. \A b \in bs : HolderAmong(bs, other)[blockHash[b]] = b
  BY <1>1 DEF DistinctHashes
<1>4. HolderAmong(bs, other) \in Holders
  <2>1. HolderAmong(bs, other) = [h \in Hashes |-> HolderAmong(bs, other)[h]]
    BY DEF HolderAmong
  <2>2. \A h \in Hashes : HolderAmong(bs, other)[h] \in Blocks \union {NoBlock}
    BY <1>1, <1>2 DEF Holders
  <2>. QED  BY <2>1, <2>2 DEF Holders
<1>. QED  BY <1>1, <1>2, <1>3, <1>4

----------------------------------------------------------------------------
(* The initial state.                                                      *)

LEMMA InitIInv == Init => IInv
<1>. SUFFICES ASSUME Init PROVE IInv
  OBVIOUS
<1>. USE DEF Init, NoHolder
<1>1. TypeOK
  BY DEF TypeOK
<1>2. PoolPartition
  BY DEF PoolPartition, Idle
<1>3. Reserved = {}
  BY DEF Reserved
<1>4. ReservationSound
  BY <1>3 DEF ReservationSound
<1>5. CapRespected
  BY <1>3, FS_EmptySet DEF CapRespected
<1>. QED  BY <1>1, <1>2, <1>4, <1>5 DEF IInv

----------------------------------------------------------------------------
(* One lemma per operation of the pool.                                    *)

\* What IInv says of a pin whose blocks keep their hashes.
PinState(byHash, queue, free, hashes, cap) ==
  /\ free \subseteq Blocks /\ queue \subseteq Blocks
  /\ byHash \in Holders
  /\ hashes \subseteq Hashes
  /\ cap \in Nat
  /\ free \union queue = freeQueue \union pin
  /\ free \intersect queue = {}
  /\ \A h \in Hashes : byHash[h] # NoBlock =>
        h \in hashes /\ blockHash[byHash[h]] = h /\ byHash[h] \notin free
  /\ \A b \in queue : blockHash[b] \in Hashes /\ byHash[blockHash[b]] = b
  /\ Cardinality({h \in Hashes : byHash[h] # NoBlock}) <= cap

\* Replacing the pin loses no block, makes no reservation that is not held in
\* the pin queue, and ends within the new cap.
LEMMA SetPinnedHashesFacts ==
  ASSUME IInv, NEW hashes \in SUBSET Hashes, NEW cap \in Nat,
         SetPinnedHashes(hashes, cap)
  PROVE  /\ PinState(pinnedByHash', pin', freeQueue', pinnedHashes', pinCap')
         /\ pinnedIds' = pin'
         /\ pinnedHashes' = hashes
         /\ pinCap' = cap
         /\ Reserved' \subseteq Reserved
         /\ (hashes = pinnedHashes /\ cap = pinCap) => pinnedByHash' = pinnedByHash
<1>. USE DEF IInv
<1>1. CASE hashes = pinnedHashes /\ cap = pinCap
  <2>1. UNCHANGED <<freeQueue, pin, pinnedIds, pinnedByHash, pinnedHashes, pinCap>>
    BY <1>1 DEF SetPinnedHashes, pinVars
  <2>2. PinState(pinnedByHash, pin, freeQueue, pinnedHashes, pinCap)
    BY DEF PinState, TypeOK, PoolPartition, ReservationSound, CapRespected,
           Reserved, Holders
  <2>. QED  BY <1>1, <2>1, <2>2 DEF ReservationSound, Reserved
<1>2. CASE ~(hashes = pinnedHashes /\ cap = pinCap)
  <2>1. PICK kept \in SUBSET pin :
          /\ KeepPinned(kept, hashes, cap)
          /\ pinnedHashes' = hashes
          /\ pinCap' = cap
          /\ pin' = kept
          /\ pinnedIds' = kept
          /\ pinnedByHash' = HoldersAfterReplacing(kept)
          /\ freeQueue' = freeQueue \union Rehomed(kept)
    BY <1>2 DEF SetPinnedHashes
  <2>. DEFINE H == HoldersAfterReplacing(kept)
  <2>2. /\ kept \subseteq Blocks
        /\ DistinctHashes(kept)
        /\ \A b \in kept : blockHash[b] \in hashes
        /\ Cardinality(kept) <= cap
    <3>1. Cardinality({}) = 0
      BY FS_EmptySet
    <3>2. kept = {} \/ Cardinality(kept) <= cap
      BY <2>1 DEF KeepPinned
    <3>3. Cardinality(kept) <= cap
      BY <3>1, <3>2
    <3>. QED  BY <2>1, <3>3 DEF KeepPinned, TypeOK
  <2>3. NoHolder \in Holders
    BY DEF NoHolder, Holders
  <2>4. /\ H \in Holders
        /\ \A b \in kept : H[blockHash[b]] = b
        /\ \A h \in Hashes : (~ \E b \in kept : blockHash[b] = h) => H[h] = NoBlock
        /\ \A h \in Hashes : (\E b \in kept : blockHash[b] = h) =>
             H[h] \in kept /\ blockHash[H[h]] = h
    <3>1. \A h \in Hashes : NoHolder[h] = NoBlock
      BY DEF NoHolder
    <3>. QED
      BY <2>2, <2>3, <3>1, HolderAmongFacts DEF HoldersAfterReplacing
  <2>5. \A h \in Hashes : H[h] # NoBlock => H[h] \in kept /\ blockHash[H[h]] = h
    BY <2>4
  <2>6. Cardinality({h \in Hashes : H[h] # NoBlock}) <= cap
    <3>1. IsFiniteSet(kept)
      BY <2>2, BlocksAssumption, FS_Subset
    <3>2. /\ IsFiniteSet({blockHash[b] : b \in kept})
          /\ Cardinality({blockHash[b] : b \in kept}) <= Cardinality(kept)
      BY <3>1, ImageBound
    <3>3. {h \in Hashes : H[h] # NoBlock} \subseteq {blockHash[b] : b \in kept}
      BY <2>5
    <3>4. Cardinality({h \in Hashes : H[h] # NoBlock})
            <= Cardinality({blockHash[b] : b \in kept})
      BY <3>2, <3>3, FS_Subset
    <3>5. /\ Cardinality({h \in Hashes : H[h] # NoBlock}) \in Nat
          /\ Cardinality({blockHash[b] : b \in kept}) \in Nat
          /\ Cardinality(kept) \in Nat
      BY <3>1, <3>2, <3>3, FS_Subset, FS_CardinalityType
    <3>. QED  BY <2>2, <3>2, <3>4, <3>5
  <2>7. PinState(H, kept, freeQueue \union Rehomed(kept), hashes, cap)
    <3>1. /\ freeQueue \subseteq Blocks
          /\ freeQueue \intersect pin = {}
      BY DEF TypeOK, PoolPartition
    <3>2. \A h \in Hashes : H[h] # NoBlock =>
            /\ h \in hashes
            /\ blockHash[H[h]] = h
            /\ H[h] \notin freeQueue \union Rehomed(kept)
      BY <2>2, <2>5, <3>1, <2>1 DEF Rehomed
    <3>3. \A b \in kept : blockHash[b] \in Hashes /\ H[blockHash[b]] = b
      BY <2>2, <2>4
    <3>. QED  BY <2>1, <2>2, <2>4, <2>6, <3>1, <3>2, <3>3 DEF PinState, Rehomed, TypeOK
  <2>8. Reserved' \subseteq Reserved
    <3>1. \A b \in kept : blockHash[b] \in Hashes /\ pinnedByHash[blockHash[b]] = b
      BY DEF ReservationSound
    <3>2. kept \subseteq Blocks
      BY <2>2
    <3>. QED  BY <2>1, <2>5, <3>1, <3>2, BlocksAssumption DEF Reserved
  <2>. QED  BY <1>2, <2>1, <2>7, <2>8
<1>. QED  BY <1>1, <1>2

LEMMA ArmIInv ==
  ASSUME IInv, NEW hashes \in MarkedPrompts, ArmNeverEvictPin(hashes)
  PROVE  IInv'
<1>1. CapFor(FracNum, FracDen) \in Nat
  BY CapForType, FracAssumption
<1>2. /\ PinState(pinnedByHash', pin', freeQueue', pinnedHashes', pinCap')
      /\ pinnedIds' = pin'
  BY <1>1, SetPinnedHashesFacts, HashesAssumption DEF ArmNeverEvictPin
<1>3. UNCHANGED <<blockHash, refs>>
  BY DEF ArmNeverEvictPin
<1>4. TypeOK'
  BY <1>2, <1>3 DEF IInv, TypeOK, PinState, Holders
<1>5. PoolPartition'
  BY <1>2, <1>3 DEF IInv, PoolPartition, PinState, Idle
<1>6. ReservationSound'
  BY <1>2, <1>3 DEF ReservationSound, PinState, Reserved
<1>7. CapRespected'
  BY <1>2 DEF CapRespected, PinState, Reserved
<1>. QED  BY <1>4, <1>5, <1>6, <1>7 DEF IInv

LEMMA GetNewBlocksIInv ==
  ASSUME IInv, NEW r \in Requests, NEW bs \in SUBSET freeQueue, GetNewBlocks(r, bs)
  PROVE  IInv'
<1>. USE DEF IInv, GetNewBlocks, pinVars
<1>1. TypeOK'
  BY DEF TypeOK
<1>2. PoolPartition'
  BY DEF TypeOK, PoolPartition, Idle
<1>3. ReservationSound'
  <2>1. \A h \in Reserved : pinnedByHash[h] \in Blocks /\ pinnedByHash[h] \notin bs
    BY DEF TypeOK, ReservationSound, Reserved
  <2>2. \A b \in pin : b \in Blocks /\ b \notin bs
    BY DEF TypeOK, PoolPartition
  <2>3. Reserved' = Reserved
    BY DEF Reserved
  <2>. QED  BY <2>1, <2>2, <2>3 DEF ReservationSound, TypeOK
<1>4. CapRespected'
  BY DEF CapRespected, Reserved
<1>. QED  BY <1>1, <1>2, <1>3, <1>4

LEMMA CacheFullBlockIInv ==
  ASSUME IInv, NEW r \in Requests, NEW b \in Blocks, NEW h \in Hashes,
         CacheFullBlock(r, b, h)
  PROVE  IInv'
<1>. USE DEF IInv, CacheFullBlock, pinVars
<1>1. TypeOK'
  BY DEF TypeOK
<1>2. PoolPartition'
  BY DEF PoolPartition, Idle
<1>3. ReservationSound'
  <2>1. \A g \in Reserved : g # NoHash /\ pinnedByHash[g] \in Blocks /\ pinnedByHash[g] # b
    BY HashesAssumption DEF TypeOK, ReservationSound, Reserved
  <2>2. b \notin pin
    BY HashesAssumption DEF ReservationSound
  <2>3. Reserved' = Reserved
    BY DEF Reserved
  <2>. QED  BY <2>1, <2>2, <2>3 DEF ReservationSound, TypeOK
<1>4. CapRespected'
  BY DEF CapRespected, Reserved
<1>. QED  BY <1>1, <1>2, <1>3, <1>4

LEMMA TouchIInv ==
  ASSUME IInv, NEW r \in Requests, NEW b \in Blocks, Touch(r, b)
  PROVE  IInv'
<1>. USE DEF IInv, Touch
<1>1. TypeOK'
  BY DEF TypeOK
<1>2. PoolPartition'
  <2>1. pinnedIds = pin
    BY DEF ReservationSound
  <2>2. refs \in [Blocks -> SUBSET Requests] /\ refs'[b] # {}
    BY DEF TypeOK
  <2>3. \A a \in Blocks \ {b} : refs'[a] = refs[a]
    BY DEF TypeOK
  <2>. QED  BY <2>1, <2>2, <2>3 DEF PoolPartition, Idle
<1>3. ReservationSound'
  BY DEF ReservationSound, Reserved, TypeOK
<1>4. CapRespected'
  BY DEF CapRespected, Reserved
<1>. QED  BY <1>1, <1>2, <1>3, <1>4

\* Claiming what was freed: every claimed block ends up standing for its hash,
\* no reservation is lost, and the cap is kept.
LEMMA AcquirePinFacts ==
  ASSUME IInv, NEW freed \in SUBSET Blocks, NEW claim \in SUBSET freed,
         AcquirePin(claim, freed)
  PROVE  LET H == HolderAmong(claim, pinnedByHash)
         IN  /\ H \in Holders
             /\ \A b \in claim : blockHash[b] \in pinnedHashes /\ H[blockHash[b]] = b
             /\ \A h \in Reserved : H[h] = pinnedByHash[h]
             /\ \A h \in Hashes : H[h] # NoBlock =>
                  \/ h \in Reserved
                  \/ H[h] \in claim /\ blockHash[H[h]] = h
             /\ Cardinality({h \in Hashes : H[h] # NoBlock}) <= pinCap
<1>. DEFINE H == HolderAmong(claim, pinnedByHash)
<1>. USE DEF IInv
<1>1. /\ pinnedByHash \in Holders
      /\ DistinctHashes(claim)
      /\ \A b \in claim : /\ blockHash[b] \in pinnedHashes
                         /\ blockHash[b] \in Hashes
                         /\ pinnedByHash[blockHash[b]] \in {NoBlock, b}
  BY DEF AcquirePin, MayPin, TypeOK, Holders
<1>2. /\ H \in Holders
      /\ \A b \in claim : H[blockHash[b]] = b
      /\ \A h \in Hashes :
           (~ \E b \in claim : blockHash[b] = h) => H[h] = pinnedByHash[h]
      /\ \A h \in Hashes :
           (\E b \in claim : blockHash[b] = h) => H[h] \in claim /\ blockHash[H[h]] = h
  BY <1>1, HolderAmongFacts
<1>3. \A h \in Reserved : H[h] = pinnedByHash[h]
  BY <1>1, <1>2 DEF Reserved
<1>4. \A h \in Hashes : H[h] # NoBlock =>
        \/ h \in Reserved
        \/ H[h] \in claim /\ blockHash[H[h]] = h
  BY <1>2 DEF Reserved
<1>5. Cardinality({h \in Hashes : H[h] # NoBlock}) <= pinCap
  <2>. DEFINE fresh == Fresh(claim)
              named == {blockHash[b] : b \in fresh}
              after == {h \in Hashes : H[h] # NoBlock}
  <2>1. IsFiniteSet(Reserved) /\ Reserved \subseteq Hashes
    BY HashesAssumption, FS_Subset DEF Reserved
  <2>2. IsFiniteSet(fresh)
    BY BlocksAssumption, FS_Subset DEF Fresh
  <2>3. IsFiniteSet(named) /\ Cardinality(named) <= Cardinality(fresh)
    BY <2>2, ImageBound
  <2>4. after \subseteq Reserved \union named
    BY <1>1, <1>2, <1>4 DEF Fresh, Reserved
  <2>5. /\ Cardinality(Reserved) \in Nat
        /\ Cardinality(named) \in Nat
        /\ Cardinality(fresh) \in Nat
    BY <2>1, <2>2, <2>3, FS_CardinalityType
  <2>6. /\ IsFiniteSet(Reserved \union named)
        /\ Cardinality(Reserved \union named) <= Cardinality(Reserved) + Cardinality(named)
    <3>1. /\ IsFiniteSet(Reserved \union named)
          /\ IsFiniteSet(Reserved \intersect named)
          /\ Cardinality(Reserved \union named) =
               Cardinality(Reserved) + Cardinality(named)
                 - Cardinality(Reserved \intersect named)
      BY <2>1, <2>3, FS_Union, FS_Intersection
    <3>2. Cardinality(Reserved \intersect named) \in Nat
      BY <3>1, FS_CardinalityType
    <3>. QED  BY <2>5, <3>1, <3>2
  <2>7. /\ IsFiniteSet(after)
        /\ Cardinality(after) <= Cardinality(Reserved \union named)
    BY <2>4, <2>6, FS_Subset
  <2>8. /\ Cardinality(after) \in Nat
        /\ Cardinality(Reserved \union named) \in Nat
        /\ pinCap \in Nat
    BY <2>6, <2>7, FS_CardinalityType DEF TypeOK
  <2>9. CASE fresh = {}
    <3>1. after \subseteq Reserved
      BY <2>4, <2>9
    <3>2. Cardinality(after) <= Cardinality(Reserved)
      BY <2>1, <3>1, FS_Subset
    <3>. QED  BY <2>5, <2>8, <3>2 DEF CapRespected
  <2>10. CASE fresh # {}
    <3>1. Cardinality(Reserved) + Cardinality(fresh) <= pinCap
      BY <2>10 DEF AcquirePin, WithinCap
    <3>. QED  BY <2>3, <2>5, <2>6, <2>7, <2>8, <3>1
  <2>. QED  BY <2>9, <2>10
<1>. QED  BY <1>1, <1>2, <1>3, <1>4, <1>5

LEMMA FreeBlocksIInv ==
  ASSUME IInv, NEW r \in Requests, NEW bs \in SUBSET Blocks, FreeBlocks(r, bs)
  PROVE  IInv'
<1>. DEFINE freed == {b \in bs : refs[b] = {r}}
<1>1. PICK claim \in SUBSET freed :
        /\ AcquirePin(claim, Offered(r, bs))
        /\ pin' = pin \union claim
        /\ pinnedIds' = pinnedIds \union claim
        /\ pinnedByHash' = HolderAmong(claim, pinnedByHash)
        /\ freeQueue' = freeQueue \union (freed \ claim)
  BY DEF FreeBlocks
<1>2. /\ refs' = [b \in Blocks |-> IF b \in bs THEN refs[b] \ {r} ELSE refs[b]]
      /\ bs \subseteq Held(r)
      /\ UNCHANGED <<blockHash, pinnedHashes, pinCap>>
  BY DEF FreeBlocks
<1>. DEFINE H == HolderAmong(claim, pinnedByHash)
<1>3. freed = Offered(r, bs) /\ freed \subseteq Blocks
  BY DEF Offered
<1>4. /\ H \in Holders
      /\ \A b \in claim : blockHash[b] \in pinnedHashes /\ H[blockHash[b]] = b
      /\ \A h \in Reserved : H[h] = pinnedByHash[h]
      /\ \A h \in Hashes : H[h] # NoBlock =>
           \/ h \in Reserved
           \/ H[h] \in claim /\ blockHash[H[h]] = h
      /\ Cardinality({h \in Hashes : H[h] # NoBlock}) <= pinCap
  <2>1. /\ Offered(r, bs) \in SUBSET Blocks
        /\ claim \in SUBSET Offered(r, bs)
        /\ AcquirePin(claim, Offered(r, bs))
    BY <1>1, <1>3
  <2>. QED  BY <2>1, AcquirePinFacts
<1>5. \A b \in freed : b \notin freeQueue /\ b \notin pin
  BY <1>3 DEF IInv, PoolPartition, Idle
<1>6. TypeOK'
  BY <1>1, <1>2, <1>3, <1>4 DEF IInv, TypeOK, Holders
<1>7. PoolPartition'
  <2>1. \A b \in Blocks : refs'[b] = {} <=> refs[b] = {} \/ b \in freed
    BY <1>2 DEF Held, IInv, TypeOK
  <2>. QED  BY <1>1, <1>3, <1>5, <2>1 DEF IInv, PoolPartition, Idle
<1>8. ReservationSound'
  <2>1. Reserved' = {h \in Hashes : H[h] # NoBlock}
    BY <1>1 DEF Reserved
  <2>2. \A h \in Reserved' :
          h \in pinnedHashes /\ blockHash[H[h]] = h /\ H[h] \notin freeQueue'
    <3>1. TAKE h \in Reserved'
    <3>2. CASE h \in Reserved
      <4>1. /\ H[h] = pinnedByHash[h]
            /\ h \in pinnedHashes /\ blockHash[H[h]] = h /\ H[h] \notin freeQueue
        BY <1>4, <3>2 DEF IInv, ReservationSound
      <4>2. H[h] \notin freed \ claim
        \* Freed under a reservation of its own, it may not be turned away.
        BY <1>1, <1>3, <4>1, <3>2
        DEF AcquirePin, MayPin, TurnedAway, IInv, Reserved
      <4>. QED  BY <1>1, <4>1, <4>2
    <3>3. CASE H[h] \in claim /\ blockHash[H[h]] = h
      BY <1>1, <1>4, <1>5, <3>3
    <3>. QED  BY <1>4, <2>1, <3>2, <3>3
  <2>3. \A b \in pin' : blockHash[b] \in Hashes /\ H[blockHash[b]] = b
    <3>1. \A b \in pin : blockHash[b] \in Hashes /\ blockHash[b] \in Reserved
                        /\ pinnedByHash[blockHash[b]] = b
      BY BlocksAssumption DEF IInv, ReservationSound, Reserved, TypeOK
    <3>. QED  BY <1>1, <1>4, <3>1 DEF IInv, TypeOK
  <2>. QED  BY <1>1, <1>2, <2>1, <2>2, <2>3 DEF ReservationSound, IInv
<1>9. CapRespected'
  BY <1>1, <1>2, <1>4 DEF CapRespected, Reserved
<1>. QED  BY <1>6, <1>7, <1>8, <1>9 DEF IInv

LEMMA ResetIInv ==
  ASSUME IInv, ResetPrefixCache
  PROVE  IInv'
<1>1. CapFor(0, 1) \in Nat
  BY CapForType
<1>2. /\ PinState(pinnedByHash', pin', freeQueue', pinnedHashes', pinCap')
      /\ pinnedIds' = pin'
      /\ pinnedHashes' = {}
  BY <1>1, SetPinnedHashesFacts DEF ResetPrefixCache
<1>3. /\ UNCHANGED refs
      /\ blockHash' \in {blockHash, [b \in Blocks |-> NoHash]}
  BY DEF ResetPrefixCache
<1>4. Reserved' = {}
  BY <1>2 DEF PinState, Reserved
<1>5. pin' = {}
  <2>1. \A b \in pin' : blockHash[b] \in Reserved'
    BY <1>2, BlocksAssumption DEF PinState, Reserved
  <2>. QED  BY <1>4, <2>1
<1>6. TypeOK'
  BY <1>2, <1>3 DEF IInv, TypeOK, PinState, Holders
<1>7. PoolPartition'
  BY <1>2, <1>3 DEF IInv, PoolPartition, PinState, Idle
<1>8. ReservationSound'
  BY <1>2, <1>4, <1>5 DEF ReservationSound
<1>9. CapRespected'
  BY <1>2 DEF CapRespected, PinState, Reserved
<1>. QED  BY <1>6, <1>7, <1>8, <1>9 DEF IInv

LEMMA NextIInv == IInv /\ [Next]_vars => IInv'
<1>. SUFFICES ASSUME IInv, [Next]_vars PROVE IInv'
  OBVIOUS
<1>1. CASE \E hashes \in MarkedPrompts : ArmNeverEvictPin(hashes)
  BY <1>1, ArmIInv
<1>2. CASE \E r \in Requests, bs \in (SUBSET freeQueue) \ {{}} : GetNewBlocks(r, bs)
  BY <1>2, GetNewBlocksIInv
<1>3. CASE \E r \in Requests, b \in Blocks, h \in Hashes : CacheFullBlock(r, b, h)
  BY <1>3, CacheFullBlockIInv
<1>4. CASE \E r \in Requests, b \in Blocks : Touch(r, b)
  BY <1>4, TouchIInv
<1>5. CASE \E r \in Requests, bs \in (SUBSET Blocks) \ {{}} : FreeBlocks(r, bs)
  BY <1>5, FreeBlocksIInv
<1>6. CASE ResetPrefixCache
  BY <1>6, ResetIInv
<1>7. CASE UNCHANGED vars
  BY <1>7 DEF vars, pinVars, IInv, TypeOK, PoolPartition, Idle, ReservationSound,
              Reserved, CapRespected
<1>. QED  BY <1>1, <1>2, <1>3, <1>4, <1>5, <1>6, <1>7 DEF Next

----------------------------------------------------------------------------
(* The theorems.                                                           *)

\* In every run of the pool the inductive invariant holds.
THEOREM Invariance == Spec => []IInv
  BY InitIInv, NextIInv, PTL DEF Spec

\* The variables of the pool keep their types.
THEOREM TypeCorrect == Spec => []TypeOK
  BY Invariance, PTL DEF IInv

\* No block is ever leaked or in two places, whatever is pinned, lent or reset.
THEOREM Partition == Spec => []PoolPartition
  BY Invariance, PTL DEF IInv

\* Every reservation stands for a cached block that cannot be evicted, and
\* touch() always finds a pinned block in the queue it looks in.
THEOREM Reservations == Spec => []ReservationSound
  BY Invariance, PTL DEF IInv

\* The pin never exceeds its cap.
THEOREM Cap == Spec => []CapRespected
  BY Invariance, PTL DEF IInv

----------------------------------------------------------------------------
(* What no step may do.                                                    *)

\* Traffic that leaves the pin as it is keeps every reservation and its block.
LEMMA TrafficKeepsReserved ==
  ASSUME IInv,
         \/ \E r \in Requests, bs \in (SUBSET freeQueue) \ {{}} : GetNewBlocks(r, bs)
         \/ \E r \in Requests, b \in Blocks, h \in Hashes : CacheFullBlock(r, b, h)
         \/ \E r \in Requests, b \in Blocks : Touch(r, b)
         \/ \E r \in Requests, bs \in (SUBSET Blocks) \ {{}} : FreeBlocks(r, bs)
  PROVE  /\ UNCHANGED <<pinnedHashes, pinCap>>
         /\ \A h \in Reserved :
              pinnedByHash'[h] = pinnedByHash[h] /\ blockHash'[pinnedByHash[h]] = h
<1>. DEFINE Kept == \A h \in Reserved :
              pinnedByHash'[h] = pinnedByHash[h] /\ blockHash'[pinnedByHash[h]] = h
<1>0. \A h \in Reserved :
        /\ pinnedByHash[h] \in Blocks
        /\ blockHash[pinnedByHash[h]] = h
        /\ h # NoHash
        /\ pinnedByHash[h] \notin freeQueue
  BY HashesAssumption DEF IInv, TypeOK, ReservationSound, Reserved
<1>1. CASE \E r \in Requests, bs \in (SUBSET freeQueue) \ {{}} : GetNewBlocks(r, bs)
  BY <1>0, <1>1 DEF GetNewBlocks, pinVars
<1>2. CASE \E r \in Requests, b \in Blocks, h \in Hashes : CacheFullBlock(r, b, h)
  BY <1>0, <1>2 DEF CacheFullBlock, pinVars, IInv, TypeOK
<1>3. CASE \E r \in Requests, b \in Blocks : Touch(r, b)
  BY <1>0, <1>3 DEF Touch
<1>4. CASE \E r \in Requests, bs \in (SUBSET Blocks) \ {{}} : FreeBlocks(r, bs)
  <2>1. PICK r \in Requests, bs \in SUBSET Blocks : FreeBlocks(r, bs)
    BY <1>4
  <2>2. PICK claim \in SUBSET Offered(r, bs) :
          /\ AcquirePin(claim, Offered(r, bs))
          /\ pinnedByHash' = HolderAmong(claim, pinnedByHash)
    BY <2>1 DEF FreeBlocks, Offered
  <2>3. Offered(r, bs) \in SUBSET Blocks
    BY DEF Offered
  <2>4. \A h \in Reserved : pinnedByHash'[h] = pinnedByHash[h]
    BY <2>2, <2>3, AcquirePinFacts
  <2>. QED  BY <1>0, <2>1, <2>4 DEF FreeBlocks
<1>. QED  BY <1>1, <1>2, <1>3, <1>4

LEMMA NextKeepsReserved ==
  ASSUME IInv, Next, <<pinnedHashes, pinCap>>' = <<pinnedHashes, pinCap>>,
         NEW h \in Reserved
  PROVE  pinnedByHash'[h] = pinnedByHash[h] /\ blockHash'[pinnedByHash[h]] = h
<1>1. blockHash[pinnedByHash[h]] = h
  BY DEF IInv, ReservationSound
<1>2. CASE \E hashes \in MarkedPrompts : ArmNeverEvictPin(hashes)
  <2>1. PICK hashes \in MarkedPrompts : ArmNeverEvictPin(hashes)
    BY <1>2
  <2>2. CapFor(FracNum, FracDen) \in Nat /\ hashes \in SUBSET Hashes
    BY CapForType, FracAssumption, HashesAssumption
  <2>3. pinnedByHash' = pinnedByHash
    BY <2>1, <2>2, SetPinnedHashesFacts DEF ArmNeverEvictPin
  <2>. QED  BY <1>1, <2>1, <2>3 DEF ArmNeverEvictPin
<1>3. CASE ResetPrefixCache
  <2>1. pinnedHashes = {}
    BY <1>3, CapForType, SetPinnedHashesFacts DEF ResetPrefixCache
  <2>. QED  BY <2>1 DEF IInv, ReservationSound
<1>. QED  BY <1>2, <1>3, TrafficKeepsReserved DEF Next

\* What the pin reserves stays in its block until the pin is replaced.
THEOREM Residency == Spec => ReservedStaysResident
<1>1. IInv /\ [Next]_vars =>
        [ <<pinnedHashes, pinCap>>' = <<pinnedHashes, pinCap>> =>
            \A h \in Reserved :
              /\ pinnedByHash'[h] = pinnedByHash[h]
              /\ blockHash'[pinnedByHash[h]] = h ]_vars
  BY NextKeepsReserved
<1>. QED  BY <1>1, Invariance, PTL DEF Spec, ReservedStaysResident

\* A reset goes through exactly when no block is in use, whatever was pinned.
THEOREM ResetSound == Spec => ResetNeedsOnlyIdle
<1>1. ASSUME IInv, ResetPrefixCache
      PROVE  IF \A b \in Blocks : Idle(b)
             THEN blockHash' = [b \in Blocks |-> NoHash] /\ freeQueue' = Blocks
             ELSE blockHash' = blockHash
  <2>1. /\ IInv'
        /\ PinState(pinnedByHash', pin', freeQueue', pinnedHashes', pinCap')
        /\ pinnedHashes' = {}
    <3>1. CapFor(0, 1) \in Nat
      BY CapForType
    <3>2. SetPinnedHashes({}, CapFor(0, 1))
      BY <1>1 DEF ResetPrefixCache
    <3>3. IInv'
      BY <1>1, ResetIInv
    <3>. QED  BY <1>1, <3>1, <3>2, <3>3, SetPinnedHashesFacts
  <2>2. pin' = {}
    <3>1. Reserved' = {}
      BY <2>1 DEF PinState, Reserved
    <3>2. \A b \in pin' : blockHash[b] \in Reserved'
      BY <2>1, BlocksAssumption DEF PinState, Reserved
    <3>. QED  BY <3>1, <3>2
  <2>3. freeQueue' \subseteq Blocks /\ freeQueue' = {b \in Blocks : Idle(b)}
    BY <1>1, <2>1, <2>2 DEF PinState, IInv, PoolPartition, TypeOK
  <2>4. NumGpuBlocks - Cardinality(freeQueue') = 1 <=> freeQueue' = Blocks
    <3>1. Cardinality(Blocks) \in Nat /\ Cardinality(freeQueue') \in Nat
      BY <2>3, BlocksAssumption, FS_Subset, FS_CardinalityType
    <3>2. Cardinality(Blocks) = Cardinality(freeQueue') => Blocks = freeQueue'
      BY <2>3, BlocksAssumption, FS_Subset
    <3>. QED  BY <3>1, <3>2 DEF NumGpuBlocks
  <2>. QED  BY <1>1, <2>3, <2>4 DEF ResetPrefixCache
<1>. QED  BY <1>1, Invariance, PTL DEF Spec, ResetNeedsOnlyIdle

----------------------------------------------------------------------------
(* Refinement of the contract.                                             *)

LEMMA ReservedAreResident ==
  IInv => Reserved \subseteq pinnedHashes \intersect ({blockHash[b] : b \in Blocks} \ {NoHash})
<1>. SUFFICES ASSUME IInv, NEW h \in Reserved
              PROVE  h \in pinnedHashes /\ h # NoHash
                     /\ \E b \in Blocks : blockHash[b] = h
  OBVIOUS
<1>1. h \in Hashes /\ pinnedByHash[h] \in Blocks
  BY DEF Reserved, IInv, TypeOK
<1>. QED  BY <1>1, HashesAssumption DEF IInv, ReservationSound

\* The contract counts as the pool does.
LEMMA SameCardinality ==
  ASSUME NEW S
  PROVE  Contract!Cardinality(S) = Cardinality(S)
  BY DEF Contract!Cardinality, Cardinality

\* The pool with the pin implements the contract.
THEOREM Refinement == Spec => ImplementsContract
<1>1. Init => Contract!Init
  <2>. SUFFICES ASSUME Init PROVE Contract!Init
    OBVIOUS
  <2>1. Reserved = {}
    BY DEF Init, NoHolder, Reserved
  <2>2. {blockHash[b] : b \in Blocks} \ {NoHash} = {}
    BY DEF Init
  <2>. QED  BY <2>1, <2>2 DEF Init, Contract!Init
<1>2. IInv /\ IInv' /\ [Next]_vars => [Contract!Next]_(Contract!contractVars)
  <2>. SUFFICES ASSUME IInv, IInv', [Next]_vars
                PROVE  [Contract!Next]_(Contract!contractVars)
    OBVIOUS
  <2>. DEFINE cached == {blockHash[b] : b \in Blocks} \ {NoHash}
  <2>0. (Reserved \subseteq pinnedHashes \intersect cached)'
    BY ReservedAreResident, PTL
  <2>1. CASE \E hashes \in MarkedPrompts : ArmNeverEvictPin(hashes)
    <3>1. PICK hashes \in MarkedPrompts : ArmNeverEvictPin(hashes)
      BY <2>1
    <3>2. CapFor(FracNum, FracDen) \in Nat /\ hashes \in SUBSET Hashes
      BY CapForType, FracAssumption, HashesAssumption
    <3>3. /\ Reserved' \subseteq Reserved
          /\ pinnedHashes' = hashes
          /\ pinCap' = CapFor(FracNum, FracDen)
          /\ (hashes = pinnedHashes /\ CapFor(FracNum, FracDen) = pinCap)
               => pinnedByHash' = pinnedByHash
      BY <3>1, <3>2, SetPinnedHashesFacts DEF ArmNeverEvictPin
    <3>4. /\ Reserved' \subseteq hashes
          /\ Cardinality(Reserved') <= CapFor(FracNum, FracDen)
      BY <3>3 DEF IInv, ReservationSound, CapRespected
    <3>5. (hashes = pinnedHashes /\ CapFor(FracNum, FracDen) = pinCap)
            => Reserved' = Reserved
      BY <3>3 DEF Reserved
    <3>6. cached' = cached
      BY <3>1 DEF ArmNeverEvictPin
    <3>7. Contract!Rearm(hashes)
      BY <3>3, <3>4, <3>5, <3>6, SameCardinality DEF Contract!Rearm, Contract!Replace
    <3>. QED  BY <3>7 DEF Contract!Next
  <2>2. CASE ResetPrefixCache
    <3>1. CapFor(0, 1) = 1
      <4>1. NumGpuBlocks \in Nat
        BY FS_CardinalityType, BlocksAssumption DEF NumGpuBlocks
      <4>2. (NumGpuBlocks * 0) \div 1 = 0
        BY <4>1
      <4>. QED  BY <4>2 DEF CapFor
    <3>2. /\ Reserved' \subseteq Reserved
          /\ pinnedHashes' = {}
          /\ pinCap' = 1
          /\ (pinnedHashes = {} /\ pinCap = 1) => pinnedByHash' = pinnedByHash
      BY <2>2, <3>1, SetPinnedHashesFacts DEF ResetPrefixCache
    <3>3. Reserved' = {} /\ Cardinality(Reserved') <= 1
      BY <3>2, FS_EmptySet DEF IInv, ReservationSound
    <3>4. (pinnedHashes = {} /\ pinCap = 1) => Reserved' = Reserved
      BY <3>2 DEF Reserved
    <3>5. cached' \in {cached, {}}
      <4>1. CASE blockHash' = blockHash
        BY <4>1
      <4>2. CASE blockHash' = [b \in Blocks |-> NoHash]
        BY <4>2
      <4>. QED  BY <2>2, <4>1, <4>2 DEF ResetPrefixCache
    <3>6. Contract!Reset
      BY <3>2, <3>3, <3>4, <3>5, SameCardinality DEF Contract!Reset, Contract!Replace
    <3>. QED  BY <3>6 DEF Contract!Next
  <2>3. ASSUME \/ \E r \in Requests, bs \in (SUBSET freeQueue) \ {{}} : GetNewBlocks(r, bs)
               \/ \E r \in Requests, b \in Blocks, h \in Hashes : CacheFullBlock(r, b, h)
               \/ \E r \in Requests, b \in Blocks : Touch(r, b)
               \/ \E r \in Requests, bs \in (SUBSET Blocks) \ {{}} : FreeBlocks(r, bs)
        PROVE  [Contract!Next]_(Contract!contractVars)
    <3>1. /\ UNCHANGED <<pinnedHashes, pinCap>>
          /\ \A h \in Reserved : pinnedByHash'[h] = pinnedByHash[h]
      BY <2>3, TrafficKeepsReserved
    <3>2. Reserved \subseteq Reserved'
      BY <3>1 DEF Reserved
    <3>3. Reserved' \subseteq pinnedHashes' \intersect cached'
      BY <2>0
    <3>4. Cardinality(Reserved') <= pinCap'
      BY DEF IInv, CapRespected
    <3>5. cached' \subseteq Hashes
      BY DEF IInv, TypeOK
    <3>6. Contract!Traffic
      BY <3>1, <3>2, <3>3, <3>4, <3>5, SameCardinality DEF Contract!Traffic
    <3>. QED  BY <3>6 DEF Contract!Next
  <2>4. CASE UNCHANGED vars
    <3>1. cached' = cached /\ Reserved' = Reserved
      BY <2>4 DEF vars, Reserved
    <3>. QED  BY <2>4, <3>1 DEF vars, pinVars, Contract!contractVars
  <2>. QED  BY <2>1, <2>2, <2>3, <2>4 DEF Next
<1>. QED  BY <1>1, <1>2, Invariance, PTL DEF Spec, ImplementsContract, Contract!Spec

----------------------------------------------------------------------------
(* What one free does to the reservations.                                 *)

\* Claiming adds one reservation for every fresh block of the claim.
LEMMA ClaimCounts ==
  ASSUME IInv, NEW freed \in SUBSET Blocks, NEW claim \in SUBSET freed,
         AcquirePin(claim, freed),
         pinnedByHash' = HolderAmong(claim, pinnedByHash)
  PROVE  /\ Reserved \subseteq Reserved'
         /\ {blockHash[b] : b \in claim} \subseteq Reserved'
         /\ Cardinality(Reserved') >= Cardinality(Reserved) + Cardinality(Fresh(claim))
<1>. DEFINE H == pinnedByHash'
            new == Reserved' \ Reserved
<1>1. /\ \A b \in claim : blockHash[b] \in pinnedHashes /\ H[blockHash[b]] = b
      /\ \A h \in Reserved : H[h] = pinnedByHash[h]
  BY AcquirePinFacts
<1>2. Reserved \subseteq Reserved'
  BY <1>1 DEF Reserved
<1>3. \A b \in claim : blockHash[b] \in Hashes /\ b # NoBlock
  BY <1>1, BlocksAssumption DEF IInv, TypeOK
<1>4. {blockHash[b] : b \in claim} \subseteq Reserved'
  BY <1>1, <1>3 DEF Reserved
<1>5. IsFiniteSet(Reserved') /\ IsFiniteSet(Reserved) /\ IsFiniteSet(new)
  <2>1. Reserved' \subseteq Hashes /\ Reserved \subseteq Hashes
    BY DEF Reserved
  <2>. QED  BY <2>1, HashesAssumption, FS_Subset
<1>6. Fresh(claim) \subseteq {H[h] : h \in new}
  <2>1. \A b \in Fresh(claim) : blockHash[b] \in new /\ H[blockHash[b]] = b
    BY <1>1, <1>4 DEF Fresh, Reserved
  <2>. QED  BY <2>1
<1>7. /\ IsFiniteSet({H[h] : h \in new})
      /\ Cardinality({H[h] : h \in new}) <= Cardinality(new)
  BY <1>5, ImageBound
<1>8. /\ IsFiniteSet(Fresh(claim))
      /\ Cardinality(Fresh(claim)) <= Cardinality({H[h] : h \in new})
  BY <1>6, <1>7, FS_Subset
<1>9. Cardinality(new) = Cardinality(Reserved') - Cardinality(Reserved)
  <2>1. Reserved' \intersect Reserved = Reserved
    BY <1>2
  <2>. QED  BY <1>5, <2>1, FS_Difference
<1>10. /\ Cardinality(Fresh(claim)) \in Nat
       /\ Cardinality({H[h] : h \in new}) \in Nat
       /\ Cardinality(new) \in Nat
       /\ Cardinality(Reserved) \in Nat
       /\ Cardinality(Reserved') \in Nat
  BY <1>5, <1>7, <1>8, FS_CardinalityType
<1>. QED  BY <1>2, <1>4, <1>7, <1>8, <1>9, <1>10

\* A freed block of a pinned hash that is not claimed finds its hash reserved
\* by another block, or the cap used up.
LEMMA FreedIsClaimed ==
  ASSUME IInv, NEW freed \in SUBSET Blocks, NEW claim \in SUBSET freed,
         AcquirePin(claim, freed),
         pinnedByHash' = HolderAmong(claim, pinnedByHash),
         NEW b \in freed, blockHash[b] \in pinnedHashes
  PROVE  blockHash[b] \in Reserved' \/ Cardinality(Reserved') >= pinCap
<1>1. /\ Reserved \subseteq Reserved'
      /\ {blockHash[a] : a \in claim} \subseteq Reserved'
      /\ Cardinality(Reserved') >= Cardinality(Reserved) + Cardinality(Fresh(claim))
  BY ClaimCounts
<1>2. CASE b \in claim
  BY <1>1, <1>2
<1>3. CASE ~MayPin(b)
  <2>1. blockHash[b] \in Hashes
    BY DEF IInv, TypeOK
  <2>. QED  BY <1>1, <1>3, <2>1 DEF MayPin, Reserved
<1>4. CASE b \notin claim /\ MayPin(b)
  <2>1. TurnedAway(b, claim)
    BY <1>4 DEF AcquirePin
  <2>2. CASE \E a \in claim : blockHash[a] = blockHash[b]
    BY <1>1, <2>2
  <2>3. CASE Cardinality(Reserved) + Cardinality(Fresh(claim)) >= pinCap
    <3>1. /\ IsFiniteSet(Reserved) /\ IsFiniteSet(Reserved')
          /\ IsFiniteSet(Fresh(claim))
      <4>1. Reserved \subseteq Hashes /\ Reserved' \subseteq Hashes
        BY DEF Reserved
      <4>2. Fresh(claim) \subseteq Blocks
        BY DEF Fresh
      <4>. QED  BY <4>1, <4>2, BlocksAssumption, HashesAssumption, FS_Subset
    <3>2. /\ Cardinality(Reserved) \in Nat
          /\ Cardinality(Reserved') \in Nat
          /\ Cardinality(Fresh(claim)) \in Nat
          /\ pinCap \in Nat
      BY <3>1, FS_CardinalityType DEF IInv, TypeOK
    <3>. QED  BY <1>1, <2>3, <3>2
  <2>. QED  BY <2>1, <2>2, <2>3 DEF TurnedAway
<1>. QED  BY <1>2, <1>3, <1>4

----------------------------------------------------------------------------
(* A pinned block is claimed the moment it is freed.                       *)

\* Replacing the pin forgets what was offered to the old one; a replacement
\* by an equal pin changes nothing.
LEMMA ReplacingForgets ==
  ASSUME NEW hashes, NEW cap, SetPinnedHashes(hashes, cap)
  PROVE  PinReplaced \/ UNCHANGED <<freeQueue, pinVars>>
BY DEF SetPinnedHashes, PinReplaced, pinVars

LEMMA FreeBlocksClaims ==
  ASSUME IInv, ClaimedWhenFreed, HNext,
         NEW r \in Requests, NEW bs \in SUBSET Blocks, FreeBlocks(r, bs)
  PROVE  ClaimedWhenFreed'
<1>. DEFINE freed == Offered(r, bs)
<1>1. freed \in SUBSET Blocks
  BY DEF Offered
<1>2. PICK claim \in SUBSET freed :
        /\ AcquirePin(claim, freed)
        /\ pinnedByHash' = HolderAmong(claim, pinnedByHash)
        /\ freeQueue' = freeQueue \union (freed \ claim)
  BY DEF FreeBlocks, Offered
<1>3. UNCHANGED <<blockHash, pinnedHashes, pinCap>>
  BY DEF FreeBlocks
<1>4. /\ Reserved \subseteq Reserved'
      /\ Cardinality(Reserved) <= Cardinality(Reserved')
      /\ Cardinality(Reserved) \in Nat /\ Cardinality(Reserved') \in Nat
      /\ pinCap \in Nat
  <2>1. Reserved \subseteq Reserved'
    BY <1>1, <1>2, ClaimCounts
  <2>2. IsFiniteSet(Reserved') /\ IsFiniteSet(Reserved)
    <3>1. Reserved' \subseteq Hashes /\ Reserved \subseteq Hashes
      BY DEF Reserved
    <3>. QED  BY <3>1, HashesAssumption, FS_Subset
  <2>. QED  BY <2>1, <2>2, FS_Subset, FS_CardinalityType DEF IInv, TypeOK
<1>5. SUFFICES ASSUME NEW b \in offered' \intersect freeQueue',
                      blockHash[b] \in pinnedHashes
               PROVE  \/ blockHash[b] \in Reserved'
                      \/ Cardinality(Reserved') >= pinCap
  BY <1>3 DEF ClaimedWhenFreed
<1>6. CASE b \in freed
  BY <1>1, <1>2, <1>5, <1>6, FreedIsClaimed
<1>7. CASE b \in freeQueue
  <2>1. b \in Blocks /\ Idle(b)
    BY <1>7 DEF IInv, TypeOK, PoolPartition
  <2>2. b \in offered
    BY <1>3, <1>5, <2>1 DEF HNext, PinReplaced
  <2>. QED  BY <1>4, <1>5, <1>7, <2>2 DEF ClaimedWhenFreed
<1>. QED  BY <1>2, <1>5, <1>6, <1>7

LEMMA HNextClaims ==
  ASSUME IInv, ClaimedWhenFreed, [HNext]_historyVars
  PROVE  ClaimedWhenFreed'
<1>1. CASE UNCHANGED historyVars
  BY <1>1 DEF historyVars, vars, ClaimedWhenFreed, Reserved
<1>2. CASE HNext /\ PinReplaced
  BY <1>2 DEF HNext, ClaimedWhenFreed
<1>3. CASE HNext /\ ~PinReplaced
  \* No block falls idle: nothing more is offered than before.
  <2>1. ASSUME \A b \in Blocks : Idle(b)' => Idle(b) \/ b \notin freeQueue',
               freeQueue' \subseteq freeQueue,
               \A b \in freeQueue' : blockHash'[b] \in {blockHash[b], NoHash},
               UNCHANGED pinVars
        PROVE  ClaimedWhenFreed'
    <3>1. \A b \in offered' \intersect freeQueue' : b \in offered \intersect freeQueue
      BY <1>3, <2>1 DEF HNext
    <3>2. NoHash \notin pinnedHashes
      BY HashesAssumption DEF IInv, TypeOK
    <3>3. Reserved' = Reserved /\ pinnedHashes' = pinnedHashes /\ pinCap' = pinCap
      BY <2>1 DEF pinVars, Reserved
    <3>. QED  BY <2>1, <3>1, <3>2, <3>3 DEF ClaimedWhenFreed
  <2>2. CASE \E hashes \in MarkedPrompts : ArmNeverEvictPin(hashes)
    <3>1. UNCHANGED <<freeQueue, pinVars, blockHash, refs>>
      BY <1>3, <2>2, ReplacingForgets DEF ArmNeverEvictPin
    <3>. QED  BY <2>1, <3>1 DEF Idle
  <2>3. CASE \E r \in Requests, bs \in (SUBSET freeQueue) \ {{}} : GetNewBlocks(r, bs)
    <3>1. PICK r \in Requests, bs \in SUBSET freeQueue : GetNewBlocks(r, bs)
      BY <2>3
    <3>2. freeQueue' \subseteq freeQueue /\ UNCHANGED pinVars
      BY <3>1 DEF GetNewBlocks
    <3>3. \A b \in Blocks : Idle(b)' => Idle(b)
      BY <3>1 DEF GetNewBlocks, Idle
    <3>4. \A b \in freeQueue' : blockHash'[b] \in {blockHash[b], NoHash}
      BY <3>1 DEF GetNewBlocks, IInv, TypeOK
    <3>. QED  BY <2>1, <3>2, <3>3, <3>4
  <2>4. CASE \E r \in Requests, b \in Blocks, h \in Hashes : CacheFullBlock(r, b, h)
    <3>1. PICK r \in Requests, b \in Blocks, h \in Hashes : CacheFullBlock(r, b, h)
      BY <2>4
    <3>2. UNCHANGED <<refs, freeQueue, pinVars>>
      BY <3>1 DEF CacheFullBlock
    <3>3. b \notin freeQueue
      BY <3>1 DEF CacheFullBlock, IInv, PoolPartition, Idle
    <3>4. \A a \in freeQueue' : blockHash'[a] = blockHash[a]
      BY <3>1, <3>2, <3>3 DEF CacheFullBlock, IInv, TypeOK
    <3>. QED  BY <2>1, <3>2, <3>4 DEF Idle
  <2>5. CASE \E r \in Requests, b \in Blocks : Touch(r, b)
    <3>1. PICK r \in Requests, b \in Blocks : Touch(r, b)
      BY <2>5
    <3>2. /\ freeQueue' \subseteq freeQueue
          /\ UNCHANGED <<blockHash, pinnedByHash, pinnedHashes, pinCap>>
      BY <3>1 DEF Touch
    <3>3. \A a \in Blocks : Idle(a)' => Idle(a)
      BY <3>1 DEF Touch, Idle, IInv, TypeOK
    <3>4. \A a \in offered' \intersect freeQueue' : a \in offered \intersect freeQueue
      BY <1>3, <3>2, <3>3 DEF HNext
    <3>5. Reserved' = Reserved
      BY <3>2 DEF Reserved
    <3>. QED  BY <3>2, <3>4, <3>5 DEF ClaimedWhenFreed
  <2>6. CASE \E r \in Requests, bs \in (SUBSET Blocks) \ {{}} : FreeBlocks(r, bs)
    BY <1>3, <2>6, FreeBlocksClaims
  <2>7. CASE ResetPrefixCache
    <3>1. UNCHANGED <<freeQueue, pinVars, refs>>
      BY <1>3, <2>7, ReplacingForgets DEF ResetPrefixCache
    <3>2. \A b \in freeQueue' : blockHash'[b] \in {blockHash[b], NoHash}
      BY <2>7, <3>1 DEF ResetPrefixCache, IInv, TypeOK
    <3>. QED  BY <2>1, <3>1, <3>2 DEF Idle
  <2>. QED  BY <1>3, <2>2, <2>3, <2>4, <2>5, <2>6, <2>7 DEF HNext, Next
<1>. QED  BY <1>1, <1>2, <1>3

\* The pin's invariant holds along every run with history.
LEMMA HistoryIInv == HSpec => []IInv
<1>1. HInit => IInv
  BY InitIInv DEF HInit
<1>2. IInv /\ [HNext]_historyVars => IInv'
  BY NextIInv DEF HNext, historyVars
<1>. QED  BY <1>1, <1>2, PTL DEF HSpec

\* What the pin is offered it takes: whatever is freed, lent, evicted or armed
\* in whatever order, a pinned block lies in the free queue only because
\* another block holds its hash or because the cap is used up.
THEOREM ClaimedOnFree == HSpec => []ClaimedWhenFreed
<1>1. HInit => ClaimedWhenFreed
  BY DEF HInit, ClaimedWhenFreed
<1>2. IInv /\ ClaimedWhenFreed /\ [HNext]_historyVars => ClaimedWhenFreed'
  BY HNextClaims
<1>. QED  BY <1>1, <1>2, HistoryIInv, PTL DEF HSpec

----------------------------------------------------------------------------
(* Prompts that fit the cap stay cached.                                   *)

\* A hash that survives: the pin reserves it, or a block that carries it is in
\* use and will be offered to the pin when it is freed.
Survives(h) ==
  \/ h \in Reserved
  \/ \E b \in Blocks : blockHash[b] = h /\ ~Idle(b)

\* Being cached is not inductive: an idle duplicate may be all that is left.
\* Surviving is, while every pinned set fits its cap.
AllSurvive ==
  /\ Cardinality(pinnedHashes) <= pinCap
  /\ loyal \subseteq pinnedHashes
  /\ \A h \in loyal : Survives(h)

FitInv == ~overflow => AllSurvive

\* A pin that has used up a cap its hashes fit has reserved them all.
LEMMA FullPin ==
  ASSUME NEW hashes \in SUBSET Hashes, NEW held \in SUBSET hashes, NEW n \in Nat,
         Cardinality(hashes) <= n, Cardinality(held) >= n
  PROVE  held = hashes
<1>1. IsFiniteSet(hashes)
  BY HashesAssumption, FS_Subset
<1>2. /\ Cardinality(held) <= Cardinality(hashes)
      /\ Cardinality(hashes) = Cardinality(held) => hashes = held
      /\ IsFiniteSet(held)
  BY <1>1, FS_Subset
<1>. QED  BY <1>1, <1>2, FS_CardinalityType

\* Re-arming drops a reserved hash of the new set only if a block that carries
\* it is on loan.
LEMMA ArmKeeps ==
  ASSUME IInv, NEW hashes \in MarkedPrompts, ArmNeverEvictPin(hashes),
         Cardinality(pinnedHashes') <= pinCap',
         NEW h \in pinnedHashes', Survives(h)
  PROVE  Survives(h)'
<1>. DEFINE cap == CapFor(FracNum, FracDen)
<1>1. UNCHANGED <<blockHash, refs>> /\ SetPinnedHashes(hashes, cap)
  BY DEF ArmNeverEvictPin
<1>2. cap \in Nat /\ hashes \in SUBSET Hashes
  BY CapForType, FracAssumption, HashesAssumption
<1>3. pinnedHashes' = hashes /\ pinCap' = cap
  BY <1>1, <1>2, SetPinnedHashesFacts
<1>4. CASE \E b \in Blocks : blockHash[b] = h /\ ~Idle(b)
  BY <1>1, <1>4 DEF Survives, Idle
<1>5. CASE h \in Reserved /\ ~ \E b \in Blocks : blockHash[b] = h /\ ~Idle(b)
  <2>1. CASE hashes = pinnedHashes /\ cap = pinCap
    <3>1. pinnedByHash' = pinnedByHash
      BY <1>1, <1>2, <2>1, SetPinnedHashesFacts
    <3>. QED  BY <1>5, <3>1 DEF Survives, Reserved
  <2>2. CASE ~(hashes = pinnedHashes /\ cap = pinCap)
    <3>1. PICK kept \in SUBSET pin :
            /\ KeepPinned(kept, hashes, cap)
            /\ pinnedByHash' = HoldersAfterReplacing(kept)
      BY <1>1, <2>2 DEF SetPinnedHashes
    <3>2. /\ kept \in SUBSET Blocks /\ DistinctHashes(kept)
          /\ \A b \in kept : blockHash[b] \in hashes
      BY <3>1 DEF KeepPinned, IInv, TypeOK
    <3>3. NoHolder \in Holders
      BY DEF NoHolder, Holders
    <3>4. \A b \in kept : pinnedByHash'[blockHash[b]] = b
      BY <1>2, <3>1, <3>2, <3>3, HolderAmongFacts DEF HoldersAfterReplacing
    <3>5. \A b \in kept : blockHash[b] \in Reserved'
      BY <1>2, <3>2, <3>4, BlocksAssumption DEF Reserved
    <3>6. /\ pinnedByHash[h] \in pin
          /\ blockHash[pinnedByHash[h]] = h
      BY <1>5 DEF IInv, TypeOK, PoolPartition, ReservationSound, Reserved
    <3>7. CASE \E a \in kept : blockHash[a] = h
      BY <3>5, <3>7 DEF Survives
    <3>8. CASE Cardinality(kept) >= cap
      <4>1. Reserved' \subseteq hashes
        BY <1>1, <1>2, <1>3, SetPinnedHashesFacts DEF PinState, Reserved
      <4>2. IsFiniteSet(Reserved')
        BY <1>2, <4>1, HashesAssumption, FS_Subset
      <4>. DEFINE H == pinnedByHash'
      <4>3. kept \subseteq {H[g] : g \in Reserved'}
        BY <3>4, <3>5
      <4>4. /\ IsFiniteSet({H[g] : g \in Reserved'})
            /\ Cardinality({H[g] : g \in Reserved'}) <= Cardinality(Reserved')
        BY <4>2, ImageBound
      <4>5. IsFiniteSet(kept) /\ Cardinality(kept) <= Cardinality({H[g] : g \in Reserved'})
        BY <4>3, <4>4, FS_Subset
      <4>6. Cardinality(Reserved') >= cap
        BY <1>2, <3>8, <4>2, <4>4, <4>5, FS_CardinalityType
      <4>7. Reserved' = hashes
        BY <1>2, <1>3, <4>1, <4>6, FullPin
      <4>. QED  BY <1>3, <4>7 DEF Survives
    <3>. QED  BY <1>3, <3>1, <3>6, <3>7, <3>8 DEF KeepPinned
  <2>. QED  BY <2>1, <2>2
<1>. QED  BY <1>4, <1>5 DEF Survives

\* A hash of a set that fits the cap survives a free: the last block in use
\* that carries it is claimed unless another one is.
LEMMA FreeKeeps ==
  ASSUME IInv, IInv', NEW r \in Requests, NEW bs \in SUBSET Blocks, FreeBlocks(r, bs),
         Cardinality(pinnedHashes) <= pinCap,
         NEW h \in pinnedHashes, Survives(h)
  PROVE  Survives(h)'
<1>. DEFINE freed == Offered(r, bs)
<1>1. freed \in SUBSET Blocks
  BY DEF Offered
<1>2. PICK claim \in SUBSET freed :
        /\ AcquirePin(claim, freed)
        /\ pinnedByHash' = HolderAmong(claim, pinnedByHash)
  BY DEF FreeBlocks, Offered
<1>3. UNCHANGED <<blockHash, pinnedHashes, pinCap>>
  BY DEF FreeBlocks
<1>4. CASE h \in Reserved
  BY <1>1, <1>2, <1>4, ClaimCounts DEF Survives
<1>5. ASSUME NEW b \in Blocks, blockHash[b] = h, ~Idle(b)
      PROVE  Survives(h)'
  <2>1. CASE b \in freed
    <3>1. h \in Reserved' \/ Cardinality(Reserved') >= pinCap
      BY <1>1, <1>2, <1>5, <2>1, FreedIsClaimed
    <3>2. CASE Cardinality(Reserved') >= pinCap
      <4>1. Reserved' \subseteq pinnedHashes
        BY <1>3 DEF IInv, ReservationSound
      <4>2. Reserved' = pinnedHashes
        BY <3>2, <4>1, FullPin DEF IInv, TypeOK
      <4>. QED  BY <4>2 DEF Survives
    <3>. QED  BY <3>1, <3>2 DEF Survives
  <2>2. CASE b \notin freed
    <3>1. refs'[b] # {}
      BY <1>5, <2>2 DEF FreeBlocks, Offered, Held, Idle, IInv, TypeOK
    <3>. QED  BY <1>3, <1>5, <3>1 DEF Survives, Idle
  <2>. QED  BY <2>1, <2>2
<1>. QED  BY <1>4, <1>5 DEF Survives

\* Any step under which the pinned sets fit keeps a pinned hash alive.
LEMMA NextKeeps ==
  ASSUME IInv, IInv', Next,
         Cardinality(pinnedHashes) <= pinCap, Cardinality(pinnedHashes') <= pinCap',
         NEW h \in pinnedHashes \intersect pinnedHashes', Survives(h)
  PROVE  Survives(h)'
<1>0. h # NoHash
  BY HashesAssumption DEF IInv, TypeOK
<1>1. CASE \E hashes \in MarkedPrompts : ArmNeverEvictPin(hashes)
  BY <1>1, ArmKeeps
<1>2. CASE \E r \in Requests, bs \in (SUBSET freeQueue) \ {{}} : GetNewBlocks(r, bs)
  <2>1. PICK r \in Requests, bs \in SUBSET freeQueue : GetNewBlocks(r, bs)
    BY <1>2
  <2>2. Reserved' = Reserved
    BY <2>1 DEF GetNewBlocks, pinVars, Reserved
  <2>3. \A b \in Blocks : ~Idle(b) => blockHash'[b] = blockHash[b] /\ ~Idle(b)'
    BY <2>1 DEF GetNewBlocks, Idle, IInv, PoolPartition, TypeOK
  <2>. QED  BY <2>2, <2>3 DEF Survives
<1>3. CASE \E r \in Requests, b \in Blocks, g \in Hashes : CacheFullBlock(r, b, g)
  <2>1. PICK r \in Requests, b \in Blocks, g \in Hashes : CacheFullBlock(r, b, g)
    BY <1>3
  <2>2. Reserved' = Reserved /\ UNCHANGED refs
    BY <2>1 DEF CacheFullBlock, pinVars, Reserved
  <2>3. \A a \in Blocks : blockHash[a] # NoHash => blockHash'[a] = blockHash[a]
    BY <2>1 DEF CacheFullBlock, IInv, TypeOK
  <2>. QED  BY <1>0, <2>2, <2>3 DEF Survives, Idle
<1>4. CASE \E r \in Requests, b \in Blocks : Touch(r, b)
  <2>1. PICK r \in Requests, b \in Blocks : Touch(r, b)
    BY <1>4
  <2>2. Reserved' = Reserved /\ UNCHANGED blockHash
    BY <2>1 DEF Touch, Reserved
  <2>3. \A a \in Blocks : ~Idle(a) => ~Idle(a)'
    BY <2>1 DEF Touch, Idle, IInv, TypeOK
  <2>. QED  BY <2>2, <2>3 DEF Survives
<1>5. CASE \E r \in Requests, bs \in (SUBSET Blocks) \ {{}} : FreeBlocks(r, bs)
  BY <1>5, FreeKeeps
<1>6. CASE ResetPrefixCache
  <2>1. CapFor(0, 1) \in Nat
    BY CapForType
  <2>2. pinnedHashes' = {}
    BY <1>6, <2>1, SetPinnedHashesFacts DEF ResetPrefixCache
  <2>. QED  BY <2>2
<1>. QED  BY <1>1, <1>2, <1>3, <1>4, <1>5, <1>6 DEF Next

LEMMA HNextFit ==
  ASSUME IInv, IInv', FitInv, [HNext]_historyVars
  PROVE  FitInv'
<1>1. CASE UNCHANGED historyVars
  BY <1>1 DEF historyVars, vars, FitInv, AllSurvive, Survives, Reserved, Idle
<1>2. CASE HNext
  <2>1. SUFFICES ASSUME ~overflow' PROVE AllSurvive'
    BY DEF FitInv
  <2>2. Cardinality(pinnedHashes') <= pinCap'
    <3>1. IsFiniteSet(pinnedHashes') /\ pinCap' \in Nat
      BY HashesAssumption, FS_Subset DEF IInv, TypeOK
    <3>2. ~(Cardinality(pinnedHashes') > pinCap')
      BY <1>2, <2>1 DEF HNext
    <3>. QED  BY <3>1, <3>2, FS_CardinalityType
  <2>3. loyal' = (loyal \union Reserved') \intersect pinnedHashes'
    BY <1>2 DEF HNext
  <2>4. \A h \in loyal' : Survives(h)'
    <3>1. CASE overflow
      BY <1>2, <2>1, <3>1 DEF HNext
    <3>2. CASE ~overflow
      <4>1. SUFFICES ASSUME NEW h \in loyal', h \notin Reserved' PROVE Survives(h)'
        BY DEF Survives
      <4>2. /\ h \in pinnedHashes \intersect pinnedHashes'
            /\ Survives(h)
            /\ Cardinality(pinnedHashes) <= pinCap
        BY <2>3, <3>2, <4>1 DEF FitInv, AllSurvive
      <4>. QED  BY <1>2, <2>2, <4>2, NextKeeps DEF HNext
    <3>. QED  BY <3>1, <3>2
  <2>. QED  BY <2>2, <2>3, <2>4 DEF AllSurvive
<1>. QED  BY <1>1, <1>2

\* The README's promise, for prompts that fit the cap: what the pin has once
\* held and every marked prompt since contains is still cached, whatever other
\* traffic, other marked prompts and loans came between.
THEOREM FittingPrompts == HSpec => []FittingPromptsStayCached
<1>1. HInit => FitInv
  BY FS_EmptySet DEF HInit, Init, FitInv, AllSurvive
<1>2. IInv /\ IInv' /\ FitInv /\ [HNext]_historyVars => FitInv'
  BY HNextFit
<1>3. IInv /\ FitInv => FittingPromptsStayCached
  BY DEF FitInv, AllSurvive, Survives, IInv, TypeOK, ReservationSound, Reserved,
         FittingPromptsStayCached, SharedPromptStaysCached
<1>. QED  BY <1>1, <1>2, <1>3, HistoryIInv, PTL DEF HSpec

-------------------------------------------------------------------------------
(* The pin under the scheduler. *)

\* What the tokenizer and the groups owe the patch: a prompt contains the marker's
\* inner tokens exactly if its text contains the marker, and no group that caches
\* has blocks the patch cannot hash.
MarkersFound ==
  /\ \A r \in Requests : r \in Marked <=> ContainsSubseq(Prompt[r], Needle(MarkerIds))
  /\ \A g \in Caching : Pinnable(g)

SchedType ==
  /\ waiting \in Seq(Requests) /\ running \in Seq(Requests)
  /\ computed \in [Requests -> Nat]
  /\ cursor \in Nat \ {0}
  /\ stage \in {"begin", "allocate", "touch", "compute"}
  /\ hits \subseteq Blocks

Distinct(s) == \A i, j \in 1 .. Len(s) : s[i] = s[j] => i = j

\* A request is queued once; the one being scheduled is the cursor's.
TurnsInv ==
  /\ Distinct(waiting) /\ Distinct(running)
  /\ ToSet(waiting) \intersect ToSet(running) = {}
  /\ stage # "begin" => cursor <= Len(running) /\ turn = running[cursor]
  /\ cursor > Len(running) + 1 => preempted

\* Only who runs has computed anything, and whose turn in the step is still to
\* come has tokens left.
ComputedInv ==
  /\ \A r \in Requests : computed[r] <= Len(Prompt[r])
  /\ \A r \in Requests : computed[r] # 0 => r \in ToSet(running)
  /\ \A i \in 1 .. Len(running) :
       i >= cursor => computed[running[i]] < Len(Prompt[running[i]])

PartHash(r, p) == HashAt(r, p[1], p[2])

\* Its request has computed part p, or is through.
Covered(r, p) == r \in Queued => p[2] <= computed[r]

\* Part p of r survives, or is in a block of its hit that r has not taken yet.
Secured(r, p) ==
  \/ Survives(PartHash(r, p))
  \/ /\ stage = "touch" /\ turn = r
     /\ \E b \in hits : blockHash[b] = PartHash(r, p)

\* r is the latest marked request and its prompt fits the cap.
FitsPin(r) ==
  lastMarked = r /\ Cardinality(PromptHashes[r]) <= CapFor(FracNum, FracDen)

\* The pin is of the latest marked request, if that fits, and what that request
\* has computed of its longest hit is secured.
MarkedInv ==
  \A r \in Marked : FitsPin(r) =>
    /\ pinnedHashes = PromptHashes[r] /\ pinCap = CapFor(FracNum, FracDen)
    /\ \A p \in HitParts(LongestHit[r]) : Covered(r, p) => Secured(r, p)

SIInv == IInv /\ SchedType /\ TurnsInv /\ ComputedInv /\ MarkedInv

----------------------------------------------------------------------------
(* Sequences of requests.                                                  *)

LEMMA SetOf ==
  ASSUME NEW S, NEW s \in Seq(S)
  PROVE  /\ ToSet(s) = {s[i] : i \in 1 .. Len(s)}
         /\ ToSet(s) \subseteq S
         /\ Len(s) \in Nat
BY DEF ToSet

LEMMA AppendSet ==
  ASSUME NEW S, NEW s \in Seq(S), NEW e \in S
  PROVE  /\ Append(s, e) \in Seq(S) /\ ToSet(Append(s, e)) = ToSet(s) \union {e}
         /\ Distinct(s) /\ e \notin ToSet(s) => Distinct(Append(s, e))
<1>. DEFINE t == Append(s, e)
<1>1. /\ t \in Seq(S) /\ Len(t) = Len(s) + 1 /\ t[Len(s) + 1] = e
      /\ \A i \in 1 .. Len(s) : t[i] = s[i]
      /\ Len(s) \in Nat
  OBVIOUS
<1>. HIDE DEF t
<1>2. {t[i] : i \in 1 .. Len(s) + 1} = {s[i] : i \in 1 .. Len(s)} \union {e}
  BY <1>1
<1>3. ToSet(t) = {t[i] : i \in 1 .. Len(s) + 1}
  BY <1>1, SetOf
<1>4. ASSUME Distinct(s), e \notin ToSet(s) PROVE Distinct(t)
  <2>1. \A i \in 1 .. Len(s) : s[i] # e
    BY <1>4, SetOf
  <2>2. \A i \in 1 .. Len(s) + 1 : i = Len(s) + 1 \/ i \in 1 .. Len(s)
    BY <1>1
  <2>. QED  BY <1>1, <1>4, <2>1, <2>2 DEF Distinct
<1>. QED  BY <1>1, <1>2, <1>3, <1>4, SetOf DEF t

LEMMA TailSet ==
  ASSUME NEW S, NEW s \in Seq(S), s # << >>
  PROVE  /\ Tail(s) \in Seq(S) /\ Head(s) \in S
         /\ ToSet(s) = ToSet(Tail(s)) \union {Head(s)}
         /\ Distinct(s) => Distinct(Tail(s)) /\ Head(s) \notin ToSet(Tail(s))
<1>. DEFINE t == Tail(s)
<1>1. /\ t \in Seq(S) /\ Head(s) = s[1] /\ Len(s) \in Nat \ {0}
      /\ Len(t) = Len(s) - 1 /\ \A i \in 1 .. Len(s) - 1 : t[i] = s[i + 1]
      /\ Head(s) \in S
  BY HeadTailProperties
<1>. HIDE DEF t
<1>2. ASSUME NEW i \in 1 .. Len(s), i # 1 PROVE s[i] \in {t[k] : k \in 1 .. Len(s) - 1}
  <2>1. i - 1 \in 1 .. Len(s) - 1 /\ t[i - 1] = s[i]
    BY <1>1, <1>2
  <2>. QED  BY <2>1
<1>3. ASSUME NEW i \in 1 .. Len(s) - 1 PROVE t[i] \in {s[k] : k \in 1 .. Len(s)}
  <2>1. i + 1 \in 1 .. Len(s) /\ t[i] = s[i + 1]
    BY <1>1
  <2>. QED  BY <2>1
<1>4. {s[i] : i \in 1 .. Len(s)} = {t[i] : i \in 1 .. Len(s) - 1} \union {s[1]}
  <2>1. 1 \in 1 .. Len(s)
    BY <1>1
  <2>2. {s[i] : i \in 1 .. Len(s)} \subseteq {t[i] : i \in 1 .. Len(s) - 1} \union {s[1]}
    BY <1>2
  <2>3. {t[i] : i \in 1 .. Len(s) - 1} \subseteq {s[i] : i \in 1 .. Len(s)}
    BY <1>3
  <2>. QED  BY <2>1, <2>2, <2>3
<1>5. ToSet(t) = {t[i] : i \in 1 .. Len(s) - 1}
  BY <1>1, SetOf
<1>6. ASSUME Distinct(s) PROVE Distinct(t) /\ s[1] \notin {t[i] : i \in 1 .. Len(s) - 1}
  <2>1. \A i \in 1 .. Len(s) - 1 : i + 1 \in 1 .. Len(s) /\ i + 1 # 1
    BY <1>1
  <2>2. \A i, j \in 1 .. Len(s) - 1 : i + 1 = j + 1 => i = j
    BY <1>1
  <2>3. 1 \in 1 .. Len(s)
    BY <1>1
  <2>. QED  BY <1>1, <1>6, <2>1, <2>2, <2>3 DEF Distinct
<1>. QED  BY <1>1, <1>4, <1>5, <1>6, SetOf DEF t

LEMMA FrontSet ==
  ASSUME NEW S, NEW s \in Seq(S), s # << >>
  PROVE  /\ Front(s) \in Seq(S) /\ Last(s) \in S
         /\ ToSet(s) = ToSet(Front(s)) \union {Last(s)}
         /\ Distinct(s) => Distinct(Front(s)) /\ Last(s) \notin ToSet(Front(s))
         /\ Len(Front(s)) = Len(s) - 1 /\ \A i \in 1 .. Len(s) - 1 : Front(s)[i] = s[i]
<1>. DEFINE t == Front(s)
<1>1. /\ t \in Seq(S) /\ Last(s) = s[Len(s)] /\ Len(s) \in Nat \ {0}
      /\ Len(t) = Len(s) - 1 /\ \A i \in 1 .. Len(s) - 1 : t[i] = s[i]
      /\ Last(s) \in S
  <2>1. Len(s) \in Nat \ {0} /\ \A i \in 1 .. Len(s) : s[i] \in S
    OBVIOUS
  <2>2. 1 \in Int /\ Len(s) - 1 \in Int /\ \A i \in 1 .. Len(s) - 1 : s[i] \in S
    BY <2>1
  <2>3. /\ t \in Seq(S) /\ Len(t) = (IF 1 <= Len(s) - 1 THEN Len(s) - 1 - 1 + 1 ELSE 0)
        /\ \A i \in 1 .. Len(s) - 1 - 1 + 1 : t[i] = s[1 + i - 1]
    BY <2>2, SubSeqProperties DEF Front
  <2>. HIDE DEF t
  <2>4. Len(t) = Len(s) - 1
    <3>1. PICK n \in Nat \ {0} : n = Len(s)
      BY <2>1
    <3>2. Len(t) = IF 1 <= n - 1 THEN n - 1 - 1 + 1 ELSE 0
      BY <2>3, <3>1
    <3>3. (IF 1 <= n - 1 THEN n - 1 - 1 + 1 ELSE 0) = n - 1
      OBVIOUS
    <3>. QED  BY <3>1, <3>2, <3>3
  <2>5. ASSUME NEW i \in 1 .. Len(s) - 1 PROVE t[i] = s[i]
    <3>1. i \in 1 .. Len(s) - 1 - 1 + 1 /\ 1 + i - 1 = i
      BY <2>1
    <3>. QED  BY <2>3, <3>1
  <2>. QED  BY <2>1, <2>3, <2>4, <2>5 DEF Last
<1>. HIDE DEF t
<1>2. {s[i] : i \in 1 .. Len(s)} = {t[i] : i \in 1 .. Len(s) - 1} \union {s[Len(s)]}
  BY <1>1
<1>3. ToSet(t) = {t[i] : i \in 1 .. Len(s) - 1}
  BY <1>1, SetOf
<1>4. ASSUME Distinct(s) PROVE Distinct(t) /\ s[Len(s)] \notin {t[i] : i \in 1 .. Len(s) - 1}
  <2>1. \A i \in 1 .. Len(s) - 1 : i \in 1 .. Len(s) /\ i # Len(s)
    BY <1>1
  <2>2. Len(s) \in 1 .. Len(s)
    BY <1>1
  <2>. QED  BY <1>1, <1>4, <2>1, <2>2 DEF Distinct
<1>. QED  BY <1>1, <1>2, <1>3, <1>4, SetOf DEF t

LEMMA PrependSet ==
  ASSUME NEW S, NEW s \in Seq(S), NEW e \in S
  PROVE  /\ <<e>> \o s \in Seq(S) /\ ToSet(<<e>> \o s) = ToSet(s) \union {e}
         /\ Distinct(s) /\ e \notin ToSet(s) => Distinct(<<e>> \o s)
<1>. DEFINE t == <<e>> \o s
<1>1. /\ t \in Seq(S) /\ Len(t) = Len(s) + 1 /\ t[1] = e
      /\ \A i \in 1 .. Len(s) : t[i + 1] = s[i]
      /\ Len(s) \in Nat
  OBVIOUS
<1>. HIDE DEF t
<1>2. ASSUME NEW i \in 1 .. Len(s) + 1, i # 1 PROVE t[i] \in {s[k] : k \in 1 .. Len(s)}
  <2>1. i - 1 \in 1 .. Len(s) /\ t[i] = s[i - 1]
    BY <1>1, <1>2
  <2>. QED  BY <2>1
<1>3. ASSUME NEW i \in 1 .. Len(s) PROVE s[i] \in {t[k] : k \in 1 .. Len(s) + 1}
  <2>1. i + 1 \in 1 .. Len(s) + 1 /\ s[i] = t[i + 1]
    BY <1>1
  <2>. QED  BY <2>1
<1>4. {t[i] : i \in 1 .. Len(s) + 1} = {s[i] : i \in 1 .. Len(s)} \union {e}
  <2>1. 1 \in 1 .. Len(s) + 1
    BY <1>1
  <2>2. {t[i] : i \in 1 .. Len(s) + 1} \subseteq {s[i] : i \in 1 .. Len(s)} \union {e}
    BY <1>1, <1>2
  <2>. QED  BY <1>1, <1>3, <2>1, <2>2
<1>5. ToSet(t) = {t[i] : i \in 1 .. Len(s) + 1}
  BY <1>1, SetOf
<1>6. ASSUME Distinct(s), e \notin ToSet(s) PROVE Distinct(t)
  <2>1. \A i \in 1 .. Len(s) : s[i] # e
    BY <1>6, SetOf
  <2>2. \A i \in 1 .. Len(t) : i = 1 \/ (i - 1 \in 1 .. Len(s) /\ t[i] = s[i - 1])
    <3>. SUFFICES ASSUME NEW i \in 1 .. Len(t), i # 1
                  PROVE  i - 1 \in 1 .. Len(s) /\ t[i] = s[i - 1]
      OBVIOUS
    <3>1. i - 1 \in 1 .. Len(s) /\ (i - 1) + 1 = i
      BY <1>1
    <3>. QED  BY <1>1, <3>1
  <2>3. SUFFICES ASSUME NEW i \in 1 .. Len(t), NEW j \in 1 .. Len(t), t[i] = t[j] PROVE i = j
    BY DEF Distinct
  <2>4. CASE i = 1 \/ j = 1
    BY <1>1, <2>1, <2>2, <2>3, <2>4
  <2>5. CASE i # 1 /\ j # 1
    <3>1. i - 1 = j - 1
      BY <1>6, <2>2, <2>3, <2>5 DEF Distinct
    <3>. QED  BY <1>1, <3>1
  <2>. QED  BY <2>4, <2>5
<1>. QED  BY <1>1, <1>4, <1>5, <1>6, SetOf DEF t

LEMMA RemoveSet ==
  ASSUME NEW S, NEW s \in Seq(S), NEW k \in 1 .. Len(s)
  PROVE  /\ RemoveAt(s, k) \in Seq(S) /\ s[k] \in S
         /\ ToSet(RemoveAt(s, k)) \subseteq ToSet(s)
         /\ ToSet(s) \subseteq ToSet(RemoveAt(s, k)) \union {s[k]}
         /\ Distinct(s) => Distinct(RemoveAt(s, k))
         /\ Len(RemoveAt(s, k)) = Len(s) - 1
<1>. DEFINE u == SubSeq(s, 1, k - 1)
            v == SubSeq(s, k + 1, Len(s))
            t == u \o v
<1>1. Len(s) \in Nat /\ k \in Nat /\ s[k] \in S
  OBVIOUS
<1>2. u \in Seq(S) /\ Len(u) = k - 1 /\ \A i \in 1 .. k - 1 : u[i] = s[i]
  <2>1. \A i \in 1 .. k - 1 : s[i] \in S
    BY <1>1
  <2>2. /\ u \in Seq(S) /\ Len(u) = IF 1 <= k - 1 THEN k - 1 - 1 + 1 ELSE 0
        /\ \A i \in 1 .. k - 1 - 1 + 1 : u[i] = s[1 + i - 1]
    BY <1>1, <2>1, SubSeqProperties
  <2>3. ASSUME NEW i \in 1 .. k - 1 PROVE u[i] = s[i]
    <3>1. i \in 1 .. k - 1 - 1 + 1 /\ 1 + i - 1 = i
      BY <1>1
    <3>. QED  BY <2>2, <3>1
  <2>. QED  BY <1>1, <2>2, <2>3
<1>3. v \in Seq(S) /\ Len(v) = Len(s) - k /\ \A i \in 1 .. Len(s) - k : v[i] = s[k + i]
  <2>1. \A i \in k + 1 .. Len(s) : s[i] \in S
    BY <1>1
  <2>2. /\ v \in Seq(S) /\ Len(v) = IF k + 1 <= Len(s) THEN Len(s) - (k + 1) + 1 ELSE 0
        /\ \A i \in 1 .. Len(s) - (k + 1) + 1 : v[i] = s[k + 1 + i - 1]
    BY <1>1, <2>1, SubSeqProperties
  <2>3. ASSUME NEW i \in 1 .. Len(s) - k PROVE v[i] = s[k + i]
    <3>1. i \in 1 .. Len(s) - (k + 1) + 1 /\ k + 1 + i - 1 = k + i
      BY <1>1
    <3>. QED  BY <2>2, <3>1
  <2>. QED  BY <1>1, <2>2, <2>3
<1>. HIDE DEF u, v
<1>4. t \in Seq(S) /\ Len(t) = Len(s) - 1
  <2>1. t \in Seq(S) /\ Len(t) = Len(u) + Len(v)
    BY <1>2, <1>3, ConcatProperties
  <2>. QED  BY <1>1, <1>2, <1>3, <2>1
<1>5. /\ \A i \in 1 .. k - 1 : t[i] = s[i]
      /\ \A i \in k .. Len(s) - 1 : t[i] = s[i + 1]
  <2>1. ASSUME NEW i \in 1 .. k - 1 PROVE t[i] = s[i]
    BY <1>1, <1>2, <1>3
  <2>2. ASSUME NEW i \in k .. Len(s) - 1 PROVE t[i] = s[i + 1]
    <3>1. t[i] = v[i - (k - 1)] /\ i - (k - 1) \in 1 .. Len(s) - k
      BY <1>1, <1>2, <1>3
    <3>2. v[i - (k - 1)] = s[k + (i - (k - 1))] /\ k + (i - (k - 1)) = i + 1
      BY <1>1, <1>3, <3>1
    <3>. QED  BY <3>1, <3>2
  <2>. QED  BY <2>1, <2>2
<1>6. RemoveAt(s, k) = t
  BY DEF RemoveAt, u, v
<1>. HIDE DEF t
<1>7. ASSUME NEW i \in 1 .. Len(s), i # k PROVE s[i] \in {t[j] : j \in 1 .. Len(s) - 1}
  <2>1. CASE i < k
    <3>1. i \in 1 .. Len(s) - 1 /\ t[i] = s[i]
      BY <1>1, <1>5, <2>1
    <3>. QED  BY <3>1
  <2>2. CASE i > k
    <3>1. i - 1 \in 1 .. Len(s) - 1 /\ t[i - 1] = s[i]
      BY <1>1, <1>5, <2>2
    <3>. QED  BY <3>1
  <2>. QED  BY <1>1, <1>7, <2>1, <2>2
<1>8. ASSUME NEW i \in 1 .. Len(s) - 1 PROVE t[i] \in {s[j] : j \in 1 .. Len(s)}
  <2>1. i \in 1 .. Len(s) /\ i + 1 \in 1 .. Len(s) /\ t[i] \in {s[i], s[i + 1]}
    BY <1>1, <1>5
  <2>. QED  BY <2>1
<1>9. ToSet(t) = {t[i] : i \in 1 .. Len(s) - 1} /\ ToSet(s) = {s[i] : i \in 1 .. Len(s)}
  BY <1>4, SetOf
<1>10. ToSet(t) \subseteq ToSet(s)
  BY <1>8, <1>9
<1>11. ToSet(s) \subseteq ToSet(t) \union {s[k]}
  BY <1>7, <1>9
<1>12. ASSUME Distinct(s) PROVE Distinct(t)
  <2>1. SUFFICES ASSUME NEW i \in 1 .. Len(s) - 1, NEW j \in 1 .. Len(s) - 1, t[i] = t[j]
                 PROVE  i = j
    BY <1>4 DEF Distinct
  <2>2. /\ i < k => t[i] = s[i]
        /\ i >= k => t[i] = s[i + 1]
        /\ j < k => t[j] = s[j]
        /\ j >= k => t[j] = s[j + 1]
    BY <1>1, <1>5
  <2>3. {i, i + 1, j, j + 1} \subseteq 1 .. Len(s)
    BY <1>1
  <2>4. CASE i < k /\ j < k
    BY <1>12, <2>1, <2>2, <2>3, <2>4 DEF Distinct
  <2>5. CASE i < k /\ j >= k
    <3>1. i = j + 1
      BY <1>12, <2>1, <2>2, <2>3, <2>5 DEF Distinct
    <3>. QED  BY <1>1, <2>5, <3>1
  <2>6. CASE i >= k /\ j < k
    <3>1. i + 1 = j
      BY <1>12, <2>1, <2>2, <2>3, <2>6 DEF Distinct
    <3>. QED  BY <1>1, <2>6, <3>1
  <2>7. CASE i >= k /\ j >= k
    <3>1. i + 1 = j + 1
      BY <1>12, <2>1, <2>2, <2>3, <2>7 DEF Distinct
    <3>. QED  BY <1>1, <3>1
  <2>. QED  BY <1>1, <2>4, <2>5, <2>6, <2>7
<1>. QED  BY <1>1, <1>4, <1>6, <1>10, <1>11, <1>12

----------------------------------------------------------------------------
(* Hashes of prompts.                                                      *)

LEMMA ArmedHashesAre ==
  ASSUME MarkersFound, NEW r \in Requests
  PROVE  ArmedHashes(r) = PromptHashes[r]
<1>1. {g \in DOMAIN Groups : Pinnable(g)} = Caching
  BY DEF Pinnable, Caching, MarkersFound
<1>. QED BY <1>1 DEF PromptHashes, ArmedHashes

LEMMA MinExists ==
  ASSUME NEW S \in SUBSET Nat, S # {}
  PROVE  Min(S) \in S /\ \A x \in S : Min(S) <= x
<1>. DEFINE Below == {0 .. x : x \in S}
<1>1. IsWellFoundedOn(StrictSubsetOrdering(Nat), FiniteSubsetsOf(Nat))
  BY FS_StrictSubsetOrderingWellFounded
<1>2. Below \subseteq FiniteSubsetsOf(Nat) /\ Below # {}
  <2>1. ASSUME NEW x \in S PROVE 0 .. x \in FiniteSubsetsOf(Nat)
    BY FS_Interval DEF FiniteSubsetsOf
  <2>. QED  BY <2>1
<1>3. PICK b \in Below : \A c \in Below : ~(<<c, b>> \in StrictSubsetOrdering(Nat))
  BY <1>1, <1>2, WFMin
<1>4. PICK m \in S : b = 0 .. m
  BY <1>3
<1>5. ASSUME NEW y \in S, y < m PROVE FALSE
  <2>1. 0 .. y \in Below /\ 0 .. y \subseteq 0 .. m /\ 0 .. y # 0 .. m
    BY <1>5
  <2>2. 0 .. y \in SUBSET Nat /\ 0 .. m \in SUBSET Nat
    OBVIOUS
  <2>3. <<0 .. y, 0 .. m>> \in StrictSubsetOrdering(Nat)
    BY <2>1, <2>2 DEF StrictSubsetOrdering
  <2>. QED  BY <1>3, <1>4, <2>1, <2>3
<1>6. \A y \in S : m <= y
  BY <1>5
<1>. QED  BY <1>6 DEF Min

LEMMA MaxExists ==
  ASSUME NEW n \in Nat, NEW S \in SUBSET (0 .. n), S # {}
  PROVE  Max(S) \in S /\ \A x \in S : x <= Max(S)
<1>. DEFINE T == {n - x : x \in S}
<1>1. T \in SUBSET Nat /\ T # {}
  <2>1. \A x \in S : n - x \in Nat
    OBVIOUS
  <2>. QED  BY <2>1
<1>2. PICK t \in T : \A u \in T : t <= u
  BY <1>1, MinExists
<1>3. PICK m \in S : t = n - m
  BY <1>2
<1>4. ASSUME NEW x \in S PROVE m >= x
  <2>1. n - m <= n - x /\ x \in Int /\ m \in Int
    BY <1>2, <1>3
  <2>. QED  BY <2>1
<1>. QED  BY <1>4 DEF Max

----------------------------------------------------------------------------
(* A step of the scheduler is a step of the pool.                          *)

LEMMA NoBlocksNoStep ==
  ASSUME IInv, NEW r \in Requests, GetNewBlocks(r, {}) \/ FreeBlocks(r, {})
  PROVE  UNCHANGED vars
<1>1. CASE GetNewBlocks(r, {})
  BY <1>1 DEF GetNewBlocks, IInv, TypeOK, vars, pinVars
<1>2. CASE FreeBlocks(r, {})
  <2>1. /\ UNCHANGED <<blockHash, pinnedHashes, pinCap>>
        /\ refs' = [b \in Blocks |-> refs[b]]
        /\ pin' = pin /\ pinnedIds' = pinnedIds /\ freeQueue' = freeQueue
        /\ pinnedByHash' = HolderAmong({}, pinnedByHash)
    BY <1>2 DEF FreeBlocks
  <2>2. pinnedByHash' = [h \in Hashes |-> pinnedByHash[h]]
    BY <2>1 DEF HolderAmong
  <2>. QED  BY <2>1, <2>2 DEF IInv, TypeOK, vars
<1>. QED  BY <1>1, <1>2

LEMMA TurnIs ==
  ASSUME SchedType, TurnsInv, stage # "begin"
  PROVE  /\ turn \in Requests /\ turn \in ToSet(running)
         /\ cursor \in 1 .. Len(running) /\ turn = running[cursor]
<1>1. cursor \in 1 .. Len(running) /\ turn = running[cursor]
  BY DEF SchedType, TurnsInv
<1>. QED  BY <1>1, SetOf DEF SchedType

LEMMA FilledHashes ==
  ASSUME SchedType, ComputedInv, NEW r \in Requests, computed[r] < Len(Prompt[r])
  PROVE  Filled(r) \subseteq PromptHashes[r]
<1>. SUFFICES ASSUME NEW g \in Caching, (computed[r] + 1) % Groups[g].size = 0
              PROVE  HashAt(r, g, computed[r] + 1) \in PromptHashes[r]
  BY DEF Filled
<1>1. computed[r] + 1 \in 1 .. Len(Prompt[r])
  BY SchedulerAssumption DEF SchedType
<1>2. PICK p : p = <<g, computed[r] + 1>>
  OBVIOUS
<1>3. p \in FullBlocks(Caching, Len(Prompt[r]))
  BY <1>1, <1>2 DEF FullBlocks
<1>. QED  BY <1>2, <1>3 DEF PromptHashes, HashesOf

LEMMA EngineStepsPool ==
  ASSUME IInv, SchedType, TurnsInv, ComputedInv, Engine
  PROVE  [Next]_vars /\ UNCHANGED <<pinnedHashes, pinCap>>
<1>. DEFINE Goal == [Next]_vars /\ UNCHANGED <<pinnedHashes, pinCap>>
<1>1. ASSUME UNCHANGED vars PROVE Goal
  BY <1>1 DEF vars
<1>2. ASSUME NEW r \in Requests, NEW bs \in SUBSET freeQueue, GetNewBlocks(r, bs) PROVE Goal
  <2>1. CASE bs = {}
    BY <1>1, <1>2, <2>1, NoBlocksNoStep
  <2>2. CASE bs # {}
    BY <1>2, <2>2 DEF Next, GetNewBlocks, pinVars
  <2>. QED  BY <2>1, <2>2
<1>3. ASSUME NEW r \in Requests, NEW bs \in SUBSET Blocks, FreeBlocks(r, bs) PROVE Goal
  <2>1. CASE bs = {}
    BY <1>1, <1>3, <2>1, NoBlocksNoStep
  <2>2. CASE bs # {}
    BY <1>3, <2>2 DEF Next, FreeBlocks
  <2>. QED  BY <2>1, <2>2
<1>4. CASE NextRunning
  <2>1. turn' = running[cursor] /\ cursor \in 1 .. Len(running)
    BY <1>4 DEF NextRunning, SchedType
  <2>2. turn' \in Requests
    BY <2>1 DEF SchedType
  <2>3. Skipped(turn') \in SUBSET Blocks
    BY DEF Skipped, Held
  <2>4. UNCHANGED vars \/ FreeBlocks(turn', Skipped(turn'))
    BY <1>4 DEF NextRunning
  <2>5. PICK r \in Requests, bs \in SUBSET Blocks : UNCHANGED vars \/ FreeBlocks(r, bs)
    BY <2>2, <2>3, <2>4
  <2>. QED  BY <1>1, <1>3, <2>5
<1>5. CASE Allocate
  <2>1. turn \in Requests
    BY <1>5, TurnIs DEF Allocate
  <2>2. UNCHANGED vars \/ \E bs \in SUBSET freeQueue : GetNewBlocks(turn, bs)
    BY <1>5 DEF Allocate, Poppable, kSubset
  <2>. QED  BY <1>1, <1>2, <2>1, <2>2
<1>6. CASE Preempt
  <2>1. running # << >>
    BY <1>6, TurnIs DEF Preempt, SchedType
  <2>2. Last(running) \in Requests /\ Held(Last(running)) \in SUBSET Blocks
    BY <2>1, FrontSet DEF SchedType, Held
  <2>. QED  BY <1>3, <1>6, <2>2 DEF Preempt
<1>7. CASE Admit \/ Computed \/ NextStep
  BY <1>1, <1>7 DEF Admit, Computed, NextStep
<1>8. CASE TakeHit
  <2>1. turn \in Requests
    BY <1>8, TurnIs DEF TakeHit
  <2>2. \E b \in Blocks : Touch(turn, b)
    BY <1>8 DEF TakeHit, SchedType
  <2>. QED  BY <2>1, <2>2 DEF Next, Touch
<1>9. CASE AllocateAdmitted
  <2>1. turn \in Requests
    BY <1>9, TurnIs DEF AllocateAdmitted
  <2>2. \E bs \in SUBSET freeQueue : GetNewBlocks(turn, bs)
    BY <1>9 DEF AllocateAdmitted, Poppable, kSubset
  <2>. QED  BY <1>2, <2>1, <2>2
<1>10. CASE CacheBlock
  <2>1. turn \in Requests /\ cursor \in 1 .. Len(running) /\ turn = running[cursor]
    BY <1>10, TurnIs DEF CacheBlock
  <2>2. computed[turn] < Len(Prompt[turn])
    BY <2>1 DEF ComputedInv, SchedType
  <2>3. Uncached(turn) \subseteq Hashes
    BY <2>1, <2>2, FilledHashes, PromptsAssumption DEF Uncached
  <2>4. \E b \in Blocks, h \in Hashes : CacheFullBlock(turn, b, h)
    BY <1>10, <2>3 DEF CacheBlock, Held
  <2>. QED  BY <2>1, <2>4 DEF Next, CacheFullBlock, pinVars
<1>11. CASE Finish
  <2>1. FinishedRunning \in SUBSET Nat
    BY DEF FinishedRunning, SchedType
  <2>2. Min(FinishedRunning) \in FinishedRunning
    BY <1>11, <2>1, MinExists DEF Finish
  <2>3. PICK i \in DOMAIN running : FreeBlocks(running[i], Held(running[i]))
    BY <1>11, <2>2 DEF Finish, FinishedRunning
  <2>4. running[i] \in Requests /\ Held(running[i]) \in SUBSET Blocks
    BY <2>3 DEF SchedType, Held
  <2>. QED  BY <1>3, <2>3, <2>4
<1>. QED  BY <1>4, <1>5, <1>6, <1>7, <1>8, <1>9, <1>10, <1>11 DEF Engine

LEMMA AddStepsPool ==
  ASSUME MarkersFound, IInv, NEW r \in Requests, AddRequest(r)
  PROVE  [Next]_vars
<1>1. CASE ContainsSubseq(Prompt[r], Needle(MarkerIds))
  <2>1. ArmedHashes(r) \in MarkedPrompts
    BY <1>1, ArmedHashesAre, PromptsAssumption DEF MarkersFound
  <2>. QED  BY <1>1, <2>1 DEF AddRequest, Next
<1>2. CASE ~ContainsSubseq(Prompt[r], Needle(MarkerIds))
  BY <1>2 DEF AddRequest
<1>. QED  BY <1>1, <1>2

----------------------------------------------------------------------------
(* The scheduler's own state.                                              *)

StateInv == SchedType /\ TurnsInv /\ ComputedInv

LEMMA HitLengthFacts ==
  ASSUME NEW r \in Requests
  PROVE  /\ HitLength(r) \in 0 .. Len(Prompt[r]) - 1
         /\ LongestHit[r] \in 0 .. Len(Prompt[r]) - 1
         /\ HitLength(r) <= LongestHit[r]
         /\ \A h \in HitHashes[r][HitLength(r)] : Cached(h)
<1>. DEFINE short == 1 .. Len(Prompt[r]) - 1
            fits == {n \in short : \A g \in Caching : n % Groups[g].size = 0}
            found == {n \in short : /\ \A g \in Caching : n % Groups[g].size = 0
                                    /\ \A h \in HitHashes[r][n] : Cached(h)}
<1>1. Len(Prompt[r]) - 1 \in Nat
  BY SchedulerAssumption
<1>2. {0} \union fits \in SUBSET (0 .. Len(Prompt[r]) - 1) /\ {0} \union fits # {}
  BY <1>1
<1>3. {0} \union found \in SUBSET (0 .. Len(Prompt[r]) - 1) /\ {0} \union found # {}
  BY <1>1
<1>4. LongestHit[r] = Max({0} \union fits) /\ HitLength(r) = Max({0} \union found)
  BY DEF LongestHit, HitLength
<1>. HIDE DEF short
<1>5. {0} \union found \subseteq {0} \union fits
  OBVIOUS
<1>6. /\ HitLength(r) \in {0} \union found
      /\ LongestHit[r] \in {0} \union fits
      /\ \A n \in {0} \union fits : n <= LongestHit[r]
  BY <1>1, <1>2, <1>3, <1>4, MaxExists
<1>7. HitHashes[r][0] = {}
  <2>1. 0 \in 0 .. Len(Prompt[r])
    BY <1>1
  <2>2. HitParts(0) = {}
    BY DEF HitParts, FullBlocks
  <2>. QED  BY <2>1, <2>2 DEF HitHashes, HashesOf
<1>. QED  BY <1>2, <1>3, <1>5, <1>6, <1>7

LEMMA HitBlocksFacts ==
  ASSUME NEW r \in Requests
  PROVE  /\ HitBlocks(r) \subseteq Blocks
         /\ \A h \in HitHashes[r][HitLength(r)] : \E b \in HitBlocks(r) : blockHash[b] = h
<1>1. ASSUME NEW h \in HitHashes[r][HitLength(r)]
      PROVE  \E b \in Blocks : blockHash[b] = h
  BY HitLengthFacts DEF Cached
<1>. QED  BY <1>1 DEF HitBlocks

LEMMA AddState ==
  ASSUME StateInv, NEW r \in Requests, AddRequest(r)
  PROVE  StateInv'
<1>1. /\ waiting' = Append(waiting, r) /\ r \notin ToSet(waiting) \union ToSet(running)
      /\ stage = "begin"
      /\ UNCHANGED <<running, computed, cursor, turn, stage, hits, preempted>>
  BY DEF AddRequest, AtStepBoundary
<1>2. /\ waiting' \in Seq(Requests) /\ ToSet(waiting') = ToSet(waiting) \union {r}
      /\ Distinct(waiting')
  BY <1>1, AppendSet DEF StateInv, SchedType, TurnsInv
<1>3. SchedType'
  BY <1>1, <1>2 DEF StateInv, SchedType
<1>4. TurnsInv'
  BY <1>1, <1>2 DEF StateInv, TurnsInv, Distinct
<1>. QED  BY <1>1, <1>3, <1>4 DEF StateInv, ComputedInv

\* Steps that move nobody between the queues.
LEMMA InPlaceState ==
  ASSUME StateInv,
         NextRunning \/ Allocate \/ TakeHit \/ AllocateAdmitted \/ CacheBlock \/ NextStep
  PROVE  StateInv'
<1>0. UNCHANGED <<waiting, running, computed>>
  BY DEF NextRunning, Allocate, TakeHit, AllocateAdmitted, CacheBlock, NextStep, schedVars
<1>1. CASE NextRunning
  BY <1>0, <1>1 DEF NextRunning, StateInv, SchedType, TurnsInv, ComputedInv, Distinct
<1>2. CASE Allocate \/ AllocateAdmitted \/ CacheBlock
  BY <1>0, <1>2 DEF Allocate, AllocateAdmitted, CacheBlock, schedVars, StateInv, SchedType,
     TurnsInv, ComputedInv, Distinct
<1>3. CASE TakeHit
  BY <1>0, <1>3 DEF TakeHit, StateInv, SchedType, TurnsInv, ComputedInv, Distinct
<1>4. CASE NextStep
  <2>1. ASSUME NEW i \in 1 .. Len(running)
        PROVE  computed[running[i]] < Len(Prompt[running[i]])
    <3>1. running[i] \in Requests /\ computed[running[i]] # Len(Prompt[running[i]])
      BY <1>4 DEF NextStep, FinishedRunning, StateInv, SchedType
    <3>. QED  BY <3>1, SchedulerAssumption DEF StateInv, SchedType, ComputedInv
  <2>. QED  BY <1>0, <1>4, <2>1 DEF NextStep, StateInv, SchedType, TurnsInv, ComputedInv, Distinct
<1>. QED  BY <1>1, <1>2, <1>3, <1>4

LEMMA PreemptState ==
  ASSUME StateInv, Preempt
  PROVE  StateInv'
<1>0. StateInv
  OBVIOUS
<1>1. /\ turn \in ToSet(running) /\ cursor \in 1 .. Len(running) /\ turn = running[cursor]
      /\ running # << >>
  BY TurnIs DEF Preempt, StateInv, SchedType
<1>2. PICK q : q = Last(running)
  OBVIOUS
<1>3. /\ running' = Front(running) /\ waiting' = <<q>> \o waiting
      /\ computed' = [computed EXCEPT ![q] = 0] /\ preempted' = TRUE
      /\ UNCHANGED <<cursor, hits>>
      /\ IF q = turn THEN turn' = NoRequest /\ stage' = "begin" ELSE UNCHANGED <<turn, stage>>
  BY <1>2 DEF Preempt
<1>4. /\ running' \in Seq(Requests) /\ q \in Requests
      /\ ToSet(running) = ToSet(running') \union {q}
      /\ Distinct(running') /\ q \notin ToSet(running')
      /\ Len(running') = Len(running) - 1
      /\ \A i \in 1 .. Len(running) - 1 : running'[i] = running[i]
  BY <1>1, <1>2, <1>3, FrontSet DEF StateInv, SchedType, TurnsInv
<1>5. /\ waiting' \in Seq(Requests) /\ ToSet(waiting') = ToSet(waiting) \union {q}
      /\ Distinct(waiting')
  BY <1>3, <1>4, PrependSet DEF StateInv, SchedType, TurnsInv
<1>6. SchedType'
  BY <1>3, <1>4, <1>5 DEF StateInv, SchedType
<1>7. TurnsInv'
  <2>1. stage' # "begin" => cursor' <= Len(running') /\ turn' = running'[cursor']
    <3>. SUFFICES ASSUME q # turn
                  PROVE  cursor <= Len(running') /\ turn = running'[cursor]
      BY <1>3
    <3>1. cursor # Len(running)
      BY <1>1, <1>2 DEF Last
    <3>2. cursor \in 1 .. Len(running) - 1
      BY <1>1, <3>1 DEF StateInv, SchedType
    <3>. QED  BY <1>1, <1>4, <3>2
  <2>2. ToSet(waiting') \intersect ToSet(running') = {}
    BY <1>4, <1>5 DEF StateInv, TurnsInv
  <2>3. Distinct(waiting)' /\ Distinct(running)'
    BY <1>4, <1>5 DEF Distinct
  <2>. QED  BY <1>3, <2>1, <2>2, <2>3 DEF TurnsInv
<1>8. ComputedInv'
  <2>1. \A r \in Requests : computed'[r] = IF r = q THEN 0 ELSE computed[r]
    BY <1>3 DEF StateInv, SchedType
  <2>2. \A r \in Requests : computed'[r] <= Len(Prompt[r])
    BY <2>1, SchedulerAssumption DEF StateInv, ComputedInv
  <2>3. \A r \in Requests : computed'[r] # 0 => r \in ToSet(running')
    BY <1>4, <2>1 DEF StateInv, ComputedInv
  <2>4. ASSUME NEW i \in 1 .. Len(running'), i >= cursor'
        PROVE  computed'[running'[i]] < Len(Prompt[running'[i]])
    <3>1. i \in 1 .. Len(running) - 1 /\ i \in 1 .. Len(running)
      <4>1. PICK n \in Nat : n = Len(running)
        BY SetOf DEF StateInv, SchedType
      <4>2. i \in 1 .. n - 1
        BY <1>4, <2>4, <4>1
      <4>. QED  BY <4>1, <4>2
    <3>2. running'[i] = running[i] /\ running[i] \in ToSet(running') /\ running[i] \in Requests
      <4>1. running'[i] = running[i] /\ running[i] \in Requests
        BY <1>4, <3>1 DEF StateInv, SchedType
      <4>2. running'[i] \in {running'[k] : k \in 1 .. Len(running')}
        BY <2>4
      <4>. QED  BY <1>4, <4>1, <4>2, SetOf
    <3>3. computed'[running'[i]] = computed[running[i]]
      BY <1>4, <2>1, <3>2
    <3>. QED  BY <1>3, <2>4, <3>1, <3>2, <3>3 DEF StateInv, ComputedInv
  <2>. QED  BY <2>2, <2>3, <2>4 DEF ComputedInv
<1>. QED  BY <1>6, <1>7, <1>8 DEF StateInv

LEMMA AdmitState ==
  ASSUME StateInv, Admit
  PROVE  StateInv'
<1>0. StateInv
  OBVIOUS
<1>1. PICK q : q = Head(waiting)
  OBVIOUS
<1>2. /\ waiting # << >> /\ cursor > Len(running) /\ ~preempted
      /\ turn' = q /\ waiting' = Tail(waiting) /\ running' = Append(running, q)
      /\ computed' = [computed EXCEPT ![q] = HitLength(q)]
      /\ hits' = HitBlocks(q) /\ stage' = "touch" /\ UNCHANGED <<cursor, preempted>>
  BY <1>1 DEF Admit, MayAdmit
<1>3. /\ waiting' \in Seq(Requests) /\ q \in Requests
      /\ ToSet(waiting) = ToSet(waiting') \union {q}
      /\ Distinct(waiting') /\ q \notin ToSet(waiting')
  BY <1>1, <1>2, TailSet DEF StateInv, SchedType, TurnsInv
<1>4. /\ running' \in Seq(Requests) /\ ToSet(running') = ToSet(running) \union {q}
      /\ Distinct(running') /\ q \notin ToSet(running)
      /\ Len(running') = Len(running) + 1 /\ running'[Len(running) + 1] = q
      /\ \A i \in 1 .. Len(running) : running'[i] = running[i]
  BY <1>2, <1>3, AppendSet, AppendProperties DEF StateInv, SchedType, TurnsInv
<1>5. cursor = Len(running) + 1
  BY <1>2, SetOf DEF StateInv, SchedType, TurnsInv
<1>6. HitLength(q) \in 0 .. Len(Prompt[q]) - 1 /\ HitBlocks(q) \subseteq Blocks
  BY <1>3, HitLengthFacts, HitBlocksFacts
<1>7. SchedType'
  BY <1>2, <1>3, <1>4, <1>6 DEF StateInv, SchedType
<1>8. TurnsInv'
  <2>1. ToSet(waiting') \intersect ToSet(running') = {}
    BY <1>3, <1>4 DEF StateInv, TurnsInv
  <2>2. Distinct(waiting)' /\ Distinct(running)'
    BY <1>3, <1>4 DEF Distinct
  <2>. QED  BY <1>2, <1>4, <1>5, <2>1, <2>2 DEF TurnsInv, StateInv, SchedType
<1>9. ComputedInv'
  <2>1. \A r \in Requests : computed'[r] = IF r = q THEN HitLength(q) ELSE computed[r]
    BY <1>2 DEF StateInv, SchedType
  <2>2. \A r \in Requests : computed'[r] <= Len(Prompt[r])
    <3>1. HitLength(q) <= Len(Prompt[q])
      BY <1>3, <1>6, SchedulerAssumption
    <3>. QED  BY <2>1, <3>1 DEF StateInv, ComputedInv
  <2>3. \A r \in Requests : computed'[r] # 0 => r \in ToSet(running')
    BY <1>4, <2>1 DEF StateInv, ComputedInv
  <2>4. ASSUME NEW i \in 1 .. Len(running'), i >= cursor'
        PROVE  computed'[running'[i]] < Len(Prompt[running'[i]])
    <3>1. i = Len(running) + 1
      BY <1>2, <1>4, <1>5, <2>4 DEF StateInv, SchedType
    <3>2. HitLength(q) < Len(Prompt[q])
      BY <1>3, <1>6, SchedulerAssumption
    <3>. QED  BY <1>3, <1>4, <2>1, <3>1, <3>2
  <2>. QED  BY <2>2, <2>3, <2>4 DEF ComputedInv
<1>. QED  BY <1>7, <1>8, <1>9 DEF StateInv

LEMMA ComputedState ==
  ASSUME StateInv, Computed
  PROVE  StateInv'
<1>0. StateInv
  OBVIOUS
<1>1. /\ turn \in Requests /\ turn \in ToSet(running)
      /\ cursor \in 1 .. Len(running) /\ turn = running[cursor]
  BY TurnIs DEF Computed, StateInv
<1>2. /\ computed' = [computed EXCEPT ![turn] = @ + 1]
      /\ turn' = NoRequest /\ stage' = "begin" /\ cursor' = cursor + 1
      /\ UNCHANGED <<waiting, running, hits, preempted>>
  BY DEF Computed
<1>3. SchedType'
  BY <1>1, <1>2 DEF StateInv, SchedType
<1>4. TurnsInv'
  BY <1>1, <1>2 DEF StateInv, TurnsInv, SchedType, Distinct
<1>5. ComputedInv'
  <2>1. \A r \in Requests : computed'[r] = IF r = turn THEN computed[r] + 1 ELSE computed[r]
    BY <1>2 DEF StateInv, SchedType
  <2>2. \A r \in Requests : computed'[r] <= Len(Prompt[r])
    <3>1. computed[turn] < Len(Prompt[turn])
      BY <1>1 DEF StateInv, ComputedInv, SchedType
    <3>2. computed[turn] \in Nat /\ Len(Prompt[turn]) \in Nat
      BY <1>1, SchedulerAssumption DEF StateInv, SchedType
    <3>3. computed[turn] + 1 <= Len(Prompt[turn])
      BY <3>1, <3>2
    <3>. QED  BY <2>1, <3>3 DEF StateInv, ComputedInv
  <2>3. \A r \in Requests : computed'[r] # 0 => r \in ToSet(running')
    BY <1>1, <1>2, <2>1 DEF StateInv, ComputedInv
  <2>4. ASSUME NEW i \in 1 .. Len(running'), i >= cursor'
        PROVE  computed'[running'[i]] < Len(Prompt[running'[i]])
    <3>1. i \in 1 .. Len(running) /\ i > cursor
      BY <1>2, <2>4 DEF StateInv, SchedType
    <3>2. running[i] # turn /\ running[i] \in Requests
      BY <1>1, <3>1 DEF StateInv, TurnsInv, Distinct, SchedType
    <3>. QED  BY <1>2, <2>1, <3>1, <3>2 DEF StateInv, ComputedInv, SchedType
  <2>. QED  BY <2>2, <2>3, <2>4 DEF ComputedInv
<1>. QED  BY <1>3, <1>4, <1>5 DEF StateInv

LEMMA FinishState ==
  ASSUME StateInv, Finish
  PROVE  /\ StateInv'
         /\ \E i \in 1 .. Len(running) :
              /\ computed[running[i]] = Len(Prompt[running[i]])
              /\ computed' = [computed EXCEPT ![running[i]] = 0]
              /\ ToSet(running) \subseteq ToSet(running') \union {running[i]}
              /\ ToSet(running') \subseteq ToSet(running)
<1>0. StateInv
  OBVIOUS
<1>1. FinishedRunning \in SUBSET Nat
  BY DEF FinishedRunning, StateInv, SchedType
<1>2. Min(FinishedRunning) \in FinishedRunning
  BY <1>1, MinExists DEF Finish
<1>3. PICK i \in 1 .. Len(running) : i = Min(FinishedRunning) /\ i \in FinishedRunning
  <2>1. FinishedRunning \subseteq DOMAIN running
    BY DEF FinishedRunning
  <2>2. DOMAIN running = 1 .. Len(running)
    BY DEF StateInv, SchedType
  <2>. QED  BY <1>2, <2>1, <2>2
<1>4. /\ running' = RemoveAt(running, i) /\ computed' = [computed EXCEPT ![running[i]] = 0]
      /\ preempted' = TRUE /\ cursor > Len(running)
      /\ stage = "begin" /\ UNCHANGED <<waiting, cursor, turn, stage, hits>>
  BY <1>3 DEF Finish
<1>5. /\ running' \in Seq(Requests) /\ running[i] \in Requests
      /\ ToSet(running') \subseteq ToSet(running)
      /\ ToSet(running) \subseteq ToSet(running') \union {running[i]}
      /\ Distinct(running') /\ Len(running') = Len(running) - 1
  BY <1>4, RemoveSet DEF StateInv, SchedType, TurnsInv
<1>6. SchedType'
  BY <1>4, <1>5 DEF StateInv, SchedType
<1>7. TurnsInv'
  <2>1. ToSet(waiting') \intersect ToSet(running') = {}
    BY <1>4, <1>5 DEF StateInv, TurnsInv
  <2>2. Distinct(waiting)' /\ Distinct(running)'
    BY <1>4, <1>5 DEF Distinct, StateInv, TurnsInv
  <2>. QED  BY <1>4, <2>1, <2>2 DEF TurnsInv
<1>8. ComputedInv'
  <2>1. \A r \in Requests : computed'[r] = IF r = running[i] THEN 0 ELSE computed[r]
    BY <1>4 DEF StateInv, SchedType
  <2>2. \A r \in Requests : computed'[r] <= Len(Prompt[r])
    BY <2>1, SchedulerAssumption DEF StateInv, ComputedInv
  <2>3. \A r \in Requests : computed'[r] # 0 => r \in ToSet(running')
    BY <1>5, <2>1 DEF StateInv, ComputedInv
  <2>4. ~ \E j \in 1 .. Len(running') : j >= cursor'
    BY <1>4, <1>5 DEF StateInv, SchedType
  <2>. QED  BY <2>2, <2>3, <2>4 DEF ComputedInv
<1>9. computed[running[i]] = Len(Prompt[running[i]])
  BY <1>3 DEF FinishedRunning
<1>. QED  BY <1>4, <1>5, <1>6, <1>7, <1>8, <1>9 DEF StateInv

LEMMA StateStep ==
  ASSUME StateInv, Engine \/ \E r \in Requests : AddRequest(r)
  PROVE  StateInv'
BY AddState, InPlaceState, PreemptState, AdmitState, ComputedState, FinishState DEF Engine

----------------------------------------------------------------------------
(* The pinned prompt.                                                      *)

LEMMA PartFacts ==
  ASSUME NEW r \in Requests, NEW n \in 0 .. Len(Prompt[r]), NEW p \in HitParts(n)
  PROVE  /\ p[1] \in Caching /\ p[2] \in 1 .. n /\ p[2] % Groups[p[1]].size = 0
         /\ Groups[p[1]].recurrent => p[2] = n
         /\ PartHash(r, p) \in HitHashes[r][n]
         /\ PartHash(r, p) \in PromptHashes[r]
<1>1. /\ p \in Caching \X (1 .. n) /\ p[2] % Groups[p[1]].size = 0
      /\ Groups[p[1]].recurrent => p[2] = n
  BY DEF HitParts, FullBlocks
<1>2. p \in FullBlocks(Caching, Len(Prompt[r]))
  <2>1. n \in Nat /\ n <= Len(Prompt[r]) /\ Len(Prompt[r]) \in Nat
    BY SchedulerAssumption
  <2>2. p \in Caching \X (1 .. Len(Prompt[r]))
    BY <1>1, <2>1
  <2>. QED  BY <1>1, <2>2 DEF FullBlocks
<1>. QED  BY <1>1, <1>2 DEF PartHash, HitHashes, PromptHashes, HashesOf

LEMMA LongestParts ==
  ASSUME NEW r \in Requests, NEW p \in HitParts(LongestHit[r])
  PROVE  /\ p[1] \in Caching /\ p[2] \in 1 .. LongestHit[r] /\ p[2] < Len(Prompt[r])
         /\ p[2] % Groups[p[1]].size = 0
         /\ Groups[p[1]].recurrent => p[2] = LongestHit[r]
         /\ PartHash(r, p) \in PromptHashes[r]
<1>1. LongestHit[r] \in 0 .. Len(Prompt[r]) - 1 /\ Len(Prompt[r]) \in Nat
  BY HitLengthFacts, SchedulerAssumption
<1>2. LongestHit[r] \in 0 .. Len(Prompt[r])
  BY <1>1
<1>3. p[2] \in 1 .. LongestHit[r]
  BY <1>2, PartFacts
<1>. QED  BY <1>1, <1>2, <1>3, PartFacts

\* A step keeps the pinned prompt secured if it covers no part that neither
\* survived before nor is secured after it.
LEMMA EngineKeeps ==
  ASSUME SIInv, IInv', Engine,
         \A r \in Marked : \A p \in HitParts(LongestHit[r]) :
           FitsPin(r) /\ Covered(r, p)' => Survives(PartHash(r, p)) \/ Secured(r, p)'
  PROVE  MarkedInv'
<1>1. [Next]_vars /\ UNCHANGED <<pinnedHashes, pinCap>>
  BY EngineStepsPool DEF SIInv
<1>2. lastMarked' = lastMarked
  BY DEF Engine, NextRunning, Allocate, Preempt, Admit, TakeHit, AllocateAdmitted,
     CacheBlock, Computed, Finish, NextStep, schedVars
<1>3. SUFFICES ASSUME NEW r \in Marked, FitsPin(r)
               PROVE  /\ pinnedHashes' = PromptHashes[r]
                      /\ pinCap' = CapFor(FracNum, FracDen)
                      /\ \A p \in HitParts(LongestHit[r]) : Covered(r, p)' => Secured(r, p)'
  BY <1>2 DEF MarkedInv, FitsPin
<1>4. pinnedHashes = PromptHashes[r] /\ pinCap = CapFor(FracNum, FracDen)
  BY <1>3 DEF SIInv, MarkedInv
<1>5. ASSUME NEW p \in HitParts(LongestHit[r]), Survives(PartHash(r, p))
      PROVE  Survives(PartHash(r, p))'
  <2>1. PartHash(r, p) \in pinnedHashes \intersect pinnedHashes'
    BY <1>1, <1>4, LongestParts, SchedulerAssumption
  <2>2. /\ Cardinality(pinnedHashes) <= pinCap
        /\ Cardinality(pinnedHashes') <= pinCap'
    BY <1>1, <1>3, <1>4 DEF FitsPin
  <2>3. CASE Next
    BY <1>5, <2>1, <2>2, <2>3, NextKeeps DEF SIInv
  <2>4. CASE UNCHANGED vars
    BY <1>5, <2>4 DEF vars, Survives, Reserved, Idle
  <2>. QED  BY <1>1, <2>3, <2>4
<1>. QED  BY <1>1, <1>3, <1>4, <1>5 DEF Secured

\* What is secured survives, except in blocks of a hit still to be taken.
LEMMA CoveredSurvives ==
  ASSUME SIInv, NEW r \in Marked, FitsPin(r), NEW p \in HitParts(LongestHit[r]),
         Covered(r, p), stage # "touch" \/ turn # r \/ hits = {}
  PROVE  Survives(PartHash(r, p))
BY DEF SIInv, MarkedInv, Secured

LEMMA InPlaceMarked ==
  ASSUME SIInv, IInv',
         NextRunning \/ Allocate \/ AllocateAdmitted \/ CacheBlock \/ NextStep
  PROVE  MarkedInv'
<1>1. UNCHANGED <<waiting, running, computed>> /\ (stage # "touch" \/ hits = {})
  BY DEF NextRunning, Allocate, AllocateAdmitted, CacheBlock, NextStep, schedVars
<1>2. \A r, p : Covered(r, p)' => Covered(r, p)
  BY <1>1 DEF Covered, Queued
<1>. QED  BY <1>1, <1>2, CoveredSurvives, EngineKeeps DEF Engine

LEMMA TakeHitMarked ==
  ASSUME SIInv, IInv', TakeHit
  PROVE  MarkedInv'
<1>1. PICK b : /\ b \in hits /\ Touch(turn, b) /\ hits' = hits \ {b}
               /\ UNCHANGED <<waiting, running, computed, turn, stage>>
  BY DEF TakeHit
<1>2. b \in Blocks /\ ~Idle(b)'
  BY <1>1 DEF SIInv, SchedType, Touch, Idle, IInv, TypeOK
<1>3. blockHash' = blockHash
  BY <1>1 DEF Touch
<1>4. ASSUME NEW r \in Marked, NEW p \in HitParts(LongestHit[r]), FitsPin(r),
             Covered(r, p)'
      PROVE  Survives(PartHash(r, p)) \/ Secured(r, p)'
  <2>1. Covered(r, p)
    BY <1>1, <1>4 DEF Covered, Queued
  <2>2. Secured(r, p)
    BY <1>4, <2>1 DEF SIInv, MarkedInv
  <2>3. ASSUME stage = "touch", turn = r, NEW c \in hits, blockHash[c] = PartHash(r, p)
        PROVE  Secured(r, p)'
    <3>1. CASE c = b
      BY <1>2, <1>3, <2>3, <3>1 DEF Secured, Survives
    <3>2. CASE c # b
      BY <1>1, <1>3, <2>3, <3>2 DEF Secured
    <3>. QED  BY <3>1, <3>2
  <2>. QED  BY <2>2, <2>3 DEF Secured
<1>. QED  BY <1>4, EngineKeeps DEF Engine

LEMMA PreemptMarked ==
  ASSUME SIInv, IInv', Preempt
  PROVE  MarkedInv'
<1>1. running # << >>
  BY TurnIs DEF Preempt, SIInv, SchedType
<1>2. PICK q : q = Last(running)
  OBVIOUS
<1>3. /\ running' = Front(running) /\ waiting' = <<q>> \o waiting
      /\ computed' = [computed EXCEPT ![q] = 0] /\ stage = "allocate"
  BY <1>2 DEF Preempt
<1>4. q \in Requests /\ ToSet(running) = ToSet(running') \union {q}
  BY <1>1, <1>2, <1>3, FrontSet DEF SIInv, SchedType
<1>5. ToSet(waiting') = ToSet(waiting) \union {q}
  BY <1>3, <1>4, PrependSet DEF SIInv, SchedType
<1>6. ASSUME NEW r \in Marked, NEW p \in HitParts(LongestHit[r]), Covered(r, p)'
      PROVE  Covered(r, p)
  <2>1. r \in Requests /\ p[2] \in Nat \ {0}
    <3>1. r \in Requests
      BY SchedulerAssumption
    <3>2. p[2] \in 1 .. LongestHit[r]
      BY <3>1, LongestParts
    <3>. QED  BY <3>1, <3>2
  <2>2. r # q
    <3>. SUFFICES ASSUME r = q PROVE FALSE
      OBVIOUS
    <3>1. computed'[r] = 0 /\ r \in Queued'
      BY <1>3, <1>4, <1>5 DEF Queued, SIInv, SchedType
    <3>. QED  BY <1>6, <2>1, <3>1 DEF Covered
  <2>3. computed'[r] = computed[r] /\ (r \in Queued' <=> r \in Queued)
    BY <1>3, <1>4, <1>5, <2>1, <2>2 DEF Queued, SIInv, SchedType
  <2>. QED  BY <1>6, <2>3 DEF Covered
<1>. QED  BY <1>3, <1>6, CoveredSurvives, EngineKeeps DEF Engine

LEMMA AdmitMarked ==
  ASSUME SIInv, IInv', Admit
  PROVE  MarkedInv'
<1>1. PICK q : q = Head(waiting)
  OBVIOUS
<1>2. /\ waiting # << >> /\ stage = "begin"
      /\ turn' = q /\ waiting' = Tail(waiting) /\ running' = Append(running, q)
      /\ computed' = [computed EXCEPT ![q] = HitLength(q)]
      /\ hits' = HitBlocks(q) /\ stage' = "touch" /\ blockHash' = blockHash
  BY <1>1 DEF Admit, MayAdmit, vars
<1>3. q \in Requests /\ ToSet(waiting) = ToSet(waiting') \union {q}
  BY <1>1, <1>2, TailSet DEF SIInv, SchedType
<1>4. ToSet(running') = ToSet(running) \union {q}
  BY <1>2, <1>3, AppendSet DEF SIInv, SchedType
<1>5. ASSUME NEW r \in Marked, NEW p \in HitParts(LongestHit[r]), FitsPin(r),
             Covered(r, p)'
      PROVE  Survives(PartHash(r, p)) \/ Secured(r, p)'
  <2>1. r \in Requests
    BY SchedulerAssumption
  <2>2. CASE r # q
    <3>1. computed'[r] = computed[r] /\ (r \in Queued' <=> r \in Queued)
      BY <1>2, <1>3, <1>4, <2>1, <2>2 DEF Queued, SIInv, SchedType
    <3>2. Covered(r, p)
      BY <1>5, <3>1 DEF Covered
    <3>. QED  BY <1>2, <1>5, <3>2, CoveredSurvives
  <2>3. CASE r = q
    <3>1. PICK n : n = HitLength(r)
      OBVIOUS
    <3>2. p[2] <= n
      <4>1. computed'[r] = n /\ r \in Queued'
        BY <1>2, <1>3, <1>4, <2>3, <3>1 DEF Queued, SIInv, SchedType
      <4>. QED  BY <1>5, <4>1 DEF Covered
    <3>3. /\ p[2] \in 1 .. LongestHit[r] /\ p[1] \in Caching
          /\ p[2] % Groups[p[1]].size = 0
          /\ Groups[p[1]].recurrent => p[2] = LongestHit[r]
      BY <2>1, LongestParts
    <3>4. /\ n \in 0 .. Len(Prompt[r]) - 1 /\ n <= LongestHit[r]
          /\ LongestHit[r] \in Nat /\ Len(Prompt[r]) \in Nat
      BY <2>1, <3>1, HitLengthFacts, SchedulerAssumption
    <3>5. p[2] \in 1 .. n /\ n \in 0 .. Len(Prompt[r])
      BY <3>2, <3>3, <3>4
    <3>6. Groups[p[1]].recurrent => p[2] = n
      BY <3>2, <3>3, <3>4
    <3>7. p \in HitParts(n)
      <4>1. p \in Caching \X (1 .. LongestHit[r])
        BY DEF HitParts, FullBlocks
      <4>2. p \in Caching \X (1 .. n)
        BY <3>3, <3>5, <4>1
      <4>. QED  BY <3>3, <3>6, <4>2 DEF HitParts, FullBlocks
    <3>8. PartHash(r, p) \in HitHashes[r][HitLength(r)]
      BY <2>1, <3>1, <3>5, <3>7, PartFacts
    <3>9. \E b \in HitBlocks(r) : blockHash[b] = PartHash(r, p)
      BY <2>1, <3>8, HitBlocksFacts
    <3>. QED  BY <1>2, <2>3, <3>9 DEF Secured
  <2>. QED  BY <2>2, <2>3
<1>. QED  BY <1>5, EngineKeeps DEF Engine

LEMMA ComputedMarked ==
  ASSUME SIInv, IInv', Computed
  PROVE  MarkedInv'
<1>1. /\ computed' = [computed EXCEPT ![turn] = @ + 1] /\ stage = "compute"
      /\ Uncached(turn) = {} /\ UNCHANGED <<waiting, running>>
  BY DEF Computed
<1>2. turn \in Requests /\ turn \in ToSet(running)
  BY <1>1, TurnIs DEF SIInv
<1>3. ASSUME NEW r \in Marked, NEW p \in HitParts(LongestHit[r]), FitsPin(r),
             Covered(r, p)'
      PROVE  Survives(PartHash(r, p)) \/ Secured(r, p)'
  <2>1. r \in Requests
    BY SchedulerAssumption
  <2>2. CASE Covered(r, p)
    BY <1>1, <1>3, <2>2, CoveredSurvives
  <2>3. CASE ~Covered(r, p)
    <3>1. r = turn
      BY <1>1, <1>3, <2>1, <2>3 DEF Covered, Queued, SIInv, SchedType
    <3>2. r \in Queued' /\ computed'[r] = computed[r] + 1 /\ computed[r] \in Nat
      BY <1>1, <1>2, <3>1 DEF Queued, SIInv, SchedType
    <3>3. /\ p[2] \in 1 .. LongestHit[r] /\ p[1] \in Caching
          /\ p[2] % Groups[p[1]].size = 0
      BY <2>1, LongestParts
    <3>4. p[2] = computed[r] + 1
      BY <1>3, <2>3, <3>2, <3>3 DEF Covered
    <3>5. PartHash(r, p) \in Filled(turn)
      BY <3>1, <3>3, <3>4 DEF PartHash, Filled
    <3>6. \E b \in Held(turn) : blockHash[b] = PartHash(r, p)
      BY <1>1, <3>5 DEF Uncached
    <3>. QED  BY <3>6 DEF Held, Idle, Survives
  <2>. QED  BY <2>2, <2>3
<1>. QED  BY <1>3, EngineKeeps DEF Engine

LEMMA FinishMarked ==
  ASSUME SIInv, IInv', Finish
  PROVE  MarkedInv'
<1>1. /\ stage = "begin" /\ waiting' = waiting
  BY DEF Finish
<1>2. PICK i \in 1 .. Len(running) :
        /\ computed[running[i]] = Len(Prompt[running[i]])
        /\ computed' = [computed EXCEPT ![running[i]] = 0]
        /\ ToSet(running) \subseteq ToSet(running') \union {running[i]}
        /\ ToSet(running') \subseteq ToSet(running)
  BY FinishState DEF SIInv, StateInv
<1>3. ASSUME NEW r \in Marked, NEW p \in HitParts(LongestHit[r]), Covered(r, p)'
      PROVE  Covered(r, p)
  <2>1. r \in Requests
    BY SchedulerAssumption
  <2>2. CASE r = running[i]
    <3>1. p[2] < Len(Prompt[r]) /\ p[2] \in 1 .. LongestHit[r]
      BY <2>1, LongestParts
    <3>2. p[2] <= Len(Prompt[r])
      BY <2>1, <3>1, SchedulerAssumption
    <3>. QED  BY <1>2, <2>2, <3>2 DEF Covered
  <2>3. CASE r # running[i]
    <3>1. computed'[r] = computed[r] /\ (r \in Queued => r \in Queued')
      BY <1>1, <1>2, <2>1, <2>3 DEF Queued, SIInv, SchedType
    <3>. QED  BY <1>3, <3>1 DEF Covered
  <2>. QED  BY <2>2, <2>3
<1>. QED  BY <1>1, <1>3, CoveredSurvives, EngineKeeps DEF Engine

LEMMA AddMarked ==
  ASSUME MarkersFound, SIInv, NEW q \in Requests, AddRequest(q)
  PROVE  MarkedInv'
<1>1. /\ q \notin ToSet(waiting) \union ToSet(running) /\ waiting' = Append(waiting, q)
      /\ lastMarked' = IF q \in Marked THEN q ELSE lastMarked
      /\ stage = "begin" /\ UNCHANGED <<running, computed, turn, stage, hits>>
  BY DEF AddRequest, AtStepBoundary
<1>2. Queued' = Queued \union {q}
  BY <1>1, AppendSet DEF Queued, SIInv, SchedType
<1>3. CASE q \in Marked
  <2>. DEFINE cap == CapFor(FracNum, FracDen)
  <2>1. SetPinnedHashes(PromptHashes[q], cap)
    BY <1>3, ArmedHashesAre DEF AddRequest, MarkersFound, ArmNeverEvictPin
  <2>2. PromptHashes[q] \in SUBSET Hashes /\ cap \in Nat
    BY CapForType, FracAssumption, PromptsAssumption
  <2>3. pinnedHashes' = PromptHashes[q] /\ pinCap' = cap
    BY <2>1, <2>2, SetPinnedHashesFacts DEF SIInv
  <2>4. computed'[q] = 0
    BY <1>1 DEF SIInv, ComputedInv
  <2>5. \A p \in HitParts(LongestHit[q]) : ~Covered(q, p)'
    <3>. SUFFICES ASSUME NEW p \in HitParts(LongestHit[q]) PROVE ~Covered(q, p)'
      OBVIOUS
    <3>1. p[2] \in 1 .. LongestHit[q]
      BY LongestParts
    <3>2. ~(p[2] <= 0)
      BY <3>1
    <3>. QED  BY <1>2, <2>4, <3>2 DEF Covered
  <2>. QED  BY <1>1, <1>3, <2>3, <2>5 DEF MarkedInv, FitsPin
<1>4. CASE q \notin Marked
  <2>1. UNCHANGED vars
    BY <1>4 DEF AddRequest, MarkersFound
  <2>2. \A r \in Marked : \A p : Covered(r, p)' => Covered(r, p)
    BY <1>1, <1>2, <1>4 DEF Covered
  <2>3. \A r, p : Secured(r, p) => Secured(r, p)'
    BY <1>1, <2>1 DEF Secured, vars, Survives, Reserved, Idle
  <2>. QED  BY <1>1, <1>4, <2>1, <2>2, <2>3 DEF MarkedInv, FitsPin, SIInv, vars
<1>. QED  BY <1>3, <1>4

LEMMA MarkedStep ==
  ASSUME MarkersFound, SIInv, IInv', SchedNext
  PROVE  MarkedInv'
BY InPlaceMarked, TakeHitMarked, PreemptMarked, AdmitMarked, ComputedMarked, FinishMarked,
   AddMarked DEF SchedNext, Engine

----------------------------------------------------------------------------
(* Theorems.                                                               *)

LEMMA SchedInitInv ==
  ASSUME SchedInit
  PROVE  SIInv
<1>1. Init /\ IInv
  BY InitIInv DEF SchedInit
<1>2. ToSet(<< >>) = {}
  BY DEF ToSet
<1>3. SchedType
  BY DEF SchedInit, SchedType
<1>4. TurnsInv
  BY <1>2 DEF SchedInit, TurnsInv, Distinct
<1>5. ComputedInv
  BY SchedulerAssumption DEF SchedInit, ComputedInv
<1>6. MarkedInv
  BY SchedulerAssumption DEF SchedInit, MarkedInv, FitsPin
<1>. QED  BY <1>1, <1>3, <1>4, <1>5, <1>6 DEF SIInv

LEMMA SchedStepPool ==
  ASSUME MarkersFound, SIInv, [SchedNext]_allVars
  PROVE  [Next]_vars
BY EngineStepsPool, AddStepsPool DEF SIInv, SchedNext, allVars, vars

LEMMA SchedStepInv ==
  ASSUME MarkersFound, SIInv, [SchedNext]_allVars
  PROVE  SIInv'
<1>1. IInv'
  BY SchedStepPool, NextIInv DEF SIInv
<1>2. CASE UNCHANGED allVars
  <2>1. UNCHANGED vars /\ UNCHANGED schedVars
    BY <1>2 DEF allVars
  <2>2. SchedType' /\ TurnsInv' /\ ComputedInv'
    BY <2>1 DEF schedVars, SIInv, SchedType, TurnsInv, ComputedInv, Distinct
  <2>3. \A r, p : Secured(r, p) => Secured(r, p)'
    BY <2>1 DEF schedVars, vars, Secured, Survives, Reserved, Idle
  <2>4. \A r, p : Covered(r, p)' => Covered(r, p)
    BY <2>1 DEF schedVars, Covered, Queued
  <2>5. MarkedInv'
    BY <2>1, <2>3, <2>4 DEF schedVars, vars, SIInv, MarkedInv, FitsPin
  <2>. QED  BY <1>1, <2>2, <2>5 DEF SIInv
<1>3. CASE SchedNext
  <2>1. StateInv'
    BY <1>3, StateStep DEF SIInv, StateInv, SchedNext
  <2>. QED  BY <1>1, <1>3, <2>1, MarkedStep DEF SIInv, StateInv
<1>. QED  BY <1>2, <1>3

LEMMA SchedInvariance ==
  ASSUME MarkersFound
  PROVE  SchedSpec => []SIInv
<1>1. SchedInit => SIInv
  BY SchedInitInv
<1>2. SIInv /\ [SchedNext]_allVars => SIInv'
  BY SchedStepInv
<1>. QED  BY <1>1, <1>2, PTL DEF SchedSpec

\* The scheduler uses the pool as the pin's specification says: whatever engine
\* steps, admissions and preemptions do, it is by arming, allocating, caching,
\* taking hits and freeing, so that all that is proved of the pin holds here too.
THEOREM SchedulerUsesPin == MarkersFound /\ SchedSpec => Spec
<1>. SUFFICES ASSUME MarkersFound PROVE SchedSpec => Spec
  OBVIOUS
<1>1. SchedInit => Init
  BY DEF SchedInit
<1>2. SIInv /\ [SchedNext]_allVars => [Next]_vars
  BY SchedStepPool
<1>. QED  BY <1>1, <1>2, SchedInvariance, PTL DEF SchedSpec, Spec

\* Once the latest marked request is through, all that a repetition of its prompt
\* can be served from is cached and cannot be evicted, however requests were
\* queued, preempted and admitted again while it was computed.
THEOREM MarkedPromptPinned == MarkersFound /\ SchedSpec => []MarkedPromptIsPinned
<1>. SUFFICES ASSUME MarkersFound PROVE SchedSpec => []MarkedPromptIsPinned
  OBVIOUS
<1>1. ASSUME SIInv PROVE MarkedPromptIsPinned
  <2>1. SUFFICES ASSUME NEW r \in Marked, FitsPin(r), r \notin Queued,
                        NEW h \in HitHashes[r][LongestHit[r]]
                 PROVE  Survives(h)
    BY DEF MarkedPromptIsPinned, FitsPin, Survives
  <2>2. r \in Requests
    BY SchedulerAssumption
  <2>3. LongestHit[r] \in 0 .. Len(Prompt[r])
    BY <2>2, HitLengthFacts, SchedulerAssumption
  <2>4. PICK p \in HitParts(LongestHit[r]) : h = PartHash(r, p)
    BY <2>1, <2>2, <2>3 DEF HitHashes, HashesOf, PartHash
  <2>5. stage # "touch" \/ turn # r
    BY <1>1, <2>1, TurnIs DEF SIInv, Queued
  <2>6. Covered(r, p)
    BY <2>1 DEF Covered
  <2>. QED  BY <1>1, <2>1, <2>4, <2>5, <2>6, CoveredSurvives
<1>. QED  BY <1>1, SchedInvariance, PTL

=============================================================================
