--------------------------- MODULE NeverEvictPin ---------------------------
(***************************************************************************)
(* The never-evict pin of patch_never_evict.py on vLLM's BlockPool.        *)
(*                                                                         *)
(* A pool block is in exactly one place: the stock free queue, the pin's   *)
(* own queue, or in the hands of one or more requests.  A block whose hash *)
(* is pinned is claimed by the pin when its last user frees it, is lent    *)
(* out by touch() on a prefix hit, and comes home at the next free.        *)
(*                                                                         *)
(* Queues are sets: which of several blocks a queue yields first is left   *)
(* open, so every order of eviction and of filling the cap is explored.    *)
(* Blocks are the non-null blocks; the null block is never freed, touched  *)
(* or allocated, and counts only in NumGpuBlocks.                          *)
(***************************************************************************)
EXTENDS Integers, FiniteSets

CONSTANTS
  Blocks,         \* the non-null KVCacheBlocks of the pool
  Hashes,         \* block hashes with group id (BlockHashWithGroupId)
  NoHash,         \* block_hash is None
  NoBlock,        \* no entry in _pinned_by_hash
  Requests,       \* requests that may hold blocks
  MarkedPrompts,  \* hash sets the scheduler may arm the pin with
  FracNum, FracDen  \* --never-evict-kv-cache-max-fraction, as a rational

ASSUME BlocksAssumption ==
  /\ IsFiniteSet(Blocks)
  /\ NoBlock \notin Blocks

ASSUME HashesAssumption ==
  /\ IsFiniteSet(Hashes)
  /\ NoHash \notin Hashes
  /\ MarkedPrompts \subseteq SUBSET Hashes

ASSUME FracAssumption ==
  /\ FracNum \in Nat
  /\ FracDen \in Nat \ {0}

VARIABLES
  blockHash,     \* KVCacheBlock.block_hash
  refs,          \* the requests using a block; ref_cnt is their number
  freeQueue,     \* free_block_queue
  pin,           \* _pin: idle blocks held back from eviction
  pinnedIds,     \* _pinned_ids: what touch() believes is in _pin
  pinnedByHash,  \* _pinned_by_hash: which block holds a hash's reservation
  pinnedHashes,  \* _pinned_hashes
  pinCap         \* _pin_cap

vars == <<blockHash, refs, freeQueue, pin, pinnedIds, pinnedByHash,
          pinnedHashes, pinCap>>

pinVars == <<pin, pinnedIds, pinnedByHash, pinnedHashes, pinCap>>

----------------------------------------------------------------------------

NumGpuBlocks == Cardinality(Blocks) + 1

\* A cap that forgets the floor of one block and leaves out the null block.
CapFor_NoFloor(num, den) == (NumGpuBlocks * num) \div den - 1

\* int(num_gpu_blocks * max_fraction), at least one block.
CapFor(num, den) ==
  LET whole == (NumGpuBlocks * num) \div den
  IN  IF whole < 1 THEN 1 ELSE whole

Reserved == {h \in Hashes : pinnedByHash[h] # NoBlock}

Idle(b) == refs[b] = {}

Held(r) == {b \in Blocks : r \in refs[b]}

DistinctHashes(bs) ==
  \A a, b \in bs : blockHash[a] = blockHash[b] => a = b

NoHolder == [h \in Hashes |-> NoBlock]

\* The reservations once the blocks bs stand for their hashes.
HolderAmong(bs, other) ==
  [h \in Hashes |-> IF \E b \in bs : blockHash[b] = h
                    THEN CHOOSE b \in bs : blockHash[b] = h
                    ELSE other[h]]

----------------------------------------------------------------------------
(* Claiming freed blocks: _acquire_pin() over the blocks of one free.      *)

\* The blocks that reserve a hash nobody held before.
Fresh(claim) == {b \in claim : pinnedByHash[blockHash[b]] = NoBlock}

\* A pinned hash is enough, whoever holds the reservation.
MayPin_AnyBlock(b) == blockHash[b] \in pinnedHashes

\* b may be pinned: its hash is pinned and no other block stands for it.
MayPin(b) ==
  /\ blockHash[b] \in pinnedHashes
  /\ pinnedByHash[blockHash[b]] \in {NoBlock, b}

\* One block too many.
WithinCap_OffByOne(claim) ==
  Cardinality(Reserved) + Cardinality(Fresh(claim)) <= pinCap + 1

\* The reservations made by claim fit the cap.
WithinCap(claim) ==
  Cardinality(Reserved) + Cardinality(Fresh(claim)) <= pinCap

\* Why _acquire_pin() let b go although it might have been pinned: a block of
\* the same hash went before it, or the cap was reached.
TurnedAway(b, claim) ==
  /\ pinnedByHash[blockHash[b]] = NoBlock
  /\ \/ \E a \in claim : blockHash[a] = blockHash[b]
     \/ Cardinality(Reserved) + Cardinality(Fresh(claim)) >= pinCap

\* claim is what _acquire_pin() takes of the freed blocks, in some order.
AcquirePin(claim, freed) ==
  /\ claim \subseteq {b \in freed : MayPin(b)}
  /\ DistinctHashes(claim)
  /\ Fresh(claim) = {} \/ WithinCap(claim)
  /\ \A b \in freed \ claim : MayPin(b) => TurnedAway(b, claim)

----------------------------------------------------------------------------
(* Replacing the pin: set_pinned_hashes().                                 *)

\* Every replacement starts from nothing.
KeepPinned_Nothing(kept, hashes, cap) == kept = {}

\* kept is what the loop over the old pin queue keeps, in some order.
KeepPinned(kept, hashes, cap) ==
  /\ kept \subseteq {b \in pin : blockHash[b] \in hashes}
  /\ DistinctHashes(kept)
  /\ kept = {} \/ Cardinality(kept) <= cap
  /\ \A b \in pin \ kept : blockHash[b] \in hashes =>
       \/ Cardinality(kept) >= cap
       \/ \E a \in kept : blockHash[a] = blockHash[b]

\* Old reservations outliving the pin they were made under.
HoldersAfterReplacing_KeepsLoans(kept) == HolderAmong(kept, pinnedByHash)

\* _pinned_by_hash rebuilt from the blocks kept; a block on loan is in no
\* queue and loses its reservation.
HoldersAfterReplacing(kept) == HolderAmong(kept, NoHolder)

\* Blocks dropped from the pin that reach no queue.
Rehomed_Leaked(kept) == {}

\* Blocks of the old pin that go back to the free queue.
Rehomed(kept) == pin \ kept

SetPinnedHashes(hashes, cap) ==
  IF hashes = pinnedHashes /\ cap = pinCap
  THEN UNCHANGED <<freeQueue, pinVars>>
  ELSE \E kept \in SUBSET pin :
         /\ KeepPinned(kept, hashes, cap)
         /\ pinnedHashes' = hashes
         /\ pinCap' = cap
         /\ pin' = kept
         /\ pinnedIds' = kept
         /\ pinnedByHash' = HoldersAfterReplacing(kept)
         /\ freeQueue' = freeQueue \union Rehomed(kept)

----------------------------------------------------------------------------

Init ==
  /\ blockHash = [b \in Blocks |-> NoHash]
  /\ refs = [b \in Blocks |-> {}]
  /\ freeQueue = Blocks
  /\ pin = {}
  /\ pinnedIds = {}
  /\ pinnedByHash = NoHolder
  /\ pinnedHashes = {}
  /\ pinCap = 0

\* A request whose prompt contains the marker arrives: the full blocks of its
\* prompt, in every prefix-cacheable group, become the pinned set.
ArmNeverEvictPin(hashes) ==
  /\ SetPinnedHashes(hashes, CapFor(FracNum, FracDen))
  /\ UNCHANGED <<blockHash, refs>>

\* get_new_blocks(): pop blocks off the free queue, dropping what they cache.
GetNewBlocks(r, bs) ==
  /\ bs \subseteq freeQueue
  /\ freeQueue' = freeQueue \ bs
  /\ blockHash' = [b \in Blocks |-> IF b \in bs THEN NoHash ELSE blockHash[b]]
  /\ refs' = [b \in Blocks |-> IF b \in bs THEN refs[b] \union {r} ELSE refs[b]]
  /\ UNCHANGED pinVars

\* cache_full_blocks(): a full block in use is given its hash.  Two requests
\* may compute the same prefix, so a hash can be on several blocks.
CacheFullBlock(r, b, h) ==
  /\ r \in refs[b]
  /\ blockHash[b] = NoHash
  /\ \A a \in Held(r) : blockHash[a] # h
  /\ blockHash' = [blockHash EXCEPT ![b] = h]
  /\ UNCHANGED <<refs, freeQueue, pinVars>>

\* A loan that gives the reservation up.
Touch_DropsReservation(r, b) ==
  /\ blockHash[b] # NoHash
  /\ r \notin refs[b]
  /\ \A a \in Held(r) : blockHash[a] # blockHash[b]
  /\ refs' = [refs EXCEPT ![b] = @ \union {r}]
  /\ pinnedIds' = pinnedIds \ {b}
  /\ pin' = pin \ {b}
  /\ freeQueue' = freeQueue \ {b}
  /\ pinnedByHash' = [h \in Hashes |->
       IF b \in pinnedIds /\ h = blockHash[b] THEN NoBlock ELSE pinnedByHash[h]]
  /\ UNCHANGED <<blockHash, pinnedHashes, pinCap>>

\* touch(): a prefix hit takes a cached block.  An idle one leaves the queue
\* that _pinned_ids says it is in; its reservation survives the loan.
Touch(r, b) ==
  /\ blockHash[b] # NoHash
  /\ r \notin refs[b]
  /\ \A a \in Held(r) : blockHash[a] # blockHash[b]
  /\ refs' = [refs EXCEPT ![b] = @ \union {r}]
  /\ \/ /\ Idle(b) /\ b \in pinnedIds
        /\ pinnedIds' = pinnedIds \ {b}
        /\ pin' = pin \ {b}
        /\ UNCHANGED freeQueue
     \/ /\ Idle(b) /\ b \notin pinnedIds
        /\ freeQueue' = freeQueue \ {b}
        /\ UNCHANGED <<pin, pinnedIds>>
     \/ /\ ~Idle(b)
        /\ UNCHANGED <<freeQueue, pin, pinnedIds>>
  /\ UNCHANGED <<blockHash, pinnedByHash, pinnedHashes, pinCap>>

\* Only what a request frees when it finishes is offered to the pin.
Offered_AtFinish(r, bs) ==
  IF bs = Held(r) THEN {b \in bs : refs[b] = {r}} ELSE {}

\* The blocks whose last user is r.
Offered(r, bs) == {b \in bs : refs[b] = {r}}

\* free_blocks(): r lets go of bs, at its end or, for mamba state blocks,
\* while it runs.  Blocks that fall idle go to the pin or the free queue.
FreeBlocks(r, bs) ==
  LET freed == {b \in bs : refs[b] = {r}}
  IN  /\ bs \subseteq Held(r)
      /\ refs' = [b \in Blocks |-> IF b \in bs THEN refs[b] \ {r} ELSE refs[b]]
      /\ \E claim \in SUBSET freed :
           /\ AcquirePin(claim, Offered(r, bs))
           /\ pin' = pin \union claim
           /\ pinnedIds' = pinnedIds \union claim
           /\ pinnedByHash' = HolderAmong(claim, pinnedByHash)
           /\ freeQueue' = freeQueue \union (freed \ claim)
      /\ UNCHANGED <<blockHash, pinnedHashes, pinCap>>

\* The blocks in use are counted before the pin is dropped.
ResetPrefixCache_CountsFirst ==
  /\ SetPinnedHashes({}, CapFor(0, 1))
  /\ IF NumGpuBlocks - Cardinality(freeQueue) # 1
     THEN UNCHANGED blockHash
     ELSE blockHash' = [b \in Blocks |-> NoHash]
  /\ UNCHANGED refs

\* reset_prefix_cache(): the pin is dropped first, then the stock code counts
\* the blocks in use and either refuses or forgets every hash.
ResetPrefixCache ==
  /\ SetPinnedHashes({}, CapFor(0, 1))
  /\ IF NumGpuBlocks - Cardinality(freeQueue') # 1
     THEN UNCHANGED blockHash
     ELSE blockHash' = [b \in Blocks |-> NoHash]
  /\ UNCHANGED refs

Next ==
  \/ \E hashes \in MarkedPrompts : ArmNeverEvictPin(hashes)
  \/ \E r \in Requests, bs \in (SUBSET freeQueue) \ {{}} : GetNewBlocks(r, bs)
  \/ \E r \in Requests, b \in Blocks, h \in Hashes : CacheFullBlock(r, b, h)
  \/ \E r \in Requests, b \in Blocks : Touch(r, b)
  \/ \E r \in Requests, bs \in (SUBSET Blocks) \ {{}} : FreeBlocks(r, bs)
  \/ ResetPrefixCache

Spec == Init /\ [][Next]_vars

----------------------------------------------------------------------------

TypeOK ==
  /\ blockHash \in [Blocks -> Hashes \union {NoHash}]
  /\ refs \in [Blocks -> SUBSET Requests]
  /\ freeQueue \subseteq Blocks
  /\ pin \subseteq Blocks
  /\ pinnedIds \subseteq Blocks
  /\ pinnedByHash \in [Hashes -> Blocks \union {NoBlock}]
  /\ pinnedHashes \subseteq Hashes
  /\ pinCap \in Nat

\* Every block is in exactly one place: the free queue, the pin, or use.  A
\* block in none is leaked for good, one in two is handed out twice.
PoolPartition ==
  /\ freeQueue \intersect pin = {}
  /\ \A b \in Blocks : Idle(b) <=> b \in freeQueue \union pin

\* A reservation is real: its hash is pinned, its block still carries that
\* hash and cannot be evicted; and the pin queue holds reserved blocks only,
\* the very ones touch() looks for there.
ReservationSound ==
  /\ pinnedIds = pin
  /\ \A h \in Reserved :
       /\ h \in pinnedHashes
       /\ blockHash[pinnedByHash[h]] = h
       /\ pinnedByHash[h] \notin freeQueue
  /\ \A b \in pin :
       /\ blockHash[b] \in Hashes
       /\ pinnedByHash[blockHash[b]] = b

\* The pin never reserves more blocks than the cap, loans included.
CapRespected == Cardinality(Reserved) <= pinCap

\* Until the pin is replaced, what it reserves stays cached in the same block,
\* through loans, frees, allocations and duplicates of the hash.
ReservedStaysResident ==
  [][ <<pinnedHashes, pinCap>>' = <<pinnedHashes, pinCap>> =>
        \A h \in Reserved :
          /\ pinnedByHash'[h] = pinnedByHash[h]
          /\ blockHash'[pinnedByHash[h]] = h ]_vars

\* A reset on an idle pool goes through whatever the pin was holding, and one
\* with a block in use leaves the cached hashes alone.
ResetNeedsOnlyIdle ==
  [][ ResetPrefixCache =>
        IF \A b \in Blocks : Idle(b)
        THEN blockHash' = [b \in Blocks |-> NoHash] /\ freeQueue' = Blocks
        ELSE blockHash' = blockHash ]_vars

(* The pin as the world sees it: which hashes are cached, which protected. *)
Contract == INSTANCE PinContract WITH
  PromptCap <- CapFor(FracNum, FracDen),
  resident <- {blockHash[b] : b \in Blocks} \ {NoHash},
  protected <- Reserved,
  pinned <- pinnedHashes,
  cap <- pinCap

\* The pool with the pin implements the contract: no interleaving of frees,
\* prefix hits, allocations, re-arms and resets drops a protected hash.
ImplementsContract == Contract!Spec

=============================================================================
