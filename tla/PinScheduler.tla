---------------------------- MODULE PinScheduler ----------------------------
(***************************************************************************)
(* The never-evict pin under the scheduler that uses the pool.  The patch  *)
(* arms the pin when a request arrives (marker search and choice of the    *)
(* hashes); vLLM's scheduler then serves requests first come first served, *)
(* one engine step after another, from what the pin leaves free, and       *)
(* preempts the latest request when the pool runs dry.                     *)
(*                                                                         *)
(* A chunk is one token and a request finishes when its prompt has been    *)
(* computed.  Engine steps are taken apart into the pool operations they   *)
(* are made of; requests arrive between steps.                             *)
(***************************************************************************)
EXTENDS NeverEvictPin, Sequences, SequencesExt, FiniteSetsExt

CONSTANTS
  NoRequest,
  Groups,      \* kv_cache_groups: [size, cacheable, recurrent] by group id
  HashSize,    \* hash_block_size
  Prompt,      \* the tokens of each request's prompt
  MarkerIds,   \* the marker, tokenized
  Marked,      \* requests whose text contains the marker
  MaxRunning   \* max_num_seqs

ASSUME SchedulerAssumption ==
  /\ NoRequest \notin Requests
  /\ Blocks \subseteq Nat
  /\ HashSize \in Nat \ {0} /\ MaxRunning \in Nat \ {0}
  /\ \A g \in DOMAIN Groups : Groups[g].size \in Nat \ {0}
  /\ Marked \subseteq Requests
  /\ \A r \in Requests : Len(Prompt[r]) \in Nat \ {0}

VARIABLES
  waiting,    \* requests not admitted yet, in order of arrival
  running,    \* requests admitted, in order of admission
  computed,   \* num_computed_tokens
  cursor,     \* the running request whose turn it is in this engine step
  turn,       \* the request being scheduled
  stage,      \* what is next for it
  hits,       \* blocks of its prefix hit it has still to take
  preempted,  \* a request was preempted in this step
  lastMarked  \* the latest of the marked requests to arrive

schedVars == <<waiting, running, computed, cursor, turn, stage, hits, preempted, lastMarked>>
allVars == <<vars, schedVars>>

----------------------------------------------------------------------------
(* Arming the pin when a request arrives.                                  *)

\* The whole marker, as tokenized by itself.
Needle_Whole(ids) == ids

\* The first and last token may merge with the text around the marker.
Needle(ids) == IF Len(ids) > 2 THEN SubSeq(ids, 2, Len(ids) - 1) ELSE ids

\* _contains_subseq
ContainsSubseq(haystack, needle) ==
  /\ needle # << >>
  /\ \E i \in 1 .. Len(haystack) - Len(needle) + 1 :
       SubSeq(haystack, i, i + Len(needle) - 1) = needle

\* The hash of the block of group g that ends with the first n tokens.
HashAt(r, g, n) == <<g, SubSeq(Prompt[r], 1, n)>>

\* The full blocks of n tokens in some of the groups: group and last token.
FullBlocks(groups, n) == {p \in groups \X (1 .. n) : p[2] % Groups[p[1]].size = 0}

HashesOf(r, parts) == {HashAt(r, p[1], p[2]) : p \in parts}

Caching == {g \in DOMAIN Groups : Groups[g].cacheable}

Pinnable(g) == Groups[g].cacheable /\ Groups[g].size % HashSize = 0

\* The full blocks of the prompt in every group that caches, hashed at the
\* group's own block size.
ArmedHashes(r) == HashesOf(r, FullBlocks({g \in DOMAIN Groups : Pinnable(g)}, Len(Prompt[r])))

AtStepBoundary == cursor = 1 /\ turn = NoRequest /\ stage = "begin" /\ ~preempted

\* add_request: the request queues up; one whose prompt has the marker arms
\* the pin at once.
AddRequest(r) ==
  /\ AtStepBoundary
  /\ r \notin ToSet(waiting) \union ToSet(running)
  /\ waiting' = Append(waiting, r)
  /\ IF ContainsSubseq(Prompt[r], Needle(MarkerIds))
     THEN ArmNeverEvictPin(ArmedHashes(r))
     ELSE UNCHANGED vars
  /\ lastMarked' = IF r \in Marked THEN r ELSE lastMarked
  /\ UNCHANGED <<running, computed, cursor, turn, stage, hits, preempted>>

----------------------------------------------------------------------------
(* vLLM's KV cache manager.                                                *)

CDiv(n, d) == (n + d - 1) \div d

Cached(h) == \E b \in Blocks : blockHash[b] = h

\* What a prefix hit of n tokens takes: every block of the prefix, of a
\* recurrent group only the state after it.
HitParts(n) == {p \in FullBlocks(Caching, n) : Groups[p[1]].recurrent => p[2] = n}

HitHashes == [r \in Requests |-> [n \in 0 .. Len(Prompt[r]) |-> HashesOf(r, HitParts(n))]]

\* The longest hit that leaves a token to compute.
HitLength(r) ==
  Max({0} \union {n \in 1 .. Len(Prompt[r]) - 1 :
                    /\ \A g \in Caching : n % Groups[g].size = 0
                    /\ \A h \in HitHashes[r][n] : Cached(h)})

HitBlocks(r) ==
  {CHOOSE b \in Blocks : blockHash[b] = h : h \in HitHashes[r][HitLength(r)]}

\* New blocks for the token after the first n.  On admission a group that
\* does not cache has to be given blocks for the tokens of the hit as well.
NewBlocks(n) == Cardinality({g \in DOMAIN Groups : n % Groups[g].size = 0})

NewBlocksOnAdmission(n) ==
  MapThenSumSet(LAMBDA g : IF Groups[g].cacheable
                           THEN (IF n % Groups[g].size = 0 THEN 1 ELSE 0)
                           ELSE CDiv(n + 1, Groups[g].size), DOMAIN Groups)

\* The most blocks r holds at once.
Need(r) ==
  Max({MapThenSumSet(LAMBDA g : IF Groups[g].recurrent
                                THEN (IF n > 0 /\ n % Groups[g].size = 0 THEN 2 ELSE 1)
                                ELSE CDiv(n + 1, Groups[g].size), DOMAIN Groups)
         : n \in 0 .. Len(Prompt[r]) - 1})

\* Free blocks that cache nothing are reused first; which of the others follow
\* is left open.  Blocks that cache the same are taken in order of their ids.
Poppable(k) ==
  {bs \in kSubset(k, freeQueue) :
     \A b \in bs, c \in freeQueue \ bs :
       /\ blockHash[b] = blockHash[c] => b < c
       /\ blockHash[c] = NoHash => blockHash[b] = NoHash}

\* State blocks of r that are behind its running state.
Skipped(r) ==
  {b \in Held(r) : \E g \in DOMAIN Groups, n \in 1 .. computed[r] - 1 :
                     Groups[g].recurrent /\ blockHash[b] = HashAt(r, g, n)}

----------------------------------------------------------------------------
(* One engine step of vLLM's scheduler.                                    *)

\* The next running request is scheduled.  remove_skipped_blocks comes first:
\* state blocks are freed while the request runs.
NextRunning ==
  /\ turn = NoRequest /\ stage = "begin" /\ cursor <= Len(running)
  /\ turn' = running[cursor]
  /\ IF Skipped(turn') = {} THEN UNCHANGED vars ELSE FreeBlocks(turn', Skipped(turn'))
  /\ stage' = "allocate"
  /\ UNCHANGED <<waiting, running, computed, cursor, hits, preempted, lastMarked>>

Allocate ==
  /\ stage = "allocate"
  /\ NewBlocks(computed[turn]) <= Cardinality(freeQueue)
  /\ IF NewBlocks(computed[turn]) = 0 THEN UNCHANGED vars
     ELSE \E bs \in Poppable(NewBlocks(computed[turn])) : GetNewBlocks(turn, bs)
  /\ stage' = "compute"
  /\ UNCHANGED <<waiting, running, computed, cursor, turn, hits, preempted, lastMarked>>

\* The pool is dry: the latest request goes back to the head of the queue,
\* perhaps the very one that asked.
Preempt ==
  /\ stage = "allocate"
  /\ NewBlocks(computed[turn]) > Cardinality(freeQueue)
  /\ FreeBlocks(Last(running), Held(Last(running)))
  /\ running' = Front(running)
  /\ waiting' = <<Last(running)>> \o waiting
  /\ computed' = [computed EXCEPT ![Last(running)] = 0]
  /\ preempted' = TRUE
  /\ IF Last(running) = turn
     THEN turn' = NoRequest /\ stage' = "begin"
     ELSE UNCHANGED <<turn, stage>>
  /\ UNCHANGED <<cursor, hits, lastMarked>>

\* The request at the head of the queue is admitted if the free blocks suffice
\* for what it needs now.  Idle blocks of its hit count as if they were in the
\* free queue, pinned ones too.
Fits(r) ==
  LET taken == HitBlocks(r)
  IN  NewBlocksOnAdmission(HitLength(r)) + Cardinality({b \in taken : Idle(b)})
        <= Cardinality(freeQueue)

MayAdmit ==
  /\ turn = NoRequest /\ stage = "begin" /\ cursor > Len(running)
  /\ ~preempted
  /\ waiting # << >>
  /\ Len(running) < MaxRunning
  /\ Fits(Head(waiting))

Admit ==
  /\ MayAdmit
  /\ turn' = Head(waiting)
  /\ waiting' = Tail(waiting)
  /\ running' = Append(running, Head(waiting))
  /\ computed' = [computed EXCEPT ![Head(waiting)] = HitLength(Head(waiting))]
  /\ hits' = HitBlocks(Head(waiting))
  /\ stage' = "touch"
  /\ UNCHANGED <<vars, cursor, preempted, lastMarked>>

TakeHit ==
  /\ stage = "touch" /\ hits # {}
  /\ LET b == CHOOSE b \in hits : TRUE
     IN  Touch(turn, b) /\ hits' = hits \ {b}
  /\ UNCHANGED <<waiting, running, computed, cursor, turn, stage, preempted, lastMarked>>

AllocateAdmitted ==
  /\ stage = "touch" /\ hits = {}
  /\ \E bs \in Poppable(NewBlocksOnAdmission(computed[turn])) : GetNewBlocks(turn, bs)
  /\ stage' = "compute"
  /\ UNCHANGED <<waiting, running, computed, cursor, turn, hits, preempted, lastMarked>>

\* Hashes of the blocks the next token of r fills.
Filled(r) ==
  {HashAt(r, g, computed[r] + 1) :
     g \in {g \in Caching : (computed[r] + 1) % Groups[g].size = 0}}

Uncached(r) == {h \in Filled(r) : \A b \in Held(r) : blockHash[b] # h}

\* cache_blocks: the blocks filled get their hashes, one after another.
CacheBlock ==
  /\ stage = "compute" /\ Uncached(turn) # {}
  /\ \E b \in Held(turn) :
       /\ \A c \in Held(turn) : blockHash[c] = NoHash => b <= c
       /\ CacheFullBlock(turn, b, CHOOSE h \in Uncached(turn) : TRUE)
  /\ UNCHANGED schedVars

Computed ==
  /\ stage = "compute" /\ Uncached(turn) = {}
  /\ computed' = [computed EXCEPT ![turn] = @ + 1]
  /\ turn' = NoRequest /\ stage' = "begin"
  /\ cursor' = cursor + 1
  /\ UNCHANGED <<vars, waiting, running, hits, preempted, lastMarked>>

\* Everyone has been scheduled: finished requests leave, the next step begins.
\* With nobody to schedule a step does nothing.
FinishedRunning == {i \in DOMAIN running : computed[running[i]] = Len(Prompt[running[i]])}

Finish ==
  /\ turn = NoRequest /\ stage = "begin" /\ cursor > Len(running) /\ ~MayAdmit
  /\ FinishedRunning # {}
  /\ LET i == Min(FinishedRunning)
     IN  /\ FreeBlocks(running[i], Held(running[i]))
         /\ running' = RemoveAt(running, i)
         /\ computed' = [computed EXCEPT ![running[i]] = 0]
  /\ preempted' = TRUE  \* this step admits nobody any more
  /\ UNCHANGED <<waiting, cursor, turn, stage, hits, lastMarked>>

NextStep ==
  /\ turn = NoRequest /\ stage = "begin" /\ cursor > Len(running) /\ ~MayAdmit
  /\ FinishedRunning = {}
  /\ cursor' = 1
  /\ preempted' = FALSE
  /\ UNCHANGED <<vars, waiting, running, computed, turn, stage, hits, lastMarked>>

Engine ==
  \/ NextRunning \/ Allocate \/ Preempt
  \/ Admit \/ TakeHit \/ AllocateAdmitted
  \/ CacheBlock \/ Computed \/ Finish \/ NextStep

SchedInit ==
  /\ Init
  /\ waiting = << >> /\ running = << >>
  /\ computed = [r \in Requests |-> 0]
  /\ cursor = 1
  /\ turn = NoRequest /\ stage = "begin"
  /\ hits = {}
  /\ preempted = FALSE
  /\ lastMarked = NoRequest

SchedNext == Engine \/ \E r \in Requests : AddRequest(r)

\* The engine core loops for ever; requests may stop coming.
SchedSpec == SchedInit /\ [][SchedNext]_allVars /\ WF_allVars(Engine)

----------------------------------------------------------------------------

Queued == ToSet(waiting) \union ToSet(running)

\* All the blocks of a prompt that can be cached.
PromptHashes == [r \in Requests |-> HashesOf(r, FullBlocks(Caching, Len(Prompt[r])))]

\* The pool's hashes are those of the prompts' blocks, and it may be armed with
\* those of any marked prompt.
ASSUME PromptsAssumption ==
  /\ \A r \in Requests : PromptHashes[r] \subseteq Hashes
  /\ \A r \in Marked : PromptHashes[r] \in MarkedPrompts

\* The longest prefix of a prompt that could be served from the cache.
LongestHit ==
  [r \in Requests |-> Max({0} \union {n \in 1 .. Len(Prompt[r]) - 1 :
                    \A g \in Caching : n % Groups[g].size = 0})]

\* Once the latest marked request is through, all that a repetition of its prompt
\* can be served from is cached and cannot be evicted, in every group, if the prompt
\* fits the cap: the marker was found inside its merged neighbours, and the hashes
\* armed are those the blocks are cached under.
MarkedPromptIsPinned ==
  \A r \in Marked :
    lastMarked = r /\ r \notin Queued
      /\ Cardinality(PromptHashes[r]) <= CapFor(FracNum, FracDen)
    => \A h \in HitHashes[r][LongestHit[r]] :
         h \in Reserved \/ \E b \in Blocks : blockHash[b] = h /\ ~Idle(b)

\* Whatever the pin holds back, requests keep finishing while any are queued, as
\* long as none needs more than the pool without the cap: pinned blocks are not
\* counted free, and those of a hit are counted as if they were still to be found
\* there.  The queue is served in order, so nobody is left behind for ever.
RequestsKeepFinishing ==
  (\A r \in Requests : Need(r) <= Cardinality(Blocks) - CapFor(FracNum, FracDen))
  => ((Queued # {}) ~> (FinishedRunning # {}))

=============================================================================
