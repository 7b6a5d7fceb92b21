----------------------------- MODULE PlePrefetch -----------------------------
(***************************************************************************)
(* The prefetch pipeline of the n-gram (PLE) table: PrefetchingMmapTable   *)
(* in src/vllm_ple_mmap.py with the hook that feeds it and the lookup that *)
(* consumes it.  Three actors run side by side:                            *)
(*   - the main thread, which hashes ids at batch assembly (prefetch) and  *)
(*     looks rows up in the middle of the forward pass (consume, or the    *)
(*     synchronous gather through a persistent pinned buffer);             *)
(*   - the worker thread, which gathers the rows of one job after another; *)
(*   - the device, which executes copies in stream order, later than the   *)
(*     main thread issues them.                                            *)
(* They share two slots of pinned memory for ids and rows, and the threads *)
(* that read the rows of a large batch.  Both gathers read from one disk,  *)
(* which may not deliver some rows for a while, or ever.                   *)
(*                                                                         *)
(* A batch of ids stands for its rows: a buffer that holds the rows of     *)
(* batch v holds v, and Torn while they are being written.  Timeouts of    *)
(* five seconds may fire whenever what they wait for has not happened.     *)
(***************************************************************************)
EXTENDS Integers, Sequences, FiniteSets, Functions

CONSTANTS
  Ids,        \* batches of row ids a step may look up
  Size,       \* the number of ids of a batch
  SlotRows,   \* _SLOT: the largest batch a slot holds
  ItemSizes,  \* bytes per element a table may have: consume serves 8-bit tables only
  LookupPooled,  \* batches the synchronous gather reads with the pool's threads
  WorkerPooled,  \* and the worker's: it gathers the ids as they are, not each once
  MayStall,   \* batches with rows the disk may fail to deliver
  JobIds,     \* identities of job dictionaries; enough for those alive at once
  NoIds,      \* contents of a buffer never written
  Torn,       \* contents of a buffer in the middle of a write
  None        \* no job, no batch

ASSUME IdsAssumption == Ids # {} /\ NoIds \notin Ids /\ Torn \notin Ids /\ None \notin Ids
ASSUME SizeAssumption == Size \in [Ids -> Nat] /\ SlotRows \in Nat \ {0} /\ ItemSizes \subseteq {1, 2}
ASSUME JobsAssumption == None \notin JobIds
ASSUME PoolAssumption == LookupPooled \subseteq WorkerPooled /\ WorkerPooled \subseteq Ids
ASSUME StallAssumption == MayStall \subseteq Ids

VARIABLES
  \* pinned memory
  idsBuf,     \* ids_t, per slot
  rowsBuf,    \* rows_t, per slot, and _pinned of the synchronous path
  \* PrefetchingMmapTable
  job,        \* the job dictionaries
  jobs,       \* _jobs: the last job put into each slot
  pending,    \* _pending: the job the next lookup may consume
  slot,       \* _slot: the slot the next prefetch takes
  itemSize,   \* bytes per element of this table
  queue,      \* _q
  \* threads and device
  main,       \* where the main thread is, and the batch of its step
  worker,     \* where the worker is, its job and the ids it has read
  stream,     \* copies issued and not executed yet
  output      \* the last lookup whose rows reached the device

memory == <<idsBuf, rowsBuf>>
prefetcher == <<job, jobs, pending, slot, queue, itemSize>>
vars == <<memory, prefetcher, main, worker, stream, output>>

Slots == {0, 1}
Pinned == 2    \* _pinned, the staging buffer of the synchronous path

\* The jobs still referred to once a new one is put into slot s; the dictionary
\* of any other is garbage.
Survivors(s) ==
  ({worker.job, jobs[1 - s]}
   \cup Range(queue)
   \cup {c.job : c \in {d \in Range(stream) : d.op = "ids"}}) \ {None}

Init ==
  /\ idsBuf = [s \in Slots |-> NoIds]
  /\ rowsBuf = [s \in Slots \cup {Pinned} |-> NoIds]
  /\ job = << >>
  /\ jobs = [s \in Slots |-> None]
  /\ pending = None
  /\ slot = 0
  /\ itemSize \in ItemSizes
  /\ queue = << >>
  /\ main = [at |-> "idle", ids |-> None, hashed |-> None, job |-> None]
  /\ worker = [at |-> "get", job |-> None, ids |-> NoIds]
  /\ stream = << >>
  /\ output = [want |-> NoIds, got |-> NoIds]

-------------------------------------------------------------------------------
(* The main thread: batch assembly. *)

\* The slot prefetch moves on to, before it knows whether it can use this one.
NextSlot(s) == 1 - s

\* Whether prefetch takes the batch at all.
Fits(h) == Size[h] # 0 /\ Size[h] <= SlotRows

\* The hook hashes the batch as it is before padding: what it sees is the batch
\* of the lookup, or one of another size.
Hashed(v) == {h \in Ids : h = v \/ Size[h] # Size[v]}

\* prepare_inputs hashes the step's ids and prefetch starts on the next slot.
Hook(v, h) ==
  /\ main.at = "idle"
  /\ IF Fits(h)
     THEN /\ main' = [main EXCEPT !.at = "slot", !.ids = v, !.hashed = h]
          /\ slot' = NextSlot(slot)
     ELSE /\ main' = [main EXCEPT !.at = "forward", !.ids = v]
          /\ UNCHANGED slot
  /\ UNCHANGED <<memory, job, jobs, pending, queue, worker, stream, output, itemSize>>

\* No hook ran: a dummy run, or an error in the hash.
NoHook(v) ==
  /\ main.at = "idle"
  /\ main' = [main EXCEPT !.at = "forward", !.ids = v]
  /\ UNCHANGED <<memory, prefetcher, worker, stream, output>>

\* The slot prefetch took before it moved on.
TakenSlot == 1 - slot

\* The slot's former job, if any, is done.
SlotFree_Unchecked(s) == TRUE
SlotFree(s) == jobs[s] # None => job[jobs[s]].done

\* prefetch issues the copy of the ids and queues the job.
Prefetch ==
  /\ main.at = "slot"
  /\ SlotFree(TakenSlot)
  /\ JobIds \ Survivors(TakenSlot) # {}
  /\ LET kept == Survivors(TakenSlot)
         j == CHOOSE j \in JobIds : j \notin kept
         new == [slot |-> TakenSlot, ids |-> main.hashed,
                 copied |-> FALSE, ok |-> FALSE, done |-> FALSE]
     IN /\ job' = [i \in kept \cup {j} |-> IF i = j THEN new ELSE job[i]]
        /\ jobs' = [jobs EXCEPT ![TakenSlot] = j]
        /\ pending' = j
        /\ queue' = Append(queue, j)
        /\ stream' = Append(stream, [op |-> "ids", job |-> j])
  /\ main' = [main EXCEPT !.at = "forward"]
  /\ UNCHANGED <<memory, slot, worker, output, itemSize>>

\* The slot's job is not done after five seconds: no prefetch for this step.
SkipStuckSlot ==
  /\ main.at = "slot"
  /\ ~SlotFree(TakenSlot)
  /\ main' = [main EXCEPT !.at = "forward"]
  /\ UNCHANGED <<memory, prefetcher, worker, stream, output>>

-------------------------------------------------------------------------------
(* The main thread: the lookup in the forward pass. *)

\* What consume leaves in _pending.
Taken_Kept(j) == j
Taken(j) == None

\* Whether the pending job is for as many rows as the lookup wants.
Usable_AnySize(j, v) == j # None
Usable(j, v) == j # None /\ Size[job[j].ids] = Size[v]

\* _lookup_impl calls consume for an 8-bit table; it takes the pending job, and
\* without a usable one the synchronous forward starts.
Consume ==
  /\ main.at = "forward"
  /\ itemSize = 1
  /\ main' = IF Usable(pending, main.ids)
             THEN [main EXCEPT !.at = "rows", !.job = pending]
             ELSE [main EXCEPT !.at = "sync"]
  /\ pending' = Taken(pending)
  /\ UNCHANGED <<memory, job, jobs, slot, queue, worker, stream, output, itemSize>>

\* A 16-bit table is always looked up synchronously; nobody takes the job.
NoConsume ==
  /\ main.at = "forward"
  /\ itemSize = 2
  /\ main' = [main EXCEPT !.at = "sync"]
  /\ UNCHANGED <<memory, prefetcher, worker, stream, output>>

\* The step's rows are on their way; the forward pass goes on.
Finished == [main EXCEPT !.at = "idle", !.ids = None, !.hashed = None, !.job = None]

\* The job is done and ok: its rows are copied from the slot without waiting.
Hit ==
  /\ main.at = "rows"
  /\ job[main.job].done /\ job[main.job].ok
  /\ stream' = Append(stream, [op |-> "rows", from |-> job[main.job].slot, want |-> main.ids])
  /\ main' = Finished
  /\ UNCHANGED <<memory, prefetcher, worker, output>>

\* When consume gives up on a job: it failed, or it is not done after five seconds.
GivesUp_OnlyFailed(j) == job[j].done /\ ~job[j].ok
GivesUp(j) == ~(job[j].done /\ job[j].ok)

Miss ==
  /\ main.at = "rows"
  /\ GivesUp(main.job)
  /\ main' = [main EXCEPT !.at = "sync", !.job = None]
  /\ UNCHANGED <<memory, prefetcher, worker, stream, output>>

\* The synchronous path copies the ids to the CPU first, and so waits for all
\* the device was given.
DeviceIdle_NotAwaited == TRUE
DeviceIdle == stream = << >>

SyncStart ==
  /\ main.at = "sync"
  /\ DeviceIdle
  /\ main' = [main EXCEPT !.at = "gather"]
  /\ UNCHANGED <<memory, prefetcher, worker, stream, output>>

\* forward gathers the rows from the same files as the worker and waits for them
\* without a timeout; it puts them into the persistent pinned buffer and copies
\* them to the device without waiting.
SyncGather ==
  /\ main.at = "gather"
  /\ rowsBuf' = [rowsBuf EXCEPT ![Pinned] = main.ids]
  /\ stream' = Append(stream, [op |-> "rows", from |-> Pinned, want |-> main.ids])
  /\ main' = Finished
  /\ UNCHANGED <<idsBuf, prefetcher, worker, output>>

-------------------------------------------------------------------------------
(* The worker thread. *)

WorkerGet ==
  /\ worker.at = "get"
  /\ queue # << >>
  /\ worker' = [worker EXCEPT !.at = "event", !.job = Head(queue)]
  /\ queue' = Tail(queue)
  /\ UNCHANGED <<memory, job, jobs, pending, slot, main, stream, output, itemSize>>

\* The event the worker waits for: the ids of its job are in the slot.
IdsCopied(j) == job[j].copied

\* ev.synchronize() returns and the gather starts to read the ids.
WorkerReadIds ==
  /\ worker.at = "event"
  /\ IdsCopied(worker.job)
  /\ worker' = [worker EXCEPT !.at = "gather", !.ids = idsBuf[job[worker.job].slot]]
  /\ UNCHANGED <<memory, prefetcher, main, stream, output>>

\* The gather has read the ids for the last time and has all rows; they go into
\* the slot.
WorkerWriteRows ==
  /\ worker.at = "gather"
  /\ LET s == job[worker.job].slot
     IN /\ worker' = [worker EXCEPT !.at = "write", !.ids = IF idsBuf[s] = @ THEN @ ELSE Torn]
        /\ rowsBuf' = [rowsBuf EXCEPT ![s] = Torn]
  /\ UNCHANGED <<idsBuf, prefetcher, main, stream, output>>

WorkerDone ==
  /\ worker.at = "write"
  /\ rowsBuf' = [rowsBuf EXCEPT ![job[worker.job].slot] = worker.ids]
  /\ job' = [job EXCEPT ![worker.job].ok = TRUE, ![worker.job].done = TRUE]
  /\ worker' = [at |-> "get", job |-> None, ids |-> NoIds]
  /\ UNCHANGED <<idsBuf, jobs, pending, slot, queue, main, stream, output, itemSize>>

\* Waiting for the event or gathering raises: the job is done and not ok.
WorkerError ==
  /\ worker.at \in {"event", "gather"}
  /\ job' = [job EXCEPT ![worker.job].done = TRUE]
  /\ worker' = [at |-> "get", job |-> None, ids |-> NoIds]
  /\ UNCHANGED <<memory, jobs, pending, slot, queue, main, stream, output, itemSize>>

-------------------------------------------------------------------------------
(* The device executes the oldest copy. *)

CopyIds ==
  /\ stream # << >>
  /\ LET c == Head(stream)
     IN /\ c.op = "ids"
        /\ idsBuf' = [idsBuf EXCEPT ![job[c.job].slot] = job[c.job].ids]
        /\ job' = [job EXCEPT ![c.job].copied = TRUE]
  /\ stream' = Tail(stream)
  /\ UNCHANGED <<rowsBuf, jobs, pending, slot, queue, main, worker, output, itemSize>>

\* The rows a copy reads from pinned memory.
Source(c) == rowsBuf[c.from]

CopyRows ==
  /\ stream # << >>
  /\ LET c == Head(stream)
     IN /\ c.op = "rows"
        /\ output' = [want |-> c.want, got |-> Source(c)]
  /\ stream' = Tail(stream)
  /\ UNCHANGED <<memory, prefetcher, main, worker>>

-------------------------------------------------------------------------------
(* The reads of the two gathers.  A read that hangs is a gather that has not   *)
(* come to its end: only fairness tells the two apart.                         *)

\* The worker is at reads that may hang and may hold all of the pool's threads.
PoolHeld == worker.at = "gather" /\ worker.ids \in WorkerPooled \cap MayStall

\* Nothing keeps the rows of the synchronous gather from being read.
Served == main.ids \notin MayStall /\ ~(main.ids \in LookupPooled /\ PoolHeld)

-------------------------------------------------------------------------------
Assemble == \E v \in Ids : NoHook(v) \/ \E h \in Hashed(v) : Hook(v, h)
Lookup == Prefetch \/ SkipStuckSlot \/ Consume \/ NoConsume \/ Hit \/ Miss \/ SyncStart
Worker == WorkerGet \/ WorkerReadIds \/ WorkerWriteRows \/ WorkerDone \/ WorkerError
Device == CopyIds \/ CopyRows

Next == Assemble \/ Lookup \/ SyncGather \/ Worker \/ Device

\* The main thread and the device keep going, and so does a gather of rows that can
\* be read.  The worker may stall for ever, and so may a gather on its disk.
Fairness == WF_vars(Lookup) /\ WF_vars(SyncGather /\ Served) /\ WF_vars(Device)

Spec == Init /\ [][Next]_vars /\ Fairness

-------------------------------------------------------------------------------
(* Properties. *)

\* Pinned memory under a copy that was issued and not executed still holds the
\* rows the copy was issued for: neither the worker nor a later lookup has
\* written over them.
CopiesIntact ==
  \A c \in Range(stream) : c.op = "rows" => Source(c) = c.want

\* A slot belongs to one unfinished job at a time, even after lookups that gave
\* up on theirs, so no queue of abandoned jobs builds up behind a slow disk.
Unfinished == {j \in DOMAIN job : ~job[j].done}
OneJobPerSlot ==
  \A i, j \in Unfinished : job[i].slot = job[j].slot => i = j

\* The job a lookup finds pending is the one of its own step, never a leftover
\* of a step that skipped its prefetch, had no hook or gave up waiting.
PendingIsThisSteps ==
  itemSize = 1 /\ pending # None =>
    /\ main.at = "forward"
    /\ job[pending].ids = main.hashed

\* The lookups whose rows are on their way to the device, in stream order.
RowsIssued(copies) == {i \in 1 .. Len(copies) : copies[i].op = "rows"}
OnTheWay(copies) ==
  LET issued == RowsIssued(copies)
      nth(n) == CHOOSE i \in issued : Cardinality({k \in issued : k <= i}) = n
  IN [n \in 1 .. Cardinality(issued) |-> copies[nth(n)].want]

\* And the one the main thread is about to look up.
AskedSoFar == OnTheWay(stream) \o IF main.at = "idle" THEN << >> ELSE <<main.ids>>

\* Every lookup gets exactly the rows it asked for, in order, whichever path
\* served it and however late the worker was with earlier jobs.
Lookups == INSTANCE RowLookup WITH asked <- AskedSoFar
ImplementsRowLookup == Lookups!Spec

\* No step waits for ever for the worker, even if that never comes back: both
\* waits of the main thread end after five seconds and it gathers the rows itself.
\* Only that gather may last for ever, which has no timeout: if the disk does not
\* deliver the batch's own rows, or if it does not deliver those the worker has all
\* threads of the pool read, for a batch too large to do without them.
EveryLookupReturns ==
  \/ main.at # "idle" ~> main.at = "idle"
  \/ <>[](main.at = "gather" /\ ~Served)
===============================================================================
