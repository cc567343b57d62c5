--------------------------- MODULE TestcaseCache ---------------------------
(***************************************************************************)
(* The cache of test cases that afl-fuzz keeps in memory:                  *)
(* queue_testcase_get, queue_testcase_store_mem, queue_testcase_retake and *)
(* queue_testcase_retake_mem (src/afl-fuzz-queue.c), as fuzz_one, the      *)
(* splicing stages, trim_case and save_if_interesting call them.           *)
(*                                                                         *)
(* q_testcase_cache is an array of references; a queue entry is cached     *)
(* when its testcase_buf is not NULL.  The prefix q_testcase_ of the       *)
(* field names is left out.  An entry of len 0 is not in the queue yet.    *)
(***************************************************************************)
EXTENDS Integers, FiniteSets, FiniteSetsExt

CONSTANTS
    Entries,        \* queue entries
    NoEntry,        \* NULL
    Lens,           \* lengths of test cases
    MaxSize,        \* q_testcase_max_cache_size
    MaxEntries,     \* q_testcase_max_cache_entries as configured
    Slack,          \* 1024: a realloc that saves less is not worth it
    U32             \* 2^32: the width of q->len

ASSUME CacheAssumption ==
    /\ NoEntry \notin Entries
    /\ Lens \subseteq Nat \ {0}
    /\ MaxSize \in Nat /\ Slack \in Nat
    /\ U32 \in Nat \ {0} /\ \A l \in Lens : l < U32
    /\ MaxEntries \in Nat \ {0}

VARIABLES
    len,                \* q->len, 0 for an entry that is not in the queue
    testcase_buf,       \* bytes allocated for the entry, 0 for NULL
    trim_done,          \* the entries that were trimmed
    queue_cur,          \* the entry fuzz_one works on
    cache,              \* q_testcase_cache
    alloc,              \* slots allocated for it
    cache_size, cache_count, max_cache_count, max_cache_entries, smallest_free,
    do_once,            \* max_cache_entries has been learned
    req, tid,           \* the entry queue_testcase_get loads, and its slot
    custom_trim         \* a custom mutator trims: fixed when afl-fuzz starts

entryVars == <<len, testcase_buf, trim_done, queue_cur>>
cacheVars == <<cache, alloc, cache_size, cache_count, max_cache_count,
               max_cache_entries, smallest_free, do_once>>
vars == <<entryVars, cacheVars, req, tid, custom_trim>>

\* The array never needs more: see InBounds.
Slots == 0 .. MaxEntries
Occupied == {t \in Slots : cache[t] # NoEntry}

Init ==
    /\ len = [e \in Entries |-> 0]
    /\ testcase_buf = [e \in Entries |-> 0]
    /\ trim_done = {}
    /\ queue_cur = NoEntry
    /\ cache = [t \in Slots |-> NoEntry]
    /\ alloc = MaxEntries
    /\ cache_size = 0 /\ cache_count = 0 /\ max_cache_count = 0
    /\ max_cache_entries = MaxEntries
    /\ smallest_free = 0
    /\ do_once = FALSE
    /\ req = NoEntry /\ tid = 0
    /\ custom_trim \in BOOLEAN

Idle == req = NoEntry

(***************************************************************************)
(* Where an entry goes.                                                    *)
(***************************************************************************)
\* "uh we were full, so now we have to search from start": the scan for a free
\* slot begins at t if there is such a slot, else at smallest_free.
ScanFrom(t) == IF t >= max_cache_entries THEN smallest_free ELSE t

\* slot is the first free one of the scan that begins at start.
IsNextFree(slot, start) ==
    /\ slot >= start /\ cache[slot] = NoEntry
    /\ \A t \in Slots : start <= t /\ t < slot => cache[t] # NoEntry

\* mutant: a slot that is used again adds nothing to cache_size
Register_ForgetsSize(e, l, slot) ==
    /\ testcase_buf' = [testcase_buf EXCEPT ![e] = l]
    /\ cache' = [cache EXCEPT ![slot] = e]
    /\ cache_size' = IF slot >= max_cache_count THEN cache_size + l ELSE cache_size
    /\ cache_count' = cache_count + 1
    /\ max_cache_count' = IF slot >= max_cache_count THEN slot + 1 ELSE max_cache_count
    /\ smallest_free' = IF slot < max_cache_count /\ slot = smallest_free
                        THEN slot + 1 ELSE smallest_free
    /\ UNCHANGED <<alloc, max_cache_entries, do_once>>

\* Register e, of length l, as cached in slot.
Register(e, l, slot) ==
    /\ testcase_buf' = [testcase_buf EXCEPT ![e] = l]
    /\ cache' = [cache EXCEPT ![slot] = e]
    /\ cache_size' = cache_size + l
    /\ cache_count' = cache_count + 1
    /\ max_cache_count' = IF slot >= max_cache_count THEN slot + 1 ELSE max_cache_count
    /\ smallest_free' = IF slot < max_cache_count /\ slot = smallest_free
                        THEN slot + 1 ELSE smallest_free
    /\ UNCHANGED <<alloc, max_cache_entries, do_once>>

(***************************************************************************)
(* Operations.                                                             *)
(***************************************************************************)
\* save_if_interesting adds an entry.  One that weighs too little, or that
\* there is no room for, is not cached.
AddUncached(e, l) ==
    /\ Idle /\ len[e] = 0
    /\ len' = [len EXCEPT ![e] = l]
    /\ UNCHANGED <<testcase_buf, trim_done, queue_cur, cacheVars, req, tid>>

\* queue_testcase_store_mem
StoreMem(e, l) ==
    /\ Idle /\ len[e] = 0
    /\ cache_size + l < MaxSize /\ cache_count < max_cache_entries - 1
    /\ len' = [len EXCEPT ![e] = l]
    /\ \E slot \in Slots :
          /\ IsNextFree(slot, ScanFrom(max_cache_count))
          /\ Register(e, l, slot)
    /\ UNCHANGED <<trim_done, queue_cur, req, tid>>

\* The main loop gives fuzz_one another entry.
Select(e) ==
    /\ Idle /\ len[e] > 0
    /\ queue_cur' = e
    /\ UNCHANGED <<len, testcase_buf, trim_done, cacheVars, req, tid>>

\* With AFL_OLD_SEED_SELECTION the walk through the queue ends.
EndOfQueue ==
    /\ Idle
    /\ queue_cur' = NoEntry
    /\ UNCHANGED <<len, testcase_buf, trim_done, cacheVars, req, tid>>

\* queue_testcase_get of an entry that is not cached and weighs enough:
\* queue_cur itself, one that is spliced into it, or one that
\* recalculate_all_scores runs, which also happens without a queue_cur.
Get(e) ==
    /\ Idle /\ len[e] > 0 /\ testcase_buf[e] = 0
    /\ req' = e /\ tid' = max_cache_count
    /\ UNCHANGED <<entryVars, cacheVars>>

Full == cache_size + len[req] >= MaxSize

\* mutant: the only cached entry may be evicted as well
MustEvict_EvenLast == \/ Full /\ cache_count > 0
                      \/ cache_count >= max_cache_entries - 1

MustEvict == \/ Full /\ cache_count > 1
             \/ cache_count >= max_cache_entries - 1

\* The first time the cache is full by size, the number of entries becomes
\* the limit.
Learns == /\ Full /\ ~do_once
          /\ cache_count < max_cache_entries /\ max_cache_count < max_cache_entries

Learned == 1 + IF max_cache_count > cache_count THEN max_cache_count ELSE cache_count

\* "Get a random one which is not in use"
IsVictim(t) == t < max_cache_count /\ cache[t] \notin {NoEntry, queue_cur}

\* mutant: smallest_free is not lowered to the slot that becomes free
Evict_KeepsSmallest(t) ==
    /\ ~Idle /\ MustEvict /\ IsVictim(t)
    /\ max_cache_entries' = IF Learns THEN Learned ELSE max_cache_entries
    /\ alloc' = IF Learns THEN Learned + 1 ELSE alloc
    /\ do_once' = (do_once \/ Learns)
    /\ testcase_buf' = [testcase_buf EXCEPT ![cache[t]] = 0]
    /\ cache_size' = cache_size - len[cache[t]]
    /\ cache' = [cache EXCEPT ![t] = NoEntry]
    /\ cache_count' = cache_count - 1
    /\ tid' = t
    /\ UNCHANGED <<len, trim_done, queue_cur, max_cache_count,
                   smallest_free, req>>

\* mutant: testcase_buf is freed and not set to NULL
Evict_Dangling(t) ==
    /\ ~Idle /\ MustEvict /\ IsVictim(t)
    /\ max_cache_entries' = IF Learns THEN Learned ELSE max_cache_entries
    /\ alloc' = IF Learns THEN Learned + 1 ELSE alloc
    /\ do_once' = (do_once \/ Learns)
    /\ cache_size' = cache_size - len[cache[t]]
    /\ cache' = [cache EXCEPT ![t] = NoEntry]
    /\ cache_count' = cache_count - 1
    /\ smallest_free' = IF t < smallest_free THEN t ELSE smallest_free
    /\ tid' = t
    /\ UNCHANGED <<len, testcase_buf, trim_done, queue_cur, max_cache_count,
                   req>>

\* One round of the loop that makes room.
Evict(t) ==
    /\ ~Idle /\ MustEvict /\ IsVictim(t)
    /\ max_cache_entries' = IF Learns THEN Learned ELSE max_cache_entries
    /\ alloc' = IF Learns THEN Learned + 1 ELSE alloc
    /\ do_once' = (do_once \/ Learns)
    /\ testcase_buf' = [testcase_buf EXCEPT ![cache[t]] = 0]
    /\ cache_size' = cache_size - len[cache[t]]
    /\ cache' = [cache EXCEPT ![t] = NoEntry]
    /\ cache_count' = cache_count - 1
    /\ smallest_free' = IF t < smallest_free THEN t ELSE smallest_free
    /\ tid' = t
    /\ UNCHANGED <<len, trim_done, queue_cur, max_cache_count, req>>

\* There is room: read the file into a free slot.
Load ==
    /\ ~Idle /\ ~MustEvict
    /\ \E slot \in Slots :
          /\ IsNextFree(slot, ScanFrom(tid))
          /\ Register(req, len[req], slot)
    /\ req' = NoEntry /\ tid' = 0
    /\ UNCHANGED <<len, trim_done, queue_cur>>

\* trim_case on queue_cur.  in_buf is testcase_buf, so the bytes are removed in
\* place and queue_testcase_retake_mem finds nothing to do.
Trim(l) ==
    /\ Idle /\ ~custom_trim
    /\ queue_cur \in Entries \ trim_done
    /\ l < len[queue_cur]
    /\ len' = [len EXCEPT ![queue_cur] = l]
    /\ trim_done' = trim_done \cup {queue_cur}
    /\ UNCHANGED <<testcase_buf, queue_cur, cacheVars, req, tid>>

\* mutant: only a smaller test case is given a new buffer
TrimCustom_OnlyShrinks(l) ==
    LET old     == len[queue_cur]
        realloc == testcase_buf[queue_cur] > 0 /\ l + Slack < old
    IN  /\ Idle /\ custom_trim
        /\ queue_cur \in Entries \ trim_done
        /\ len' = [len EXCEPT ![queue_cur] = l]
        /\ trim_done' = trim_done \cup {queue_cur}
        /\ cache_size' = IF realloc THEN cache_size + ((l - old) % U32) ELSE cache_size
        /\ testcase_buf' = [testcase_buf EXCEPT ![queue_cur] = IF realloc THEN l ELSE @]
        /\ UNCHANGED <<queue_cur, cache, alloc, cache_count, max_cache_count,
                       max_cache_entries, smallest_free, do_once, req, tid>>

\* queue_testcase_retake, after a custom mutator has trimmed queue_cur: the
\* entry may also have grown.  The difference of the lengths is a u32.
TrimCustom(l) ==
    LET old     == len[queue_cur]
        realloc == testcase_buf[queue_cur] > 0 /\ (l > old \/ l + Slack < old)
    IN  /\ Idle /\ custom_trim
        /\ queue_cur \in Entries \ trim_done
        /\ len' = [len EXCEPT ![queue_cur] = l]
        /\ trim_done' = trim_done \cup {queue_cur}
        /\ cache_size' = IF realloc THEN cache_size + ((l - old) % U32) ELSE cache_size
        /\ testcase_buf' = [testcase_buf EXCEPT ![queue_cur] = IF realloc THEN l ELSE @]
        /\ UNCHANGED <<queue_cur, cache, alloc, cache_count, max_cache_count,
                       max_cache_entries, smallest_free, do_once, req, tid>>

Next ==
    /\ \/ \E e \in Entries : \/ \E l \in Lens : AddUncached(e, l) \/ StoreMem(e, l)
                             \/ Select(e) \/ Get(e)
       \/ EndOfQueue
       \/ \E t \in Slots : Evict(t)
       \/ Load
       \/ \E l \in Lens : Trim(l) \/ TrimCustom(l)
    /\ UNCHANGED custom_trim

Spec == Init /\ [][Next]_vars

-----------------------------------------------------------------------------
(***************************************************************************)
(* Properties.                                                             *)
(***************************************************************************)
\* Every variable has its type.
TypeOK ==
    /\ len \in [Entries -> Lens \cup {0}]
    /\ testcase_buf \in [Entries -> Lens \cup {0}]
    /\ trim_done \subseteq Entries
    /\ queue_cur \in Entries \cup {NoEntry}
    /\ cache \in [Slots -> Entries \cup {NoEntry}]
    /\ alloc \in 1 .. MaxEntries + 1
    /\ cache_size \in Int
    /\ cache_count \in Nat
    /\ max_cache_count \in 0 .. max_cache_entries
    /\ max_cache_entries \in 1 .. alloc /\ max_cache_entries <= MaxEntries
    /\ smallest_free \in 0 .. MaxEntries
    /\ do_once \in BOOLEAN
    /\ req \in Entries \cup {NoEntry}
    /\ tid \in 0 .. MaxEntries

\* The array and the entries agree: a slot refers to an entry that has a
\* buffer, an entry has at most one slot and none without a buffer, and
\* cache_count, "how many queue entries currently have cached testcases", is
\* right.  Otherwise eviction would free a buffer twice or leak one.
SlotsAgree ==
    /\ \A t \in Occupied : testcase_buf[cache[t]] > 0
    /\ \A s, t \in Occupied : cache[s] = cache[t] => s = t
    /\ \A e \in Entries : testcase_buf[e] > 0 => \E t \in Occupied : cache[t] = e
    /\ cache_count = Cardinality(Occupied)

\* The scan for a free slot ends inside the array, although the loop itself
\* has no bound: smallest_free never skips a free slot.
InBounds ==
    /\ ~Idle /\ ~MustEvict =>
          \E t \in Slots : t < alloc /\ t >= ScanFrom(tid) /\ cache[t] = NoEntry
    /\ cache_count < max_cache_entries - 1 =>
          \E t \in Slots :
             t < alloc /\ t >= ScanFrom(max_cache_count) /\ cache[t] = NoEntry

\* When something has to be evicted, there is something that may be: the loop
\* that draws random slots until one is not in use comes to an end.
VictimExists == ~Idle /\ MustEvict => \E t \in Slots : IsVictim(t)

\* An entry's buffer is large enough for the entry, after trimming too.
BufferHolds == \A e \in Entries : testcase_buf[e] > 0 => testcase_buf[e] >= len[e]

(***************************************************************************)
(* What makes InBounds and VictimExists inductive.                         *)
(***************************************************************************)
\* No slot below smallest_free is free.
FreeBelow == \A t \in Slots : t < smallest_free => cache[t] # NoEntry

\* No slot at or above max_cache_count was ever used.
HighWater == \A t \in Slots : t >= max_cache_count => cache[t] = NoEntry

\* The slot that queue_testcase_get has in mind is a fresh one or the last one
\* it evicted.
TidIsFree ==
    ~Idle => \/ tid = max_cache_count
             \/ tid < max_cache_count /\ cache[tid] = NoEntry

\* An entry that is about to be loaded, or is not in the queue, has no buffer.
NotYetCached ==
    /\ ~Idle => len[req] > 0 /\ testcase_buf[req] = 0
    /\ \A e \in Entries : len[e] = 0 => testcase_buf[e] = 0

\* Learning the limit never makes it too small to evict from.
RoomForTwo == MaxEntries >= 3 => max_cache_entries >= 3

IInv ==
    /\ TypeOK
    /\ SlotsAgree
    /\ FreeBelow
    /\ HighWater
    /\ TidIsFree
    /\ NotYetCached
    /\ RoomForTwo
    /\ BufferHolds

CachedLen(f) ==
    MapThenSumSet(LAMBDA e : f[e], {e \in Entries : testcase_buf[e] > 0})

\* cache_size is never less than what evicting everything subtracts: it does
\* not wrap below zero.
NoUnderflow == cache_size >= CachedLen(len)

\* cache_size is "how much of the testcase cache is used so far": it stays in
\* the range of what test cases can need (a few bytes in the instance, far
\* below the 2^32 that one wrapped difference of two lengths adds).
SizeIsPlausible == cache_size < U32
=============================================================================
