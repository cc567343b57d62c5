------------------------ MODULE TestcaseCacheProofs ------------------------
(***************************************************************************)
(* Proofs about TestcaseCache for every number of entries and slots.       *)
(*                                                                         *)
(* The scan for a free slot has no bound in the code.  It stays inside the *)
(* array because no free slot is below smallest_free (FreeBelow) and no    *)
(* used one at or above max_cache_count (HighWater), and because the loop  *)
(* that makes room leaves fewer entries than slots: a pigeonhole argument, *)
(* FreeSlotExists.                                                         *)
(***************************************************************************)
EXTENDS TestcaseCache, Loops, FiniteSetTheorems, TLAPS

\* Lengths, 0 included, are natural numbers.
LEMMA LensAreNat == Lens \cup {0} \subseteq Nat
BY CacheAssumption

\* The set of occupied slots is finite, so that it can be counted.
LEMMA OccupiedFinite == IsFiniteSet(Occupied) /\ Cardinality(Occupied) \in Nat
<1>1. IsFiniteSet(Slots)
  BY FS_Interval, CacheAssumption DEF Slots
<1>2. Occupied \in SUBSET Slots
  BY DEF Occupied
<1>3. IsFiniteSet(Occupied)
  BY <1>1, <1>2, FS_Subset
<1> QED BY <1>3, FS_CardinalityType

\* As long as there are fewer cached entries than slots, the scan that begins
\* at smallest_free finds a free slot below max_cache_entries.
LEMMA FreeSlotExists ==
    ASSUME IInv, cache_count < max_cache_entries - 1
    PROVE  \E t \in Slots : /\ smallest_free <= t /\ t < max_cache_entries
                            /\ cache[t] = NoEntry
<1> DEFINE Below == 0 .. max_cache_entries - 1
<1>1. /\ max_cache_entries \in Nat /\ max_cache_entries >= 1
      /\ max_cache_entries <= MaxEntries
      /\ smallest_free \in Nat /\ cache_count \in Nat
  BY CacheAssumption DEF IInv, TypeOK
<1>2. Below \subseteq Slots
  BY <1>1, CacheAssumption DEF Slots
<1>3. SUFFICES ASSUME \A t \in Slots : smallest_free <= t /\ t < max_cache_entries
                                      => cache[t] # NoEntry
               PROVE  FALSE
  OBVIOUS
<1>4. ASSUME NEW t \in Below PROVE t \in Occupied
  <2>1. t \in Slots /\ t \in Nat /\ t < max_cache_entries
    BY <1>1, <1>2
  <2>2. CASE t < smallest_free
    BY <2>1, <2>2 DEF IInv, FreeBelow, Occupied
  <2>3. CASE smallest_free <= t
    BY <2>1, <2>3, <1>3 DEF Occupied
  <2> QED BY <2>1, <2>2, <2>3, <1>1
<1>5. Below \in SUBSET Occupied
  BY <1>4
<1>6. Cardinality(Below) <= Cardinality(Occupied)
  BY <1>5, OccupiedFinite, FS_Subset
<1>7. Cardinality(Below) = max_cache_entries
  <2>1. max_cache_entries - 1 \in Int /\ 0 \in Int
    BY <1>1
  <2>2. Cardinality(Below) = IF 0 > max_cache_entries - 1 THEN 0
                             ELSE (max_cache_entries - 1) - 0 + 1
    BY <2>1, FS_Interval
  <2> QED BY <2>2, <1>1
<1>8. cache_count = Cardinality(Occupied)
  BY DEF IInv, SlotsAgree
<1> QED BY <1>1, <1>6, <1>7, <1>8

\* Where the scan of queue_testcase_get or queue_testcase_store_mem ends: at
\* a slot below the limit.
LEMMA ScanEndsBelowLimit ==
    ASSUME IInv, cache_count < max_cache_entries - 1,
           NEW from \in Slots,
           \/ from = max_cache_count
           \/ from < max_cache_count /\ cache[from] = NoEntry,
           NEW slot \in Slots, IsNextFree(slot, ScanFrom(from))
    PROVE  slot < max_cache_entries
<1>1. /\ max_cache_entries \in Nat /\ max_cache_count \in Nat
      /\ max_cache_count <= max_cache_entries
      /\ smallest_free \in Nat /\ slot \in Nat /\ from \in Nat
  BY CacheAssumption DEF IInv, TypeOK, Slots
<1>2. CASE from >= max_cache_entries
  <2>1. PICK t \in Slots : /\ smallest_free <= t /\ t < max_cache_entries
                           /\ cache[t] = NoEntry
    BY FreeSlotExists
  <2>2. ScanFrom(from) = smallest_free
    BY <1>2 DEF ScanFrom
  <2>3. t \in Nat
    BY <2>1, CacheAssumption DEF Slots
  <2>4. ~ (t < slot)
    BY <2>1, <2>2 DEF IsNextFree
  <2> QED BY <2>1, <2>3, <2>4, <1>1
<1>3. CASE from < max_cache_entries
  <2>1. ScanFrom(from) = from
    BY <1>3, <1>1 DEF ScanFrom
  <2>2. cache[from] = NoEntry
    BY <1>1 DEF IInv, HighWater
  <2>3. ~ (from < slot)
    BY <2>1, <2>2, <1>1 DEF IsNextFree
  <2> QED BY <2>3, <1>1, <1>3
<1> QED BY <1>1, <1>2, <1>3

\* Registering an entry that has no buffer in a free slot below the limit
\* keeps the array, the counters and the entries in agreement.
LEMMA RegisterKeeps ==
    ASSUME IInv, NEW e \in Entries, NEW l \in Lens, NEW slot \in Slots,
           testcase_buf[e] = 0, cache[slot] = NoEntry, slot < max_cache_entries,
           Register(e, l, slot)
    PROVE  /\ testcase_buf' \in [Entries -> Lens \cup {0}]
           /\ cache' \in [Slots -> Entries \cup {NoEntry}]
           /\ cache_size' \in Int /\ cache_count' \in Nat
           /\ max_cache_count' \in 0 .. max_cache_entries
           /\ smallest_free' \in 0 .. MaxEntries
           /\ SlotsAgree' /\ FreeBelow' /\ HighWater'
<1>0. /\ NoEntry \notin Entries /\ Lens \subseteq Nat \ {0} /\ MaxEntries \in Nat
  BY CacheAssumption
<1>1. /\ testcase_buf \in [Entries -> Lens \cup {0}]
      /\ cache \in [Slots -> Entries \cup {NoEntry}]
      /\ cache_size \in Int /\ cache_count \in Nat
      /\ max_cache_entries \in Nat /\ max_cache_entries <= MaxEntries
      /\ max_cache_count \in 0 .. max_cache_entries
      /\ smallest_free \in 0 .. MaxEntries
  BY <1>0 DEF IInv, TypeOK
<1>2. slot \in Nat /\ slot <= MaxEntries
  BY <1>0 DEF Slots
<1>3. /\ testcase_buf' = [testcase_buf EXCEPT ![e] = l]
      /\ cache' = [cache EXCEPT ![slot] = e]
  BY DEF Register
<1>4. /\ testcase_buf' \in [Entries -> Lens \cup {0}]
      /\ cache' \in [Slots -> Entries \cup {NoEntry}]
  BY <1>1, <1>3
<1>5. cache_size' \in Int /\ cache_count' \in Nat
  BY <1>0, <1>1 DEF Register
<1>6. /\ max_cache_count' \in 0 .. max_cache_entries
      /\ smallest_free' \in 0 .. MaxEntries
  BY <1>0, <1>1, <1>2 DEF Register
<1>7. Occupied' = Occupied \cup {slot}
  BY <1>0, <1>1, <1>3 DEF Occupied
<1>8. slot \notin Occupied
  BY DEF Occupied
<1>9. SlotsAgree'
  <2>1. \A t \in Occupied : cache[t] \in Entries /\ cache[t] # e /\ testcase_buf[cache[t]] > 0
    BY <1>0, <1>1 DEF IInv, SlotsAgree, Occupied
  <2>2. \A t \in Occupied : cache'[t] = cache[t] /\ testcase_buf'[cache[t]] = testcase_buf[cache[t]]
    BY <2>1, <1>1, <1>3, <1>8 DEF Occupied
  <2>3. cache'[slot] = e /\ testcase_buf'[e] = l /\ l > 0
    BY <1>0, <1>1, <1>3
  <2>4. \A t \in Occupied' : testcase_buf'[cache'[t]] > 0
    BY <2>1, <2>2, <2>3, <1>7
  <2>5. \A s, t \in Occupied' : cache'[s] = cache'[t] => s = t
    BY <2>1, <2>2, <2>3, <1>7 DEF IInv, SlotsAgree
  <2>6. ASSUME NEW f \in Entries, testcase_buf'[f] > 0
        PROVE  \E t \in Occupied' : cache'[t] = f
    <3>1. CASE f = e
      BY <3>1, <2>3, <1>7
    <3>2. CASE f # e
      <4>1. testcase_buf[f] > 0
        BY <2>6, <3>2, <1>1, <1>3
      <4>2. PICK t \in Occupied : cache[t] = f
        BY <4>1 DEF IInv, SlotsAgree
      <4> QED BY <4>2, <2>2, <1>7
    <3> QED BY <3>1, <3>2
  <2>7. cache_count' = Cardinality(Occupied')
    <3>1. Cardinality(Occupied') = Cardinality(Occupied) + 1
      BY <1>7, <1>8, OccupiedFinite, FS_AddElement
    <3>2. cache_count = Cardinality(Occupied)
      BY DEF IInv, SlotsAgree
    <3> QED BY <3>1, <3>2 DEF Register
  <2> QED BY <2>4, <2>5, <2>6, <2>7 DEF SlotsAgree
<1>10. FreeBelow'
  <2>1. ASSUME NEW t \in Slots, t < smallest_free' PROVE cache'[t] # NoEntry
    <3>1. t \in Nat
      BY <1>0 DEF Slots
    <3>2. CASE t = slot
      BY <3>2, <1>0, <1>1, <1>3
    <3>3. CASE t # slot
      <4>1. t < smallest_free
        BY <2>1, <3>1, <3>3, <1>1, <1>2 DEF Register
      <4>2. cache[t] # NoEntry
        BY <4>1 DEF IInv, FreeBelow
      <4> QED BY <4>2, <3>3, <1>1, <1>3
    <3> QED BY <3>2, <3>3
  <2> QED BY <2>1 DEF FreeBelow, Slots
<1>11. HighWater'
  <2>1. ASSUME NEW t \in Slots, t >= max_cache_count' PROVE cache'[t] = NoEntry
    <3>1. t \in Nat
      BY <1>0 DEF Slots
    <3>2. t >= max_cache_count /\ t # slot
      BY <2>1, <3>1, <1>1, <1>2 DEF Register
    <3>3. cache[t] = NoEntry
      BY <3>2 DEF IInv, HighWater
    <3> QED BY <3>2, <3>3, <1>1, <1>3
  <2> QED BY <2>1 DEF HighWater, Slots
<1> QED BY <1>4, <1>5, <1>6, <1>9, <1>10, <1>11

\* Evicting keeps the array, the counters and the entries in agreement.
LEMMA EvictKeeps ==
    ASSUME IInv, NEW t \in Slots, Evict(t)
    PROVE  IInv'
<1>0. /\ NoEntry \notin Entries /\ Lens \subseteq Nat \ {0} /\ MaxEntries \in Nat
      /\ t \in Nat /\ t <= MaxEntries
  BY CacheAssumption DEF Slots
<1>1. TypeOK
  BY DEF IInv
<1>2. /\ t < max_cache_count /\ cache[t] # NoEntry /\ cache[t] \in Entries
      /\ t \in Occupied
  BY <1>1 DEF Evict, IsVictim, TypeOK, Occupied
<1>3. /\ testcase_buf' = [testcase_buf EXCEPT ![cache[t]] = 0]
      /\ cache' = [cache EXCEPT ![t] = NoEntry]
      /\ UNCHANGED <<len, trim_done, queue_cur, max_cache_count, req>>
      /\ tid' = t
  BY DEF Evict
<1>4. Occupied' = Occupied \ {t}
  BY <1>1, <1>3 DEF Occupied, TypeOK
<1>5. cache_count = Cardinality(Occupied) /\ cache_count \in Nat
  BY DEF IInv, SlotsAgree, TypeOK
<1>6. cache_count' = cache_count - 1 /\ cache_count' = Cardinality(Occupied')
  <2>1. Cardinality(Occupied') = Cardinality(Occupied) - 1
    BY <1>2, <1>4, OccupiedFinite, FS_RemoveElement
  <2> QED BY <2>1, <1>5 DEF Evict
<1>7. cache_count' \in Nat
  <2>1. IsFiniteSet(Occupied')
    BY <1>4, OccupiedFinite, FS_RemoveElement
  <2> QED BY <2>1, <1>6, FS_CardinalityType
<1>8. /\ max_cache_entries' \in 1 .. alloc' /\ max_cache_entries' <= MaxEntries
      /\ alloc' \in 1 .. MaxEntries + 1
      /\ max_cache_count' \in 0 .. max_cache_entries'
  <2>1. CASE Learns
    <3>1. /\ max_cache_entries' = Learned /\ alloc' = Learned + 1
          /\ max_cache_count' = max_cache_count
      BY <2>1 DEF Evict
    <3>2. /\ max_cache_count < max_cache_entries /\ cache_count < max_cache_entries
      BY <2>1 DEF Learns
    <3>3. /\ Learned \in Nat /\ Learned <= max_cache_entries /\ Learned >= 1
          /\ max_cache_count <= Learned
      BY <3>2, <1>0, <1>1, <1>5 DEF Learned, TypeOK
    <3> QED BY <3>1, <3>3, <1>0, <1>1 DEF TypeOK
  <2>2. CASE ~Learns
    BY <2>2, <1>1 DEF Evict, TypeOK
  <2> QED BY <2>1, <2>2
<1>9. TypeOK'
  <2>1. cache_size' \in Int
    <3>1. len[cache[t]] \in Lens \cup {0}
      BY <1>1, <1>2 DEF TypeOK
    <3>2. len[cache[t]] \in Nat
      BY <3>1, LensAreNat
    <3> QED BY <3>2, <1>1 DEF Evict, TypeOK
  <2>2. smallest_free' \in 0 .. MaxEntries
    BY <1>0, <1>1 DEF Evict, TypeOK
  <2>3. do_once' \in BOOLEAN
    BY Zenon, <1>1 DEF Evict, TypeOK, Learns
  <2>4. testcase_buf' \in [Entries -> Lens \cup {0}]
    BY <1>1, <1>3 DEF TypeOK
  <2>5. cache' \in [Slots -> Entries \cup {NoEntry}]
    BY <1>1, <1>3 DEF TypeOK
  <2>6. /\ len' \in [Entries -> Lens \cup {0}] /\ trim_done' \subseteq Entries
        /\ queue_cur' \in Entries \cup {NoEntry} /\ req' \in Entries \cup {NoEntry}
        /\ tid' \in 0 .. MaxEntries
    BY <1>0, <1>1, <1>3 DEF TypeOK
  <2> QED BY <2>1, <2>2, <2>3, <2>4, <2>5, <2>6, <1>7, <1>8 DEF TypeOK, Slots
<1>10. SlotsAgree'
  <2>1. \A s \in Occupied : s # t => /\ cache'[s] = cache[s] /\ cache[s] # cache[t]
                                    /\ testcase_buf'[cache[s]] = testcase_buf[cache[s]]
    BY <1>1, <1>2, <1>3 DEF IInv, SlotsAgree, Occupied, TypeOK
  <2>2. \A s \in Occupied' : testcase_buf'[cache'[s]] > 0
    BY <2>1, <1>4 DEF IInv, SlotsAgree
  <2>3. \A s, u \in Occupied' : cache'[s] = cache'[u] => s = u
    BY <2>1, <1>4 DEF IInv, SlotsAgree
  <2>4. ASSUME NEW f \in Entries, testcase_buf'[f] > 0
        PROVE  \E s \in Occupied' : cache'[s] = f
    <3>1. f # cache[t] /\ testcase_buf[f] > 0
      BY <2>4, <1>1, <1>3 DEF TypeOK
    <3>2. PICK s \in Occupied : cache[s] = f
      BY <3>1 DEF IInv, SlotsAgree
    <3> QED BY <3>1, <3>2, <2>1, <1>4
  <2> QED BY <2>2, <2>3, <2>4, <1>6 DEF SlotsAgree
<1>11. FreeBelow'
  <2>1. ASSUME NEW s \in Slots, s < smallest_free' PROVE cache'[s] # NoEntry
    <3>1. s \in Nat
      BY <1>0 DEF Slots
    <3>2. s < smallest_free /\ s # t
      BY <2>1, <3>1, <1>0, <1>1 DEF Evict, TypeOK
    <3>3. cache[s] # NoEntry
      BY <3>2 DEF IInv, FreeBelow
    <3> QED BY <3>2, <3>3, <1>1, <1>3 DEF TypeOK
  <2> QED BY <2>1 DEF FreeBelow, Slots
<1>12. HighWater'
  BY <1>1, <1>3 DEF IInv, HighWater, TypeOK, Slots
<1>13. TidIsFree'
  BY <1>1, <1>2, <1>3 DEF TidIsFree, TypeOK
<1>14. NotYetCached'
  BY <1>1, <1>2, <1>3 DEF IInv, NotYetCached, Idle, TypeOK
<1>15. RoomForTwo'
  <2>1. SUFFICES ASSUME MaxEntries >= 3 PROVE max_cache_entries' >= 3
    BY DEF RoomForTwo
  <2>2. max_cache_entries >= 3 /\ max_cache_entries \in Nat /\ max_cache_count \in Nat
    BY <2>1, <1>1 DEF IInv, RoomForTwo, TypeOK
  <2>3. cache_count >= 2
    BY <2>2, <1>5 DEF Evict, MustEvict
  <2>4. Learned >= 3
    BY <2>2, <2>3, <1>5 DEF Learned
  <2> QED BY <2>2, <2>4 DEF Evict
<1>16. BufferHolds'
  BY <1>1, <1>2, <1>3 DEF IInv, BufferHolds, TypeOK
<1> QED BY <1>9, <1>10, <1>11, <1>12, <1>13, <1>14, <1>15, <1>16 DEF IInv

\* Loading the requested entry, once there is room.
LEMMA LoadKeeps ==
    ASSUME IInv, Load
    PROVE  IInv'
<1>0. /\ NoEntry \notin Entries /\ Lens \subseteq Nat \ {0} /\ MaxEntries \in Nat
  BY CacheAssumption
<1>1. TypeOK
  BY DEF IInv
<1>2. req \in Entries /\ len[req] > 0 /\ testcase_buf[req] = 0 /\ tid \in Slots
  BY <1>1 DEF Load, Idle, IInv, NotYetCached, TypeOK, Slots
<1>3. len[req] \in Lens
  BY <1>0, <1>1, <1>2 DEF TypeOK
<1>4. PICK slot \in Slots : /\ IsNextFree(slot, ScanFrom(tid))
                            /\ Register(req, len[req], slot)
  BY DEF Load
<1>5. cache_count < max_cache_entries - 1
  BY <1>0, <1>1 DEF Load, MustEvict, TypeOK
<1>6. \/ tid = max_cache_count
      \/ tid < max_cache_count /\ cache[tid] = NoEntry
  BY DEF IInv, TidIsFree, Load
<1>7. slot < max_cache_entries
  BY <1>2, <1>4, <1>5, <1>6, ScanEndsBelowLimit
<1>8. cache[slot] = NoEntry
  BY <1>4 DEF IsNextFree
<1>9. /\ testcase_buf' \in [Entries -> Lens \cup {0}]
      /\ cache' \in [Slots -> Entries \cup {NoEntry}]
      /\ cache_size' \in Int /\ cache_count' \in Nat
      /\ max_cache_count' \in 0 .. max_cache_entries
      /\ smallest_free' \in 0 .. MaxEntries
      /\ SlotsAgree' /\ FreeBelow' /\ HighWater'
  BY <1>2, <1>3, <1>4, <1>7, <1>8, RegisterKeeps
<1>10. /\ UNCHANGED <<len, trim_done, queue_cur, alloc, max_cache_entries, do_once>>
       /\ req' = NoEntry /\ tid' = 0
       /\ testcase_buf' = [testcase_buf EXCEPT ![req] = len[req]]
  BY <1>4 DEF Load, Register
<1>11. TypeOK'
  BY <1>0, <1>1, <1>9, <1>10 DEF TypeOK, Slots
<1>12. TidIsFree'
  BY <1>10 DEF TidIsFree, Idle
<1>13. NotYetCached'
  BY <1>1, <1>2, <1>10 DEF IInv, NotYetCached, Idle, TypeOK
<1>14. RoomForTwo'
  BY <1>10 DEF IInv, RoomForTwo
<1>15. BufferHolds'
  <2>1. ASSUME NEW e \in Entries, testcase_buf'[e] > 0 PROVE testcase_buf'[e] >= len'[e]
    <3>1. CASE e = req
      <4>1. testcase_buf'[e] = len[e] /\ len'[e] = len[e] /\ len[e] \in Lens
        BY <3>1, <1>1, <1>2, <1>3, <1>10 DEF TypeOK
      <4>2. len[e] \in Nat
        BY <4>1, LensAreNat
      <4> QED BY <4>1, <4>2
    <3>2. CASE e # req
      BY <2>1, <3>2, <1>1, <1>10 DEF IInv, BufferHolds, TypeOK
    <3> QED BY <3>1, <3>2
  <2> QED BY <2>1 DEF BufferHolds
<1> QED BY <1>9, <1>11, <1>12, <1>13, <1>14, <1>15 DEF IInv

\* queue_testcase_store_mem.
LEMMA StoreMemKeeps ==
    ASSUME IInv, NEW e \in Entries, NEW l \in Lens, StoreMem(e, l)
    PROVE  IInv'
<1>0. /\ NoEntry \notin Entries /\ Lens \subseteq Nat \ {0} /\ MaxEntries \in Nat
  BY CacheAssumption
<1>1. TypeOK
  BY DEF IInv
<1>2. testcase_buf[e] = 0 /\ max_cache_count \in Slots
  BY <1>0, <1>1 DEF StoreMem, IInv, NotYetCached, TypeOK, Slots
<1>3. PICK slot \in Slots : /\ IsNextFree(slot, ScanFrom(max_cache_count))
                            /\ Register(e, l, slot)
  BY DEF StoreMem
<1>4. cache_count < max_cache_entries - 1
  BY DEF StoreMem
<1>5. slot < max_cache_entries
  BY <1>2, <1>3, <1>4, ScanEndsBelowLimit
<1>6. cache[slot] = NoEntry
  BY <1>3 DEF IsNextFree
<1>7. /\ testcase_buf' \in [Entries -> Lens \cup {0}]
      /\ cache' \in [Slots -> Entries \cup {NoEntry}]
      /\ cache_size' \in Int /\ cache_count' \in Nat
      /\ max_cache_count' \in 0 .. max_cache_entries
      /\ smallest_free' \in 0 .. MaxEntries
      /\ SlotsAgree' /\ FreeBelow' /\ HighWater'
  BY <1>2, <1>3, <1>5, <1>6, RegisterKeeps
<1>8. /\ UNCHANGED <<trim_done, queue_cur, alloc, max_cache_entries, do_once, req, tid>>
      /\ len' = [len EXCEPT ![e] = l] /\ Idle
      /\ testcase_buf' = [testcase_buf EXCEPT ![e] = l]
  BY <1>3 DEF StoreMem, Register
<1>9. TypeOK'
  BY <1>0, <1>1, <1>7, <1>8 DEF TypeOK, Slots
<1>10. TidIsFree' /\ RoomForTwo'
  BY <1>8 DEF IInv, TidIsFree, Idle, RoomForTwo
<1>11. NotYetCached'
  BY <1>0, <1>1, <1>8 DEF IInv, NotYetCached, Idle, TypeOK
<1>12. BufferHolds'
  BY <1>0, <1>1, <1>8 DEF IInv, BufferHolds, TypeOK
<1> QED BY <1>7, <1>9, <1>10, <1>11, <1>12 DEF IInv

\* Trimming, in place or by a custom mutator: a trimmed entry still fits its
\* buffer, and keeps it.
LEMMA TrimKeeps ==
    ASSUME IInv, NEW l \in Lens, Trim(l) \/ TrimCustom(l)
    PROVE  IInv'
<1>0. /\ NoEntry \notin Entries /\ Lens \subseteq Nat \ {0} /\ MaxEntries \in Nat
      /\ Slack \in Nat /\ U32 \in Nat \ {0} /\ l \in Nat /\ l > 0
  BY CacheAssumption
<1>1. TypeOK
  BY DEF IInv
<1>2. /\ queue_cur \in Entries /\ Idle
      /\ len' = [len EXCEPT ![queue_cur] = l]
      /\ trim_done' = trim_done \cup {queue_cur}
      /\ UNCHANGED <<queue_cur, cache, alloc, cache_count, max_cache_count,
                     max_cache_entries, smallest_free, do_once, req, tid>>
  BY DEF Trim, TrimCustom, cacheVars
<1>3. /\ testcase_buf' \in [Entries -> Lens \cup {0}]
      /\ \A e \in Entries : e # queue_cur => testcase_buf'[e] = testcase_buf[e]
      /\ testcase_buf'[queue_cur] > 0 <=> testcase_buf[queue_cur] > 0
      /\ testcase_buf'[queue_cur] > 0 => testcase_buf'[queue_cur] >= l
  <2>1. /\ len[queue_cur] \in Nat /\ testcase_buf[queue_cur] \in Nat
        /\ testcase_buf[queue_cur] > 0 => testcase_buf[queue_cur] >= len[queue_cur]
    <3>1. len[queue_cur] \in Lens \cup {0} /\ testcase_buf[queue_cur] \in Lens \cup {0}
      BY <1>1, <1>2 DEF TypeOK
    <3>2. len[queue_cur] \in Nat /\ testcase_buf[queue_cur] \in Nat
      BY <3>1, LensAreNat
    <3> QED BY <3>2, <1>2 DEF IInv, BufferHolds
  <2>2. CASE Trim(l)
    <3>1. testcase_buf' = testcase_buf /\ l < len[queue_cur]
      BY <2>2 DEF Trim
    <3> QED BY <3>1, <2>1, <1>0, <1>1 DEF TypeOK
  <2>3. CASE TrimCustom(l)
    <3>1. CASE testcase_buf[queue_cur] > 0 /\ (l > len[queue_cur] \/ l + Slack < len[queue_cur])
      <4>1. testcase_buf' = [testcase_buf EXCEPT ![queue_cur] = l]
        BY <2>3, <3>1 DEF TrimCustom
      <4> QED BY <4>1, <3>1, <1>0, <1>1, <1>2 DEF TypeOK
    <3>2. CASE ~(testcase_buf[queue_cur] > 0 /\ (l > len[queue_cur] \/ l + Slack < len[queue_cur]))
      <4>1. testcase_buf' = [testcase_buf EXCEPT ![queue_cur] = @]
        BY <2>3, <3>2 DEF TrimCustom
      <4>2. testcase_buf' = testcase_buf
        BY <4>1, <1>1, <1>2 DEF TypeOK
      <4>3. testcase_buf[queue_cur] > 0 => testcase_buf[queue_cur] >= l
        BY <3>2, <2>1, <1>0
      <4> QED BY <4>2, <4>3, <1>1 DEF TypeOK
    <3> QED BY <3>1, <3>2
  <2> QED BY <2>2, <2>3
<1>4. cache_size' \in Int
  <2>1. CASE Trim(l)
    BY <2>1, <1>1 DEF Trim, cacheVars, TypeOK
  <2>2. CASE TrimCustom(l)
    <3>1. len[queue_cur] \in Lens \cup {0}
      BY <1>1, <1>2 DEF TypeOK
    <3>2. len[queue_cur] \in Nat
      BY <3>1, LensAreNat
    <3>3. (l - len[queue_cur]) % U32 \in Int
      BY <3>2, <1>0
    <3>4. \/ cache_size' = cache_size
          \/ cache_size' = cache_size + ((l - len[queue_cur]) % U32)
      BY <2>2 DEF TrimCustom
    <3> QED BY <3>3, <3>4, <1>1 DEF TypeOK
  <2> QED BY <2>1, <2>2
<1>5. TypeOK'
  BY <1>0, <1>1, <1>2, <1>3, <1>4 DEF TypeOK, Slots
<1>6. SlotsAgree'
  <2>1. Occupied' = Occupied
    BY <1>2 DEF Occupied
  <2>2. \A e \in Entries : testcase_buf'[e] > 0 <=> testcase_buf[e] > 0
    BY <1>3
  <2>3. \A t \in Occupied : cache[t] \in Entries
    BY <1>1 DEF Occupied, TypeOK
  <2> QED BY <2>1, <2>2, <2>3, <1>2 DEF IInv, SlotsAgree
<1>7. FreeBelow' /\ HighWater' /\ TidIsFree' /\ RoomForTwo'
  BY <1>2 DEF IInv, FreeBelow, HighWater, TidIsFree, RoomForTwo, Idle
<1>8. NotYetCached'
  BY <1>0, <1>1, <1>2, <1>3 DEF IInv, NotYetCached, Idle, TypeOK
<1>9. BufferHolds'
  <2>1. ASSUME NEW e \in Entries, testcase_buf'[e] > 0 PROVE testcase_buf'[e] >= len'[e]
    <3>1. CASE e = queue_cur
      BY <2>1, <3>1, <1>1, <1>2, <1>3 DEF TypeOK
    <3>2. CASE e # queue_cur
      BY <2>1, <3>2, <1>1, <1>2, <1>3 DEF IInv, BufferHolds, TypeOK
    <3> QED BY <3>1, <3>2
  <2> QED BY <2>1 DEF BufferHolds
<1> QED BY <1>5, <1>6, <1>7, <1>8, <1>9 DEF IInv

\* The three operations that do not touch the array.
LEMMA OthersKeep ==
    ASSUME IInv, NEW e \in Entries,
           (\E l \in Lens : AddUncached(e, l)) \/ Select(e) \/ Get(e)
    PROVE  IInv'
<1>0. /\ NoEntry \notin Entries /\ Lens \subseteq Nat \ {0} /\ MaxEntries \in Nat
  BY CacheAssumption
<1>1. TypeOK
  BY DEF IInv
<1>2. /\ UNCHANGED cacheVars /\ UNCHANGED <<testcase_buf, trim_done>>
  BY DEF AddUncached, Select, Get, entryVars
<1>3. SlotsAgree' /\ FreeBelow' /\ HighWater' /\ RoomForTwo'
  BY <1>2 DEF cacheVars, IInv, SlotsAgree, Occupied, FreeBelow, HighWater, RoomForTwo
<1>4. CASE \E l \in Lens : AddUncached(e, l)
  <2>1. PICK l \in Lens : AddUncached(e, l)
    BY <1>4
  <2>2. /\ len' = [len EXCEPT ![e] = l] /\ len[e] = 0 /\ Idle
        /\ UNCHANGED <<queue_cur, req, tid>>
    BY <2>1 DEF AddUncached
  <2>3. TypeOK'
    BY <2>2, <1>1, <1>2 DEF TypeOK, cacheVars, Slots
  <2>4. TidIsFree'
    BY <2>2 DEF TidIsFree, Idle
  <2>5. testcase_buf[e] = 0
    BY <2>2 DEF IInv, NotYetCached
  <2>6. NotYetCached'
    BY <2>2, <2>5, <1>1, <1>2 DEF IInv, NotYetCached, Idle, TypeOK
  <2>7. BufferHolds'
    BY <2>2, <2>5, <1>1, <1>2 DEF IInv, BufferHolds, TypeOK
  <2> QED BY <2>3, <2>4, <2>6, <2>7, <1>3 DEF IInv
<1>5. CASE Select(e)
  <2>1. queue_cur' = e /\ UNCHANGED <<len, req, tid>>
    BY <1>5 DEF Select
  <2>2. TypeOK'
    BY <2>1, <1>1, <1>2 DEF TypeOK, cacheVars, Slots
  <2>3. TidIsFree' /\ NotYetCached' /\ BufferHolds'
    BY <2>1, <1>2 DEF IInv, TidIsFree, NotYetCached, BufferHolds, Idle, cacheVars
  <2> QED BY <2>2, <2>3, <1>3 DEF IInv
<1>6. CASE Get(e)
  <2>1. /\ req' = e /\ tid' = max_cache_count /\ UNCHANGED <<len, queue_cur>>
        /\ len[e] > 0 /\ testcase_buf[e] = 0
    BY <1>6 DEF Get, entryVars
  <2>2. max_cache_count \in 0 .. MaxEntries
    BY <1>0, <1>1 DEF TypeOK
  <2>3. TypeOK'
    BY <2>1, <2>2, <1>1, <1>2 DEF TypeOK, cacheVars, Slots
  <2>4. TidIsFree'
    BY <2>1, <1>2 DEF TidIsFree, cacheVars
  <2>5. NotYetCached' /\ BufferHolds'
    BY <2>1, <1>2 DEF IInv, NotYetCached, BufferHolds
  <2> QED BY <2>3, <2>4, <2>5, <1>3 DEF IInv
<1> QED BY <1>4, <1>5, <1>6

LEMMA EndOfQueueKeeps == ASSUME IInv, EndOfQueue PROVE IInv'
<1>1. /\ queue_cur' = NoEntry /\ UNCHANGED cacheVars
      /\ UNCHANGED <<len, testcase_buf, trim_done, req, tid>>
  BY DEF EndOfQueue
<1>2. SlotsAgree' /\ FreeBelow' /\ HighWater' /\ RoomForTwo'
  BY <1>1 DEF cacheVars, IInv, SlotsAgree, Occupied, FreeBelow, HighWater, RoomForTwo
<1>3. TypeOK'
  BY <1>1 DEF IInv, TypeOK, cacheVars, Slots
<1>4. TidIsFree' /\ NotYetCached' /\ BufferHolds'
  BY <1>1 DEF IInv, TidIsFree, NotYetCached, BufferHolds, Idle, cacheVars
<1> QED BY <1>2, <1>3, <1>4 DEF IInv

\* The invariant holds when the cache is set up.
LEMMA InitEstablishes == Init => IInv
<1> SUFFICES ASSUME Init PROVE IInv
  OBVIOUS
<1>0. /\ NoEntry \notin Entries /\ MaxEntries \in Nat \ {0}
  BY CacheAssumption
<1>1. TypeOK
  <2>1. /\ len \in [Entries -> Lens \cup {0}]
        /\ testcase_buf \in [Entries -> Lens \cup {0}]
        /\ trim_done \subseteq Entries
        /\ queue_cur \in Entries \cup {NoEntry} /\ req \in Entries \cup {NoEntry}
        /\ cache \in [Slots -> Entries \cup {NoEntry}]
        /\ do_once \in BOOLEAN
    BY DEF Init
  <2>2. /\ alloc \in 1 .. MaxEntries + 1 /\ max_cache_entries \in 1 .. alloc
        /\ max_cache_entries <= MaxEntries
        /\ max_cache_count \in 0 .. max_cache_entries
        /\ smallest_free \in 0 .. MaxEntries /\ tid \in 0 .. MaxEntries
        /\ cache_size \in Int /\ cache_count \in Nat
    BY <1>0 DEF Init
  <2> QED BY <2>1, <2>2 DEF TypeOK
<1>2. Occupied = {}
  BY DEF Init, Occupied
<1>3. Cardinality(Occupied) = 0
  BY <1>2, FS_EmptySet
<1>4. SlotsAgree
  BY <1>2, <1>3 DEF Init, SlotsAgree
<1>5. FreeBelow
  BY <1>0 DEF Init, FreeBelow, Slots
<1>6. HighWater /\ TidIsFree /\ NotYetCached /\ RoomForTwo /\ BufferHolds
  BY <1>0 DEF Init, HighWater, TidIsFree, NotYetCached, RoomForTwo, BufferHolds, Idle
<1> QED BY <1>1, <1>4, <1>5, <1>6 DEF IInv

\* No operation on the cache breaks the invariant.
LEMMA StepKeeps == IInv /\ [Next]_vars => IInv'
<1> SUFFICES ASSUME IInv, [Next]_vars PROVE IInv'
  OBVIOUS
<1>1. CASE \E e \in Entries : \E l \in Lens : AddUncached(e, l)
  BY <1>1, OthersKeep
<1>2. CASE \E e \in Entries : \E l \in Lens : StoreMem(e, l)
  BY <1>2, StoreMemKeeps
<1>3. CASE \E e \in Entries : Select(e) \/ Get(e)
  BY <1>3, OthersKeep
<1>3a. CASE EndOfQueue
  BY <1>3a, EndOfQueueKeeps
<1>4. CASE \E t \in Slots : Evict(t)
  BY <1>4, EvictKeeps
<1>5. CASE Load
  BY <1>5, LoadKeeps
<1>6. CASE \E l \in Lens : Trim(l) \/ TrimCustom(l)
  BY <1>6, TrimKeeps
<1>7. CASE UNCHANGED vars
  BY <1>7 DEF vars, entryVars, cacheVars, IInv, TypeOK, SlotsAgree, Occupied, FreeBelow,
              HighWater, TidIsFree, NotYetCached, RoomForTwo, BufferHolds, Idle
<1> QED BY <1>1, <1>2, <1>3, <1>4, <1>3a, <1>5, <1>6, <1>7 DEF Next

\* The inductive invariant of the cache.
THEOREM CacheInvariant == Spec => []IInv
BY InitEstablishes, StepKeeps, PTL DEF Spec

\* The slots of q_testcase_cache and the buffers of the queue entries agree,
\* and q_testcase_cache_count counts them, for every cache size and queue.
THEOREM SlotsAlwaysAgree == Spec => []SlotsAgree
<1>1. IInv => SlotsAgree
  BY DEF IInv
<1> QED BY <1>1, CacheInvariant, PTL

\* The unbounded scans of queue_testcase_get and queue_testcase_store_mem end
\* inside the array.
THEOREM ScansStayInBounds == Spec => []InBounds
<1>1. IInv => InBounds
  <2> SUFFICES ASSUME IInv PROVE InBounds
    OBVIOUS
  <2>0. /\ max_cache_entries \in Nat /\ max_cache_count \in Nat /\ tid \in Nat
        /\ max_cache_count <= max_cache_entries /\ max_cache_entries <= alloc
        /\ alloc \in Nat /\ smallest_free \in Nat /\ cache_count \in Nat
        /\ max_cache_entries <= MaxEntries /\ MaxEntries \in Nat
    BY CacheAssumption DEF IInv, TypeOK
  <2>1. ASSUME cache_count < max_cache_entries - 1,
               NEW from \in Nat, from <= max_cache_entries,
               \/ from = max_cache_count
               \/ from < max_cache_count /\ cache[from] = NoEntry
        PROVE  \E t \in Slots : t < alloc /\ t >= ScanFrom(from) /\ cache[t] = NoEntry
    <3>1. CASE from >= max_cache_entries
      <4>1. PICK t \in Slots : /\ smallest_free <= t /\ t < max_cache_entries
                               /\ cache[t] = NoEntry
        BY <2>1, FreeSlotExists
      <4>2. t \in Nat /\ t < alloc
        BY <4>1, <2>0 DEF Slots
      <4> QED BY <4>1, <4>2, <3>1, <2>0 DEF ScanFrom
    <3>2. CASE from < max_cache_entries
      <4>1. from \in Slots /\ from < alloc
        BY <3>2, <2>0, <2>1 DEF Slots
      <4>2. cache[from] = NoEntry
        BY <4>1, <2>0, <2>1 DEF IInv, HighWater
      <4> QED BY <4>1, <4>2, <3>2, <2>0 DEF ScanFrom
    <3> QED BY <3>1, <3>2, <2>0, <2>1
  <2>2. ASSUME ~Idle, ~MustEvict
        PROVE  \E t \in Slots : t < alloc /\ t >= ScanFrom(tid) /\ cache[t] = NoEntry
    <3>1. cache_count < max_cache_entries - 1
      BY <2>0, <2>2 DEF MustEvict
    <3>2. \/ tid = max_cache_count
          \/ tid < max_cache_count /\ cache[tid] = NoEntry
      BY <2>2 DEF IInv, TidIsFree
    <3>3. tid <= max_cache_entries
      BY <3>2, <2>0
    <3> QED BY <3>1, <3>2, <3>3, <2>0, <2>1
  <2>3. ASSUME cache_count < max_cache_entries - 1
        PROVE  \E t \in Slots : t < alloc /\ t >= ScanFrom(max_cache_count) /\ cache[t] = NoEntry
    BY <2>3, <2>0, <2>1
  <2> QED BY <2>2, <2>3 DEF InBounds
<1> QED BY <1>1, CacheInvariant, PTL

\* With at least three slots configured, eviction always finds an entry that
\* is not in use: the loop over random slots can end.
THEOREM EvictionFindsVictim ==
    ASSUME MaxEntries >= 3
    PROVE  Spec => []VictimExists
<1>1. IInv => VictimExists
  <2> SUFFICES ASSUME IInv, ~Idle, MustEvict
               PROVE  \E t \in Slots : IsVictim(t)
    BY DEF VictimExists
  <2>1. /\ cache_count \in Nat /\ max_cache_entries >= 3 /\ max_cache_entries \in Nat
        /\ max_cache_count \in Nat
    BY DEF IInv, TypeOK, RoomForTwo
  <2>2. Cardinality(Occupied) >= 2
    BY <2>1 DEF MustEvict, IInv, SlotsAgree
  <2>3. PICK s \in Occupied : TRUE
    BY <2>2, OccupiedFinite, FS_EmptySet
  <2>4. PICK u \in Occupied : u # s
    <3>1. SUFFICES ASSUME \A u \in Occupied : u = s PROVE FALSE
      OBVIOUS
    <3>2. Occupied = {s}
      BY <3>1, <2>3
    <3>3. Cardinality(Occupied) = 1
      BY <3>2, FS_Singleton
    <3> QED BY <3>3, <2>2
  <2>5. cache[s] # cache[u]
    BY <2>3, <2>4 DEF IInv, SlotsAgree
  <2>6. PICK t \in Occupied : cache[t] # queue_cur
    BY <2>3, <2>4, <2>5
  <2>7. t \in Slots /\ cache[t] # NoEntry /\ t \in Nat
    BY <2>6, CacheAssumption DEF Occupied, Slots
  <2>8. t < max_cache_count
    BY <2>1, <2>7 DEF IInv, HighWater
  <2> QED BY <2>6, <2>7, <2>8 DEF IsVictim
<1> QED BY <1>1, CacheInvariant, PTL

\* A cached entry never outgrows its buffer, however it is trimmed.
THEOREM BuffersHold == Spec => []BufferHolds
<1>1. IInv => BufferHolds
  BY DEF IInv
<1> QED BY <1>1, CacheInvariant, PTL

-----------------------------------------------------------------------------
(***************************************************************************)
(* The size of the cache.  Only the entries that have a buffer count, and  *)
(* eviction subtracts the length an entry has then, which trimming may     *)
(* have changed since it was added.                                        *)
(***************************************************************************)
Cached == {e \in Entries : testcase_buf[e] > 0}

\* There are finitely many cached entries: each has a slot.
LEMMA CachedFinite ==
    ASSUME IInv
    PROVE  IsFiniteSet(Cached)
<1>1. \A t \in Occupied : cache[t] \in Cached
  BY DEF Cached, IInv, TypeOK, SlotsAgree, Occupied
<1>2. \A e \in Cached : \E t \in Occupied : cache[t] = e
  BY DEF Cached, IInv, SlotsAgree
<1>3. [t \in Occupied |-> cache[t]] \in Surjection(Occupied, Cached)
  BY <1>1, <1>2 DEF Surjection
<1> QED BY <1>3, OccupiedFinite, FS_Surjection

\* What NoUnderflow says, in terms of SumOf.
LEMMA UnderflowForm == NoUnderflow <=> cache_size >= SumOf(len, Cached)
BY DEF NoUnderflow, CachedLen, SumOf, Cached

\* The same for the next state.
LEMMA UnderflowFormNext == NoUnderflow' <=> cache_size' >= SumOf(len', Cached')
<1>1. NoUnderflow' <=> (cache_size >= SumOf(len, Cached))'
  BY UnderflowForm, PTL
<1> QED BY <1>1

\* An entry that gets a buffer adds its length.
LEMMA RegisterKeepsSize ==
    ASSUME IInv, NoUnderflow, NEW e \in Entries, NEW l \in Lens, NEW slot,
           testcase_buf[e] = 0, Register(e, l, slot),
           len' \in [Entries -> Nat], len'[e] = l, \A k \in Entries \ {e} : len'[k] = len[k]
    PROVE  NoUnderflow'
<1>1. l \in Nat /\ l > 0
  BY CacheAssumption
<1>2. testcase_buf \in [Entries -> Lens \cup {0}] /\ cache_size \in Int
      /\ len \in [Entries -> Lens \cup {0}]
  BY DEF IInv, TypeOK
<1>3. \A k \in Entries : len[k] \in Nat
  BY <1>2, LensAreNat
<1>4. PICK C : C = Cached
  OBVIOUS
<1>5. PICK D : D = Cached'
  OBVIOUS
<1>6. e \in D /\ D \ {e} = C
  BY <1>1, <1>2, <1>4, <1>5 DEF Register, Cached
<1>7. IsFiniteSet(C) /\ C \subseteq Entries /\ e \notin C
  BY <1>4, CachedFinite DEF Cached
<1>8. IsFiniteSet(D) /\ D \subseteq Entries
  <2>1. IsFiniteSet(C \cup {e})
    BY <1>7, FS_AddElement
  <2>2. D = C \cup {e}
    BY <1>6
  <2> QED BY <1>7, <2>1, <2>2
<1>9. SumOf(len', D) = l + SumOf(len', C)
  BY <1>6, <1>8, SumOfTakeOut
<1>10. \A k \in C : len[k] \in Nat /\ len'[k] \in Nat /\ len'[k] <= len[k]
  BY <1>3, <1>7
<1>11. SumOf(len', C) <= SumOf(len, C)
  BY <1>7, <1>10, SumOfMonotone
<1>12. SumOf(len', C) \in Nat /\ SumOf(len, C) \in Nat
  BY <1>7, <1>10, SumOfIsNat
<1>13. cache_size >= SumOf(len, C) /\ cache_size' = cache_size + l
  BY <1>4, UnderflowForm DEF Register
<1>14. cache_size' >= SumOf(len', D)
  BY <1>1, <1>2, <1>9, <1>11, <1>12, <1>13
<1> QED BY <1>5, <1>14, UnderflowFormNext

\* The two operations that register an entry.
LEMMA FillKeepsSize ==
    ASSUME IInv, NoUnderflow,
           Load \/ \E e \in Entries, l \in Lens : StoreMem(e, l)
    PROVE  NoUnderflow'
<1>1. len \in [Entries -> Lens \cup {0}] /\ req \in Entries \cup {NoEntry}
  BY DEF IInv, TypeOK
<1>2. CASE Load
  <2>1. req \in Entries /\ len[req] > 0 /\ testcase_buf[req] = 0
    BY <1>1, <1>2 DEF Load, Idle, IInv, NotYetCached
  <2>2. len[req] \in Lens
    BY <1>1, <2>1
  <2>3. PICK slot \in Slots : Register(req, len[req], slot)
    BY <1>2 DEF Load
  <2>4. len' = len
    BY <1>2 DEF Load
  <2>5. len' \in [Entries -> Nat]
    BY <1>1, <2>4, LensAreNat
  <2> QED BY <2>1, <2>2, <2>3, <2>4, <2>5, RegisterKeepsSize
<1>3. CASE \E e \in Entries, l \in Lens : StoreMem(e, l)
  <2>1. PICK e \in Entries, l \in Lens : StoreMem(e, l)
    BY <1>3
  <2>2. PICK slot \in Slots : Register(e, l, slot)
    BY <2>1 DEF StoreMem
  <2>3. testcase_buf[e] = 0
    BY <2>1 DEF StoreMem, IInv, NotYetCached
  <2>4. len' = [len EXCEPT ![e] = l]
    BY <2>1 DEF StoreMem
  <2>5. len' \in [Entries -> Nat] /\ len'[e] = l /\ \A k \in Entries \ {e} : len'[k] = len[k]
    BY <1>1, <2>4, LensAreNat
  <2> QED BY <2>2, <2>3, <2>5, RegisterKeepsSize
<1> QED BY <1>2, <1>3

\* An entry that loses its buffer is subtracted with the length it has.
LEMMA EvictKeepsSize ==
    ASSUME IInv, NoUnderflow, NEW t \in Slots, Evict(t)
    PROVE  NoUnderflow'
<1>1. testcase_buf \in [Entries -> Lens \cup {0}] /\ cache_size \in Int
      /\ len \in [Entries -> Lens \cup {0}] /\ cache \in [Slots -> Entries \cup {NoEntry}]
  BY DEF IInv, TypeOK
<1>2. \A k \in Entries : len[k] \in Nat
  BY <1>1, LensAreNat
<1>3. PICK v \in Entries : v = cache[t]
  BY <1>1 DEF Evict, IsVictim
<1>4. PICK C : C = Cached
  OBVIOUS
<1>5. v \in C
  <2>1. t \in Occupied
    BY <1>3, CacheAssumption DEF Occupied
  <2> QED BY <1>3, <1>4, <2>1 DEF Cached, IInv, SlotsAgree
<1>6. Cached' = C \ {v}
  BY <1>1, <1>3, <1>4 DEF Evict, Cached
<1>7. IsFiniteSet(C) /\ C \subseteq Entries /\ IsFiniteSet(C \ {v})
  BY <1>4, CachedFinite, FS_RemoveElement DEF Cached
<1>8. SumOf(len, C) = len[v] + SumOf(len, C \ {v})
  BY <1>2, <1>5, <1>7, SumOfTakeOut
<1>9. SumOf(len, C \ {v}) \in Nat
  BY <1>2, <1>7, SumOfIsNat
<1>10. cache_size >= SumOf(len, C) /\ cache_size' = cache_size - len[v] /\ len' = len
  BY <1>3, <1>4, UnderflowForm DEF Evict
<1>11. cache_size' >= SumOf(len', C \ {v})
  BY <1>1, <1>2, <1>3, <1>8, <1>9, <1>10
<1> QED BY <1>6, <1>11, UnderflowFormNext

\* A step that leaves the cached entries, lets none of them grow and does not
\* lower cache_size.
LEMMA SameEntriesKeepSize ==
    ASSUME IInv, NoUnderflow, Cached' = Cached, cache_size' \in Int, cache_size' >= cache_size,
           len' \in [Entries -> Nat], \A k \in Cached : len'[k] <= len[k]
    PROVE  NoUnderflow'
<1>1. cache_size \in Int /\ len \in [Entries -> Lens \cup {0}]
  BY DEF IInv, TypeOK
<1>2. PICK C : C = Cached
  OBVIOUS
<1>3. IsFiniteSet(C) /\ C \subseteq Entries
  BY <1>2, CachedFinite DEF Cached
<1>4. \A k \in C : len[k] \in Nat /\ len'[k] \in Nat /\ len'[k] <= len[k]
  BY <1>1, <1>2, <1>3, LensAreNat
<1>5. SumOf(len', C) <= SumOf(len, C)
  BY <1>3, <1>4, SumOfMonotone
<1>6. SumOf(len', C) \in Nat /\ SumOf(len, C) \in Nat
  BY <1>3, <1>4, SumOfIsNat
<1>7. cache_size >= SumOf(len, C)
  BY <1>2, UnderflowForm
<1>8. cache_size' >= SumOf(len', C)
  BY <1>1, <1>5, <1>6, <1>7
<1> QED BY <1>2, <1>8, UnderflowFormNext

\* A new length for one cached entry, with at least the difference added.
LEMMA ResizeKeepsSize ==
    ASSUME IInv, NoUnderflow, Cached' = Cached, NEW e \in Cached, NEW l \in Nat,
           len' = [len EXCEPT ![e] = l],
           cache_size' \in Int, cache_size' >= cache_size + (l - len[e])
    PROVE  NoUnderflow'
<1>1. cache_size \in Int /\ len \in [Entries -> Lens \cup {0}]
  BY DEF IInv, TypeOK
<1>2. PICK C : C = Cached
  OBVIOUS
<1>3. IsFiniteSet(C) /\ C \subseteq Entries /\ e \in C /\ IsFiniteSet(C \ {e})
  BY <1>2, CachedFinite, FS_RemoveElement DEF Cached
<1>4. \A k \in C : len[k] \in Nat /\ len'[k] \in Nat
  BY <1>1, <1>3, LensAreNat
<1>5. len'[e] = l /\ \A k \in C \ {e} : len'[k] <= len[k]
  BY <1>1, <1>3, <1>4
<1>6. SumOf(len, C) = len[e] + SumOf(len, C \ {e})
  BY <1>3, <1>4, SumOfTakeOut
<1>7. SumOf(len', C) = l + SumOf(len', C \ {e})
  <2>1. SumOf(len', C) = len'[e] + SumOf(len', C \ {e})
    <3>1. PICK f : f = len' /\ \A k \in C : f[k] \in Nat
      BY <1>4
    <3>2. SumOf(f, C) = f[e] + SumOf(f, C \ {e})
      BY <1>3, <3>1, SumOfTakeOut, ZenonT(40)
    <3> QED BY <3>1, <3>2
  <2> QED BY <1>5, <2>1
<1>8. SumOf(len', C \ {e}) <= SumOf(len, C \ {e})
  BY <1>3, <1>4, <1>5, SumOfMonotone
<1>9. SumOf(len', C \ {e}) \in Nat /\ SumOf(len, C \ {e}) \in Nat
  BY <1>3, <1>4, SumOfIsNat
<1>10. cache_size >= SumOf(len, C)
  BY <1>2, UnderflowForm
<1>11. len[e] \in Nat
  BY <1>3, <1>4
<1>12. cache_size' >= SumOf(len', C)
  BY <1>1, <1>6, <1>7, <1>8, <1>9, <1>10, <1>11
<1> QED BY <1>2, <1>12, UnderflowFormNext

\* Trimming: the difference of the lengths is taken modulo 2^32, so cache_size
\* gets at least that difference, and 2^32 too much when the entry has shrunk.
LEMMA TrimKeepsSize ==
    ASSUME IInv, NoUnderflow, NEW l \in Lens, Trim(l) \/ TrimCustom(l)
    PROVE  NoUnderflow'
<1>1. testcase_buf \in [Entries -> Lens \cup {0}] /\ cache_size \in Int
      /\ len \in [Entries -> Lens \cup {0}]
  BY DEF IInv, TypeOK
<1>2. l \in Nat /\ l > 0 /\ l < U32 /\ U32 \in Nat /\ U32 > 0 /\ Slack \in Nat
  BY CacheAssumption
<1>3. PICK e \in Entries : e = queue_cur
  BY DEF Trim, TrimCustom
<1>4. len' = [len EXCEPT ![e] = l]
  BY <1>3 DEF Trim, TrimCustom
<1>5. len' \in [Entries -> Nat] /\ len'[e] = l /\ \A k \in Entries \ {e} : len'[k] = len[k]
  BY <1>1, <1>2, <1>4, LensAreNat
<1>6. \A k \in Entries : len[k] \in Nat /\ len[k] < U32
  <2>1. \A k \in Lens \cup {0} : k \in Nat /\ k < U32
    BY <1>2, CacheAssumption
  <2> QED BY <1>1, <2>1
<1>7. CASE Trim(l)
  <2>1. Cached' = Cached /\ cache_size' = cache_size /\ l < len[e]
    BY <1>3, <1>7 DEF Trim, Cached, cacheVars
  <2>2. \A k \in Cached : len'[k] <= len[k]
    BY <1>2, <1>5, <1>6, <2>1 DEF Cached
  <2> QED BY <1>1, <1>5, <2>1, <2>2, SameEntriesKeepSize
<1>8. CASE TrimCustom(l)
  <2>1. CASE testcase_buf[e] > 0 /\ (l > len[e] \/ l + Slack < len[e])
    <3>1. cache_size' = cache_size + ((l - len[e]) % U32)
          /\ testcase_buf' = [testcase_buf EXCEPT ![e] = l]
      BY <1>1, <1>3, <1>8, <2>1 DEF TrimCustom
    <3>2. Cached' = Cached /\ e \in Cached
      BY <1>1, <1>2, <2>1, <3>1 DEF Cached
    <3>3. PICK d \in Int : d = l - len[e]
      BY <1>2, <1>6
    <3>4. -U32 < d /\ d < U32
      BY <1>2, <1>6, <3>3
    <3>5. d % U32 \in Int /\ d % U32 >= d
      BY <1>2, <3>4
    <3>6. cache_size' \in Int /\ cache_size' >= cache_size + (l - len[e])
      BY <1>1, <3>1, <3>3, <3>5
    <3> QED BY <1>2, <1>4, <3>2, <3>6, ResizeKeepsSize
  <2>2. CASE ~(testcase_buf[e] > 0 /\ (l > len[e] \/ l + Slack < len[e]))
    <3>1. cache_size' = cache_size /\ testcase_buf' = testcase_buf
      BY <1>1, <1>3, <1>8, <2>2 DEF TrimCustom
    <3>2. Cached' = Cached
      BY <3>1 DEF Cached
    <3>3. \A k \in Cached : len'[k] <= len[k]
      BY <1>2, <1>5, <1>6, <2>2 DEF Cached
    <3> QED BY <1>1, <1>5, <3>1, <3>2, <3>3, SameEntriesKeepSize
  <2> QED BY <2>1, <2>2
<1> QED BY <1>7, <1>8

\* What else there is does not touch a cached entry.
LEMMA OthersKeepSize ==
    ASSUME IInv, NoUnderflow, NEW e \in Entries,
           (\E l \in Lens : AddUncached(e, l)) \/ Select(e) \/ Get(e)
    PROVE  NoUnderflow'
<1>1. testcase_buf \in [Entries -> Lens \cup {0}] /\ cache_size \in Int
      /\ len \in [Entries -> Lens \cup {0}]
  BY DEF IInv, TypeOK
<1>2. Cached' = Cached /\ cache_size' = cache_size
  BY DEF AddUncached, Select, Get, entryVars, cacheVars, Cached
<1>3. len' \in [Entries -> Nat] /\ \A k \in Cached : len'[k] <= len[k]
  <2>1. \A k \in Entries : len[k] \in Nat
    BY <1>1, LensAreNat
  <2>2. CASE \E l \in Lens : AddUncached(e, l)
    <3>1. PICK l \in Lens : len' = [len EXCEPT ![e] = l] /\ len[e] = 0
      BY <2>2 DEF AddUncached
    <3>2. e \notin Cached
      BY <3>1 DEF Cached, IInv, NotYetCached
    <3>3. l \in Nat
      BY LensAreNat
    <3> QED BY <1>1, <2>1, <3>1, <3>2, <3>3 DEF Cached
  <2>3. CASE Select(e) \/ Get(e)
    <3>1. len' = len
      BY <2>3 DEF Select, Get, entryVars
    <3> QED BY <1>1, <2>1, <3>1, LensAreNat DEF Cached
  <2> QED BY <2>2, <2>3
<1> QED BY <1>1, <1>2, <1>3, SameEntriesKeepSize

\* q_testcase_cache_size is never less than the lengths of the cached entries:
\* no order of storing, trimming and evicting makes it wrap below zero.
THEOREM SizeNeverUnderflows == Spec => []NoUnderflow
<1>1. Init => NoUnderflow
  <2> SUFFICES ASSUME Init PROVE NoUnderflow
    OBVIOUS
  <2>1. Cached = {} /\ cache_size = 0
    BY DEF Init, Cached
  <2>2. SumOf(len, Cached) = 0
    BY <2>1, SumOfEmpty
  <2> QED BY <2>1, <2>2, UnderflowForm
<1>2. ASSUME IInv, NoUnderflow, [Next]_vars PROVE NoUnderflow'
  <2>1. CASE \E e \in Entries : \E l \in Lens : StoreMem(e, l)
    BY <1>2, <2>1, FillKeepsSize
  <2>2. CASE Load
    BY <1>2, <2>2, FillKeepsSize
  <2>3. CASE \E t \in Slots : Evict(t)
    BY <1>2, <2>3, EvictKeepsSize
  <2>4. CASE \E l \in Lens : Trim(l) \/ TrimCustom(l)
    BY <1>2, <2>4, TrimKeepsSize
  <2>5. CASE \E e \in Entries : (\E l \in Lens : AddUncached(e, l)) \/ Select(e) \/ Get(e)
    BY <1>2, <2>5, OthersKeepSize
  <2>6. CASE EndOfQueue \/ UNCHANGED vars
    <3>1. Cached' = Cached /\ cache_size' = cache_size /\ len' = len
      BY <2>6 DEF EndOfQueue, vars, entryVars, cacheVars, Cached
    <3>2. cache_size >= SumOf(len, Cached)
      BY <1>2, UnderflowForm
    <3>3. cache_size' >= SumOf(len', Cached')
      BY <3>1, <3>2
    <3> QED BY <3>3, UnderflowFormNext
  <2> QED BY <1>2, <2>1, <2>2, <2>3, <2>4, <2>5, <2>6 DEF Next
<1> QED BY <1>1, <1>2, CacheInvariant, PTL DEF Spec
=============================================================================
