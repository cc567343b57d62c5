------------------------- MODULE SyncFuzzersProofs -------------------------
(***************************************************************************)
(* Proofs about SyncFuzzers, for any number of instances, main nodes and   *)
(* test cases, and any number of finds, stops, crashes and restarts.       *)
(***************************************************************************)
EXTENDS SyncFuzzers, FiniteSetTheorems, SequenceTheorems, TLAPS

\* The types of the variables, part by part.
Types == queue \in [Fuzzers -> Seq(Entries)]
FileTypes == nfiles \in [Fuzzers -> Ids] /\ \A f \in Fuzzers : nfiles[f] <= Len(queue[f])
FlagTypes ==
    /\ marker \in [Fuzzers -> BOOLEAN] /\ is_main_node \in [Fuzzers -> BOOLEAN]
    /\ in_place_resume \in [Fuzzers -> BOOLEAN]
    /\ cmdline \in [Fuzzers -> {"none", "now", "old"}]
    /\ state \in [Fuzzers -> {"down", "start", "up", "sync"}]
PositionTypes ==
    synced \in [Fuzzers -> [Fuzzers -> Ids]] /\ maxid \in [Fuzzers -> [Fuzzers -> Ids]]
Locals == [todo : SUBSET Fuzzers, entries : BOOLEAN, any : BOOLEAN,
           peer : Fuzzers \cup {None}, names : Seq(Entries), next : Ids, max : Ids]
LocTypes == loc \in [Fuzzers -> Locals]
HistoryTypes ==
    /\ finds \in 0 .. MaxFinds /\ ends \in 0 .. MaxEnds
    /\ resumed \subseteq Fuzzers /\ fresh \subseteq Fuzzers

LEMMA TypeParts ==
    TypeOK <=> /\ Types /\ FileTypes /\ FlagTypes /\ PositionTypes
               /\ LocTypes /\ HistoryTypes
BY DEF TypeOK, Types, FileTypes, FlagTypes, PositionTypes, LocTypes, Locals, HistoryTypes

\* PositionHonest is about types and about the positions.
Honest ==
    \A f, g \in Fuzzers : f \notin fresh /\ g \notin fresh \cup resumed => Covered(f, g)

LEMMA IInvParts ==
    IInv <=> /\ Types /\ FileTypes /\ FlagTypes /\ PositionTypes /\ LocTypes /\ HistoryTypes
             /\ Honest /\ NoneTwice /\ LocInRange /\ NotBeforeStart /\ ImportsKnown
             /\ NamesOnDisk /\ ReadSoFar /\ MarkedFromStart
BY TypeParts DEF IInv, PositionHonest, Honest

LEMMA IInvNext ==
    ASSUME Types', FileTypes', FlagTypes', PositionTypes', LocTypes', HistoryTypes',
           Honest', NoneTwice', LocInRange', NotBeforeStart', ImportsKnown',
           NamesOnDisk', ReadSoFar', MarkedFromStart'
    PROVE  IInv'
BY DEF IInv, PositionHonest, Honest, TypeOK, Types, FileTypes, FlagTypes, PositionTypes,
       LocTypes, Locals, HistoryTypes

-----------------------------------------------------------------------------
(***************************************************************************)
(* Queues.                                                                 *)
(***************************************************************************)
\* Without duplicates, a queue is no longer than there are test cases.
LEMMA QueueBound ==
    ASSUME NEW q \in Seq(Entries),
           \A i, j \in DOMAIN q : q[i].case = q[j].case => i = j
    PROVE  Len(q) \in Ids
<1> DEFINE case == [i \in 1 .. Len(q) |-> q[i].case]
<1>1. Len(q) \in Nat /\ DOMAIN q = 1 .. Len(q) /\ \A i \in 1 .. Len(q) : q[i] \in Entries
    BY ElementOfSeq, LenProperties
<1>2. case \in Injection(1 .. Len(q), Cases)
    BY <1>1 DEF Injection, IsInjective, Entries
<1>3. Cardinality(1 .. Len(q)) <= Cardinality(Cases)
    BY <1>2, FS_Injection, SyncAssumption
<1>4. Cardinality(1 .. Len(q)) = Len(q)
    <2> DEFINE n == Len(q)
    <2>1. n \in Nat BY <1>1
    <2> HIDE DEF n
    <2>2. Cardinality(1 .. n) = n BY <2>1, FS_Interval
    <2> QED BY <2>2 DEF n
<1>5. Cardinality(Cases) \in Nat
    BY FS_CardinalityType, SyncAssumption
<1> QED
    BY <1>1, <1>3, <1>4, <1>5 DEF Ids

\* What else one needs of a queue, in terms of its indices.
LEMMA QueueIndices ==
    ASSUME Types, NEW f \in Fuzzers
    PROVE  /\ Len(queue[f]) \in Nat /\ DOMAIN queue[f] = 1 .. Len(queue[f])
           /\ \A i \in 1 .. Len(queue[f]) : queue[f][i] \in Entries
           /\ Known(f) = {queue[f][i].case : i \in 1 .. Len(queue[f])}
<1>1. queue[f] \in Seq(Entries) BY DEF Types
<1> QED BY <1>1, ElementOfSeq, LenProperties DEF Known

\* An entry is appended: nothing else changes.
LEMMA Appended ==
    ASSUME Types, NEW f \in Fuzzers, NEW e \in Entries,
           queue' = [queue EXCEPT ![f] = Append(@, e)]
    PROVE  /\ Types'
           /\ \A g \in Fuzzers : g # f => queue'[g] = queue[g]
           /\ Len(queue'[f]) = Len(queue[f]) + 1
           /\ queue'[f][Len(queue[f]) + 1] = e
           /\ \A i \in 1 .. Len(queue[f]) : queue'[f][i] = queue[f][i]
<1>1. queue[f] \in Seq(Entries) /\ queue'[f] = Append(queue[f], e) BY DEF Types
<1> QED BY <1>1, AppendProperties, LenProperties DEF Types

LEMMA KnownGrows ==
    ASSUME Types, NEW f \in Fuzzers, NEW e \in Entries,
           queue' = [queue EXCEPT ![f] = Append(@, e)]
    PROVE  /\ Known(f)' = Known(f) \cup {e.case}
           /\ \A g \in Fuzzers : Known(g) \subseteq Known(g)'
<1>1. Types' /\ \A g \in Fuzzers : g # f => queue'[g] = queue[g]
    BY Appended
<1>2. Known(f)' = Known(f) \cup {e.case}
    <2>1. Known(f) = {queue[f][i].case : i \in 1 .. Len(queue[f])} /\ Len(queue[f]) \in Nat
        BY QueueIndices
    <2>2. Known(f)' = {queue'[f][i].case : i \in 1 .. Len(queue'[f])}
        <3>1. queue'[f] \in Seq(Entries) BY <1>1 DEF Types
        <3> QED BY <3>1, LenProperties DEF Known
    <2> DEFINE n == Len(queue[f])
    <2>3. /\ Len(queue'[f]) = n + 1 /\ queue'[f][n + 1] = e
          /\ \A i \in 1 .. n : queue'[f][i] = queue[f][i]
        BY Appended
    <2>4. n \in Nat BY <2>1
    <2>5. 1 .. (n + 1) = (1 .. n) \cup {n + 1} BY <2>4
    <2>6. Known(f) = {queue[f][i].case : i \in 1 .. n} BY <2>1
    <2>7. Known(f)' = {queue'[f][i].case : i \in 1 .. (n + 1)} BY <2>2, <2>3
    <2> HIDE DEF n
    <2> QED BY <2>3, <2>4, <2>5, <2>6, <2>7
<1>3. ASSUME NEW g \in Fuzzers, g # f PROVE Known(g)' = Known(g)
    BY <1>1, <1>3 DEF Known
<1> QED BY <1>2, <1>3

\* The ids are numbers, and 0 is one.
LEMMA IdsAreNumbers == 0 \in Ids /\ Ids \subseteq Nat /\ \A n \in Nat, i \in Ids : n <= i => n \in Ids
<1>1. Cardinality(Cases) \in Nat BY FS_CardinalityType, SyncAssumption
<1> QED BY <1>1 DEF Ids

LEMMA NoLocType == NoLoc \in Locals
BY IdsAreNumbers, EmptySeq DEF NoLoc, Locals

LEMMA NoLocFields ==
    NoLoc.peer = None /\ NoLoc.names = <<>> /\ NoLoc.next = 0 /\ NoLoc.todo = {}
BY DEF NoLoc

-----------------------------------------------------------------------------
(***************************************************************************)
(* Steps that leave the queues alone.                                      *)
(***************************************************************************)
\* An instance goes on with the visit it was in, or has none.
Continues(f) ==
    \/ /\ loc'[f].peer = loc[f].peer /\ loc'[f].names = loc[f].names
       /\ loc'[f].next = loc[f].next
    \/ loc'[f].peer = None /\ loc'[f].names = <<>> /\ loc'[f].next = 0

SameQueues == UNCHANGED <<queue, resumed, fresh>>

LEMMA SameKnown ==
    ASSUME SameQueues PROVE \A f : Known(f)' = Known(f)
BY DEF SameQueues, Known

LEMMA QueuesKept ==
    ASSUME IInv, SameQueues PROVE Types' /\ NoneTwice' /\ ImportsKnown'
BY SameKnown, IInvParts DEF SameQueues, Types, NoneTwice, ImportsKnown

LEMMA PositionsKept ==
    ASSUME IInv, SameQueues, UNCHANGED synced PROVE Honest'
BY SameKnown, IInvParts DEF SameQueues, Honest, Covered

LEMMA FilesKept ==
    ASSUME IInv, UNCHANGED <<queue, nfiles>>
    PROVE  FileTypes' /\ \A f \in Fuzzers : nfiles[f] <= nfiles'[f]
<1>1. \A f \in Fuzzers : nfiles[f] \in Nat BY IInvParts, IdsAreNumbers DEF FileTypes
<1>2. \A f \in Fuzzers : nfiles[f] <= nfiles'[f] BY <1>1
<1>3. FileTypes' BY IInvParts DEF FileTypes
<1> QED BY <1>2, <1>3

LEMMA VisitsKept ==
    ASSUME IInv, SameQueues, FileTypes', \A f \in Fuzzers : nfiles[f] <= nfiles'[f] /\ Continues(f)
    PROVE  LocInRange' /\ NamesOnDisk' /\ ReadSoFar'
<1> USE IInvParts
<1>1. LocInRange'
    BY EmptySeq, IdsAreNumbers DEF Continues, LocInRange
<1>2. ASSUME NEW f \in Fuzzers, NEW g \in Fuzzers, loc'[f].peer = g
      PROVE  /\ loc[f].peer = g
             /\ loc'[f].names = loc[f].names /\ loc'[f].next = loc[f].next
    BY <1>2, SyncAssumption DEF Continues
<1>3. NamesOnDisk'
    <2> SUFFICES ASSUME NEW f \in Fuzzers, NEW g \in Fuzzers, loc'[f].peer = g,
                        g \notin fresh \cup resumed
                 PROVE  /\ Len(loc[f].names) <= nfiles'[g]
                        /\ \A i \in 1 .. Len(loc[f].names) : loc[f].names[i] = queue[g][i]
        BY <1>2 DEF NamesOnDisk, SameQueues
    <2>1. /\ Len(loc[f].names) <= nfiles[g]
          /\ \A i \in 1 .. Len(loc[f].names) : loc[f].names[i] = queue[g][i]
        BY <1>2 DEF NamesOnDisk
    <2>2. nfiles[g] <= nfiles'[g] /\ nfiles[g] \in Nat /\ nfiles'[g] \in Nat
        BY IdsAreNumbers DEF FileTypes
    <2>3. Len(loc[f].names) \in Nat BY IdsAreNumbers DEF LocInRange
    <2> QED BY <2>1, <2>2, <2>3
<1>4. ReadSoFar'
    BY <1>2, SameKnown DEF ReadSoFar, SameQueues
<1> QED BY <1>1, <1>3, <1>4

LEMMA TickPreserves == ASSUME IInv, Tick PROVE IInv'
<1> USE IInvParts
<1>1. SameQueues /\ UNCHANGED synced
    BY DEF Tick, procs, history, SameQueues
<1>2. \A h \in Fuzzers : Continues(h)
    BY DEF Tick, procs, history, Continues, LocTypes
<1>3. FileTypes' /\ \A h \in Fuzzers : nfiles[h] <= nfiles'[h]
    BY FilesKept DEF Tick, procs, history
<1>4. FlagTypes'
    BY DEF Tick, procs, history, FlagTypes
<1>5. PositionTypes'
    BY DEF Tick, procs, history, PositionTypes
<1>6. HistoryTypes'
    BY DEF Tick, procs, history, HistoryTypes
<1>7. LocTypes'
    BY DEF Tick, procs, history, LocTypes
<1>8. NotBeforeStart'
    BY DEF Tick, procs, history, NotBeforeStart, Existing, FlagTypes, LocTypes
<1>9. MarkedFromStart'
    BY DEF Tick, procs, history, MarkedFromStart, FlagTypes
<1> QED BY <1>1, <1>2, <1>3, <1>4, <1>5, <1>6, <1>7, <1>8, <1>9,
           QueuesKept, PositionsKept, VisitsKept, IInvNext

LEMMA PivotPreserves == ASSUME IInv, NEW f \in Fuzzers, Pivot(f) PROVE IInv'
<1> USE IInvParts
<1>1. SameQueues /\ UNCHANGED synced
    BY DEF Pivot, procs, history, SameQueues
<1>2. \A h \in Fuzzers : Continues(h)
    BY DEF Pivot, procs, history, Continues, LocTypes
<1>3. FileTypes' /\ \A h \in Fuzzers : nfiles[h] <= nfiles'[h]
    <2>1. nfiles[f] \in Nat /\ nfiles[f] + 1 <= Len(queue[f]) /\ Len(queue[f]) \in Ids
        <3>1. nfiles[f] \in Nat /\ nfiles[f] < Len(queue[f])
            BY IdsAreNumbers DEF Pivot, FileTypes
        <3>2. Len(queue[f]) \in Ids BY QueueBound DEF Types, NoneTwice
        <3>3. Len(queue[f]) \in Nat BY <3>2, IdsAreNumbers
        <3> QED BY <3>1, <3>2, <3>3
    <2>2. nfiles[f] + 1 \in Ids BY <2>1, IdsAreNumbers
    <2>3. nfiles' = [nfiles EXCEPT ![f] = nfiles[f] + 1] /\ UNCHANGED queue BY DEF Pivot
    <2>4. \A h \in Fuzzers : nfiles[h] \in Nat BY IdsAreNumbers DEF FileTypes
    <2> QED BY <2>1, <2>2, <2>3, <2>4 DEF FileTypes
<1>4. FlagTypes'
    BY DEF Pivot, procs, history, FlagTypes
<1>5. PositionTypes'
    BY DEF Pivot, procs, history, PositionTypes
<1>6. HistoryTypes'
    BY DEF Pivot, procs, history, HistoryTypes
<1>7. LocTypes'
    BY DEF Pivot, procs, history, LocTypes
<1>8. NotBeforeStart'
    BY DEF Pivot, procs, history, NotBeforeStart, Existing, FlagTypes, LocTypes
<1>9. MarkedFromStart'
    BY DEF Pivot, procs, history, MarkedFromStart, FlagTypes
<1> QED BY <1>1, <1>2, <1>3, <1>4, <1>5, <1>6, <1>7, <1>8, <1>9,
           QueuesKept, PositionsKept, VisitsKept, IInvNext

LEMMA CheckSyncPreserves == ASSUME IInv, NEW f \in Fuzzers, CheckSync(f) PROVE IInv'
<1> USE IInvParts
<1>1. SameQueues /\ UNCHANGED synced
    BY DEF CheckSync, history, SameQueues
<1>2. \A h \in Fuzzers : Continues(h)
    BY DEF CheckSync, history, Continues, LocTypes
<1>3. FileTypes' /\ \A h \in Fuzzers : nfiles[h] <= nfiles'[h]
    BY FilesKept DEF CheckSync, history
<1>4. FlagTypes'
    <2>1. marker' \in [Fuzzers -> BOOLEAN]
        BY DEF CheckSync, FlagTypes, Existing
    <2>2. is_main_node' \in [Fuzzers -> BOOLEAN]
        BY DEF CheckSync, FlagTypes
    <2> QED BY <2>1, <2>2 DEF CheckSync, FlagTypes
<1>5. PositionTypes'
    <2>1. \A g \in Fuzzers : nfiles[g] > 0 => nfiles[g] - 1 \in Ids
        <3> SUFFICES ASSUME NEW g \in Fuzzers, nfiles[g] > 0 PROVE nfiles[g] - 1 \in Ids
            OBVIOUS
        <3>1. nfiles[g] \in Ids BY DEF FileTypes
        <3>2. nfiles[g] \in Nat BY <3>1, IdsAreNumbers
        <3>3. nfiles[g] - 1 \in Nat /\ nfiles[g] - 1 <= nfiles[g] BY <3>2
        <3> QED BY <3>1, <3>3, IdsAreNumbers
    <2>2. maxid' \in [Fuzzers -> [Fuzzers -> Ids]]
        <3> DEFINE seen == [g \in Fuzzers |-> IF g \in Existing \ {f} /\ nfiles[g] > 0
                                             THEN nfiles[g] - 1 ELSE 0]
        <3>1. seen \in [Fuzzers -> Ids] BY <2>1, IdsAreNumbers
        <3>2. maxid' = maxid \/ maxid' = [maxid EXCEPT ![f] = seen] BY DEF CheckSync
        <3> HIDE DEF seen
        <3> QED BY <3>1, <3>2 DEF PositionTypes
    <2> QED BY <2>2 DEF CheckSync, PositionTypes
<1>6. HistoryTypes'
    BY DEF CheckSync, history, HistoryTypes
<1>7. LocTypes'
    BY DEF CheckSync, history, LocTypes
<1>8. NotBeforeStart'
    BY DEF CheckSync, history, NotBeforeStart, Existing, FlagTypes, LocTypes
<1>9. MarkedFromStart'
    <2>1. \A h \in Fuzzers : marker[h] => marker'[h]
        BY DEF CheckSync, FlagTypes, Existing
    <2>2. \A h \in Fuzzers : state'[h] # "down" => state[h] # "down"
        BY DEF CheckSync, FlagTypes
    <2> QED BY <2>1, <2>2, SyncAssumption DEF MarkedFromStart
<1> QED BY <1>1, <1>2, <1>3, <1>4, <1>5, <1>6, <1>7, <1>8, <1>9,
           QueuesKept, PositionsKept, VisitsKept, IInvNext

LEMMA StopPreserves == ASSUME IInv, NEW f \in Fuzzers, Stop(f) PROVE IInv'
<1> USE IInvParts
<1>1. SameQueues /\ UNCHANGED synced
    BY DEF Stop, Exit, SameQueues
<1>2. \A h \in Fuzzers : Continues(h)
    BY NoLocFields DEF Stop, Exit, Continues, LocTypes
<1>3. FileTypes' /\ \A h \in Fuzzers : nfiles[h] <= nfiles'[h]
    BY FilesKept DEF Stop, Exit
<1>4. FlagTypes'
    BY DEF Stop, Exit, FlagTypes
<1>5. PositionTypes'
    BY DEF Stop, Exit, PositionTypes
<1>6. HistoryTypes'
    <2>1. ends \in Nat /\ ends < MaxEnds /\ ends' = ends + 1 BY DEF Stop, Exit, HistoryTypes
    <2>2. ends' \in 0 .. MaxEnds BY <2>1, SyncAssumption
    <2> QED BY <2>2 DEF Stop, Exit, HistoryTypes
<1>7. LocTypes'
    BY NoLocType DEF Stop, Exit, LocTypes
<1>8. NotBeforeStart'
    <2>1. \A h \in Fuzzers : state[h] = "down" => state'[h] = "down"
        BY DEF Stop, Exit, FlagTypes
    <2>2. \A g, h \in Fuzzers : /\ loc[g].peer # h => loc'[g].peer # h
                                /\ h \notin loc[g].todo => h \notin loc'[g].todo
        BY NoLocFields, SyncAssumption DEF Stop, Exit, LocTypes
    <2>3. UNCHANGED <<queue, synced, cmdline>> BY DEF Stop, Exit
    <2> QED BY <2>1, <2>2, <2>3 DEF NotBeforeStart, Existing
<1>9. MarkedFromStart'
    BY DEF Stop, Exit, MarkedFromStart, FlagTypes
<1> QED BY <1>1, <1>2, <1>3, <1>4, <1>5, <1>6, <1>7, <1>8, <1>9,
           QueuesKept, PositionsKept, VisitsKept, IInvNext

LEMMA CrashPreserves == ASSUME IInv, NEW f \in Fuzzers, Crash(f) PROVE IInv'
<1> USE IInvParts
<1>1. SameQueues /\ UNCHANGED synced
    BY DEF Crash, Exit, SameQueues
<1>2. \A h \in Fuzzers : Continues(h)
    BY NoLocFields DEF Crash, Exit, Continues, LocTypes
<1>3. FileTypes' /\ \A h \in Fuzzers : nfiles[h] <= nfiles'[h]
    BY FilesKept DEF Crash, Exit
<1>4. FlagTypes'
    BY DEF Crash, Exit, FlagTypes
<1>5. PositionTypes'
    BY DEF Crash, Exit, PositionTypes
<1>6. HistoryTypes'
    <2>1. ends \in Nat /\ ends < MaxEnds /\ ends' = ends + 1 BY DEF Crash, Exit, HistoryTypes
    <2>2. ends' \in 0 .. MaxEnds BY <2>1, SyncAssumption
    <2> QED BY <2>2 DEF Crash, Exit, HistoryTypes
<1>7. LocTypes'
    BY NoLocType DEF Crash, Exit, LocTypes
<1>8. NotBeforeStart'
    <2>1. \A h \in Fuzzers : state[h] = "down" => state'[h] = "down"
        BY DEF Crash, Exit, FlagTypes
    <2>2. \A g, h \in Fuzzers : /\ loc[g].peer # h => loc'[g].peer # h
                                /\ h \notin loc[g].todo => h \notin loc'[g].todo
        BY NoLocFields, SyncAssumption DEF Crash, Exit, LocTypes
    <2>3. UNCHANGED <<queue, synced, cmdline>> BY DEF Crash, Exit
    <2> QED BY <2>1, <2>2, <2>3 DEF NotBeforeStart, Existing
<1>9. MarkedFromStart'
    BY DEF Crash, Exit, MarkedFromStart, FlagTypes
<1> QED BY <1>1, <1>2, <1>3, <1>4, <1>5, <1>6, <1>7, <1>8, <1>9,
           QueuesKept, PositionsKept, VisitsKept, IInvNext

LEMMA SyncBeginPreserves == ASSUME IInv, NEW f \in Fuzzers, SyncBegin(f) PROVE IInv'
<1> USE IInvParts
<1>1. SameQueues /\ UNCHANGED synced
    BY DEF SyncBegin, dirs, history, SameQueues
<1>2. \A h \in Fuzzers : Continues(h)
    <2>1. \A h \in Fuzzers : h # f => loc'[h] = loc[h] BY DEF SyncBegin, LocTypes
    <2>2. loc'[f].peer = None /\ loc'[f].names = <<>> /\ loc'[f].next = 0
        BY DEF SyncBegin, LocTypes, NoLoc
    <2> QED BY <2>1, <2>2 DEF Continues
<1>3. FileTypes' /\ \A h \in Fuzzers : nfiles[h] <= nfiles'[h]
    BY FilesKept DEF SyncBegin, dirs, history
<1>4. FlagTypes'
    BY DEF SyncBegin, dirs, history, FlagTypes
<1>5. PositionTypes'
    BY DEF SyncBegin, dirs, history, PositionTypes
<1>6. HistoryTypes'
    BY DEF SyncBegin, dirs, history, HistoryTypes
<1>7. LocTypes'
    <2>1. [NoLoc EXCEPT !.todo = Existing \ {f}, !.entries = Existing # {f}] \in Locals
        BY NoLocType DEF Locals, Existing
    <2> QED BY <2>1 DEF SyncBegin, LocTypes
<1>8. NotBeforeStart'
    <2>1. \A h \in Fuzzers : h # f => loc'[h] = loc[h] BY DEF SyncBegin, LocTypes
    <2>2. loc'[f].peer = None /\ loc'[f].todo = Existing \ {f}
        BY DEF SyncBegin, LocTypes, NoLoc
    <2>3. UNCHANGED <<queue, synced, cmdline>> BY DEF SyncBegin, dirs
    <2>4. \A h \in Fuzzers : state[h] = "down" => state'[h] = "down"
        BY DEF SyncBegin, FlagTypes
    <2> QED BY <2>1, <2>2, <2>3, <2>4, SyncAssumption DEF NotBeforeStart, Existing
<1>9. MarkedFromStart'
    BY DEF SyncBegin, dirs, history, MarkedFromStart, FlagTypes
<1> QED BY <1>1, <1>2, <1>3, <1>4, <1>5, <1>6, <1>7, <1>8, <1>9,
           QueuesKept, PositionsKept, VisitsKept, IInvNext

LEMMA SkipPeerPreserves == ASSUME IInv, NEW f \in Fuzzers, NEW g \in Fuzzers, SkipPeer(f, g) PROVE IInv'
<1> USE IInvParts
<1>1. SameQueues /\ UNCHANGED synced
    BY DEF SkipPeer, dirs, history, SameQueues
<1>2. \A h \in Fuzzers : Continues(h)
    BY DEF SkipPeer, dirs, history, Continues, LocTypes
<1>3. FileTypes' /\ \A h \in Fuzzers : nfiles[h] <= nfiles'[h]
    BY FilesKept DEF SkipPeer, dirs, history
<1>4. FlagTypes'
    BY DEF SkipPeer, dirs, history, FlagTypes
<1>5. PositionTypes'
    BY DEF SkipPeer, dirs, history, PositionTypes
<1>6. HistoryTypes'
    BY DEF SkipPeer, dirs, history, HistoryTypes
<1>7. LocTypes'
    <2>1. [loc[f] EXCEPT !.todo = @ \ {g}] \in Locals BY DEF LocTypes, Locals
    <2>2. loc' = [loc EXCEPT ![f] = [loc[f] EXCEPT !.todo = @ \ {g}]] BY DEF SkipPeer
    <2> QED BY <2>1, <2>2 DEF LocTypes
<1>8. NotBeforeStart'
    BY DEF SkipPeer, dirs, history, NotBeforeStart, Existing, FlagTypes, LocTypes
<1>9. MarkedFromStart'
    BY DEF SkipPeer, dirs, history, MarkedFromStart, FlagTypes
<1> QED BY <1>1, <1>2, <1>3, <1>4, <1>5, <1>6, <1>7, <1>8, <1>9,
           QueuesKept, PositionsKept, VisitsKept, IInvNext

LEMMA SyncEndPreserves == ASSUME IInv, NEW f \in Fuzzers, SyncEnd(f) PROVE IInv'
<1> USE IInvParts
<1>1. SameQueues /\ UNCHANGED synced
    BY DEF SyncEnd, history, SameQueues
<1>2. \A h \in Fuzzers : Continues(h)
    BY NoLocFields DEF SyncEnd, history, Continues, LocTypes
<1>3. FileTypes' /\ \A h \in Fuzzers : nfiles[h] <= nfiles'[h]
    BY FilesKept DEF SyncEnd, history
<1>4. FlagTypes'
    BY DEF SyncEnd, history, FlagTypes
<1>5. PositionTypes'
    BY DEF SyncEnd, history, PositionTypes
<1>6. HistoryTypes'
    BY DEF SyncEnd, history, HistoryTypes
<1>7. LocTypes'
    BY NoLocType DEF SyncEnd, history, LocTypes
<1>8. NotBeforeStart'
    BY NoLocFields, SyncAssumption DEF SyncEnd, history, NotBeforeStart, Existing, FlagTypes,
       LocTypes
<1>9. MarkedFromStart'
    BY DEF SyncEnd, history, MarkedFromStart, FlagTypes
<1> QED BY <1>1, <1>2, <1>3, <1>4, <1>5, <1>6, <1>7, <1>8, <1>9,
           QueuesKept, PositionsKept, VisitsKept, IInvNext

LEMMA SyncSavePreserves == ASSUME IInv, NEW f \in Fuzzers, SyncSave(f) PROVE IInv'
<1> USE IInvParts
<1> DEFINE g == loc[f].peer
<1>1. SameQueues /\ UNCHANGED <<queue, nfiles>> BY DEF SyncSave, history, SameQueues
<1>2. g \in Fuzzers /\ loc[f].next = Len(loc[f].names) /\ loc[f].next \in Ids
    BY DEF SyncSave, LocTypes, Locals
<1>3. synced' = [synced EXCEPT ![f][g] = loc[f].next] BY DEF SyncSave
<1>4. loc' = [loc EXCEPT ![f] = [loc[f] EXCEPT !.peer = None, !.names = <<>>, !.next = 0, !.max = 0]]
    BY DEF SyncSave
<1>5. FlagTypes' /\ HistoryTypes' BY DEF SyncSave, FlagTypes, HistoryTypes, history
<1>6. PositionTypes'
    <2>1. synced' \in [Fuzzers -> [Fuzzers -> Ids]] BY <1>2, <1>3 DEF PositionTypes
    <2> QED BY <2>1 DEF SyncSave, PositionTypes
<1>7. LocTypes'
    <2>1. [loc[f] EXCEPT !.peer = None, !.names = <<>>, !.next = 0, !.max = 0] \in Locals
        <3>1. 0 \in Ids /\ <<>> \in Seq(Entries) BY IdsAreNumbers, EmptySeq
        <3>2. loc[f] \in Locals BY DEF LocTypes
        <3> QED BY <3>1, <3>2 DEF Locals
    <2> QED BY <1>4, <2>1 DEF LocTypes
<1>8. \A h \in Fuzzers : h # f => loc'[h] = loc[h] BY <1>4 DEF LocTypes
<1>9. /\ loc'[f].peer = None /\ loc'[f].names = <<>> /\ loc'[f].next = 0
      /\ loc'[f].todo = loc[f].todo
    BY <1>4 DEF LocTypes, Locals
<1>10. \A h \in Fuzzers : Continues(h) BY <1>8, <1>9 DEF Continues
<1>11. Honest'
    <2> SUFFICES ASSUME NEW h \in Fuzzers, NEW p \in Fuzzers, h \notin fresh, p \notin fresh \cup resumed
                 PROVE  Covered(h, p)'
        BY <1>1 DEF Honest, SameQueues
    <2>1. CASE h = f /\ p = g
        <3>1. synced'[h][p] = loc[f].next BY <1>2, <1>3, <2>1 DEF PositionTypes
        <3>2. \A i \in 1 .. loc[f].next : queue[p][i].case \in Known(h)
            BY <2>1 DEF ReadSoFar
        <3>3. loc[f].next <= Len(queue[p])
            <4>1. Len(loc[f].names) <= nfiles[p] /\ nfiles[p] <= Len(queue[p])
                BY <2>1 DEF NamesOnDisk, FileTypes
            <4>2. Len(loc[f].names) \in Nat /\ nfiles[p] \in Nat
                BY <1>2, IdsAreNumbers DEF FileTypes
            <4>3. Len(queue[p]) \in Nat BY QueueIndices
            <4> QED BY <1>2, <4>1, <4>2, <4>3
        <3>4. loc[f].next \in Nat /\ Len(queue[p]) \in Nat BY <1>2, IdsAreNumbers, QueueIndices
        <3>5. \A i \in 1 .. loc[f].next : i <= Len(queue[p]) BY <3>3, <3>4
        <3> QED BY <1>1, <3>1, <3>2, <3>5, SameKnown DEF Covered
    <2>2. CASE ~(h = f /\ p = g)
        <3>1. synced'[h][p] = synced[h][p] BY <1>2, <1>3, <2>2 DEF PositionTypes
        <3>2. Covered(h, p) BY DEF Honest
        <3> QED BY <1>1, <3>1, <3>2, SameKnown DEF Covered
    <2> QED BY <2>1, <2>2
<1>12. NotBeforeStart'
    <2>1. UNCHANGED <<cmdline, state>> BY DEF SyncSave
    <2>2. \A h, p \in Fuzzers : p # g => synced'[h][p] = synced[h][p]
        BY <1>2, <1>3 DEF PositionTypes
    <2>3. g \in Existing BY <1>2 DEF NotBeforeStart
    <2> QED BY <1>1, <1>8, <1>9, <2>1, <2>2, <2>3, SyncAssumption DEF NotBeforeStart, Existing
<1>13. MarkedFromStart' BY DEF SyncSave, MarkedFromStart
<1> QED BY <1>1, <1>5, <1>6, <1>7, <1>10, <1>11, <1>12, <1>13,
           QueuesKept, FilesKept, VisitsKept, IInvNext

LEMMA SetOne ==
    ASSUME NEW m \in [Fuzzers -> [Fuzzers -> Ids]], NEW f \in Fuzzers, NEW g \in Fuzzers, NEW i \in Ids
    PROVE  [m EXCEPT ![f][g] = i] \in [Fuzzers -> [Fuzzers -> Ids]]
OBVIOUS

LEMMA DemoteKeeps ==
    ASSUME IInv, NEW f \in Fuzzers, NEW g \in Fuzzers, Demote(f, g), UNCHANGED state
    PROVE  /\ marker' \in [Fuzzers -> BOOLEAN] /\ is_main_node' \in [Fuzzers -> BOOLEAN]
           /\ MarkedFromStart'
<1> USE IInvParts
<1>1. \A m \in Mains : marker'[m] = marker[m] BY SyncAssumption DEF Demote, FlagTypes
<1> QED BY <1>1 DEF Demote, FlagTypes, MarkedFromStart

LEMMA VisitPeerPreserves ==
    ASSUME IInv, NEW f \in Fuzzers, NEW g \in Fuzzers, VisitPeer(f, g) PROVE IInv'
<1> USE IInvParts
<1> DEFINE names == SubSeq(queue[g], 1, nfiles[g])
           open  == ~SeemsRestarted(g) /\ synced[f][g] < Len(names)
           l     == [loc[f] EXCEPT !.todo = @ \ {g}, !.any = TRUE,
                                   !.peer = IF open THEN g ELSE None,
                                   !.names = IF open THEN names ELSE <<>>,
                                   !.next = IF open THEN synced[f][g] ELSE 0,
                                   !.max = IF open THEN maxid[f][g] ELSE 0]
<1>1. SameQueues /\ UNCHANGED <<queue, nfiles, cmdline, state>>
    BY DEF VisitPeer, history, SameQueues
<1>2. loc' = [loc EXCEPT ![f] = l] BY DEF VisitPeer, LocTypes, Locals
<1>3. g \in Existing BY DEF VisitPeer, NotBeforeStart
<1>4. /\ names \in Seq(Entries) /\ Len(names) = nfiles[g]
      /\ \A i \in 1 .. Len(names) : names[i] = queue[g][i]
    <2>1. queue[g] \in Seq(Entries) BY DEF Types
    <2>2. nfiles[g] \in Nat /\ nfiles[g] <= Len(queue[g]) BY IdsAreNumbers DEF FileTypes
    <2>3. Len(queue[g]) \in Nat /\ \A i \in 1 .. Len(queue[g]) : queue[g][i] \in Entries
        BY QueueIndices
    <2>4. \A i \in 1 .. nfiles[g] : queue[g][i] \in Entries BY <2>2, <2>3
    <2> DEFINE n == nfiles[g]
    <2>5. n \in Nat BY <2>2
    <2> HIDE DEF n
    <2>6. \A i \in 1 .. n : queue[g][i] \in Entries BY <2>4 DEF n
    <2>7. /\ SubSeq(queue[g], 1, n) \in Seq(Entries)
          /\ Len(SubSeq(queue[g], 1, n)) = IF 1 <= n THEN n - 1 + 1 ELSE 0
          /\ \A i \in 1 .. (n - 1 + 1) : SubSeq(queue[g], 1, n)[i] = queue[g][1 + i - 1]
        BY <2>5, <2>6, SubSeqProperties
    <2>8. Len(SubSeq(queue[g], 1, n)) = n BY <2>5, <2>7
    <2>9. \A i \in 1 .. n : SubSeq(queue[g], 1, n)[i] = queue[g][i] BY <2>5, <2>7
    <2> QED BY <2>7, <2>8, <2>9 DEF n
<1>5. synced[f][g] \in Ids /\ maxid[f][g] \in Ids /\ nfiles[g] \in Ids
    BY DEF PositionTypes, FileTypes
<1> HIDE DEF names
<1>6. l \in Locals
    <2>1. 0 \in Ids /\ <<>> \in Seq(Entries) BY IdsAreNumbers, EmptySeq
    <2>2. loc[f] \in Locals BY DEF LocTypes
    <2>3. names \in Seq(Entries) BY <1>4
    <2> HIDE DEF open
    <2> QED BY <1>5, <2>1, <2>2, <2>3 DEF Locals
<1>7. LocTypes' BY <1>2, <1>6 DEF LocTypes
<1>8. \A h \in Fuzzers : h # f => loc'[h] = loc[h] BY <1>2 DEF LocTypes
<1>9. /\ loc'[f].todo = loc[f].todo \ {g}
      /\ \/ ~open /\ loc'[f].peer = None /\ loc'[f].names = <<>> /\ loc'[f].next = 0
         \/ open /\ loc'[f].peer = g /\ loc'[f].names = names /\ loc'[f].next = synced[f][g]
    BY <1>2 DEF LocTypes, Locals
<1> HIDE DEF l
<1>10. FlagTypes' /\ MarkedFromStart'
    BY <1>1, DemoteKeeps DEF VisitPeer, FlagTypes
<1>11. synced' = [synced EXCEPT ![f][g] = 0] \/ synced' = synced
    BY DEF VisitPeer, PositionTypes
<1>12. maxid' = [maxid EXCEPT ![f][g] = 0] \/ maxid' = maxid
    BY DEF VisitPeer, PositionTypes
<1>13. PositionTypes'
    <2>1. 0 \in Ids BY IdsAreNumbers
    <2>2. synced \in [Fuzzers -> [Fuzzers -> Ids]] /\ maxid \in [Fuzzers -> [Fuzzers -> Ids]]
        BY DEF PositionTypes
    <2>3. /\ [synced EXCEPT ![f][g] = 0] \in [Fuzzers -> [Fuzzers -> Ids]]
          /\ [maxid EXCEPT ![f][g] = 0] \in [Fuzzers -> [Fuzzers -> Ids]]
        BY <2>1, <2>2, SetOne
    <2> QED BY <1>11, <1>12, <2>2, <2>3 DEF PositionTypes
<1>14. HistoryTypes' BY DEF VisitPeer, HistoryTypes, history
<1>15. \A h, p \in Fuzzers : synced'[h][p] = synced[h][p] \/ synced'[h][p] = 0
    BY <1>11 DEF PositionTypes
<1>16. Honest'
    <2> SUFFICES ASSUME NEW h \in Fuzzers, NEW p \in Fuzzers, h \notin fresh, p \notin fresh \cup resumed
                 PROVE  Covered(h, p)'
        BY <1>1 DEF Honest, SameQueues
    <2>1. Covered(h, p) BY DEF Honest
    <2> QED BY <1>1, <1>15, <2>1, SameKnown DEF Covered
<1>17. NotBeforeStart'
    BY <1>1, <1>3, <1>8, <1>9, <1>15, SyncAssumption DEF NotBeforeStart, Existing
<1>18. LocInRange'
    <2>1. ASSUME open PROVE synced[f][g] <= Len(names) /\ Len(names) \in Ids
        <3>1. synced[f][g] \in Nat /\ nfiles[g] \in Nat BY <1>5, IdsAreNumbers
        <3> QED BY <1>4, <1>5, <2>1, <3>1
    <2>2. 0 <= Len(<<>>) /\ Len(<<>>) \in Ids BY EmptySeq, IdsAreNumbers
    <2> QED BY <1>8, <1>9, <2>1, <2>2 DEF LocInRange
<1>19. NamesOnDisk'
    <2> SUFFICES ASSUME NEW h \in Fuzzers, NEW p \in Fuzzers, loc'[h].peer = p,
                        p \notin fresh \cup resumed
                 PROVE  /\ Len(loc'[h].names) <= nfiles[p]
                        /\ \A i \in 1 .. Len(loc'[h].names) : loc'[h].names[i] = queue[p][i]
        BY <1>1 DEF NamesOnDisk, SameQueues
    <2>1. CASE h # f BY <1>8, <2>1 DEF NamesOnDisk
    <2>2. CASE h = f
        <3>1. open /\ p = g /\ loc'[h].names = names BY <1>9, <2>2, SyncAssumption
        <3>2. nfiles[g] <= nfiles[g]
            <4>1. nfiles[g] \in Nat BY <1>5, IdsAreNumbers
            <4> QED BY <4>1
        <3> QED BY <1>4, <3>1, <3>2
    <2> QED BY <2>1, <2>2
<1>20. ReadSoFar'
    <2> SUFFICES ASSUME NEW h \in Fuzzers, NEW p \in Fuzzers, loc'[h].peer = p,
                        h \notin fresh, p \notin fresh \cup resumed
                 PROVE  \A i \in 1 .. loc'[h].next : queue[p][i].case \in Known(h)
        BY <1>1, SameKnown DEF ReadSoFar, SameQueues
    <2>1. CASE h # f BY <1>8, <2>1 DEF ReadSoFar
    <2>2. CASE h = f
        <3>1. p = g /\ loc'[h].next = synced[f][g] BY <1>9, <2>2, SyncAssumption
        <3>2. Covered(f, g) BY <2>2, <3>1 DEF Honest
        <3> QED BY <2>2, <3>1, <3>2 DEF Covered
    <2> QED BY <2>1, <2>2
<1> QED BY <1>1, <1>7, <1>10, <1>13, <1>14, <1>16, <1>17, <1>18, <1>19, <1>20,
           QueuesKept, FilesKept, IInvNext

-----------------------------------------------------------------------------
(***************************************************************************)
(* Steps that add an entry to a queue.                                     *)
(***************************************************************************)
LEMMA OneLonger ==
    ASSUME NEW n \in Nat, NEW i \in 1 .. (n + 1), i \notin 1 .. n PROVE i = n + 1
OBVIOUS

\* A test case the instance does not have is saved; if it came from a peer,
\* the peer has it.
LEMMA AddedPreserves ==
    ASSUME IInv, NEW f \in Fuzzers, NEW e \in Entries,
           queue' = [queue EXCEPT ![f] = Append(@, e)],
           nfiles' = [nfiles EXCEPT ![f] = @ + 1],
           e.case \notin Known(f),
           e.from # None => e.case \in Known(e.from),
           UNCHANGED <<synced, fresh, resumed>>
    PROVE  /\ Types' /\ FileTypes' /\ NoneTwice' /\ ImportsKnown' /\ Honest'
           /\ \A g \in Fuzzers : /\ Known(g) \subseteq Known(g)'
                                 /\ nfiles[g] <= nfiles'[g]
                                 /\ \A i \in 1 .. Len(queue[g]) : queue'[g][i] = queue[g][i]
           /\ Known(f)' = Known(f) \cup {e.case}
<1> USE IInvParts
<1> DEFINE n == Len(queue[f])
<1>1. /\ Types' /\ \A g \in Fuzzers : g # f => queue'[g] = queue[g]
      /\ Len(queue'[f]) = n + 1 /\ queue'[f][n + 1] = e
      /\ \A i \in 1 .. n : queue'[f][i] = queue[f][i]
    BY Appended
<1>2. n \in Nat /\ DOMAIN queue[f] = 1 .. n BY QueueIndices
<1>3. \A g \in Fuzzers : DOMAIN queue'[g] = 1 .. Len(queue'[g]) /\ Len(queue'[g]) \in Nat
    BY <1>1, LenProperties DEF Types
<1>4. DOMAIN queue'[f] = 1 .. (n + 1) BY <1>1, <1>3
<1>5. Known(f)' = Known(f) \cup {e.case} /\ \A g \in Fuzzers : Known(g) \subseteq Known(g)'
    BY KnownGrows
<1>6. \A i \in 1 .. n : queue[f][i].case \in Known(f) BY <1>2 DEF Known
<1> HIDE DEF n
<1>7. NoneTwice'
    <2> SUFFICES ASSUME NEW g \in Fuzzers, NEW i \in DOMAIN queue'[g], NEW j \in DOMAIN queue'[g],
                        queue'[g][i].case = queue'[g][j].case
                 PROVE  i = j
        BY DEF NoneTwice
    <2>1. CASE g # f BY <1>1, <2>1 DEF NoneTwice
    <2>2. CASE g = f
        <3>1. i \in 1 .. (n + 1) /\ j \in 1 .. (n + 1) BY <1>4, <2>2
        <3>2. CASE i \in 1 .. n /\ j \in 1 .. n BY <1>1, <1>2, <2>2, <3>2 DEF NoneTwice
        <3>3. CASE i \in 1 .. n /\ j \notin 1 .. n
            <4>1. j = n + 1 BY <1>2, <3>1, <3>3, OneLonger
            <4>2. queue'[f][i].case \in Known(f) BY <1>1, <1>6, <3>3
            <4> QED BY <1>1, <2>2, <4>1, <4>2
        <3>4. CASE i \notin 1 .. n /\ j \in 1 .. n
            <4>1. i = n + 1 BY <1>2, <3>1, <3>4, OneLonger
            <4>2. queue'[f][j].case \in Known(f) BY <1>1, <1>6, <3>4
            <4> QED BY <1>1, <2>2, <4>1, <4>2
        <3>5. CASE i \notin 1 .. n /\ j \notin 1 .. n
            BY <1>2, <3>1, <3>5, OneLonger
        <3> QED BY <3>2, <3>3, <3>4, <3>5
    <2> QED BY <2>1, <2>2
<1>8. ImportsKnown'
    <2> SUFFICES ASSUME NEW h \in Fuzzers, NEW g \in Fuzzers, h \notin fresh,
                        NEW i \in DOMAIN queue'[g], queue'[g][i].from = h
                 PROVE  queue'[g][i].case \in Known(h)'
        BY DEF ImportsKnown
    <2>1. CASE g # f BY <1>1, <1>5, <2>1 DEF ImportsKnown
    <2>2. CASE g = f /\ i \in 1 .. n
        <3>1. queue'[g][i] = queue[f][i] /\ i \in DOMAIN queue[f] BY <1>1, <1>2, <2>2
        <3> QED BY <1>5, <2>2, <3>1 DEF ImportsKnown
    <2>3. CASE g = f /\ i \notin 1 .. n
        <3>1. i = n + 1 BY <1>2, <1>4, <2>3, OneLonger
        <3>2. queue'[g][i] = e BY <1>1, <2>3, <3>1
        <3>3. e.case \in Known(h) BY <3>2, SyncAssumption
        <3> QED BY <1>5, <3>2, <3>3
    <2> QED BY <2>1, <2>2, <2>3
<1>9. \A g \in Fuzzers : \A i \in 1 .. Len(queue[g]) : queue'[g][i] = queue[g][i]
    BY <1>1 DEF n
<1>10. \A g \in Fuzzers : Len(queue[g]) \in Nat /\ Len(queue[g]) <= Len(queue'[g])
    <2> SUFFICES ASSUME NEW g \in Fuzzers
                 PROVE  Len(queue[g]) \in Nat /\ Len(queue[g]) <= Len(queue'[g])
        OBVIOUS
    <2>1. Len(queue[g]) \in Nat BY QueueIndices
    <2>2. CASE g # f BY <1>1, <2>1, <2>2
    <2>3. CASE g = f
        <3>1. n <= n + 1 BY <1>2
        <3> QED BY <1>1, <1>2, <2>3, <3>1 DEF n
    <2> QED BY <2>1, <2>2, <2>3
<1>11. Honest'
    <2> SUFFICES ASSUME NEW h \in Fuzzers, NEW p \in Fuzzers, h \notin fresh, p \notin fresh \cup resumed
                 PROVE  Covered(h, p)'
        BY DEF Honest
    <2> SUFFICES ASSUME NEW i \in 1 .. synced[h][p]
                 PROVE  i <= Len(queue'[p]) /\ queue'[p][i].case \in Known(h)'
        BY DEF Covered
    <2>1. i <= Len(queue[p]) /\ queue[p][i].case \in Known(h) BY DEF Honest, Covered
    <2>2. synced[h][p] \in Nat BY IdsAreNumbers DEF PositionTypes
    <2>3. i \in Nat /\ 1 <= i BY <2>2
    <2>4. Len(queue[p]) \in Nat /\ Len(queue'[p]) \in Nat /\ Len(queue[p]) <= Len(queue'[p])
        BY <1>3, <1>10
    <2>5. i <= Len(queue'[p]) /\ i \in 1 .. Len(queue[p]) BY <2>1, <2>3, <2>4
    <2> QED BY <1>5, <1>9, <2>1, <2>5
<1>12. FileTypes' /\ \A g \in Fuzzers : nfiles[g] <= nfiles'[g]
    <2>1. \A g \in Fuzzers : nfiles[g] \in Nat /\ nfiles[g] <= Len(queue[g])
        BY IdsAreNumbers DEF FileTypes
    <2>2. nfiles[f] + 1 <= n + 1 BY <1>2, <2>1 DEF n
    <2>3. n + 1 \in Ids
        <3>1. queue'[f] \in Seq(Entries) BY <1>1 DEF Types
        <3>2. \A i, j \in DOMAIN queue'[f] : queue'[f][i].case = queue'[f][j].case => i = j
            BY <1>7 DEF NoneTwice
        <3> QED BY <1>1, <3>1, <3>2, QueueBound
    <2>4. nfiles[f] + 1 \in Nat BY <2>1
    <2>5. nfiles[f] + 1 \in Ids BY <2>2, <2>3, <2>4, IdsAreNumbers
    <2>6. nfiles' \in [Fuzzers -> Ids] BY <2>5 DEF FileTypes
    <2>7. \A g \in Fuzzers : nfiles'[g] <= Len(queue'[g]) BY <1>1, <2>1, <2>2 DEF FileTypes
    <2>8. \A g \in Fuzzers : nfiles[g] <= nfiles'[g] BY <2>1 DEF FileTypes
    <2> QED BY <2>6, <2>7, <2>8 DEF FileTypes
<1> QED BY <1>1, <1>5, <1>7, <1>8, <1>9, <1>11, <1>12

\* What an instance has read of a peer that was not restarted is in its queue.
LEMMA ReadIsThere ==
    ASSUME IInv, NEW f \in Fuzzers, NEW g \in Fuzzers, loc[f].peer = g, g \notin fresh \cup resumed
    PROVE  /\ \A i \in 1 .. loc[f].next : i \in 1 .. Len(queue[g])
           /\ \A i \in 1 .. Len(loc[f].names) : i \in 1 .. Len(queue[g])
<1> USE IInvParts
<1>1. Len(loc[f].names) <= nfiles[g] /\ loc[f].next <= Len(loc[f].names) /\ nfiles[g] <= Len(queue[g])
    BY DEF NamesOnDisk, LocInRange, FileTypes
<1>2. Len(loc[f].names) \in Nat /\ nfiles[g] \in Nat /\ loc[f].next \in Nat
    BY IdsAreNumbers DEF LocInRange, FileTypes, LocTypes, Locals
<1>3. Len(queue[g]) \in Nat BY QueueIndices
<1> QED BY <1>1, <1>2, <1>3

\* Queues that only grow leave the names read from them valid.
LEMMA NamesKept ==
    ASSUME IInv, FileTypes', UNCHANGED <<resumed, fresh>>,
           \A f \in Fuzzers : loc'[f].peer = loc[f].peer /\ loc'[f].names = loc[f].names,
           \A g \in Fuzzers : /\ nfiles[g] <= nfiles'[g]
                              /\ \A i \in 1 .. Len(queue[g]) : queue'[g][i] = queue[g][i]
    PROVE  NamesOnDisk'
<1> USE IInvParts
<1> SUFFICES ASSUME NEW f \in Fuzzers, NEW g \in Fuzzers, loc[f].peer = g, g \notin fresh \cup resumed
             PROVE  /\ Len(loc[f].names) <= nfiles'[g]
                    /\ \A i \in 1 .. Len(loc[f].names) : loc[f].names[i] = queue'[g][i]
    BY DEF NamesOnDisk
<1>1. /\ Len(loc[f].names) <= nfiles[g]
      /\ \A i \in 1 .. Len(loc[f].names) : loc[f].names[i] = queue[g][i]
    BY DEF NamesOnDisk
<1>2. Len(loc[f].names) \in Nat /\ nfiles[g] \in Nat /\ nfiles'[g] \in Nat /\ nfiles[g] <= nfiles'[g]
    BY IdsAreNumbers DEF LocInRange, FileTypes
<1>3. Len(loc[f].names) <= nfiles'[g] BY <1>1, <1>2
<1> QED BY <1>1, <1>3, ReadIsThere

LEMMA ViewKept ==
    ASSUME IInv, FileTypes', UNCHANGED <<resumed, fresh, loc>>,
           \A g \in Fuzzers : /\ Known(g) \subseteq Known(g)' /\ nfiles[g] <= nfiles'[g]
                              /\ \A i \in 1 .. Len(queue[g]) : queue'[g][i] = queue[g][i]
    PROVE  NamesOnDisk' /\ ReadSoFar'
<1>1. NamesOnDisk' BY NamesKept
<1>2. ReadSoFar' BY ReadIsThere, IInvParts DEF ReadSoFar
<1> QED BY <1>1, <1>2

LEMMA FindPreserves ==
    ASSUME IInv, NEW f \in Fuzzers, NEW c \in Cases, Find(f, c) PROVE IInv'
<1> USE IInvParts
<1> DEFINE e == Entry(c, None)
<1>1. e \in Entries /\ e.case = c /\ e.from = None BY DEF Entry, Entries
<1>2. /\ queue' = [queue EXCEPT ![f] = Append(@, e)] /\ nfiles' = [nfiles EXCEPT ![f] = @ + 1]
      /\ c \notin Known(f)
      /\ UNCHANGED <<marker, cmdline, synced, maxid, state, in_place_resume, is_main_node, loc,
                     ends, resumed, fresh>>
    BY DEF Find, procs
<1> HIDE DEF e
<1>3. /\ Types' /\ FileTypes' /\ NoneTwice' /\ ImportsKnown' /\ Honest'
      /\ \A g \in Fuzzers : /\ Known(g) \subseteq Known(g)' /\ nfiles[g] <= nfiles'[g]
                            /\ \A i \in 1 .. Len(queue[g]) : queue'[g][i] = queue[g][i]
    BY <1>1, <1>2, AddedPreserves
<1>4. FlagTypes' /\ PositionTypes' /\ LocTypes' /\ LocInRange' /\ MarkedFromStart'
    BY <1>2 DEF FlagTypes, PositionTypes, LocTypes, LocInRange, MarkedFromStart
<1>5. HistoryTypes'
    <2>1. finds \in Nat /\ finds < MaxFinds /\ finds' = finds + 1 BY DEF Find, HistoryTypes
    <2>2. finds' \in 0 .. MaxFinds BY <2>1, SyncAssumption
    <2> QED BY <1>2, <2>2 DEF HistoryTypes
<1>6. NotBeforeStart'
    <2>1. f \in Existing BY DEF Find, NotBeforeStart
    <2> QED BY <1>2, <2>1 DEF NotBeforeStart, Existing, Types
<1>7. NamesOnDisk' /\ ReadSoFar' BY <1>2, <1>3, ViewKept
<1> QED BY <1>3, <1>4, <1>5, <1>6, <1>7, IInvNext

\* One file of the peer: it is saved, or the instance has its test case.
LEMMA SyncFilePreserves ==
    ASSUME IInv, NEW f \in Fuzzers, SyncFile(f) PROVE IInv'
<1> USE IInvParts
<1> DEFINE l == loc[f]
           g == loc[f].peer
           k == loc[f].next + 1
           e == loc[f].names[k]
           open == loc[f].next < nfiles[g] /\ queue[g][k] = e
           take == open /\ ~is_known_case(f, e, k, loc[f].max) /\ e.case \notin Known(f)
<1>1. /\ loc' = [loc EXCEPT ![f].next = k]
      /\ queue' = [queue EXCEPT ![f] = IF take THEN Append(@, Entry(e.case, g)) ELSE @]
      /\ nfiles' = [nfiles EXCEPT ![f] = IF take THEN @ + 1 ELSE @]
      /\ UNCHANGED <<marker, cmdline, synced, maxid, state, in_place_resume, is_main_node,
                     finds, ends, resumed, fresh>>
      /\ state[f] = "sync"
    BY DEF SyncFile, history
<1>2. g \in Fuzzers /\ loc[f].next < Len(loc[f].names) /\ loc[f] \in Locals
    BY DEF SyncFile, LocTypes, Locals
<1>3. loc[f].next \in Nat /\ Len(loc[f].names) \in Ids /\ Len(loc[f].names) \in Nat
    BY <1>2, IdsAreNumbers DEF Locals, LocInRange
<1>4. k \in Nat /\ 1 <= k /\ k <= Len(loc[f].names) /\ k \in 1 .. Len(loc[f].names)
    BY <1>2, <1>3
<1>5. k \in Ids BY <1>3, <1>4, IdsAreNumbers
<1>6. e \in Entries
    <2>1. loc[f].names \in Seq(Entries) BY <1>2 DEF Locals
    <2> HIDE DEF k
    <2> QED BY <1>4, <2>1, ElementOfSeq
<1>7. open => e.case \in Known(g)
    <2>1. nfiles[g] \in Nat /\ nfiles[g] <= Len(queue[g]) BY <1>2, IdsAreNumbers DEF FileTypes
    <2>2. Len(queue[g]) \in Nat /\ Known(g) = {queue[g][i].case : i \in 1 .. Len(queue[g])}
        BY <1>2, QueueIndices
    <2>3. open => k \in 1 .. Len(queue[g]) BY <1>3, <2>1, <2>2
    <2> HIDE DEF k, e
    <2> QED BY <2>2, <2>3
<1> HIDE DEF k, e
<1>8. /\ Types' /\ FileTypes' /\ NoneTwice' /\ ImportsKnown' /\ Honest'
      /\ \A h \in Fuzzers : /\ Known(h) \subseteq Known(h)' /\ nfiles[h] <= nfiles'[h]
                            /\ \A i \in 1 .. Len(queue[h]) : queue'[h][i] = queue[h][i]
      /\ open => take \/ e.case \in Known(f) \/ e.from = f
      /\ take => e.case \in Known(f)'
    <2>1. CASE take
        <3> DEFINE n == Entry(e.case, g)
        <3>1. n \in Entries /\ n.case = e.case /\ n.from = g
            BY <1>2, <1>6 DEF Entry, Entries
        <3>2. queue' = [queue EXCEPT ![f] = Append(@, n)] /\ nfiles' = [nfiles EXCEPT ![f] = @ + 1]
            BY <1>1, <2>1
        <3> HIDE DEF n
        <3>3. n.case \notin Known(f) /\ n.case \in Known(n.from) BY <1>7, <2>1, <3>1
        <3>4. /\ Types' /\ FileTypes' /\ NoneTwice' /\ ImportsKnown' /\ Honest'
              /\ \A h \in Fuzzers : /\ Known(h) \subseteq Known(h)'
                                    /\ nfiles[h] <= nfiles'[h]
                                    /\ \A i \in 1 .. Len(queue[h]) : queue'[h][i] = queue[h][i]
              /\ Known(f)' = Known(f) \cup {n.case}
            BY <1>1, <3>1, <3>2, <3>3, AddedPreserves
        <3> QED BY <2>1, <3>1, <3>4
    <2>2. CASE ~take
        <3>1. queue' = queue /\ nfiles' = nfiles BY <1>1, <2>2 DEF Types, FileTypes
        <3>2. SameQueues BY <1>1, <3>1 DEF SameQueues
        <3>3. \A h : Known(h)' = Known(h) BY <3>2, SameKnown
        <3>4. open => e.case \in Known(f) \/ e.from = f BY <2>2 DEF is_known_case
        <3> QED BY <1>1, <2>2, <3>1, <3>2, <3>3, <3>4, QueuesKept, PositionsKept, FilesKept
    <2> QED BY <2>1, <2>2
<1>9. FlagTypes' /\ PositionTypes' /\ HistoryTypes' /\ MarkedFromStart'
    BY <1>1 DEF FlagTypes, PositionTypes, HistoryTypes, MarkedFromStart
<1>10. /\ loc'[f].next = k /\ loc'[f].peer = g /\ loc'[f].names = loc[f].names
       /\ loc'[f].todo = loc[f].todo
       /\ \A h \in Fuzzers : h # f => loc'[h] = loc[h]
    BY <1>1, <1>2 DEF LocTypes, Locals
<1>11. LocTypes'
    <2>1. [loc[f] EXCEPT !.next = k] \in Locals BY <1>2, <1>5 DEF Locals
    <2>2. loc' = [loc EXCEPT ![f] = [loc[f] EXCEPT !.next = k]] BY <1>1
    <2> QED BY <2>1, <2>2 DEF LocTypes
<1>12. LocInRange' BY <1>3, <1>4, <1>10 DEF LocInRange
<1>13. NotBeforeStart'
    <2>1. f \in Existing BY <1>1 DEF NotBeforeStart
    <2>2. \A h \in Fuzzers : h # f => queue'[h] = queue[h] BY <1>1 DEF Types
    <2> QED BY <1>1, <1>10, <2>1, <2>2 DEF NotBeforeStart, Existing
<1>14. NamesOnDisk'
    BY <1>1, <1>8, <1>10, NamesKept
<1>15. ReadSoFar'
    <2> SUFFICES ASSUME NEW h \in Fuzzers, NEW p \in Fuzzers, loc'[h].peer = p,
                        h \notin fresh, p \notin fresh \cup resumed, NEW i \in 1 .. loc'[h].next
                 PROVE  queue'[p][i].case \in Known(h)'
        BY <1>1 DEF ReadSoFar
    <2>1. loc[h].peer = p /\ loc'[h].names = loc[h].names BY <1>10
    <2>2. CASE i \in 1 .. loc[h].next
        <3>1. queue[p][i].case \in Known(h) BY <2>1, <2>2 DEF ReadSoFar
        <3>2. i \in 1 .. Len(queue[p]) BY <2>1, <2>2, ReadIsThere
        <3> QED BY <1>8, <3>1, <3>2
    <2>3. CASE i \notin 1 .. loc[h].next
        <3>1. h = f BY <1>10, <2>3
        <3>2. i = k
            BY <1>3, <1>10, <2>3, <3>1, OneLonger DEF k
        <3>3. p = g BY <2>1, <3>1
        <3>4. /\ Len(loc[f].names) <= nfiles[g] /\ queue[g][k] = e
            BY <1>2, <1>4, <3>1, <3>3, <2>1 DEF NamesOnDisk, e
        <3>5. nfiles[g] \in Nat /\ nfiles[g] <= Len(queue[g]) /\ Len(queue[g]) \in Nat
            BY <1>2, IdsAreNumbers, QueueIndices DEF FileTypes
        <3>6. loc[f].next < nfiles[g] BY <1>2, <1>3, <3>4, <3>5
        <3>7. k \in 1 .. Len(queue[g]) BY <1>3, <1>4, <3>4, <3>5
        <3>8. e.case \in Known(f)'
            <4>1. CASE take BY <1>8, <4>1
            <4>2. CASE e.case \in Known(f) BY <1>8, <4>2
            <4>3. CASE e.from = f
                <5>1. k \in DOMAIN queue[g] BY <1>2, <3>7, QueueIndices
                <5>2. e.case \in Known(f) BY <1>2, <3>1, <3>4, <4>3, <5>1 DEF ImportsKnown
                <5> QED BY <1>8, <5>2
            <4> QED BY <1>8, <3>4, <3>6, <4>1, <4>2, <4>3
        <3>9. queue'[g][k] = e BY <1>2, <1>8, <3>4, <3>7
        <3> QED BY <3>1, <3>2, <3>3, <3>8, <3>9
    <2> QED BY <2>2, <2>3
<1> QED BY <1>8, <1>9, <1>11, <1>12, <1>13, <1>14, <1>15, IInvNext

-----------------------------------------------------------------------------
(***************************************************************************)
(* Starts.                                                                 *)
(***************************************************************************)
LEMMA StartTypes ==
    ASSUME IInv, NEW f \in Fuzzers, NEW resume \in BOOLEAN, Start(f, resume)
    PROVE  /\ Types' /\ FileTypes' /\ FlagTypes' /\ PositionTypes' /\ LocTypes' /\ HistoryTypes'
           /\ LocInRange' /\ MarkedFromStart' /\ NoneTwice'
<1> USE IInvParts
<1> DEFINE q == <<Entry(Seeds[f], None)>>
<1>1. q \in Seq(Entries) /\ Len(q) = 1 /\ q[1].case = Seeds[f] /\ DOMAIN q = {1}
    BY SyncAssumption DEF Entry, Entries
<1>2. \/ queue' = queue /\ resume
      \/ ~resume /\ queue' = [queue EXCEPT ![f] = q]
    BY DEF Start
<1> HIDE DEF q
<1>3. Types' BY <1>1, <1>2 DEF Types
<1>4. \A h \in Fuzzers : h # f => queue'[h] = queue[h] BY <1>2 DEF Types
<1>5. FileTypes'
    <2>1. nfiles' = [nfiles EXCEPT ![f] = 0] BY DEF Start
    <2>2. 0 \in Ids BY IdsAreNumbers
    <2>3. nfiles' \in [Fuzzers -> Ids] BY <2>1, <2>2 DEF FileTypes
    <2>4. 0 <= Len(queue'[f])
        <3>1. queue'[f] \in Seq(Entries) BY <1>3 DEF Types
        <3>2. Len(queue'[f]) \in Nat BY <3>1, LenProperties
        <3> QED BY <3>2
    <2>5. \A h \in Fuzzers : h # f => nfiles'[h] <= Len(queue'[h])
        BY <1>4, <2>1 DEF FileTypes
    <2>6. nfiles'[f] = 0 BY <2>1 DEF FileTypes
    <2>7. \A h \in Fuzzers : nfiles'[h] <= Len(queue'[h]) BY <2>4, <2>5, <2>6
    <2> QED BY <2>3, <2>7 DEF FileTypes
<1>6. FlagTypes'
    <2>1. /\ marker' \in [Fuzzers -> BOOLEAN] /\ is_main_node' \in [Fuzzers -> BOOLEAN]
          /\ in_place_resume' \in [Fuzzers -> BOOLEAN]
        BY DEF Start, FlagTypes
    <2>2. cmdline' \in [Fuzzers -> {"none", "now", "old"}] BY DEF Start, FlagTypes
    <2>3. state' \in [Fuzzers -> {"down", "start", "up", "sync"}] BY DEF Start, FlagTypes
    <2> QED BY <2>1, <2>2, <2>3 DEF FlagTypes
<1>7. PositionTypes'
    <2>1. [g \in Fuzzers |-> 0] \in [Fuzzers -> Ids] BY IdsAreNumbers
    <2>2. \/ synced' = synced /\ maxid' = maxid
          \/ /\ synced' = [synced EXCEPT ![f] = [g \in Fuzzers |-> 0]]
             /\ maxid' = [maxid EXCEPT ![f] = [g \in Fuzzers |-> 0]]
        BY DEF Start
    <2> QED BY <2>1, <2>2 DEF PositionTypes
<1>8. LocTypes' /\ LocInRange' BY DEF Start, LocTypes, LocInRange
<1>9. HistoryTypes'
    <2>1. finds' = finds /\ ends' = ends /\ resumed' \subseteq resumed \cup {f} /\ fresh' \subseteq fresh \cup {f}
        BY DEF Start
    <2> QED BY <2>1 DEF HistoryTypes
<1>10. MarkedFromStart'
    <2>1. marker'[f] = (marker[f] \/ f \in Mains) /\ \A h \in Fuzzers : h # f => marker'[h] = marker[h]
        BY DEF Start, FlagTypes
    <2>2. \A h \in Fuzzers : h # f => state'[h] = state[h] BY DEF Start, FlagTypes
    <2> QED BY <2>1, <2>2, SyncAssumption DEF MarkedFromStart
<1>11. NoneTwice'
    <2>1. \A i, j \in DOMAIN queue'[f] : queue'[f][i].case = queue'[f][j].case => i = j
        <3>1. CASE queue' = queue BY <3>1 DEF NoneTwice
        <3>2. CASE queue' = [queue EXCEPT ![f] = q]
            <4>1. queue'[f] = q BY <3>2 DEF Types
            <4> QED BY <1>1, <4>1
        <3> QED BY <1>2, <3>1, <3>2
    <2> QED BY <1>4, <2>1 DEF NoneTwice
<1> QED BY <1>3, <1>5, <1>6, <1>7, <1>8, <1>9, <1>10, <1>11

LEMMA StartPreserves ==
    ASSUME IInv, NEW f \in Fuzzers, NEW resume \in BOOLEAN, Start(f, resume) PROVE IInv'
<1> USE IInvParts
<1>1. /\ Types' /\ FileTypes' /\ FlagTypes' /\ PositionTypes' /\ LocTypes' /\ HistoryTypes'
      /\ LocInRange' /\ MarkedFromStart' /\ NoneTwice'
    BY StartTypes
<1>2. /\ \A h \in Fuzzers : h # f => /\ queue'[h] = queue[h] /\ nfiles'[h] = nfiles[h]
                                    /\ synced'[h] = synced[h] /\ state'[h] = state[h]
                                    /\ cmdline'[h] = cmdline[h]
      /\ loc' = loc /\ cmdline'[f] = "now"
    BY DEF Start, Types, FileTypes, PositionTypes, FlagTypes
<1>3. resumed \subseteq resumed' /\ fresh \subseteq fresh' BY DEF Start
<1>4. f \in Existing => f \in fresh' \cup resumed' BY DEF Start
\* The instance keeps what it has, or has begun anew.
<1>5. \/ resume /\ queue' = queue /\ synced' = synced
      \/ /\ ~resume /\ \A g \in Fuzzers : synced'[f][g] = 0
         /\ \A i \in DOMAIN queue'[f] : queue'[f][i].from = None
    <2>1. CASE resume BY <2>1 DEF Start
    <2>2. CASE ~resume
        <3>1. synced'[f] = [g \in Fuzzers |-> 0] BY <2>2 DEF Start, PositionTypes
        <3>2. queue'[f] = <<Entry(Seeds[f], None)>> BY <2>2 DEF Start, Types
        <3>3. DOMAIN queue'[f] = {1} /\ queue'[f][1].from = None BY <3>2 DEF Entry
        <3> QED BY <2>2, <3>1, <3>3
    <2> QED BY <2>1, <2>2
<1>7. \A h \in Fuzzers : h # f => Known(h)' = Known(h) BY <1>2 DEF Known
<1>8. f \notin fresh' => Known(f) \subseteq Known(f)'
    <2>1. CASE resume BY <1>5, <2>1 DEF Known
    <2>2. CASE ~resume /\ f \notin Existing
        <3>1. queue[f] = <<>> BY <2>2 DEF NotBeforeStart
        <3>2. Known(f) = {} BY <3>1 DEF Known
        <3> QED BY <3>2
    <2>3. CASE ~resume /\ f \in Existing BY <2>3 DEF Start
    <2> QED BY <2>1, <2>2, <2>3
<1>9. Honest'
    <2> SUFFICES ASSUME NEW h \in Fuzzers, NEW p \in Fuzzers, h \notin fresh', p \notin fresh' \cup resumed'
                 PROVE  Covered(h, p)'
        BY DEF Honest
    <2>1. Covered(h, p) BY <1>3 DEF Honest
    <2>2. CASE p = f
        <3>1. f \notin Existing BY <1>4, <2>2
        <3>2. synced[h][f] = 0 BY <3>1 DEF NotBeforeStart
        <3>3. synced'[h][f] = 0 BY <1>2, <1>5, <3>2
        <3> QED BY <2>2, <3>3 DEF Covered
    <2>3. CASE p # f
        <3>1. queue'[p] = queue[p] BY <1>2, <2>3
        <3>2. synced'[h][p] = synced[h][p] \/ synced'[h][p] = 0 BY <1>2, <1>5
        <3>3. Known(h) \subseteq Known(h)' BY <1>7, <1>8
        <3> QED BY <2>1, <3>1, <3>2, <3>3 DEF Covered
    <2> QED BY <2>2, <2>3
<1>10. NotBeforeStart'
    <2> SUFFICES ASSUME NEW h \in Fuzzers, h \notin Existing'
                 PROVE  /\ state'[h] = "down" /\ queue'[h] = <<>>
                        /\ \A g \in Fuzzers : synced'[g][h] = 0 /\ loc'[g].peer # h /\ h \notin loc'[g].todo
        BY DEF NotBeforeStart
    <2>1. h # f BY <1>2 DEF Existing
    <2>2. h \notin Existing BY <1>2, <2>1 DEF Existing
    <2> QED BY <1>2, <1>5, <2>1, <2>2 DEF NotBeforeStart
<1>11. ImportsKnown'
    <2> SUFFICES ASSUME NEW h \in Fuzzers, NEW g \in Fuzzers, h \notin fresh',
                        NEW i \in DOMAIN queue'[g], queue'[g][i].from = h
                 PROVE  queue'[g][i].case \in Known(h)'
        BY DEF ImportsKnown
    <2>1. queue'[g] = queue[g] BY <1>2, <1>5, SyncAssumption
    <2>2. queue[g][i].case \in Known(h) BY <1>3, <2>1 DEF ImportsKnown
    <2> QED BY <1>7, <1>8, <2>1, <2>2
<1>12. ASSUME NEW h \in Fuzzers, NEW p \in Fuzzers, loc'[h].peer = p, p \notin fresh' \cup resumed'
       PROVE  p # f /\ p \notin fresh \cup resumed
    BY <1>2, <1>3, <1>4, <1>12 DEF NotBeforeStart
<1>13. NamesOnDisk' BY <1>2, <1>12 DEF NamesOnDisk
<1>14. ReadSoFar' BY <1>2, <1>3, <1>7, <1>8, <1>12 DEF ReadSoFar
<1> QED BY <1>1, <1>9, <1>10, <1>11, <1>13, <1>14, IInvNext

-----------------------------------------------------------------------------
(***************************************************************************)
(* The theorems.                                                           *)
(***************************************************************************)
LEMMA InitIInv == ASSUME Init PROVE IInv
<1>1. Types BY EmptySeq DEF Init, Types
<1>2. FileTypes
    <2>1. 0 <= Len(<<>>) BY EmptySeq
    <2> QED BY <2>1, IdsAreNumbers DEF Init, FileTypes
<1>3. FlagTypes /\ PositionTypes BY IdsAreNumbers DEF Init, FlagTypes, PositionTypes
<1>4. LocTypes BY NoLocType DEF Init, LocTypes
<1>5. HistoryTypes BY SyncAssumption DEF Init, HistoryTypes
<1>6. Honest BY DEF Init, Honest, Covered
<1>7. NoneTwice /\ ImportsKnown BY DEF Init, NoneTwice, ImportsKnown
<1>8. LocInRange
    <2>1. 0 <= Len(<<>>) /\ Len(<<>>) \in Ids BY EmptySeq, IdsAreNumbers
    <2> QED BY <2>1, NoLocFields DEF Init, LocInRange
<1>9. NotBeforeStart BY NoLocFields, SyncAssumption DEF Init, NotBeforeStart
<1>10. NamesOnDisk /\ ReadSoFar BY NoLocFields, SyncAssumption DEF Init, NamesOnDisk, ReadSoFar
<1>11. MarkedFromStart BY SyncAssumption DEF Init, MarkedFromStart
<1> QED BY <1>1, <1>2, <1>3, <1>4, <1>5, <1>6, <1>7, <1>8, <1>9, <1>10, <1>11, IInvParts

LEMMA NextIInv == ASSUME IInv, [Next]_vars PROVE IInv'
<1>1. CASE Tick BY <1>1, TickPreserves
<1>2. CASE UNCHANGED vars
    <2>1. SameQueues /\ UNCHANGED <<queue, nfiles, synced>>
        BY <1>2 DEF vars, dirs, procs, history, SameQueues
    <2>2. \A h \in Fuzzers : Continues(h) BY <1>2 DEF vars, procs, Continues
    <2>3. FlagTypes' /\ PositionTypes' /\ LocTypes' /\ HistoryTypes' /\ MarkedFromStart'
        BY <1>2, IInvParts DEF vars, dirs, procs, history, FlagTypes, PositionTypes, LocTypes,
                               HistoryTypes, MarkedFromStart
    <2>4. NotBeforeStart'
        BY <1>2, IInvParts DEF vars, dirs, procs, NotBeforeStart, Existing
    <2> QED BY <2>1, <2>2, <2>3, <2>4, QueuesKept, PositionsKept, FilesKept, VisitsKept, IInvNext
<1>3. ASSUME NEW f \in Fuzzers, Progress(f) PROVE IInv'
    BY <1>3, PivotPreserves, CheckSyncPreserves, SyncBeginPreserves, SyncFilePreserves,
       SyncSavePreserves, SyncEndPreserves, SkipPeerPreserves, VisitPeerPreserves DEF Progress
<1>4. ASSUME NEW f \in Fuzzers, NEW resume \in BOOLEAN, Start(f, resume) PROVE IInv'
    BY <1>4, StartPreserves
<1>5. ASSUME NEW f \in Fuzzers, Stop(f) \/ Crash(f) PROVE IInv'
    BY <1>5, StopPreserves, CrashPreserves
<1>6. ASSUME NEW f \in Fuzzers, NEW c \in Cases, Find(f, c) PROVE IInv'
    BY <1>6, FindPreserves
<1> QED BY <1>1, <1>2, <1>3, <1>4, <1>5, <1>6 DEF Next

\* The inductive invariant holds throughout a campaign.
THEOREM CampaignInvariant == Spec => []IInv
<1>1. Init => IInv BY InitIInv
<1>2. IInv /\ [Next]_vars => IInv' BY NextIInv
<1> QED BY <1>1, <1>2, PTL DEF Spec

\* sync_fuzzers never passes over an entry of a peer that has not been
\* restarted: f has every case below the position it has written for it,
\* whatever stops, crashes and resumes happen to f in the middle of a sync.
THEOREM NothingPassedOver == Spec => []PositionHonest
<1>1. IInv => PositionHonest BY DEF IInv
<1> QED BY <1>1, CampaignInvariant, PTL

\* A main node that runs has its is_main_node file, whatever temporary main
\* nodes come, go and step down.
THEOREM MainNodeIsFound == Spec => []MainIsMarked
<1>1. IInv => MainIsMarked BY DEF IInv, MarkedFromStart, MainIsMarked, Running
<1> QED BY <1>1, CampaignInvariant, PTL

=============================================================================
