--------------------------- MODULE NoveltyProofs ---------------------------
(***************************************************************************)
(* Proofs about Novelty, for any edges, inputs and behaviours of the       *)
(* target, any number of entries and any configuration.                    *)
(***************************************************************************)
EXTENDS Novelty, SequenceTheorems, TLAPS

VirginMap == [Edges -> SUBSET Bits]

-----------------------------------------------------------------------------
(***************************************************************************)
(* Bits, classes and maps.                                                 *)
(***************************************************************************)
LEMMA ClassIsBit ==
    ASSUME NEW n \in 0..255
    PROVE  /\ count_class_lookup8(n) \in Bits \cup {0}
           /\ count_class_lookup8(n) = 0 <=> n = 0
<1>1. \/ n = 0 \/ n = 1 \/ n = 2 \/ n = 3 \/ n \in 4..7 \/ n \in 8..15 \/ n \in 16..31
      \/ n \in 32..127 \/ n \in 128..255
    OBVIOUS
<1>2. CASE n = 0
    <2>1. count_class_lookup8(n) = 0 BY <1>2 DEF count_class_lookup8
    <2> QED BY <1>2, <2>1 DEF Bits
<1>3. CASE n = 1
    <2>1. count_class_lookup8(n) = 1 BY <1>3 DEF count_class_lookup8
    <2> QED BY <1>3, <2>1 DEF Bits
<1>4. CASE n = 2
    <2>1. count_class_lookup8(n) = 2 BY <1>4 DEF count_class_lookup8
    <2> QED BY <1>4, <2>1 DEF Bits
<1>5. CASE n = 3
    <2>1. count_class_lookup8(n) = 4 BY <1>5 DEF count_class_lookup8
    <2> QED BY <1>5, <2>1 DEF Bits
<1>6. CASE n \in 4..7
    <2>1. count_class_lookup8(n) = 8 BY <1>6 DEF count_class_lookup8
    <2> QED BY <1>6, <2>1 DEF Bits
<1>7. CASE n \in 8..15
    <2>1. count_class_lookup8(n) = 16 BY <1>7 DEF count_class_lookup8
    <2> QED BY <1>7, <2>1 DEF Bits
<1>8. CASE n \in 16..31
    <2>1. count_class_lookup8(n) = 32 BY <1>8 DEF count_class_lookup8
    <2> QED BY <1>8, <2>1 DEF Bits
<1>9. CASE n \in 32..127
    <2>1. count_class_lookup8(n) = 64 BY <1>9 DEF count_class_lookup8
    <2> QED BY <1>9, <2>1 DEF Bits
<1>10. CASE n \in 128..255
    <2>1. count_class_lookup8(n) = 128 BY <1>10 DEF count_class_lookup8
    <2> QED BY <1>10, <2>1 DEF Bits
<1> QED BY <1>1, <1>2, <1>3, <1>4, <1>5, <1>6, <1>7, <1>8, <1>9, <1>10

LEMMA BitsOfBit == (\A b \in Bits : BitsOf(b) = {b}) /\ BitsOf(0) = {}
<1>1. BitsOf(1) = {1} BY DEF BitsOf, Bits
<1>2. BitsOf(2) = {2} BY DEF BitsOf, Bits
<1>3. BitsOf(4) = {4} BY DEF BitsOf, Bits
<1>4. BitsOf(8) = {8} BY DEF BitsOf, Bits
<1>5. BitsOf(16) = {16} BY DEF BitsOf, Bits
<1>6. BitsOf(32) = {32} BY DEF BitsOf, Bits
<1>7. BitsOf(64) = {64} BY DEF BitsOf, Bits
<1>8. BitsOf(128) = {128} BY DEF BitsOf, Bits
<1>9. BitsOf(0) = {} BY DEF BitsOf, Bits
<1> QED BY <1>1, <1>2, <1>3, <1>4, <1>5, <1>6, <1>7, <1>8, <1>9 DEF Bits

LEMMA ClassesAreTraces == Classes \subseteq Trace /\ NoTrace \in Classes
<1>1. Bits \cup {0} \subseteq 0..255 BY DEF Bits
<1> QED BY <1>1 DEF Classes, Trace, NoTrace

LEMMA ClassifyType ==
    ASSUME NEW t \in Trace
    PROVE  /\ Classify(t) \in Classes /\ Classify(t) \in Trace
           /\ \A e \in Edges : Classify(t)[e] = count_class_lookup8(t[e])
           /\ t # NoTrace => Classify(t) # NoTrace
<1>1. \A e \in Edges : t[e] \in 0..255 BY DEF Trace
<1>2. \A e \in Edges : Classify(t)[e] = count_class_lookup8(t[e]) BY DEF Classify
<1>3. Classify(t) \in Classes BY <1>1, ClassIsBit DEF Classify, Classes
<1>4. ASSUME t # NoTrace PROVE Classify(t) # NoTrace
    <2>1. \E e \in Edges : t[e] # 0 BY <1>4 DEF NoTrace, Trace
    <2> QED BY <1>1, <1>2, <2>1, ClassIsBit DEF NoTrace
<1> QED BY <1>2, <1>3, <1>4, ClassesAreTraces

LEMMA SimplifyType ==
    ASSUME NEW t \in Trace
    PROVE  /\ Simplify(t) \in Trace
           /\ \A e \in Edges : BitsOf(Simplify(t)[e]) = {IF e \in Hit(t) THEN 128 ELSE 1}
<1>1. 1 \in Bits /\ 128 \in Bits BY DEF Bits
<1>2. \A e \in Edges : Simplify(t)[e] = IF e \in Hit(t) THEN 128 ELSE 1
    BY DEF Simplify, simplify_lookup, Hit
<1>3. Simplify(t) \in Trace BY DEF Simplify, simplify_lookup, Trace
<1> QED BY <1>1, <1>2, <1>3, BitsOfBit

\* The one bit that a class has.
LEMMA BitsOfClass ==
    ASSUME NEW c \in Classes, NEW e \in Edges
    PROVE  BitsOf(c[e]) = IF c[e] = 0 THEN {} ELSE {c[e]}
<1>1. c[e] \in Bits \/ c[e] = 0 BY DEF Classes
<1>2. 0 \notin Bits BY DEF Bits
<1> QED BY <1>1, <1>2, BitsOfBit

LEMMA DiscoverType ==
    ASSUME NEW v \in VirginMap, NEW t \in Trace
    PROVE  /\ Discover(v, t) \in VirginMap
           /\ \A e \in Edges : Discover(v, t)[e] = v[e] \ BitsOf(t[e])
           /\ HasNewBits(v, t) \in 0..2
           /\ HasNewBits(v, t) # 0 <=> \E e \in Edges : BitsOf(t[e]) \cap v[e] # {}
           /\ HasNewBits(v, t) = 0 => Discover(v, t) = v
<1>1. Discover(v, t) \in VirginMap /\ \A e \in Edges : Discover(v, t)[e] = v[e] \ BitsOf(t[e])
    BY DEF Discover, VirginMap
<1>2. HasNewBits(v, t) \in 0..2 BY DEF HasNewBits
<1>3. HasNewBits(v, t) # 0 <=> \E e \in Edges : BitsOf(t[e]) \cap v[e] # {}
    BY DEF HasNewBits
<1>4. ASSUME HasNewBits(v, t) = 0 PROVE Discover(v, t) = v
    <2>1. \A e \in Edges : Discover(v, t)[e] = v[e] BY <1>1, <1>3, <1>4
    <2> QED BY <1>1, <2>1 DEF VirginMap
<1> QED BY <1>1, <1>2, <1>3, <1>4

-----------------------------------------------------------------------------
(***************************************************************************)
(* The lazy steps of save_if_interesting: in whatever order they are made, *)
(* the trace is classified once, and the verdict is has_new_bits of the    *)
(* classified trace.                                                       *)
(***************************************************************************)
LazyRecord == [t : Trace, v : VirginMap, classified : BOOLEAN, counted : BOOLEAN,
               cksumed : BOOLEAN, new_bits : 0..2, cksum : Trace]

Lazy(s, t) ==
    /\ s \in LazyRecord
    /\ s.t = IF s.classified THEN Classify(t) ELSE t
    /\ s.cksumed => s.classified /\ s.cksum = Classify(t)
    /\ s.v = IF s.counted THEN Discover(virgin_bits, Classify(t)) ELSE virgin_bits
    /\ s.new_bits = IF s.counted THEN HasNewBits(virgin_bits, Classify(t)) ELSE 0

LEMMA LazyFresh ==
    ASSUME NEW t \in Trace, virgin_bits \in VirginMap PROVE Lazy(Fresh(t), t)
BY ClassesAreTraces DEF Lazy, LazyRecord, Fresh

LEMMA LazyClassify ==
    ASSUME NEW t \in Trace, NEW s, Lazy(s, t)
    PROVE  Lazy(ClassifyIfNecessary(s), t) /\ ClassifyIfNecessary(s).classified
BY ClassifyType DEF Lazy, LazyRecord, ClassifyIfNecessary

LEMMA LazyCksum ==
    ASSUME NEW t \in Trace, NEW s, Lazy(s, t)
    PROVE  /\ Lazy(CksumIfNecessary(s), t) /\ CksumIfNecessary(s).cksumed
           /\ CksumIfNecessary(s).counted = s.counted
<1> DEFINE c == ClassifyIfNecessary(s)
<1>1. Lazy(c, t) /\ c.classified BY LazyClassify
<1>2. c.counted = s.counted BY DEF ClassifyIfNecessary, Lazy, LazyRecord
<1>3. CksumIfNecessary(s) = IF s.cksumed THEN s ELSE [c EXCEPT !.cksum = c.t, !.cksumed = TRUE]
    BY DEF CksumIfNecessary
<1> HIDE DEF c
<1>4. CASE s.cksumed BY <1>3, <1>4
<1>5. CASE ~s.cksumed
    <2>1. CksumIfNecessary(s) = [c EXCEPT !.cksum = c.t, !.cksumed = TRUE] BY <1>3, <1>5
    <2> QED BY <1>1, <1>2, <2>1, ClassifyType DEF Lazy, LazyRecord
<1> QED BY <1>4, <1>5

LEMMA LazyCounted ==
    ASSUME NEW t \in Trace, NEW s, Lazy(s, t), s.classified, ~s.counted, virgin_bits \in VirginMap
    PROVE  /\ Lazy(Counted(s), t) /\ Counted(s).counted
           /\ Counted(s).cksumed = s.cksumed
<1>1. s.t = Classify(t) /\ s.v = virgin_bits BY DEF Lazy
<1>2. Classify(t) \in Trace BY ClassifyType
<1>3. Discover(s.v, s.t) \in VirginMap /\ HasNewBits(s.v, s.t) \in 0..2 BY <1>1, <1>2, DiscoverType
<1> QED BY <1>1, <1>3 DEF Lazy, LazyRecord, Counted

LEMMA LazyNewBits ==
    ASSUME NEW t \in Trace, NEW s, Lazy(s, t), virgin_bits \in VirginMap
    PROVE  /\ Lazy(NewBitsIfNecessary(s), t) /\ NewBitsIfNecessary(s).counted
           /\ s.cksumed => NewBitsIfNecessary(s).cksumed
<1>1. CASE s.counted
    <2>1. NewBitsIfNecessary(s) = s BY <1>1 DEF NewBitsIfNecessary
    <2> QED BY <1>1, <2>1
<1>2. CASE ~s.counted /\ s.classified
    <2>1. NewBitsIfNecessary(s) = Counted(s) BY <1>2 DEF NewBitsIfNecessary
    <2> QED BY <1>2, <2>1, LazyCounted
<1>3. CASE ~s.counted /\ ~s.classified /\ Skim(s.v, s.t)
    <2>1. NewBitsIfNecessary(s) = Counted(ClassifyIfNecessary(s)) BY <1>3 DEF NewBitsIfNecessary
    <2>2. ~ClassifyIfNecessary(s).counted BY <1>3 DEF ClassifyIfNecessary, Lazy, LazyRecord
    <2>3. ~s.cksumed BY <1>3 DEF Lazy
    <2> QED BY <2>1, <2>2, <2>3, LazyClassify, LazyCounted
<1>4. CASE ~s.counted /\ ~s.classified /\ ~Skim(s.v, s.t)
    <2>1. NewBitsIfNecessary(s) = [s EXCEPT !.counted = TRUE] BY <1>4 DEF NewBitsIfNecessary
    <2>2. s.t = t /\ s.v = virgin_bits /\ s.new_bits = 0 BY <1>4 DEF Lazy
    <2>3. HasNewBits(virgin_bits, Classify(t)) = 0
        BY <1>4, <2>2, ClassifyType, DiscoverType DEF Skim
    <2>4. Discover(virgin_bits, Classify(t)) = virgin_bits
        BY <2>3, ClassifyType, DiscoverType
    <2>5. ~s.cksumed BY <1>4 DEF Lazy
    <2> QED BY <1>4, <2>1, <2>2, <2>3, <2>4, <2>5 DEF Lazy, LazyRecord
<1>5. s.counted \in BOOLEAN /\ s.classified \in BOOLEAN BY DEF Lazy, LazyRecord
<1> QED BY <1>1, <1>2, <1>3, <1>4, <1>5

-----------------------------------------------------------------------------
(***************************************************************************)
(* The invariant, part by part.                                            *)
(***************************************************************************)
PCs == {"dry", "cal", "dried", "calibrated", "idle", "trim", "fuzz", "fault", "rerun", "fatal"}

BaseTypes == conf \in Configs /\ stop_soon \in BOOLEAN /\ pc \in PCs
TraceTypes == trace_bits \in Trace /\ first_trace \in Classes
MapTypes == virgin_bits \in VirginMap /\ virgin_tmout \in VirginMap /\ virgin_crash \in VirginMap
QueueTypes == queue \in Seq(Entries)
CurTypes ==
    /\ cur \in 0..Len(queue)
    /\ pc \in {"dry", "cal", "dried", "calibrated", "trim"} => cur # 0
CalRecord == [cycle : Nat, max : {0, CAL_CYCLES, CAL_CYCLES_LONG}, new_bits : 0..2,
              first_run : BOOLEAN, fault : {"ok", "tmout", "crash", "noinst", "nobits"},
              ret : {"none", "dried", "calibrated", "fault"}]
CalTypes == cal \in CalRecord /\ cal.cycle <= cal.max
SvTypes == sv \in [mem : Inputs, fault : {"ok", "tmout", "crash"}, edges : SUBSET Edges]
SavedTypes == crashes \in Seq(SUBSET Edges) /\ hangs \in Seq(SUBSET Edges)
VarTypes == var_bytes \subseteq Edges

Owns(q) == q.exec_cksum = NoTrace \/ Shown(q.exec_cksum, Runs(q.input))
Own == \A k \in DOMAIN queue : Owns(queue[k])

LEMMA QueueIndices ==
    ASSUME QueueTypes
    PROVE  Len(queue) \in Nat /\ DOMAIN queue = 1..Len(queue) /\ \A k \in DOMAIN queue : queue[k] \in Entries
BY LenProperties, ElementOfSeq DEF QueueTypes

LEMMA CycleBound ==
    ASSUME CalTypes PROVE cal.cycle <= CAL_CYCLES_LONG
BY NoveltyAssumption DEF CalTypes, CalRecord

LEMMA IInvParts ==
    IInv <=> /\ BaseTypes /\ TraceTypes /\ MapTypes /\ QueueTypes /\ CurTypes /\ CalTypes
             /\ SvTypes /\ SavedTypes /\ VarTypes /\ Own
             /\ VarBytesReal /\ VariableIsKnown /\ FirstIsGood
             /\ SeedsAhead /\ InCalibration /\ CalibratedHasCksum /\ FileShowsCksum /\ InTrim
             /\ Retained /\ SavedDistinct /\ SavedMarked
<1>1. QueueTypes => \A k \in DOMAIN queue : /\ queue[k].exec_cksum \in [Edges -> Bits \cup {0}]
                                            /\ queue[k].cal_failed \in 0..CAL_CHANCES
    BY QueueIndices DEF Entries, Classes
<1>2. FullTypes <=> QueueTypes /\ CalTypes /\ SvTypes /\ SavedTypes
    BY DEF FullTypes, QueueTypes, CalTypes, CalRecord, SvTypes, SavedTypes
<1>3. CksumIsOwn <=> TypeOK /\ Own
    BY DEF CksumIsOwn, Own, Owns, Shown
<1>4. FullTypes => (TypeOK <=> BaseTypes /\ TraceTypes /\ MapTypes /\ CurTypes /\ VarTypes)
    BY <1>1, <1>2, CycleBound DEF TypeOK, BaseTypes, PCs, TraceTypes, MapTypes, CurTypes, VarTypes,
                                  VirginMap, Classes
<1> QED BY <1>2, <1>3, <1>4 DEF IInv

LEMMA IInvNext ==
    ASSUME BaseTypes', TraceTypes', MapTypes', QueueTypes', CurTypes', CalTypes',
           SvTypes', SavedTypes', VarTypes', Own',
           VarBytesReal', VariableIsKnown', FirstIsGood',
           SeedsAhead', InCalibration', CalibratedHasCksum', FileShowsCksum', InTrim',
           Retained', SavedDistinct', SavedMarked'
    PROVE  IInv'
<1>1. \A k \in DOMAIN queue' : /\ queue'[k].exec_cksum \in [Edges -> Bits \cup {0}]
                               /\ queue'[k].cal_failed \in 0..CAL_CHANCES
    <2>1. \A k \in DOMAIN queue' : queue'[k] \in Entries
        BY LenProperties, ElementOfSeq DEF QueueTypes
    <2> QED BY <2>1 DEF Entries, Classes
<1>2. FullTypes'
    BY DEF FullTypes, QueueTypes, CalTypes, CalRecord, SvTypes, SavedTypes
<1>3. cal'.cycle <= CAL_CYCLES_LONG BY NoveltyAssumption DEF CalTypes, CalRecord
<1>4. TypeOK'
    BY <1>1, <1>3 DEF TypeOK, BaseTypes, PCs, TraceTypes, MapTypes, CurTypes, VarTypes,
                      VirginMap, Classes
<1>5. CksumIsOwn' BY <1>4 DEF CksumIsOwn, Own, Owns, Shown
<1> QED BY <1>2, <1>5 DEF IInv

\* A run of an input within some limit.
LEMMA RunFacts ==
    ASSUME NEW i \in Inputs, NEW l \in Limits, NEW r \in Behaviour[i][l]
    PROVE  /\ r.trace \in Trace /\ r.fault \in {"ok", "tmout", "crash"} /\ r \in Runs(i)
           /\ r.fault = "ok" => r \in OkRuns(i)
BY NoveltyAssumption DEF Runs, OkRuns

LEMMA RunTraces ==
    ASSUME NEW i \in Inputs, NEW r \in Runs(i) PROVE r.trace \in Trace
BY NoveltyAssumption DEF Runs

\* The entry afl-fuzz is at.
LEMMA CurEntry ==
    ASSUME IInv, pc \in {"dry", "cal", "dried", "calibrated", "trim"}
    PROVE  cur \in DOMAIN queue /\ queue[cur] \in Entries
<1>1. cur \in 1..Len(queue)
    <2>1. cur \in 0..Len(queue) /\ cur # 0 BY IInvParts DEF CurTypes
    <2>2. Len(queue) \in Nat BY IInvParts, QueueIndices
    <2> QED BY <2>1, <2>2
<1> QED BY <1>1, IInvParts, QueueIndices

LEMMA NoCalType == NoCal \in CalRecord /\ NoCal.cycle = 0 /\ NoCal.max = 0
BY DEF NoCal, CalRecord

-----------------------------------------------------------------------------
(***************************************************************************)
(* Steps that leave the entries and virgin_bits alone.                     *)
(***************************************************************************)
\* The stop is for good; after it no trimming begins; trimming ends by TrimEnd
\* or the stop.
Settled ==
    /\ stop_soon => stop_soon'
    /\ stop_soon /\ pc # "trim" => pc' # "trim"
    /\ pc = "trim" => stop_soon' \/ (pc' = "trim" /\ cur' = cur)

SameEntries == UNCHANGED <<queue, virgin_bits, var_bytes>>

LEMMA EntriesKept ==
    ASSUME IInv, SameEntries, Settled
    PROVE  /\ QueueTypes' /\ VarTypes' /\ Own' /\ VarBytesReal' /\ VariableIsKnown'
           /\ FileShowsCksum' /\ Retained'
<1> USE IInvParts
<1>1. QueueTypes' /\ VarTypes' /\ Own' BY DEF SameEntries, QueueTypes, VarTypes, Own, Owns
<1>2. VarBytesReal' /\ VariableIsKnown' BY DEF SameEntries, VarBytesReal, VariableIsKnown
<1>3. FileShowsCksum' BY DEF SameEntries, Settled, FileShowsCksum
<1>4. Retained' BY DEF SameEntries, Settled, Retained
<1> QED BY <1>1, <1>2, <1>3, <1>4

\* A step that is not about calibration.
LEMMA QuietKeeps ==
    ASSUME IInv, SameEntries, Settled,
           pc \notin {"dry", "cal", "dried", "fatal"},
           pc' \notin {"dry", "cal", "dried", "calibrated"}
    PROVE  /\ QueueTypes' /\ VarTypes' /\ Own' /\ VarBytesReal' /\ VariableIsKnown'
           /\ FileShowsCksum' /\ Retained'
           /\ FirstIsGood' /\ SeedsAhead' /\ InCalibration' /\ CalibratedHasCksum'
<1> USE IInvParts
<1>1. FirstIsGood' /\ SeedsAhead' /\ InCalibration'
    BY DEF FirstIsGood, SeedsAhead, Ahead, InCalibration
<1>2. CalibratedHasCksum'
    BY DEF CalibratedHasCksum, Ahead, SameEntries, Settled
<1> QED BY <1>1, <1>2, EntriesKept

LEMMA SavedKept ==
    ASSUME IInv, UNCHANGED <<crashes, hangs, virgin_crash, virgin_tmout>>,
           pc' = "rerun" => pc = "rerun" /\ sv' = sv
    PROVE  SavedTypes' /\ SavedDistinct' /\ SavedMarked'
<1>1. SavedTypes' BY IInvParts DEF SavedTypes
<1>2. SavedDistinct' BY IInvParts DEF SavedDistinct
<1>3. SavedMarked' BY IInvParts DEF SavedMarked, Marked
<1> QED BY <1>1, <1>2, <1>3

LEMMA AbandonPreserves == ASSUME IInv, Abandon PROVE IInv'
<1> USE IInvParts
<1> USE DEF Abandon, maps, saved
<1>1. SameEntries /\ Settled BY DEF SameEntries, Settled
<1>2. BaseTypes' /\ TraceTypes' /\ MapTypes' /\ SvTypes' /\ CalTypes'
    BY DEF BaseTypes, PCs, TraceTypes, MapTypes, SvTypes, CalTypes
<1>3. CurTypes' /\ InTrim' BY DEF CurTypes, InTrim
<1> QED BY <1>1, <1>2, <1>3, QuietKeeps, SavedKept, IInvNext

\* Trimming begins with an entry that is calibrated.
LEMMA ProceedKeeps ==
    ASSUME IInv, NEW k \in DOMAIN queue, Proceed(k), UNCHANGED <<queue, stop_soon>>,
           pc \in {"idle", "calibrated"}, ~stop_soon, queue[k].cal_failed = 0
    PROVE  CurTypes' /\ InTrim' /\ pc' \in {"fuzz", "trim"}
<1> USE IInvParts
<1>1. queue[k].exec_cksum # NoTrace BY DEF CalibratedHasCksum, Ahead
<1>2. InTrim' /\ pc' \in {"fuzz", "trim"} BY <1>1 DEF Proceed, InTrim
<1>3. CurTypes'
    <2>1. Len(queue) \in Nat /\ k \in 1..Len(queue) BY QueueIndices
    <2>2. cur' \in 0..Len(queue) BY <2>1 DEF Proceed
    <2>3. pc' \in {"dry", "cal", "dried", "calibrated", "trim"} => cur' = k BY DEF Proceed
    <2>4. k # 0 BY <2>1
    <2> QED BY <2>2, <2>3, <2>4 DEF CurTypes
<1> QED BY <1>2, <1>3

LEMMA FuzzOnePreserves == ASSUME IInv, NEW k \in DOMAIN queue, FuzzOne(k) PROVE IInv'
<1> USE IInvParts
<1>1. /\ pc = "idle" /\ ~stop_soon /\ queue[k].cal_failed = 0 /\ Proceed(k)
      /\ UNCHANGED <<conf, stop_soon, queue, trace_bits, virgin_bits, virgin_tmout, virgin_crash, var_bytes,
                     first_trace, hangs, crashes, cal, sv>>
    BY DEF FuzzOne, maps, saved
<1>2. CurTypes' /\ InTrim' /\ pc' \in {"fuzz", "trim"} BY <1>1, ProceedKeeps
<1>3. SameEntries /\ Settled BY <1>1 DEF SameEntries, Settled
<1>4. BaseTypes' BY <1>1, <1>2 DEF BaseTypes, PCs
<1>5. TraceTypes' /\ MapTypes' /\ SvTypes' /\ CalTypes'
    BY <1>1 DEF TraceTypes, MapTypes, SvTypes, CalTypes
<1> QED BY <1>1, <1>2, <1>3, <1>4, <1>5, QuietKeeps, SavedKept, IInvNext

LEMMA CalibratedPreserves == ASSUME IInv, Calibrated PROVE IInv'
<1> USE IInvParts
<1>1. /\ pc = "calibrated" /\ cal' = NoCal
      /\ UNCHANGED <<conf, stop_soon, queue, trace_bits, virgin_bits, virgin_tmout, virgin_crash, var_bytes,
                     first_trace, hangs, crashes, sv>>
    BY DEF Calibrated, maps, saved
<1>2. CurTypes' /\ InTrim' /\ pc' \in {"idle", "fuzz", "trim"} /\ (stop_soon => pc' # "trim")
    <2>1. CASE stop_soon \/ cal.fault # "ok"
        <3>1. pc' = "idle" /\ cur' = 0 BY <2>1 DEF Calibrated
        <3>2. 0 \in 0..Len(queue) BY QueueIndices
        <3> QED BY <1>1, <3>1, <3>2 DEF CurTypes, InTrim
    <2>2. CASE ~(stop_soon \/ cal.fault # "ok")
        <3>1. Proceed(cur) BY <2>2 DEF Calibrated
        <3>2. cur \in DOMAIN queue BY <1>1, CurEntry
        <3>3. queue[cur].cal_failed = 0 BY <1>1, <2>2 DEF InCalibration
        <3> QED BY <1>1, <2>2, <3>1, <3>2, <3>3, ProceedKeeps
    <2> QED BY <2>1, <2>2
<1>3. SameEntries /\ Settled BY <1>1, <1>2 DEF SameEntries, Settled
<1>4. BaseTypes' BY <1>1, <1>2 DEF BaseTypes, PCs
<1>5. TraceTypes' /\ MapTypes' /\ SvTypes' BY <1>1 DEF TraceTypes, MapTypes, SvTypes
<1>6. CalTypes' BY <1>1, NoCalType DEF CalTypes
<1> QED BY <1>1, <1>2, <1>3, <1>4, <1>5, <1>6, QuietKeeps, SavedKept, IInvNext

LEMMA BeginLazy ==
    ASSUME IInv, NEW r, r.trace \in Trace PROVE Lazy(Begin(r), r.trace)
<1>1. Lazy(Fresh(r.trace), r.trace) BY IInvParts, LazyFresh DEF MapTypes
<1> QED BY <1>1, LazyCksum DEF Begin

LEMMA FuzzIdlePreserves ==
    ASSUME IInv, NEW i \in Inputs, NEW r \in Behaviour[i]["exec"], FuzzIdle(r) PROVE IInv'
<1> USE IInvParts
<1>1. /\ pc = "fuzz" /\ pc' \in {"idle", "fuzz"}
      /\ UNCHANGED <<conf, stop_soon, queue, virgin_bits, virgin_tmout, virgin_crash, var_bytes,
                     first_trace, hangs, crashes, cur, cal, sv>>
    BY DEF FuzzIdle, maps, saved
<1>2. SameEntries /\ Settled BY <1>1 DEF SameEntries, Settled
<1>3. BaseTypes' BY <1>1 DEF BaseTypes, PCs
<1>4. MapTypes' /\ SvTypes' /\ CalTypes' BY <1>1 DEF MapTypes, SvTypes, CalTypes
<1>5. TraceTypes'
    <2>1. r.trace \in Trace BY RunFacts DEF Limits
    <2>2. Classify(r.trace) \in Trace BY <2>1, ClassifyType
    <2> QED BY <1>1, <2>1, <2>2 DEF FuzzIdle, TraceTypes
<1>6. CurTypes' /\ InTrim' BY <1>1 DEF CurTypes, InTrim
<1> QED BY <1>1, <1>2, <1>3, <1>4, <1>5, <1>6, QuietKeeps, SavedKept, IInvNext

LEMMA FuzzFaultPreserves ==
    ASSUME IInv, NEW i \in Inputs, NEW r \in Behaviour[i]["exec"], FuzzFault(i, r) PROVE IInv'
<1> USE IInvParts
<1>1. /\ pc = "fuzz" /\ pc' = "fault" /\ sv' = [mem |-> i, fault |-> r.fault, edges |-> {}]
      /\ trace_bits' = Begin(r).t
      /\ UNCHANGED <<conf, stop_soon, queue, virgin_bits, virgin_tmout, virgin_crash, var_bytes,
                     first_trace, hangs, crashes, cur, cal>>
    BY DEF FuzzFault, maps, saved
<1>2. SameEntries /\ Settled BY <1>1 DEF SameEntries, Settled
<1>3. BaseTypes' BY <1>1 DEF BaseTypes, PCs
<1>4. MapTypes' /\ CalTypes' BY <1>1 DEF MapTypes, CalTypes
<1>5. r.trace \in Trace /\ r.fault \in {"ok", "tmout", "crash"} BY RunFacts DEF Limits
<1>6. SvTypes' BY <1>1, <1>5 DEF SvTypes
<1>7. TraceTypes'
    <2>1. Begin(r).t \in Trace BY <1>5, BeginLazy DEF Lazy, LazyRecord
    <2> QED BY <1>1, <2>1 DEF TraceTypes
<1>8. CurTypes' /\ InTrim' BY <1>1 DEF CurTypes, InTrim
<1> QED BY <1>1, <1>2, <1>3, <1>4, <1>6, <1>7, <1>8, QuietKeeps, SavedKept, IInvNext

LEMMA SaveReturnKeeps ==
    ASSUME IInv, SaveReturn, UNCHANGED queue
    PROVE  CurTypes' /\ InTrim' /\ CalTypes' /\ SvTypes'
<1>1. pc' = "fuzz" /\ cur' = 0 /\ cal' = NoCal /\ sv' = NoSv BY DEF SaveReturn
<1>2. 0 \in 0..Len(queue) BY IInvParts, QueueIndices
<1>3. CurTypes' /\ InTrim' BY <1>1, <1>2 DEF CurTypes, InTrim
<1>4. CalTypes' BY <1>1, NoCalType DEF CalTypes
<1>5. Seeds[1] \in Inputs BY NoveltyAssumption
<1>6. SvTypes' BY <1>1, <1>5 DEF SvTypes, NoSv
<1> QED BY <1>3, <1>4, <1>6

LEMMA SaveNothingPreserves == ASSUME IInv, SaveNothing PROVE IInv'
<1> USE IInvParts
<1>1. /\ pc = "fault" /\ SaveReturn /\ pc' = "fuzz"
      /\ UNCHANGED <<conf, stop_soon, queue, trace_bits, virgin_bits, virgin_tmout, virgin_crash, var_bytes,
                     first_trace, hangs, crashes>>
    BY DEF SaveNothing, SaveReturn, maps, saved
<1>2. SameEntries /\ Settled BY <1>1 DEF SameEntries, Settled
<1>3. BaseTypes' BY <1>1 DEF BaseTypes, PCs
<1>4. TraceTypes' /\ MapTypes' BY <1>1 DEF TraceTypes, MapTypes
<1> QED BY <1>1, <1>2, <1>3, <1>4, SaveReturnKeeps, QuietKeeps, SavedKept, IInvNext

-----------------------------------------------------------------------------
(***************************************************************************)
(* Crashes and hangs.                                                      *)
(***************************************************************************)
\* A map that shows new bits when simplified is of none of those saved.
LEMMA SimplifiedIsNew ==
    ASSUME NEW S, NEW v \in VirginMap, NEW t \in Trace, \A k \in DOMAIN S : Marked(S[k], v)
    PROVE  /\ Discover(v, Simplify(t)) \in VirginMap
           /\ \A k \in DOMAIN S : Marked(S[k], Discover(v, Simplify(t)))
           /\ Marked(Hit(t), Discover(v, Simplify(t)))
           /\ HasNewBits(v, Simplify(t)) # 0 => \A k \in DOMAIN S : S[k] # Hit(t)
<1> DEFINE z == Simplify(t)
           w == Discover(v, z)
<1>1. z \in Trace /\ \A e \in Edges : BitsOf(z[e]) = {IF e \in Hit(t) THEN 128 ELSE 1}
    BY SimplifyType
<1> HIDE DEF z
<1>2. w \in VirginMap /\ \A e \in Edges : w[e] = v[e] \ BitsOf(z[e])
    BY <1>1, DiscoverType
<1>3. HasNewBits(v, z) # 0 => \E e \in Edges : BitsOf(z[e]) \cap v[e] # {}
    BY <1>1, DiscoverType
<1> HIDE DEF w
<1>4. \A k \in DOMAIN S : Marked(S[k], w) BY <1>2 DEF Marked
<1>5. Marked(Hit(t), w) BY <1>1, <1>2 DEF Marked
<1>6. ASSUME HasNewBits(v, z) # 0, NEW k \in DOMAIN S, S[k] = Hit(t) PROVE FALSE
    <2>1. PICK e \in Edges : BitsOf(z[e]) \cap v[e] # {} BY <1>3, <1>6
    <2>2. (IF e \in Hit(t) THEN 128 ELSE 1) \in v[e] BY <1>1, <2>1
    <2> QED BY <1>6, <2>2 DEF Marked
<1> QED BY <1>2, <1>4, <1>5, <1>6 DEF w, z

LEMMA AppendDistinct ==
    ASSUME NEW S \in Seq(SUBSET Edges), IsInjective(S), NEW H \in SUBSET Edges,
           \A k \in DOMAIN S : S[k] # H, NEW v,
           \A k \in DOMAIN S : Marked(S[k], v), Marked(H, v)
    PROVE  /\ Append(S, H) \in Seq(SUBSET Edges) /\ IsInjective(Append(S, H))
           /\ \A k \in DOMAIN Append(S, H) : Marked(Append(S, H)[k], v)
<1> DEFINE n == Len(S)
           A == Append(S, H)
<1>1. A \in Seq(SUBSET Edges) /\ Len(A) = n + 1 /\ A[n + 1] = H /\ \A k \in 1..n : A[k] = S[k]
    BY AppendProperties
<1>2. n \in Nat /\ DOMAIN S = 1..n BY LenProperties
<1>3. DOMAIN A = 1..(n + 1) BY <1>1, LenProperties
<1> HIDE DEF n, A
<1>4. \A k \in DOMAIN A : k \in DOMAIN S \/ k = n + 1 BY <1>2, <1>3
<1>5. \A k \in DOMAIN S : A[k] = S[k] BY <1>1, <1>2
<1>6. IsInjective(A)
    <2> SUFFICES ASSUME NEW a \in DOMAIN A, NEW b \in DOMAIN A, A[a] = A[b] PROVE a = b
        BY DEF IsInjective
    <2>1. CASE a \in DOMAIN S /\ b \in DOMAIN S BY <1>5, <2>1 DEF IsInjective
    <2>2. CASE a \in DOMAIN S /\ b = n + 1 BY <1>1, <1>5, <2>2
    <2>3. CASE a = n + 1 /\ b \in DOMAIN S BY <1>1, <1>5, <2>3
    <2> QED BY <1>4, <2>1, <2>2, <2>3
<1>7. \A k \in DOMAIN A : Marked(A[k], v) BY <1>1, <1>4, <1>5
<1> QED BY <1>1, <1>6, <1>7 DEF A

LEMMA HitType == ASSUME NEW t PROVE Hit(t) \in SUBSET Edges
BY DEF Hit

\* KeepCrash, from may_save_fault and from the dry run.
LEMMA KeepCrashKeeps ==
    ASSUME IInv, KeepCrash, UNCHANGED <<hangs, virgin_tmout, virgin_bits, first_trace>>, pc' # "rerun"
    PROVE  MapTypes' /\ TraceTypes' /\ SavedTypes' /\ SavedDistinct' /\ SavedMarked'
<1> USE IInvParts
<1> DEFINE w == Discover(virgin_crash, Simplify(trace_bits))
<1>1. /\ w \in VirginMap /\ \A k \in DOMAIN crashes : Marked(crashes[k], w)
      /\ Marked(Hit(trace_bits), w)
      /\ NewCrash => \A k \in DOMAIN crashes : crashes[k] # Hit(trace_bits)
    <2>1. \A k \in DOMAIN crashes : Marked(crashes[k], virgin_crash) BY DEF SavedMarked
    <2>2. virgin_crash \in VirginMap /\ trace_bits \in Trace BY DEF MapTypes, TraceTypes
    <2> QED BY <2>1, <2>2, SimplifiedIsNew DEF NewCrash
<1>2. virgin_crash' = w BY DEF KeepCrash
<1> HIDE DEF w
<1>3. MapTypes' BY <1>1, <1>2 DEF MapTypes
<1>4. TraceTypes' BY SimplifyType DEF KeepCrash, TraceTypes
<1>5. /\ crashes' \in Seq(SUBSET Edges) /\ IsInjective(crashes')
      /\ \A k \in DOMAIN crashes' : Marked(crashes'[k], w)
    <2>1. CASE NewCrash
        <3>1. crashes' = Append(crashes, Hit(trace_bits)) BY <2>1 DEF KeepCrash
        <3>2. crashes \in Seq(SUBSET Edges) /\ IsInjective(crashes) BY DEF SavedTypes, SavedDistinct
        <3>3. \A k \in DOMAIN crashes : crashes[k] # Hit(trace_bits) BY <1>1, <2>1
        <3> QED BY <1>1, <3>1, <3>2, <3>3, HitType, AppendDistinct
    <2>2. CASE ~NewCrash
        <3>1. crashes' = crashes BY <2>2 DEF KeepCrash
        <3> QED BY <1>1, <3>1 DEF SavedTypes, SavedDistinct
    <2> QED BY <2>1, <2>2
<1>6. SavedMarked'
    BY <1>2, <1>5 DEF SavedMarked
<1> QED BY <1>3, <1>4, <1>5, <1>6 DEF SavedTypes, SavedDistinct

LEMMA SaveCrashPreserves == ASSUME IInv, SaveCrash PROVE IInv'
<1> USE IInvParts
<1>1. /\ pc = "fault" /\ SaveReturn /\ pc' = "fuzz" /\ KeepCrash
      /\ UNCHANGED <<conf, stop_soon, queue, virgin_bits, virgin_tmout, var_bytes, first_trace, hangs>>
    BY DEF SaveCrash, SaveReturn
<1>2. SameEntries /\ Settled BY <1>1 DEF SameEntries, Settled
<1>3. BaseTypes' BY <1>1 DEF BaseTypes, PCs
<1>4. MapTypes' /\ TraceTypes' /\ SavedTypes' /\ SavedDistinct' /\ SavedMarked'
    BY <1>1, KeepCrashKeeps
<1> QED BY <1>1, <1>2, <1>3, <1>4, SaveReturnKeeps, QuietKeeps, IInvNext

LEMMA SaveHangPreserves == ASSUME IInv, SaveHang PROVE IInv'
<1> USE IInvParts
<1> DEFINE t == Simplify(trace_bits)
           w == Discover(virgin_tmout, t)
           new == HasNewBits(virgin_tmout, t) # 0
<1>1. /\ pc = "fault" /\ trace_bits' = t /\ virgin_tmout' = w
      /\ hangs' = IF new /\ ~conf.retry THEN Append(hangs, Hit(trace_bits)) ELSE hangs
      /\ \/ /\ new /\ conf.retry /\ pc' = "rerun" /\ cur' = 0 /\ cal' = NoCal
            /\ sv' = [sv EXCEPT !.edges = Hit(trace_bits)]
         \/ ~(new /\ conf.retry) /\ SaveReturn /\ pc' = "fuzz"
      /\ UNCHANGED <<conf, stop_soon, queue, virgin_bits, virgin_crash, var_bytes, first_trace, crashes>>
    BY DEF SaveHang, SaveReturn
<1>2. /\ w \in VirginMap /\ \A k \in DOMAIN hangs : Marked(hangs[k], w)
      /\ Marked(Hit(trace_bits), w)
      /\ new => \A k \in DOMAIN hangs : hangs[k] # Hit(trace_bits)
    <2>1. \A k \in DOMAIN hangs : Marked(hangs[k], virgin_tmout) BY DEF SavedMarked
    <2>2. virgin_tmout \in VirginMap /\ trace_bits \in Trace BY DEF MapTypes, TraceTypes
    <2> QED BY <2>1, <2>2, SimplifiedIsNew
<1>3. t \in Trace BY SimplifyType DEF TraceTypes
<1> HIDE DEF t, w, new
<1>4. SameEntries /\ Settled /\ pc' \in {"rerun", "fuzz"} BY <1>1 DEF SameEntries, Settled
<1>5. BaseTypes' BY <1>1, <1>4 DEF BaseTypes, PCs
<1>6. MapTypes' /\ TraceTypes' BY <1>1, <1>2, <1>3 DEF MapTypes, TraceTypes
<1>7. CurTypes' /\ InTrim' /\ CalTypes' /\ SvTypes'
    <2>1. CASE pc' = "rerun"
        <3>1. cur' = 0 /\ cal' = NoCal /\ sv' = [sv EXCEPT !.edges = Hit(trace_bits)] BY <1>1, <2>1
        <3>2. 0 \in 0..Len(queue) BY QueueIndices
        <3>3. CurTypes' /\ InTrim' BY <1>1, <2>1, <3>1, <3>2 DEF CurTypes, InTrim
        <3>4. CalTypes' BY <3>1, NoCalType DEF CalTypes
        <3>5. SvTypes' BY <3>1, HitType DEF SvTypes
        <3> QED BY <3>3, <3>4, <3>5
    <2>2. CASE pc' # "rerun" BY <1>1, <2>2, SaveReturnKeeps
    <2> QED BY <2>1, <2>2
<1>8. /\ hangs' \in Seq(SUBSET Edges) /\ IsInjective(hangs')
      /\ \A k \in DOMAIN hangs' : Marked(hangs'[k], w)
    <2>1. CASE new /\ ~conf.retry
        <3>1. hangs' = Append(hangs, Hit(trace_bits)) BY <1>1, <2>1
        <3>2. hangs \in Seq(SUBSET Edges) /\ IsInjective(hangs) BY DEF SavedTypes, SavedDistinct
        <3>3. \A k \in DOMAIN hangs : hangs[k] # Hit(trace_bits) BY <1>2, <2>1
        <3> QED BY <1>2, <3>1, <3>2, <3>3, HitType, AppendDistinct
    <2>2. CASE ~(new /\ ~conf.retry)
        <3>1. hangs' = hangs BY <1>1, <2>2
        <3> QED BY <1>2, <3>1 DEF SavedTypes, SavedDistinct
    <2> QED BY <2>1, <2>2
<1>9. SavedTypes' /\ SavedDistinct' BY <1>1, <1>8 DEF SavedTypes, SavedDistinct
<1>10. SavedMarked'
    <2>1. CASE pc' = "rerun"
        <3>1. new /\ conf.retry /\ sv' = [sv EXCEPT !.edges = Hit(trace_bits)] BY <1>1, <2>1
        <3>2. sv'.edges = Hit(trace_bits) /\ hangs' = hangs BY <1>1, <3>1 DEF SvTypes
        <3> QED BY <1>1, <1>2, <1>8, <3>1, <3>2 DEF SavedMarked
    <2>2. CASE pc' # "rerun" BY <1>1, <1>8, <2>2 DEF SavedMarked
    <2> QED BY <2>1, <2>2
<1>11. pc \notin {"dry", "cal", "dried", "fatal"} /\ pc' \notin {"dry", "cal", "dried", "calibrated"}
    BY <1>1, <1>4
<1> QED BY <1>4, <1>5, <1>6, <1>7, <1>9, <1>10, <1>11, QuietKeeps, IInvNext

-----------------------------------------------------------------------------
(***************************************************************************)
(* A calibration begins.                                                   *)
(***************************************************************************)
Witness(e, b) ==
    \E k \in DOMAIN queue : \E r \in Runs(queue[k].file) :
        /\ count_class_lookup8(r.trace[e]) = b
        /\ r.fault = "ok" \/ queue[k].trim_done \/ (stop_soon /\ pc # "trim")

\* The files stay; what is taken out of virgin_bits is shown by one of them.
LEMMA RetainedGrows ==
    ASSUME IInv,
           \A k \in DOMAIN queue : /\ k \in DOMAIN queue' /\ queue'[k].file = queue[k].file
                                   /\ queue[k].trim_done => queue'[k].trim_done,
           stop_soon => stop_soon', stop_soon /\ pc # "trim" => pc' # "trim",
           \A e \in Edges \ Unstable : \A b \in Bits \ virgin_bits'[e] :
               b \notin virgin_bits[e] \/ Witness(e, b)'
    PROVE  Retained'
<1> SUFFICES ASSUME NEW e \in Edges \ Unstable, NEW b \in Bits \ virgin_bits'[e]
             PROVE  Witness(e, b)'
    BY DEF Retained, Witness
<1>1. CASE b \notin virgin_bits[e]
    <2>1. PICK k \in DOMAIN queue : \E r \in Runs(queue[k].file) :
              /\ count_class_lookup8(r.trace[e]) = b
              /\ r.fault = "ok" \/ queue[k].trim_done \/ (stop_soon /\ pc # "trim")
        BY <1>1, IInvParts DEF Retained
    <2>2. k \in DOMAIN queue' /\ queue'[k].file = queue[k].file
          /\ (queue[k].trim_done => queue'[k].trim_done)
        OBVIOUS
    <2> QED BY <2>1, <2>2 DEF Witness
<1> QED BY <1>1

\* What CalBegin does to the queue it is given, and to the locals.
LEMMA CalBeginFacts ==
    ASSUME NEW Q \in Seq(Entries), NEW k \in DOMAIN Q, Q[k].cal_failed < CAL_CHANCES,
           NEW t, NEW v, NEW ret \in {"dried", "calibrated", "fault"},
           conf \in Configs, CalBegin(Q, k, t, v, ret), HasNewBits(v, t) \in 0..2
    PROVE  /\ pc' = "cal" /\ cur' = k /\ QueueTypes' /\ CurTypes' /\ CalTypes' /\ InCalibration'
           /\ trace_bits' = t /\ cal'.ret = ret /\ Len(queue') = Len(Q) /\ DOMAIN queue' = DOMAIN Q
           /\ \A j \in DOMAIN Q : j # k => queue'[j] = Q[j]
           /\ queue'[k].input = Q[k].input /\ queue'[k].file = Q[k].file
           /\ queue'[k].trim_done = Q[k].trim_done /\ queue'[k].cal_failed # 0
           /\ queue'[k].exec_cksum \in {NoTrace, Q[k].exec_cksum}
           /\ IF queue'[k].exec_cksum # NoTrace
              THEN first_trace' = t /\ virgin_bits' = Discover(v, t)
              ELSE first_trace' = first_trace /\ virgin_bits' = v
<1> DEFINE q == [Q[k] EXCEPT !.cal_failed = @ + 1,
                             !.exec_cksum = IF conf.cmplog THEN NoTrace ELSE @]
<1>1. conf.cmplog \in BOOLEAN BY NoveltyAssumption DEF Config
<1>2. Len(Q) \in Nat /\ DOMAIN Q = 1..Len(Q) /\ Q[k] \in Entries BY LenProperties, ElementOfSeq
<1>3. /\ q \in Entries /\ q.cal_failed # 0
      /\ q.exec_cksum = (IF conf.cmplog THEN NoTrace ELSE Q[k].exec_cksum)
      /\ q.input = Q[k].input /\ q.file = Q[k].file /\ q.trim_done = Q[k].trim_done
    <2>1. Q[k].cal_failed + 1 \in 0..CAL_CHANCES /\ Q[k].cal_failed + 1 # 0
        BY <1>2, NoveltyAssumption DEF Entries
    <2>2. NoTrace \in Classes BY ClassesAreTraces
    <2> QED BY <1>1, <1>2, <2>1, <2>2 DEF Entries
<1>4. /\ pc' = "cal" /\ cur' = k /\ queue' = [Q EXCEPT ![k] = q] /\ trace_bits' = t
      /\ first_trace' = (IF q.exec_cksum # NoTrace THEN t ELSE first_trace)
      /\ virgin_bits' = (IF q.exec_cksum # NoTrace THEN Discover(v, t) ELSE v)
      /\ cal' = [cycle |-> 0, max |-> CAL_CYCLES, fault |-> "ok", ret |-> ret,
                 new_bits |-> IF q.exec_cksum # NoTrace THEN HasNewBits(v, t) ELSE 0,
                 first_run |-> Q[k].exec_cksum = NoTrace]
    BY DEF CalBegin
<1> HIDE DEF q
<1>5. /\ queue' \in Seq(Entries) /\ Len(queue') = Len(Q) /\ DOMAIN queue' = DOMAIN Q
      /\ queue'[k] = q /\ \A j \in DOMAIN Q : j # k => queue'[j] = Q[j]
    BY <1>2, <1>3, <1>4, ExceptSeq
<1>6. CalTypes'
    <2>1. 0 <= CAL_CYCLES BY NoveltyAssumption
    <2> QED BY <1>4, <2>1 DEF CalTypes, CalRecord
<1>7. CurTypes'
    <2>1. k \in 0..Len(Q) /\ k # 0 BY <1>2
    <2> QED BY <1>4, <1>5, <2>1 DEF CurTypes
<1>8. InCalibration'
    <2>1. CAL_CYCLES # 0 BY NoveltyAssumption
    <2>2. cal'.ret # "none" /\ cal'.max # 0 /\ cal'.cycle = 0 BY <1>4, <2>1
    <2> QED BY <1>3, <1>4, <1>5, <2>2 DEF InCalibration
<1>9. cal'.ret = ret BY <1>4
<1>10. IF q.exec_cksum # NoTrace THEN first_trace' = t /\ virgin_bits' = Discover(v, t)
                                 ELSE first_trace' = first_trace /\ virgin_bits' = v
    BY <1>4
<1>11. QueueTypes' BY <1>5 DEF QueueTypes
<1>12. q.exec_cksum \in {NoTrace, Q[k].exec_cksum} BY <1>3
<1> QED BY <1>3, <1>4, <1>5, <1>6, <1>7, <1>8, <1>9, <1>10, <1>11, <1>12

\* A seed, or an entry whose calibration failed, is calibrated without a
\* checksum.
LEMMA AgainPreserves ==
    ASSUME IInv, NEW k \in DOMAIN queue, NEW ret \in {"dried", "calibrated"},
           NEW Q \in Seq(Entries), DOMAIN Q = DOMAIN queue,
           \A j \in DOMAIN queue : j # k => Q[j] = queue[j],
           Q[k].exec_cksum = NoTrace, Q[k].input = queue[k].input, Q[k].file = queue[k].file,
           Q[k].trim_done = queue[k].trim_done, Q[k].cal_failed < CAL_CHANCES,
           CalBegin(Q, k, trace_bits, virgin_bits, ret),
           \/ pc = "dry" /\ ret = "dried" /\ k = cur
           \/ pc = "idle" /\ ret = "calibrated" /\ ~stop_soon,
           UNCHANGED <<conf, stop_soon, virgin_tmout, virgin_crash, var_bytes, hangs, crashes, sv>>
    PROVE  IInv'
<1> USE IInvParts
<1>0. HasNewBits(virgin_bits, trace_bits) \in 0..2 BY DiscoverType DEF MapTypes, TraceTypes
<1>1. /\ pc' = "cal" /\ cur' = k /\ QueueTypes' /\ CurTypes' /\ CalTypes' /\ InCalibration'
      /\ trace_bits' = trace_bits /\ cal'.ret = ret /\ DOMAIN queue' = DOMAIN Q
      /\ \A j \in DOMAIN Q : j # k => queue'[j] = Q[j]
      /\ queue'[k].input = Q[k].input /\ queue'[k].file = Q[k].file
      /\ queue'[k].trim_done = Q[k].trim_done /\ queue'[k].cal_failed # 0
      /\ queue'[k].exec_cksum \in {NoTrace, Q[k].exec_cksum}
      /\ IF queue'[k].exec_cksum # NoTrace
         THEN first_trace' = trace_bits /\ virgin_bits' = Discover(virgin_bits, trace_bits)
         ELSE first_trace' = first_trace /\ virgin_bits' = virgin_bits
    BY <1>0, CalBeginFacts DEF BaseTypes
<1>2. /\ DOMAIN queue' = DOMAIN queue /\ \A j \in DOMAIN queue : j # k => queue'[j] = queue[j]
      /\ queue'[k].exec_cksum = NoTrace
      /\ queue'[k].input = queue[k].input /\ queue'[k].file = queue[k].file
      /\ queue'[k].trim_done = queue[k].trim_done
      /\ first_trace' = first_trace /\ virgin_bits' = virgin_bits
    BY <1>1
<1>3. BaseTypes' /\ TraceTypes' /\ MapTypes' /\ SvTypes' /\ VarTypes'
    BY <1>1, <1>2 DEF BaseTypes, PCs, TraceTypes, MapTypes, SvTypes, VarTypes
<1>4. Own' BY <1>2 DEF Own, Owns
<1>5. VarBytesReal' /\ VariableIsKnown' BY <1>2 DEF VarBytesReal, VariableIsKnown
<1>6. FirstIsGood' BY <1>1, <1>2 DEF FirstIsGood
<1>7. \A j \in DOMAIN queue : Ahead(j) /\ j # k => Ahead(j)'
    <2> SUFFICES ASSUME NEW j \in DOMAIN queue, Ahead(j), j # k PROVE Ahead(j)'
        OBVIOUS
    <2>1. pc = "dry" /\ j >= cur /\ k = cur /\ ret = "dried" BY DEF Ahead
    <2>2. j \in Int /\ k \in Int BY QueueIndices
    <2>3. j > k BY <2>1, <2>2
    <2> QED BY <1>1, <2>1, <2>3 DEF Ahead
<1>8. \A j \in DOMAIN queue : Ahead(j)' => Ahead(j) /\ j # k
    <2> SUFFICES ASSUME NEW j \in DOMAIN queue, Ahead(j)' PROVE Ahead(j) /\ j # k
        OBVIOUS
    <2>1. pc = "dry" /\ j > k /\ k = cur BY <1>1 DEF Ahead
    <2>2. j \in Int /\ k \in Int BY QueueIndices
    <2>3. j >= k /\ j # k BY <2>1, <2>2
    <2> QED BY <2>1, <2>3 DEF Ahead
<1>9. SeedsAhead' BY <1>2, <1>8 DEF SeedsAhead
<1>10. CalibratedHasCksum' BY <1>1, <1>2, <1>7 DEF CalibratedHasCksum
<1>11. FileShowsCksum' BY <1>1, <1>2 DEF FileShowsCksum
<1>12. InTrim' BY <1>1 DEF InTrim
<1>13. Retained' BY <1>1, <1>2, RetainedGrows
<1>14. SavedTypes' /\ SavedDistinct' /\ SavedMarked' BY <1>1, SavedKept
<1> QED BY <1>1, <1>3, <1>4, <1>5, <1>6, <1>9, <1>10, <1>11, <1>12, <1>13, <1>14, IInvNext

LEMMA DryRunPreserves == ASSUME IInv, DryRun PROVE IInv'
<1> USE IInvParts
<1>1. /\ pc = "dry" /\ CalBegin(queue, cur, trace_bits, virgin_bits, "dried")
      /\ UNCHANGED <<conf, stop_soon, virgin_tmout, virgin_crash, var_bytes, hangs, crashes, sv>>
    BY DEF DryRun, saved
<1>2. cur \in DOMAIN queue /\ cur \in Int BY <1>1, CurEntry, QueueIndices
<1>3. cur >= cur BY <1>2
<1>4. queue[cur].exec_cksum = NoTrace /\ queue[cur].cal_failed = 0
    BY <1>1, <1>2, <1>3 DEF SeedsAhead, Ahead
<1>5. queue[cur].cal_failed < CAL_CHANCES BY <1>4, NoveltyAssumption
<1>6. queue \in Seq(Entries) BY DEF QueueTypes
<1> QED BY <1>1, <1>2, <1>4, <1>5, <1>6, AgainPreserves

LEMMA RecalibratePreserves == ASSUME IInv, NEW k \in DOMAIN queue, Recalibrate(k) PROVE IInv'
<1> USE IInvParts
<1> DEFINE Q == [queue EXCEPT ![k].exec_cksum = NoTrace]
<1>1. /\ pc = "idle" /\ ~stop_soon /\ queue[k].cal_failed \in 1..(CAL_CHANCES - 1)
      /\ CalBegin(Q, k, trace_bits, virgin_bits, "calibrated")
      /\ UNCHANGED <<conf, stop_soon, virgin_tmout, virgin_crash, var_bytes, hangs, crashes, sv>>
    BY DEF Recalibrate, saved
<1>2. queue \in Seq(Entries) /\ k \in 1..Len(queue) /\ DOMAIN queue = 1..Len(queue) /\ queue[k] \in Entries
    BY QueueIndices DEF QueueTypes
<1> DEFINE q == [queue[k] EXCEPT !.exec_cksum = NoTrace]
<1>3. /\ q \in Entries /\ q.exec_cksum = NoTrace /\ q.input = queue[k].input /\ q.file = queue[k].file
      /\ q.trim_done = queue[k].trim_done /\ q.cal_failed = queue[k].cal_failed
    BY <1>2, ClassesAreTraces DEF Entries
<1>4. Q = [queue EXCEPT ![k] = q] OBVIOUS
<1> HIDE DEF q
<1>5. Q \in Seq(Entries) /\ DOMAIN Q = DOMAIN queue /\ Q[k] = q /\ \A j \in DOMAIN queue : j # k => Q[j] = queue[j]
    BY <1>2, <1>3, <1>4, ExceptSeq
<1>6. queue[k].cal_failed < CAL_CHANCES BY <1>1, NoveltyAssumption
<1> HIDE DEF Q
<1> QED BY <1>1, <1>3, <1>5, <1>6, AgainPreserves

\* A new entry: its checksum, and what it has discovered, are of a run of its
\* input, a good one unless the stop has come.
LEMMA SaveToQueuePreserves ==
    ASSUME IInv, NEW i \in Inputs, NEW r \in Runs(i), NEW s, Lazy(s, r.trace),
           r.fault = "ok" \/ stop_soon, SaveToQueue(s, i), pc \in {"fuzz", "rerun"}, SvTypes',
           UNCHANGED <<conf, stop_soon, virgin_tmout, virgin_crash, var_bytes, hangs, crashes>>
    PROVE  IInv'
<1> USE IInvParts
<1> DEFINE c == NewBitsIfNecessary(CksumIfNecessary(s))
           C == Classify(r.trace)
           q == [Entry(i) EXCEPT !.exec_cksum = c.cksum]
           Q == Append(queue, q)
           k == Len(queue) + 1
<1>1. r.trace \in Trace BY RunTraces
<1>2. C \in Classes /\ C \in Trace /\ \A e \in Edges : C[e] = count_class_lookup8(r.trace[e])
    BY <1>1, ClassifyType
<1>3. virgin_bits \in VirginMap BY DEF MapTypes
<1>4. c.t = C /\ c.cksum = C /\ c.v = Discover(virgin_bits, C)
    <2>1. Lazy(CksumIfNecessary(s), r.trace) /\ CksumIfNecessary(s).cksumed BY <1>1, LazyCksum
    <2>2. Lazy(c, r.trace) /\ c.counted /\ c.cksumed BY <1>1, <1>3, <2>1, LazyNewBits
    <2> HIDE DEF c
    <2> QED BY <2>2 DEF Lazy
<1>5. CalBegin(Q, k, c.t, c.v, "fault") BY DEF SaveToQueue
<1> HIDE DEF c
<1>6. /\ q \in Entries /\ q.input = i /\ q.file = i /\ q.exec_cksum = C /\ q.cal_failed = 0
      /\ q.trim_done = FALSE
    <2>1. 0 \in 0..CAL_CHANCES BY NoveltyAssumption
    <2>2. c.cksum = C /\ C \in Classes BY <1>2, <1>4
    <2> HIDE DEF C
    <2> QED BY <2>1, <2>2 DEF Entry, Entries
<1> HIDE DEF q
<1>7. /\ queue \in Seq(Entries) /\ Len(queue) \in Nat /\ DOMAIN queue = 1..Len(queue)
    BY QueueIndices DEF QueueTypes
<1>8. /\ Q \in Seq(Entries) /\ Len(Q) = k /\ Q[k] = q
      /\ \A j \in 1..Len(queue) : Q[j] = queue[j]
    BY <1>6, <1>7, AppendProperties
<1>9. DOMAIN Q = 1..k BY <1>8, LenProperties
<1> HIDE DEF Q
<1>10. /\ k \in DOMAIN Q /\ k \notin DOMAIN queue
       /\ \A j \in DOMAIN Q : j = k \/ j \in DOMAIN queue
       /\ \A j \in DOMAIN queue : j \in DOMAIN Q /\ j # k
    BY <1>7, <1>9
<1> HIDE DEF k
<1>11. Discover(virgin_bits, C) \in VirginMap /\ HasNewBits(Discover(virgin_bits, C), C) \in 0..2
       /\ Discover(Discover(virgin_bits, C), C) \in VirginMap
       /\ \A e \in Edges : /\ Discover(virgin_bits, C)[e] = virgin_bits[e] \ BitsOf(C[e])
                           /\ Discover(Discover(virgin_bits, C), C)[e] =
                                  Discover(virgin_bits, C)[e] \ BitsOf(C[e])
    BY <1>2, <1>3, DiscoverType
<1>12. Q[k].cal_failed < CAL_CHANCES BY <1>6, <1>8, NoveltyAssumption
<1>13. CalBegin(Q, k, C, Discover(virgin_bits, C), "fault") BY <1>4, <1>5
<1>14. /\ pc' = "cal" /\ cur' = k /\ QueueTypes' /\ CurTypes' /\ CalTypes' /\ InCalibration'
       /\ trace_bits' = C /\ cal'.ret = "fault" /\ DOMAIN queue' = DOMAIN Q
       /\ \A j \in DOMAIN Q : j # k => queue'[j] = Q[j]
       /\ queue'[k].input = Q[k].input /\ queue'[k].file = Q[k].file
       /\ queue'[k].trim_done = Q[k].trim_done /\ queue'[k].cal_failed # 0
       /\ queue'[k].exec_cksum \in {NoTrace, Q[k].exec_cksum}
       /\ IF queue'[k].exec_cksum # NoTrace
          THEN first_trace' = C /\ virgin_bits' = Discover(Discover(virgin_bits, C), C)
          ELSE first_trace' = first_trace /\ virgin_bits' = Discover(virgin_bits, C)
    BY <1>8, <1>10, <1>11, <1>12, <1>13, CalBeginFacts DEF BaseTypes
<1>15. /\ \A j \in DOMAIN queue : j \in DOMAIN queue' /\ queue'[j] = queue[j]
       /\ k \in DOMAIN queue' /\ \A j \in DOMAIN queue' : j = k \/ j \in DOMAIN queue
       /\ queue'[k].input = i /\ queue'[k].file = i /\ queue'[k].trim_done = FALSE
       /\ queue'[k].exec_cksum \in {NoTrace, C}
    BY <1>6, <1>7, <1>8, <1>10, <1>14
<1>16. /\ virgin_bits' \in VirginMap
       /\ \A e \in Edges : virgin_bits'[e] = virgin_bits[e] \ BitsOf(C[e])
    <2>1. CASE queue'[k].exec_cksum # NoTrace BY <1>11, <1>14, <2>1
    <2>2. CASE queue'[k].exec_cksum = NoTrace BY <1>11, <1>14, <2>2
    <2> QED BY <2>1, <2>2
<1>17. Shown(C, Runs(i)) /\ (~stop_soon => Shown(C, OkRuns(i))) BY DEF Shown, OkRuns
<1>18. BaseTypes' /\ VarTypes' BY <1>14 DEF BaseTypes, PCs, VarTypes
<1>19. MapTypes' BY <1>16 DEF MapTypes
<1>20. TraceTypes'
    <2>1. first_trace' = C \/ first_trace' = first_trace BY <1>14
    <2> QED BY <1>2, <1>14, <2>1 DEF TraceTypes
<1>21. Own' BY <1>15, <1>17 DEF Own, Owns
<1>22. VarBytesReal' /\ VariableIsKnown' BY <1>16 DEF VarBytesReal, VariableIsKnown, VarTypes
<1>23. FirstIsGood' BY <1>14, <1>15, <1>17 DEF FirstIsGood
<1>24. SeedsAhead' /\ InTrim' BY <1>14 DEF SeedsAhead, Ahead, InTrim
<1>25. CalibratedHasCksum' BY <1>14, <1>15 DEF CalibratedHasCksum, Ahead
<1>26. FileShowsCksum' BY <1>14, <1>15, <1>17 DEF FileShowsCksum
<1>27. Retained'
    <2>1. ASSUME NEW e \in Edges \ Unstable, NEW b \in Bits \ virgin_bits'[e], b \in virgin_bits[e]
          PROVE  Witness(e, b)'
        <3>1. b \in BitsOf(C[e]) BY <1>16, <2>1
        <3> HIDE DEF C
        <3>2. C \in Classes /\ e \in Edges BY <1>2
        <3>3. BitsOf(C[e]) = IF C[e] = 0 THEN {} ELSE {C[e]} BY <3>2, BitsOfClass
        <3>4. b = C[e] BY <3>1, <3>3
        <3>5. count_class_lookup8(r.trace[e]) = b BY <1>2, <3>4
        <3> QED BY <1>14, <1>15, <3>5 DEF Witness
    <2> QED BY <1>14, <1>15, <2>1, RetainedGrows
<1>28. SavedTypes' /\ SavedDistinct' /\ SavedMarked' BY <1>14, SavedKept
<1> QED
    BY <1>14, <1>18, <1>19, <1>20, <1>21, <1>22, <1>23, <1>24, <1>25, <1>26, <1>27, <1>28, IInvNext

-----------------------------------------------------------------------------
(***************************************************************************)
(* A calibration goes on and ends.                                         *)
(***************************************************************************)
LEMMA CalLimitType == CalLimit \in Limits
BY DEF CalLimit, Limits

\* The entries stay but for the checksum or the counter of one.
SameFiles ==
    /\ DOMAIN queue' = DOMAIN queue
    /\ \A j \in DOMAIN queue :
          /\ queue'[j].input = queue[j].input /\ queue'[j].file = queue[j].file
          /\ queue'[j].trim_done = queue[j].trim_done

\* Two good runs of one input differ on unstable edges only.
LEMMA DiffersIsUnstable ==
    ASSUME NEW i \in Inputs, NEW r \in OkRuns(i), NEW s \in OkRuns(i), NEW e \in Edges,
           Classify(r.trace)[e] # Classify(s.trace)[e]
    PROVE  e \in Unstable
<1>1. r \in Runs(i) /\ s \in Runs(i) /\ r.fault = "ok" /\ s.fault = "ok" BY DEF OkRuns
<1>2. r.trace \in Trace /\ s.trace \in Trace BY <1>1, RunTraces
<1>3. count_class_lookup8(r.trace[e]) # count_class_lookup8(s.trace[e]) BY <1>2, ClassifyType
<1> QED BY <1>1, <1>3 DEF Unstable

LEMMA CalRunPreserves ==
    ASSUME IInv, pc = "cal", NEW r \in Behaviour[queue[cur].input][CalLimit], CalRun(r)
    PROVE  IInv'
<1> USE IInvParts
<1> DEFINE t == Classify(r.trace)
           q == queue[cur]
           varying == {e \in Edges \ var_bytes : first_trace[e] # t[e]}
           hnb == HasNewBits(virgin_bits, t)
<1>1. /\ cal.cycle < cal.max /\ ~stop_soon /\ r.fault = "ok" /\ r.trace # NoTrace /\ trace_bits' = t
      /\ UNCHANGED <<conf, stop_soon, pc, virgin_tmout, virgin_crash, hangs, crashes, cur, sv>>
    BY DEF CalRun, saved
<1>2. cur \in DOMAIN queue /\ q \in Entries BY CurEntry
<1>3. q.input \in Inputs /\ q.input = q.file BY <1>1, <1>2 DEF Entries, FileShowsCksum
<1>4. r.trace \in Trace /\ r \in Runs(q.input) /\ r \in OkRuns(q.input)
    BY <1>1, <1>3, RunFacts, CalLimitType
<1>5. t \in Classes /\ t \in Trace /\ t # NoTrace /\ \A e \in Edges : t[e] = count_class_lookup8(r.trace[e])
    BY <1>1, <1>4, ClassifyType
<1>6. virgin_bits \in VirginMap BY DEF MapTypes
<1>7. Discover(virgin_bits, t) \in VirginMap /\ hnb \in 0..2
      /\ \A e \in Edges : Discover(virgin_bits, t)[e] = virgin_bits[e] \ BitsOf(t[e])
    BY <1>5, <1>6, DiscoverType
<1> HIDE DEF hnb
<1>8. \/ /\ q.exec_cksum = t /\ cal' = [cal EXCEPT !.cycle = @ + 1]
         /\ UNCHANGED <<queue, virgin_bits, var_bytes, first_trace>>
      \/ /\ q.exec_cksum = NoTrace
         /\ cal' = [cal EXCEPT !.cycle = @ + 1, !.new_bits = IF hnb > @ THEN hnb ELSE @]
         /\ queue' = [queue EXCEPT ![cur].exec_cksum = t] /\ first_trace' = t
         /\ virgin_bits' = Discover(virgin_bits, t) /\ UNCHANGED var_bytes
      \/ /\ q.exec_cksum # NoTrace
         /\ cal' = [cal EXCEPT !.cycle = @ + 1, !.new_bits = IF hnb > @ THEN hnb ELSE @,
                               !.max = CAL_CYCLES_LONG]
         /\ var_bytes' = var_bytes \cup varying
         /\ virgin_bits' = MarkVariable(Discover(virgin_bits, t), varying)
         /\ UNCHANGED <<queue, first_trace>>
    BY ZenonT(60) DEF CalRun, CalTypes, CalRecord, hnb
<1>9. BaseTypes' /\ SvTypes' BY <1>1 DEF BaseTypes, SvTypes
<1>10. CalTypes' /\ cal'.ret = cal.ret /\ (cal.max # 0 => cal'.max # 0)
    <2>1. cal \in CalRecord BY DEF CalTypes
    <2>2. cal.cycle + 1 \in Nat /\ cal.cycle + 1 <= cal.max /\ cal.max <= CAL_CYCLES_LONG
        BY <1>1, <2>1, NoveltyAssumption DEF CalRecord
    <2>3. cal.cycle + 1 <= CAL_CYCLES_LONG /\ CAL_CYCLES_LONG # 0
        BY <2>1, <2>2, NoveltyAssumption DEF CalRecord
    <2> QED BY <1>7, <1>8, <2>1, <2>2, <2>3, ZenonT(60) DEF CalTypes, CalRecord
<1>11. /\ queue' \in Seq(Entries) /\ SameFiles /\ Len(queue') = Len(queue)
       /\ \A j \in DOMAIN queue : j # cur => queue'[j] = queue[j]
       /\ queue'[cur].cal_failed = q.cal_failed
       /\ queue'[cur].exec_cksum # NoTrace
       /\ queue'[cur].exec_cksum = q.exec_cksum \/ queue'[cur].exec_cksum = t
    <2>1. CASE q.exec_cksum # NoTrace
        <3>1. queue' = queue BY <1>8, <2>1
        <3> QED BY <2>1, <3>1 DEF SameFiles, QueueTypes
    <2>2. CASE q.exec_cksum = NoTrace
        <3>0. queue' = [queue EXCEPT ![cur].exec_cksum = t] BY <1>5, <1>8, <2>2
        <3> DEFINE p == [q EXCEPT !.exec_cksum = t]
        <3>1. /\ p \in Entries /\ p.exec_cksum = t /\ p.input = q.input /\ p.file = q.file
              /\ p.trim_done = q.trim_done /\ p.cal_failed = q.cal_failed
            BY <1>2, <1>5 DEF Entries
        <3>2. queue' = [queue EXCEPT ![cur] = p] BY <3>0
        <3> HIDE DEF p
        <3>3. queue \in Seq(Entries) /\ cur \in 1..Len(queue) /\ DOMAIN queue = 1..Len(queue)
            BY <1>2, QueueIndices DEF QueueTypes
        <3>4. /\ queue' \in Seq(Entries) /\ Len(queue') = Len(queue) /\ queue'[cur] = p
              /\ \A j \in 1..Len(queue) : j # cur => queue'[j] = queue[j]
            BY <3>1, <3>2, <3>3, ExceptSeq
        <3>5. DOMAIN queue' = DOMAIN queue BY <3>3, <3>4, LenProperties
        <3> QED BY <1>5, <3>1, <3>3, <3>4, <3>5 DEF SameFiles
    <2> QED BY <2>1, <2>2
<1>12. QueueTypes' /\ CurTypes' BY <1>1, <1>11 DEF QueueTypes, CurTypes
<1>13. first_trace' = first_trace \/ first_trace' = t BY <1>8
<1>14. TraceTypes' BY <1>1, <1>5, <1>13 DEF TraceTypes
\* What varies now is unstable: first_trace is of a good run of the same input.
<1>15. q.exec_cksum # NoTrace => varying \subseteq Unstable
    <2> SUFFICES ASSUME q.exec_cksum # NoTrace, NEW e \in varying PROVE e \in Unstable
        OBVIOUS
    <2>1. Shown(first_trace, OkRuns(q.input)) BY <1>1 DEF FirstIsGood
    <2>2. PICK s \in OkRuns(q.input) : first_trace = Classify(s.trace) BY <2>1 DEF Shown
    <2>3. e \in Edges /\ Classify(s.trace)[e] # Classify(r.trace)[e] BY <2>2
    <2> HIDE DEF t, q
    <2> QED BY <1>3, <1>4, <2>3, DiffersIsUnstable
<1>16. /\ virgin_bits' \in VirginMap
       /\ \A e \in Edges : virgin_bits'[e] = {} \/ virgin_bits'[e] \in {virgin_bits[e], virgin_bits[e] \ BitsOf(t[e])}
       /\ \A e \in Edges \ Unstable : virgin_bits'[e] \in {virgin_bits[e], virgin_bits[e] \ BitsOf(t[e])}
       /\ \A e \in varying : e \in var_bytes' => virgin_bits'[e] = {}
    <2> HIDE DEF t, q
    <2>1. CASE virgin_bits' = virgin_bits /\ var_bytes' = var_bytes BY <1>6, <2>1
    <2>2. CASE virgin_bits' = Discover(virgin_bits, t) /\ var_bytes' = var_bytes BY <1>7, <2>2
    <2>3. CASE q.exec_cksum # NoTrace /\ virgin_bits' = MarkVariable(Discover(virgin_bits, t), varying)
        BY <1>7, <1>15, <2>3 DEF MarkVariable, VirginMap
    <2> QED BY <1>8, <2>1, <2>2, <2>3
<1>17. var_bytes' \in {var_bytes, var_bytes \cup varying} /\ (q.exec_cksum = NoTrace => var_bytes' = var_bytes)
    BY <1>5, <1>8
<1>18. MapTypes' BY <1>1, <1>16 DEF MapTypes
<1>19. VarTypes' /\ VarBytesReal' BY <1>15, <1>17 DEF VarTypes, VarBytesReal
<1>20. VariableIsKnown'
    <2> SUFFICES ASSUME NEW e \in var_bytes' PROVE virgin_bits'[e] = {}
        BY DEF VariableIsKnown
    <2>1. CASE e \in var_bytes
        <3>1. virgin_bits[e] = {} /\ e \in Edges BY <2>1 DEF VariableIsKnown, VarTypes
        <3> QED BY <1>16, <3>1
    <2>2. CASE e \in varying BY <1>16, <2>2
    <2> QED BY <1>17, <2>1, <2>2
<1>21. Shown(t, Runs(q.input)) /\ Shown(t, OkRuns(q.input)) BY <1>4 DEF Shown
<1> HIDE DEF t, varying
<1>22. Own'
    <2> SUFFICES ASSUME NEW j \in DOMAIN queue PROVE Owns(queue'[j])
        BY <1>11 DEF Own, SameFiles
    <2>1. CASE j # cur BY <1>11, <2>1 DEF Own
    <2>2. CASE j = cur
        <3>1. queue'[cur].input = q.input BY <1>2, <1>11 DEF SameFiles
        <3>2. Owns(q) BY <1>2 DEF Own
        <3> QED BY <1>11, <1>21, <2>2, <3>1, <3>2 DEF Owns
    <2> QED BY <2>1, <2>2
<1>23. FirstIsGood'
    <2>1. CASE q.exec_cksum = NoTrace
        <3>1. first_trace' = t BY <1>5, <1>8, <2>1
        <3>2. queue'[cur].input = q.input BY <1>2, <1>11 DEF SameFiles
        <3> QED BY <1>1, <1>21, <3>1, <3>2 DEF FirstIsGood
    <2>2. CASE q.exec_cksum # NoTrace
        <3>1. first_trace' = first_trace /\ queue' = queue BY <1>8, <2>2
        <3> QED BY <1>1, <2>2, <3>1 DEF FirstIsGood
    <2> QED BY <2>1, <2>2
<1>24. \A j : Ahead(j)' <=> Ahead(j) BY <1>1, <1>10 DEF Ahead
<1>25. ~Ahead(cur)
    <2>1. cur \in Int BY <1>2, QueueIndices
    <2> QED BY <2>1 DEF Ahead
<1>26. SeedsAhead' BY <1>11, <1>24, <1>25 DEF SeedsAhead, SameFiles
<1>27. InCalibration' BY <1>1, <1>10, <1>11 DEF InCalibration
<1>28. CalibratedHasCksum' BY <1>1, <1>11, <1>24 DEF CalibratedHasCksum, SameFiles
<1>29. FileShowsCksum'
    <2> SUFFICES ASSUME NEW j \in DOMAIN queue, j = cur
                 PROVE  /\ Shown(queue'[j].exec_cksum, Runs(queue'[j].file))
                        /\ queue[j].trim_done \/ Shown(queue'[j].exec_cksum, OkRuns(queue'[j].file))
                        /\ queue'[j].input = queue'[j].file
        BY <1>1, <1>11 DEF FileShowsCksum, SameFiles
    <2>1. queue'[j].input = q.input /\ queue'[j].file = q.input BY <1>3, <1>11 DEF SameFiles
    <2>2. CASE queue'[j].exec_cksum = t BY <1>21, <2>1, <2>2
    <2>3. CASE queue'[j].exec_cksum = q.exec_cksum
        <3>1. q.exec_cksum # NoTrace BY <1>11, <2>3
        <3> QED BY <1>1, <1>3, <2>1, <2>3, <3>1 DEF FileShowsCksum
    <2> QED BY <1>11, <2>1, <2>2, <2>3
<1>30. InTrim' BY <1>1 DEF InTrim
<1>31. Retained'
    <2>1. ASSUME NEW e \in Edges \ Unstable, NEW b \in Bits \ virgin_bits'[e], b \in virgin_bits[e]
          PROVE  Witness(e, b)'
        <3>1. b \in BitsOf(t[e]) BY <1>16, <2>1
        <3>2. b = t[e] BY <1>5, <3>1, BitsOfClass
        <3>3. count_class_lookup8(r.trace[e]) = b BY <1>5, <3>2
        <3>4. cur \in DOMAIN queue' /\ queue'[cur].file = q.input BY <1>2, <1>3, <1>11 DEF SameFiles
        <3> QED BY <1>1, <1>4, <3>3, <3>4 DEF Witness
    <2> QED BY <1>1, <1>11, <2>1, RetainedGrows DEF SameFiles
<1>32. SavedTypes' /\ SavedDistinct' /\ SavedMarked' BY <1>1, SavedKept
<1> QED BY <1>9, <1>10, <1>12, <1>14, <1>18, <1>19, <1>20, <1>22, <1>23, <1>26, <1>27, <1>28,
           <1>29, <1>30, <1>31, <1>32, IInvNext

LEMMA CalAbortPreserves ==
    ASSUME IInv, pc = "cal", NEW r \in Behaviour[queue[cur].input][CalLimit], CalAbort(r)
    PROVE  IInv'
<1> USE IInvParts
<1> DEFINE fault == IF stop_soon \/ r.fault # "ok" THEN r.fault ELSE "noinst"
<1>1. /\ trace_bits' = r.trace /\ cal' = [cal EXCEPT !.fault = fault] /\ pc' = cal.ret
      /\ queue' = [queue EXCEPT ![cur] = queue[cur]]
      /\ UNCHANGED <<conf, stop_soon, virgin_bits, virgin_tmout, virgin_crash, var_bytes, first_trace,
                     hangs, crashes, cur, sv>>
    BY DEF CalAbort, CalReturn, maps, saved
<1>2. cur \in DOMAIN queue /\ queue[cur] \in Entries BY CurEntry
<1>3. queue' = queue BY <1>1 DEF QueueTypes
<1>4. r.trace \in Trace /\ r.fault \in {"ok", "tmout", "crash"}
    BY <1>2, RunFacts, CalLimitType DEF Entries
<1>5. cal.ret \in {"dried", "calibrated", "fault"} BY DEF InCalibration, CalTypes, CalRecord
<1>6. SameEntries /\ Settled BY <1>1, <1>3, <1>5 DEF SameEntries, Settled
<1>7. BaseTypes' /\ SvTypes' /\ MapTypes' /\ TraceTypes'
    BY <1>1, <1>4, <1>5 DEF BaseTypes, PCs, SvTypes, MapTypes, TraceTypes
<1>8. fault \in {"ok", "tmout", "crash", "noinst", "nobits"} /\ (fault = "ok" => stop_soon)
    BY <1>4
<1> HIDE DEF fault
<1>9. CalTypes' /\ cal'.ret = cal.ret /\ cal'.fault = fault BY <1>1, <1>8 DEF CalTypes, CalRecord
<1>10. CurTypes' BY <1>1, <1>3 DEF CurTypes
<1>11. \A j : Ahead(j)' <=> Ahead(j) BY <1>1, <1>5, <1>9 DEF Ahead
<1>12. SeedsAhead' BY <1>3, <1>11 DEF SeedsAhead
<1>13. CalibratedHasCksum' BY <1>1, <1>3, <1>5, <1>11 DEF CalibratedHasCksum
<1>14. FirstIsGood' /\ InTrim' BY <1>1, <1>5 DEF FirstIsGood, InTrim
<1>15. InCalibration' BY <1>1, <1>5, <1>8, <1>9 DEF InCalibration
<1>16. SavedTypes' /\ SavedDistinct' /\ SavedMarked' BY <1>1, <1>5, SavedKept
<1> QED BY <1>6, <1>7, <1>9, <1>10, <1>12, <1>13, <1>14, <1>15, <1>16, EntriesKept, IInvNext

LEMMA CalEndPreserves == ASSUME IInv, CalEnd PROVE IInv'
<1> USE IInvParts
<1> DEFINE q == [queue[cur] EXCEPT !.cal_failed = 0]
           fault == IF cal.first_run /\ cal.new_bits = 0 THEN "nobits" ELSE "ok"
<1>1. /\ pc = "cal" /\ cal.cycle = cal.max
      /\ cal' = [cal EXCEPT !.fault = fault] /\ pc' = cal.ret /\ queue' = [queue EXCEPT ![cur] = q]
      /\ UNCHANGED <<conf, stop_soon, trace_bits, virgin_bits, virgin_tmout, virgin_crash, var_bytes,
                     first_trace, hangs, crashes, cur, sv>>
    BY DEF CalEnd, CalReturn, maps, saved
<1>2. cur \in DOMAIN queue /\ queue[cur] \in Entries BY <1>1, CurEntry
<1>3. /\ q \in Entries /\ q.cal_failed = 0 /\ q.exec_cksum = queue[cur].exec_cksum
      /\ q.input = queue[cur].input /\ q.file = queue[cur].file /\ q.trim_done = queue[cur].trim_done
    <2>1. 0 \in 0..CAL_CHANCES BY NoveltyAssumption
    <2> QED BY <1>2, <2>1 DEF Entries
<1>4. queue[cur].exec_cksum # NoTrace BY <1>1 DEF InCalibration
<1>5. cal.ret \in {"dried", "calibrated", "fault"} BY <1>1 DEF InCalibration, CalTypes, CalRecord
<1>6. fault \in {"ok", "tmout", "crash", "noinst", "nobits"} OBVIOUS
<1> HIDE DEF q, fault
<1>7. /\ queue' \in Seq(Entries) /\ Len(queue') = Len(queue) /\ queue'[cur] = q
      /\ DOMAIN queue' = DOMAIN queue /\ \A j \in DOMAIN queue : j # cur => queue'[j] = queue[j]
    <2>1. queue \in Seq(Entries) /\ cur \in 1..Len(queue) /\ DOMAIN queue = 1..Len(queue)
        BY <1>2, QueueIndices DEF QueueTypes
    <2> QED BY <1>1, <1>3, <2>1, ExceptSeq, LenProperties
<1>8. /\ \A j \in DOMAIN queue : /\ queue'[j].input = queue[j].input /\ queue'[j].file = queue[j].file
                                 /\ queue'[j].trim_done = queue[j].trim_done
                                 /\ queue'[j].exec_cksum = queue[j].exec_cksum
                                 /\ j # cur => queue'[j].cal_failed = queue[j].cal_failed
      /\ queue'[cur].cal_failed = 0
    BY <1>3, <1>7
<1>9. BaseTypes' /\ SvTypes' /\ MapTypes' /\ TraceTypes' /\ VarTypes'
    BY <1>1, <1>5 DEF BaseTypes, PCs, SvTypes, MapTypes, TraceTypes, VarTypes
<1>10. QueueTypes' /\ CurTypes' BY <1>1, <1>7 DEF QueueTypes, CurTypes
<1>11. CalTypes' /\ cal'.ret = cal.ret BY <1>1, <1>6 DEF CalTypes, CalRecord
<1>12. VarBytesReal' /\ VariableIsKnown' BY <1>1 DEF VarBytesReal, VariableIsKnown
<1>13. \A j : Ahead(j)' <=> Ahead(j) BY <1>1, <1>5, <1>11 DEF Ahead
<1>14. ~Ahead(cur)
    <2>1. cur \in Int BY <1>2, QueueIndices
    <2> QED BY <1>1, <2>1 DEF Ahead
<1>15. Own' BY <1>7, <1>8 DEF Own, Owns
<1>16. SeedsAhead' BY <1>7, <1>8, <1>13, <1>14 DEF SeedsAhead
<1>17. CalibratedHasCksum' BY <1>1, <1>4, <1>5, <1>7, <1>8, <1>13 DEF CalibratedHasCksum
<1>18. FirstIsGood' /\ InTrim' BY <1>1, <1>5 DEF FirstIsGood, InTrim
<1>19. InCalibration' BY <1>1, <1>5, <1>8, <1>11 DEF InCalibration
<1>20. FileShowsCksum' BY <1>1, <1>5, <1>7, <1>8 DEF FileShowsCksum
<1>21. Retained' BY <1>1, <1>5, <1>7, <1>8, RetainedGrows
<1>22. SavedTypes' /\ SavedDistinct' /\ SavedMarked' BY <1>1, <1>5, SavedKept
<1> QED
    BY <1>9, <1>10, <1>11, <1>12, <1>15, <1>16, <1>17, <1>18, <1>19, <1>20, <1>21, <1>22, IInvNext

LEMMA DryDonePreserves == ASSUME IInv, DryDone PROVE IInv'
<1> USE IInvParts
<1> DEFINE known == cal.fault = "crash" /\ conf.crashing_seeds /\ ~NewCrash
           bad == cal.fault \in {"tmout", "crash"} /\ ~known
<1>1. /\ pc = "dried" /\ cal' = NoCal
      /\ UNCHANGED <<conf, stop_soon, virgin_bits, virgin_tmout, var_bytes, first_trace, hangs, sv>>
    BY DEF DryDone
<1>2. cur \in DOMAIN queue /\ queue[cur] \in Entries BY <1>1, CurEntry
<1>3. CalTypes' BY <1>1, NoCalType DEF CalTypes
<1>4. Len(queue) \in Nat /\ DOMAIN queue = 1..Len(queue) /\ cur \in 1..Len(queue)
    BY <1>2, QueueIndices
<1>5. CASE stop_soon \/ cal.fault = "noinst"
    <2>1. /\ pc' = (IF stop_soon THEN "idle" ELSE "fatal") /\ cur' = 0
          /\ UNCHANGED <<queue, trace_bits, virgin_crash, crashes>>
        BY <1>5 DEF DryDone
    <2>2. SameEntries /\ Settled BY <1>1, <2>1 DEF SameEntries, Settled
    <2>3. BaseTypes' /\ SvTypes' /\ MapTypes' /\ TraceTypes'
        BY <1>1, <2>1 DEF BaseTypes, PCs, SvTypes, MapTypes, TraceTypes
    <2>4. CurTypes'
        <3>1. 0 \in 0..Len(queue) BY <1>4
        <3> QED BY <2>1, <3>1 DEF CurTypes
    <2>5. FirstIsGood' /\ InTrim' /\ InCalibration' /\ SeedsAhead'
        BY <2>1 DEF FirstIsGood, InTrim, InCalibration, SeedsAhead, Ahead
    <2>6. CalibratedHasCksum' BY <1>1, <2>1 DEF CalibratedHasCksum
    <2>7. SavedTypes' /\ SavedDistinct' /\ SavedMarked' BY <1>1, <2>1, SavedKept
    <2> QED BY <1>3, <2>2, <2>3, <2>4, <2>5, <2>6, <2>7, EntriesKept, IInvNext
<1>6. CASE ~(stop_soon \/ cal.fault = "noinst")
    <2>1. /\ pc' = (IF cur = Len(queue) THEN "idle" ELSE "dry")
          /\ cur' = (IF cur = Len(queue) THEN 0 ELSE cur + 1)
          /\ queue' = [queue EXCEPT ![cur].disabled = bad]
          /\ KeepCrash \/ UNCHANGED <<trace_bits, virgin_crash, crashes>>
        BY <1>6 DEF DryDone
    <2>2. MapTypes' /\ TraceTypes' /\ SavedTypes' /\ SavedDistinct' /\ SavedMarked'
        <3>1. pc' # "rerun" BY <2>1
        <3>2. CASE KeepCrash BY <1>1, <3>1, <3>2, KeepCrashKeeps
        <3>3. CASE UNCHANGED <<trace_bits, virgin_crash, crashes>>
            <4>1. MapTypes' /\ TraceTypes' BY <1>1, <3>3 DEF MapTypes, TraceTypes
            <4> QED BY <1>1, <3>1, <3>3, <4>1, SavedKept
        <3> QED BY <2>1, <3>2, <3>3
    <2> DEFINE q == [queue[cur] EXCEPT !.disabled = bad]
    <2>0. bad \in BOOLEAN OBVIOUS
    <2>4. queue' = [queue EXCEPT ![cur] = q] BY <2>1
    <2> HIDE DEF bad
    <2>3. /\ q \in Entries /\ q.cal_failed = queue[cur].cal_failed /\ q.exec_cksum = queue[cur].exec_cksum
          /\ q.input = queue[cur].input /\ q.file = queue[cur].file /\ q.trim_done = queue[cur].trim_done
        BY <1>2, <2>0 DEF Entries
    <2> HIDE DEF q
    <2>5. /\ queue' \in Seq(Entries) /\ Len(queue') = Len(queue) /\ queue'[cur] = q
          /\ DOMAIN queue' = DOMAIN queue /\ \A j \in DOMAIN queue : j # cur => queue'[j] = queue[j]
        <3>1. queue \in Seq(Entries) BY DEF QueueTypes
        <3> QED BY <1>4, <2>3, <2>4, <3>1, ExceptSeq, LenProperties
    <2>6. \A j \in DOMAIN queue : /\ queue'[j].input = queue[j].input /\ queue'[j].file = queue[j].file
                                  /\ queue'[j].trim_done = queue[j].trim_done
                                  /\ queue'[j].exec_cksum = queue[j].exec_cksum
                                  /\ queue'[j].cal_failed = queue[j].cal_failed
        BY <2>3, <2>5
    <2>7. BaseTypes' /\ SvTypes' /\ VarTypes' BY <1>1, <2>1 DEF BaseTypes, PCs, SvTypes, VarTypes
    <2>8. QueueTypes' BY <2>5 DEF QueueTypes
    <2>9. CurTypes'
        <3>1. CASE cur = Len(queue)
            <4>1. pc' = "idle" /\ cur' = 0 /\ 0 \in 0..Len(queue) BY <1>4, <2>1, <3>1
            <4> QED BY <2>5, <4>1 DEF CurTypes
        <3>2. CASE cur # Len(queue)
            <4>1. cur' = cur + 1 BY <2>1, <3>2
            <4>2. \A n \in Nat : \A m \in 1..n : m # n => m + 1 \in 0..n /\ m + 1 # 0 OBVIOUS
            <4>3. cur + 1 \in 0..Len(queue) /\ cur + 1 # 0 BY <1>4, <3>2, <4>2
            <4> QED BY <2>5, <4>1, <4>3 DEF CurTypes
        <3> QED BY <3>1, <3>2
    <2>10. \A j \in DOMAIN queue : Ahead(j)' <=> Ahead(j)
        <3> SUFFICES ASSUME NEW j \in DOMAIN queue PROVE Ahead(j)' <=> Ahead(j)
            OBVIOUS
        <3>1. Ahead(j) <=> j > cur BY <1>1 DEF Ahead, InCalibration
        <3>2. j \in 1..Len(queue) BY <1>4
        <3>3. CASE cur = Len(queue)
            <4>1. ~(j > cur) BY <1>4, <3>2, <3>3
            <4>2. pc' = "idle" BY <2>1, <3>3
            <4> QED BY <3>1, <4>1, <4>2 DEF Ahead
        <3>4. CASE cur # Len(queue)
            <4>1. pc' = "dry" /\ cur' = cur + 1 BY <2>1, <3>4
            <4>2. j > cur <=> j >= cur + 1 BY <1>4, <3>2
            <4> QED BY <3>1, <4>1, <4>2 DEF Ahead
        <3> QED BY <3>3, <3>4
    <2>11. pc' \in {"idle", "dry"} BY <2>1
    <2>12. Own' BY <2>5, <2>6 DEF Own, Owns
    <2>13. VarBytesReal' /\ VariableIsKnown' BY <1>1 DEF VarBytesReal, VariableIsKnown
    <2>14. SeedsAhead' BY <2>5, <2>6, <2>10 DEF SeedsAhead
    <2>15. CalibratedHasCksum' BY <1>1, <2>5, <2>6, <2>10 DEF CalibratedHasCksum
    <2>16. FirstIsGood' /\ InTrim' /\ InCalibration' BY <2>11 DEF FirstIsGood, InTrim, InCalibration
    <2>17. FileShowsCksum' BY <1>1, <2>5, <2>6, <2>11 DEF FileShowsCksum
    <2>18. Retained' BY <1>1, <2>5, <2>6, <2>11, RetainedGrows
    <2> QED
        BY <1>3, <2>2, <2>7, <2>8, <2>9, <2>12, <2>13, <2>14, <2>15, <2>16, <2>17, <2>18, IInvNext
<1> QED BY <1>5, <1>6

-----------------------------------------------------------------------------
(***************************************************************************)
(* Trimming.                                                               *)
(***************************************************************************)
LEMMA TrimStepPreserves ==
    ASSUME IInv, pc = "trim", NEW c \in Inputs, NEW r \in Behaviour[c]["exec"], TrimStep(c, r)
    PROVE  IInv'
<1> USE IInvParts
<1> DEFINE t == Classify(r.trace)
<1>1. UNCHANGED <<conf, stop_soon, virgin_bits, virgin_tmout, virgin_crash, var_bytes, first_trace,
                  hangs, crashes, cal, sv>>
    BY DEF TrimStep, maps, saved
<1>2. r.trace \in Trace /\ r \in Runs(c) BY RunFacts DEF Limits
<1>3. t \in Trace BY <1>2, ClassifyType
<1>4. cur \in DOMAIN queue /\ queue[cur] \in Entries BY CurEntry
<1>5. SvTypes' /\ MapTypes' /\ CalTypes' BY <1>1 DEF SvTypes, MapTypes, CalTypes
<1>6. CASE stop_soon
    <2>1. trace_bits' = r.trace /\ pc' = "idle" /\ cur' = 0 /\ UNCHANGED queue BY <1>6 DEF TrimStep
    <2>2. SameEntries /\ Settled BY <1>1, <1>6, <2>1 DEF SameEntries, Settled
    <2>3. BaseTypes' /\ TraceTypes' BY <1>1, <1>2, <2>1 DEF BaseTypes, PCs, TraceTypes
    <2>4. CurTypes' /\ InTrim'
        <3>1. 0 \in 0..Len(queue) BY QueueIndices
        <3> QED BY <2>1, <3>1 DEF CurTypes, InTrim
    <2> QED BY <1>1, <1>5, <2>1, <2>2, <2>3, <2>4, QuietKeeps, SavedKept, IInvNext
<1>7. CASE ~stop_soon
    <2>1. /\ trace_bits' = t /\ UNCHANGED <<pc, cur>>
          /\ queue' = IF Accepts(queue[cur], t) THEN [queue EXCEPT ![cur].input = c] ELSE queue
        BY <1>7 DEF TrimStep
    <2>2. BaseTypes' /\ TraceTypes' BY <1>1, <1>3, <2>1 DEF BaseTypes, TraceTypes
    <2>3. CASE queue' = queue
        <3>1. SameEntries /\ Settled BY <1>1, <2>1, <2>3 DEF SameEntries, Settled
        <3>2. CurTypes' /\ InTrim' BY <2>1, <2>3 DEF CurTypes, InTrim
        <3> QED BY <1>1, <1>5, <2>1, <2>2, <3>1, <3>2, QuietKeeps, SavedKept, IInvNext
    <2>4. CASE Accepts(queue[cur], t)
        <3>1. queue[cur].exec_cksum = t BY <2>4 DEF Accepts
        <3>2. Shown(t, Runs(c)) BY <1>2 DEF Shown
        <3> HIDE DEF t
        <3> DEFINE q == [queue[cur] EXCEPT !.input = c]
        <3>3. /\ q \in Entries /\ q.cal_failed = queue[cur].cal_failed /\ q.exec_cksum = queue[cur].exec_cksum
              /\ q.input = c /\ q.file = queue[cur].file /\ q.trim_done = queue[cur].trim_done
            BY <1>4 DEF Entries
        <3>4. queue' = [queue EXCEPT ![cur] = q] BY <2>1, <2>4
        <3> HIDE DEF q
        <3>5. /\ queue' \in Seq(Entries) /\ Len(queue') = Len(queue) /\ queue'[cur] = q
              /\ DOMAIN queue' = DOMAIN queue /\ \A j \in DOMAIN queue : j # cur => queue'[j] = queue[j]
            <4>1. queue \in Seq(Entries) /\ cur \in 1..Len(queue) /\ DOMAIN queue = 1..Len(queue)
                BY <1>4, QueueIndices DEF QueueTypes
            <4> QED BY <3>3, <3>4, <4>1, ExceptSeq, LenProperties
        <3>6. \A j \in DOMAIN queue : /\ queue'[j].file = queue[j].file
                                      /\ queue'[j].trim_done = queue[j].trim_done
                                      /\ queue'[j].exec_cksum = queue[j].exec_cksum
                                      /\ queue'[j].cal_failed = queue[j].cal_failed
                                      /\ j # cur => queue'[j].input = queue[j].input
            BY <3>3, <3>5
        <3>7. QueueTypes' /\ CurTypes' /\ VarTypes'
            BY <1>1, <2>1, <3>5 DEF QueueTypes, CurTypes, VarTypes
        <3>8. Own' BY <3>1, <3>2, <3>3, <3>5 DEF Own, Owns
        <3>9. VarBytesReal' /\ VariableIsKnown' BY <1>1 DEF VarBytesReal, VariableIsKnown
        <3>10. FirstIsGood' /\ InCalibration' /\ SeedsAhead'
            BY <2>1 DEF FirstIsGood, InCalibration, SeedsAhead, Ahead
        <3>11. InTrim' BY <1>4, <2>1, <3>6 DEF InTrim
        <3>12. CalibratedHasCksum' BY <1>1, <2>1, <3>5, <3>6 DEF CalibratedHasCksum, Ahead
        <3>13. FileShowsCksum' BY <1>1, <2>1, <3>5, <3>6 DEF FileShowsCksum
        <3>14. Retained' BY <1>1, <2>1, <3>5, <3>6, RetainedGrows
        <3>15. SavedTypes' /\ SavedDistinct' /\ SavedMarked' BY <1>1, <2>1, SavedKept
        <3> QED BY <1>5, <2>2, <3>7, <3>8, <3>9, <3>10, <3>11, <3>12, <3>13, <3>14, <3>15, IInvNext
    <2> QED BY <2>1, <2>3, <2>4
<1> QED BY <1>6, <1>7

\* The trimmed file shows what the old one showed on stable edges: both have the
\* checksum of the entry.
LEMMA TrimEndPreserves == ASSUME IInv, TrimEnd PROVE IInv'
<1> USE IInvParts
<1> DEFINE o == queue[cur]
           q == [o EXCEPT !.file = o.input, !.trim_done = ~stop_soon]
<1>1. /\ pc = "trim" /\ queue' = [queue EXCEPT ![cur] = q]
      /\ trace_bits' \in {trace_bits, o.exec_cksum}
      /\ pc' = (IF stop_soon THEN "idle" ELSE "fuzz") /\ cur' = 0
      /\ UNCHANGED <<conf, stop_soon, virgin_bits, virgin_tmout, virgin_crash, var_bytes, first_trace,
                     hangs, crashes, cal, sv>>
    BY DEF TrimEnd, maps, saved
<1>2. cur \in DOMAIN queue /\ o \in Entries BY <1>1, CurEntry
<1>3. /\ q \in Entries /\ q.cal_failed = o.cal_failed /\ q.exec_cksum = o.exec_cksum
      /\ q.input = o.input /\ q.file = o.input /\ q.trim_done = ~stop_soon
    BY <1>2 DEF Entries, BaseTypes
<1>4. ~o.trim_done /\ o.exec_cksum # NoTrace BY <1>1 DEF InTrim
<1>5. Shown(o.exec_cksum, Runs(o.input)) BY <1>2, <1>4 DEF Own, Owns
<1>6. Shown(o.exec_cksum, OkRuns(o.file)) BY <1>1, <1>2, <1>4 DEF FileShowsCksum
<1>7. o.input \in Inputs /\ o.file \in Inputs /\ o.exec_cksum \in Trace
    BY <1>2, ClassesAreTraces DEF Entries
<1> HIDE DEF q
<1>8. /\ queue' \in Seq(Entries) /\ Len(queue') = Len(queue) /\ queue'[cur] = q
      /\ DOMAIN queue' = DOMAIN queue /\ \A j \in DOMAIN queue : j # cur => queue'[j] = queue[j]
    <2>1. queue \in Seq(Entries) /\ cur \in 1..Len(queue) /\ DOMAIN queue = 1..Len(queue)
        BY <1>2, QueueIndices DEF QueueTypes
    <2> QED BY <1>1, <1>3, <2>1, ExceptSeq, LenProperties
<1> HIDE DEF o
<1>9. pc' \in {"idle", "fuzz"} BY <1>1
<1>10. BaseTypes' /\ SvTypes' /\ MapTypes' /\ CalTypes' /\ VarTypes'
    BY <1>1, <1>9 DEF BaseTypes, PCs, SvTypes, MapTypes, CalTypes, VarTypes
<1>11. TraceTypes' BY <1>1, <1>7 DEF TraceTypes
<1>12. QueueTypes' BY <1>8 DEF QueueTypes
<1>13. CurTypes'
    <2>1. 0 \in 0..Len(queue) BY QueueIndices
    <2> QED BY <1>1, <1>8, <1>9, <2>1 DEF CurTypes
<1>14. Own' BY <1>3, <1>5, <1>8 DEF Own, Owns
<1>15. VarBytesReal' /\ VariableIsKnown' BY <1>1 DEF VarBytesReal, VariableIsKnown
<1>16. FirstIsGood' /\ InCalibration' /\ SeedsAhead' /\ InTrim'
    BY <1>9 DEF FirstIsGood, InCalibration, SeedsAhead, Ahead, InTrim
<1>17. CalibratedHasCksum'
    BY <1>1, <1>3, <1>4, <1>8, <1>9 DEF CalibratedHasCksum, Ahead
<1>18. FileShowsCksum'
    <2> SUFFICES ASSUME NEW j \in DOMAIN queue
                 PROVE  /\ queue'[j].exec_cksum # NoTrace => Shown(queue'[j].exec_cksum, Runs(queue'[j].file))
                        /\ /\ queue'[j].exec_cksum # NoTrace /\ ~queue'[j].trim_done
                           /\ stop_soon => pc' = "trim"
                           => Shown(queue'[j].exec_cksum, OkRuns(queue'[j].file))
                        /\ queue'[j].input # queue'[j].file => stop_soon
        BY <1>1, <1>8, <1>9 DEF FileShowsCksum
    <2>1. CASE j = cur BY <1>3, <1>5, <1>8, <1>9, <2>1
    <2>2. CASE j # cur BY <1>1, <1>8, <1>9, <2>2 DEF FileShowsCksum
    <2> QED BY <2>1, <2>2
<1>19. Retained'
    <2> SUFFICES ASSUME NEW e \in Edges \ Unstable, NEW b \in Bits \ virgin_bits[e]
                 PROVE  Witness(e, b)'
        BY <1>1 DEF Retained, Witness
    <2> DEFINE W(k, r) == /\ count_class_lookup8(r.trace[e]) = b
                          /\ r.fault = "ok" \/ queue[k].trim_done
    <2>0. PICK k \in DOMAIN queue : \E r \in Runs(queue[k].file) : W(k, r)
        BY <1>1 DEF Retained
    <2>1. PICK r \in Runs(queue[k].file) : W(k, r) BY <2>0
    <2>2. CASE k # cur
        <3>1. k \in DOMAIN queue' /\ queue'[k] = queue[k] BY <1>8, <2>2
        <3> QED BY <2>1, <3>1 DEF Witness
    <2>3. CASE k = cur
        <3>1. r \in OkRuns(o.file) BY <1>4, <2>1, <2>3 DEF OkRuns, o
        <3>2. PICK s \in OkRuns(o.file) : o.exec_cksum = Classify(s.trace) BY <1>6 DEF Shown
        <3>3. PICK u \in Runs(o.input) : o.exec_cksum = Classify(u.trace) BY <1>5 DEF Shown
        <3>4. Classify(r.trace)[e] = Classify(s.trace)[e] BY <1>7, <3>1, <3>2, DiffersIsUnstable
        <3>5. r.trace \in Trace /\ u.trace \in Trace BY <1>7, <3>1, <3>3, RunTraces DEF OkRuns
        <3>6. count_class_lookup8(u.trace[e]) = b BY <2>1, <3>2, <3>3, <3>4, <3>5, ClassifyType
        <3>7. cur \in DOMAIN queue' /\ queue'[cur].file = o.input /\ queue'[cur].trim_done = ~stop_soon
            BY <1>2, <1>3, <1>8
        <3> QED BY <1>1, <1>9, <3>3, <3>6, <3>7 DEF Witness
    <2> QED BY <2>2, <2>3
<1>20. SavedTypes' /\ SavedDistinct' /\ SavedMarked' BY <1>1, <1>9, SavedKept
<1> QED BY <1>10, <1>11, <1>12, <1>13, <1>14, <1>15, <1>16, <1>17, <1>18, <1>19, <1>20, IInvNext

-----------------------------------------------------------------------------
(***************************************************************************)
(* Mutated inputs, hangs that are run again, the stop.                     *)
(***************************************************************************)
\* A good run is judged once, by its classified trace, whatever the sanitizer
\* mode has asked for before.
LEMMA FuzzOkFacts ==
    ASSUME IInv, NEW i \in Inputs, NEW r \in Behaviour[i]["exec"], FuzzOk(i, r)
    PROVE  /\ pc = "fuzz" /\ ~stop_soon /\ r.fault = "ok"
           /\ UNCHANGED <<conf, stop_soon, virgin_tmout, virgin_crash, var_bytes, hangs, crashes>>
           /\ \E n : /\ Lazy(n, r.trace) /\ n.counted
                     /\ \/ /\ n.new_bits # 0 /\ SaveToQueue(n, i)
                           /\ \E f \in {"ok", "crash"} : sv' = [mem |-> i, fault |-> f, edges |-> {}]
                        \/ /\ n.new_bits = 0 /\ trace_bits' = n.t /\ virgin_bits' = n.v
                           /\ pc' \in {"fault", "fuzz"}
                           /\ sv' \in {sv, [mem |-> i, fault |-> "crash", edges |-> {}]}
                           /\ UNCHANGED <<queue, first_trace, cur, cal>>
<1> DEFINE b == Begin(r)
           s == CASE conf.san = "increase" -> NewBitsIfNecessary(b)
                  [] conf.san = "unique" -> ClassifyIfNecessary(b)
                  [] OTHER -> b
           bug == FeedSan(s) /\ SanCrashes[i]
           n == NewBitsIfNecessary(s)
<1>1. r.trace \in Trace BY RunFacts DEF Limits
<1>2. virgin_bits \in VirginMap BY IInvParts DEF MapTypes
<1>3. Lazy(b, r.trace) BY <1>1, BeginLazy
<1> HIDE DEF b
<1>4. Lazy(s, r.trace)
    <2>1. CASE conf.san = "increase"
        <3>1. s = NewBitsIfNecessary(b) BY <2>1
        <3> QED BY <1>1, <1>2, <1>3, <3>1, LazyNewBits
    <2>2. CASE conf.san = "unique"
        <3>1. s = ClassifyIfNecessary(b) BY <2>2
        <3> QED BY <1>1, <1>3, <3>1, LazyClassify
    <2>3. CASE conf.san \notin {"increase", "unique"}
        <3>1. s = b BY <2>3
        <3> QED BY <1>3, <3>1
    <2> QED BY <2>1, <2>2, <2>3
<1>5. /\ pc = "fuzz" /\ ~stop_soon /\ r.fault = "ok"
      /\ IF n.new_bits # 0
         THEN /\ SaveToQueue(n, i)
              /\ sv' = [mem |-> i, fault |-> IF bug THEN "crash" ELSE "ok", edges |-> {}]
         ELSE /\ trace_bits' = n.t /\ virgin_bits' = n.v
              /\ pc' = IF bug THEN "fault" ELSE "fuzz"
              /\ sv' = IF bug THEN [mem |-> i, fault |-> "crash", edges |-> {}] ELSE sv
              /\ UNCHANGED <<queue, first_trace, cur, cal>>
      /\ UNCHANGED <<conf, stop_soon, virgin_tmout, virgin_crash, var_bytes, hangs, crashes>>
    BY DEF FuzzOk, b
<1> HIDE DEF s, bug
<1>6. Lazy(n, r.trace) /\ n.counted BY <1>1, <1>2, <1>4, LazyNewBits
<1> HIDE DEF n
<1>7. CASE n.new_bits # 0
    <2>1. SaveToQueue(n, i) BY <1>5, <1>7
    <2>2. \E f \in {"ok", "crash"} : sv' = [mem |-> i, fault |-> f, edges |-> {}] BY <1>5, <1>7
    <2> QED BY <1>5, <1>6, <1>7, <2>1, <2>2
<1>8. CASE n.new_bits = 0
    <2>1. /\ trace_bits' = n.t /\ virgin_bits' = n.v /\ pc' \in {"fault", "fuzz"}
          /\ sv' \in {sv, [mem |-> i, fault |-> "crash", edges |-> {}]}
          /\ UNCHANGED <<queue, first_trace, cur, cal>>
        BY <1>5, <1>8
    <2> QED BY <1>5, <1>6, <1>8, <2>1
<1> QED BY <1>7, <1>8

LEMMA FuzzOkPreserves ==
    ASSUME IInv, NEW i \in Inputs, NEW r \in Behaviour[i]["exec"], FuzzOk(i, r) PROVE IInv'
<1> USE IInvParts
<1>1. /\ pc = "fuzz" /\ ~stop_soon /\ r.fault = "ok"
      /\ UNCHANGED <<conf, stop_soon, virgin_tmout, virgin_crash, var_bytes, hangs, crashes>>
    BY FuzzOkFacts
<1>2. PICK n : /\ Lazy(n, r.trace) /\ n.counted
               /\ \/ /\ n.new_bits # 0 /\ SaveToQueue(n, i)
                     /\ \E f \in {"ok", "crash"} : sv' = [mem |-> i, fault |-> f, edges |-> {}]
                  \/ /\ n.new_bits = 0 /\ trace_bits' = n.t /\ virgin_bits' = n.v
                     /\ pc' \in {"fault", "fuzz"}
                     /\ sv' \in {sv, [mem |-> i, fault |-> "crash", edges |-> {}]}
                     /\ UNCHANGED <<queue, first_trace, cur, cal>>
    BY FuzzOkFacts
<1>3. r.trace \in Trace /\ r \in Runs(i) BY RunFacts DEF Limits
<1>4. CASE n.new_bits # 0
    <2>1. SvTypes' BY <1>2, <1>4 DEF SvTypes
    <2>2. SaveToQueue(n, i) BY <1>2, <1>4
    <2> QED BY <1>1, <1>2, <1>3, <2>1, <2>2, SaveToQueuePreserves
<1>5. CASE n.new_bits = 0
    <2>1. /\ trace_bits' = n.t /\ virgin_bits' = n.v /\ pc' \in {"fault", "fuzz"}
          /\ sv' \in {sv, [mem |-> i, fault |-> "crash", edges |-> {}]}
          /\ UNCHANGED <<queue, first_trace, cur, cal>>
        BY <1>2, <1>5
    <2>2. n.v = virgin_bits
        <3>1. virgin_bits \in VirginMap /\ Classify(r.trace) \in Trace
            BY <1>3, ClassifyType DEF MapTypes
        <3>2. n.v = Discover(virgin_bits, Classify(r.trace)) /\ HasNewBits(virgin_bits, Classify(r.trace)) = 0
            BY <1>2, <1>5 DEF Lazy
        <3> QED BY <3>1, <3>2, DiscoverType
    <2>3. SameEntries /\ Settled BY <1>1, <2>1, <2>2 DEF SameEntries, Settled
    <2>4. BaseTypes' /\ CalTypes' BY <1>1, <2>1 DEF BaseTypes, PCs, CalTypes
    <2>5. TraceTypes' /\ MapTypes'
        <3>1. n.t \in Trace BY <1>2 DEF Lazy, LazyRecord
        <3> QED BY <1>1, <2>1, <2>2, <3>1 DEF TraceTypes, MapTypes
    <2>6. SvTypes' BY <2>1 DEF SvTypes
    <2>7. CurTypes' /\ InTrim' BY <2>1 DEF CurTypes, InTrim
    <2> QED BY <1>1, <2>1, <2>3, <2>4, <2>5, <2>6, <2>7, QuietKeeps, SavedKept, IInvNext
<1> QED BY <1>4, <1>5

LEMMA RerunPreserves == ASSUME IInv, NEW r \in Behaviour[sv.mem]["hang"], Rerun(r) PROVE IInv'
<1> USE IInvParts
<1>1. /\ pc = "rerun"
      /\ UNCHANGED <<conf, stop_soon, virgin_tmout, virgin_crash, var_bytes, crashes>>
    BY DEF Rerun
<1>2. sv.mem \in Inputs BY DEF SvTypes
<1>3. r.trace \in Trace /\ r \in Runs(sv.mem) BY <1>2, RunFacts DEF Limits
<1>4. CASE r.fault = "crash" /\ ~stop_soon
    <2>1. /\ trace_bits' = r.trace /\ pc' = "fault" /\ sv' = [sv EXCEPT !.fault = "crash", !.edges = {}]
          /\ UNCHANGED <<queue, virgin_bits, first_trace, hangs, cur, cal>>
        BY <1>4 DEF Rerun
    <2>2. SameEntries /\ Settled BY <1>1, <2>1 DEF SameEntries, Settled
    <2>3. BaseTypes' /\ CalTypes' BY <1>1, <2>1 DEF BaseTypes, PCs, CalTypes
    <2>4. TraceTypes' /\ MapTypes' BY <1>1, <1>3, <2>1 DEF TraceTypes, MapTypes
    <2>5. SvTypes' BY <2>1 DEF SvTypes
    <2>6. CurTypes' /\ InTrim' BY <2>1 DEF CurTypes, InTrim
    <2> QED BY <1>1, <2>1, <2>2, <2>3, <2>4, <2>5, <2>6, QuietKeeps, SavedKept, IInvNext
<1>5. CASE (stop_soon \/ r.fault = "ok") /\ conf.keep_timeouts
    <2>1. SaveToQueue(Fresh(r.trace), sv.mem) /\ sv' = [sv EXCEPT !.edges = {}] /\ UNCHANGED hangs
        BY <1>5 DEF Rerun
    <2>2. SvTypes' BY <2>1 DEF SvTypes
    <2>3. Lazy(Fresh(r.trace), r.trace) BY <1>3, LazyFresh DEF MapTypes
    <2> QED BY <1>1, <1>2, <1>3, <1>5, <2>1, <2>2, <2>3, SaveToQueuePreserves
<1>6. CASE /\ ~(r.fault = "crash" /\ ~stop_soon)
           /\ ~((stop_soon \/ r.fault = "ok") /\ conf.keep_timeouts)
    <2>1. /\ trace_bits' = r.trace /\ hangs' \in {hangs, Append(hangs, sv.edges)}
          /\ SaveReturn /\ pc' = "fuzz" /\ UNCHANGED <<queue, virgin_bits, first_trace>>
        BY <1>6 DEF Rerun, SaveReturn
    <2>2. SameEntries /\ Settled BY <1>1, <2>1 DEF SameEntries, Settled
    <2>3. BaseTypes' BY <1>1, <2>1 DEF BaseTypes, PCs
    <2>4. TraceTypes' /\ MapTypes' BY <1>1, <1>3, <2>1 DEF TraceTypes, MapTypes
    <2>5. /\ hangs' \in Seq(SUBSET Edges) /\ IsInjective(hangs')
          /\ \A k \in DOMAIN hangs' : Marked(hangs'[k], virgin_tmout)
        <3>1. /\ hangs \in Seq(SUBSET Edges) /\ IsInjective(hangs) /\ sv.edges \in SUBSET Edges
              /\ \A k \in DOMAIN hangs : Marked(hangs[k], virgin_tmout)
              /\ Marked(sv.edges, virgin_tmout) /\ \A k \in DOMAIN hangs : hangs[k] # sv.edges
            BY <1>1 DEF SavedTypes, SavedDistinct, SvTypes, SavedMarked
        <3>2. CASE hangs' = hangs BY <3>1, <3>2
        <3>3. CASE hangs' = Append(hangs, sv.edges) BY <3>1, <3>3, AppendDistinct
        <3> QED BY <2>1, <3>2, <3>3
    <2>6. SavedTypes' /\ SavedDistinct' BY <1>1, <2>5 DEF SavedTypes, SavedDistinct
    <2>7. SavedMarked' BY <1>1, <2>1, <2>5 DEF SavedMarked
    <2> QED BY <1>1, <2>1, <2>2, <2>3, <2>4, <2>6, <2>7, SaveReturnKeeps, QuietKeeps, IInvNext
<1> QED BY <1>4, <1>5, <1>6

LEMMA StopPreserves == ASSUME IInv, Stop PROVE IInv'
<1> USE IInvParts
<1>1. /\ ~stop_soon /\ stop_soon' = TRUE
      /\ UNCHANGED <<conf, pc, queue, trace_bits, virgin_bits, virgin_tmout, virgin_crash, var_bytes,
                     first_trace, hangs, crashes, cur, cal, sv>>
    BY DEF Stop, maps, saved
<1>2. SameEntries /\ Settled BY <1>1 DEF SameEntries, Settled
<1>3. BaseTypes' /\ TraceTypes' /\ MapTypes' /\ SvTypes' /\ CalTypes' /\ CurTypes'
    BY <1>1 DEF BaseTypes, TraceTypes, MapTypes, SvTypes, CalTypes, CurTypes
<1>4. FirstIsGood' /\ InTrim' BY <1>1 DEF FirstIsGood, InTrim
<1>5. SeedsAhead' /\ InCalibration' /\ CalibratedHasCksum'
    BY <1>1 DEF SeedsAhead, Ahead, InCalibration, CalibratedHasCksum
<1> QED BY <1>1, <1>2, <1>3, <1>4, <1>5, EntriesKept, SavedKept, IInvNext

-----------------------------------------------------------------------------
(***************************************************************************)
(* The invariant holds at first, and is kept.                              *)
(***************************************************************************)
LEMMA InitIInv == Init => IInv
<1> SUFFICES ASSUME Init PROVE IInv
    OBVIOUS
<1> USE IInvParts
<1>1. Seeds \in Seq(Inputs) /\ Len(Seeds) \in Nat /\ Len(Seeds) # 0 /\ DOMAIN Seeds = 1..Len(Seeds)
      /\ \A k \in 1..Len(Seeds) : Seeds[k] \in Inputs
    BY NoveltyAssumption, LenProperties, ElementOfSeq, EmptySeq
<1>2. \A i \in Inputs : Entry(i) \in Entries
    <2>1. 0 \in 0..CAL_CHANCES BY NoveltyAssumption
    <2> QED BY <2>1, ClassesAreTraces DEF Entry, Entries
<1>3. queue = [k \in 1..Len(Seeds) |-> Entry(Seeds[k])] BY <1>1 DEF Init
<1>4. \A k \in 1..Len(Seeds) : queue[k] = Entry(Seeds[k]) /\ queue[k] \in Entries
    BY <1>1, <1>2, <1>3
<1>5. queue \in Seq(Entries) /\ Len(queue) = Len(Seeds) /\ DOMAIN queue = 1..Len(Seeds)
    <2>1. queue \in [1..Len(Seeds) -> Entries] BY <1>3, <1>4
    <2> QED BY <1>1, <2>1, LenProperties, SeqDef
<1>6. \A k \in DOMAIN queue : /\ queue[k].exec_cksum = NoTrace /\ queue[k].cal_failed = 0
                              /\ queue[k].input = queue[k].file
    BY <1>4, <1>5 DEF Entry
<1>7. BaseTypes /\ QueueTypes /\ VarTypes BY <1>5 DEF Init, BaseTypes, PCs, QueueTypes, VarTypes
<1>8. TraceTypes /\ MapTypes BY ClassesAreTraces DEF Init, TraceTypes, MapTypes, VirginMap
<1>9. CurTypes
    <2>1. 1 \in 0..Len(queue) BY <1>1, <1>5
    <2> QED BY <2>1 DEF Init, CurTypes
<1>10. CalTypes BY NoCalType DEF Init, CalTypes
<1>11. SvTypes
    <2>1. Seeds[1] \in Inputs BY <1>1
    <2> QED BY <2>1 DEF Init, NoSv, SvTypes
<1>12. SavedTypes /\ SavedDistinct /\ SavedMarked
    <2>1. crashes = <<>> /\ hangs = <<>> /\ pc = "dry" BY DEF Init
    <2>2. <<>> \in Seq(SUBSET Edges) /\ DOMAIN <<>> = {} OBVIOUS
    <2>3. IsInjective(<<>>) BY <2>2 DEF IsInjective
    <2> QED BY <2>1, <2>2, <2>3 DEF SavedTypes, SavedDistinct, SavedMarked
<1>13. Own BY <1>6 DEF Own, Owns
<1>14. VarBytesReal /\ VariableIsKnown /\ FirstIsGood /\ InCalibration /\ InTrim
    BY DEF Init, VarBytesReal, VariableIsKnown, FirstIsGood, InCalibration, InTrim
<1>15. SeedsAhead BY <1>6 DEF SeedsAhead
<1>16. CalibratedHasCksum
    <2>1. \A k \in DOMAIN queue : k >= cur BY <1>1, <1>5 DEF Init
    <2> QED BY <2>1 DEF Init, CalibratedHasCksum, Ahead
<1>17. FileShowsCksum BY <1>6 DEF FileShowsCksum
<1>18. Retained BY DEF Init, Retained
<1> QED BY <1>7, <1>8, <1>9, <1>10, <1>11, <1>12, <1>13, <1>14, <1>15, <1>16, <1>17, <1>18

LEMMA NextIInv == IInv /\ [Next]_vars => IInv'
<1> SUFFICES ASSUME IInv, [Next]_vars PROVE IInv'
    OBVIOUS
<1>1. CASE UNCHANGED vars
    <2> USE IInvParts
    <2>1. UNCHANGED <<conf, stop_soon, pc, queue, trace_bits, virgin_bits, virgin_tmout, virgin_crash,
                      var_bytes, first_trace, hangs, crashes, cur, cal, sv>>
        BY <1>1 DEF vars, maps, saved
    <2>2. SameEntries /\ Settled BY <2>1 DEF SameEntries, Settled
    <2>3. BaseTypes' /\ TraceTypes' /\ MapTypes' /\ SvTypes' /\ CalTypes' /\ CurTypes'
        BY <2>1 DEF BaseTypes, TraceTypes, MapTypes, SvTypes, CalTypes, CurTypes
    <2>4. FirstIsGood' /\ InTrim' BY <2>1 DEF FirstIsGood, InTrim
    <2>5. SeedsAhead' /\ InCalibration' /\ CalibratedHasCksum'
        BY <2>1 DEF SeedsAhead, Ahead, InCalibration, CalibratedHasCksum
    <2> QED BY <2>1, <2>2, <2>3, <2>4, <2>5, EntriesKept, SavedKept, IInvNext
<1>2. CASE DryRun BY <1>2, DryRunPreserves
<1>3. CASE DryDone BY <1>3, DryDonePreserves
<1>4. ASSUME pc = "cal", NEW r \in Behaviour[queue[cur].input][CalLimit], CalRun(r) PROVE IInv'
    BY <1>4, CalRunPreserves
<1>5. ASSUME pc = "cal", NEW r \in Behaviour[queue[cur].input][CalLimit], CalAbort(r) PROVE IInv'
    BY <1>5, CalAbortPreserves
<1>6. CASE CalEnd BY <1>6, CalEndPreserves
<1>7. CASE Calibrated BY <1>7, CalibratedPreserves
<1>8. ASSUME NEW k \in DOMAIN queue, Recalibrate(k) PROVE IInv' BY <1>8, RecalibratePreserves
<1>9. ASSUME NEW k \in DOMAIN queue, FuzzOne(k) PROVE IInv' BY <1>9, FuzzOnePreserves
<1>10. ASSUME pc = "trim", NEW c \in Inputs, NEW r \in Behaviour[c]["exec"], TrimStep(c, r) PROVE IInv'
    BY <1>10, TrimStepPreserves
<1>11. CASE TrimEnd BY <1>11, TrimEndPreserves
<1>12. CASE Abandon BY <1>12, AbandonPreserves
<1>13. ASSUME NEW i \in Inputs, NEW r \in Behaviour[i]["exec"], FuzzIdle(r) PROVE IInv'
    BY <1>13, FuzzIdlePreserves
<1>14. ASSUME NEW i \in Inputs, NEW r \in Behaviour[i]["exec"], FuzzFault(i, r) PROVE IInv'
    BY <1>14, FuzzFaultPreserves
<1>15. ASSUME NEW i \in Inputs, NEW r \in Behaviour[i]["exec"], FuzzOk(i, r) PROVE IInv'
    BY <1>15, FuzzOkPreserves
<1>16. CASE SaveNothing BY <1>16, SaveNothingPreserves
<1>17. CASE SaveCrash BY <1>17, SaveCrashPreserves
<1>18. CASE SaveHang BY <1>18, SaveHangPreserves
<1>19. ASSUME NEW r \in Behaviour[sv.mem]["hang"], Rerun(r) PROVE IInv' BY <1>19, RerunPreserves
<1>20. CASE Stop BY <1>20, StopPreserves
<1> QED BY <1>1, <1>2, <1>3, <1>4, <1>5, <1>6, <1>7, <1>8, <1>9, <1>10, <1>11, <1>12, <1>13, <1>14,
           <1>15, <1>16, <1>17, <1>18, <1>19, <1>20 DEF Next

-----------------------------------------------------------------------------
(***************************************************************************)
(* The theorems.                                                           *)
(***************************************************************************)
\* The whole invariant: what afl-fuzz has recorded of the coverage agrees with
\* the files it keeps, at every step of the dry run, of calibration, trimming
\* and save_if_interesting, and however the target behaves.
THEOREM NoveltyInvariant == Spec => []IInv
<1> QED BY InitIInv, NextIInv, PTL DEF Spec

\* The exec_cksum of an entry is of a run of the entry itself, classified once:
\* calibrate_case and trim_case never compare with the checksum of another.
THEOREM ChecksumsAreOwn == Spec => []CksumIsOwn
<1>1. IInv => CksumIsOwn BY DEF IInv
<1> QED BY <1>1, NoveltyInvariant, PTL

\* calibrate_case marks an edge in var_bytes only if two good runs of one input
\* differ in it.
THEOREM VariableEdgesVary == Spec => []VarBytesReal
<1>1. IInv => VarBytesReal BY DEF IInv
<1> QED BY <1>1, NoveltyInvariant, PTL

\* What has_new_bits took out of virgin_bits on a stable edge is shown by a file
\* of the queue, through trimming and the stop.
THEOREM FilesHoldCoverage == Spec => []FilesRetain
<1>1. IInv => FilesRetain BY DEF IInv, Retained, FilesRetain
<1> QED BY <1>1, NoveltyInvariant, PTL

\* No two crashes that are saved reach the same edges, nor do two hangs, also
\* when a hang is run again between the look at virgin_tmout and the saving.
THEOREM SavedFaultsDiffer == Spec => []SavedDistinct
<1>1. IInv => SavedDistinct BY DEF IInv
<1> QED BY <1>1, NoveltyInvariant, PTL

\* Which steps let the queue grow.
LEMMA SameIndices ==
    ASSUME QueueTypes, QueueTypes', DOMAIN queue' = DOMAIN queue PROVE Len(queue') = Len(queue)
<1>1. Len(queue) \in Nat /\ DOMAIN queue = 1..Len(queue) BY QueueIndices
<1>2. Len(queue') \in Nat /\ DOMAIN queue' = 1..Len(queue') BY LenProperties DEF QueueTypes
<1>3. \A m, n \in Nat : 1..m = 1..n => m = n OBVIOUS
<1> QED BY <1>1, <1>2, <1>3

LEMMA GrowsBySaving ==
    ASSUME IInv, IInv', Next, Len(queue') # Len(queue)
    PROVE  \/ \E i \in Inputs : \E r \in Behaviour[i]["exec"] : FuzzOk(i, r) /\ UNCHANGED conf
           \/ conf.keep_timeouts
<1>1. DOMAIN queue' # DOMAIN queue
    <2>1. QueueTypes BY IInvParts
    <2>2. QueueTypes' BY DEF IInv, FullTypes, QueueTypes
    <2> QED BY <2>1, <2>2, SameIndices
<1>2. ~DryRun BY <1>1 DEF DryRun, CalBegin
<1>3. ~DryDone BY <1>1 DEF DryDone
<1>4. \A r : ~CalRun(r) BY <1>1 DEF CalRun
<1>5. \A r : ~CalAbort(r) BY <1>1 DEF CalAbort, CalReturn
<1>6. ~CalEnd BY <1>1 DEF CalEnd, CalReturn
<1>7. ~Calibrated BY <1>1 DEF Calibrated
<1>8. \A k : ~Recalibrate(k) BY <1>1 DEF Recalibrate, CalBegin
<1>9. \A k : ~FuzzOne(k) BY <1>1 DEF FuzzOne
<1>10. \A c, r : ~TrimStep(c, r) BY <1>1 DEF TrimStep
<1>11. ~TrimEnd BY <1>1 DEF TrimEnd
<1>12. ~Abandon BY <1>1 DEF Abandon
<1>13. \A i, r : ~FuzzIdle(r) /\ ~FuzzFault(i, r) BY <1>1 DEF FuzzIdle, FuzzFault
<1>14. ~SaveNothing /\ ~SaveCrash /\ ~SaveHang BY <1>1 DEF SaveNothing, SaveCrash, SaveHang
<1>15. \A r : Rerun(r) => conf.keep_timeouts BY <1>1 DEF Rerun
<1>16. ~Stop BY <1>1 DEF Stop
<1>17. \A i, r : FuzzOk(i, r) => UNCHANGED conf BY DEF FuzzOk
<1> QED BY <1>2, <1>3, <1>4, <1>5, <1>6, <1>7, <1>8, <1>9, <1>10, <1>11, <1>12, <1>13, <1>14, <1>15,
           <1>16, <1>17 DEF Next

\* A find is not flaky: it shows a class not seen before on an edge that is not
\* known to vary (AFL_KEEP_TIMEOUTS keeps others).
THEOREM FindsAreNotFlaky == Spec => NoFlakyFind
<1> DEFINE New(q) == \E e \in Edges \ var_bytes, r \in Runs(q.input) :
                         count_class_lookup8(r.trace[e]) \in virgin_bits[e]
           Grows == Len(queue') > Len(queue) /\ ~conf.keep_timeouts => New(queue'[Len(queue')])
<1>1. ASSUME IInv, IInv', [Next]_vars PROVE [Grows]_vars
    <2> SUFFICES ASSUME Next, Len(queue') > Len(queue), ~conf.keep_timeouts
                 PROVE  New(queue'[Len(queue')])
        BY <1>1
    <2> USE <1>1
    <2>1. queue \in Seq(Entries) /\ Len(queue) \in Nat BY IInvParts, QueueIndices DEF QueueTypes
    <2>2. queue' \in Seq(Entries) /\ Len(queue') \in Nat /\ DOMAIN queue' = 1..Len(queue')
        <3>1. queue' \in Seq(Entries) BY DEF IInv, FullTypes
        <3> QED BY <3>1, LenProperties
    <2>3. Len(queue') # Len(queue) BY <2>1, <2>2
    <2>4. PICK i \in Inputs : \E r \in Behaviour[i]["exec"] : FuzzOk(i, r)
        BY <2>3, GrowsBySaving
    <2>5. PICK r \in Behaviour[i]["exec"] : FuzzOk(i, r) BY <2>4
    <2>6. PICK n : /\ Lazy(n, r.trace) /\ n.counted
                   /\ (n.new_bits # 0 /\ SaveToQueue(n, i)) \/ queue' = queue
        BY <2>5, FuzzOkFacts
    <2>7. n.new_bits # 0 /\ SaveToQueue(n, i) BY <2>3, <2>6
    <2>8. r \in Runs(i) /\ r.trace \in Trace BY RunFacts DEF Limits
    <2>9. queue'[Len(queue')].input = i
        <3> DEFINE c == NewBitsIfNecessary(CksumIfNecessary(n))
                   q == [Entry(i) EXCEPT !.exec_cksum = c.cksum]
                   p == [Append(queue, q)[Len(queue) + 1] EXCEPT
                            !.cal_failed = @ + 1, !.exec_cksum = IF conf.cmplog THEN NoTrace ELSE @]
        <3>1. queue' = [Append(queue, q) EXCEPT ![Len(queue) + 1] = p]
            BY <2>7 DEF SaveToQueue, CalBegin
        <3>2. q.input = i BY DEF Entry
        <3> HIDE DEF q
        <3>3. /\ DOMAIN Append(queue, q) = 1..(Len(queue) + 1) /\ Append(queue, q)[Len(queue) + 1] = q
            <4>1. queue \in Seq(Entries \cup {q}) BY <2>1
            <4>2. /\ Append(queue, q) \in Seq(Entries \cup {q}) /\ Len(Append(queue, q)) = Len(queue) + 1
                  /\ Append(queue, q)[Len(queue) + 1] = q
                BY <4>1, AppendProperties
            <4> QED BY <4>2, LenProperties
        <3>4. Len(queue) + 1 \in 1..(Len(queue) + 1) BY <2>1
        <3>5. p.input = q.input BY <3>3
        <3> HIDE DEF p
        <3>6. DOMAIN queue' = 1..(Len(queue) + 1) /\ queue'[Len(queue) + 1] = p BY <3>1, <3>3, <3>4
        <3>7. Len(queue') = Len(queue) + 1
            <4>1. \A m, k \in Nat : 1..m = 1..k => m = k OBVIOUS
            <4>2. Len(queue) + 1 \in Nat BY <2>1
            <4> QED BY <2>2, <3>6, <4>1, <4>2
        <3> QED BY <3>2, <3>5, <3>6, <3>7
    <2>10. PICK e \in Edges : count_class_lookup8(r.trace[e]) \in virgin_bits[e]
        <3>1. virgin_bits \in VirginMap BY IInvParts DEF MapTypes
        <3>2. Classify(r.trace) \in Classes /\ Classify(r.trace) \in Trace BY <2>8, ClassifyType
        <3>3. HasNewBits(virgin_bits, Classify(r.trace)) # 0 BY <2>6, <2>7 DEF Lazy
        <3>4. PICK e \in Edges : BitsOf(Classify(r.trace)[e]) \cap virgin_bits[e] # {}
            BY <3>1, <3>2, <3>3, DiscoverType
        <3>5. Classify(r.trace)[e] \in virgin_bits[e] BY <3>2, <3>4, BitsOfClass
        <3> QED BY <2>8, <3>5, ClassifyType
    <2>11. e \notin var_bytes BY <2>10, IInvParts DEF VariableIsKnown
    <2> QED BY <2>8, <2>9, <2>10, <2>11
<1>2. NoFlakyFind <=> [][Grows]_vars BY PTL DEF NoFlakyFind
<1> QED BY <1>1, <1>2, NoveltyInvariant, PTL DEF Spec
=============================================================================
