------------------------------- MODULE Corpus -------------------------------
(***************************************************************************)
(* The queue of afl-fuzz and the selection of favored entries:             *)
(* add_to_queue, update_bitmap_score, cull_queue, recalculate_all_scores   *)
(* (src/afl-fuzz-queue.c), as the dry run, the main loop and fuzz_one call *)
(* them, and the fast resume of a session (src/afl-fuzz.c).                *)
(*                                                                         *)
(* Queue ids start at 1 here; 0 stands for NULL in top_rated and for -1 in *)
(* smallest_favored.  trace_mini = {} is the NULL pointer: the trace of a  *)
(* run that was not rejected is never empty.                               *)
(***************************************************************************)
EXTENDS Integers, FiniteSets, Sequences

CONSTANTS
    NumBits,           \* fsrv.map_size
    Traces,            \* the traces runs of the target can have
    Lens, Times,       \* q->len and q->exec_us
    MaxItems,          \* bound: queue entries
    MaxSeeds,          \* bound: entries of the initial corpus
    MaxLevel,          \* bound: fuzz_one calls per entry
    MaxRestarts,       \* bound: stop and fast resume
    CycleSchedules,    \* AFL_CYCLE_SCHEDULES
    DisableRedundant,  \* AFL_DISABLE_REDUNDANT
    CrashingSeeds      \* AFL_CRASHING_SEEDS_AS_NEW_CRASH

Bits == 0 .. NumBits - 1
CAL_CHANCES == 3

ASSUME CorpusAssumption ==
    /\ NumBits \in Nat \ {0}
    /\ Traces \subseteq (SUBSET Bits) \ {{}}
    /\ Lens \subseteq Nat /\ Times \subseteq Nat
    /\ {MaxItems, MaxSeeds, MaxLevel, MaxRestarts} \subseteq Nat
    /\ {CycleSchedules, DisableRedundant, CrashingSeeds} \subseteq BOOLEAN

VARIABLES
    phase,             \* see TypeOK
    queue_buf,         \* sequence of entries
    top_rated,         \* [Bits -> id of the best entry for this bit]
    score_changed, queued_favored, pending_favored, smallest_favored,
    pending_not_fuzzed, active_items,
    queue_cur,         \* the entry fuzz_one works on
    last_scored_idx,   \* entries enrolled by recalculate_all_scores
    schedule,          \* the power schedule
    restarts

counters == <<queued_favored, pending_favored, smallest_favored,
              pending_not_fuzzed, active_items>>
vars == <<phase, queue_buf, top_rated, score_changed, counters, queue_cur,
          last_scored_idx, schedule, restarts>>

Ids == 1 .. Len(queue_buf)

\* A queue entry as add_to_queue leaves it.  trace is what the target does
\* with the file; the program does not store it.  spared (history): a seed the
\* dry run rejected and did not disable.
NewEntry(t, l) ==
    [trace |-> t, len |-> l, exec_us |-> 0, tc_ref |-> 0, trace_mini |-> {},
     favored |-> FALSE, was_fuzzed |-> FALSE, fs_redundant |-> FALSE,
     disabled |-> FALSE, cal_failed |-> 0, fuzz_level |-> 0, trim_done |-> FALSE,
     spared |-> FALSE]

(***************************************************************************)
(* Scoring.  s holds the queue, the winners, score_changed, the schedule.  *)
(***************************************************************************)
Tables == [q |-> queue_buf, top |-> top_rated, chg |-> score_changed,
           schedule |-> schedule]

\* Smaller is better.  SEEK ignores timings.
FavFactor(s, e) == IF s.schedule = "SEEK" THEN 4 * s.q[e].len
                   ELSE s.q[e].exec_us * s.q[e].len

\* mutant: the new winner's reference is not counted
Contend_NoIncrement(s, e, b, bits) ==
    LET w    == s.top[b]
        lost == w # 0 /\ \/ s.q[e].fuzz_level > s.q[w].fuzz_level
                         \/ FavFactor(s, e) > FavFactor(s, w)
        q1   == IF w = 0 THEN s.q ELSE [s.q EXCEPT ![w].tc_ref = @ - 1]
    IN  IF lost THEN s
        ELSE [s EXCEPT !.q = [q1 EXCEPT ![e].trace_mini = bits],
                       !.top[b] = e, !.chg = TRUE]

\* mutant: a loser's trace_mini is not freed
Contend_KeepsMini(s, e, b, bits) ==
    LET w    == s.top[b]
        lost == w # 0 /\ \/ s.q[e].fuzz_level > s.q[w].fuzz_level
                         \/ FavFactor(s, e) > FavFactor(s, w)
        q1   == IF w = 0 THEN s.q ELSE [s.q EXCEPT ![w].tc_ref = @ - 1]
        q2   == [q1 EXCEPT ![e].tc_ref = @ + 1,
                           ![e].trace_mini = IF @ = {} THEN bits ELSE @]
    IN  IF lost THEN s
        ELSE [s EXCEPT !.q = q2, !.top[b] = e, !.chg = TRUE]

\* Entry e contends for bit b: the body of the loop of update_bitmap_score,
\* and update_bitmap_rescore.  bits is what fsrv.trace_bits holds.
Contend(s, e, b, bits) ==
    LET w    == s.top[b]
        lost == w # 0 /\ \/ s.q[e].fuzz_level > s.q[w].fuzz_level
                         \/ FavFactor(s, e) > FavFactor(s, w)
        q1   == IF w = 0 THEN s.q
                ELSE [s.q EXCEPT ![w].tc_ref = @ - 1,
                                 ![w].trace_mini = IF s.q[w].tc_ref = 1 THEN {} ELSE @]
        q2   == [q1 EXCEPT ![e].tc_ref = @ + 1,
                           ![e].trace_mini = IF @ = {} THEN bits ELSE @]
    IN  IF lost THEN s
        ELSE [s EXCEPT !.q = q2, !.top[b] = e, !.chg = TRUE]

\* mutant: the loop stops one byte short of the end of the map
update_bitmap_score_OffByOne(s, e) ==
    LET bits == s.q[e].trace
        after[n \in 0 .. NumBits] ==
            IF n = 0 THEN s
            ELSE IF n - 1 \in bits THEN Contend(after[n - 1], e, n - 1, bits) ELSE after[n - 1]
    IN  IF s.q[e].disabled THEN s ELSE after[NumBits - 1]

\* after[n] are the tables when the loop has passed bit n - 1.
update_bitmap_score(s, e) ==
    LET bits == s.q[e].trace
        after[n \in 0 .. NumBits] ==
            IF n = 0 THEN s
            ELSE IF n - 1 \in bits THEN Contend(after[n - 1], e, n - 1, bits) ELSE after[n - 1]
    IN  IF s.q[e].disabled THEN s ELSE after[NumBits]

\* calibrate_case on entry e: it fails, or takes x and is scored.
calibrate_case(s, e, ok, x) ==
    IF ~ok THEN [s EXCEPT !.q[e].cal_failed = @ + 1]
    ELSE update_bitmap_score([s EXCEPT !.q[e] = [@ EXCEPT !.cal_failed = 0, !.exec_us = x]], e)

Store(s) == /\ queue_buf' = s.q /\ top_rated' = s.top
            /\ score_changed' = s.chg /\ schedule' = s.schedule

(***************************************************************************)
(* Culling.                                                                *)
(***************************************************************************)
\* mutant: a winner that was fuzzed before is not favored again
CullBit_DropsFuzzed(c, b) ==
    LET w == top_rated[b] IN
    IF w = 0 \/ b \notin c.temp_v \/ queue_buf[w].trace_mini = {} THEN c
    ELSE [temp_v  |-> c.temp_v \ queue_buf[w].trace_mini,
          favored |-> IF queue_buf[w].disabled \/ queue_buf[w].was_fuzzed
                      THEN c.favored ELSE c.favored \cup {w}]

\* One bit of cull_queue's loop over top_rated.
CullBit(c, b) ==
    LET w == top_rated[b] IN
    IF w = 0 \/ b \notin c.temp_v \/ queue_buf[w].trace_mini = {} THEN c
    ELSE [temp_v  |-> c.temp_v \ queue_buf[w].trace_mini,
          favored |-> IF queue_buf[w].disabled THEN c.favored ELSE c.favored \cup {w}]

CullFavored ==
    LET after[n \in 0 .. NumBits] ==
            IF n = 0 THEN [temp_v |-> Bits, favored |-> {}] ELSE CullBit(after[n - 1], n - 1)
    IN  after[NumBits].favored

mark_as_redundant(q, state) ==
    IF state = q.fs_redundant THEN q
    ELSE [q EXCEPT !.fs_redundant = state,
                   !.trace_mini = IF state THEN {} ELSE @,
                   !.disabled = @ \/ (state /\ DisableRedundant)]

cull_queue ==
    LET fav     == CullFavored
        pending == {e \in fav : ~queue_buf[e].was_fuzzed}
    IN  IF ~score_changed
        THEN UNCHANGED <<queue_buf, score_changed, queued_favored,
                         pending_favored, smallest_favored>>
        ELSE /\ score_changed' = FALSE
             /\ queued_favored' = Cardinality(fav)
             /\ pending_favored' = Cardinality(pending)
             /\ smallest_favored' = IF pending = {} THEN 0
                                    ELSE CHOOSE e \in pending : \A f \in pending : e <= f
             /\ queue_buf' = [e \in Ids |->
                    LET q == [queue_buf[e] EXCEPT !.favored = e \in fav]
                    IN  IF q.disabled THEN q ELSE mark_as_redundant(q, ~q.favored)]

(***************************************************************************)
(* The session.                                                            *)
(***************************************************************************)
Init ==
    /\ phase = "dry"
    /\ queue_buf = <<>>
    /\ top_rated = [b \in Bits |-> 0]
    /\ score_changed = FALSE
    /\ queued_favored = 0 /\ pending_favored = 0 /\ smallest_favored = 0
    /\ pending_not_fuzzed = 0 /\ active_items = 0
    /\ queue_cur = 0 /\ last_scored_idx = 0 /\ restarts = 0
    /\ schedule = "EXPLORE"

\* add_to_queue, then calibrate_case.
AddAndCalibrate(t, l, ok, x) ==
    /\ Len(queue_buf) < MaxItems
    /\ Store(calibrate_case([Tables EXCEPT !.q = Append(@, NewEntry(t, l))],
                            Len(queue_buf) + 1, ok, x))
    /\ pending_not_fuzzed' = pending_not_fuzzed + 1
    /\ active_items' = active_items + 1

\* The dry run of one seed that runs well.
LoadSeed(t, l, x) ==
    /\ phase = "dry" /\ Len(queue_buf) < MaxSeeds
    /\ AddAndCalibrate(t, l, TRUE, x)
    /\ UNCHANGED <<phase, queued_favored, pending_favored, smallest_favored,
                   queue_cur, last_scored_idx, restarts>>

\* The dry run rejects a seed: it is counted in by add_to_queue and out again.
Reject(t, l, tries, spared) ==
    /\ phase = "dry" /\ Len(queue_buf) < MaxSeeds /\ Len(queue_buf) < MaxItems
    /\ queue_buf' = Append(queue_buf, [NewEntry(t, l) EXCEPT !.cal_failed = tries,
                       !.was_fuzzed = TRUE, !.disabled = ~spared, !.spared = spared])
    /\ UNCHANGED <<phase, top_rated, score_changed, counters, queue_cur,
                   last_scored_idx, schedule, restarts>>

\* A seed that times out (with -t, it has used up its chances) or crashes is
\* disabled.
LoadBadSeed(t, l, tries) == tries \in {1, CAL_CHANCES} /\ Reject(t, l, tries, FALSE)

\* Every byte of the simplified trace (hit or not hit) was seen in the traces of
\* seeds rejected before: not new to virgin_crash.
KnownCrash(t) ==
    \A b \in Bits : \E e \in Ids :
        /\ queue_buf[e].was_fuzzed /\ queue_buf[e].cal_failed = 1
        /\ b \in queue_buf[e].trace <=> b \in t

\* AFL_CRASHING_SEEDS_AS_NEW_CRASH: a crash that is not new leaves the switch
\* before the seed is disabled.
LoadKnownCrash(t, l) == CrashingSeeds /\ KnownCrash(t) /\ Reject(t, l, 1, TRUE)

\* Of two seeds with the same exec_cksum the longer file is disabled (the
\* later one if they are of equal length).
IsDuplicate(e, exec_cksum) ==
    /\ ~queue_buf[e].disabled /\ queue_buf[e].cal_failed = 0
    /\ \E f \in Ids \ {e} :
          /\ ~queue_buf[f].disabled /\ queue_buf[f].cal_failed = 0
          /\ exec_cksum[f] = exec_cksum[e]
          /\ \/ queue_buf[f].len < queue_buf[e].len
             \/ queue_buf[f].len = queue_buf[e].len /\ f < e

\* The dry run is over.  exec_cksum is over the hit counts too, which the
\* trace, the set of bytes that are not zero, does not tell apart.
DryRunDone(hits) ==
    LET exec_cksum == [e \in Ids |-> <<queue_buf[e].trace, hits[e]>>]
        dup == {e \in Ids : IsDuplicate(e, exec_cksum)}
    IN
    /\ phase = "dry"
    /\ \E e \in Ids : ~queue_buf[e].disabled
    /\ phase' = "top"
    /\ queue_buf' = [e \in Ids |->
          IF e \in dup
          THEN [queue_buf[e] EXCEPT !.disabled = TRUE, !.was_fuzzed = TRUE]
          ELSE queue_buf[e]]
    /\ pending_not_fuzzed' = pending_not_fuzzed - Cardinality(dup)
    /\ active_items' = active_items - Cardinality(dup)
    /\ UNCHANGED <<top_rated, score_changed, queued_favored, pending_favored,
                   smallest_favored, queue_cur, last_scored_idx, schedule, restarts>>

\* "All test cases time out or crash, giving up!"
GiveUp ==
    /\ phase = "dry" /\ Ids # {} /\ \A e \in Ids : queue_buf[e].disabled
    /\ phase' = "fatal"
    /\ UNCHANGED <<queue_buf, top_rated, score_changed, counters, queue_cur,
                   last_scored_idx, schedule, restarts>>

\* The main loop begins a round.  Once per queue cycle it first imports from other
\* fuzzers and changes the power schedule ("sched").
Cull ==
    /\ phase = "top"
    /\ phase' \in {"sched", "pick"}
    /\ cull_queue
    /\ UNCHANGED <<top_rated, pending_not_fuzzed, active_items, queue_cur,
                   last_scored_idx, schedule, restarts>>

\* Every entry that hits bit b contends for b again.
RescoreBit(s, b, bits) ==
    LET after[e \in 0 .. Len(s.q)] ==
            IF e = 0 THEN s
            ELSE IF b \in s.q[e].trace /\ ~s.q[e].disabled
                 THEN Contend(after[e - 1], e, b, bits) ELSE after[e - 1]
    IN  after[Len(s.q)]

\* mutant: top_rated is cleared first, the reference counts are not
recalculate_all_scores_Clears(t, bits) ==
    LET after[n \in 0 .. NumBits] ==
            IF n = 0 THEN [t EXCEPT !.top = [b \in Bits |-> 0]]
            ELSE RescoreBit(after[n - 1], n - 1, bits)
    IN  after[NumBits]

\* AFL_CYCLE_SCHEDULES: recalculate_all_scores.  fsrv.trace_bits holds what was
\* executed last: the last entry enrolled now, or any earlier run.
recalculate_all_scores(t, bits) ==
    LET after[n \in 0 .. NumBits] ==
            IF n = 0 THEN t ELSE RescoreBit(after[n - 1], n - 1, bits)
    IN  after[NumBits]

NextSchedule == [EXPLORE |-> "EXPLOIT", EXPLOIT |-> "MMOPT",
                 MMOPT |-> "SEEK", SEEK |-> "EXPLORE"]

Reschedule ==
    /\ phase = "sched" /\ CycleSchedules
    /\ phase' = "pick"
    /\ LET fresh == {e \in Ids : e > last_scored_idx /\ ~queue_buf[e].disabled} IN
       \E bits \in IF fresh = {} THEN Traces
                   ELSE {queue_buf[CHOOSE e \in fresh : \A f \in fresh : f <= e].trace} :
          Store(recalculate_all_scores([Tables EXCEPT !.schedule = NextSchedule[@]], bits))
    /\ last_scored_idx' = Len(queue_buf)
    /\ UNCHANGED <<counters, queue_cur, restarts>>

KeepSchedule ==
    /\ phase = "sched" /\ ~CycleSchedules
    /\ phase' = "pick"
    /\ UNCHANGED <<queue_buf, top_rated, score_changed, counters, queue_cur,
                   last_scored_idx, schedule, restarts>>

\* Which entry fuzz_one is given.
MaySelect(e) ==
    IF pending_favored > 0 /\ smallest_favored # 0
    THEN e = smallest_favored ELSE ~queue_buf[e].disabled

\* mutant: smallest_favored is not reset
abandon_entry_KeepsSmallest(s, e) ==
    LET q     == s.q[e]
        first == ~q.was_fuzzed /\ q.cal_failed = 0 /\ ~q.disabled
        done  == IF first THEN 1 ELSE 0
    IN  /\ Store([s EXCEPT !.q[e] = [q EXCEPT !.was_fuzzed = q.was_fuzzed \/ first,
                                              !.fuzz_level = q.fuzz_level + 1]])
        /\ pending_not_fuzzed' = pending_not_fuzzed - done
        /\ pending_favored' = pending_favored - (IF q.favored THEN done ELSE 0)
        /\ UNCHANGED <<queued_favored, active_items, smallest_favored>>

\* mutant: an entry whose calibration failed counts as fuzzed
abandon_entry_CountsFailed(s, e) ==
    LET q     == s.q[e]
        first == ~q.was_fuzzed /\ ~q.disabled
        done  == IF first THEN 1 ELSE 0
    IN  /\ Store([s EXCEPT !.q[e].was_fuzzed = @ \/ (first /\ q.cal_failed = 0),
                           !.q[e].fuzz_level = @ + 1])
        /\ pending_not_fuzzed' = pending_not_fuzzed - done
        /\ pending_favored' = pending_favored - (IF q.favored THEN done ELSE 0)
        /\ smallest_favored' = IF first /\ q.favored THEN 0 ELSE smallest_favored
        /\ UNCHANGED <<queued_favored, active_items>>

\* abandon_entry, where fuzz_one ends: the entry counts as fuzzed unless its
\* calibration failed.
abandon_entry(s, e) ==
    LET q     == s.q[e]
        first == ~q.was_fuzzed /\ q.cal_failed = 0 /\ ~q.disabled
        done  == IF first THEN 1 ELSE 0
    IN  /\ Store([s EXCEPT !.q[e] = [q EXCEPT !.was_fuzzed = q.was_fuzzed \/ first,
                                              !.fuzz_level = q.fuzz_level + 1]])
        /\ pending_not_fuzzed' = pending_not_fuzzed - done
        /\ pending_favored' = pending_favored - (IF q.favored THEN done ELSE 0)
        /\ smallest_favored' = IF first /\ q.favored THEN 0 ELSE smallest_favored
        /\ UNCHANGED <<queued_favored, active_items>>

\* fuzz_one begins.  An entry whose calibration had failed is calibrated
\* again (at most CAL_CHANCES times) and abandoned if it fails.
Begin(e) ==
    /\ phase = "pick" /\ MaySelect(e)
    /\ queue_buf[e].cal_failed = 0 /\ queue_buf[e].fuzz_level < MaxLevel
    /\ phase' = "trim" /\ queue_cur' = e
    /\ UNCHANGED <<queue_buf, top_rated, score_changed, counters, last_scored_idx,
                   schedule, restarts>>

\* After a calibration that went well calibrate_case still returns NOBITS when
\* the run showed nothing new, and the entry is abandoned as if fuzzed.
Recalibrate(e, ok, nobits, x) ==
    LET tries == queue_buf[e].cal_failed
        s     == IF tries < CAL_CHANCES THEN calibrate_case(Tables, e, ok, x) ELSE Tables
    IN  /\ phase = "pick" /\ MaySelect(e)
        /\ tries > 0 /\ queue_buf[e].fuzz_level < MaxLevel
        /\ ok => tries < CAL_CHANCES
        /\ nobits => ok
        /\ \/ /\ ok /\ ~nobits
              /\ phase' = "trim" /\ queue_cur' = e
              /\ Store(s) /\ UNCHANGED counters
           \/ /\ ~ok \/ nobits
              /\ abandon_entry(s, e)
              /\ UNCHANGED <<phase, queue_cur>>
        /\ UNCHANGED <<last_scored_idx, restarts>>

\* fuzz_one trims the entry, once.  Trimming keeps the trace; only a shorter
\* file is scored again.
Trim(l) ==
    LET q == queue_buf[queue_cur]
        s == [Tables EXCEPT !.q[queue_cur] = [@ EXCEPT !.len = l, !.trim_done = TRUE]]
    IN  /\ phase = "trim"
        /\ l <= q.len /\ (q.trim_done => l = q.len)
        /\ phase' = "fuzz"
        /\ Store(IF l < q.len THEN update_bitmap_score(s, queue_cur) ELSE s)
        /\ UNCHANGED <<counters, queue_cur, last_scored_idx, restarts>>

\* A find, while fuzzing or while importing from other fuzzers (between rounds
\* and at the start of a queue cycle): save_if_interesting.
Find(t, l, ok, x) ==
    /\ phase \in {"fuzz", "top", "sched"}
    /\ AddAndCalibrate(t, l, ok, x)
    /\ UNCHANGED <<phase, queued_favored, pending_favored, smallest_favored,
                   queue_cur, last_scored_idx, restarts>>

\* fuzz_one is through with the entry.  If it gave up early (ret_val is 1) the
\* inner loop of main picks the next entry at once.
FinishEntry ==
    /\ phase = "fuzz"
    /\ phase' \in {"top", "pick"} /\ queue_cur' = 0
    /\ abandon_entry(Tables, queue_cur)
    /\ UNCHANGED <<last_scored_idx, restarts>>

\* The user stops the session; the entry being fuzzed is abandoned without
\* counting as fuzzed, and fastresume.bin is written.  What trimming has cut off so
\* far is gone from q->len only: the file, which the next session reads, is whole.
Stop ==
    /\ phase \in {"top", "sched", "pick", "trim", "fuzz"}
    /\ phase' = "stopped"
    /\ queue_cur' = 0
    /\ queue_buf' = IF phase \in {"trim", "fuzz"}
                    THEN [queue_buf EXCEPT ![queue_cur].fuzz_level = @ + 1] ELSE queue_buf
    /\ UNCHANGED <<top_rated, score_changed, counters, last_scored_idx, schedule,
                   restarts>>

\* mutant: the entries read back are counted as all new
FastResume_AllNew ==
    LET fav == {e \in Ids : queue_buf[e].favored} IN
    /\ phase = "stopped" /\ restarts < MaxRestarts
    /\ restarts' = restarts + 1
    /\ phase' = "top"
    /\ top_rated' = [b \in Bits |-> 0]
    /\ score_changed' = FALSE
    /\ queued_favored' = Cardinality(fav)
    /\ pending_favored' = Cardinality(fav)
    /\ smallest_favored' = 0
    /\ pending_not_fuzzed' = Len(queue_buf)
    /\ active_items' = Len(queue_buf)
    /\ last_scored_idx' = 0 /\ schedule' = "EXPLORE"
    /\ UNCHANGED <<queue_buf, queue_cur>>

\* A new afl-fuzz reads the entries back, tc_ref and trace_mini included.  It
\* calls update_bitmap_score without a trace, which leaves top_rated empty.
FastResume ==
    LET fav == {e \in Ids : queue_buf[e].favored} IN
    /\ phase = "stopped" /\ restarts < MaxRestarts
    /\ restarts' = restarts + 1
    /\ phase' = "top"
    /\ top_rated' = [b \in Bits |-> 0]
    /\ score_changed' = FALSE
    /\ queued_favored' = Cardinality(fav)
    /\ pending_favored' = Cardinality({e \in fav : ~queue_buf[e].was_fuzzed})
    /\ smallest_favored' = 0
    /\ pending_not_fuzzed' =
          Cardinality({e \in Ids : ~queue_buf[e].was_fuzzed /\ ~queue_buf[e].disabled})
    /\ active_items' = Cardinality({e \in Ids : ~queue_buf[e].disabled})
    /\ last_scored_idx' = 0 /\ schedule' = "EXPLORE"
    /\ UNCHANGED <<queue_buf, queue_cur>>

Over == phase \in {"stopped", "fatal"} /\ UNCHANGED vars

Next ==
    \/ \E t \in Traces, l \in Lens :
          \/ LoadKnownCrash(t, l) \/ \E tries \in {1, CAL_CHANCES} : LoadBadSeed(t, l, tries)
          \/ \E x \in Times : LoadSeed(t, l, x)
          \/ \E x \in Times, ok \in BOOLEAN : Find(t, l, ok, x)
    \/ \E hits \in [Ids -> {1, 2}] : DryRunDone(hits)
    \/ GiveUp \/ Cull \/ Reschedule \/ KeepSchedule
    \/ \E e \in Ids :
          \/ Begin(e)
          \/ \E ok, nobits \in BOOLEAN, x \in Times : Recalibrate(e, ok, nobits, x)
    \/ \E l \in Lens : Trim(l)
    \/ FinishEntry \/ Stop \/ FastResume \/ Over

Spec == Init /\ [][Next]_vars

-----------------------------------------------------------------------------
(***************************************************************************)
(* Properties.                                                             *)
(***************************************************************************)
Entry == [trace : Traces, len : Lens, exec_us : Times \cup {0},
          tc_ref : 0 .. NumBits * (MaxRestarts + 1), trace_mini : SUBSET Bits,
          favored : BOOLEAN, was_fuzzed : BOOLEAN, fs_redundant : BOOLEAN,
          disabled : BOOLEAN, cal_failed : 0 .. CAL_CHANCES,
          fuzz_level : 0 .. MaxLevel, trim_done : BOOLEAN, spared : BOOLEAN]

\* Every variable has its type; no counter has wrapped below zero.
TypeOK ==
    /\ phase \in {"dry", "top", "sched", "pick", "trim", "fuzz", "stopped", "fatal"}
    /\ queue_buf \in Seq(Entry)
    /\ top_rated \in [Bits -> 0 .. Len(queue_buf)]
    /\ score_changed \in BOOLEAN
    /\ {queued_favored, pending_favored, smallest_favored, pending_not_fuzzed,
        active_items, queue_cur, last_scored_idx} \subseteq 0 .. Len(queue_buf)
    /\ schedule \in DOMAIN NextSchedule
    /\ restarts \in 0 .. MaxRestarts

Count(P(_)) == Cardinality({e \in Ids : P(queue_buf[e])})

\* tc_ref, the "trace bytes ref count", is the number of bits an entry is the
\* winner of: trace_mini is freed exactly when the last of them is lost.  A
\* resumed session has the old counts and no winners.
RefCount ==
    restarts = 0 => \A e \in Ids : queue_buf[e].tc_ref = Cardinality({b \in Bits : top_rated[b] = e})

\* Every bit that a calibrated entry hits has a winner, and the winner hits it.
\* After a fast resume only the bits of entries scored since have one.
SeenHasWinner ==
    /\ \A b \in Bits : top_rated[b] # 0 => b \in queue_buf[top_rated[b]].trace
    /\ \A e \in Ids : \A b \in queue_buf[e].trace :
          queue_buf[e].exec_us > 0 /\ restarts = 0 => top_rated[b] # 0

\* trace_mini is kept only for winners and is the trace of its own entry.
MiniIsOwnTrace ==
    \A e \in Ids : queue_buf[e].trace_mini # {} =>
        queue_buf[e].tc_ref > 0 /\ queue_buf[e].trace_mini = queue_buf[e].trace

\* What active_items counts: the entries that are enabled, without the seeds that
\* were spared (a fast resume counts them in), and also those that
\* AFL_DISABLE_REDUNDANT has disabled, as mark_as_redundant does not count.
Counted(q) == (q.spared => restarts > 0) /\ (~q.disabled \/ q.fs_redundant)

\* The counters of the queue, which are kept by hand at many places, are the
\* numbers of entries with these flags, across finds, culling, seeds rejected or
\* disabled as duplicates, abandoned entries and a resume.  (A resume also counts
\* out what AFL_DISABLE_REDUNDANT had disabled before it.)
CountersAgree ==
    phase # "stopped" =>
        /\ queued_favored = Count(LAMBDA q : q.favored)
        /\ pending_favored = Count(LAMBDA q : q.favored /\ ~q.was_fuzzed)
        /\ restarts = 0 \/ ~DisableRedundant =>
              /\ pending_not_fuzzed = Count(LAMBDA q : ~q.was_fuzzed)
              /\ active_items = Count(Counted)

\* The entry the main loop jumps to is one that still has to be fuzzed, is
\* enabled and calibrated, and is the first such: fuzz_one will clear it, so
\* the jump cannot repeat forever.
SmallestFavored ==
    smallest_favored # 0 =>
        LET pending == {e \in Ids : queue_buf[e].favored /\ ~queue_buf[e].was_fuzzed} IN
        /\ smallest_favored \in pending
        /\ \A e \in pending : smallest_favored <= e
        /\ ~queue_buf[smallest_favored].disabled
        /\ queue_buf[smallest_favored].cal_failed = 0

\* cull_queue picks favored entries that cover every bit whose winner still
\* has its trace, unless a disabled winner covers it.
CullCovers ==
    [][\A b \in Bits :
          (/\ phase = "top" /\ phase' # "top" /\ phase' # "stopped" /\ score_changed
           /\ top_rated[b] # 0 /\ queue_buf[top_rated[b]].trace_mini # {})
          => \E e \in Ids :
                /\ b \in queue_buf[e].trace_mini
                /\ \/ queue_buf'[e].favored
                   \/ queue_buf[e].disabled /\ queue_buf[e].tc_ref > 0]_vars

\* CAL_CHANCES is the "number of chances to calibrate a case before giving
\* up": the main loop never jumps to an entry that calibration gave up on.
GivenUpNotPicked ==
    smallest_favored # 0 => queue_buf[smallest_favored].cal_failed < CAL_CHANCES

-----------------------------------------------------------------------------
(***************************************************************************)
(* What makes these properties inductive, for all options.                 *)
(***************************************************************************)
\* The references of an entry are its wins and, after a fast resume, what it had
\* won in the sessions before: at most one for each bit.
RefsBounded ==
    \A e \in Ids :
        LET wins == Cardinality({b \in Bits : top_rated[b] = e})
        IN  wins <= queue_buf[e].tc_ref /\ queue_buf[e].tc_ref <= wins + NumBits * restarts

MiniIsReferenced == \A e \in Ids : queue_buf[e].trace_mini # {} => queue_buf[e].tc_ref > 0

\* Only AFL_CYCLE_SCHEDULES scores entries whose calibration failed.
WinnersCalibrated ==
    /\ \A b \in Bits : top_rated[b] # 0 => queue_buf[top_rated[b]].cal_failed = 0
    /\ smallest_favored # 0 => queue_buf[smallest_favored].cal_failed = 0

\* cull_queue favors no disabled entry, and disables no favored one.
FavoredEnabled == \A e \in Ids : queue_buf[e].favored => ~queue_buf[e].disabled

\* The entry the main loop jumps to is the first of those to be fuzzed.
SmallestPending ==
    smallest_favored # 0 =>
        LET pending == {e \in Ids : queue_buf[e].favored /\ ~queue_buf[e].was_fuzzed}
        IN  smallest_favored \in pending /\ \A e \in pending : smallest_favored <= e

\* Nothing is favored or fuzzed before the dry run is over, and no seed that runs
\* well is rejected.
InDryRun ==
    phase = "dry" =>
        /\ smallest_favored = 0 /\ restarts = 0
        /\ \A e \in Ids :
              /\ ~queue_buf[e].favored /\ ~queue_buf[e].fs_redundant
              /\ ~queue_buf[e].disabled /\ queue_buf[e].cal_failed = 0 =>
                    ~queue_buf[e].was_fuzzed /\ ~queue_buf[e].spared

\* fuzz_one has an entry to work on, and it is calibrated.
AtWork ==
    phase \in {"trim", "fuzz"} => /\ queue_cur # 0 /\ queue_buf[queue_cur].cal_failed = 0
                                  /\ queue_buf[queue_cur].fuzz_level < MaxLevel

\* The counters; those of AFL_DISABLE_REDUNDANT lie between two counts.
CountsBounded ==
    /\ queued_favored = Count(LAMBDA q : q.favored)
    /\ pending_favored = Count(LAMBDA q : q.favored /\ ~q.was_fuzzed)
    /\ Count(LAMBDA q : ~q.was_fuzzed /\ ~q.disabled) <= pending_not_fuzzed
    /\ pending_not_fuzzed <= Count(LAMBDA q : ~q.was_fuzzed)
    /\ Count(LAMBDA q : Counted(q) /\ ~q.disabled) <= active_items
    /\ active_items <= Len(queue_buf)

\* Rejected seeds and duplicates count as fuzzed.  A redundant entry that is
\* disabled was disabled as such.
RejectedFuzzed ==
    \A e \in Ids :
        /\ queue_buf[e].spared \/ (queue_buf[e].disabled /\ ~queue_buf[e].fs_redundant)
              => queue_buf[e].was_fuzzed
        /\ queue_buf[e].disabled /\ queue_buf[e].fs_redundant => DisableRedundant

CountsExact ==
    restarts = 0 \/ ~DisableRedundant =>
        /\ pending_not_fuzzed = Count(LAMBDA q : ~q.was_fuzzed)
        /\ active_items = Count(Counted)

IInv == /\ TypeOK /\ RefsBounded /\ SeenHasWinner /\ MiniIsReferenced
        /\ FavoredEnabled /\ SmallestPending /\ InDryRun /\ AtWork /\ CountsBounded
        /\ RejectedFuzzed /\ CountsExact
        /\ ~CycleSchedules => MiniIsOwnTrace /\ WinnersCalibrated
=============================================================================
