------------------------------ MODULE Novelty ------------------------------
(***************************************************************************)
(* Which runs of the target are new, and what afl-fuzz keeps of them: the  *)
(* coverage maps of src/afl-fuzz-bitmap.c and include/coverage-64.h,       *)
(* save_if_interesting with its sanitizer runs, calibrate_case and         *)
(* trim_case of src/afl-fuzz-run.c, and the steps of fuzz_one and          *)
(* perform_dry_run that call them.                                         *)
(*                                                                         *)
(* A trace gives each edge its 8-bit hit count.  A checksum of a trace is  *)
(* the trace itself; 0, no checksum, is the empty trace.  A byte of a      *)
(* virgin map is the set of its bits that are still set.  The scores that  *)
(* follow a calibration or a trim are in Corpus.                           *)
(***************************************************************************)
EXTENDS Integers, FiniteSets, Sequences, Functions

CONSTANTS
    Edges,
    Inputs,
    Seeds,             \* sequence of inputs
    Behaviour,         \* [Inputs -> [Limits -> set of runs]]
    Shorter,           \* [Inputs -> what trim_case may try instead]
    SanCrashes,        \* [Inputs -> BOOLEAN]: a sanitizer build crashes on it
    Configs,           \* the configurations to look at
    CAL_CYCLES, CAL_CYCLES_LONG, CAL_CHANCES,
    KEEP_UNIQUE_HANG, KEEP_UNIQUE_CRASH,
    MaxItems           \* bound: entries of the queue; flaky timeouts may exceed it

\* Time limits of a run: exec_tmout, the calibration's, hang_tmout.
Limits == {"exec", "cal", "hang"}

\* schedule is FAST..RARE; AFL_KEEP_TIMEOUTS; AFL_IGNORE_TIMEOUTS;
\* exec_tmout < hang_tmout; CmpLog; AFL_CRASHING_SEEDS_AS_NEW_CRASH;
\* AFL_SAN_ABSTRACTION, "none" without sanitizer builds.
Config == [fast : BOOLEAN, keep_timeouts : BOOLEAN, ignore_timeouts : BOOLEAN,
           retry : BOOLEAN, cmplog : BOOLEAN, crashing_seeds : BOOLEAN,
           san : {"none", "simplify", "increase", "unique"}]

Trace == [Edges -> 0..255]
NoTrace == [e \in Edges |-> 0]
Bits == {1, 2, 4, 8, 16, 32, 64, 128}

ASSUME NoveltyAssumption ==
    /\ Seeds \in Seq(Inputs) /\ Seeds # <<>>
    /\ \A i \in Inputs, l \in Limits :
           /\ Behaviour[i][l] # {}
           /\ \A r \in Behaviour[i][l] : r.trace \in Trace /\ r.fault \in {"ok", "tmout", "crash"}
    /\ Shorter \in [Inputs -> SUBSET Inputs]
    /\ SanCrashes \in [Inputs -> BOOLEAN]
    /\ Configs \subseteq Config
    /\ CAL_CYCLES \in Nat \ {0} /\ CAL_CYCLES_LONG \in Nat /\ CAL_CYCLES_LONG >= CAL_CYCLES
    /\ CAL_CHANCES \in Nat \ {0}

VARIABLES
    conf,
    stop_soon,
    pc,            \* where the one thread of afl-fuzz is
    queue,         \* sequence of entries
    trace_bits,    \* the shared map
    virgin_bits, virgin_tmout, virgin_crash,
    var_bytes,     \* the set of edges marked
    first_trace,
    hangs, crashes,        \* saved: the edges of each one's trace
    simplified_n_fuzz,     \* simplified traces the sanitizers have seen
    n_fuzz_dup,            \* classified traces they have seen
    cur,           \* the entry in the dry run or in fuzz_one, 0 for none
    cal,           \* locals of calibrate_case
    sv             \* locals of save_if_interesting; edges of the map it judged

maps == <<virgin_bits, virgin_tmout, virgin_crash>>
saved == <<hangs, crashes, simplified_n_fuzz, n_fuzz_dup>>
vars == <<conf, stop_soon, pc, queue, trace_bits, maps, var_bytes, first_trace,
          saved, cur, cal, sv>>

(***************************************************************************)
(* The maps.                                                               *)
(***************************************************************************)
count_class_lookup8(n) ==
    CASE n = 0 -> 0 [] n = 1 -> 1 [] n = 2 -> 2 [] n = 3 -> 4
      [] n \in 4..7 -> 8 [] n \in 8..15 -> 16 [] n \in 16..31 -> 32
      [] n \in 32..127 -> 64 [] n \in 128..255 -> 128

\* mutant: hit counts are left in the simplified map
simplify_lookup_KeepsCounts(n) == IF n = 0 THEN 1 ELSE count_class_lookup8(n)

simplify_lookup(n) == IF n = 0 THEN 1 ELSE 128

Classify(t) == [e \in Edges |-> count_class_lookup8(t[e])]
Simplify(t) == [e \in Edges |-> simplify_lookup(t[e])]

BitsOf(n) == {b \in Bits : (n \div b) % 2 = 1}

\* discover_word and has_new_bits: 2 for a new edge, 1 for a new count, 0 for
\* nothing new; the bits of the trace leave the map.
HasNewBits(v, t) ==
    IF \A e \in Edges : BitsOf(t[e]) \cap v[e] = {} THEN 0
    ELSE IF \E e \in Edges : t[e] # 0 /\ v[e] = Bits THEN 2 ELSE 1

Discover(v, t) == [e \in Edges |-> v[e] \ BitsOf(t[e])]

\* skim looks at the map as the target left it.
Skim(v, t) == \E e \in Edges : BitsOf(count_class_lookup8(t[e])) \cap v[e] # {}

(***************************************************************************)
(* The lazy steps of save_if_interesting, on a record of what they read    *)
(* and write: the trace t, virgin_bits v and the locals.                   *)
(***************************************************************************)
Fresh(t) == [t |-> t, v |-> virgin_bits, classified |-> FALSE, counted |-> FALSE,
             cksumed |-> FALSE, new_bits |-> 0, cksum |-> NoTrace]

ClassifyIfNecessary(s) ==
    IF s.classified THEN s ELSE [s EXCEPT !.t = Classify(s.t), !.classified = TRUE]

\* mutant: the map is classified a second time
CksumIfNecessary_Again(s) ==
    LET c == [s EXCEPT !.t = Classify(s.t), !.classified = TRUE]
    IN  IF s.cksumed THEN s ELSE [c EXCEPT !.cksum = c.t, !.cksumed = TRUE]

CksumIfNecessary(s) ==
    LET c == ClassifyIfNecessary(s)
    IN  IF s.cksumed THEN s ELSE [c EXCEPT !.cksum = c.t, !.cksumed = TRUE]

Counted(s) == [s EXCEPT !.new_bits = HasNewBits(s.v, s.t), !.v = Discover(s.v, s.t),
                        !.counted = TRUE]

NewBitsIfNecessary(s) ==
    CASE s.counted -> s
      [] ~s.counted /\ s.classified -> Counted(s)
      [] ~s.counted /\ ~s.classified /\ Skim(s.v, s.t) -> Counted(ClassifyIfNecessary(s))
      [] OTHER -> [s EXCEPT !.counted = TRUE]

NoCal == [cycle |-> 0, max |-> 0, new_bits |-> 0, first_run |-> FALSE,
          fault |-> "ok", ret |-> "none"]
NoSv == [mem |-> Seeds[1], fault |-> "ok", edges |-> {}]

Entry(i) == [input |-> i, file |-> i, exec_cksum |-> NoTrace,
             cal_failed |-> 0, trim_done |-> FALSE, disabled |-> FALSE]

Init ==
    /\ conf \in Configs
    /\ stop_soon = FALSE /\ pc = "dry" /\ cur = 1
    /\ queue = [k \in DOMAIN Seeds |-> Entry(Seeds[k])]
    /\ trace_bits = NoTrace /\ first_trace = NoTrace
    /\ virgin_bits = [e \in Edges |-> Bits]
    /\ virgin_tmout = [e \in Edges |-> Bits]
    /\ virgin_crash = [e \in Edges |-> Bits]
    /\ var_bytes = {}
    /\ hangs = <<>> /\ crashes = <<>> /\ simplified_n_fuzz = {} /\ n_fuzz_dup = {}
    /\ cal = NoCal /\ sv = NoSv

(***************************************************************************)
(* calibrate_case.                                                         *)
(***************************************************************************)
\* Up to the first run, for entry k of Q with the map as t and virgin_bits as
\* v.  A checksum promises that t is the classified trace of the entry.
CalBegin(Q, k, t, v, ret) ==
    LET q == [Q[k] EXCEPT !.cal_failed = @ + 1,
                          !.exec_cksum = IF conf.cmplog THEN NoTrace ELSE @]
        known == q.exec_cksum # NoTrace
    IN
    /\ pc' = "cal" /\ cur' = k
    /\ queue' = [Q EXCEPT ![k] = q]
    /\ trace_bits' = t
    /\ first_trace' = IF known THEN t ELSE first_trace
    /\ virgin_bits' = IF known THEN Discover(v, t) ELSE v
    /\ cal' = [cycle |-> 0, max |-> CAL_CYCLES, fault |-> "ok", ret |-> ret,
               new_bits |-> IF known THEN HasNewBits(v, t) ELSE 0,
               first_run |-> Q[k].exec_cksum = NoTrace]

CalLimit == IF cal.ret = "dried" THEN "exec" ELSE "cal"

\* abort_calibration.
CalReturn(q, fault) ==
    /\ queue' = [queue EXCEPT ![cur] = q]
    /\ cal' = [cal EXCEPT !.fault = fault] /\ pc' = cal.ret

\* A run that fails, or one that ends after the stop, ends the calibration.
CalAbort(r) ==
    /\ pc = "cal" /\ cal.cycle < cal.max
    /\ stop_soon \/ r.fault # "ok" \/ r.trace = NoTrace
    /\ trace_bits' = r.trace
    /\ CalReturn(queue[cur], IF stop_soon \/ r.fault # "ok" THEN r.fault ELSE "noinst")
    /\ UNCHANGED <<conf, stop_soon, maps, var_bytes, first_trace, saved, cur, sv>>

\* mutant: edges that vary are made virgin again
MarkVariable_Virgin(v, varying) == [e \in Edges |-> IF e \in varying THEN Bits ELSE v[e]]

\* The edges in which the trace differs from the first one are variable from
\* now on, and fully discovered.
MarkVariable(v, varying) == [e \in Edges |-> IF e \in varying THEN {} ELSE v[e]]

CalRun(r) ==
    LET t == Classify(r.trace)
        q == queue[cur]
        differs == q.exec_cksum # t
        first == q.exec_cksum = NoTrace
        varying == {e \in Edges \ var_bytes : first_trace[e] # t[e]}
        hnb == HasNewBits(virgin_bits, t)
    IN
    /\ pc = "cal" /\ cal.cycle < cal.max
    /\ ~stop_soon /\ r.fault = "ok" /\ r.trace # NoTrace
    /\ trace_bits' = t
    /\ IF ~differs
       THEN /\ cal' = [cal EXCEPT !.cycle = @ + 1]
            /\ UNCHANGED <<queue, virgin_bits, var_bytes, first_trace>>
       ELSE /\ cal' = [cal EXCEPT !.cycle = @ + 1,
                                  !.new_bits = IF hnb > @ THEN hnb ELSE @,
                                  !.max = IF first THEN @ ELSE CAL_CYCLES_LONG]
            /\ IF first
               THEN /\ queue' = [queue EXCEPT ![cur].exec_cksum = t]
                    /\ first_trace' = t
                    /\ virgin_bits' = Discover(virgin_bits, t)
                    /\ UNCHANGED var_bytes
               ELSE /\ var_bytes' = var_bytes \cup varying
                    /\ virgin_bits' = MarkVariable(Discover(virgin_bits, t), varying)
                    /\ UNCHANGED <<queue, first_trace>>
    /\ UNCHANGED <<conf, stop_soon, pc, virgin_tmout, virgin_crash, saved, cur, sv>>

CalEnd ==
    /\ pc = "cal" /\ cal.cycle = cal.max
    /\ CalReturn([queue[cur] EXCEPT !.cal_failed = 0],
                 IF cal.first_run /\ cal.new_bits = 0 THEN "nobits" ELSE "ok")
    /\ UNCHANGED <<conf, stop_soon, trace_bits, maps, var_bytes, first_trace, saved, cur, sv>>

(***************************************************************************)
(* perform_dry_run, for one entry after the other.                         *)
(***************************************************************************)
DryRun ==
    /\ pc = "dry"
    /\ CalBegin(queue, cur, trace_bits, virgin_bits, "dried")
    /\ UNCHANGED <<conf, stop_soon, virgin_tmout, virgin_crash, var_bytes, saved, sv>>

\* The map, simplified, is compared with the crashes so far.
Hit(t) == {e \in Edges : t[e] # 0}

NewCrash == HasNewBits(virgin_crash, Simplify(trace_bits)) # 0

KeepCrash ==
    /\ virgin_crash' = Discover(virgin_crash, Simplify(trace_bits))
    /\ crashes' = IF NewCrash THEN Append(crashes, Hit(trace_bits)) ELSE crashes
    /\ trace_bits' = Simplify(trace_bits)

\* A seed that times out or crashes is disabled, but for one whose crash is
\* looked at and not new.
DryDone ==
    LET known == cal.fault = "crash" /\ conf.crashing_seeds /\ ~NewCrash
        bad == cal.fault \in {"tmout", "crash"} /\ ~known
        last == cur = Len(queue)
    IN
    /\ pc = "dried"
    /\ cal' = NoCal
    /\ IF stop_soon \/ cal.fault = "noinst"
       THEN /\ pc' = IF stop_soon THEN "idle" ELSE "fatal"
            /\ cur' = 0
            /\ UNCHANGED <<queue, trace_bits, virgin_crash, crashes>>
       ELSE /\ pc' = IF last THEN "idle" ELSE "dry"
            /\ cur' = IF last THEN 0 ELSE cur + 1
            /\ queue' = [queue EXCEPT ![cur].disabled = bad]
            /\ IF cal.fault = "crash" /\ conf.crashing_seeds
               THEN KeepCrash
               ELSE UNCHANGED <<trace_bits, virgin_crash, crashes>>
    /\ UNCHANGED <<conf, stop_soon, virgin_bits, virgin_tmout, var_bytes, first_trace,
                   hangs, simplified_n_fuzz, n_fuzz_dup, sv>>

(***************************************************************************)
(* fuzz_one: another calibration if the first one failed, trimming, and    *)
(* then the mutated inputs.                                                *)
(***************************************************************************)
\* mutant: the checksum of the failed calibration is kept
Recalibrate_KeepsCksum(k) ==
    /\ pc = "idle" /\ ~stop_soon
    /\ ~queue[k].disabled /\ queue[k].cal_failed \in 1..(CAL_CHANCES - 1)
    /\ CalBegin(queue, k, trace_bits, virgin_bits, "calibrated")
    /\ UNCHANGED <<conf, stop_soon, virgin_tmout, virgin_crash, var_bytes, saved, sv>>

Recalibrate(k) ==
    /\ pc = "idle" /\ ~stop_soon
    /\ ~queue[k].disabled /\ queue[k].cal_failed \in 1..(CAL_CHANCES - 1)
    /\ CalBegin([queue EXCEPT ![k].exec_cksum = NoTrace], k, trace_bits, virgin_bits,
                "calibrated")
    /\ UNCHANGED <<conf, stop_soon, virgin_tmout, virgin_crash, var_bytes, saved, sv>>

\* An entry that is calibrated, before or just now, is trimmed once.
Proceed(k) ==
    /\ pc' = IF queue[k].trim_done THEN "fuzz" ELSE "trim"
    /\ cur' = IF queue[k].trim_done THEN 0 ELSE k

FuzzOne(k) ==
    /\ pc = "idle" /\ ~stop_soon
    /\ ~queue[k].disabled /\ queue[k].cal_failed = 0
    /\ Proceed(k)
    /\ UNCHANGED <<conf, stop_soon, queue, trace_bits, maps, var_bytes, first_trace,
                   saved, cal, sv>>

Calibrated ==
    /\ pc = "calibrated"
    /\ IF stop_soon \/ cal.fault # "ok" THEN pc' = "idle" /\ cur' = 0 ELSE Proceed(cur)
    /\ cal' = NoCal
    /\ UNCHANGED <<conf, stop_soon, queue, trace_bits, maps, var_bytes, first_trace,
                   saved, sv>>

\* mutant: hit counts are not compared
Accepts_SameEdges(q, t) == Hit(t) = Hit(q.exec_cksum)

\* One candidate of trim_case.  Whether it crashed does not matter.
Accepts(q, t) == t = q.exec_cksum

TrimStep(c, r) ==
    LET t == Classify(r.trace)
    IN
    /\ pc = "trim" /\ c \in Shorter[queue[cur].input]
    /\ IF stop_soon
       THEN /\ trace_bits' = r.trace /\ pc' = "idle" /\ cur' = 0
            /\ UNCHANGED queue
       ELSE /\ trace_bits' = t
            /\ queue' = IF Accepts(queue[cur], t) THEN [queue EXCEPT ![cur].input = c] ELSE queue
            /\ UNCHANGED <<pc, cur>>
    /\ UNCHANGED <<conf, stop_soon, maps, var_bytes, first_trace, saved,
                   cal, sv>>

\* No candidate is left.  The file is written anew and the trace of the first
\* accepted candidate, clean_trace, is put back.
TrimEnd ==
    LET q == queue[cur]
    IN
    /\ pc = "trim"
    /\ queue' = [queue EXCEPT ![cur] = [q EXCEPT !.file = q.input, !.trim_done = ~stop_soon]]
    /\ trace_bits' = IF q.input = q.file THEN trace_bits ELSE q.exec_cksum
    /\ pc' = IF stop_soon THEN "idle" ELSE "fuzz"
    /\ cur' = 0
    /\ UNCHANGED <<conf, stop_soon, maps, var_bytes, first_trace, saved,
                   cal, sv>>

\* The next entry.
Abandon ==
    /\ pc = "fuzz" /\ pc' = "idle"
    /\ UNCHANGED <<conf, stop_soon, queue, trace_bits, maps, var_bytes, first_trace,
                   saved, cur, cal, sv>>

(***************************************************************************)
(* common_fuzz_stuff and save_if_interesting.  The run comes first; what   *)
(* follows up to the next run of the target is one step.                   *)
(***************************************************************************)
Begin(r) == IF conf.fast THEN CksumIfNecessary(Fresh(r.trace)) ELSE Fresh(r.trace)

Ignored(r) == r.fault = "tmout" /\ conf.ignore_timeouts

\* The run was stopped, or is not looked at.
FuzzIdle(r) ==
    /\ pc = "fuzz"
    /\ stop_soon \/ Ignored(r)
    /\ pc' = IF stop_soon THEN "idle" ELSE "fuzz"
    /\ trace_bits' = IF ~stop_soon /\ conf.fast THEN Classify(r.trace) ELSE r.trace
    /\ UNCHANGED <<conf, stop_soon, queue, maps, var_bytes, first_trace, saved, cur, cal, sv>>

FuzzFault(i, r) ==
    /\ pc = "fuzz" /\ ~stop_soon
    /\ r.fault # "ok" /\ ~Ignored(r)
    /\ conf.keep_timeouts /\ r.fault = "tmout" => Len(queue) + 1 < MaxItems
    /\ trace_bits' = Begin(r).t
    /\ sv' = [mem |-> i, fault |-> r.fault, edges |-> {}] /\ pc' = "fault"
    /\ UNCHANGED <<conf, stop_soon, queue, maps, var_bytes, first_trace, saved, cur, cal>>

\* save_to_queue, up to the calibration of the new entry.
SaveToQueue(s, i) ==
    LET c == NewBitsIfNecessary(CksumIfNecessary(s))
        q == [Entry(i) EXCEPT !.exec_cksum = c.cksum]
    IN  CalBegin(Append(queue, q), Len(queue) + 1, c.t, c.v, "fault")

\* Which runs go to the sanitizer builds.  unique_trace looks up cksum, which
\* only the FAST..RARE schedules have computed by then, and sets the bit of
\* cksum_unique; with the others it looks up 0 and stops no run.
FeedSan(s) ==
    CASE conf.san = "simplify" -> Simplify(s.t) \notin simplified_n_fuzz
      [] conf.san = "increase" -> s.new_bits # 0
      [] conf.san = "unique" -> ~conf.fast \/ s.cksum \notin n_fuzz_dup
      [] conf.san = "none" -> FALSE

FuzzOk(i, r) ==
    LET b == Begin(r)
        s == CASE conf.san = "increase" -> NewBitsIfNecessary(b)
               [] conf.san = "unique" -> ClassifyIfNecessary(b)
               [] OTHER -> b
        bug == FeedSan(s) /\ SanCrashes[i]
        n == NewBitsIfNecessary(s)
    IN
    /\ pc = "fuzz" /\ ~stop_soon /\ r.fault = "ok"
    /\ Len(queue) < MaxItems
    /\ simplified_n_fuzz' = simplified_n_fuzz \cup
                            (IF conf.san = "simplify" THEN {Simplify(s.t)} ELSE {})
    /\ n_fuzz_dup' = n_fuzz_dup \cup (IF conf.san = "unique" THEN {s.t} ELSE {})
    /\ IF n.new_bits # 0
       THEN /\ SaveToQueue(n, i)
            /\ sv' = [mem |-> i, fault |-> IF bug THEN "crash" ELSE "ok", edges |-> {}]
       ELSE /\ trace_bits' = n.t /\ virgin_bits' = n.v
            /\ pc' = IF bug THEN "fault" ELSE "fuzz"
            /\ sv' = IF bug THEN [mem |-> i, fault |-> "crash", edges |-> {}] ELSE sv
            /\ UNCHANGED <<queue, first_trace, cur, cal>>
    /\ UNCHANGED <<conf, stop_soon, virgin_tmout, virgin_crash, var_bytes, hangs, crashes>>

\* may_save_fault.
SaveReturn == pc' = "fuzz" /\ cur' = 0 /\ cal' = NoCal /\ sv' = NoSv

SaveNothing ==
    /\ pc = "fault"
    /\ \/ sv.fault = "ok"
       \/ sv.fault = "tmout" /\ Len(hangs) >= KEEP_UNIQUE_HANG
       \/ sv.fault = "crash" /\ Len(crashes) >= KEEP_UNIQUE_CRASH
    /\ SaveReturn
    /\ UNCHANGED <<conf, stop_soon, queue, trace_bits, maps, var_bytes, first_trace,
                   saved>>

SaveCrash ==
    /\ pc = "fault" /\ sv.fault = "crash" /\ Len(crashes) < KEEP_UNIQUE_CRASH
    /\ KeepCrash
    /\ SaveReturn
    /\ UNCHANGED <<conf, stop_soon, queue, virgin_bits, virgin_tmout, var_bytes, first_trace,
                   hangs, simplified_n_fuzz, n_fuzz_dup>>

\* A hang with a new map is run again with more time, if there is more.
SaveHang ==
    LET t == Simplify(trace_bits)
        new == HasNewBits(virgin_tmout, t) # 0
    IN
    /\ pc = "fault" /\ sv.fault = "tmout" /\ Len(hangs) < KEEP_UNIQUE_HANG
    /\ trace_bits' = t
    /\ virgin_tmout' = Discover(virgin_tmout, t)
    /\ hangs' = IF new /\ ~conf.retry THEN Append(hangs, Hit(trace_bits)) ELSE hangs
    /\ IF new /\ conf.retry
       THEN /\ pc' = "rerun" /\ cur' = 0 /\ cal' = NoCal
            /\ sv' = [sv EXCEPT !.edges = Hit(trace_bits)]
       ELSE SaveReturn
    /\ UNCHANGED <<conf, stop_soon, queue, virgin_bits, virgin_crash, var_bytes, first_trace,
                   crashes, simplified_n_fuzz, n_fuzz_dup>>

Rerun(r) ==
    /\ pc = "rerun"
    /\ CASE r.fault = "crash" /\ ~stop_soon ->
              /\ trace_bits' = r.trace
              /\ pc' = "fault" /\ sv' = [sv EXCEPT !.fault = "crash", !.edges = {}]
              /\ UNCHANGED <<queue, virgin_bits, first_trace, hangs, cur, cal>>
         [] (stop_soon \/ r.fault = "ok") /\ conf.keep_timeouts ->
              /\ SaveToQueue(Fresh(r.trace), sv.mem)
              /\ sv' = [sv EXCEPT !.edges = {}]
              /\ UNCHANGED hangs
         [] OTHER ->
              /\ trace_bits' = r.trace
              /\ hangs' = IF r.fault = "tmout" /\ ~stop_soon THEN Append(hangs, sv.edges) ELSE hangs
              /\ SaveReturn
              /\ UNCHANGED <<queue, virgin_bits, first_trace>>
    /\ UNCHANGED <<conf, stop_soon, virgin_tmout, virgin_crash, var_bytes, crashes,
                   simplified_n_fuzz, n_fuzz_dup>>

Stop ==
    /\ ~stop_soon /\ pc # "fatal"
    /\ stop_soon' = TRUE
    /\ UNCHANGED <<conf, pc, queue, trace_bits, maps, var_bytes, first_trace, saved, cur, cal, sv>>

Next ==
    \/ DryRun \/ DryDone
    \/ pc = "cal" /\ \E r \in Behaviour[queue[cur].input][CalLimit] : CalRun(r) \/ CalAbort(r)
    \/ CalEnd \/ Calibrated
    \/ \E k \in DOMAIN queue : Recalibrate(k) \/ FuzzOne(k)
    \/ pc = "trim" /\ \E c \in Inputs : \E r \in Behaviour[c]["exec"] : TrimStep(c, r)
    \/ TrimEnd \/ Abandon
    \/ \E i \in Inputs : \E r \in Behaviour[i]["exec"] :
           FuzzIdle(r) \/ FuzzFault(i, r) \/ FuzzOk(i, r)
    \/ SaveNothing \/ SaveCrash \/ SaveHang
    \/ \E r \in Behaviour[sv.mem]["hang"] : Rerun(r)
    \/ Stop

Spec == Init /\ [][Next]_vars

(***************************************************************************)
(* Properties.                                                             *)
(***************************************************************************)
\* Every variable has its type; checksums are of classified traces.
TypeOK ==
    /\ conf \in Configs /\ stop_soon \in BOOLEAN
    /\ pc \in {"dry", "cal", "dried", "calibrated", "idle", "trim", "fuzz", "fault", "rerun",
               "fatal"}
    /\ \A k \in DOMAIN queue :
           /\ queue[k].exec_cksum \in [Edges -> Bits \cup {0}]
           /\ queue[k].cal_failed \in 0..CAL_CHANCES
    /\ trace_bits \in Trace /\ first_trace \in [Edges -> Bits \cup {0}]
    /\ virgin_bits \in [Edges -> SUBSET Bits]
    /\ virgin_tmout \in [Edges -> SUBSET Bits] /\ virgin_crash \in [Edges -> SUBSET Bits]
    /\ var_bytes \subseteq Edges
    /\ cur \in 0..Len(queue) /\ (pc \in {"dry", "cal", "dried", "calibrated", "trim"} => cur # 0)
    /\ cal.cycle <= CAL_CYCLES_LONG

Runs(i) == UNION {Behaviour[i][l] : l \in Limits}

\* Types hold, and the checksum of an entry is that of a run of the entry itself, classified
\* once: what calibrate_case and trim_case compare with, also after trimming
\* and whichever path computed it.
CksumIsOwn ==
    /\ TypeOK
    /\ \A k \in DOMAIN queue :
        LET q == queue[k]
        IN  q.exec_cksum = NoTrace \/ \E r \in Runs(q.input) : q.exec_cksum = Classify(r.trace)

Unstable == {e \in Edges : \E i \in Inputs : \E r, s \in Runs(i) :
                 /\ r.fault = "ok" /\ s.fault = "ok"
                 /\ count_class_lookup8(r.trace[e]) # count_class_lookup8(s.trace[e])}

\* calibrate_case gives up an edge (var_bytes, and virgin_bits as if fully
\* discovered) only if two runs of one input really differ in it: first_trace
\* is never the trace of another input or of a failed run.
VarBytesReal == var_bytes \subseteq Unstable

\* Whatever has_new_bits has taken out of virgin_bits on an edge that is stable
\* can be seen again by running a file of the queue, also when trim_case has
\* rewritten the file, and after a stop: no coverage is claimed that is not on
\* disk.
FilesRetain ==
    \A e \in Edges \ Unstable : \A b \in Bits \ virgin_bits[e] :
        \E k \in DOMAIN queue : \E r \in Runs(queue[k].file) :
            count_class_lookup8(r.trace[e]) = b

\* Of the crashes that are saved no two reach the same set of edges, whether
\* the target, a sanitizer build, a re-run hang or a seed showed them; nor do
\* two hangs.
SavedDistinct == IsInjective(crashes) /\ IsInjective(hangs)

\* A find differs from all that was seen in an edge not yet known to vary;
\* AFL_KEEP_TIMEOUTS also keeps others.
NoFlakyFind ==
    [][Len(queue') > Len(queue) /\ ~conf.keep_timeouts =>
         LET q == queue'[Len(queue')]
         IN  \E e \in Edges \ var_bytes, r \in Runs(q.input) :
                 count_class_lookup8(r.trace[e]) \in virgin_bits[e]]_vars

-----------------------------------------------------------------------------
(***************************************************************************)
(* What makes these properties inductive.                                  *)
(***************************************************************************)
Classes == [Edges -> Bits \cup {0}]
Entries == [input : Inputs, file : Inputs, exec_cksum : Classes, cal_failed : 0..CAL_CHANCES,
            trim_done : BOOLEAN, disabled : BOOLEAN]

\* The types TypeOK leaves open; a calibration stays within its cycles.
FullTypes ==
    /\ queue \in Seq(Entries)
    /\ cal \in [cycle : Nat, max : {0, CAL_CYCLES, CAL_CYCLES_LONG}, new_bits : 0..2,
                first_run : BOOLEAN, fault : {"ok", "tmout", "crash", "noinst", "nobits"},
                ret : {"none", "dried", "calibrated", "fault"}]
    /\ cal.cycle <= cal.max
    /\ sv \in [mem : Inputs, fault : {"ok", "tmout", "crash"}, edges : SUBSET Edges]
    /\ crashes \in Seq(SUBSET Edges) /\ hangs \in Seq(SUBSET Edges)

OkRuns(i) == {r \in Runs(i) : r.fault = "ok"}
Shown(t, R) == \E r \in R : t = Classify(r.trace)

\* An edge that is given up looks fully discovered.
VariableIsKnown == \A e \in var_bytes : virgin_bits[e] = {}

\* What a calibration compares with came from a good run of the same input; a
\* stopped one may hold anything, but compares no more.
FirstIsGood ==
    pc = "cal" /\ ~stop_soon /\ queue[cur].exec_cksum # NoTrace =>
        Shown(first_trace, OkRuns(queue[cur].input))

\* The seeds the dry run has not come to yet.
Ahead(k) ==
    \/ pc = "dry" /\ k >= cur
    \/ pc \in {"cal", "dried"} /\ cal.ret = "dried" /\ k > cur

SeedsAhead ==
    \A k \in DOMAIN queue : Ahead(k) =>
        /\ queue[k].exec_cksum = NoTrace /\ queue[k].cal_failed = 0
        /\ queue[k].input = queue[k].file

\* While an entry is calibrated it counts as failed; once a run was good it has
\* a checksum.
InCalibration ==
    /\ pc = "cal" => /\ cal.ret # "none" /\ cal.max # 0 /\ queue[cur].cal_failed # 0
                     /\ cal.cycle # 0 => queue[cur].exec_cksum # NoTrace
    /\ pc = "dried" => cal.ret = "dried"
    /\ pc = "calibrated" /\ cal.fault = "ok" /\ ~stop_soon => queue[cur].cal_failed = 0

CalibratedHasCksum ==
    \A k \in DOMAIN queue : queue[k].cal_failed = 0 /\ queue[k].exec_cksum = NoTrace =>
        Ahead(k) \/ stop_soon \/ pc = "fatal"

\* The file of an entry shows its checksum, too, in a good run as long as it is
\* the one that was calibrated; only a stop leaves file and input different.
FileShowsCksum ==
    \A k \in DOMAIN queue :
        LET q == queue[k]
        IN  /\ q.exec_cksum # NoTrace => Shown(q.exec_cksum, Runs(q.file))
            /\ q.exec_cksum # NoTrace /\ ~q.trim_done /\ (stop_soon => pc = "trim") =>
                   Shown(q.exec_cksum, OkRuns(q.file))
            /\ q.input # q.file => stop_soon \/ (pc = "trim" /\ k = cur)

InTrim == pc = "trim" => ~queue[cur].trim_done /\ queue[cur].exec_cksum # NoTrace

\* A bit of a stable edge was taken out by a good run of a file, unless the file
\* is a trimmed one, or the stop has come.
Retained ==
    \A e \in Edges \ Unstable : \A b \in Bits \ virgin_bits[e] :
        \E k \in DOMAIN queue : \E r \in Runs(queue[k].file) :
            /\ count_class_lookup8(r.trace[e]) = b
            /\ r.fault = "ok" \/ queue[k].trim_done \/ (stop_soon /\ pc # "trim")

\* What was saved has been discovered in its virgin map; so has the hang that is
\* being run again.
Marked(H, v) == \A e \in Edges : (IF e \in H THEN 128 ELSE 1) \notin v[e]

SavedMarked ==
    /\ \A k \in DOMAIN crashes : Marked(crashes[k], virgin_crash)
    /\ \A k \in DOMAIN hangs : Marked(hangs[k], virgin_tmout)
    /\ pc = "rerun" => /\ Marked(sv.edges, virgin_tmout)
                       /\ \A k \in DOMAIN hangs : hangs[k] # sv.edges

IInv == /\ CksumIsOwn /\ FullTypes
        /\ VarBytesReal /\ VariableIsKnown /\ FirstIsGood
        /\ SeedsAhead /\ InCalibration /\ CalibratedHasCksum /\ FileShowsCksum /\ InTrim
        /\ Retained /\ SavedDistinct /\ SavedMarked
=============================================================================
