---------------------------- MODULE CorpusProofs ----------------------------
(***************************************************************************)
(* Proofs about Corpus, for any map size, traces, lengths, times, options  *)
(* and bounds.                                                             *)
(*                                                                         *)
(* Scoring, culling and rescoring are loops over bits and entries.  For    *)
(* each there is a lemma on one round (Contend, CullBit), and the lemmas   *)
(* of Loops carry it to the end.  A contest leaves the surplus of each     *)
(* entry's reference count over its wins as it was; the range of the count *)
(* follows from the surplus, so LooseEntry does not have it.               *)
(***************************************************************************)
EXTENDS Corpus, Loops, FiniteSetTheorems, SequenceTheorems

(***************************************************************************)
(* The tables of m entries.                                                *)
(***************************************************************************)
LooseEntry == [trace : Traces, len : Lens, exec_us : Times \cup {0},
               tc_ref : Int, trace_mini : SUBSET Bits,
               favored : BOOLEAN, was_fuzzed : BOOLEAN, fs_redundant : BOOLEAN,
               disabled : BOOLEAN, cal_failed : 0 .. CAL_CHANCES,
               fuzz_level : 0 .. MaxLevel, trim_done : BOOLEAN, spared : BOOLEAN]

TableSet(m) == [q : [1 .. m -> LooseEntry], top : [Bits -> 0 .. m], chg : BOOLEAN,
                schedule : DOMAIN NextSchedule]

\* The bits entry k is the winner of.
Won(top, k) == {b \in Bits : top[b] = k}

\* Two versions of an entry differ in tc_ref and trace_mini only.
Alike(x, y) ==
    /\ x.trace = y.trace /\ x.len = y.len /\ x.exec_us = y.exec_us
    /\ x.favored = y.favored /\ x.was_fuzzed = y.was_fuzzed /\ x.fs_redundant = y.fs_redundant
    /\ x.disabled = y.disabled /\ x.cal_failed = y.cal_failed
    /\ x.fuzz_level = y.fuzz_level /\ x.trim_done = y.trim_done /\ x.spared = y.spared

\* The bits can be counted.
LEMMA BitsFinite ==
    /\ IsFiniteSet(Bits) /\ Cardinality(Bits) = NumBits /\ NumBits \in Nat
    /\ \A T \in SUBSET Bits : /\ IsFiniteSet(T) /\ Cardinality(T) \in Nat
                              /\ Cardinality(T) <= NumBits
<1>1. NumBits \in Nat \ {0} BY CorpusAssumption
<1>2. IsFiniteSet(Bits) /\ Cardinality(Bits) = NumBits BY <1>1, FS_Interval DEF Bits
<1>3. ASSUME NEW T \in SUBSET Bits
      PROVE  IsFiniteSet(T) /\ Cardinality(T) \in Nat /\ Cardinality(T) <= NumBits
    BY <1>2, FS_Subset, FS_CardinalityType
<1> QED BY <1>1, <1>2, <1>3

\* Winning a bit takes it from the winner before.
LEMMA WonMoves ==
    ASSUME NEW m \in Nat, NEW top \in [Bits -> 0 .. m], NEW b \in Bits, NEW e \in 1 .. m,
           NEW k \in 1 .. m, NEW new, \A c \in Bits : new[c] = IF c = b THEN e ELSE top[c]
    PROVE  /\ (k = top[b] <=> k = e) => Cardinality(Won(new, k)) = Cardinality(Won(top, k))
           /\ k = top[b] /\ k # e => Cardinality(Won(new, k)) = Cardinality(Won(top, k)) - 1
           /\ k # top[b] /\ k = e => Cardinality(Won(new, k)) = Cardinality(Won(top, k)) + 1
<1> DEFINE W == Won(top, k)
           V == W \ {b}
<1>1. W \in SUBSET Bits /\ IsFiniteSet(W) /\ Cardinality(W) \in Nat BY BitsFinite DEF Won
<1>2. b \in W <=> k = top[b] BY DEF Won
<1>3. IsFiniteSet(V) /\ Cardinality(V) = Cardinality(W) - (IF k = top[b] THEN 1 ELSE 0)
    BY <1>1, <1>2, FS_RemoveElement
<1>4. CASE k = e
    <2>1. Won(new, k) = V \cup {b} BY <1>4 DEF Won
    <2>2. Cardinality(V \cup {b}) = Cardinality(V) + 1 BY <1>3, FS_AddElement
    <2> QED BY <1>1, <1>3, <1>4, <2>1, <2>2
<1>5. CASE k # e
    <2>1. Won(new, k) = V BY <1>5 DEF Won
    <2>2. Cardinality(Won(new, k)) = Cardinality(W) - (IF k = top[b] THEN 1 ELSE 0) BY <1>3, <2>1
    <2>3. \A c \in Nat, i \in {0, 1} : c - i = c - i + 0 OBVIOUS
    <2> QED BY <1>1, <1>5, <2>2, <2>3
<1> QED BY <1>4, <1>5

WithRefs(x, r, T) == [x EXCEPT !.tc_ref = r, !.trace_mini = T]

\* An entry with another reference count and trace is alike.
LEMMA EntryUpdate ==
    ASSUME NEW x \in LooseEntry, NEW r \in Int, NEW T \in SUBSET Bits
    PROVE  /\ WithRefs(x, r, T) \in LooseEntry /\ Alike(x, WithRefs(x, r, T))
           /\ WithRefs(x, r, T).tc_ref = r /\ WithRefs(x, r, T).trace_mini = T
BY DEF LooseEntry, Alike, WithRefs

\* Being alike is an equivalence, as far as it is needed.
LEMMA AlikeChain ==
    /\ \A x : Alike(x, x)
    /\ \A x, y, z : Alike(x, y) /\ Alike(y, z) => Alike(x, z)
BY DEF Alike

\* One contest: e wins bit b, or the winner there was stays.
LEMMA ContendFacts ==
    ASSUME NEW m \in Nat, NEW s \in TableSet(m), NEW e \in 1 .. m, NEW b \in Bits,
           NEW bits \in SUBSET Bits
    PROVE  LET t == Contend(s, e, b, bits)
               w == s.top[b]
           IN  /\ t \in TableSet(m)
               /\ \/ t = s /\ w # 0
                  \/ /\ t.top = [s.top EXCEPT ![b] = e] /\ t.schedule = s.schedule
                     /\ \A k \in 1 .. m :
                           /\ Alike(s.q[k], t.q[k])
                           /\ t.q[k].tc_ref = s.q[k].tc_ref - (IF k = w THEN 1 ELSE 0)
                                              + (IF k = e THEN 1 ELSE 0)
                           /\ LET left == IF k = w /\ s.q[k].tc_ref = 1 THEN {}
                                          ELSE s.q[k].trace_mini
                              IN  t.q[k].trace_mini = IF k = e /\ left = {} THEN bits ELSE left
<1> DEFINE w  == s.top[b]
           lost == w # 0 /\ \/ s.q[e].fuzz_level > s.q[w].fuzz_level
                            \/ FavFactor(s, e) > FavFactor(s, w)
           q1 == IF w = 0 THEN s.q
                 ELSE [s.q EXCEPT ![w].tc_ref = @ - 1,
                                  ![w].trace_mini = IF s.q[w].tc_ref = 1 THEN {} ELSE @]
           q2 == [q1 EXCEPT ![e].tc_ref = @ + 1,
                            ![e].trace_mini = IF @ = {} THEN bits ELSE @]
           t  == Contend(s, e, b, bits)
<1>0. /\ s.q \in [1 .. m -> LooseEntry] /\ s.top \in [Bits -> 0 .. m] /\ w \in 0 .. m
      /\ s.chg \in BOOLEAN /\ s.schedule \in DOMAIN NextSchedule
    BY DEF TableSet
<1>1. t = IF lost THEN s ELSE [s EXCEPT !.q = q2, !.top[b] = e, !.chg = TRUE]
    BY DEF Contend
<1>2. ASSUME NEW k \in 1 .. m
      PROVE  /\ q1[k] \in LooseEntry /\ Alike(s.q[k], q1[k])
             /\ q1[k].tc_ref = s.q[k].tc_ref - (IF k = w THEN 1 ELSE 0)
             /\ q1[k].trace_mini = IF k = w /\ s.q[k].tc_ref = 1 THEN {} ELSE s.q[k].trace_mini
    <2>1. s.q[k] \in LooseEntry /\ s.q[k].tc_ref \in Int /\ s.q[k].trace_mini \in SUBSET Bits
        BY <1>0 DEF LooseEntry
    <2>2. CASE w = 0 BY <2>1, <2>2, AlikeChain
    <2>3. CASE w # 0 /\ k # w
        <3>1. q1[k] = s.q[k] BY <1>0, <2>3
        <3> QED BY <2>1, <2>3, <3>1, AlikeChain
    <2>4. CASE w # 0 /\ k = w
        <3> DEFINE T == IF s.q[k].tc_ref = 1 THEN {} ELSE s.q[k].trace_mini
        <3>1. q1[k] = WithRefs(s.q[k], s.q[k].tc_ref - 1, T)
            BY <1>0, <2>1, <2>4 DEF LooseEntry, WithRefs
        <3>2. T \in SUBSET Bits /\ s.q[k].tc_ref - 1 \in Int BY <2>1
        <3> HIDE DEF T, q1
        <3>3. /\ q1[k] \in LooseEntry /\ Alike(s.q[k], q1[k])
              /\ q1[k].tc_ref = s.q[k].tc_ref - 1 /\ q1[k].trace_mini = T
            BY <2>1, <3>1, <3>2, EntryUpdate
        <3> QED BY <2>4, <3>3 DEF T
    <2> QED BY <2>2, <2>3, <2>4
<1>3. q1 \in [1 .. m -> LooseEntry]
    <2>1. DOMAIN q1 = 1 .. m /\ q1 = [k \in DOMAIN q1 |-> q1[k]] BY <1>0
    <2> HIDE DEF q1
    <2> QED BY <1>2, <2>1
<1> HIDE DEF q1
<1>4. ASSUME NEW k \in 1 .. m
      PROVE  /\ q2[k] \in LooseEntry /\ Alike(q1[k], q2[k])
             /\ q2[k].tc_ref = q1[k].tc_ref + (IF k = e THEN 1 ELSE 0)
             /\ q2[k].trace_mini = IF k = e /\ q1[k].trace_mini = {} THEN bits ELSE q1[k].trace_mini
    <2>1. q1[k] \in LooseEntry /\ q1[k].tc_ref \in Int /\ q1[k].trace_mini \in SUBSET Bits
        BY <1>3 DEF LooseEntry
    <2>2. CASE k # e
        <3>1. q2[k] = q1[k] BY <1>3, <2>2
        <3> QED BY <2>1, <2>2, <3>1, AlikeChain
    <2>3. CASE k = e
        <3> DEFINE T == IF q1[k].trace_mini = {} THEN bits ELSE q1[k].trace_mini
        <3>1. q2[k] = WithRefs(q1[k], q1[k].tc_ref + 1, T)
            BY <1>3, <2>1, <2>3 DEF LooseEntry, WithRefs
        <3>2. T \in SUBSET Bits /\ q1[k].tc_ref + 1 \in Int BY <2>1
        <3> HIDE DEF T, q2
        <3>3. /\ q2[k] \in LooseEntry /\ Alike(q1[k], q2[k])
              /\ q2[k].tc_ref = q1[k].tc_ref + 1 /\ q2[k].trace_mini = T
            BY <2>1, <3>1, <3>2, EntryUpdate
        <3> QED BY <2>3, <3>3 DEF T
    <2> QED BY <2>2, <2>3
<1>5. q2 \in [1 .. m -> LooseEntry]
    <2>1. DOMAIN q2 = 1 .. m /\ q2 = [k \in DOMAIN q2 |-> q2[k]] BY <1>3
    <2> HIDE DEF q2
    <2> QED BY <1>4, <2>1
<1> HIDE DEF q2
<1>6. CASE lost BY <1>1, <1>6
<1>7. CASE ~lost
    <2>1. t = [s EXCEPT !.q = q2, !.top[b] = e, !.chg = TRUE] BY <1>1, <1>7
    <2>2. t.q = q2 /\ t.top = [s.top EXCEPT ![b] = e] /\ t.schedule = s.schedule /\ t.chg = TRUE
        BY <1>0, <2>1 DEF TableSet
    <2>3. t \in TableSet(m)
        <3>1. [s.top EXCEPT ![b] = e] \in [Bits -> 0 .. m] BY <1>0
        <3>2. t = [q |-> q2, top |-> [s.top EXCEPT ![b] = e], chg |-> TRUE, schedule |-> s.schedule]
            BY <1>0, <2>1 DEF TableSet
        <3> QED BY <1>0, <1>5, <3>1, <3>2 DEF TableSet
    <2>4. ASSUME NEW k \in 1 .. m
          PROVE  /\ Alike(s.q[k], t.q[k])
                 /\ t.q[k].tc_ref = s.q[k].tc_ref - (IF k = w THEN 1 ELSE 0)
                                    + (IF k = e THEN 1 ELSE 0)
                 /\ LET left == IF k = w /\ s.q[k].tc_ref = 1 THEN {} ELSE s.q[k].trace_mini
                    IN  t.q[k].trace_mini = IF k = e /\ left = {} THEN bits ELSE left
        <3>1. Alike(s.q[k], q2[k]) BY <1>2, <1>4 DEF Alike
        <3> QED BY <1>2, <1>4, <2>2, <3>1
    <2> QED BY <2>2, <2>3, <2>4
<1> QED BY <1>6, <1>7

(***************************************************************************)
(* What any number of contests keep: each entry has at least one reference *)
(* for each bit it has won, and a trace_mini only if it has a reference;   *)
(* winners hit their bits.                                                 *)
(***************************************************************************)
Sound(m, t) ==
    /\ \A k \in 1 .. m : /\ Cardinality(Won(t.top, k)) <= t.q[k].tc_ref
                         /\ t.q[k].trace_mini # {} => t.q[k].tc_ref > 0
    /\ \A b \in Bits : t.top[b] # 0 => b \in t.q[t.top[b]].trace

Surplus(t, k) == t.q[k].tc_ref - Cardinality(Won(t.top, k))

\* From s to t only the entries of E have won bits.
Moved(m, s, t, E) ==
    /\ t.schedule = s.schedule
    /\ \A k \in 1 .. m : Alike(s.q[k], t.q[k]) /\ Surplus(t, k) = Surplus(s, k)
    /\ \A b \in Bits : /\ s.top[b] # 0 => t.top[b] # 0
                       /\ t.top[b] = s.top[b] \/ t.top[b] \in E

OwnMini(m, t) ==
    \A k \in 1 .. m : t.q[k].trace_mini # {} => t.q[k].trace_mini = t.q[k].trace

Kept(m, s, E, own) ==
    {t \in TableSet(m) : Sound(m, t) /\ Moved(m, s, t, E) /\ (own => OwnMini(m, t))}

\* Two rounds of contests make one.
LEMMA MovedChain ==
    ASSUME NEW m \in Nat, NEW E, NEW s, NEW t, NEW u, Moved(m, s, t, E), Moved(m, t, u, E)
    PROVE  Moved(m, s, u, E)
<1>1. u.schedule = s.schedule BY DEF Moved
<1>2. ASSUME NEW k \in 1 .. m PROVE Alike(s.q[k], u.q[k]) /\ Surplus(u, k) = Surplus(s, k)
    <2>1. Alike(s.q[k], t.q[k]) /\ Alike(t.q[k], u.q[k]) BY DEF Moved
    <2>2. Surplus(u, k) = Surplus(t, k) /\ Surplus(t, k) = Surplus(s, k) BY DEF Moved
    <2> QED BY <2>1, <2>2, AlikeChain
<1>3. ASSUME NEW b \in Bits
      PROVE  /\ s.top[b] # 0 => u.top[b] # 0
             /\ u.top[b] = s.top[b] \/ u.top[b] \in E
    BY DEF Moved
<1> QED BY <1>1, <1>2, <1>3 DEF Moved

\* So does none.
LEMMA MovedNot == ASSUME NEW m, NEW E, NEW s PROVE Moved(m, s, s, E)
BY AlikeChain DEF Moved

\* One contest keeps the tables sound and moves nothing but the winner of its bit.
LEMMA ContendMoves ==
    ASSUME NEW m \in Nat, NEW s \in TableSet(m), NEW e \in 1 .. m, NEW b \in Bits,
           NEW bits \in Traces, Sound(m, s), b \in s.q[e].trace, NEW E, e \in E
    PROVE  LET t == Contend(s, e, b, bits)
           IN  /\ t \in TableSet(m) /\ Sound(m, t) /\ Moved(m, s, t, E) /\ t.top[b] # 0
               /\ OwnMini(m, s) /\ bits = s.q[e].trace => OwnMini(m, t)
<1> DEFINE w == s.top[b]
<1>0. bits \in SUBSET Bits /\ bits # {} BY CorpusAssumption
<1>1. PICK t : t = Contend(s, e, b, bits) OBVIOUS
<1>2. t \in TableSet(m) BY <1>0, <1>1, ContendFacts
<1>a. /\ s.q \in [1 .. m -> LooseEntry] /\ s.top \in [Bits -> 0 .. m] /\ w \in 0 .. m
      /\ t.q \in [1 .. m -> LooseEntry] /\ t.top \in [Bits -> 0 .. m]
    BY <1>2 DEF TableSet
<1>b. \A k \in 1 .. m : /\ s.q[k].tc_ref \in Int /\ t.q[k].tc_ref \in Int
                        /\ Cardinality(Won(s.top, k)) \in Nat /\ Cardinality(Won(t.top, k)) \in Nat
    BY <1>a, BitsFinite DEF LooseEntry, Won
<1>3. CASE t = s /\ w # 0
    BY <1>1, <1>2, <1>3, MovedNot
<1>4. CASE /\ t.top = [s.top EXCEPT ![b] = e] /\ t.schedule = s.schedule
           /\ \A k \in 1 .. m :
                 /\ Alike(s.q[k], t.q[k])
                 /\ t.q[k].tc_ref = s.q[k].tc_ref - (IF k = w THEN 1 ELSE 0)
                                    + (IF k = e THEN 1 ELSE 0)
                 /\ LET left == IF k = w /\ s.q[k].tc_ref = 1 THEN {} ELSE s.q[k].trace_mini
                    IN  t.q[k].trace_mini = IF k = e /\ left = {} THEN bits ELSE left
    <2>1. \A c \in Bits : t.top[c] = IF c = b THEN e ELSE s.top[c] BY <1>4, <1>a
    <2>2. ASSUME NEW k \in 1 .. m
          PROVE  Cardinality(Won(t.top, k)) =
                   Cardinality(Won(s.top, k)) - (IF k = w THEN 1 ELSE 0) + (IF k = e THEN 1 ELSE 0)
        <3>1. /\ (k = w <=> k = e) => Cardinality(Won(t.top, k)) = Cardinality(Won(s.top, k))
              /\ k = w /\ k # e => Cardinality(Won(t.top, k)) = Cardinality(Won(s.top, k)) - 1
              /\ k # w /\ k = e => Cardinality(Won(t.top, k)) = Cardinality(Won(s.top, k)) + 1
            <4>1. PICK top \in [Bits -> 0 .. m] : top = s.top BY <1>a
            <4>2. PICK new : new = t.top OBVIOUS
            <4>3. \A c \in Bits : new[c] = IF c = b THEN e ELSE top[c] BY <2>1, <4>1, <4>2
            <4> HIDE DEF w
            <4>4. /\ (k = top[b] <=> k = e) => Cardinality(Won(new, k)) = Cardinality(Won(top, k))
                  /\ k = top[b] /\ k # e => Cardinality(Won(new, k)) = Cardinality(Won(top, k)) - 1
                  /\ k # top[b] /\ k = e => Cardinality(Won(new, k)) = Cardinality(Won(top, k)) + 1
                BY ONLY <4>3, WonMoves, m \in Nat, k \in 1 .. m, e \in 1 .. m, b \in Bits,
                        top \in [Bits -> 0 .. m]
            <4> QED BY <4>1, <4>2, <4>4 DEF w
        <3> QED BY <1>b, <3>1
    <2>3. ASSUME NEW k \in 1 .. m
          PROVE  /\ Surplus(t, k) = Surplus(s, k)
                 /\ Cardinality(Won(t.top, k)) <= t.q[k].tc_ref
        <3>1. Cardinality(Won(s.top, k)) <= s.q[k].tc_ref BY DEF Sound
        <3>2. t.q[k].tc_ref = s.q[k].tc_ref - (IF k = w THEN 1 ELSE 0) + (IF k = e THEN 1 ELSE 0)
            BY <1>4
        <3>3. s.q[k].tc_ref \in Int /\ Cardinality(Won(s.top, k)) \in Nat BY <1>b
        <3>4. \A i, j \in {0, 1}, r \in Int, c \in Nat :
                 (r - i + j) - (c - i + j) = r - c /\ (c <= r => c - i + j <= r - i + j)
            OBVIOUS
        <3> QED BY <2>2, <3>1, <3>2, <3>3, <3>4 DEF Surplus
    <2>4. ASSUME NEW k \in 1 .. m, t.q[k].trace_mini # {} PROVE t.q[k].tc_ref > 0
        <3>1. CASE k = e
            <4>1. b \in Won(t.top, k) BY <2>1, <3>1 DEF Won
            <4>2. Cardinality(Won(t.top, k)) > 0
                <5>1. Won(t.top, k) \in SUBSET Bits /\ IsFiniteSet(Won(t.top, k))
                    BY BitsFinite DEF Won
                <5> QED BY <1>b, <4>1, <5>1, FS_EmptySet
            <4> QED BY <1>b, <2>3, <4>2
        <3>2. CASE k # e
            <4>1. CASE k = w
                <5>1. s.q[k].tc_ref # 1 /\ s.q[k].trace_mini # {} BY <1>4, <2>4, <3>2, <4>1
                <5>2. s.q[k].tc_ref > 0 BY <5>1 DEF Sound
                <5>3. t.q[k].tc_ref = s.q[k].tc_ref - 1 BY <1>4, <1>b, <3>2, <4>1
                <5> QED BY <1>b, <5>1, <5>2, <5>3
            <4>2. CASE k # w
                <5>1. t.q[k].tc_ref = s.q[k].tc_ref /\ t.q[k].trace_mini = s.q[k].trace_mini
                    BY <1>4, <1>b, <3>2, <4>2
                <5> QED BY <2>4, <5>1 DEF Sound
            <4> QED BY <4>1, <4>2
        <3> QED BY <3>1, <3>2
    <2>5. ASSUME NEW c \in Bits, t.top[c] # 0 PROVE c \in t.q[t.top[c]].trace
        <3>1. t.top[c] \in 1 .. m BY <1>a, <2>5
        <3>2. t.q[t.top[c]].trace = s.q[t.top[c]].trace BY <1>4, <3>1 DEF Alike
        <3>3. CASE c = b BY <2>1, <3>2, <3>3
        <3>4. CASE c # b
            <4>1. t.top[c] = s.top[c] BY <2>1, <3>4
            <4>2. c \in s.q[s.top[c]].trace BY <2>5, <4>1 DEF Sound
            <4> QED BY <3>2, <4>1, <4>2
        <3> QED BY <3>3, <3>4
    <2>6. Sound(m, t) BY <2>3, <2>4, <2>5 DEF Sound
    <2>7. Moved(m, s, t, E)
        <3>1. \A c \in Bits : /\ s.top[c] # 0 => t.top[c] # 0
                              /\ t.top[c] = s.top[c] \/ t.top[c] \in E
            BY <2>1
        <3> QED BY <1>4, <2>3, <3>1 DEF Moved
    <2>8. ASSUME OwnMini(m, s), bits = s.q[e].trace, NEW k \in 1 .. m, t.q[k].trace_mini # {}
          PROVE  t.q[k].trace_mini = t.q[k].trace
        <3>1. t.q[k].trace = s.q[k].trace BY <1>4 DEF Alike
        <3>2. t.q[k].trace_mini = s.q[k].trace_mini \/ (k = e /\ t.q[k].trace_mini = bits)
            BY <1>4, <2>8
        <3> QED BY <2>8, <3>1, <3>2 DEF OwnMini
    <2>9. t.top[b] # 0 BY <2>1
    <2>10. OwnMini(m, s) /\ bits = s.q[e].trace => OwnMini(m, t) BY <2>8 DEF OwnMini
    <2> QED BY <1>1, <1>2, <2>6, <2>7, <2>9, <2>10
<1> QED BY <1>0, <1>1, <1>3, <1>4, ContendFacts, SMTT(30)

\* The same as the step of a loop.
LEMMA ContendKeeps ==
    ASSUME NEW m \in Nat, NEW s, NEW E, NEW own \in BOOLEAN, NEW t \in Kept(m, s, E, own),
           NEW e \in 1 .. m, e \in E, NEW b \in Bits, b \in t.q[e].trace,
           NEW bits \in Traces, own => bits = t.q[e].trace
    PROVE  /\ Contend(t, e, b, bits) \in Kept(m, s, E, own)
           /\ Contend(t, e, b, bits).top[b] # 0
           /\ \A c \in Bits : t.top[c] # 0 => Contend(t, e, b, bits).top[c] # 0
<1>1. t \in TableSet(m) /\ Sound(m, t) /\ Moved(m, s, t, E) /\ (own => OwnMini(m, t)) BY DEF Kept
<1>2. PICK u : u = Contend(t, e, b, bits) OBVIOUS
<1>3. /\ u \in TableSet(m) /\ Sound(m, u) /\ Moved(m, t, u, E) /\ u.top[b] # 0
      /\ OwnMini(m, t) /\ bits = t.q[e].trace => OwnMini(m, u)
    BY <1>1, <1>2, ContendMoves
<1>4. Moved(m, s, u, E) BY <1>1, <1>3, MovedChain
<1>5. u \in Kept(m, s, E, own) BY <1>1, <1>3, <1>4 DEF Kept
<1>6. \A c \in Bits : t.top[c] # 0 => u.top[c] # 0 BY <1>3 DEF Moved
<1> QED BY <1>2, <1>3, <1>5, <1>6

\* Before the first round.
LEMMA KeptStart ==
    ASSUME NEW m \in Nat, NEW s \in TableSet(m), Sound(m, s), NEW E, NEW own \in BOOLEAN,
           own => OwnMini(m, s)
    PROVE  s \in Kept(m, s, E, own)
BY MovedNot DEF Kept

\* update_bitmap_score: only e wins bits, and every bit of e has a winner.
LEMMA ScoreKeeps ==
    ASSUME NEW m \in Nat, NEW s \in TableSet(m), Sound(m, s), NEW e \in 1 .. m,
           NEW own \in BOOLEAN, own => OwnMini(m, s)
    PROVE  /\ update_bitmap_score(s, e) \in Kept(m, s, {e}, own)
           /\ ~s.q[e].disabled =>
                 \A b \in s.q[e].trace : update_bitmap_score(s, e).top[b] # 0
<1> DEFINE bits == s.q[e].trace
           S == Kept(m, s, {e}, own)
           F == [n \in 1 .. NumBits |->
                    [t \in S |-> IF n - 1 \in bits THEN Contend(t, e, n - 1, bits) ELSE t]]
           Body(g) == [n \in 0 .. NumBits |->
                          IF n = 0 THEN s
                          ELSE IF n - 1 \in bits THEN Contend(g[n - 1], e, n - 1, bits)
                               ELSE g[n - 1]]
           J == [n \in 0 .. NumBits |-> {t \in S : \A b \in bits : b < n => t.top[b] # 0}]
<1>1. NumBits \in Nat /\ s \in S BY BitsFinite, KeptStart
<1>2. bits \in Traces /\ bits \in SUBSET Bits BY CorpusAssumption DEF TableSet, LooseEntry
<1>3. \A t \in S : t \in TableSet(m) /\ t.q[e].trace = bits BY DEF Kept, Moved, Alike
<1> HIDE DEF S, bits
<1>4. ASSUME NEW t \in S, NEW n \in 1 .. NumBits, n - 1 \in bits
      PROVE  /\ Contend(t, e, n - 1, bits) \in S
             /\ Contend(t, e, n - 1, bits).top[n - 1] # 0
             /\ \A c \in Bits : t.top[c] # 0 => Contend(t, e, n - 1, bits).top[c] # 0
    <2>1. n - 1 \in Bits /\ n - 1 \in t.q[e].trace /\ bits = t.q[e].trace BY <1>2, <1>3, <1>4
    <2> QED BY <1>2, <2>1, ContendKeeps DEF S
<1>5. F \in [1 .. NumBits -> [S -> S]] BY <1>4
<1> HIDE DEF F
<1>6. \E g : g = Body(g)
    <2>1. PICK g \in [0 .. NumBits -> S] : IsLoop(g, NumBits, s, F)
        BY <1>1, <1>5, LoopDefined
    <2>2. ASSUME NEW n \in 1 .. NumBits
          PROVE  F[n][g[n - 1]] =
                    IF n - 1 \in bits THEN Contend(g[n - 1], e, n - 1, bits) ELSE g[n - 1]
        <3>1. g[n - 1] \in S BY <1>1
        <3> QED BY <3>1 DEF F
    <2>3. g[0] = s /\ \A n \in 1 .. NumBits : g[n] = F[n][g[n - 1]] BY <2>1 DEF IsLoop
    <2>4. ASSUME NEW n \in 0 .. NumBits PROVE g[n] = Body(g)[n]
        <3>1. CASE n = 0 BY <2>3, <3>1
        <3>2. CASE n # 0
            <4>1. n \in 1 .. NumBits BY <3>2
            <4> QED BY <2>2, <2>3, <3>2, <4>1
        <3> QED BY <3>1, <3>2
    <2>5. g = Body(g) BY <2>4
    <2> QED BY <2>5
<1> DEFINE after == CHOOSE g : g = Body(g)
<1>7. after = Body(after) BY <1>6
<1>8. update_bitmap_score(s, e) = IF s.q[e].disabled THEN s ELSE after[NumBits]
    BY DEF update_bitmap_score, bits
<1> HIDE DEF after
<1>9. /\ after[0] = s
      /\ \A n \in 1 .. NumBits : after[n] =
            IF n - 1 \in bits THEN Contend(after[n - 1], e, n - 1, bits) ELSE after[n - 1]
    BY <1>1, <1>7
<1>10. \A n \in 0 .. NumBits : after[n] \in J[n]
    <2>1. after[0] \in J[0]
        <3>1. \A b \in bits : ~(b < 0) BY <1>1, <1>2 DEF Bits
        <3> QED BY <1>1, <1>9, <3>1
    <2>2. ASSUME NEW n \in 1 .. NumBits, after[n - 1] \in J[n - 1] PROVE after[n] \in J[n]
        <3>1. /\ after[n - 1] \in S /\ n - 1 \in 0 .. NumBits
              /\ \A b \in bits : b < n - 1 => after[n - 1].top[b] # 0
            BY <1>1, <2>2
        <3>2. \A b \in bits : b < n => b < n - 1 \/ b = n - 1 BY <1>1, <1>2 DEF Bits
        <3>3. CASE n - 1 \in bits
            <4>1. after[n] = Contend(after[n - 1], e, n - 1, bits) BY <1>9, <3>3
            <4>2. /\ after[n] \in S /\ after[n].top[n - 1] # 0
                  /\ \A c \in Bits : after[n - 1].top[c] # 0 => after[n].top[c] # 0
                BY <1>4, <3>1, <3>3, <4>1
            <4>3. \A b \in bits : b < n => after[n].top[b] # 0 BY <1>2, <3>1, <3>2, <4>2
            <4> QED BY <1>1, <4>2, <4>3
        <3>4. CASE n - 1 \notin bits
            <4>1. after[n] = after[n - 1] BY <1>9, <3>4
            <4>2. \A b \in bits : b < n => after[n].top[b] # 0 BY <3>1, <3>2, <3>4, <4>1
            <4> QED BY <1>1, <3>1, <4>1, <4>2
        <3> QED BY <3>3, <3>4
    <2> HIDE DEF J
    <2> QED BY <1>1, <2>1, <2>2, LoopKeeps
<1>11. after[NumBits] \in S /\ \A b \in bits : after[NumBits].top[b] # 0
    <2>1. NumBits \in 0 .. NumBits /\ \A b \in bits : b < NumBits BY <1>1, <1>2 DEF Bits
    <2> QED BY <1>10, <2>1
<1> QED BY <1>1, <1>8, <1>11 DEF S, bits

\* The loop of recalculate_all_scores over the entries that hit bit b.
LEMMA RescoreBitKeeps ==
    ASSUME NEW m \in Nat, NEW s \in TableSet(m), Sound(m, s), NEW b \in Bits, NEW bits \in Traces
    PROVE  RescoreBit(s, b, bits) \in Kept(m, s, 1 .. m, FALSE)
<1> DEFINE S == Kept(m, s, 1 .. m, FALSE)
           Meets(e) == b \in s.q[e].trace /\ ~s.q[e].disabled
           F == [e \in 1 .. m |-> [t \in S |-> IF Meets(e) THEN Contend(t, e, b, bits) ELSE t]]
           Body(g) == [e \in 0 .. m |->
                          IF e = 0 THEN s
                          ELSE IF Meets(e) THEN Contend(g[e - 1], e, b, bits) ELSE g[e - 1]]
           J == [e \in 0 .. m |-> S]
<1>1. s \in S BY KeptStart
<1>2. Len(s.q) = m
    <2>1. s.q \in [1 .. m -> LooseEntry] BY DEF TableSet
    <2> QED BY <2>1
<1>3. \A t \in S : \A e \in 1 .. m : t.q[e].trace = s.q[e].trace BY DEF Kept, Moved, Alike
<1> HIDE DEF S
<1>4. ASSUME NEW t \in S, NEW e \in 1 .. m, Meets(e) PROVE Contend(t, e, b, bits) \in S
    <2>1. b \in t.q[e].trace BY <1>3, <1>4
    <2> QED BY <2>1, ContendKeeps DEF S
<1> HIDE DEF Meets
<1>5. F \in [1 .. m -> [S -> S]] BY <1>4
<1> HIDE DEF F
<1>6. \E g : g = Body(g)
    <2>1. PICK g \in [0 .. m -> S] : IsLoop(g, m, s, F) BY <1>1, <1>5, LoopDefined
    <2>2. ASSUME NEW e \in 1 .. m
          PROVE  F[e][g[e - 1]] = IF Meets(e) THEN Contend(g[e - 1], e, b, bits) ELSE g[e - 1]
        <3>1. g[e - 1] \in S OBVIOUS
        <3> QED BY <3>1 DEF F
    <2>3. g[0] = s /\ \A e \in 1 .. m : g[e] = F[e][g[e - 1]] BY <2>1 DEF IsLoop
    <2>4. ASSUME NEW e \in 0 .. m PROVE g[e] = Body(g)[e]
        <3>1. CASE e = 0 BY <2>3, <3>1
        <3>2. CASE e # 0
            <4>1. e \in 1 .. m BY <3>2
            <4> QED BY <2>2, <2>3, <3>2, <4>1
        <3> QED BY <3>1, <3>2
    <2>5. g = Body(g) BY <2>4
    <2> QED BY <2>5
<1> DEFINE after == CHOOSE g : g = Body(g)
<1>7. after = Body(after) BY <1>6
<1>8. RescoreBit(s, b, bits) = after[m] BY <1>2 DEF RescoreBit, Meets
<1> HIDE DEF after
<1>9. /\ after[0] = s
      /\ \A e \in 1 .. m : after[e] =
            IF Meets(e) THEN Contend(after[e - 1], e, b, bits) ELSE after[e - 1]
    BY <1>7
<1>10. \A e \in 0 .. m : after[e] \in J[e]
    <2>1. after[0] \in J[0] BY <1>1, <1>9
    <2>2. ASSUME NEW e \in 1 .. m, after[e - 1] \in J[e - 1] PROVE after[e] \in J[e]
        BY <1>4, <1>9, <2>2
    <2> HIDE DEF J
    <2> QED BY <2>1, <2>2, LoopKeeps
<1>11. m \in 0 .. m /\ J[m] = S OBVIOUS
<1>12. after[m] \in S BY <1>10, <1>11
<1> QED BY <1>8, <1>12 DEF S

\* recalculate_all_scores, a loop over all bits of a loop over all entries.
LEMMA RecalculateKeeps ==
    ASSUME NEW m \in Nat, NEW s \in TableSet(m), Sound(m, s), NEW bits \in Traces
    PROVE  recalculate_all_scores(s, bits) \in Kept(m, s, 1 .. m, FALSE)
<1> DEFINE S == Kept(m, s, 1 .. m, FALSE)
           F == [n \in 1 .. NumBits |-> [t \in S |-> RescoreBit(t, n - 1, bits)]]
           Body(g) == [n \in 0 .. NumBits |->
                          IF n = 0 THEN s ELSE RescoreBit(g[n - 1], n - 1, bits)]
           J == [n \in 0 .. NumBits |-> S]
<1>1. NumBits \in Nat /\ s \in S BY BitsFinite, KeptStart
<1>2. ASSUME NEW t \in S, NEW n \in 1 .. NumBits PROVE RescoreBit(t, n - 1, bits) \in S
    <2>1. t \in TableSet(m) /\ Sound(m, t) /\ Moved(m, s, t, 1 .. m) BY DEF Kept
    <2>2. n - 1 \in Bits BY <1>1 DEF Bits
    <2>3. PICK u : u = RescoreBit(t, n - 1, bits) OBVIOUS
    <2>4. u \in Kept(m, t, 1 .. m, FALSE) BY <2>1, <2>2, <2>3, RescoreBitKeeps
    <2>5. u \in TableSet(m) /\ Sound(m, u) /\ Moved(m, t, u, 1 .. m) BY <2>4 DEF Kept
    <2>6. Moved(m, s, u, 1 .. m) BY <2>1, <2>5, MovedChain
    <2> QED BY <2>3, <2>5, <2>6 DEF Kept
<1> HIDE DEF S
<1>5. F \in [1 .. NumBits -> [S -> S]] BY <1>2
<1> HIDE DEF F
<1>6. \E g : g = Body(g)
    <2>1. PICK g \in [0 .. NumBits -> S] : IsLoop(g, NumBits, s, F) BY <1>1, <1>5, LoopDefined
    <2>2. ASSUME NEW n \in 1 .. NumBits
          PROVE  F[n][g[n - 1]] = RescoreBit(g[n - 1], n - 1, bits)
        <3>1. g[n - 1] \in S BY <1>1
        <3> QED BY <3>1 DEF F
    <2>3. g[0] = s /\ \A n \in 1 .. NumBits : g[n] = F[n][g[n - 1]] BY <2>1 DEF IsLoop
    <2>4. ASSUME NEW n \in 0 .. NumBits PROVE g[n] = Body(g)[n]
        <3>1. CASE n = 0 BY <2>3, <3>1
        <3>2. CASE n # 0
            <4>1. n \in 1 .. NumBits BY <3>2
            <4> QED BY <2>2, <2>3, <3>2, <4>1
        <3> QED BY <3>1, <3>2
    <2>5. g = Body(g) BY <2>4
    <2> QED BY <2>5
<1> DEFINE after == CHOOSE g : g = Body(g)
<1>7. after = Body(after) BY <1>6
<1>8. recalculate_all_scores(s, bits) = after[NumBits] BY DEF recalculate_all_scores
<1> HIDE DEF after
<1>9. /\ after[0] = s
      /\ \A n \in 1 .. NumBits : after[n] = RescoreBit(after[n - 1], n - 1, bits)
    BY <1>1, <1>7
<1>10. \A n \in 0 .. NumBits : after[n] \in J[n]
    <2>1. after[0] \in J[0] BY <1>1, <1>9
    <2>2. ASSUME NEW n \in 1 .. NumBits, after[n - 1] \in J[n - 1] PROVE after[n] \in J[n]
        BY <1>1, <1>2, <1>9, <2>2
    <2> HIDE DEF J
    <2> QED BY <1>1, <2>1, <2>2, LoopKeeps
<1>11. NumBits \in 0 .. NumBits /\ J[NumBits] = S BY <1>1
<1>12. after[NumBits] \in S BY <1>10, <1>11
<1> QED BY <1>8, <1>12 DEF S

(***************************************************************************)
(* Culling.  Favored are enabled winners; every bit whose winner has it in *)
(* its trace_mini is in that of a favored entry, or of a disabled winner.  *)
(***************************************************************************)
Winner(e) == \E b \in Bits : top_rated[b] = e

CoveredBy(x, fav) == \E e \in Ids : /\ x \in queue_buf[e].trace_mini
                                    /\ e \in fav \/ (queue_buf[e].disabled /\ Winner(e))

Held(x) == top_rated[x] # 0 /\ x \in queue_buf[top_rated[x]].trace_mini

CullState == [temp_v : SUBSET Bits,
              favored : SUBSET {e \in Ids : ~queue_buf[e].disabled /\ Winner(e)}]

\* One round of cull_queue: the bits that are done with are covered.
LEMMA CullBitKeeps ==
    ASSUME top_rated \in [Bits -> 0 .. Len(queue_buf)], Len(queue_buf) \in Nat,
           NEW c \in CullState, NEW b \in Bits,
           \A x \in Bits \ c.temp_v : CoveredBy(x, c.favored)
    PROVE  /\ CullBit(c, b) \in CullState
           /\ \A x \in Bits \ CullBit(c, b).temp_v : CoveredBy(x, CullBit(c, b).favored)
           /\ CullBit(c, b).temp_v \subseteq c.temp_v
           /\ Held(b) => b \notin CullBit(c, b).temp_v
<1> DEFINE w == top_rated[b]
           skip == w = 0 \/ b \notin c.temp_v \/ queue_buf[w].trace_mini = {}
           T == c.temp_v \ queue_buf[w].trace_mini
           fav == IF queue_buf[w].disabled THEN c.favored ELSE c.favored \cup {w}
<1>1. c.temp_v \in SUBSET Bits
      /\ c.favored \in SUBSET {e \in Ids : ~queue_buf[e].disabled /\ Winner(e)}
    BY DEF CullState
<1>2. CASE skip
    <2>1. CullBit(c, b) = c BY <1>2 DEF CullBit
    <2>2. Held(b) => b \notin c.temp_v BY <1>2 DEF Held
    <2> QED BY <2>1, <2>2
<1>3. CASE ~skip
    <2>1. CullBit(c, b) = [temp_v |-> T, favored |-> fav] BY <1>3 DEF CullBit
    <2>2. w \in Ids /\ Winner(w) BY <1>3 DEF Ids, Winner
    <2>3. T \in SUBSET Bits /\ T \subseteq c.temp_v BY <1>1
    <2>4. fav \in SUBSET {e \in Ids : ~queue_buf[e].disabled /\ Winner(e)} /\ c.favored \subseteq fav
        BY <1>1, <2>2
    <2>5. ASSUME NEW x \in Bits \ T PROVE CoveredBy(x, fav)
        <3>1. CASE x \notin c.temp_v BY <2>4, <3>1 DEF CoveredBy
        <3>2. CASE x \in c.temp_v
            <4>1. x \in queue_buf[w].trace_mini BY <3>2
            <4>2. w \in fav \/ queue_buf[w].disabled OBVIOUS
            <4> QED BY <2>2, <4>1, <4>2 DEF CoveredBy
        <3> QED BY <3>1, <3>2
    <2>6. Held(b) => b \notin T BY DEF Held
    <2> HIDE DEF T, fav
    <2>7. [temp_v |-> T, favored |-> fav] \in CullState BY <2>3, <2>4 DEF CullState
    <2>8. CullBit(c, b).temp_v = T /\ CullBit(c, b).favored = fav BY <2>1
    <2> QED BY <2>1, <2>3, <2>5, <2>6, <2>7, <2>8
<1> QED BY <1>2, <1>3

\* All its rounds: what is picked is enabled and wins, and every bit that is held is covered.
LEMMA CullKeeps ==
    ASSUME top_rated \in [Bits -> 0 .. Len(queue_buf)], Len(queue_buf) \in Nat
    PROVE  /\ CullFavored \in SUBSET {e \in Ids : ~queue_buf[e].disabled /\ Winner(e)}
           /\ \A x \in Bits : Held(x) => CoveredBy(x, CullFavored)
<1> DEFINE Cov(c) == \A x \in Bits \ c.temp_v : CoveredBy(x, c.favored)
           S == {c \in CullState : Cov(c)}
           s == [temp_v |-> Bits, favored |-> {}]
           F == [n \in 1 .. NumBits |-> [c \in S |-> CullBit(c, n - 1)]]
           Body(g) == [n \in 0 .. NumBits |-> IF n = 0 THEN s ELSE CullBit(g[n - 1], n - 1)]
           J == [n \in 0 .. NumBits |->
                    {c \in S : \A x \in Bits : x < n /\ Held(x) => x \notin c.temp_v}]
<1>1. NumBits \in Nat BY BitsFinite
<1>2. s \in S BY DEF CullState
<1>3. ASSUME NEW c \in S, NEW n \in 1 .. NumBits
      PROVE  /\ CullBit(c, n - 1) \in S /\ CullBit(c, n - 1).temp_v \subseteq c.temp_v
             /\ Held(n - 1) => n - 1 \notin CullBit(c, n - 1).temp_v
    <2>1. n - 1 \in Bits BY <1>1 DEF Bits
    <2> QED BY <2>1, CullBitKeeps
<1> HIDE DEF S, s
<1>5. F \in [1 .. NumBits -> [S -> S]] BY <1>3
<1> HIDE DEF F
<1>6. \E g : g = Body(g)
    <2>1. PICK g \in [0 .. NumBits -> S] : IsLoop(g, NumBits, s, F) BY <1>1, <1>2, <1>5, LoopDefined
    <2>2. ASSUME NEW n \in 1 .. NumBits PROVE F[n][g[n - 1]] = CullBit(g[n - 1], n - 1)
        <3>1. g[n - 1] \in S BY <1>1
        <3> QED BY <3>1 DEF F
    <2>3. g[0] = s /\ \A n \in 1 .. NumBits : g[n] = F[n][g[n - 1]] BY <2>1 DEF IsLoop
    <2>4. ASSUME NEW n \in 0 .. NumBits PROVE g[n] = Body(g)[n]
        <3>1. CASE n = 0 BY <2>3, <3>1
        <3>2. CASE n # 0
            <4>1. n \in 1 .. NumBits BY <3>2
            <4> QED BY <2>2, <2>3, <3>2, <4>1
        <3> QED BY <3>1, <3>2
    <2>5. g = Body(g) BY <2>4
    <2> QED BY <2>5
<1> DEFINE after == CHOOSE g : g = Body(g)
<1>7. after = Body(after) BY <1>6
<1>8. CullFavored = after[NumBits].favored BY DEF CullFavored, s
<1> HIDE DEF after
<1>9. /\ after[0] = s
      /\ \A n \in 1 .. NumBits : after[n] = CullBit(after[n - 1], n - 1)
    BY <1>1, <1>7
<1>10. \A n \in 0 .. NumBits : after[n] \in J[n]
    <2>1. after[0] \in J[0]
        <3>1. \A x \in Bits : ~(x < 0) BY <1>1 DEF Bits
        <3> QED BY <1>1, <1>2, <1>9, <3>1
    <2>2. ASSUME NEW n \in 1 .. NumBits, after[n - 1] \in J[n - 1] PROVE after[n] \in J[n]
        <3>1. /\ after[n - 1] \in S
              /\ \A x \in Bits : x < n - 1 /\ Held(x) => x \notin after[n - 1].temp_v
            BY <1>1, <2>2
        <3>2. \A x \in Bits : x < n => x < n - 1 \/ x = n - 1 BY <1>1 DEF Bits
        <3>3. /\ after[n] \in S /\ after[n].temp_v \subseteq after[n - 1].temp_v
              /\ Held(n - 1) => n - 1 \notin after[n].temp_v
            BY <1>3, <1>9, <3>1
        <3>4. \A x \in Bits : x < n /\ Held(x) => x \notin after[n].temp_v BY <3>1, <3>2, <3>3
        <3> QED BY <1>1, <3>3, <3>4
    <2> HIDE DEF J
    <2> QED BY <1>1, <2>1, <2>2, LoopKeeps
<1>11. after[NumBits] \in S /\ \A x \in Bits : Held(x) => x \notin after[NumBits].temp_v
    <2>1. NumBits \in 0 .. NumBits /\ \A x \in Bits : x < NumBits BY <1>1 DEF Bits
    <2> QED BY <1>10, <2>1
<1>12. PICK c : c = after[NumBits] OBVIOUS
<1>13. c \in CullState /\ Cov(c) BY <1>11, <1>12 DEF S
<1> QED BY <1>8, <1>11, <1>12, <1>13 DEF CullState

(***************************************************************************)
(* The invariant in terms of the tables and of sets of entries.            *)
(***************************************************************************)
Favs(q)     == {e \in 1 .. Len(q) : q[e].favored}
Pending(q)  == {e \in 1 .. Len(q) : q[e].favored /\ ~q[e].was_fuzzed}
Unfuzzed(q) == {e \in 1 .. Len(q) : ~q[e].was_fuzzed}
Due(q)      == {e \in 1 .. Len(q) : ~q[e].was_fuzzed /\ ~q[e].disabled}
Enabled(q)  == {e \in 1 .. Len(q) : ~q[e].disabled}

\* Counted, when there were r restarts.
CountedAt(x, r) == (x.spared => r > 0) /\ (~x.disabled \/ x.fs_redundant)
InCount(q, r)   == {e \in 1 .. Len(q) : CountedAt(q[e], r)}
Active(q, r)    == {e \in 1 .. Len(q) : CountedAt(q[e], r) /\ ~q[e].disabled}

\* The counters are exact.
Exact(r) == r = 0 \/ ~DisableRedundant

\* Who is rejected counts as fuzzed; who is redundant was disabled by the option.
Settled(x) == /\ x.spared \/ (x.disabled /\ ~x.fs_redundant) => x.was_fuzzed
              /\ x.disabled /\ x.fs_redundant => DisableRedundant

Fits(m, t, r) == /\ t \in TableSet(m) /\ Sound(m, t)
                 /\ \A k \in 1 .. m : Surplus(t, k) <= NumBits * r

\* What the flags of the entries and the counters say of each other.
FlagsHold(q, qf, pf, sf, pn, ai, r) ==
    /\ \A e \in 1 .. Len(q) : q[e].favored => ~q[e].disabled
    /\ sf # 0 => sf \in Pending(q) /\ \A e \in Pending(q) : sf <= e
    /\ qf = Cardinality(Favs(q)) /\ pf = Cardinality(Pending(q))
    /\ pn \in Int /\ Cardinality(Due(q)) <= pn /\ pn <= Cardinality(Unfuzzed(q))
    /\ ai \in Int /\ Cardinality(Active(q, r)) <= ai /\ ai <= Len(q)
    /\ \A e \in 1 .. Len(q) : Settled(q[e])
    /\ Exact(r) => pn = Cardinality(Unfuzzed(q)) /\ ai = Cardinality(InCount(q, r))

SeenWon(m, t, r) == \A e \in 1 .. m : \A b \in t.q[e].trace :
                       t.q[e].exec_us > 0 /\ r = 0 => t.top[b] # 0

Calibrated(t, sf) == /\ \A b \in Bits : t.top[b] # 0 => t.q[t.top[b]].cal_failed = 0
                     /\ sf # 0 => t.q[sf].cal_failed = 0

Phases == {"dry", "top", "sched", "pick", "trim", "fuzz", "stopped", "fatal"}

Form ==
    /\ phase \in Phases /\ Len(queue_buf) \in Nat
    /\ queue_cur \in 0 .. Len(queue_buf) /\ last_scored_idx \in 0 .. Len(queue_buf)
    /\ restarts \in 0 .. MaxRestarts
    /\ Fits(Len(queue_buf), Tables, restarts) /\ SeenWon(Len(queue_buf), Tables, restarts)
    /\ FlagsHold(queue_buf, queued_favored, pending_favored, smallest_favored,
                 pending_not_fuzzed, active_items, restarts)
    /\ InDryRun /\ AtWork
    /\ ~CycleSchedules => OwnMini(Len(queue_buf), Tables) /\ Calibrated(Tables, smallest_favored)

\* Sets of entries can be counted.
LEMMA SetsFinite ==
    ASSUME NEW q, Len(q) \in Nat
    PROVE  /\ IsFiniteSet(1 .. Len(q)) /\ Cardinality(1 .. Len(q)) = Len(q)
           /\ \A T \in SUBSET (1 .. Len(q)) :
                 IsFiniteSet(T) /\ Cardinality(T) \in Nat /\ Cardinality(T) <= Len(q)
           /\ {Favs(q), Pending(q), Unfuzzed(q), Due(q), Enabled(q)} \subseteq SUBSET (1 .. Len(q))
           /\ \A r : InCount(q, r) \in SUBSET (1 .. Len(q)) /\ Active(q, r) \in SUBSET (1 .. Len(q))
<1>1. IsFiniteSet(1 .. Len(q)) /\ Cardinality(1 .. Len(q)) = Len(q)
    <2>1. PICK n \in Nat : n = Len(q) OBVIOUS
    <2>2. IsFiniteSet(1 .. n) /\ Cardinality(1 .. n) = IF 1 > n THEN 0 ELSE n - 1 + 1
        BY FS_Interval
    <2> QED BY <2>1, <2>2
<1>2. ASSUME NEW T \in SUBSET (1 .. Len(q))
      PROVE  IsFiniteSet(T) /\ Cardinality(T) \in Nat /\ Cardinality(T) <= Len(q)
    BY <1>1, FS_Subset, FS_CardinalityType
<1> QED BY <1>1, <1>2 DEF Favs, Pending, Unfuzzed, Due, Enabled, InCount, Active

\* What is assumed of the constants, without the sets.
LEMMA Constants ==
    /\ NumBits \in Nat /\ MaxRestarts \in Nat /\ MaxLevel \in Nat /\ MaxItems \in Nat
    /\ Times \subseteq Nat /\ Lens \subseteq Nat /\ \A t \in Traces : t \in SUBSET Bits
    /\ CycleSchedules \in BOOLEAN /\ DisableRedundant \in BOOLEAN
BY CorpusAssumption

\* A reference count that fits the wins is in its range.
LEMMA RefsRange ==
    ASSUME NEW r \in 0 .. MaxRestarts, NEW c \in Nat, c <= NumBits, NEW f \in Int,
           c <= f, f - c <= NumBits * r
    PROVE  f \in 0 .. NumBits * (MaxRestarts + 1)
<1>1. NumBits \in Nat /\ MaxRestarts \in Nat BY Constants
<1>2. PICK d \in Nat : MaxRestarts = r + d
    <2>1. MaxRestarts - r \in Nat /\ MaxRestarts = r + (MaxRestarts - r) BY <1>1
    <2> QED BY <2>1
<1>3. NumBits * (MaxRestarts + 1) = NumBits * r + NumBits * d + NumBits BY <1>1, <1>2
<1>4. NumBits * d \in Nat /\ NumBits * r \in Nat BY <1>1
<1>5. PICK x \in Nat : x = NumBits * r BY <1>4
<1>6. PICK y \in Nat : y = NumBits * d BY <1>4
<1>7. f <= x + y + NumBits /\ f >= 0 BY <1>1, <1>5, <1>6
<1> QED BY <1>3, <1>5, <1>6, <1>7, <1>1

\* The tables fit into the types of the state.
LEMMA FitsTyped ==
    ASSUME NEW m \in Nat, NEW t, NEW r \in 0 .. MaxRestarts, Fits(m, t, r)
    PROVE  /\ t.q \in Seq(Entry) /\ Len(t.q) = m
           /\ \A k \in 1 .. m : /\ Cardinality(Won(t.top, k)) <= t.q[k].tc_ref
                                /\ t.q[k].tc_ref <= Cardinality(Won(t.top, k)) + NumBits * r
<1>1. t.q \in [1 .. m -> LooseEntry] /\ t.top \in [Bits -> 0 .. m] BY DEF Fits, TableSet
<1>2. Len(t.q) = m BY <1>1
<1>3. ASSUME NEW k \in 1 .. m
      PROVE  /\ t.q[k] \in Entry
             /\ Cardinality(Won(t.top, k)) <= t.q[k].tc_ref
             /\ t.q[k].tc_ref <= Cardinality(Won(t.top, k)) + NumBits * r
    <2>1. t.q[k] \in LooseEntry /\ t.q[k].tc_ref \in Int BY <1>1 DEF LooseEntry
    <2>2. PICK c \in Nat : c = Cardinality(Won(t.top, k)) /\ c <= NumBits BY BitsFinite DEF Won
    <2>3. c <= t.q[k].tc_ref BY <2>2 DEF Fits, Sound
    <2>4. t.q[k].tc_ref - c <= NumBits * r BY <2>2 DEF Fits, Surplus
    <2>5. t.q[k].tc_ref \in 0 .. NumBits * (MaxRestarts + 1) BY <2>1, <2>2, <2>3, <2>4, RefsRange
    <2>6. t.q[k] \in Entry BY <2>1, <2>5 DEF LooseEntry, Entry
    <2>7. NumBits * r \in Int BY Constants
    <2>8. t.q[k].tc_ref <= c + NumBits * r
        <3>1. PICK x \in Int : x = NumBits * r BY <2>7
        <3> QED BY <2>1, <2>4, <3>1
    <2> QED BY <2>2, <2>3, <2>6, <2>8
<1>4. t.q \in [1 .. m -> Entry] BY <1>1, <1>3
<1>5. t.q \in Seq(Entry) BY <1>4, SeqDef
<1> QED BY <1>2, <1>3, <1>5

\* The two forms of the invariant are the same.
LEMMA InvForm == IInv <=> Form
<1> USE Constants
<1> DEFINE m == Len(queue_buf)
<1>1. CASE IInv
    <2>1. /\ TypeOK /\ RefsBounded /\ SeenHasWinner /\ MiniIsReferenced
          /\ FavoredEnabled /\ SmallestPending /\ InDryRun /\ AtWork /\ CountsBounded
          /\ ~CycleSchedules => MiniIsOwnTrace /\ WinnersCalibrated
          /\ RejectedFuzzed /\ CountsExact
        BY <1>1 DEF IInv
    <2>2. /\ queue_buf \in Seq(Entry) /\ m \in Nat /\ queue_buf \in [1 .. m -> Entry]
          /\ top_rated \in [Bits -> 0 .. m]
        BY <2>1 DEF TypeOK
    <2>3. /\ phase \in Phases /\ queue_cur \in 0 .. m /\ last_scored_idx \in 0 .. m
          /\ restarts \in 0 .. MaxRestarts
          /\ pending_not_fuzzed \in 0 .. m /\ active_items \in 0 .. m
        BY <2>1 DEF TypeOK, Phases
    <2>4. Tables \in TableSet(m)
        <3>1. Entry \subseteq LooseEntry BY DEF Entry, LooseEntry
        <3>2. queue_buf \in [1 .. m -> LooseEntry] BY <2>2, <3>1
        <3> QED BY <2>1, <2>2, <3>2 DEF TypeOK, Tables, TableSet
    <2>5. Sound(m, Tables)
        BY <2>1 DEF Sound, Tables, Won, RefsBounded, MiniIsReferenced, SeenHasWinner, Ids
    <2>6. ASSUME NEW k \in 1 .. m PROVE Surplus(Tables, k) <= NumBits * restarts
        <3>1. PICK c \in Nat : c = Cardinality(Won(top_rated, k)) BY BitsFinite DEF Won
        <3>2. queue_buf[k].tc_ref <= c + NumBits * restarts
            BY <2>1, <3>1 DEF RefsBounded, Ids, Won
        <3>3. PICK x \in Int : x = NumBits * restarts BY <2>3
        <3>4. queue_buf[k].tc_ref \in Int
            <4>1. queue_buf[k] \in Entry BY <2>2
            <4> QED BY <4>1 DEF Entry
        <3>5. queue_buf[k].tc_ref - c <= x BY <3>2, <3>3, <3>4
        <3> QED BY <3>1, <3>3, <3>5 DEF Surplus, Tables
    <2>7. SeenWon(m, Tables, restarts) BY <2>1 DEF SeenHasWinner, SeenWon, Tables, Ids
    <2>8. FlagsHold(queue_buf, queued_favored, pending_favored, smallest_favored,
                    pending_not_fuzzed, active_items, restarts)
        <3>1. /\ queued_favored = Cardinality(Favs(queue_buf))
              /\ pending_favored = Cardinality(Pending(queue_buf))
              /\ Cardinality(Due(queue_buf)) <= pending_not_fuzzed
              /\ pending_not_fuzzed <= Cardinality(Unfuzzed(queue_buf))
              /\ Cardinality(Active(queue_buf, restarts)) <= active_items /\ active_items <= m
            BY <2>1 DEF CountsBounded, Count, Ids, Favs, Pending, Due, Unfuzzed, Active, Counted,
                        CountedAt
        <3>2. /\ \A e \in 1 .. m : Settled(queue_buf[e])
              /\ Exact(restarts) =>
                    /\ pending_not_fuzzed = Cardinality(Unfuzzed(queue_buf))
                    /\ active_items = Cardinality(InCount(queue_buf, restarts))
            BY <2>1 DEF RejectedFuzzed, CountsExact, Count, Ids, Settled, Exact, Unfuzzed, InCount,
                        Counted, CountedAt
        <3>3. smallest_favored # 0 =>
                 /\ smallest_favored \in Pending(queue_buf)
                 /\ \A e \in Pending(queue_buf) : smallest_favored <= e
            BY <2>1 DEF SmallestPending, Pending, Ids
        <3>4. \A e \in 1 .. m : queue_buf[e].favored => ~queue_buf[e].disabled
            BY <2>1 DEF FavoredEnabled, Ids
        <3>5. pending_not_fuzzed \in Int /\ active_items \in Int BY <2>3
        <3> QED BY <3>1, <3>2, <3>3, <3>4, <3>5 DEF FlagsHold
    <2>9. ~CycleSchedules => OwnMini(m, Tables) /\ Calibrated(Tables, smallest_favored)
        BY <2>1 DEF MiniIsOwnTrace, WinnersCalibrated, OwnMini, Calibrated, Tables, Ids
    <2> QED BY <1>1, <2>1, <2>2, <2>3, <2>4, <2>5, <2>6, <2>7, <2>8, <2>9 DEF Form, Fits
<1>2. CASE Form
    <2>1. /\ phase \in Phases /\ m \in Nat /\ queue_cur \in 0 .. m /\ last_scored_idx \in 0 .. m
          /\ restarts \in 0 .. MaxRestarts
          /\ Fits(m, Tables, restarts) /\ SeenWon(m, Tables, restarts)
          /\ FlagsHold(queue_buf, queued_favored, pending_favored, smallest_favored,
                       pending_not_fuzzed, active_items, restarts)
          /\ InDryRun /\ AtWork
          /\ ~CycleSchedules => OwnMini(m, Tables) /\ Calibrated(Tables, smallest_favored)
        BY <1>2 DEF Form
    <2>2. /\ queue_buf \in Seq(Entry) /\ top_rated \in [Bits -> 0 .. m]
          /\ score_changed \in BOOLEAN /\ schedule \in DOMAIN NextSchedule
        <3>1. Tables.q \in Seq(Entry) BY <2>1, FitsTyped
        <3>2. Tables \in TableSet(m) BY <2>1 DEF Fits
        <3> QED BY <3>1, <3>2 DEF Tables, TableSet
    <2>3. RefsBounded
        <3>1. \A k \in 1 .. m :
                 /\ Cardinality(Won(Tables.top, k)) <= Tables.q[k].tc_ref
                 /\ Tables.q[k].tc_ref <= Cardinality(Won(Tables.top, k)) + NumBits * restarts
            BY <2>1, FitsTyped
        <3>2. Tables.q = queue_buf /\ Tables.top = top_rated BY DEF Tables
        <3> QED BY <3>1, <3>2 DEF RefsBounded, Won, Ids
    <2>4. MiniIsReferenced BY <2>1 DEF Fits, Sound, Tables, MiniIsReferenced, Ids
    <2>5. SeenHasWinner BY <2>1 DEF Fits, Sound, Tables, SeenHasWinner, SeenWon, Ids
    <2>6. FavoredEnabled /\ SmallestPending
        BY <2>1 DEF FlagsHold, FavoredEnabled, SmallestPending, Pending, Ids
    <2>7. CountsBounded
        BY <2>1 DEF FlagsHold, CountsBounded, Count, Ids, Favs, Pending, Due, Unfuzzed, Active,
                    Counted, CountedAt
    <2>8. RejectedFuzzed /\ CountsExact
        BY <2>1 DEF FlagsHold, RejectedFuzzed, CountsExact, Count, Ids, Settled, Exact, Unfuzzed,
                    InCount, Counted, CountedAt
    <2>9. ~CycleSchedules => MiniIsOwnTrace /\ WinnersCalibrated
        BY <2>1, <2>4 DEF MiniIsReferenced, MiniIsOwnTrace, WinnersCalibrated, OwnMini, Calibrated,
                          Tables, Ids
    <2>10. /\ queued_favored \in 0 .. m /\ pending_favored \in 0 .. m /\ smallest_favored \in 0 .. m
           /\ pending_not_fuzzed \in 0 .. m /\ active_items \in 0 .. m
        <3>1. /\ Cardinality(Favs(queue_buf)) \in 0 .. m /\ Cardinality(Pending(queue_buf)) \in 0 .. m
              /\ Cardinality(Due(queue_buf)) \in 0 .. m /\ Cardinality(Unfuzzed(queue_buf)) \in 0 .. m
              /\ Cardinality(Active(queue_buf, restarts)) \in 0 .. m
            BY <2>1, SetsFinite
        <3>2. smallest_favored # 0 => smallest_favored \in 1 .. m BY <2>1 DEF FlagsHold, Pending
        <3> QED BY <2>1, <3>1, <3>2 DEF FlagsHold
    <2>11. TypeOK BY <2>1, <2>2, <2>10 DEF TypeOK, Phases
    <2> QED BY <1>2, <2>1, <2>3, <2>4, <2>5, <2>6, <2>7, <2>8, <2>9, <2>11 DEF IInv
<1> QED BY <1>1, <1>2

(***************************************************************************)
(* Changes to the tables.                                                  *)
(***************************************************************************)
SameFlags(x, y) == /\ x.favored = y.favored /\ x.was_fuzzed = y.was_fuzzed
                   /\ x.disabled = y.disabled /\ x.fs_redundant = y.fs_redundant
                   /\ x.spared = y.spared

PutEntry(s, e, y) == [s EXCEPT !.q[e] = y]

AddEntry(s, y) == [s EXCEPT !.q = Append(@, y)]

\* The tables are a record.
LEMMA TableRecord ==
    ASSUME NEW m, NEW s \in TableSet(m)
    PROVE  s = [q |-> s.q, top |-> s.top, chg |-> s.chg, schedule |-> s.schedule]
BY DEF TableSet

\* After contests the tables still fit.
LEMMA KeptFits ==
    ASSUME NEW m \in Nat, NEW r, NEW s, Fits(m, s, r), NEW E, NEW own \in BOOLEAN,
           NEW t \in Kept(m, s, E, own)
    PROVE  /\ Fits(m, t, r) /\ (own => OwnMini(m, t))
           /\ \A k \in 1 .. m : Alike(s.q[k], t.q[k])
           /\ \A b \in Bits : /\ s.top[b] # 0 => t.top[b] # 0
                              /\ t.top[b] = s.top[b] \/ t.top[b] \in E
           /\ SeenWon(m, s, r) => SeenWon(m, t, r)
<1>1. t \in TableSet(m) /\ Sound(m, t) /\ Moved(m, s, t, E) /\ (own => OwnMini(m, t)) BY DEF Kept
<1>2. \A k \in 1 .. m : Alike(s.q[k], t.q[k]) /\ Surplus(t, k) = Surplus(s, k) BY <1>1 DEF Moved
<1>3. \A b \in Bits : /\ s.top[b] # 0 => t.top[b] # 0
                      /\ t.top[b] = s.top[b] \/ t.top[b] \in E
    BY <1>1 DEF Moved
<1>4. Fits(m, t, r) BY <1>1, <1>2 DEF Fits
<1>5. ASSUME SeenWon(m, s, r), NEW e \in 1 .. m, NEW b \in t.q[e].trace,
             t.q[e].exec_us > 0, r = 0
      PROVE  t.top[b] # 0
    <2>1. b \in s.q[e].trace /\ s.q[e].exec_us > 0 BY <1>2, <1>5 DEF Alike
    <2>2. b \in Bits BY <1>1, Constants DEF TableSet, LooseEntry
    <2>3. s.top[b] # 0 BY <1>5, <2>1 DEF SeenWon
    <2> QED BY <1>3, <2>2, <2>3
<1>6. SeenWon(m, s, r) => SeenWon(m, t, r) BY <1>5 DEF SeenWon
<1> QED BY <1>1, <1>2, <1>3, <1>4, <1>6

\* Contests won by calibrated entries keep the winners calibrated.
LEMMA KeptCalibrated ==
    ASSUME NEW m \in Nat, NEW s, NEW t, NEW E \in SUBSET (1 .. m), NEW sf \in 0 .. m,
           s \in TableSet(m), t \in TableSet(m), Calibrated(s, sf),
           \A k \in 1 .. m : Alike(s.q[k], t.q[k]),
           \A b \in Bits : t.top[b] = s.top[b] \/ t.top[b] \in E,
           \A e \in E : s.q[e].cal_failed = 0
    PROVE  Calibrated(t, sf)
<1>1. \A k \in 1 .. m : t.q[k].cal_failed = s.q[k].cal_failed BY DEF Alike
<1>2. s.top \in [Bits -> 0 .. m] /\ t.top \in [Bits -> 0 .. m] BY DEF TableSet
<1>3. ASSUME NEW b \in Bits, t.top[b] # 0 PROVE t.q[t.top[b]].cal_failed = 0
    <2>1. t.top[b] \in 1 .. m BY <1>2, <1>3
    <2>2. s.q[t.top[b]].cal_failed = 0
        <3>1. CASE t.top[b] = s.top[b] BY <1>3, <3>1 DEF Calibrated
        <3>2. CASE t.top[b] \in E BY <3>2
        <3> QED BY <3>1, <3>2
    <2> QED BY <1>1, <2>1, <2>2
<1>4. sf # 0 => t.q[sf].cal_failed = 0 BY <1>1 DEF Calibrated
<1> QED BY <1>3, <1>4 DEF Calibrated

\* Replacing one entry.
LEMMA PutFacts ==
    ASSUME NEW m \in Nat, NEW s \in TableSet(m), NEW e \in 1 .. m, NEW y \in LooseEntry
    PROVE  /\ PutEntry(s, e, y) \in TableSet(m)
           /\ PutEntry(s, e, y).q[e] = y
           /\ \A k \in 1 .. m : k # e => PutEntry(s, e, y).q[k] = s.q[k]
           /\ PutEntry(s, e, y).top = s.top /\ PutEntry(s, e, y).chg = s.chg
           /\ PutEntry(s, e, y).schedule = s.schedule
<1>1. /\ s.q \in [1 .. m -> LooseEntry] /\ s.top \in [Bits -> 0 .. m]
      /\ s.chg \in BOOLEAN /\ s.schedule \in DOMAIN NextSchedule
    BY DEF TableSet
<1>2. PutEntry(s, e, y) =
         [q |-> [s.q EXCEPT ![e] = y], top |-> s.top, chg |-> s.chg, schedule |-> s.schedule]
    <2>1. s = [q |-> s.q, top |-> s.top, chg |-> s.chg, schedule |-> s.schedule] BY TableRecord
    <2>2. PICK a, b, c, d : s = [q |-> a, top |-> b, chg |-> c, schedule |-> d] BY <2>1
    <2>3. PutEntry(s, e, y) = [q |-> [a EXCEPT ![e] = y], top |-> b, chg |-> c, schedule |-> d]
        BY <2>2 DEF PutEntry
    <2> QED BY <2>2, <2>3
<1>3. [s.q EXCEPT ![e] = y] \in [1 .. m -> LooseEntry] BY <1>1
<1> HIDE DEF PutEntry
<1>4. PutEntry(s, e, y) \in TableSet(m) BY <1>1, <1>2, <1>3 DEF TableSet
<1> QED BY <1>1, <1>2, <1>4

\* The references and the trace of an entry are left alone.
LEMMA PutFits ==
    ASSUME NEW m \in Nat, NEW r, NEW s, Fits(m, s, r), NEW e \in 1 .. m, NEW y \in LooseEntry,
           y.trace = s.q[e].trace, y.tc_ref = s.q[e].tc_ref, y.trace_mini = s.q[e].trace_mini
    PROVE  /\ Fits(m, PutEntry(s, e, y), r)
           /\ OwnMini(m, s) => OwnMini(m, PutEntry(s, e, y))
<1>1. s \in TableSet(m) /\ Sound(m, s) BY DEF Fits
<1>2. PICK t : t = PutEntry(s, e, y) OBVIOUS
<1>3. /\ t \in TableSet(m) /\ t.q[e] = y /\ \A k \in 1 .. m : k # e => t.q[k] = s.q[k]
      /\ t.top = s.top
    BY <1>1, <1>2, PutFacts
<1>4. \A k \in 1 .. m : /\ t.q[k].trace = s.q[k].trace /\ t.q[k].tc_ref = s.q[k].tc_ref
                        /\ t.q[k].trace_mini = s.q[k].trace_mini
    BY <1>3
<1>5. \A k \in 1 .. m : Surplus(t, k) = Surplus(s, k) BY <1>3, <1>4 DEF Surplus
<1>6. Sound(m, t)
    <2>1. \A b \in Bits : t.top[b] # 0 => t.top[b] \in 1 .. m BY <1>3 DEF TableSet
    <2> QED BY <1>1, <1>3, <1>4, <2>1 DEF Sound
<1>7. OwnMini(m, s) => OwnMini(m, t) BY <1>4 DEF OwnMini
<1> QED BY <1>2, <1>3, <1>5, <1>6, <1>7 DEF Fits

\* A new entry, without references, at the end.
LEMMA AddFacts ==
    ASSUME NEW m \in Nat, NEW r \in Nat, NEW s, Fits(m, s, r), NEW y \in LooseEntry,
           y.tc_ref = 0, y.trace_mini = {}, NEW sf \in 0 .. m
    PROVE  /\ Fits(m + 1, AddEntry(s, y), r)
           /\ AddEntry(s, y).q = Append(s.q, y) /\ AddEntry(s, y).top = s.top
           /\ AddEntry(s, y).q[m + 1] = y
           /\ \A k \in 1 .. m : AddEntry(s, y).q[k] = s.q[k]
           /\ OwnMini(m, s) => OwnMini(m + 1, AddEntry(s, y))
           /\ Calibrated(s, sf) => Calibrated(AddEntry(s, y), sf)
           /\ SeenWon(m, s, r) /\ y.exec_us = 0 => SeenWon(m + 1, AddEntry(s, y), r)
<1>1. /\ s \in TableSet(m) /\ Sound(m, s)
      /\ s.q \in [1 .. m -> LooseEntry] /\ s.top \in [Bits -> 0 .. m]
      /\ s.chg \in BOOLEAN /\ s.schedule \in DOMAIN NextSchedule
    BY DEF Fits, TableSet
<1> DEFINE p == Append(s.q, y)
<1>2. /\ p \in [1 .. m + 1 -> LooseEntry] /\ p[m + 1] = y
      /\ \A k \in 1 .. m : p[k] = s.q[k]
    <2>1. s.q \in Seq(LooseEntry) /\ Len(s.q) = m BY <1>1, SeqDef
    <2>2. PICK z : z = s.q OBVIOUS
    <2>3. z \in Seq(LooseEntry) /\ Len(z) = m BY <2>1, <2>2
    <2>4. /\ Append(z, y) \in Seq(LooseEntry) /\ Len(Append(z, y)) = m + 1
          /\ Append(z, y)[m + 1] = y /\ \A k \in 1 .. m : Append(z, y)[k] = z[k]
        BY <2>3, AppendProperties
    <2>5. PICK a \in Seq(LooseEntry) : a = Append(z, y) BY <2>4
    <2>6. Len(a) = m + 1 BY <2>4, <2>5
    <2>7. a \in [1 .. m + 1 -> LooseEntry] BY <2>6
    <2> QED BY <2>2, <2>4, <2>5, <2>7
<1> HIDE DEF p
<1>3. AddEntry(s, y) = [q |-> p, top |-> s.top, chg |-> s.chg, schedule |-> s.schedule]
    <2>1. s = [q |-> s.q, top |-> s.top, chg |-> s.chg, schedule |-> s.schedule]
        BY <1>1, TableRecord
    <2>2. PICK a, b, c, d : s = [q |-> a, top |-> b, chg |-> c, schedule |-> d] BY <2>1
    <2>3. AddEntry(s, y) = [q |-> Append(a, y), top |-> b, chg |-> c, schedule |-> d]
        BY <2>2, SMTT(30) DEF AddEntry
    <2> QED BY <2>2, <2>3 DEF p
<1>4. PICK t : t = AddEntry(s, y) OBVIOUS
<1>5. t.q = p /\ t.top = s.top /\ t.chg = s.chg /\ t.schedule = s.schedule BY <1>3, <1>4
<1>6. t \in TableSet(m + 1)
    <2>1. s.top \in [Bits -> 0 .. m + 1] BY <1>1
    <2> QED BY <1>1, <1>2, <1>3, <1>4, <2>1 DEF TableSet
<1>7. Won(t.top, m + 1) = {} /\ Cardinality(Won(t.top, m + 1)) = 0
    <2>1. Won(t.top, m + 1) = {} BY <1>1, <1>5 DEF Won
    <2> QED BY <2>1, FS_EmptySet
<1>8. \A k \in 1 .. m + 1 : k \in 1 .. m \/ k = m + 1 OBVIOUS
<1>9. Sound(m + 1, t)
    <2>1. ASSUME NEW k \in 1 .. m + 1
          PROVE  /\ Cardinality(Won(t.top, k)) <= t.q[k].tc_ref
                 /\ t.q[k].trace_mini # {} => t.q[k].tc_ref > 0
        <3>1. CASE k \in 1 .. m BY <1>1, <1>2, <1>5, <3>1 DEF Sound
        <3>2. CASE k = m + 1 BY <1>2, <1>5, <1>7, <3>2
        <3> QED BY <1>8, <3>1, <3>2
    <2>2. ASSUME NEW b \in Bits, t.top[b] # 0 PROVE b \in t.q[t.top[b]].trace
        <3>1. t.top[b] \in 1 .. m BY <1>1, <1>5, <2>2
        <3> QED BY <1>1, <1>2, <1>5, <2>2, <3>1 DEF Sound
    <2> QED BY <2>1, <2>2 DEF Sound
<1>10. Fits(m + 1, t, r)
    <2>1. ASSUME NEW k \in 1 .. m + 1 PROVE Surplus(t, k) <= NumBits * r
        <3>1. CASE k \in 1 .. m
            <4>1. Surplus(t, k) = Surplus(s, k) BY <1>2, <1>5, <3>1 DEF Surplus
            <4> QED BY <3>1, <4>1 DEF Fits
        <3>2. CASE k = m + 1
            <4>1. Surplus(t, k) = 0 BY <1>2, <1>5, <1>7, <3>2 DEF Surplus
            <4>2. NumBits * r \in Nat BY Constants
            <4>3. PICK z \in Nat : z = NumBits * r BY <4>2
            <4> QED BY <4>1, <4>3
        <3> QED BY <1>8, <3>1, <3>2
    <2> QED BY <1>6, <1>9, <2>1 DEF Fits
<1>11. OwnMini(m, s) => OwnMini(m + 1, t) BY <1>2, <1>5, <1>8 DEF OwnMini
<1>12. Calibrated(s, sf) => Calibrated(t, sf)
    <2>1. \A b \in Bits : t.top[b] # 0 => t.top[b] \in 1 .. m BY <1>1, <1>5
    <2>2. sf # 0 => sf \in 1 .. m OBVIOUS
    <2> QED BY <1>2, <1>5, <2>1, <2>2 DEF Calibrated
<1>13. SeenWon(m, s, r) /\ y.exec_us = 0 => SeenWon(m + 1, t, r)
    <2>1. ~(0 > 0) OBVIOUS
    <2> QED BY <1>2, <1>5, <1>8, <2>1 DEF SeenWon
<1> QED BY <1>2, <1>4, <1>5, <1>10, <1>11, <1>12, <1>13 DEF p

(***************************************************************************)
(* The flags and the counters, as entries come and are fuzzed.             *)
(***************************************************************************)
LEMMA FlagsSame ==
    ASSUME NEW q, NEW p, Len(q) = Len(p), \A e \in 1 .. Len(q) : SameFlags(q[e], p[e]),
           NEW qf, NEW pf, NEW sf, NEW pn, NEW ai, NEW r, FlagsHold(q, qf, pf, sf, pn, ai, r)
    PROVE  FlagsHold(p, qf, pf, sf, pn, ai, r)
<1>1. /\ Favs(q) = Favs(p) /\ Pending(q) = Pending(p) /\ Unfuzzed(q) = Unfuzzed(p)
      /\ Due(q) = Due(p)
    BY DEF Favs, Pending, Unfuzzed, Due, SameFlags
<1>2. InCount(q, r) = InCount(p, r) /\ Active(q, r) = Active(p, r)
    <2>1. \A e \in 1 .. Len(q) : CountedAt(q[e], r) <=> CountedAt(p[e], r) BY DEF CountedAt, SameFlags
    <2>2. \A e \in 1 .. Len(q) : q[e].disabled = p[e].disabled BY DEF SameFlags
    <2> QED BY <2>1, <2>2 DEF InCount, Active
<1>3. \A e \in 1 .. Len(p) : (p[e].favored => ~p[e].disabled) /\ Settled(p[e])
    BY DEF FlagsHold, SameFlags, Settled
<1> QED BY <1>1, <1>2, <1>3 DEF FlagsHold

\* An entry comes that is enabled and has not been fuzzed.
LEMMA FlagsNew ==
    ASSUME NEW q, NEW p, NEW n \in Nat, Len(q) = n, Len(p) = n + 1,
           \A e \in 1 .. n : SameFlags(q[e], p[e]),
           ~p[n + 1].favored, ~p[n + 1].was_fuzzed, ~p[n + 1].disabled, ~p[n + 1].spared,
           NEW qf, NEW pf, NEW sf, NEW pn, NEW ai, NEW r, FlagsHold(q, qf, pf, sf, pn, ai, r)
    PROVE  FlagsHold(p, qf, pf, sf, pn + 1, ai + 1, r)
<1>1. \A e \in 1 .. n + 1 : e \in 1 .. n \/ e = n + 1 OBVIOUS
<1>2. n + 1 \in 1 .. n + 1 /\ n + 1 \notin 1 .. n /\ \A e \in 1 .. n : e \in 1 .. n + 1 OBVIOUS
<1>3. Favs(p) = Favs(q) /\ Pending(p) = Pending(q)
    BY <1>1, <1>2 DEF Favs, Pending, SameFlags
<1>4. /\ Unfuzzed(p) = Unfuzzed(q) \cup {n + 1} /\ Due(p) = Due(q) \cup {n + 1}
      /\ Active(p, r) = Active(q, r) \cup {n + 1} /\ InCount(p, r) = InCount(q, r) \cup {n + 1}
    <2>1. Unfuzzed(p) = Unfuzzed(q) \cup {n + 1} /\ Due(p) = Due(q) \cup {n + 1}
        BY <1>1, <1>2 DEF Unfuzzed, Due, SameFlags
    <2>2. /\ \A e \in 1 .. n : /\ CountedAt(q[e], r) <=> CountedAt(p[e], r)
                               /\ q[e].disabled = p[e].disabled
          /\ CountedAt(p[n + 1], r)
        BY DEF CountedAt, SameFlags
    <2> QED BY <1>1, <1>2, <2>1, <2>2 DEF Active, InCount
<1>5. \A T \in {Unfuzzed(q), Due(q), Active(q, r), InCount(q, r)} :
         IsFiniteSet(T) /\ n + 1 \notin T /\ Cardinality(T) \in Nat
    BY <1>2, SetsFinite
<1>6. /\ Cardinality(Unfuzzed(p)) = Cardinality(Unfuzzed(q)) + 1
      /\ Cardinality(Due(p)) = Cardinality(Due(q)) + 1
      /\ Cardinality(Active(p, r)) = Cardinality(Active(q, r)) + 1
      /\ Cardinality(InCount(p, r)) = Cardinality(InCount(q, r)) + 1
    <2>1. \A T : IsFiniteSet(T) /\ n + 1 \notin T => Cardinality(T \cup {n + 1}) = Cardinality(T) + 1
        BY FS_AddElement
    <2> QED BY <1>4, <1>5, <2>1
<1>7. /\ pn + 1 \in Int /\ Cardinality(Due(p)) <= pn + 1 /\ pn + 1 <= Cardinality(Unfuzzed(p))
      /\ ai + 1 \in Int /\ Cardinality(Active(p, r)) <= ai + 1 /\ ai + 1 <= Len(p)
      /\ Exact(r) => pn + 1 = Cardinality(Unfuzzed(p)) /\ ai + 1 = Cardinality(InCount(p, r))
    <2>1. /\ pn \in Int /\ Cardinality(Due(q)) <= pn /\ pn <= Cardinality(Unfuzzed(q))
          /\ ai \in Int /\ Cardinality(Active(q, r)) <= ai /\ ai <= n
          /\ Exact(r) => pn = Cardinality(Unfuzzed(q)) /\ ai = Cardinality(InCount(q, r))
        BY DEF FlagsHold
    <2> QED BY <1>5, <1>6, <2>1, SMTT(30)
<1>8. \A e \in 1 .. Len(p) : (p[e].favored => ~p[e].disabled) /\ Settled(p[e])
    BY <1>1 DEF FlagsHold, SameFlags, Settled
<1> QED BY <1>3, <1>7, <1>8 DEF FlagsHold

\* An entry comes that counts as fuzzed and is not counted, being disabled or spared.
LEMMA FlagsBad ==
    ASSUME NEW q, NEW p, NEW n \in Nat, Len(q) = n, Len(p) = n + 1,
           \A e \in 1 .. n : SameFlags(q[e], p[e]), NEW r,
           ~p[n + 1].favored, p[n + 1].was_fuzzed, ~p[n + 1].fs_redundant,
           ~CountedAt(p[n + 1], r),
           NEW qf, NEW pf, NEW sf, NEW pn, NEW ai, FlagsHold(q, qf, pf, sf, pn, ai, r)
    PROVE  FlagsHold(p, qf, pf, sf, pn, ai, r)
<1>1. \A e \in 1 .. n + 1 : e \in 1 .. n \/ e = n + 1 OBVIOUS
<1>2. \A e \in 1 .. n : e \in 1 .. n + 1 OBVIOUS
<1>3. /\ Favs(p) = Favs(q) /\ Pending(p) = Pending(q) /\ Unfuzzed(p) = Unfuzzed(q)
      /\ Due(p) = Due(q)
    BY <1>1, <1>2 DEF Favs, Pending, Unfuzzed, Due, SameFlags
<1>4. Active(p, r) = Active(q, r) /\ InCount(p, r) = InCount(q, r)
    <2>1. \A e \in 1 .. n : /\ CountedAt(q[e], r) <=> CountedAt(p[e], r)
                            /\ q[e].disabled = p[e].disabled
        BY DEF CountedAt, SameFlags
    <2> QED BY <1>1, <1>2, <2>1 DEF Active, InCount
<1>5. \A e \in 1 .. Len(p) : (p[e].favored => ~p[e].disabled) /\ Settled(p[e])
    BY <1>1 DEF FlagsHold, SameFlags, Settled
<1>6. ai <= Len(p) BY DEF FlagsHold
<1> QED BY <1>3, <1>4, <1>5, <1>6 DEF FlagsHold

\* Entry e, enabled, is fuzzed for the first time.
LEMMA FlagsFuzzed ==
    ASSUME NEW q, NEW p, NEW n \in Nat, Len(q) = n, Len(p) = n, NEW e \in 1 .. n,
           \A k \in 1 .. n : k # e => SameFlags(q[k], p[k]),
           ~q[e].was_fuzzed, ~q[e].disabled, p[e].was_fuzzed, ~p[e].disabled,
           p[e].favored = q[e].favored, q[e].favored \in BOOLEAN,
           p[e].fs_redundant = q[e].fs_redundant, p[e].spared = q[e].spared,
           NEW qf, NEW pf, NEW sf, NEW pn, NEW ai, NEW r, FlagsHold(q, qf, pf, sf, pn, ai, r)
    PROVE  FlagsHold(p, qf, pf - (IF q[e].favored THEN 1 ELSE 0),
                     IF q[e].favored THEN 0 ELSE sf, pn - 1, ai, r)
<1>1. /\ Favs(p) = Favs(q) /\ Active(p, r) = Active(q, r) /\ InCount(p, r) = InCount(q, r)
    <2>1. \A k \in 1 .. n : /\ CountedAt(q[k], r) <=> CountedAt(p[k], r)
                            /\ q[k].disabled <=> p[k].disabled
        BY DEF CountedAt, SameFlags
    <2>2. Favs(p) = Favs(q) BY DEF Favs, SameFlags
    <2>3. InCount(p, r) = InCount(q, r) BY <2>1 DEF InCount
    <2>4. Active(p, r) = Active(q, r) BY <2>1 DEF Active
    <2> QED BY <2>2, <2>3, <2>4
<1>2. Unfuzzed(p) = Unfuzzed(q) \ {e} /\ Due(p) = Due(q) \ {e}
    BY DEF Unfuzzed, Due, SameFlags
<1>3. e \in Unfuzzed(q) /\ e \in Due(q) BY DEF Unfuzzed, Due
<1>4. \A T \in {Unfuzzed(q), Due(q), Pending(q)} : IsFiniteSet(T) /\ Cardinality(T) \in Nat
    BY SetsFinite
<1>5. /\ Cardinality(Unfuzzed(p)) = Cardinality(Unfuzzed(q)) - 1
      /\ Cardinality(Due(p)) = Cardinality(Due(q)) - 1
    <2>1. IsFiniteSet(Unfuzzed(q)) /\ IsFiniteSet(Due(q)) BY <1>4
    <2>2. Cardinality(Unfuzzed(q) \ {e}) = Cardinality(Unfuzzed(q)) - 1
        BY <1>3, <2>1, FS_RemoveElement
    <2>3. Cardinality(Due(q) \ {e}) = Cardinality(Due(q)) - 1
        BY <1>3, <2>1, FS_RemoveElement
    <2> QED BY <1>2, <2>2, <2>3
<1>6. /\ pn - 1 \in Int /\ Cardinality(Due(p)) <= pn - 1 /\ pn - 1 <= Cardinality(Unfuzzed(p))
      /\ Exact(r) => pn - 1 = Cardinality(Unfuzzed(p))
    <2>1. /\ pn \in Int /\ Cardinality(Due(q)) <= pn /\ pn <= Cardinality(Unfuzzed(q))
          /\ Exact(r) => pn = Cardinality(Unfuzzed(q))
        BY DEF FlagsHold
    <2> QED BY <1>4, <1>5, <2>1
<1>7. \A k \in 1 .. Len(p) : (p[k].favored => ~p[k].disabled) /\ Settled(p[k])
    BY DEF FlagsHold, SameFlags, Settled
<1>8. CASE q[e].favored
    <2>1. Pending(p) = Pending(q) \ {e} /\ e \in Pending(q) BY <1>8 DEF Pending, SameFlags
    <2>2. Cardinality(Pending(p)) = Cardinality(Pending(q)) - 1
        BY <1>4, <2>1, FS_RemoveElement
    <2>3. FlagsHold(p, qf, pf - 1, 0, pn - 1, ai, r) BY <1>1, <1>6, <1>7, <2>2 DEF FlagsHold
    <2> QED BY <1>8, <2>3
<1>9. CASE ~q[e].favored
    <2>1. Pending(p) = Pending(q) BY <1>9 DEF Pending, SameFlags
    <2>2. pf \in Nat BY <1>4 DEF FlagsHold
    <2>3. FlagsHold(p, qf, pf, sf, pn - 1, ai, r) BY <1>1, <1>6, <1>7, <2>1 DEF FlagsHold
    <2>4. pf - 0 = pf BY <2>2
    <2> QED BY <1>9, <2>3, <2>4
<1> QED BY <1>8, <1>9

(***************************************************************************)
(* Calibration.                                                            *)
(***************************************************************************)
Calibration(y, c, x) == [y EXCEPT !.cal_failed = c, !.exec_us = x]

\* What calibration changes in an entry.
LEMMA CalibrationFacts ==
    ASSUME NEW y \in LooseEntry, NEW c \in 0 .. CAL_CHANCES, NEW x \in Times \cup {0},
           NEW z, z = Calibration(y, c, x)
    PROVE  /\ z \in LooseEntry /\ z.cal_failed = c /\ z.exec_us = x
           /\ z.trace = y.trace /\ z.tc_ref = y.tc_ref /\ z.trace_mini = y.trace_mini
           /\ SameFlags(y, z) /\ z.fuzz_level = y.fuzz_level
BY DEF LooseEntry, Calibration, SameFlags

\* calibrate_case when the target fails.
LEMMA CalibrateFails ==
    ASSUME NEW m \in Nat, NEW s \in TableSet(m), NEW e \in 1 .. m, NEW x
    PROVE  calibrate_case(s, e, FALSE, x) =
               PutEntry(s, e, Calibration(s.q[e], s.q[e].cal_failed + 1, s.q[e].exec_us))
<1>1. s.q[e] \in LooseEntry /\ s.q \in [1 .. m -> LooseEntry] BY DEF TableSet
<1>2. [s.q[e] EXCEPT !.cal_failed = @ + 1] =
         Calibration(s.q[e], s.q[e].cal_failed + 1, s.q[e].exec_us)
    BY <1>1 DEF LooseEntry, Calibration
<1>3. calibrate_case(s, e, FALSE, x) = PutEntry(s, e, [s.q[e] EXCEPT !.cal_failed = @ + 1])
    BY DEF calibrate_case, PutEntry
<1> QED BY <1>2, <1>3

\* calibrate_case when it does not: the entry contends for its bits.
LEMMA CalibrateGoesWell ==
    ASSUME NEW m \in Nat, NEW s \in TableSet(m), NEW e \in 1 .. m, NEW x
    PROVE  calibrate_case(s, e, TRUE, x) =
               update_bitmap_score(PutEntry(s, e, Calibration(s.q[e], 0, x)), e)
BY DEF calibrate_case, PutEntry, Calibration

\* calibrate_case as a whole.
LEMMA CalibrateKeeps ==
    ASSUME NEW m \in Nat, NEW r \in Nat, NEW s, Fits(m, s, r), SeenWon(m, s, r),
           NEW e \in 1 .. m, ~s.q[e].disabled, s.q[e].cal_failed < CAL_CHANCES,
           NEW ok \in BOOLEAN, NEW x \in Times, NEW sf \in 0 .. m
    PROVE  LET t == calibrate_case(s, e, ok, x)
           IN  /\ Fits(m, t, r) /\ SeenWon(m, t, r)
               /\ \A k \in 1 .. m : /\ SameFlags(s.q[k], t.q[k])
                                    /\ t.q[k].fuzz_level = s.q[k].fuzz_level
                                    /\ k # e => t.q[k].cal_failed = s.q[k].cal_failed
               /\ t.q[e].cal_failed = IF ok THEN 0 ELSE s.q[e].cal_failed + 1
               /\ OwnMini(m, s) => OwnMini(m, t)
               /\ Calibrated(s, sf) /\ (ok \/ (sf # e /\ \A b \in Bits : s.top[b] # e))
                     => Calibrated(t, sf)
<1>1. s \in TableSet(m) /\ s.q[e] \in LooseEntry /\ s.top \in [Bits -> 0 .. m] BY DEF Fits, TableSet
<1>2. s.q[e].cal_failed \in 0 .. CAL_CHANCES /\ s.q[e].exec_us \in Times \cup {0}
    BY <1>1 DEF LooseEntry
<1>3. PICK t : t = calibrate_case(s, e, ok, x) OBVIOUS
<1>4. CASE ~ok
    <2>1. s.q[e].cal_failed + 1 \in 0 .. CAL_CHANCES BY <1>2 DEF CAL_CHANCES
    <2>2. PICK y : y = Calibration(s.q[e], s.q[e].cal_failed + 1, s.q[e].exec_us) OBVIOUS
    <2>3. t = PutEntry(s, e, y) BY <1>1, <1>3, <1>4, <2>2, CalibrateFails
    <2>4. /\ y \in LooseEntry /\ y.cal_failed = s.q[e].cal_failed + 1 /\ y.exec_us = s.q[e].exec_us
          /\ y.trace = s.q[e].trace /\ y.tc_ref = s.q[e].tc_ref
          /\ y.trace_mini = s.q[e].trace_mini
          /\ SameFlags(s.q[e], y) /\ y.fuzz_level = s.q[e].fuzz_level
        <3>1. PICK c \in 0 .. CAL_CHANCES : c = s.q[e].cal_failed + 1 BY <2>1
        <3>2. y = Calibration(s.q[e], c, s.q[e].exec_us) BY <2>2, <3>1
        <3>3. s.q[e] \in LooseEntry /\ s.q[e].exec_us \in Times \cup {0} BY <1>1, <1>2 DEF LooseEntry
        <3> QED BY <3>1, <3>2, <3>3, CalibrationFacts
    <2>5. /\ t.q[e] = y /\ \A k \in 1 .. m : k # e => t.q[k] = s.q[k]
          /\ t.top = s.top
        BY <1>1, <2>3, <2>4, PutFacts
    <2>6. Fits(m, t, r) /\ (OwnMini(m, s) => OwnMini(m, t)) BY <2>3, <2>4, PutFits
    <2>7. SeenWon(m, t, r) BY <2>4, <2>5 DEF SeenWon
    <2>8. \A k \in 1 .. m : /\ SameFlags(s.q[k], t.q[k])
                            /\ t.q[k].fuzz_level = s.q[k].fuzz_level
                            /\ k # e => t.q[k].cal_failed = s.q[k].cal_failed
        BY <2>4, <2>5 DEF SameFlags
    <2>9. ASSUME Calibrated(s, sf), sf # e, \A b \in Bits : s.top[b] # e
          PROVE  Calibrated(t, sf)
        <3>1. \A b \in Bits : t.top[b] # 0 => t.top[b] \in 1 .. m /\ t.top[b] # e
            BY <1>1, <2>5, <2>9
        <3>2. sf # 0 => sf \in 1 .. m OBVIOUS
        <3> QED BY <2>5, <2>8, <2>9, <3>1, <3>2 DEF Calibrated
    <2> QED BY <1>3, <1>4, <2>4, <2>5, <2>6, <2>7, <2>8, <2>9
<1>5. CASE ok
    <2>1. PICK y : y = Calibration(s.q[e], 0, x) OBVIOUS
    <2>2. /\ y \in LooseEntry /\ y.cal_failed = 0 /\ y.exec_us = x
          /\ y.trace = s.q[e].trace /\ y.tc_ref = s.q[e].tc_ref
          /\ y.trace_mini = s.q[e].trace_mini
          /\ SameFlags(s.q[e], y) /\ y.fuzz_level = s.q[e].fuzz_level
        <3>1. 0 \in 0 .. CAL_CHANCES BY DEF CAL_CHANCES
        <3> QED BY <1>1, <2>1, <3>1, CalibrationFacts
    <2>3. PICK u : u = PutEntry(s, e, y) OBVIOUS
    <2>4. /\ u.q[e] = y /\ \A k \in 1 .. m : k # e => u.q[k] = s.q[k]
          /\ u.top = s.top
        BY <1>1, <2>2, <2>3, PutFacts
    <2>5. Fits(m, u, r) /\ (OwnMini(m, s) => OwnMini(m, u)) BY <2>2, <2>3, PutFits
    <2>6. u \in TableSet(m) /\ Sound(m, u) BY <2>5 DEF Fits
    <2>7. t = update_bitmap_score(u, e) BY <1>1, <1>3, <1>5, <2>1, <2>3, CalibrateGoesWell
    <2>8. PICK own \in BOOLEAN : own <=> OwnMini(m, u) OBVIOUS
    <2>9. /\ t \in Kept(m, u, {e}, own)
          /\ \A b \in u.q[e].trace : t.top[b] # 0
        <3>1. ~u.q[e].disabled BY <2>2, <2>4 DEF SameFlags
        <3> QED BY <2>6, <2>7, <2>8, <3>1, ScoreKeeps
    <2>10. /\ Fits(m, t, r) /\ (own => OwnMini(m, t))
           /\ \A k \in 1 .. m : Alike(u.q[k], t.q[k])
           /\ \A b \in Bits : /\ u.top[b] # 0 => t.top[b] # 0
                              /\ t.top[b] = u.top[b] \/ t.top[b] \in {e}
        BY <2>5, <2>9, KeptFits
    <2>11. SeenWon(m, t, r)
        <3> SUFFICES ASSUME NEW k \in 1 .. m, NEW b \in t.q[k].trace, t.q[k].exec_us > 0, r = 0
                     PROVE  t.top[b] # 0
            BY DEF SeenWon
        <3>1. b \in u.q[k].trace /\ u.q[k].exec_us > 0 BY <2>10 DEF Alike
        <3>2. b \in Bits BY <2>6, <3>1, Constants DEF TableSet, LooseEntry
        <3>3. CASE k = e BY <2>9, <3>1, <3>3
        <3>4. CASE k # e
            <4>1. s.top[b] # 0 BY <2>4, <3>1, <3>4 DEF SeenWon
            <4> QED BY <2>4, <2>10, <3>2, <4>1
        <3> QED BY <3>3, <3>4
    <2>12. ASSUME NEW k \in 1 .. m
           PROVE  /\ SameFlags(s.q[k], t.q[k])
                  /\ t.q[k].fuzz_level = s.q[k].fuzz_level
                  /\ k # e => t.q[k].cal_failed = s.q[k].cal_failed
        <3>1. SameFlags(s.q[k], u.q[k]) /\ u.q[k].fuzz_level = s.q[k].fuzz_level
            BY <2>2, <2>4 DEF SameFlags
        <3>2. /\ SameFlags(u.q[k], t.q[k]) /\ u.q[k].fuzz_level = t.q[k].fuzz_level
              /\ u.q[k].cal_failed = t.q[k].cal_failed
            BY <2>10 DEF SameFlags, Alike
        <3> QED BY <2>4, <3>1, <3>2 DEF SameFlags
    <2>13. t.q[e].cal_failed = 0 BY <2>2, <2>4, <2>10 DEF Alike
    <2>14. ASSUME Calibrated(s, sf) PROVE Calibrated(t, sf)
        <3>1. Calibrated(u, sf)
            <4>1. \A b \in Bits : u.top[b] # 0 => u.top[b] \in 1 .. m BY <1>1, <2>4
            <4>2. sf # 0 => sf \in 1 .. m OBVIOUS
            <4> QED BY <2>2, <2>4, <2>14, <4>1, <4>2 DEF Calibrated
        <3>2. {e} \in SUBSET (1 .. m) /\ \A k \in {e} : u.q[k].cal_failed = 0 BY <2>2, <2>4
        <3>3. t \in TableSet(m) BY <2>10 DEF Fits
        <3>4. PICK E \in SUBSET (1 .. m) : E = {e} BY <3>2
        <3>5. /\ \A b \in Bits : t.top[b] = u.top[b] \/ t.top[b] \in E
              /\ \A k \in E : u.q[k].cal_failed = 0
              /\ \A k \in 1 .. m : Alike(u.q[k], t.q[k])
            BY <2>10, <3>2, <3>4
        <3> QED BY ONLY m \in Nat, sf \in 0 .. m, E \in SUBSET (1 .. m), <2>6, <3>1, <3>3, <3>5,
                        KeptCalibrated
    <2>15. OwnMini(m, s) => OwnMini(m, t) BY <2>5, <2>8, <2>10
    <2> QED BY <1>3, <1>5, <2>10, <2>11, <2>12, <2>13, <2>14, <2>15
<1> QED BY <1>4, <1>5

(***************************************************************************)
(* The actions.                                                            *)
(***************************************************************************)
LEMMA StoreTables ==
    ASSUME NEW m \in Nat, NEW t \in TableSet(m), Store(t)
    PROVE  /\ Tables' = t /\ queue_buf' = t.q /\ top_rated' = t.top /\ Len(queue_buf') = m
<1>1. t = [q |-> t.q, top |-> t.top, chg |-> t.chg, schedule |-> t.schedule] BY TableRecord
<1>2. Tables' = t BY <1>1 DEF Store, Tables
<1>3. t.q \in [1 .. m -> LooseEntry] BY DEF TableSet
<1>4. Len(t.q) = m BY <1>3
<1> QED BY <1>2, <1>4 DEF Store

\* The fields of the current tables.
LEMMA TablesFields == Tables.q = queue_buf /\ Tables.top = top_rated /\ Tables.schedule = schedule
BY DEF Tables

\* The invariant holds when afl-fuzz starts.
LEMMA InitForm == Init => Form
<1> SUFFICES ASSUME Init PROVE Form OBVIOUS
<1> USE Constants
<1>1. /\ queue_buf = <<>> /\ Len(queue_buf) = 0 /\ 1 .. 0 = {} /\ 0 \in Nat BY DEF Init
<1>2. Tables \in TableSet(0)
    <2>1. queue_buf \in [1 .. 0 -> LooseEntry] BY <1>1
    <2>2. top_rated \in [Bits -> 0 .. 0] /\ score_changed \in BOOLEAN
        <3>1. top_rated = [b \in Bits |-> 0] /\ score_changed = FALSE BY DEF Init
        <3>2. 0 \in 0 .. 0 OBVIOUS
        <3> QED BY ONLY <3>1, <3>2
    <2>3. schedule \in DOMAIN NextSchedule
        <3>1. schedule = "EXPLORE" BY DEF Init
        <3> QED BY <3>1 DEF NextSchedule
    <2> QED BY <2>1, <2>2, <2>3 DEF Tables, TableSet
<1>3. Fits(0, Tables, restarts)
    <2>1. \A b \in Bits : Tables.top[b] = 0 BY TablesFields DEF Init
    <2> QED BY <1>1, <1>2, <2>1 DEF Fits, Sound
<1>4. SeenWon(0, Tables, restarts) /\ OwnMini(0, Tables) /\ Calibrated(Tables, smallest_favored)
    BY <1>1, TablesFields DEF SeenWon, OwnMini, Calibrated, Init
<1>5. FlagsHold(queue_buf, queued_favored, pending_favored, smallest_favored,
                pending_not_fuzzed, active_items, restarts)
    <2>1. /\ Favs(queue_buf) = {} /\ Pending(queue_buf) = {} /\ Unfuzzed(queue_buf) = {}
          /\ Due(queue_buf) = {} /\ Active(queue_buf, restarts) = {}
          /\ InCount(queue_buf, restarts) = {}
        BY <1>1 DEF Favs, Pending, Unfuzzed, Due, Active, InCount
    <2>2. Cardinality({}) = 0 BY FS_EmptySet
    <2>3. /\ queued_favored = 0 /\ pending_favored = 0 /\ smallest_favored = 0
          /\ pending_not_fuzzed = 0 /\ active_items = 0
        BY DEF Init
    <2>4. \A e \in 1 .. Len(queue_buf) : FALSE BY <1>1
    <2>5. 0 \in Int /\ 0 <= 0 OBVIOUS
    <2> QED BY <1>1, <2>1, <2>2, <2>3, <2>4, <2>5 DEF FlagsHold
<1>6. InDryRun /\ AtWork BY <1>1 DEF InDryRun, AtWork, Init, Ids
<1> QED BY <1>1, <1>3, <1>4, <1>5, <1>6 DEF Form, Init, Phases

\* The queue and the counters are left alone.
LEMMA QuietKeeps ==
    ASSUME Form, phase' \in Phases, queue_cur' \in 0 .. Len(queue_buf),
           UNCHANGED <<queue_buf, top_rated, score_changed, counters, last_scored_idx,
                       schedule, restarts>>,
           InDryRun', AtWork'
    PROVE  Form'
<1>1. Tables' = Tables BY DEF Tables
<1> QED BY <1>1 DEF Form, counters

\* One lemma for each action from here on.
LEMMA StutterKeeps == ASSUME Form, UNCHANGED vars PROVE Form'
<1>1. InDryRun' /\ AtWork' BY DEF Form, InDryRun, AtWork, vars, counters, Ids
<1> QED BY <1>1, QuietKeeps DEF Form, vars

LEMMA GiveUpKeeps == ASSUME Form, GiveUp PROVE Form'
<1>1. phase' = "fatal" /\ InDryRun' /\ AtWork' BY DEF GiveUp, InDryRun, AtWork
<1> QED BY <1>1, QuietKeeps DEF Form, GiveUp, Phases

\* The main loop selects no disabled entry.
LEMMA SelectedEnabled ==
    ASSUME Form, NEW e \in Ids, MaySelect(e) PROVE ~queue_buf[e].disabled
<1>1. CASE pending_favored > 0 /\ smallest_favored # 0
    <2>1. e = smallest_favored BY <1>1 DEF MaySelect
    <2>2. e \in Pending(queue_buf) BY <1>1, <2>1 DEF Form, FlagsHold
    <2> QED BY <2>2 DEF Pending, Form, FlagsHold
<1>2. CASE ~(pending_favored > 0 /\ smallest_favored # 0) BY <1>2 DEF MaySelect
<1> QED BY <1>1, <1>2

LEMMA BeginKeeps == ASSUME Form, NEW e \in Ids, Begin(e) PROVE Form'
<1>1. /\ phase' = "trim" /\ queue_cur' = e /\ queue_buf' = queue_buf
      /\ queue_buf[e].cal_failed = 0 /\ queue_buf[e].fuzz_level < MaxLevel
    BY DEF Begin
<1>2. e \in 1 .. Len(queue_buf) /\ Len(queue_buf) \in Nat BY DEF Ids, Form
<1>3. InDryRun' /\ AtWork' BY <1>1, <1>2 DEF InDryRun, AtWork
<1> QED BY <1>1, <1>2, <1>3, QuietKeeps DEF Begin, Phases

\* An entry that was just added.
LEMMA NewEntryFacts ==
    ASSUME NEW t \in Traces, NEW l \in Lens, NEW y, y = NewEntry(t, l)
    PROVE  /\ y \in LooseEntry /\ y.tc_ref = 0 /\ y.trace_mini = {} /\ y.exec_us = 0
           /\ ~y.favored /\ ~y.was_fuzzed /\ ~y.disabled /\ y.cal_failed = 0
           /\ ~y.fs_redundant /\ ~y.spared
<1>1. 0 \in 0 .. CAL_CHANCES /\ 0 \in 0 .. MaxLevel BY Constants DEF CAL_CHANCES
<1> QED BY <1>1 DEF NewEntry, LooseEntry

\* add_to_queue and the calibration that follows.
LEMMA AddKeeps ==
    ASSUME Form, NEW t \in Traces, NEW l \in Lens, NEW ok \in BOOLEAN, NEW x \in Times,
           AddAndCalibrate(t, l, ok, x),
           UNCHANGED <<phase, queued_favored, pending_favored, smallest_favored,
                       queue_cur, last_scored_idx, restarts>>
    PROVE  Form'
<1>1. PICK m \in Nat : m = Len(queue_buf) BY DEF Form
<1>2. /\ Fits(m, Tables, restarts) /\ SeenWon(m, Tables, restarts)
      /\ FlagsHold(queue_buf, queued_favored, pending_favored, smallest_favored,
                   pending_not_fuzzed, active_items, restarts)
      /\ queue_cur \in 0 .. m /\ last_scored_idx \in 0 .. m /\ restarts \in 0 .. MaxRestarts
      /\ phase \in Phases /\ InDryRun /\ AtWork
      /\ ~CycleSchedules => OwnMini(m, Tables) /\ Calibrated(Tables, smallest_favored)
    BY <1>1 DEF Form
<1>3. smallest_favored \in 0 .. m
    <2>1. smallest_favored # 0 => smallest_favored \in 1 .. m BY <1>1, <1>2 DEF FlagsHold, Pending
    <2> QED BY <2>1
<1>4. restarts \in Nat /\ m + 1 \in Nat /\ m + 1 \in 1 .. m + 1 BY <1>2
<1>5. PICK y : y = NewEntry(t, l) OBVIOUS
<1>6. /\ y \in LooseEntry /\ y.tc_ref = 0 /\ y.trace_mini = {} /\ y.exec_us = 0
      /\ ~y.favored /\ ~y.was_fuzzed /\ ~y.disabled /\ y.cal_failed = 0
      /\ ~y.fs_redundant /\ ~y.spared
    BY <1>5, NewEntryFacts
<1>7. PICK s : s = AddEntry(Tables, y) OBVIOUS
<1>8. /\ Fits(m + 1, s, restarts) /\ s.top = top_rated /\ s.q[m + 1] = y
      /\ \A k \in 1 .. m : s.q[k] = queue_buf[k]
      /\ OwnMini(m, Tables) => OwnMini(m + 1, s)
      /\ Calibrated(Tables, smallest_favored) => Calibrated(s, smallest_favored)
      /\ SeenWon(m + 1, s, restarts)
    <2>1. PICK T : T = Tables /\ Fits(m, T, restarts) /\ SeenWon(m, T, restarts) BY <1>2
    <2>2. /\ Fits(m + 1, s, restarts) /\ s.top = T.top /\ s.q[m + 1] = y
          /\ \A k \in 1 .. m : s.q[k] = T.q[k]
          /\ OwnMini(m, T) => OwnMini(m + 1, s)
          /\ Calibrated(T, smallest_favored) => Calibrated(s, smallest_favored)
        BY <1>3, <1>4, <1>6, <1>7, <2>1, AddFacts, SMTT(30)
    <2>3. SeenWon(m + 1, s, restarts)
        BY <1>3, <1>4, <1>6, <1>7, <2>1, AddFacts, SMTT(30)
    <2>4. T.q = queue_buf /\ T.top = top_rated BY <2>1, TablesFields
    <2> QED BY <2>1, <2>2, <2>3, <2>4
<1>9. PICK u : u = calibrate_case(s, m + 1, ok, x) OBVIOUS
<1>10. Store(u) /\ pending_not_fuzzed' = pending_not_fuzzed + 1 /\ active_items' = active_items + 1
    BY <1>1, <1>5, <1>7, <1>9 DEF AddAndCalibrate, AddEntry
<1>11. smallest_favored \in 0 .. m + 1 /\ smallest_favored # m + 1 BY <1>3
<1>12. \A b \in Bits : s.top[b] # m + 1
    <2>1. top_rated \in [Bits -> 0 .. m] BY <1>2, TablesFields DEF Fits, TableSet
    <2> QED BY <1>8, <2>1
<1>13. s.q[m + 1].cal_failed < CAL_CHANCES BY <1>6, <1>8 DEF CAL_CHANCES
<1>14. /\ Fits(m + 1, u, restarts) /\ SeenWon(m + 1, u, restarts)
       /\ \A k \in 1 .. m + 1 : /\ SameFlags(s.q[k], u.q[k])
                                /\ u.q[k].fuzz_level = s.q[k].fuzz_level
                                /\ k # m + 1 => u.q[k].cal_failed = s.q[k].cal_failed
       /\ OwnMini(m + 1, s) => OwnMini(m + 1, u)
       /\ Calibrated(s, smallest_favored) => Calibrated(u, smallest_favored)
    BY <1>4, <1>6, <1>8, <1>9, <1>11, <1>12, <1>13, CalibrateKeeps, SMTT(30)
<1>15. Tables' = u /\ queue_buf' = u.q /\ Len(queue_buf') = m + 1
    <2>1. u \in TableSet(m + 1) BY <1>14 DEF Fits
    <2> QED BY <1>4, <1>10, <2>1, StoreTables
<1>16. \A k \in 1 .. m : /\ SameFlags(queue_buf[k], queue_buf'[k])
                         /\ queue_buf'[k].fuzz_level = queue_buf[k].fuzz_level
                         /\ queue_buf'[k].cal_failed = queue_buf[k].cal_failed
    <2>1. \A k \in 1 .. m : k \in 1 .. m + 1 /\ k # m + 1 OBVIOUS
    <2> QED BY <1>8, <1>14, <1>15, <2>1
<1>17. /\ ~queue_buf'[m + 1].favored /\ ~queue_buf'[m + 1].was_fuzzed
       /\ ~queue_buf'[m + 1].disabled /\ ~queue_buf'[m + 1].fs_redundant
       /\ ~queue_buf'[m + 1].spared
    <2>1. SameFlags(y, queue_buf'[m + 1]) BY <1>4, <1>8, <1>14, <1>15
    <2> QED BY <1>6, <2>1 DEF SameFlags
<1>18. FlagsHold(queue_buf', queued_favored', pending_favored', smallest_favored',
                 pending_not_fuzzed', active_items', restarts')
    BY <1>1, <1>2, <1>10, <1>15, <1>16, <1>17, FlagsNew
<1>19. InDryRun'
    <2>1. \A k \in 1 .. m + 1 : k \in 1 .. m \/ k = m + 1 OBVIOUS
    <2>2. \A k \in 1 .. m :
             /\ queue_buf'[k].favored = queue_buf[k].favored
             /\ queue_buf'[k].fs_redundant = queue_buf[k].fs_redundant
             /\ queue_buf'[k].disabled = queue_buf[k].disabled
             /\ queue_buf'[k].was_fuzzed = queue_buf[k].was_fuzzed
             /\ queue_buf'[k].spared = queue_buf[k].spared
             /\ queue_buf'[k].cal_failed = queue_buf[k].cal_failed
        BY <1>16 DEF SameFlags
    <2> QED BY <1>1, <1>2, <1>15, <1>17, <2>1, <2>2 DEF InDryRun, Ids
<1>20. AtWork'
    <2>1. queue_cur # 0 => queue_cur \in 1 .. m BY <1>2
    <2> QED BY <1>2, <1>16, <2>1 DEF AtWork
<1>21. queue_cur' \in 0 .. m + 1 /\ last_scored_idx' \in 0 .. m + 1 BY <1>2
<1> QED BY <1>2, <1>4, <1>8, <1>14, <1>15, <1>18, <1>19, <1>20, <1>21 DEF Form

LEMMA LoadSeedKeeps ==
    ASSUME Form, NEW t \in Traces, NEW l \in Lens, NEW x \in Times, LoadSeed(t, l, x)
    PROVE  Form'
BY AddKeeps DEF LoadSeed

LEMMA FindKeeps ==
    ASSUME Form, NEW t \in Traces, NEW l \in Lens, NEW ok \in BOOLEAN, NEW x \in Times,
           Find(t, l, ok, x)
    PROVE  Form'
BY AddKeeps DEF Find

\* A seed is rejected; a first session has no restarts yet.
LEMMA RejectKeeps ==
    ASSUME Form, NEW t \in Traces, NEW l \in Lens, NEW tries \in 1 .. CAL_CHANCES,
           NEW spared \in BOOLEAN, Reject(t, l, tries, spared)
    PROVE  Form'
<1>1. PICK m \in Nat : m = Len(queue_buf) BY DEF Form
<1>2. /\ Fits(m, Tables, restarts) /\ SeenWon(m, Tables, restarts)
      /\ FlagsHold(queue_buf, queued_favored, pending_favored, smallest_favored,
                   pending_not_fuzzed, active_items, restarts)
      /\ queue_cur \in 0 .. m /\ last_scored_idx \in 0 .. m /\ restarts \in 0 .. MaxRestarts
      /\ InDryRun
      /\ ~CycleSchedules => /\ OwnMini(m, Tables) /\ Calibrated(Tables, smallest_favored)
    BY <1>1 DEF Form
<1>3. smallest_favored \in 0 .. m
    <2>1. smallest_favored # 0 => smallest_favored \in 1 .. m BY <1>1, <1>2 DEF FlagsHold, Pending
    <2> QED BY <2>1
<1>4. restarts \in Nat /\ m + 1 \in Nat /\ m + 1 \in 1 .. m + 1 BY <1>2
<1>5. PICK y : y = [NewEntry(t, l) EXCEPT !.cal_failed = tries, !.was_fuzzed = TRUE,
                                         !.disabled = ~spared, !.spared = spared]
    OBVIOUS
<1>6. /\ y \in LooseEntry /\ y.tc_ref = 0 /\ y.trace_mini = {} /\ y.exec_us = 0
      /\ ~y.favored /\ y.was_fuzzed /\ ~y.fs_redundant /\ y.cal_failed # 0
      /\ y.disabled \/ y.spared
    <2>1. /\ tries \in 0 .. CAL_CHANCES /\ tries # 0 /\ 0 \in 0 .. MaxLevel
        BY Constants DEF CAL_CHANCES
    <2>2. PICK z : z = NewEntry(t, l) OBVIOUS
    <2>3. /\ z \in LooseEntry /\ z.tc_ref = 0 /\ z.trace_mini = {} /\ z.exec_us = 0
          /\ ~z.favored /\ ~z.fs_redundant
        BY <2>2, NewEntryFacts
    <2>4. PICK d \in BOOLEAN : d = ~spared OBVIOUS
    <2>5. y = [z EXCEPT !.cal_failed = tries, !.was_fuzzed = TRUE, !.disabled = d, !.spared = spared]
        BY <1>5, <2>2, <2>4
    <2>6. /\ y.tc_ref = z.tc_ref /\ y.trace_mini = z.trace_mini /\ y.exec_us = z.exec_us
          /\ y.favored = z.favored /\ y.fs_redundant = z.fs_redundant /\ y.was_fuzzed = TRUE
          /\ y.disabled = d /\ y.spared = spared /\ y.cal_failed = tries
        BY <2>3, <2>5 DEF LooseEntry
    <2>7. y \in LooseEntry BY <2>1, <2>3, <2>5 DEF LooseEntry
    <2> QED BY <2>1, <2>3, <2>4, <2>6, <2>7
<1>7. PICK s : s = AddEntry(Tables, y) OBVIOUS
<1>8. /\ Fits(m + 1, s, restarts) /\ s.q[m + 1] = y
      /\ \A k \in 1 .. m : s.q[k] = queue_buf[k]
      /\ OwnMini(m, Tables) => OwnMini(m + 1, s)
      /\ Calibrated(Tables, smallest_favored) => Calibrated(s, smallest_favored)
      /\ SeenWon(m + 1, s, restarts)
    <2>1. PICK a : a = Tables OBVIOUS
    <2>2. Fits(m, a, restarts) /\ SeenWon(m, a, restarts) /\ s = AddEntry(a, y) BY <1>2, <1>7, <2>1
    <2>3. /\ Fits(m + 1, s, restarts) /\ s.q[m + 1] = y
          /\ \A k \in 1 .. m : s.q[k] = a.q[k]
          /\ OwnMini(m, a) => OwnMini(m + 1, s)
          /\ Calibrated(a, smallest_favored) => Calibrated(s, smallest_favored)
        <3>1. /\ Fits(m + 1, AddEntry(a, y), restarts)
              /\ AddEntry(a, y).q = Append(a.q, y) /\ AddEntry(a, y).top = a.top
              /\ AddEntry(a, y).q[m + 1] = y
              /\ \A k \in 1 .. m : AddEntry(a, y).q[k] = a.q[k]
              /\ OwnMini(m, a) => OwnMini(m + 1, AddEntry(a, y))
              /\ Calibrated(a, smallest_favored) => Calibrated(AddEntry(a, y), smallest_favored)
            BY <1>3, <1>4, <1>6, <2>2, AddFacts, SMTT(60)
        <3> QED BY <2>2, <3>1
    <2>4. SeenWon(m + 1, s, restarts) BY <1>3, <1>4, <1>6, <2>2, AddFacts, SMTT(30)
    <2> QED BY <2>1, <2>3, <2>4, TablesFields
<1>9. /\ phase = "dry" /\ queue_buf' = Append(queue_buf, y)
      /\ UNCHANGED <<phase, top_rated, score_changed, queued_favored, pending_favored,
                     smallest_favored, pending_not_fuzzed, active_items, queue_cur,
                     last_scored_idx, schedule, restarts>>
    BY <1>5 DEF Reject, counters
<1>10. Tables' = s /\ queue_buf' = s.q /\ Len(queue_buf') = m + 1
    <2>1. Tables' = s BY <1>7, <1>9 DEF Tables, AddEntry
    <2>2. s.q \in [1 .. m + 1 -> LooseEntry] BY <1>8 DEF Fits, TableSet
    <2>3. Len(s.q) = m + 1 BY <1>4, <2>2
    <2>4. queue_buf' = s.q BY <2>1 DEF Tables
    <2> QED BY <2>1, <2>3, <2>4
<1>11. \A k \in 1 .. m : SameFlags(queue_buf[k], queue_buf'[k]) BY <1>8, <1>10 DEF SameFlags
<1>12. FlagsHold(queue_buf', queued_favored', pending_favored', smallest_favored',
                 pending_not_fuzzed', active_items', restarts')
    <2>1. PICK p : p = queue_buf' OBVIOUS
    <2>2. restarts = 0 BY <1>2, <1>9 DEF InDryRun
    <2>3. /\ p[m + 1] = y /\ Len(p) = m + 1 /\ \A k \in 1 .. m : SameFlags(queue_buf[k], p[k])
        BY <1>8, <1>10, <1>11, <2>1
    <2>4. ~CountedAt(p[m + 1], restarts) BY <1>6, <2>2, <2>3 DEF CountedAt
    <2>5. FlagsHold(p, queued_favored, pending_favored, smallest_favored,
                    pending_not_fuzzed, active_items, restarts)
        BY <1>1, <1>2, <1>6, <2>3, <2>4, FlagsBad
    <2> QED BY <1>9, <2>1, <2>5
<1>13. InDryRun'
    <2>1. \A k \in 1 .. m + 1 : k \in 1 .. m \/ k = m + 1 OBVIOUS
    <2>2. \A k \in 1 .. m : queue_buf'[k] = queue_buf[k] BY <1>8, <1>10
    <2>3. queue_buf'[m + 1] = y BY <1>8, <1>10
    <2> QED BY <1>1, <1>2, <1>6, <1>9, <1>10, <2>1, <2>2, <2>3 DEF InDryRun, Ids
<1>14. AtWork' BY <1>9 DEF AtWork
<1>15. queue_cur' \in 0 .. m + 1 /\ last_scored_idx' \in 0 .. m + 1 BY <1>2, <1>9
<1> QED BY <1>2, <1>4, <1>8, <1>9, <1>10, <1>12, <1>13, <1>14, <1>15 DEF Form, Phases

LEMMA LoadBadSeedKeeps ==
    ASSUME Form, NEW t \in Traces, NEW l \in Lens, NEW tries, LoadBadSeed(t, l, tries)
    PROVE  Form'
<1>1. tries \in 1 .. CAL_CHANCES BY DEF LoadBadSeed, CAL_CHANCES
<1>2. Reject(t, l, tries, FALSE) BY Zenon DEF LoadBadSeed
<1> QED BY <1>1, <1>2, RejectKeeps

LEMMA LoadKnownCrashKeeps ==
    ASSUME Form, NEW t \in Traces, NEW l \in Lens, LoadKnownCrash(t, l)
    PROVE  Form'
<1>1. 1 \in 1 .. CAL_CHANCES BY DEF CAL_CHANCES
<1>2. Reject(t, l, 1, TRUE) BY Zenon DEF LoadKnownCrash
<1> QED BY <1>1, <1>2, RejectKeeps

\* A set of entries has a last one.
LEMMA GreatestUpTo ==
    ASSUME NEW m \in Nat, NEW T \in SUBSET (1 .. m), T # {}
    PROVE  \E e \in T : \A f \in T : f <= e
<1> DEFINE D == {m - e : e \in T}
<1>2. \A e \in T : m - e \in D OBVIOUS
<1>3. \A d \in D : \E e \in T : d = m - e OBVIOUS
<1>1. D \in SUBSET Nat /\ D # {}
    <2>1. \A e \in T : m - e \in Nat OBVIOUS
    <2> HIDE DEF D
    <2> QED BY <1>2, <1>3, <2>1
<1> HIDE DEF D
<1>4. PICK d \in D : \A n \in D : d <= n BY <1>1, LeastNat
<1>5. PICK e \in T : d = m - e BY <1>3
<1>6. ASSUME NEW f \in T PROVE f <= e
    <2>1. d <= m - f BY <1>2, <1>4
    <2> QED BY <1>5, <2>1
<1> QED BY <1>6

LEMMA KeepScheduleKeeps == ASSUME Form, KeepSchedule PROVE Form'
<1>1. phase' = "pick" /\ InDryRun' /\ AtWork' BY DEF KeepSchedule, InDryRun, AtWork
<1> QED BY <1>1, QuietKeeps DEF Form, KeepSchedule, Phases

LEMMA RescheduleKeeps == ASSUME Form, Reschedule PROVE Form'
<1>1. PICK m \in Nat : m = Len(queue_buf) BY DEF Form
<1>2. /\ Fits(m, Tables, restarts) /\ SeenWon(m, Tables, restarts)
      /\ FlagsHold(queue_buf, queued_favored, pending_favored, smallest_favored,
                   pending_not_fuzzed, active_items, restarts)
      /\ queue_cur \in 0 .. m /\ restarts \in 0 .. MaxRestarts
    BY <1>1 DEF Form
<1>3. CycleSchedules /\ phase' = "pick" /\ last_scored_idx' = m BY <1>1 DEF Form, Reschedule
<1>4. PICK s : s = [Tables EXCEPT !.schedule = NextSchedule[@]] OBVIOUS
<1>5. s.q = queue_buf /\ s.top = top_rated BY <1>4 DEF Tables
<1>6. s \in TableSet(m)
    <2>1. NextSchedule[schedule] \in DOMAIN NextSchedule
        <3>1. schedule \in DOMAIN NextSchedule BY <1>2, TablesFields DEF Fits, TableSet
        <3> QED BY <3>1 DEF NextSchedule
    <2>2. s = [q |-> queue_buf, top |-> top_rated, chg |-> score_changed,
               schedule |-> NextSchedule[schedule]]
        BY <1>4 DEF Tables
    <2>3. Tables \in TableSet(m) BY <1>2 DEF Fits
    <2>4. queue_buf \in [1 .. m -> LooseEntry] /\ top_rated \in [Bits -> 0 .. m]
          /\ score_changed \in BOOLEAN
        BY <2>3 DEF Tables, TableSet
    <2> QED BY <2>1, <2>2, <2>4 DEF TableSet
<1>7. Fits(m, s, restarts) /\ SeenWon(m, s, restarts)
    BY <1>2, <1>5, <1>6, TablesFields DEF Fits, Sound, Surplus, SeenWon
<1>8. PICK bits \in Traces : Store(recalculate_all_scores(s, bits))
    <2> DEFINE fresh == {e \in Ids : e > last_scored_idx /\ ~queue_buf[e].disabled}
    <2>1. PICK bits \in IF fresh = {} THEN Traces
                        ELSE {queue_buf[CHOOSE e \in fresh : \A f \in fresh : f <= e].trace} :
             Store(recalculate_all_scores(s, bits))
        BY <1>4 DEF Reschedule
    <2>2. fresh \in SUBSET (1 .. m) BY <1>1 DEF Ids
    <2> HIDE DEF fresh
    <2>3. bits \in Traces
        <3>1. CASE fresh = {} BY <3>1
        <3>2. CASE fresh # {}
            <4>1. PICK e : e = CHOOSE k \in fresh : \A f \in fresh : f <= k OBVIOUS
            <4>2. e \in fresh BY <2>2, <3>2, <4>1, GreatestUpTo
            <4>3. queue_buf[e].trace \in Traces
                BY <1>5, <1>6, <2>2, <4>2 DEF TableSet, LooseEntry
            <4> QED BY <3>2, <4>1, <4>3
        <3> QED BY <3>1, <3>2
    <2> QED BY <2>1, <2>3
<1>9. PICK t : t = recalculate_all_scores(s, bits) OBVIOUS
<1>10. t \in Kept(m, s, 1 .. m, FALSE) BY <1>7, <1>9, RecalculateKeeps DEF Fits
<1>11. /\ Fits(m, t, restarts) /\ SeenWon(m, t, restarts)
       /\ \A k \in 1 .. m : Alike(queue_buf[k], t.q[k])
    BY <1>5, <1>7, <1>10, KeptFits
<1>12. Tables' = t /\ queue_buf' = t.q /\ Len(queue_buf') = m
    <2>1. t \in TableSet(m) BY <1>11 DEF Fits
    <2> QED BY <1>8, <1>9, <2>1, StoreTables
<1>13. \A k \in 1 .. m : SameFlags(queue_buf[k], queue_buf'[k])
    BY <1>11, <1>12 DEF Alike, SameFlags
<1>14. FlagsHold(queue_buf', queued_favored', pending_favored', smallest_favored',
                 pending_not_fuzzed', active_items', restarts')
    BY <1>1, <1>2, <1>12, <1>13, FlagsSame DEF Reschedule, counters
<1>15. InDryRun' /\ AtWork' BY <1>3 DEF InDryRun, AtWork
<1>16. UNCHANGED <<queue_cur, restarts>> /\ last_scored_idx' \in 0 .. m BY <1>3 DEF Reschedule
<1> QED BY <1>2, <1>3, <1>11, <1>12, <1>14, <1>15, <1>16 DEF Form, Phases

\* Other fields of entries change; a trace_mini may be freed.
LEMMA SameTables ==
    ASSUME NEW m \in Nat, NEW r, NEW s, Fits(m, s, r), NEW t \in TableSet(m), t.top = s.top,
           \A k \in 1 .. m :
              /\ t.q[k].trace = s.q[k].trace /\ t.q[k].tc_ref = s.q[k].tc_ref
              /\ t.q[k].trace_mini = s.q[k].trace_mini \/ t.q[k].trace_mini = {}
              /\ t.q[k].exec_us = s.q[k].exec_us /\ t.q[k].cal_failed = s.q[k].cal_failed,
           NEW sf \in 0 .. m
    PROVE  /\ Fits(m, t, r)
           /\ OwnMini(m, s) => OwnMini(m, t)
           /\ SeenWon(m, s, r) => SeenWon(m, t, r)
           /\ Calibrated(s, sf) => Calibrated(t, sf)
<1>1. s \in TableSet(m) /\ Sound(m, s) BY DEF Fits
<1>2. \A k \in 1 .. m : Surplus(t, k) = Surplus(s, k) BY DEF Surplus
<1>3. \A b \in Bits : t.top[b] # 0 => t.top[b] \in 1 .. m BY DEF TableSet
<1>4. Sound(m, t) BY <1>1, <1>3 DEF Sound
<1>5. OwnMini(m, s) => OwnMini(m, t) BY DEF OwnMini
<1>6. SeenWon(m, s, r) => SeenWon(m, t, r) BY DEF SeenWon
<1>7. Calibrated(s, sf) => Calibrated(t, sf)
    <2>1. sf # 0 => sf \in 1 .. m OBVIOUS
    <2> QED BY <1>3, <2>1 DEF Calibrated
<1> QED BY <1>2, <1>4, <1>5, <1>6, <1>7 DEF Fits

\* The entries of dup, enabled and not yet fuzzed, are disabled.
LEMMA FlagsDup ==
    ASSUME NEW q, NEW p, NEW n \in Nat, Len(q) = n, Len(p) = n, NEW dup \in SUBSET (1 .. n),
           \A k \in (1 .. n) \ dup : SameFlags(q[k], p[k]),
           \A k \in dup : /\ ~q[k].favored /\ ~q[k].was_fuzzed /\ ~q[k].disabled /\ ~q[k].spared
                          /\ ~p[k].favored /\ p[k].was_fuzzed /\ p[k].disabled
                          /\ ~p[k].fs_redundant,
           NEW qf, NEW pf, NEW sf, NEW pn, NEW ai, NEW r, FlagsHold(q, qf, pf, sf, pn, ai, r)
    PROVE  FlagsHold(p, qf, pf, sf, pn - Cardinality(dup), ai - Cardinality(dup), r)
<1>1. Favs(p) = Favs(q) /\ Pending(p) = Pending(q) BY DEF Favs, Pending, SameFlags
<1>2. /\ Unfuzzed(p) = Unfuzzed(q) \ dup /\ Due(p) = Due(q) \ dup
      /\ Active(p, r) = Active(q, r) \ dup /\ InCount(p, r) = InCount(q, r) \ dup
    <2>1. Unfuzzed(p) = Unfuzzed(q) \ dup /\ Due(p) = Due(q) \ dup
        BY DEF Unfuzzed, Due, SameFlags
    <2>2. /\ \A k \in (1 .. n) \ dup : /\ CountedAt(q[k], r) <=> CountedAt(p[k], r)
                                       /\ q[k].disabled = p[k].disabled
          /\ \A k \in dup : ~CountedAt(p[k], r)
        BY DEF CountedAt, SameFlags
    <2> QED BY <2>1, <2>2 DEF Active, InCount
<1>3. /\ dup \subseteq Unfuzzed(q) /\ dup \subseteq Due(q)
      /\ dup \subseteq Active(q, r) /\ dup \subseteq InCount(q, r)
    <2>1. \A k \in dup : CountedAt(q[k], r) BY DEF CountedAt
    <2> QED BY <2>1 DEF Unfuzzed, Due, Active, InCount
<1>4. \A T \in {Unfuzzed(q), Due(q), Active(q, r), InCount(q, r)} :
         IsFiniteSet(T) /\ Cardinality(T) \in Nat /\ T \cap dup = dup
    BY <1>3, SetsFinite
<1>5. Cardinality(dup) \in Nat BY SetsFinite
<1>6. /\ Cardinality(Unfuzzed(p)) = Cardinality(Unfuzzed(q)) - Cardinality(dup)
      /\ Cardinality(Due(p)) = Cardinality(Due(q)) - Cardinality(dup)
      /\ Cardinality(Active(p, r)) = Cardinality(Active(q, r)) - Cardinality(dup)
      /\ Cardinality(InCount(p, r)) = Cardinality(InCount(q, r)) - Cardinality(dup)
    <2>1. \A T : IsFiniteSet(T) => Cardinality(T \ dup) = Cardinality(T) - Cardinality(T \cap dup)
        BY FS_Difference
    <2> QED BY <1>2, <1>4, <2>1
<1>7. PICK d \in Nat : d = Cardinality(dup) BY <1>5
<1>8. /\ pn - d \in Int /\ Cardinality(Due(p)) <= pn - d /\ pn - d <= Cardinality(Unfuzzed(p))
      /\ ai - d \in Int /\ Cardinality(Active(p, r)) <= ai - d /\ ai - d <= n
      /\ Exact(r) => pn - d = Cardinality(Unfuzzed(p)) /\ ai - d = Cardinality(InCount(p, r))
    <2>1. /\ pn \in Int /\ Cardinality(Due(q)) <= pn /\ pn <= Cardinality(Unfuzzed(q))
          /\ ai \in Int /\ Cardinality(Active(q, r)) <= ai /\ ai <= n
          /\ Exact(r) => pn = Cardinality(Unfuzzed(q)) /\ ai = Cardinality(InCount(q, r))
        BY DEF FlagsHold
    <2>2. PICK u \in Nat, v \in Nat, w \in Nat, z \in Nat :
             /\ u = Cardinality(Unfuzzed(q)) /\ v = Cardinality(Due(q))
             /\ w = Cardinality(Active(q, r)) /\ z = Cardinality(InCount(q, r))
        BY <1>4
    <2>3. /\ Cardinality(Unfuzzed(p)) = u - d /\ Cardinality(Due(p)) = v - d
          /\ Cardinality(Active(p, r)) = w - d /\ Cardinality(InCount(p, r)) = z - d
        BY <1>6, <1>7, <2>2
    <2>4. /\ pn \in Int /\ v <= pn /\ pn <= u /\ ai \in Int /\ w <= ai /\ ai <= n
          /\ Exact(r) => pn = u /\ ai = z
        BY <2>1, <2>2
    <2> QED BY <1>7, <2>3, <2>4, SMTT(30)
<1>9. \A k \in 1 .. Len(p) : (p[k].favored => ~p[k].disabled) /\ Settled(p[k])
    <2>1. \A k \in (1 .. n) \ dup : (p[k].favored => ~p[k].disabled) /\ Settled(p[k])
        BY DEF FlagsHold, SameFlags, Settled
    <2>2. \A k \in dup : (p[k].favored => ~p[k].disabled) /\ Settled(p[k]) BY DEF Settled
    <2> QED BY <2>1, <2>2
<1> QED BY <1>1, <1>7, <1>8, <1>9 DEF FlagsHold

Disable(y) == [y EXCEPT !.disabled = TRUE, !.was_fuzzed = TRUE]

\* A duplicate seed: disabled and not to be fuzzed.
LEMMA DisableFacts ==
    ASSUME NEW y \in LooseEntry
    PROVE  /\ Disable(y) \in LooseEntry /\ Disable(y).disabled /\ Disable(y).was_fuzzed
           /\ Disable(y).favored = y.favored /\ Disable(y).fs_redundant = y.fs_redundant
           /\ Disable(y).trace = y.trace /\ Disable(y).tc_ref = y.tc_ref
           /\ Disable(y).trace_mini = y.trace_mini
           /\ Disable(y).exec_us = y.exec_us /\ Disable(y).cal_failed = y.cal_failed
BY DEF LooseEntry, Disable

LEMMA DryRunDoneKeeps ==
    ASSUME Form, NEW hits, DryRunDone(hits) PROVE Form'
<1>1. PICK m \in Nat : m = Len(queue_buf) BY DEF Form
<1>2. /\ Fits(m, Tables, restarts) /\ SeenWon(m, Tables, restarts)
      /\ FlagsHold(queue_buf, queued_favored, pending_favored, smallest_favored,
                   pending_not_fuzzed, active_items, restarts)
      /\ queue_cur \in 0 .. m /\ last_scored_idx \in 0 .. m /\ restarts \in 0 .. MaxRestarts
      /\ InDryRun /\ (~CycleSchedules => OwnMini(m, Tables) /\ Calibrated(Tables, smallest_favored))
    BY <1>1 DEF Form
<1>3. Tables \in TableSet(m) /\ queue_buf \in [1 .. m -> LooseEntry]
    BY <1>2, TablesFields DEF Fits, TableSet
<1> DEFINE cksum == [e \in Ids |-> <<queue_buf[e].trace, hits[e]>>]
<1>4. PICK dup : dup = {e \in Ids : IsDuplicate(e, cksum)} OBVIOUS
<1>5. /\ phase = "dry" /\ phase' = "top"
      /\ queue_buf' = [e \in Ids |-> IF e \in dup THEN Disable(queue_buf[e]) ELSE queue_buf[e]]
      /\ pending_not_fuzzed' = pending_not_fuzzed - Cardinality(dup)
      /\ active_items' = active_items - Cardinality(dup)
      /\ UNCHANGED <<top_rated, score_changed, queued_favored, pending_favored,
                     smallest_favored, queue_cur, last_scored_idx, schedule, restarts>>
    BY <1>4 DEF DryRunDone, Disable
<1>6. /\ dup \in SUBSET (1 .. m)
      /\ \A e \in dup : ~queue_buf[e].disabled /\ queue_buf[e].cal_failed = 0
    BY <1>1, <1>4 DEF IsDuplicate, Ids
<1> HIDE DEF cksum
<1>7. \A e \in dup : /\ ~queue_buf[e].favored /\ ~queue_buf[e].was_fuzzed
                     /\ ~queue_buf[e].fs_redundant /\ ~queue_buf[e].spared
    BY <1>1, <1>2, <1>5, <1>6 DEF InDryRun, Ids
<1>8. /\ queue_buf' \in [1 .. m -> LooseEntry] /\ Len(queue_buf') = m
      /\ \A k \in 1 .. m : queue_buf'[k] = IF k \in dup THEN Disable(queue_buf[k]) ELSE queue_buf[k]
    <2>1. \A k \in 1 .. m : queue_buf[k] \in LooseEntry /\ Disable(queue_buf[k]) \in LooseEntry
        BY <1>3, DisableFacts
    <2>2. queue_buf' \in [1 .. m -> LooseEntry] BY <1>1, <1>5, <2>1 DEF Ids
    <2>3. Len(queue_buf') = m BY <2>2
    <2> QED BY <1>1, <1>5, <2>2, <2>3 DEF Ids
<1>9. /\ \A k \in (1 .. m) \ dup : SameFlags(queue_buf[k], queue_buf'[k])
      /\ \A k \in dup : /\ ~queue_buf'[k].favored /\ queue_buf'[k].was_fuzzed
                        /\ queue_buf'[k].disabled /\ ~queue_buf'[k].fs_redundant
    BY <1>3, <1>6, <1>7, <1>8, DisableFacts DEF SameFlags
<1>10. FlagsHold(queue_buf', queued_favored', pending_favored', smallest_favored',
                 pending_not_fuzzed', active_items', restarts')
    BY <1>1, <1>2, <1>5, <1>6, <1>7, <1>8, <1>9, FlagsDup
<1>11. PICK t : t = Tables' OBVIOUS
<1>12. /\ t \in TableSet(m) /\ t.top = Tables.top /\ t.q = queue_buf'
    <2>1. t = [q |-> queue_buf', top |-> top_rated, chg |-> score_changed, schedule |-> schedule]
        BY <1>5, <1>11 DEF Tables
    <2> QED BY <1>3, <1>8, <2>1 DEF Tables, TableSet
<1>13. \A k \in 1 .. m :
          /\ t.q[k].trace = Tables.q[k].trace /\ t.q[k].tc_ref = Tables.q[k].tc_ref
          /\ t.q[k].trace_mini = Tables.q[k].trace_mini
          /\ t.q[k].exec_us = Tables.q[k].exec_us /\ t.q[k].cal_failed = Tables.q[k].cal_failed
    BY <1>3, <1>8, <1>12, TablesFields, DisableFacts
<1>14. smallest_favored \in 0 .. m BY <1>2, <1>5 DEF InDryRun
<1>15. /\ Fits(m, t, restarts) /\ (OwnMini(m, Tables) => OwnMini(m, t))
       /\ SeenWon(m, t, restarts)
       /\ Calibrated(Tables, smallest_favored) => Calibrated(t, smallest_favored)
    BY <1>2, <1>12, <1>13, <1>14, SameTables
<1>16. InDryRun' /\ AtWork' BY <1>5 DEF InDryRun, AtWork
<1> QED BY <1>2, <1>5, <1>8, <1>10, <1>11, <1>15, <1>16 DEF Form, Phases

LEMMA StopKeeps == ASSUME Form, Stop PROVE Form'
<1>1. PICK m \in Nat : m = Len(queue_buf) BY DEF Form
<1>2. /\ Fits(m, Tables, restarts) /\ SeenWon(m, Tables, restarts)
      /\ FlagsHold(queue_buf, queued_favored, pending_favored, smallest_favored,
                   pending_not_fuzzed, active_items, restarts)
      /\ queue_cur \in 0 .. m /\ last_scored_idx \in 0 .. m /\ restarts \in 0 .. MaxRestarts
      /\ AtWork /\ (~CycleSchedules => OwnMini(m, Tables) /\ Calibrated(Tables, smallest_favored))
    BY <1>1 DEF Form
<1>3. Tables \in TableSet(m) /\ queue_buf \in [1 .. m -> LooseEntry]
    BY <1>2, TablesFields DEF Fits, TableSet
<1>4. /\ phase' = "stopped" /\ queue_cur' = 0
      /\ queue_buf' = IF phase \in {"trim", "fuzz"}
                      THEN [queue_buf EXCEPT ![queue_cur].fuzz_level = @ + 1] ELSE queue_buf
      /\ UNCHANGED <<top_rated, score_changed, queued_favored, pending_favored, smallest_favored,
                     pending_not_fuzzed, active_items, last_scored_idx, schedule, restarts>>
    BY DEF Stop, counters
<1>5. /\ queue_buf' \in [1 .. m -> LooseEntry]
      /\ \A k \in 1 .. m :
            /\ queue_buf'[k].trace = queue_buf[k].trace /\ queue_buf'[k].tc_ref = queue_buf[k].tc_ref
            /\ queue_buf'[k].trace_mini = queue_buf[k].trace_mini
            /\ queue_buf'[k].exec_us = queue_buf[k].exec_us
            /\ queue_buf'[k].cal_failed = queue_buf[k].cal_failed
            /\ SameFlags(queue_buf[k], queue_buf'[k])
    <2>1. CASE phase \in {"trim", "fuzz"}
        <3>1. queue_cur \in 1 .. m /\ queue_buf[queue_cur].fuzz_level < MaxLevel
            BY <1>2, <2>1 DEF AtWork
        <3>2. queue_buf[queue_cur].fuzz_level \in 0 .. MaxLevel BY <1>3, <3>1 DEF LooseEntry
        <3>3. queue_buf[queue_cur].fuzz_level + 1 \in 0 .. MaxLevel BY <3>1, <3>2, Constants
        <3>4. PICK y : y = [queue_buf[queue_cur] EXCEPT !.fuzz_level = @ + 1] OBVIOUS
        <3>5. /\ y \in LooseEntry /\ y.trace = queue_buf[queue_cur].trace
              /\ y.tc_ref = queue_buf[queue_cur].tc_ref
              /\ y.trace_mini = queue_buf[queue_cur].trace_mini
              /\ y.exec_us = queue_buf[queue_cur].exec_us
              /\ y.cal_failed = queue_buf[queue_cur].cal_failed
              /\ SameFlags(queue_buf[queue_cur], y)
            BY <1>3, <3>1, <3>3, <3>4 DEF LooseEntry, SameFlags
        <3>6. queue_buf' = [queue_buf EXCEPT ![queue_cur] = y] BY <1>4, <2>1, <3>4
        <3>7. queue_buf' \in [1 .. m -> LooseEntry] BY <1>3, <3>5, <3>6
        <3>8. \A k \in 1 .. m : queue_buf'[k] = IF k = queue_cur THEN y ELSE queue_buf[k]
            BY <1>3, <3>6
        <3> QED BY <3>5, <3>7, <3>8 DEF SameFlags
    <2>2. CASE phase \notin {"trim", "fuzz"} BY <1>3, <1>4, <2>2 DEF SameFlags
    <2> QED BY <2>1, <2>2
<1>6. Len(queue_buf') = m BY <1>5
<1>7. FlagsHold(queue_buf', queued_favored', pending_favored', smallest_favored',
                pending_not_fuzzed', active_items', restarts')
    <2>1. PICK p : p = queue_buf' OBVIOUS
    <2>2. /\ Len(queue_buf) = Len(p)
          /\ \A k \in 1 .. Len(queue_buf) : SameFlags(queue_buf[k], p[k])
        BY <1>1, <1>5, <1>6, <2>1
    <2>3. FlagsHold(p, queued_favored, pending_favored, smallest_favored,
                    pending_not_fuzzed, active_items, restarts)
        BY <1>2, <2>2, FlagsSame
    <2> QED BY <1>4, <2>1, <2>3
<1>11. PICK t : t = Tables' OBVIOUS
<1>12. /\ t \in TableSet(m) /\ t.top = Tables.top /\ t.q = queue_buf'
    <2>1. t = [q |-> queue_buf', top |-> top_rated, chg |-> score_changed, schedule |-> schedule]
        BY <1>4, <1>11 DEF Tables
    <2> QED BY <1>3, <1>5, <2>1 DEF Tables, TableSet
<1>14. smallest_favored \in 0 .. m
    <2>1. smallest_favored # 0 => smallest_favored \in 1 .. m BY <1>1, <1>2 DEF FlagsHold, Pending
    <2> QED BY <2>1
<1>15. /\ Fits(m, t, restarts) /\ (OwnMini(m, Tables) => OwnMini(m, t))
       /\ SeenWon(m, t, restarts)
       /\ Calibrated(Tables, smallest_favored) => Calibrated(t, smallest_favored)
    BY <1>2, <1>5, <1>12, <1>14, TablesFields, SameTables
<1>16. InDryRun' /\ AtWork' BY <1>4 DEF InDryRun, AtWork
<1>17. queue_cur' \in 0 .. m BY <1>4
<1> QED BY <1>2, <1>4, <1>6, <1>7, <1>11, <1>15, <1>16, <1>17 DEF Form, Phases

LEMMA FastResumeKeeps == ASSUME Form, FastResume PROVE Form'
<1>1. PICK m \in Nat : m = Len(queue_buf) BY DEF Form
<1>2. /\ Fits(m, Tables, restarts) /\ queue_cur \in 0 .. m /\ restarts \in 0 .. MaxRestarts
      /\ FlagsHold(queue_buf, queued_favored, pending_favored, smallest_favored,
                   pending_not_fuzzed, active_items, restarts)
      /\ ~CycleSchedules => OwnMini(m, Tables)
    BY <1>1 DEF Form
<1>3. /\ Tables \in TableSet(m) /\ Sound(m, Tables) /\ queue_buf \in [1 .. m -> LooseEntry]
      /\ top_rated \in [Bits -> 0 .. m]
    BY <1>2, TablesFields DEF Fits, TableSet
<1>4. /\ phase' = "top" /\ restarts' = restarts + 1 /\ restarts < MaxRestarts
      /\ top_rated' = [b \in Bits |-> 0] /\ score_changed' = FALSE /\ smallest_favored' = 0
      /\ last_scored_idx' = 0 /\ schedule' = "EXPLORE" /\ UNCHANGED <<queue_buf, queue_cur>>
    BY DEF FastResume
<1>5. /\ queued_favored' = Cardinality(Favs(queue_buf))
      /\ pending_favored' = Cardinality(Pending(queue_buf))
      /\ pending_not_fuzzed' = Cardinality(Due(queue_buf))
      /\ active_items' = Cardinality(Enabled(queue_buf))
    <2>1. Pending(queue_buf) = {e \in {f \in Ids : queue_buf[f].favored} : ~queue_buf[e].was_fuzzed}
        BY DEF Pending, Ids
    <2> QED BY <2>1 DEF FastResume, Favs, Due, Enabled, Ids
<1>6. FlagsHold(queue_buf', queued_favored', pending_favored', smallest_favored',
                pending_not_fuzzed', active_items', restarts')
    <2>1. Due(queue_buf) \subseteq Unfuzzed(queue_buf) BY DEF Due, Unfuzzed
    <2>2. \A T \in {Unfuzzed(queue_buf), Due(queue_buf), Enabled(queue_buf)} :
             IsFiniteSet(T) /\ Cardinality(T) \in Nat /\ Cardinality(T) <= m
        BY <1>1, SetsFinite
    <2>3. Cardinality(Due(queue_buf)) <= Cardinality(Unfuzzed(queue_buf))
        BY <2>1, <2>2, FS_Subset
    <2>4. PICK r : r = restarts + 1 OBVIOUS
    <2>5. r > 0 /\ r # 0 BY <1>2, <2>4
    <2>6. Active(queue_buf, r) = Enabled(queue_buf) BY <2>5 DEF Active, Enabled, CountedAt
    <2>7. \A e \in 1 .. Len(queue_buf) : Settled(queue_buf[e]) BY <1>2 DEF FlagsHold
    <2>8. Exact(r) => /\ Due(queue_buf) = Unfuzzed(queue_buf)
                      /\ InCount(queue_buf, r) = Enabled(queue_buf)
        <3> SUFFICES ASSUME ~DisableRedundant
                     PROVE  /\ Due(queue_buf) = Unfuzzed(queue_buf)
                            /\ InCount(queue_buf, r) = Enabled(queue_buf)
            BY <2>5 DEF Exact
        <3>1. \A e \in 1 .. Len(queue_buf) : queue_buf[e].disabled =>
                 ~queue_buf[e].fs_redundant /\ queue_buf[e].was_fuzzed
            BY <2>7 DEF Settled
        <3> QED BY <2>5, <3>1 DEF Due, Unfuzzed, InCount, Enabled, CountedAt
    <2>9. /\ Cardinality(Due(queue_buf)) \in Int /\ Cardinality(Enabled(queue_buf)) \in Int
          /\ Cardinality(Due(queue_buf)) <= Cardinality(Due(queue_buf))
          /\ Cardinality(Enabled(queue_buf)) <= Cardinality(Enabled(queue_buf))
          /\ Cardinality(Enabled(queue_buf)) <= m
        BY <2>2
    <2>10. \A e \in 1 .. Len(queue_buf) : queue_buf[e].favored => ~queue_buf[e].disabled
        BY <1>2 DEF FlagsHold
    <2>11. FlagsHold(queue_buf, Cardinality(Favs(queue_buf)), Cardinality(Pending(queue_buf)), 0,
                     Cardinality(Due(queue_buf)), Cardinality(Enabled(queue_buf)), r)
        BY <1>1, <2>3, <2>6, <2>7, <2>8, <2>9, <2>10 DEF FlagsHold
    <2> QED BY <1>4, <1>5, <2>4, <2>11
<1>7. PICK t : t = Tables' OBVIOUS
<1>8. /\ t \in TableSet(m) /\ t.q = queue_buf /\ \A b \in Bits : t.top[b] = 0
    <2>1. t = [q |-> queue_buf, top |-> [b \in Bits |-> 0], chg |-> FALSE, schedule |-> "EXPLORE"]
        BY <1>4, <1>7 DEF Tables
    <2>2. [b \in Bits |-> 0] \in [Bits -> 0 .. m] OBVIOUS
    <2>3. "EXPLORE" \in DOMAIN NextSchedule BY DEF NextSchedule
    <2> QED BY <1>3, <2>1, <2>2, <2>3 DEF TableSet
<1>9. ASSUME NEW k \in 1 .. m
      PROVE  /\ Cardinality(Won(t.top, k)) = 0 /\ t.q[k].tc_ref \in Nat
             /\ t.q[k].tc_ref - 0 <= NumBits * (restarts + 1)
    <2>1. Won(t.top, k) = {} BY <1>8 DEF Won
    <2>2. Cardinality(Won(t.top, k)) = 0 BY <2>1, FS_EmptySet
    <2>3. PICK c \in Nat : c = Cardinality(Won(top_rated, k)) /\ c <= NumBits
        BY BitsFinite DEF Won
    <2>4. queue_buf[k].tc_ref \in Int BY <1>3 DEF LooseEntry
    <2>5. c <= queue_buf[k].tc_ref BY <1>3, <2>3, TablesFields DEF Sound
    <2>6. queue_buf[k].tc_ref - c <= NumBits * restarts
        BY <1>2, <2>3, TablesFields DEF Fits, Surplus
    <2>7. NumBits * (restarts + 1) = NumBits * restarts + NumBits BY <1>2, Constants
    <2>8. PICK z \in Nat : z = NumBits * restarts BY <1>2, Constants
    <2>9. queue_buf[k].tc_ref <= z + NumBits BY <2>3, <2>4, <2>6, <2>8, Constants
    <2> QED BY <1>8, <2>2, <2>3, <2>4, <2>5, <2>7, <2>8, <2>9
<1>10. Fits(m, t, restarts + 1)
    <2>1. Sound(m, t)
        BY <1>3, <1>8, <1>9, TablesFields DEF Sound
    <2> QED BY <1>8, <1>9, <2>1 DEF Fits, Surplus
<1>11. /\ OwnMini(m, Tables) => OwnMini(m, t)
       /\ Calibrated(t, 0) /\ SeenWon(m, t, restarts + 1)
    <2>1. restarts + 1 # 0 BY <1>2
    <2> QED BY <1>8, <2>1, TablesFields DEF OwnMini, Calibrated, SeenWon
<1>12. InDryRun' /\ AtWork' BY <1>4 DEF InDryRun, AtWork
<1>13. restarts + 1 \in 0 .. MaxRestarts /\ 0 \in 0 .. m BY <1>2, <1>4, Constants
<1> QED BY <1>1, <1>2, <1>4, <1>6, <1>7, <1>10, <1>11, <1>12, <1>13 DEF Form, Phases

\* abandon_entry: the counters go down with the flags, and smallest_favored moves on.
LEMMA AbandonKeeps ==
    ASSUME NEW m \in Nat, NEW r, NEW s, Fits(m, s, r), NEW e \in 1 .. m,
           s.q[e].fuzz_level < MaxLevel, abandon_entry(s, e),
           FlagsHold(s.q, queued_favored, pending_favored, smallest_favored,
                     pending_not_fuzzed, active_items, r)
    PROVE  /\ Len(queue_buf') = m /\ Fits(m, Tables', r)
           /\ FlagsHold(queue_buf', queued_favored', pending_favored', smallest_favored',
                        pending_not_fuzzed', active_items', r)
           /\ OwnMini(m, s) => OwnMini(m, Tables')
           /\ SeenWon(m, s, r) => SeenWon(m, Tables', r)
           /\ Calibrated(s, smallest_favored) => Calibrated(Tables', smallest_favored')
<1> DEFINE x == s.q[e]
           first == ~x.was_fuzzed /\ x.cal_failed = 0 /\ ~x.disabled
           done == IF first THEN 1 ELSE 0
<1>1. /\ s \in TableSet(m) /\ s.q \in [1 .. m -> LooseEntry] /\ x \in LooseEntry
    BY DEF Fits, TableSet
<1>2. Len(s.q) = m BY <1>1
<1>3. PICK y : y = [x EXCEPT !.was_fuzzed = x.was_fuzzed \/ first, !.fuzz_level = x.fuzz_level + 1]
    OBVIOUS
<1>4. x.was_fuzzed \in BOOLEAN /\ x.disabled \in BOOLEAN /\ x.favored \in BOOLEAN
      /\ x.fuzz_level + 1 \in 0 .. MaxLevel
    <2>1. x.fuzz_level \in 0 .. MaxLevel BY <1>1 DEF LooseEntry
    <2>2. x.fuzz_level + 1 \in 0 .. MaxLevel BY <2>1, Constants
    <2> QED BY <1>1, <2>2 DEF LooseEntry
<1>5. /\ y.trace = x.trace /\ y.tc_ref = x.tc_ref /\ y.trace_mini = x.trace_mini
      /\ y.exec_us = x.exec_us /\ y.cal_failed = x.cal_failed
      /\ y.favored = x.favored /\ y.disabled = x.disabled /\ y.was_fuzzed = (x.was_fuzzed \/ first)
      /\ y.fs_redundant = x.fs_redundant /\ y.spared = x.spared
    BY <1>1, <1>3 DEF LooseEntry
<1>6. y \in LooseEntry
    <2>1. PICK w \in BOOLEAN : w = (x.was_fuzzed \/ first) OBVIOUS
    <2>2. y = [x EXCEPT !.was_fuzzed = w, !.fuzz_level = x.fuzz_level + 1] BY <1>3, <2>1
    <2> HIDE DEF first, x
    <2> QED BY <1>1, <1>4, <2>2 DEF LooseEntry
<1>7. /\ Store(PutEntry(s, e, y))
      /\ pending_not_fuzzed' = pending_not_fuzzed - done
      /\ pending_favored' = pending_favored - (IF x.favored THEN done ELSE 0)
      /\ smallest_favored' = IF first /\ x.favored THEN 0 ELSE smallest_favored
      /\ UNCHANGED <<queued_favored, active_items>>
    <2>1. Store([s EXCEPT !.q[e] = y]) BY <1>3 DEF abandon_entry
    <2>2. /\ pending_not_fuzzed' = pending_not_fuzzed - done
          /\ pending_favored' = pending_favored - (IF x.favored THEN done ELSE 0)
          /\ smallest_favored' = IF first /\ x.favored THEN 0 ELSE smallest_favored
          /\ UNCHANGED <<queued_favored, active_items>>
        BY DEF abandon_entry
    <2> QED BY <2>1, <2>2 DEF PutEntry
<1>8. PICK t : t = PutEntry(s, e, y) OBVIOUS
<1>9. /\ t \in TableSet(m) /\ t.q[e] = y /\ \A k \in 1 .. m : k # e => t.q[k] = s.q[k]
      /\ t.top = s.top
    BY <1>1, <1>6, <1>8, PutFacts
<1>10. Tables' = t /\ queue_buf' = t.q /\ Len(queue_buf') = m BY <1>7, <1>8, <1>9, StoreTables
<1>11. smallest_favored \in 0 .. m
    <2>1. smallest_favored # 0 => smallest_favored \in 1 .. m BY <1>2 DEF FlagsHold, Pending
    <2> QED BY <2>1
<1>12. /\ Fits(m, t, r) /\ (OwnMini(m, s) => OwnMini(m, t))
       /\ SeenWon(m, s, r) => SeenWon(m, t, r)
       /\ Calibrated(s, smallest_favored) => Calibrated(t, smallest_favored)
    <2>1. \A k \in 1 .. m :
              /\ t.q[k].trace = s.q[k].trace /\ t.q[k].tc_ref = s.q[k].tc_ref
              /\ t.q[k].trace_mini = s.q[k].trace_mini
              /\ t.q[k].exec_us = s.q[k].exec_us /\ t.q[k].cal_failed = s.q[k].cal_failed
        BY <1>5, <1>9
    <2> QED BY <1>9, <1>11, <2>1, SameTables
<1>13. Calibrated(s, smallest_favored) => Calibrated(t, smallest_favored')
    BY <1>7, <1>12 DEF Calibrated
<1>14. \A k \in 1 .. m : k # e => SameFlags(s.q[k], t.q[k]) BY <1>9 DEF SameFlags
<1>15. t.q \in [1 .. m -> LooseEntry] /\ Len(t.q) = m BY <1>9, <1>10 DEF TableSet
<1>16. CASE first
    <2>1. /\ ~s.q[e].was_fuzzed /\ ~s.q[e].disabled /\ t.q[e].was_fuzzed /\ ~t.q[e].disabled
          /\ t.q[e].favored = s.q[e].favored /\ s.q[e].favored \in BOOLEAN
          /\ t.q[e].fs_redundant = s.q[e].fs_redundant /\ t.q[e].spared = s.q[e].spared
        BY <1>4, <1>5, <1>9, <1>16
    <2>2. FlagsHold(t.q, queued_favored, pending_favored - (IF s.q[e].favored THEN 1 ELSE 0),
                    IF s.q[e].favored THEN 0 ELSE smallest_favored, pending_not_fuzzed - 1,
                    active_items, r)
        BY <1>2, <1>14, <1>15, <2>1, FlagsFuzzed
    <2>3. /\ pending_not_fuzzed' = pending_not_fuzzed - 1
          /\ pending_favored' = pending_favored - (IF s.q[e].favored THEN 1 ELSE 0)
          /\ smallest_favored' = IF s.q[e].favored THEN 0 ELSE smallest_favored
        BY <1>7, <1>16
    <2>4. FlagsHold(queue_buf', queued_favored', pending_favored', smallest_favored',
                    pending_not_fuzzed', active_items', r)
        BY <1>7, <1>10, <2>2, <2>3
    <2> QED BY <1>10, <1>12, <1>13, <2>4
<1>17. CASE ~first
    <2>1. SameFlags(s.q[e], t.q[e]) BY <1>4, <1>5, <1>9, <1>17 DEF SameFlags
    <2>2. \A k \in 1 .. Len(s.q) : SameFlags(s.q[k], t.q[k]) BY <1>2, <1>14, <2>1
    <2>3. FlagsHold(t.q, queued_favored, pending_favored, smallest_favored,
                    pending_not_fuzzed, active_items, r)
        BY <1>2, <1>15, <2>2, FlagsSame
    <2>4. pending_not_fuzzed \in Int /\ pending_favored \in Int
        <3>1. Cardinality(Pending(s.q)) \in Nat BY <1>2, SetsFinite
        <3> QED BY <3>1 DEF FlagsHold
    <2>5. pending_not_fuzzed' = pending_not_fuzzed /\ pending_favored' = pending_favored
          /\ smallest_favored' = smallest_favored
        BY <1>7, <1>17, <2>4
    <2> QED BY <1>7, <1>10, <1>12, <1>13, <2>3, <2>5
<1> QED BY <1>16, <1>17

LEMMA FinishEntryKeeps == ASSUME Form, FinishEntry PROVE Form'
<1>1. PICK m \in Nat : m = Len(queue_buf) BY DEF Form
<1>2. /\ Fits(m, Tables, restarts) /\ SeenWon(m, Tables, restarts)
      /\ FlagsHold(queue_buf, queued_favored, pending_favored, smallest_favored,
                   pending_not_fuzzed, active_items, restarts)
      /\ queue_cur \in 0 .. m /\ last_scored_idx \in 0 .. m /\ restarts \in 0 .. MaxRestarts
      /\ AtWork /\ (~CycleSchedules => OwnMini(m, Tables) /\ Calibrated(Tables, smallest_favored))
    BY <1>1 DEF Form
<1>3. /\ phase = "fuzz" /\ phase' \in {"top", "pick"} /\ queue_cur' = 0
      /\ abandon_entry(Tables, queue_cur) /\ UNCHANGED <<last_scored_idx, restarts>>
    BY DEF FinishEntry
<1>4. queue_cur \in 1 .. m /\ queue_buf[queue_cur].fuzz_level < MaxLevel BY <1>2, <1>3 DEF AtWork
<1>5. PICK s : s = Tables /\ s.q = queue_buf BY TablesFields
<1>6. /\ Len(queue_buf') = m /\ Fits(m, Tables', restarts)
      /\ FlagsHold(queue_buf', queued_favored', pending_favored', smallest_favored',
                   pending_not_fuzzed', active_items', restarts)
      /\ OwnMini(m, s) => OwnMini(m, Tables')
      /\ SeenWon(m, s, restarts) => SeenWon(m, Tables', restarts)
      /\ Calibrated(s, smallest_favored) => Calibrated(Tables', smallest_favored')
    BY <1>2, <1>3, <1>4, <1>5, AbandonKeeps
<1>7. InDryRun' /\ AtWork' /\ queue_cur' \in 0 .. m BY <1>3 DEF InDryRun, AtWork
<1> QED BY <1>2, <1>3, <1>5, <1>6, <1>7 DEF Form, Phases

LEMMA RecalibrateKeeps ==
    ASSUME Form, NEW e \in Ids, NEW ok \in BOOLEAN, NEW nobits \in BOOLEAN, NEW x \in Times,
           Recalibrate(e, ok, nobits, x)
    PROVE  Form'
<1>1. PICK m \in Nat : m = Len(queue_buf) BY DEF Form
<1>2. /\ Fits(m, Tables, restarts) /\ SeenWon(m, Tables, restarts)
      /\ FlagsHold(queue_buf, queued_favored, pending_favored, smallest_favored,
                   pending_not_fuzzed, active_items, restarts)
      /\ queue_cur \in 0 .. m /\ last_scored_idx \in 0 .. m /\ restarts \in 0 .. MaxRestarts
      /\ ~CycleSchedules => OwnMini(m, Tables) /\ Calibrated(Tables, smallest_favored)
    BY <1>1 DEF Form
<1>3. e \in 1 .. m /\ MaySelect(e) /\ ~queue_buf[e].disabled
    <2>1. MaySelect(e) BY DEF Recalibrate
    <2> QED BY <1>1, <2>1, SelectedEnabled DEF Ids
<1>4. smallest_favored \in 0 .. m
    <2>1. smallest_favored # 0 => smallest_favored \in 1 .. m BY <1>1, <1>2 DEF FlagsHold, Pending
    <2> QED BY <2>1
<1> DEFINE tries == queue_buf[e].cal_failed
<1>5. PICK s : s = IF tries < CAL_CHANCES THEN calibrate_case(Tables, e, ok, x) ELSE Tables OBVIOUS
<1>6. /\ phase = "pick" /\ tries > 0 /\ queue_buf[e].fuzz_level < MaxLevel
      /\ ok => tries < CAL_CHANCES
      /\ UNCHANGED <<last_scored_idx, restarts>>
      /\ \/ /\ ok /\ phase' = "trim" /\ queue_cur' = e /\ Store(s)
            /\ UNCHANGED <<queued_favored, pending_favored, smallest_favored,
                           pending_not_fuzzed, active_items>>
         \/ abandon_entry(s, e) /\ UNCHANGED <<phase, queue_cur>>
    BY <1>5 DEF Recalibrate, counters
<1>7. /\ Fits(m, s, restarts) /\ SeenWon(m, s, restarts)
      /\ \A k \in 1 .. m : /\ SameFlags(queue_buf[k], s.q[k])
                           /\ s.q[k].fuzz_level = queue_buf[k].fuzz_level
      /\ ok => s.q[e].cal_failed = 0
      /\ ~CycleSchedules => OwnMini(m, s) /\ Calibrated(s, smallest_favored)
    <2>1. CASE tries < CAL_CHANCES
        <3>1. s = calibrate_case(Tables, e, ok, x) BY <1>5, <2>1
        <3>2. PICK a : a = Tables /\ a.q = queue_buf /\ a.top = top_rated BY TablesFields
        <3>3. restarts \in Nat BY <1>2
        <3>4. /\ Fits(m, s, restarts) /\ SeenWon(m, s, restarts)
              /\ \A k \in 1 .. m : /\ SameFlags(a.q[k], s.q[k])
                                   /\ s.q[k].fuzz_level = a.q[k].fuzz_level
              /\ s.q[e].cal_failed = IF ok THEN 0 ELSE a.q[e].cal_failed + 1
              /\ OwnMini(m, a) => OwnMini(m, s)
              /\ Calibrated(a, smallest_favored)
                    /\ (ok \/ (smallest_favored # e /\ \A b \in Bits : a.top[b] # e))
                       => Calibrated(s, smallest_favored)
            <4>1. ~a.q[e].disabled /\ a.q[e].cal_failed < CAL_CHANCES BY <1>3, <2>1, <3>2
            <4>2. Fits(m, a, restarts) /\ SeenWon(m, a, restarts) BY <1>2, <3>2
            <4>3. s = calibrate_case(a, e, ok, x) BY <3>1, <3>2
            <4> QED BY <1>3, <1>4, <3>3, <4>1, <4>2, <4>3, CalibrateKeeps
        <3>5. Calibrated(a, smallest_favored) =>
                 smallest_favored # e /\ \A b \in Bits : a.top[b] # e
            <4>1. e # 0 /\ queue_buf[e].cal_failed # 0 BY <1>3, <1>6
            <4> QED BY <3>2, <4>1 DEF Calibrated
        <3> QED BY <1>2, <3>2, <3>4, <3>5
    <2>2. CASE ~(tries < CAL_CHANCES)
        <3>1. s = Tables /\ ~ok BY <1>5, <1>6, <2>2
        <3> QED BY <1>2, <3>1, TablesFields DEF SameFlags
    <2> QED BY <2>1, <2>2
<1>8. s \in TableSet(m) /\ s.q \in [1 .. m -> LooseEntry] BY <1>7 DEF Fits, TableSet
<1>9. Len(s.q) = m BY <1>8
<1>10. FlagsHold(s.q, queued_favored, pending_favored, smallest_favored,
                 pending_not_fuzzed, active_items, restarts)
    BY <1>1, <1>2, <1>7, <1>9, FlagsSame
<1>11. s.q[e].fuzz_level < MaxLevel BY <1>3, <1>6, <1>7
<1>12. CASE /\ ok /\ phase' = "trim" /\ queue_cur' = e /\ Store(s)
            /\ UNCHANGED <<queued_favored, pending_favored, smallest_favored,
                           pending_not_fuzzed, active_items>>
    <2>1. Tables' = s /\ queue_buf' = s.q /\ Len(queue_buf') = m BY <1>8, <1>12, StoreTables
    <2>2. e # 0 /\ e \in 0 .. m BY <1>3
    <2>3. InDryRun' /\ AtWork' BY <1>7, <1>11, <1>12, <2>1, <2>2 DEF InDryRun, AtWork
    <2> QED BY <1>2, <1>6, <1>7, <1>10, <1>12, <2>1, <2>2, <2>3 DEF Form, Phases
<1>13. CASE abandon_entry(s, e) /\ UNCHANGED <<phase, queue_cur>>
    <2>1. /\ Len(queue_buf') = m /\ Fits(m, Tables', restarts)
          /\ FlagsHold(queue_buf', queued_favored', pending_favored', smallest_favored',
                       pending_not_fuzzed', active_items', restarts)
          /\ OwnMini(m, s) => OwnMini(m, Tables')
          /\ SeenWon(m, s, restarts) => SeenWon(m, Tables', restarts)
          /\ Calibrated(s, smallest_favored) => Calibrated(Tables', smallest_favored')
        BY <1>3, <1>7, <1>10, <1>11, <1>13, AbandonKeeps
    <2>2. InDryRun' /\ AtWork' BY <1>6, <1>13 DEF InDryRun, AtWork
    <2> QED BY <1>2, <1>6, <1>7, <1>13, <2>1, <2>2 DEF Form, Phases
<1> QED BY <1>6, <1>12, <1>13

LEMMA TrimKeeps == ASSUME Form, NEW l \in Lens, Trim(l) PROVE Form'
<1>1. PICK m \in Nat : m = Len(queue_buf) BY DEF Form
<1>2. /\ Fits(m, Tables, restarts) /\ SeenWon(m, Tables, restarts)
      /\ FlagsHold(queue_buf, queued_favored, pending_favored, smallest_favored,
                   pending_not_fuzzed, active_items, restarts)
      /\ queue_cur \in 0 .. m /\ last_scored_idx \in 0 .. m /\ restarts \in 0 .. MaxRestarts
      /\ AtWork /\ (~CycleSchedules => OwnMini(m, Tables) /\ Calibrated(Tables, smallest_favored))
    BY <1>1 DEF Form
<1>3. PICK e \in 1 .. m : e = queue_cur /\ phase = "trim" BY <1>2 DEF AtWork, Trim
<1>4. queue_buf[e].cal_failed = 0 /\ queue_buf[e].fuzz_level < MaxLevel BY <1>2, <1>3 DEF AtWork
<1>5. PICK a : a = Tables /\ a.q = queue_buf /\ a.top = top_rated BY TablesFields
<1>6. a \in TableSet(m) /\ a.q[e] \in LooseEntry BY <1>2, <1>5 DEF Fits, TableSet
<1>7. PICK y : y = [a.q[e] EXCEPT !.len = l, !.trim_done = TRUE] OBVIOUS
<1>8. y \in LooseEntry BY <1>6, <1>7 DEF LooseEntry
<1>9. /\ y.trace = a.q[e].trace /\ y.tc_ref = a.q[e].tc_ref /\ y.trace_mini = a.q[e].trace_mini
      /\ y.exec_us = a.q[e].exec_us /\ y.cal_failed = a.q[e].cal_failed
      /\ SameFlags(a.q[e], y) /\ y.fuzz_level = a.q[e].fuzz_level
    BY <1>6, <1>7 DEF LooseEntry, SameFlags
<1>10. PICK s : s = PutEntry(a, e, y) OBVIOUS
<1>11. /\ s \in TableSet(m) /\ s.q[e] = y /\ \A k \in 1 .. m : k # e => s.q[k] = a.q[k]
       /\ s.top = a.top
    BY <1>6, <1>8, <1>10, PutFacts
<1>12. smallest_favored \in 0 .. m
    <2>1. smallest_favored # 0 => smallest_favored \in 1 .. m BY <1>1, <1>2 DEF FlagsHold, Pending
    <2> QED BY <2>1
<1>13. \A k \in 1 .. m :
          /\ s.q[k].trace = a.q[k].trace /\ s.q[k].tc_ref = a.q[k].tc_ref
          /\ s.q[k].trace_mini = a.q[k].trace_mini
          /\ s.q[k].exec_us = a.q[k].exec_us /\ s.q[k].cal_failed = a.q[k].cal_failed
          /\ SameFlags(a.q[k], s.q[k]) /\ s.q[k].fuzz_level = a.q[k].fuzz_level
    BY <1>9, <1>11 DEF SameFlags
<1>14. /\ Fits(m, s, restarts) /\ SeenWon(m, s, restarts)
       /\ OwnMini(m, a) => OwnMini(m, s)
       /\ Calibrated(a, smallest_favored) => Calibrated(s, smallest_favored)
    BY <1>2, <1>5, <1>11, <1>12, <1>13, SameTables
<1>15. PICK t : t = IF l < queue_buf[e].len THEN update_bitmap_score(s, e) ELSE s OBVIOUS
<1>16. /\ Store(t) /\ phase' = "fuzz"
       /\ UNCHANGED <<queued_favored, pending_favored, smallest_favored, pending_not_fuzzed,
                      active_items, queue_cur, last_scored_idx, restarts>>
    BY <1>3, <1>5, <1>7, <1>10, <1>15 DEF Trim, PutEntry, counters
<1>17. PICK own \in BOOLEAN : own <=> OwnMini(m, s) OBVIOUS
<1>18. t \in Kept(m, s, {e}, own)
    <2>1. s \in TableSet(m) /\ Sound(m, s) BY <1>14 DEF Fits
    <2>2. s \in Kept(m, s, {e}, own) BY <1>17, <2>1, KeptStart
    <2>3. update_bitmap_score(s, e) \in Kept(m, s, {e}, own) BY <1>17, <2>1, ScoreKeeps
    <2> QED BY <1>15, <2>2, <2>3
<1>19. /\ Fits(m, t, restarts) /\ (own => OwnMini(m, t)) /\ SeenWon(m, t, restarts)
       /\ \A k \in 1 .. m : Alike(s.q[k], t.q[k])
       /\ \A b \in Bits : t.top[b] = s.top[b] \/ t.top[b] \in {e}
    BY <1>14, <1>18, KeptFits
<1>20. t \in TableSet(m) BY <1>19 DEF Fits
<1>21. Calibrated(s, smallest_favored) => Calibrated(t, smallest_favored)
    <2>1. PICK E \in SUBSET (1 .. m) : E = {e} OBVIOUS
    <2>2. /\ \A b \in Bits : t.top[b] = s.top[b] \/ t.top[b] \in E
          /\ \A k \in E : s.q[k].cal_failed = 0
          /\ \A k \in 1 .. m : Alike(s.q[k], t.q[k])
        BY <1>4, <1>5, <1>13, <1>19, <2>1
    <2> QED BY ONLY m \in Nat, E \in SUBSET (1 .. m), <1>11, <1>12, <1>20, <2>2, KeptCalibrated
<1>22. Tables' = t /\ queue_buf' = t.q /\ Len(queue_buf') = m BY <1>16, <1>20, StoreTables
<1>23. \A k \in 1 .. m : /\ SameFlags(queue_buf[k], t.q[k])
                         /\ t.q[k].fuzz_level = queue_buf[k].fuzz_level
                         /\ t.q[k].cal_failed = queue_buf[k].cal_failed
    BY <1>5, <1>13, <1>19 DEF SameFlags, Alike
<1>24. FlagsHold(t.q, queued_favored, pending_favored, smallest_favored,
                 pending_not_fuzzed, active_items, restarts)
    BY <1>1, <1>2, <1>22, <1>23, FlagsSame
<1>25. InDryRun' /\ AtWork' BY <1>2, <1>3, <1>4, <1>16, <1>22, <1>23 DEF InDryRun, AtWork
<1> QED BY <1>2, <1>5, <1>14, <1>16, <1>17, <1>19, <1>21, <1>22, <1>24, <1>25 DEF Form, Phases

\* cull_queue: an entry as it is left when it is favored or not.
CullEntry(x, f) == LET q == [x EXCEPT !.favored = f]
                   IN  IF q.disabled THEN q ELSE mark_as_redundant(q, ~q.favored)

\* What cull_queue does to one entry.
LEMMA CullEntryFacts ==
    ASSUME NEW x \in LooseEntry, NEW f \in BOOLEAN, NEW y, y = CullEntry(x, f)
    PROVE  /\ y \in LooseEntry /\ y.favored = f /\ y.was_fuzzed = x.was_fuzzed
           /\ y.trace = x.trace /\ y.tc_ref = x.tc_ref /\ y.exec_us = x.exec_us
           /\ y.cal_failed = x.cal_failed /\ y.fuzz_level = x.fuzz_level
           /\ y.trace_mini = x.trace_mini \/ y.trace_mini = {}
           /\ x.disabled => y.disabled
           /\ f /\ ~x.disabled => ~y.disabled
           /\ y.spared = x.spared
           /\ y.disabled /\ ~x.disabled => y.fs_redundant /\ DisableRedundant
           /\ x.disabled => y.fs_redundant = x.fs_redundant
<1>1. PICK q : q = [x EXCEPT !.favored = f] OBVIOUS
<1>2. /\ q \in LooseEntry /\ q.favored = f /\ q.was_fuzzed = x.was_fuzzed
      /\ q.trace = x.trace /\ q.tc_ref = x.tc_ref /\ q.exec_us = x.exec_us
      /\ q.cal_failed = x.cal_failed /\ q.fuzz_level = x.fuzz_level
      /\ q.trace_mini = x.trace_mini /\ q.disabled = x.disabled
      /\ q.spared = x.spared /\ q.fs_redundant = x.fs_redundant
    BY <1>1 DEF LooseEntry
<1>3. y = IF q.disabled THEN q ELSE mark_as_redundant(q, ~q.favored) BY <1>1 DEF CullEntry
<1>4. CASE y = q BY <1>2, <1>4
<1>5. CASE ~q.disabled /\ y = [q EXCEPT !.fs_redundant = ~f,
                                        !.trace_mini = IF ~f THEN {} ELSE @,
                                        !.disabled = @ \/ (~f /\ DisableRedundant)]
    <2>1. PICK g \in BOOLEAN : g = ~f OBVIOUS
    <2>2. PICK d \in BOOLEAN : d = (g /\ DisableRedundant) OBVIOUS
    <2>3. PICK T \in SUBSET Bits : T = IF ~f THEN {} ELSE q.trace_mini BY <1>2 DEF LooseEntry
    <2>4. q.disabled = FALSE BY <1>2, <1>5 DEF LooseEntry
    <2>5. (q.disabled \/ (~f /\ DisableRedundant)) = d BY <2>1, <2>2, <2>4
    <2>6. y = [q EXCEPT !.fs_redundant = g, !.trace_mini = T, !.disabled = d]
        BY <1>5, <2>1, <2>3, <2>5
    <2>7. /\ y \in LooseEntry /\ y.favored = q.favored /\ y.was_fuzzed = q.was_fuzzed
          /\ y.trace = q.trace /\ y.tc_ref = q.tc_ref /\ y.exec_us = q.exec_us
          /\ y.cal_failed = q.cal_failed /\ y.fuzz_level = q.fuzz_level
          /\ y.trace_mini = T /\ y.disabled = d /\ y.spared = q.spared /\ y.fs_redundant = g
        BY <1>2, <2>6 DEF LooseEntry
    <2> QED BY <1>2, <1>5, <2>1, <2>2, <2>3, <2>4, <2>7
<1>6. y = q \/ (~q.disabled /\ y = [q EXCEPT !.fs_redundant = ~f,
                                             !.trace_mini = IF ~f THEN {} ELSE @,
                                             !.disabled = @ \/ (~f /\ DisableRedundant)])
    BY <1>2, <1>3 DEF mark_as_redundant
<1> QED BY <1>4, <1>5, <1>6

\* The counters cull_queue computes are those of the new flags.
LEMMA FlagsCull ==
    ASSUME NEW q, NEW p, NEW n \in Nat, Len(q) = n, Len(p) = n, NEW fav \in SUBSET (1 .. n),
           \A k \in 1 .. n : /\ p[k].favored = (k \in fav) /\ p[k].was_fuzzed = q[k].was_fuzzed
                             /\ q[k].disabled => p[k].disabled
                             /\ k \in fav => ~p[k].disabled
                             /\ p[k].spared = q[k].spared
                             /\ p[k].disabled /\ ~q[k].disabled =>
                                   p[k].fs_redundant /\ DisableRedundant
                             /\ q[k].disabled => p[k].fs_redundant = q[k].fs_redundant,
           NEW qf, NEW pf, NEW sf, NEW pn, NEW ai, NEW r, FlagsHold(q, qf, pf, sf, pn, ai, r),
           NEW pend, pend = {k \in fav : ~q[k].was_fuzzed},
           NEW small, small # 0 => small \in pend /\ \A k \in pend : small <= k
    PROVE  FlagsHold(p, Cardinality(fav), Cardinality(pend), small, pn, ai, r)
<1>1. Favs(p) = fav /\ Pending(p) = pend /\ Unfuzzed(p) = Unfuzzed(q)
    BY DEF Favs, Pending, Unfuzzed
<1>2. Due(p) \subseteq Due(q) BY DEF Due
<1>3. Active(p, r) \subseteq Active(q, r) /\ InCount(p, r) = InCount(q, r)
    <2>1. \A k \in 1 .. n : CountedAt(p[k], r) <=> CountedAt(q[k], r) BY DEF CountedAt
    <2> QED BY <2>1 DEF Active, InCount
<1>4. \A T \in {Due(q), Due(p), Active(q, r), Active(p, r)} : IsFiniteSet(T) /\ Cardinality(T) \in Nat
    BY SetsFinite
<1>5. /\ Cardinality(Due(p)) <= Cardinality(Due(q))
      /\ Cardinality(Active(p, r)) <= Cardinality(Active(q, r))
    BY <1>2, <1>3, <1>4, FS_Subset
<1>6. /\ pn \in Int /\ Cardinality(Due(p)) <= pn /\ pn <= Cardinality(Unfuzzed(p))
      /\ ai \in Int /\ Cardinality(Active(p, r)) <= ai /\ ai <= n
      /\ Exact(r) => pn = Cardinality(Unfuzzed(p)) /\ ai = Cardinality(InCount(p, r))
    <2>1. /\ pn \in Int /\ Cardinality(Due(q)) <= pn /\ pn <= Cardinality(Unfuzzed(q))
          /\ ai \in Int /\ Cardinality(Active(q, r)) <= ai /\ ai <= n
          /\ Exact(r) => pn = Cardinality(Unfuzzed(q)) /\ ai = Cardinality(InCount(q, r))
        BY DEF FlagsHold
    <2>2. Cardinality(Due(p)) <= pn BY <1>4, <1>5, <2>1
    <2>3. Cardinality(Active(p, r)) <= ai BY <1>4, <1>5, <2>1
    <2> QED BY <1>1, <1>3, <2>1, <2>2, <2>3
<1>7. \A k \in 1 .. Len(p) : p[k].favored => ~p[k].disabled OBVIOUS
<1>8. ASSUME NEW k \in 1 .. n PROVE Settled(p[k])
    <2>1. Settled(q[k]) BY DEF FlagsHold
    <2> QED BY <2>1 DEF Settled
<1> QED BY <1>1, <1>6, <1>7, <1>8 DEF FlagsHold

LEMMA CullKeepsForm == ASSUME Form, Cull PROVE Form'
<1>1. PICK m \in Nat : m = Len(queue_buf) BY DEF Form
<1>2. /\ Fits(m, Tables, restarts) /\ SeenWon(m, Tables, restarts)
      /\ FlagsHold(queue_buf, queued_favored, pending_favored, smallest_favored,
                   pending_not_fuzzed, active_items, restarts)
      /\ queue_cur \in 0 .. m /\ last_scored_idx \in 0 .. m /\ restarts \in 0 .. MaxRestarts
      /\ ~CycleSchedules => OwnMini(m, Tables) /\ Calibrated(Tables, smallest_favored)
    BY <1>1 DEF Form
<1>3. /\ phase' \in {"sched", "pick"} /\ cull_queue
      /\ UNCHANGED <<top_rated, pending_not_fuzzed, active_items, queue_cur,
                     last_scored_idx, schedule, restarts>>
    BY DEF Cull
<1>4. InDryRun' /\ AtWork' /\ phase' \in Phases BY <1>3 DEF InDryRun, AtWork, Phases
<1>5. CASE ~score_changed
    <2>1. UNCHANGED <<queue_buf, score_changed, queued_favored, pending_favored, smallest_favored>>
        BY <1>3, <1>5 DEF cull_queue
    <2> QED BY <1>1, <1>2, <1>3, <1>4, <2>1, QuietKeeps DEF counters
<1>6. CASE score_changed
    <2>1. /\ Tables \in TableSet(m) /\ queue_buf \in [1 .. m -> LooseEntry]
          /\ top_rated \in [Bits -> 0 .. m]
        BY <1>2, TablesFields DEF Fits, TableSet
    <2>2. PICK fav : fav = CullFavored OBVIOUS
    <2>3. PICK pend : pend = {e \in fav : ~queue_buf[e].was_fuzzed} OBVIOUS
    <2>4. /\ score_changed' = FALSE
          /\ queued_favored' = Cardinality(fav) /\ pending_favored' = Cardinality(pend)
          /\ smallest_favored' = IF pend = {} THEN 0
                                 ELSE CHOOSE e \in pend : \A f \in pend : e <= f
          /\ queue_buf' = [e \in Ids |-> CullEntry(queue_buf[e], e \in fav)]
        BY <1>3, <1>6, <2>2, <2>3 DEF cull_queue, CullEntry
    <2>5. /\ fav \in SUBSET (1 .. m) /\ \A e \in fav : ~queue_buf[e].disabled /\ Winner(e)
        BY <1>1, <2>1, <2>2, CullKeeps DEF Ids
    <2>6. pend \in SUBSET (1 .. m) /\ pend \subseteq fav BY <2>3, <2>5
    <2>7. smallest_favored' # 0 =>
             smallest_favored' \in pend /\ \A e \in pend : smallest_favored' <= e
        <3>1. CASE pend = {} BY <2>4, <3>1
        <3>2. CASE pend # {}
            <4>1. pend \in SUBSET Nat BY <2>6
            <4>2. \E e \in pend : \A f \in pend : e <= f BY <3>2, <4>1, LeastNat
            <4> QED BY <2>4, <3>2, <4>2
        <3> QED BY <3>1, <3>2
    <2>8. ASSUME NEW k \in 1 .. m
          PROVE  LET y == CullEntry(queue_buf[k], k \in fav)
                     x == queue_buf[k]
                 IN  /\ y \in LooseEntry /\ y.favored = (k \in fav) /\ y.was_fuzzed = x.was_fuzzed
                     /\ y.trace = x.trace /\ y.tc_ref = x.tc_ref /\ y.exec_us = x.exec_us
                     /\ y.cal_failed = x.cal_failed
                     /\ y.trace_mini = x.trace_mini \/ y.trace_mini = {}
                     /\ x.disabled => y.disabled
                     /\ k \in fav => ~y.disabled
                     /\ y.spared = x.spared
                     /\ y.disabled /\ ~x.disabled => y.fs_redundant /\ DisableRedundant
                     /\ x.disabled => y.fs_redundant = x.fs_redundant
        <3>0. (k \in fav) = TRUE \/ (k \in fav) = FALSE
            <4>1. CASE k \in fav BY <4>1
            <4>2. CASE k \notin fav BY <4>2
            <4> QED BY <4>1, <4>2
        <3>1. PICK f \in BOOLEAN : f = (k \in fav) BY <3>0
        <3>2. PICK y : y = CullEntry(queue_buf[k], f) OBVIOUS
        <3>3. queue_buf[k] \in LooseEntry BY <2>1
        <3>4. /\ y \in LooseEntry /\ y.favored = f /\ y.was_fuzzed = queue_buf[k].was_fuzzed
              /\ y.trace = queue_buf[k].trace /\ y.tc_ref = queue_buf[k].tc_ref
              /\ y.exec_us = queue_buf[k].exec_us /\ y.cal_failed = queue_buf[k].cal_failed
              /\ y.trace_mini = queue_buf[k].trace_mini \/ y.trace_mini = {}
              /\ queue_buf[k].disabled => y.disabled
              /\ f /\ ~queue_buf[k].disabled => ~y.disabled
              /\ y.spared = queue_buf[k].spared
              /\ y.disabled /\ ~queue_buf[k].disabled => y.fs_redundant /\ DisableRedundant
              /\ queue_buf[k].disabled => y.fs_redundant = queue_buf[k].fs_redundant
            BY <3>2, <3>3, CullEntryFacts
        <3> QED BY <2>5, <3>1, <3>2, <3>4
    <2>9. /\ queue_buf' \in [1 .. m -> LooseEntry] /\ Len(queue_buf') = m
          /\ \A k \in 1 .. m : queue_buf'[k] = CullEntry(queue_buf[k], k \in fav)
        <3>1. queue_buf' \in [1 .. m -> LooseEntry] BY <1>1, <2>4, <2>8 DEF Ids
        <3>2. Len(queue_buf') = m BY <3>1
        <3> QED BY <1>1, <2>4, <3>1, <3>2 DEF Ids
    <2>10. PICK p : p = queue_buf' OBVIOUS
    <2>11. Len(p) = m /\ \A k \in 1 .. m :
              /\ p[k].favored = (k \in fav) /\ p[k].was_fuzzed = queue_buf[k].was_fuzzed
              /\ queue_buf[k].disabled => p[k].disabled
              /\ k \in fav => ~p[k].disabled
              /\ p[k].spared = queue_buf[k].spared
              /\ p[k].disabled /\ ~queue_buf[k].disabled => p[k].fs_redundant /\ DisableRedundant
              /\ queue_buf[k].disabled => p[k].fs_redundant = queue_buf[k].fs_redundant
        BY <2>8, <2>9, <2>10
    <2>12. PICK small : small = smallest_favored' OBVIOUS
    <2>13. FlagsHold(p, Cardinality(fav), Cardinality(pend), small, pending_not_fuzzed, active_items,
                     restarts)
        BY <1>1, <1>2, <2>3, <2>5, <2>7, <2>11, <2>12, FlagsCull, ZenonT(40)
    <2>14. FlagsHold(queue_buf', queued_favored', pending_favored', smallest_favored',
                     pending_not_fuzzed', active_items', restarts')
        BY <1>3, <2>4, <2>10, <2>12, <2>13
    <2>15. PICK t : t = Tables' OBVIOUS
    <2>16. /\ t \in TableSet(m) /\ t.top = Tables.top /\ t.q = p
        <3>1. t = [q |-> queue_buf', top |-> top_rated, chg |-> FALSE, schedule |-> schedule]
            BY <1>3, <2>4, <2>15 DEF Tables
        <3> QED BY <2>1, <2>9, <2>10, <3>1 DEF Tables, TableSet
    <2>17. \A k \in 1 .. m :
              /\ t.q[k].trace = Tables.q[k].trace /\ t.q[k].tc_ref = Tables.q[k].tc_ref
              /\ t.q[k].trace_mini = Tables.q[k].trace_mini \/ t.q[k].trace_mini = {}
              /\ t.q[k].exec_us = Tables.q[k].exec_us /\ t.q[k].cal_failed = Tables.q[k].cal_failed
        BY <2>8, <2>9, <2>10, <2>16, TablesFields
    <2>18. /\ Fits(m, t, restarts) /\ (OwnMini(m, Tables) => OwnMini(m, t))
           /\ SeenWon(m, t, restarts) /\ (Calibrated(Tables, 0) => Calibrated(t, 0))
        <3>1. 0 \in 0 .. m OBVIOUS
        <3> QED BY <1>2, <2>16, <2>17, <3>1, SameTables
    <2>19. Calibrated(Tables, smallest_favored) => Calibrated(t, small)
        <3> SUFFICES ASSUME Calibrated(Tables, smallest_favored) PROVE Calibrated(t, small) OBVIOUS
        <3>1. Calibrated(t, 0) BY <2>18 DEF Calibrated
        <3>2. ASSUME small # 0 PROVE t.q[small].cal_failed = 0
            <4>1. small \in fav /\ small \in 1 .. m /\ Winner(small)
                BY <2>5, <2>6, <2>7, <2>12, <3>2
            <4>2. PICK b \in Bits : top_rated[b] = small BY <4>1 DEF Winner
            <4>3. t.top[b] = small BY <2>16, <4>2, TablesFields
            <4> QED BY <3>1, <3>2, <4>3 DEF Calibrated
        <3> QED BY <3>1, <3>2 DEF Calibrated
    <2> QED BY <1>2, <1>3, <1>4, <2>9, <2>12, <2>14, <2>15, <2>18, <2>19 DEF Form
<1> QED BY <1>5, <1>6

(***************************************************************************)
(* The theorems.                                                           *)
(***************************************************************************)
LEMMA NextForm == Form /\ [Next]_vars => Form'
<1> SUFFICES ASSUME Form, [Next]_vars PROVE Form' OBVIOUS
<1>0. ASSUME NEW t \in Traces, NEW l \in Lens, LoadKnownCrash(t, l) PROVE Form'
    BY <1>0, LoadKnownCrashKeeps
<1>1. ASSUME NEW t \in Traces, NEW l \in Lens, NEW tries, LoadBadSeed(t, l, tries) PROVE Form'
    BY <1>1, LoadBadSeedKeeps
<1>2. ASSUME NEW t \in Traces, NEW l \in Lens, NEW x \in Times, LoadSeed(t, l, x) PROVE Form'
    BY <1>2, LoadSeedKeeps
<1>3. ASSUME NEW t \in Traces, NEW l \in Lens, NEW x \in Times, NEW ok \in BOOLEAN,
             Find(t, l, ok, x)
      PROVE  Form'
    BY <1>3, FindKeeps
<1>4. ASSUME NEW hits, DryRunDone(hits) PROVE Form' BY <1>4, DryRunDoneKeeps
<1>5. CASE GiveUp BY <1>5, GiveUpKeeps
<1>6. CASE Cull BY <1>6, CullKeepsForm
<1>7. CASE Reschedule BY <1>7, RescheduleKeeps
<1>16. CASE KeepSchedule BY <1>16, KeepScheduleKeeps
<1>8. ASSUME NEW e \in Ids, Begin(e) PROVE Form' BY <1>8, BeginKeeps
<1>9. ASSUME NEW e \in Ids, NEW ok \in BOOLEAN, NEW nobits \in BOOLEAN, NEW x \in Times,
             Recalibrate(e, ok, nobits, x)
      PROVE  Form'
    BY <1>9, RecalibrateKeeps
<1>10. ASSUME NEW l \in Lens, Trim(l) PROVE Form' BY <1>10, TrimKeeps
<1>11. CASE FinishEntry BY <1>11, FinishEntryKeeps
<1>12. CASE Stop BY <1>12, StopKeeps
<1>13. CASE FastResume BY <1>13, FastResumeKeeps
<1>14. CASE Over BY <1>14, StutterKeeps DEF Over
<1>15. CASE UNCHANGED vars BY <1>15, StutterKeeps
<1> QED BY <1>0, <1>1, <1>2, <1>3, <1>4, <1>5, <1>6, <1>7, <1>8, <1>9, <1>10, <1>11, <1>12, <1>13,
           <1>14, <1>15, <1>16 DEF Next

\* The invariant of the queue, for all options: references and wins agree, winners
\* hit their bits, the counters lie between the counts of the flags.
THEOREM CorpusInvariant == Spec => []IInv
<1>1. Init => Form BY InitForm
<1>2. Form /\ [Next]_vars => Form' BY NextForm
<1>3. Form => IInv BY InvForm
<1> QED BY <1>1, <1>2, <1>3, PTL DEF Spec

\* Every variable keeps its type and no counter wraps, through contests, culling,
\* failed calibrations, duplicates and any number of resumes.
THEOREM TypesAreKept == Spec => []TypeOK
<1>1. IInv => TypeOK BY DEF IInv
<1> QED BY <1>1, CorpusInvariant, PTL

\* tc_ref is the number of bits an entry has won, under every option, until the
\* session is resumed.
THEOREM RefCountHolds == Spec => []RefCount
<1>1. ASSUME IInv PROVE RefCount
    <2> SUFFICES ASSUME restarts = 0, NEW e \in Ids
                 PROVE  queue_buf[e].tc_ref = Cardinality({b \in Bits : top_rated[b] = e})
        BY DEF RefCount
    <2>1. PICK c \in Nat : c = Cardinality({b \in Bits : top_rated[b] = e})
        <3>1. {b \in Bits : top_rated[b] = e} \in SUBSET Bits OBVIOUS
        <3> QED BY <3>1, BitsFinite
    <2>2. c <= queue_buf[e].tc_ref /\ queue_buf[e].tc_ref <= c + NumBits * restarts
        BY <1>1, <2>1 DEF IInv, RefsBounded
    <2>3. NumBits * restarts = 0 BY Constants
    <2>4. queue_buf[e].tc_ref \in Int
        <3>1. queue_buf[e] \in Entry BY <1>1 DEF IInv, TypeOK, Ids
        <3> QED BY <3>1 DEF Entry
    <2>5. queue_buf[e].tc_ref <= c BY <2>2, <2>3
    <2> QED BY <2>1, <2>2, <2>4, <2>5
<1> QED BY <1>1, CorpusInvariant, PTL

\* Every bit of a calibrated entry has a winner, and winners hit their bits.
THEOREM SeenHasWinnerHolds == Spec => []SeenHasWinner
<1>1. IInv => SeenHasWinner BY DEF IInv
<1> QED BY <1>1, CorpusInvariant, PTL

\* Without AFL_CYCLE_SCHEDULES a trace_mini is the trace of its own entry.
THEOREM MiniIsOwnTraceHolds == ~CycleSchedules => (Spec => []MiniIsOwnTrace)
<1> SUFFICES ASSUME ~CycleSchedules PROVE Spec => []MiniIsOwnTrace OBVIOUS
<1>1. IInv => MiniIsOwnTrace BY DEF IInv
<1> QED BY <1>1, CorpusInvariant, PTL

\* Without AFL_CYCLE_SCHEDULES the main loop jumps to the first favored entry that is
\* still to be fuzzed; it is enabled and calibrated.
THEOREM SmallestFavoredHolds == ~CycleSchedules => (Spec => []SmallestFavored)
<1> SUFFICES ASSUME ~CycleSchedules PROVE Spec => []SmallestFavored OBVIOUS
<1>1. ASSUME IInv PROVE SmallestFavored
    <2>1. SmallestPending /\ FavoredEnabled /\ WinnersCalibrated BY <1>1 DEF IInv
    <2> QED BY <2>1 DEF SmallestPending, FavoredEnabled, WinnersCalibrated, SmallestFavored
<1> QED BY <1>1, CorpusInvariant, PTL

\* The counters are the counts of the flags, under every option: through rejected and
\* spared seeds, duplicates, failed calibrations, culling that disables and, without
\* AFL_DISABLE_REDUNDANT, any number of resumes.
THEOREM CountersAgreeHolds == Spec => []CountersAgree
<1>1. ASSUME IInv PROVE CountersAgree
    <2>1. CountsBounded /\ CountsExact BY <1>1 DEF IInv
    <2> QED BY <2>1 DEF CountsBounded, CountsExact, CountersAgree
<1> QED BY <1>1, CorpusInvariant, PTL

\* Without AFL_CYCLE_SCHEDULES the entries cull_queue picks cover every bit whose
\* winner still has its trace.
THEOREM CullCoversHolds == ~CycleSchedules => (Spec => CullCovers)
<1> SUFFICES ASSUME ~CycleSchedules PROVE Spec => CullCovers OBVIOUS
<1> DEFINE Covers ==
        \A b \in Bits :
          (/\ phase = "top" /\ phase' # "top" /\ phase' # "stopped" /\ score_changed
           /\ top_rated[b] # 0 /\ queue_buf[top_rated[b]].trace_mini # {})
          => \E e \in Ids :
                /\ b \in queue_buf[e].trace_mini
                /\ \/ queue_buf'[e].favored
                   \/ queue_buf[e].disabled /\ queue_buf[e].tc_ref > 0
<1>1. ASSUME IInv, [Next]_vars PROVE [Covers]_vars
    <2> SUFFICES ASSUME NEW b \in Bits, phase = "top", phase' # "top", phase' # "stopped",
                        score_changed, top_rated[b] # 0,
                        queue_buf[top_rated[b]].trace_mini # {}
                 PROVE  \E e \in Ids :
                            /\ b \in queue_buf[e].trace_mini
                            /\ \/ queue_buf'[e].favored
                               \/ queue_buf[e].disabled /\ queue_buf[e].tc_ref > 0
        OBVIOUS
    <2>1. Cull
        BY <1>1 DEF Next, Reject, LoadBadSeed, LoadKnownCrash, LoadSeed, Find, DryRunDone,
                    GiveUp, Reschedule, KeepSchedule, Begin,
                    Recalibrate, Trim, FinishEntry, Stop, FastResume, Over, vars
    <2>2. PICK m \in Nat : m = Len(queue_buf) BY <1>1 DEF IInv, TypeOK
    <2>3. top_rated \in [Bits -> 0 .. m] /\ queue_buf \in [1 .. m -> Entry]
        BY <1>1, <2>2 DEF IInv, TypeOK
    <2>4. top_rated[b] \in Ids BY <2>2, <2>3 DEF Ids
    <2>5. Held(b)
        BY <1>1, <2>4 DEF IInv, MiniIsOwnTrace, SeenHasWinner, Held
    <2>6. PICK fav : fav = CullFavored OBVIOUS
    <2>7. CoveredBy(b, fav) BY <2>2, <2>3, <2>5, <2>6, CullKeeps
    <2>8. PICK e \in Ids : /\ b \in queue_buf[e].trace_mini
                           /\ e \in fav \/ (queue_buf[e].disabled /\ Winner(e))
        BY <2>7 DEF CoveredBy
    <2>9. CASE e \in fav
        <3>2. queue_buf' = [k \in Ids |-> CullEntry(queue_buf[k], k \in fav)]
            BY <2>1, <2>6 DEF Cull, cull_queue, CullEntry
        <3>3. queue_buf[e] \in LooseEntry
            <4>1. queue_buf[e] \in Entry BY <2>2, <2>3 DEF Ids
            <4> QED BY <4>1 DEF Entry, LooseEntry
        <3>4. (e \in fav) = TRUE BY <2>9
        <3>5. PICK y : y = CullEntry(queue_buf[e], TRUE) OBVIOUS
        <3>6. queue_buf'[e] = y BY <3>2, <3>4, <3>5
        <3>7. y.favored = TRUE BY <3>3, <3>5, CullEntryFacts
        <3> QED BY <2>8, <3>6, <3>7
    <2>10. CASE queue_buf[e].disabled /\ Winner(e)
        <3>1. queue_buf[e].trace_mini # {} BY <2>8
        <3>2. queue_buf[e].tc_ref > 0 BY <1>1, <3>1 DEF IInv, MiniIsReferenced
        <3> QED BY <2>8, <2>10, <3>2
    <2> QED BY <2>8, <2>9, <2>10
<1> HIDE DEF Covers
<1>2. Spec => [][Covers]_vars BY <1>1, CorpusInvariant, PTL DEF Spec
<1> QED BY <1>2 DEF CullCovers, Covers
=============================================================================
