----------------------- MODULE ForkserverStartProofs -----------------------
(***************************************************************************)
(* Proofs about ForkserverStart, for any sizes of maps, any length of the  *)
(* dictionary and any of the further servers.                              *)
(***************************************************************************)
EXTENDS ForkserverStart, SequenceTheorems, TLAPS

-----------------------------------------------------------------------------
(***************************************************************************)
(* Sizes.                                                                  *)
(***************************************************************************)
LEMMA RoundUpBounds ==
    ASSUME NEW n \in Nat
    PROVE  RoundUp(n) \in Nat /\ n <= RoundUp(n) /\ RoundUp(n) < n + Align
<1>1. Align \in Nat /\ Align > 0 BY StartAssumption
<1> DEFINE x == n + Align - 1
<1>2. x \in Nat BY <1>1
<1> HIDE DEF x
<1>3. x = Align * (x \div Align) + (x % Align) /\ x % Align \in 0..(Align - 1) /\ x \div Align \in Int
    BY <1>1, <1>2
<1>4. RoundUp(n) = (x \div Align) * Align BY DEF RoundUp, x
<1>5. x = n + Align - 1 BY DEF x
<1> QED BY <1>1, <1>2, <1>3, <1>4, <1>5

LEMMA RoundUpGrows ==
    ASSUME NEW m \in Nat, NEW n \in Nat, m <= n PROVE RoundUp(m) <= RoundUp(n)
BY StartAssumption DEF RoundUp

\* The default size needs no rounding.
LEMMA RoundUpDefault ==
    ASSUME NEW n \in Nat, n <= DEFAULT_SHMEM_SIZE PROVE RoundUp(n) <= DEFAULT_SHMEM_SIZE
<1>1. Align \in Nat /\ Align > 0 /\ DEFAULT_SHMEM_SIZE \in Nat /\ DEFAULT_SHMEM_SIZE % Align = 0
    BY StartAssumption
<1> DEFINE d == DEFAULT_SHMEM_SIZE \div Align
           y == n + Align - 1
<1>2. d \in Int /\ DEFAULT_SHMEM_SIZE = Align * d BY <1>1
<1>3. y \in Nat /\ y < Align * (d + 1) BY <1>1, <1>2
<1> HIDE DEF d, y
<1>4. y \div Align <= d BY <1>1, <1>2, <1>3
<1>5. (y \div Align) * Align <= d * Align BY <1>1, <1>2, <1>3, <1>4
<1> QED BY <1>1, <1>2, <1>5 DEF RoundUp, y

LEMMA MaxPair ==
    ASSUME NEW a \in Nat, NEW b \in Nat
    PROVE  Max({a, b}) \in Nat /\ Max({a, b}) \in {a, b} /\ a <= Max({a, b}) /\ b <= Max({a, b})
<1>1. \E x \in {a, b} : \A y \in {a, b} : x >= y OBVIOUS
<1> QED BY <1>1 DEF Max

-----------------------------------------------------------------------------
(***************************************************************************)
(* Words on their way.                                                     *)
(***************************************************************************)
LEMMA ReadOne ==
    ASSUME NEW S, NEW s \in Seq(S), NEW t \in Seq(S), s # <<>>
    PROVE  /\ s \o t # <<>> /\ Head(s \o t) = Head(s) /\ Tail(s \o t) = Tail(s) \o t
           /\ Head(s) \in S /\ Tail(s) \in Seq(S)
BY ConcatProperties, HeadTailProperties, LenProperties, EmptySeq

LEMMA SendOne ==
    ASSUME NEW S, NEW s \in Seq(S), NEW t \in Seq(S), t # <<>>
    PROVE  /\ Append(s, Head(t)) \o Tail(t) = s \o t /\ Append(s, Head(t)) # <<>>
           /\ Append(s, Head(t)) \in Seq(S) /\ Tail(t) \in Seq(S) /\ (Len(t) = 1 <=> Tail(t) = <<>>)
<1> DEFINE u == Append(s, Head(t))
           r == Tail(t)
<1>1. /\ Head(t) \in S /\ r \in Seq(S) /\ Len(t) \in Nat \ {0} /\ Len(r) = Len(t) - 1
      /\ t[1] = Head(t) /\ \A i \in 1..Len(r) : r[i] = t[i + 1]
    BY HeadTailProperties, LenProperties, EmptySeq
<1>2. /\ u \in Seq(S) /\ Len(s) \in Nat /\ Len(u) = Len(s) + 1 /\ u[Len(s) + 1] = Head(t)
      /\ \A i \in 1..Len(s) : u[i] = s[i]
    BY <1>1, AppendProperties, LenProperties
<1>3. u # <<>> BY <1>2, EmptySeq
<1>4. Len(t) = 1 <=> r = <<>>
    <2>1. Len(r) = 0 <=> r = <<>> BY <1>1, EmptySeq
    <2>2. \A m \in Nat \ {0} : m = 1 <=> m - 1 = 0 OBVIOUS
    <2> QED BY <1>1, <2>1, <2>2
<1> HIDE DEF u, r
<1>5. /\ u \o r \in Seq(S) /\ Len(u \o r) = Len(s) + Len(t)
      /\ \A i \in 1..(Len(s) + Len(t)) : (u \o r)[i] = IF i <= Len(u) THEN u[i] ELSE r[i - Len(u)]
    <2>1. u \o r \in Seq(S) BY <1>1, <1>2, ConcatProperties
    <2>2. Len(u \o r) = Len(u) + Len(r) BY <1>1, <1>2, ConcatProperties
    <2>3. Len(u) + Len(r) = Len(s) + Len(t) BY <1>1, <1>2
    <2> QED BY <1>1, <1>2, <2>1, <2>2, <2>3, ConcatProperties
<1>6. /\ s \o t \in Seq(S) /\ Len(s \o t) = Len(s) + Len(t)
      /\ \A i \in 1..(Len(s) + Len(t)) : (s \o t)[i] = IF i <= Len(s) THEN s[i] ELSE t[i - Len(s)]
    BY ConcatProperties
<1>7. ASSUME NEW i \in 1..(Len(s) + Len(t)) PROVE (u \o r)[i] = (s \o t)[i]
    <2>1. CASE i <= Len(s)
        <3>1. i \in 1..Len(s) /\ i <= Len(u) BY <1>1, <1>2, <2>1
        <3> QED BY <1>2, <1>5, <1>6, <2>1, <3>1
    <2>2. CASE i = Len(s) + 1
        <3>1. i <= Len(u) /\ ~(i <= Len(s)) /\ i - Len(s) = 1 BY <1>2, <2>2
        <3> QED BY <1>1, <1>2, <1>5, <1>6, <2>2, <3>1
    <2>3. CASE i > Len(s) + 1
        <3>1. ~(i <= Len(u)) /\ ~(i <= Len(s)) BY <1>2, <2>3
        <3>2. i - Len(u) \in 1..Len(r) /\ (i - Len(u)) + 1 = i - Len(s) BY <1>1, <1>2, <2>3
        <3> QED BY <1>1, <1>5, <1>6, <3>1, <3>2
    <2> QED BY <1>1, <1>2, <2>1, <2>2, <2>3
<1>8. u \o r = s \o t BY <1>5, <1>6, <1>7, SeqEqual
<1> QED BY <1>1, <1>2, <1>3, <1>4, <1>8 DEF u, r

LEMMA OneWord ==
    ASSUME NEW S, NEW a \in S, NEW s \in Seq(S), NEW t \in Seq(S), s \o t = <<a>>, s # <<>>
    PROVE  s = <<a>> /\ t = <<>>
<1>1. Len(s) \in Nat /\ Len(t) \in Nat /\ Len(s) # 0 BY LenProperties, EmptySeq
<1>2. Len(<<a>>) = 1 /\ <<a>>[1] = a /\ <<a>> \in Seq(S) OBVIOUS
<1>3. Len(s) + Len(t) = 1 BY <1>2, ConcatProperties
<1>4. Len(s) = 1 /\ Len(t) = 0
    <2>1. \A m, n \in Nat : m + n = 1 /\ m # 0 => m = 1 /\ n = 0 OBVIOUS
    <2> QED BY <1>1, <1>3, <2>1
<1>5. s[1] = a BY <1>2, <1>4, ConcatProperties
<1>6. s = <<a>>
    <2>1. \A i \in 1..Len(s) : s[i] = <<a>>[i] BY <1>2, <1>4, <1>5
    <2> QED BY <1>2, <1>4, <2>1, SeqEqual
<1> QED BY <1>4, <1>6, EmptySeq

LEMMA WordTypes ==
    /\ Hello \in Words /\ Word("len", DictLen, {}) \in Words /\ Word("dat", 0, {}) \in Words
    /\ \A n \in Nat : Word("map", n, {}) \in Words
    /\ \A o \in SUBSET {"map", "shm", "dict", "ijon"} : Word("opt", 0, o) \in Words
BY StartAssumption DEF Hello, Word, Words

LEMMA DatsShape ==
    ASSUME NEW n \in Nat
    PROVE  /\ Dats(n) \in Seq(Words) /\ Dats(n) \o <<Hello>> \in Seq(Words)
           /\ n = 0 => Dats(n) \o <<Hello>> = <<Hello>>
           /\ n # 0 => /\ Dats(n) \o <<Hello>> # <<>> /\ Head(Dats(n) \o <<Hello>>) = Word("dat", 0, {})
                       /\ Tail(Dats(n) \o <<Hello>>) = Dats(n - 1) \o <<Hello>>
<1>1. Dats(n) \in Seq(Words) /\ Len(Dats(n)) = n BY WordTypes DEF Dats
<1>2. <<Hello>> \in Seq(Words) BY WordTypes
<1>3. Dats(n) \o <<Hello>> \in Seq(Words) BY <1>1, <1>2, ConcatProperties
<1>4. ASSUME n = 0 PROVE Dats(n) \o <<Hello>> = <<Hello>>
    <2>1. Dats(n) = <<>> BY <1>1, <1>4, EmptySeq
    <2> QED BY <1>2, <2>1, ConcatEmptySeq
<1>5. ASSUME n # 0
      PROVE  /\ Dats(n) \o <<Hello>> # <<>> /\ Head(Dats(n) \o <<Hello>>) = Word("dat", 0, {})
             /\ Tail(Dats(n) \o <<Hello>>) = Dats(n - 1) \o <<Hello>>
    <2>1. Dats(n) # <<>> BY <1>1, <1>5, EmptySeq
    <2>2. Head(Dats(n)) = Word("dat", 0, {}) BY <1>5 DEF Dats
    <2>3. Tail(Dats(n)) = Dats(n - 1)
        <3>1. Tail(Dats(n)) \in Seq(Words) /\ Len(Tail(Dats(n))) = n - 1
            BY <1>1, <2>1, HeadTailProperties
        <3>2. Dats(n - 1) \in Seq(Words) /\ Len(Dats(n - 1)) = n - 1 BY <1>5, WordTypes DEF Dats
        <3>3. \A i \in 1..(n - 1) : Tail(Dats(n))[i] = Dats(n)[i + 1]
            BY <1>1, <2>1, <3>1, HeadTailProperties
        <3>4. \A i \in 1..(n - 1) : Tail(Dats(n))[i] = Dats(n - 1)[i] BY <3>3 DEF Dats
        <3> QED BY <3>1, <3>2, <3>4, SeqEqual
    <2> DEFINE d == Dats(n)
               h == <<Hello>>
    <2>4. d \in Seq(Words) /\ h \in Seq(Words) /\ d # <<>> BY <1>1, <1>2, <2>1
    <2> HIDE DEF d, h
    <2>5. d \o h # <<>> /\ Head(d \o h) = Head(d) /\ Tail(d \o h) = Tail(d) \o h BY <2>4, ReadOne
    <2> QED BY <2>2, <2>3, <2>5 DEF d, h
<1> QED BY <1>1, <1>3, <1>4, <1>5

\* The next word, and those after it.
LEMMA AwaitedShape ==
    ASSUME NEW P, NEW n \in Nat
    PROVE  /\ Awaited("opt", n, P) = P /\ Awaited("map", n, P) = Tail(P)
           /\ Awaited("final", n, P) = <<Hello>>
           /\ Awaited("len", n, P) # <<>> /\ Head(Awaited("len", n, P)) = Word("len", DictLen, {})
           /\ Tail(Awaited("len", n, P)) = Awaited("dat", DictLen, P)
           /\ n # 0 => /\ Awaited("dat", n, P) # <<>> /\ Head(Awaited("dat", n, P)) = Word("dat", 0, {})
                       /\ Tail(Awaited("dat", n, P)) =
                              Awaited(IF n = 1 THEN "final" ELSE "dat", n - 1, P)
<1> DEFINE L == <<Word("len", DictLen, {})>>
<1>1. Awaited("opt", n, P) = P /\ Awaited("map", n, P) = Tail(P) /\ Awaited("final", n, P) = <<Hello>>
    BY DEF Awaited
<1>2. /\ Awaited("len", n, P) # <<>> /\ Head(Awaited("len", n, P)) = Word("len", DictLen, {})
      /\ Tail(Awaited("len", n, P)) = Awaited("dat", DictLen, P)
    <2>1. L \in Seq(Words) /\ L # <<>> /\ Head(L) = Word("len", DictLen, {}) /\ Tail(L) = <<>>
          /\ <<Hello>> \in Seq(Words)
        BY WordTypes
    <2>2. Awaited("len", n, P) = (L \o Dats(DictLen)) \o <<Hello>>
          /\ Awaited("dat", DictLen, P) = Dats(DictLen) \o <<Hello>>
        BY DEF Awaited
    <2> DEFINE d == Dats(DictLen)
               h == <<Hello>>
    <2> HIDE DEF L
    <2>3. Dats(DictLen) \in Seq(Words) /\ Dats(DictLen) \o <<Hello>> \in Seq(Words)
        BY DatsShape, StartAssumption
    <2>4. (L \o d) \o h = L \o (d \o h)
        <3>1. L \in Seq(Words) /\ d \in Seq(Words) /\ h \in Seq(Words) BY <2>1, <2>3
        <3> HIDE DEF d, h
        <3> QED BY <3>1, ConcatAssociative
    <2> DEFINE Z == d \o h
    <2>5. Z \in Seq(Words) BY <2>3
    <2>6. Awaited("len", n, P) = L \o Z /\ Awaited("dat", DictLen, P) = Z BY <2>2, <2>4
    <2> HIDE DEF Z
    <2>7. <<>> \o Z = Z BY <2>5, ConcatEmptySeq
    <2>8. L \o Z # <<>> /\ Head(L \o Z) = Head(L) /\ Tail(L \o Z) = Tail(L) \o Z
        BY <2>1, <2>5, ReadOne
    <2> QED BY <2>1, <2>6, <2>7, <2>8
<1>3. ASSUME n # 0
      PROVE  /\ Awaited("dat", n, P) # <<>> /\ Head(Awaited("dat", n, P)) = Word("dat", 0, {})
             /\ Tail(Awaited("dat", n, P)) = Awaited(IF n = 1 THEN "final" ELSE "dat", n - 1, P)
    <2>1. Awaited("dat", n, P) = Dats(n) \o <<Hello>> BY DEF Awaited
    <2>2. n - 1 \in Nat BY <1>3
    <2>3. Awaited(IF n = 1 THEN "final" ELSE "dat", n - 1, P) = Dats(n - 1) \o <<Hello>>
        <3>1. CASE n = 1
            <4>0. n - 1 = 0 BY <3>1
            <4>1. Dats(n - 1) \o <<Hello>> = <<Hello>> BY <4>0, DatsShape
            <4>2. Awaited("final", n - 1, P) = <<Hello>> BY DEF Awaited
            <4> QED BY <3>1, <4>1, <4>2
        <3>2. CASE n # 1 BY <3>2 DEF Awaited
        <3> QED BY <3>1, <3>2
    <2> QED BY <1>3, <2>1, <2>3, DatsShape
<1> QED BY <1>1, <1>2, <1>3

-----------------------------------------------------------------------------
(***************************************************************************)
(* main's list.                                                            *)
(***************************************************************************)
Items == [do : {"start", "check", "ijon", "spawn"}, srv : Servers]

LEMMA Cons ==
    ASSUME NEW S, NEW a \in S, NEW b \in S, NEW s \in Seq(S)
    PROVE  /\ <<a>> \o s \in Seq(S) /\ <<a>> \o s # <<>> /\ Head(<<a>> \o s) = a /\ Tail(<<a>> \o s) = s
           /\ <<a, b>> \o s \in Seq(S) /\ <<a, b>> \o s # <<>> /\ Head(<<a, b>> \o s) = a
           /\ Tail(<<a, b>> \o s) = <<b>> \o s
<1> DEFINE x == <<a>>
           y == <<a, b>>
<1>1. x \in Seq(S) /\ x # <<>> /\ Head(x) = a /\ Tail(x) = <<>> OBVIOUS
<1>2. y \in Seq(S) /\ y # <<>> /\ Head(y) = a /\ Tail(y) = <<b>> OBVIOUS
<1> HIDE DEF x, y
<1>3. x \in Seq(S) /\ x # <<>> /\ y \in Seq(S) /\ y # <<>> BY <1>1, <1>2
<1>4. x \o s # <<>> /\ Head(x \o s) = Head(x) /\ Tail(x \o s) = Tail(x) \o s /\ x \o s \in Seq(S)
    BY <1>3, ReadOne, ConcatProperties
<1>5. y \o s # <<>> /\ Head(y \o s) = Head(y) /\ Tail(y \o s) = Tail(y) \o s /\ y \o s \in Seq(S)
    BY <1>3, ReadOne, ConcatProperties
<1>6. <<>> \o s = s BY ConcatEmptySeq
<1> QED BY <1>1, <1>2, <1>4, <1>5, <1>6 DEF x, y

LEMMA Names == Servers \subseteq {"main", "san", "cmplog"} /\ "main" \in Servers /\ Extra \subseteq Servers
               /\ "main" \notin Extra /\ Servers = {"main"} \cup Extra
BY StartAssumption DEF Servers

LEMMA ItemTypes ==
    ASSUME NEW s \in Servers
    PROVE  Do("start", s) \in Items /\ Do("check", s) \in Items /\ Do("ijon", s) \in Items
           /\ Do("spawn", s) \in Items
BY DEF Do, Items

LEMMA LaterShape ==
    /\ "cmplog" \in Servers => Later("cmplog") = <<>>
    /\ "san" \in Servers => Later("san") = IF "cmplog" \in Extra THEN <<Do("spawn", "cmplog")>> \o <<>>
                                           ELSE <<>>
    /\ Later("main") = IF "san" \in Extra THEN <<Do("spawn", "san")>> \o Later("san")
                       ELSE IF "cmplog" \in Extra THEN <<Do("spawn", "cmplog")>> \o <<>> ELSE <<>>
    /\ \A s \in Servers : Later(s) \in Seq(Items)
<1> DEFINE c == <<Do("spawn", "cmplog")>>
           n == <<Do("spawn", "san")>>
<1>1. "cmplog" \in Extra => c \in Seq(Items) BY ItemTypes, Names
<1>2. "san" \in Extra => n \in Seq(Items) BY ItemTypes, Names
<1>3. <<>> \in Seq(Items) BY EmptySeq
<1>4. Later("cmplog") = <<>> BY DEF Later
<1>5. Later("san") = IF "cmplog" \in Extra THEN c ELSE <<>> BY DEF Later
<1>6. Later("main") = (IF "san" \in Extra THEN n ELSE <<>>) \o (IF "cmplog" \in Extra THEN c ELSE <<>>)
    BY DEF Later
<1> HIDE DEF c, n
<1>7. "cmplog" \in Extra => c \o <<>> = c /\ <<>> \o c = c BY <1>1, ConcatEmptySeq
<1>8. <<>> \o <<>> = <<>> BY <1>3, ConcatEmptySeq
<1>9. Later("san") \in Seq(Items) BY <1>1, <1>3, <1>5
<1>10. Later("main") = IF "san" \in Extra THEN n \o Later("san")
                       ELSE IF "cmplog" \in Extra THEN c \o <<>> ELSE <<>>
    <2>1. CASE "san" \in Extra BY <1>5, <1>6, <2>1
    <2>2. CASE "san" \notin Extra /\ "cmplog" \in Extra BY <1>6, <1>7, <2>2
    <2>3. CASE "san" \notin Extra /\ "cmplog" \notin Extra BY <1>6, <1>8, <2>3
    <2> QED BY <2>1, <2>2, <2>3
<1>11. Later("main") \in Seq(Items)
    <2>1. CASE "san" \in Extra BY <1>2, <1>9, <1>10, <2>1, ConcatProperties
    <2>2. CASE "san" \notin Extra BY <1>1, <1>3, <1>7, <1>10, <2>2
    <2> QED BY <2>1, <2>2
<1>12. \A s \in Servers : Later(s) \in Seq(Items) BY <1>3, <1>4, <1>9, <1>11, Names
<1> QED BY <1>4, <1>5, <1>7, <1>10, <1>12 DEF c, n

LEMMA RestShape ==
    ASSUME NEW s \in Servers
    PROVE  /\ Rest(s) \in Seq(Items)
           /\ s # "main" => Rest(s) = Later(s)
           /\ s = "main" => Rest(s) # <<>> /\ Head(Rest(s)) = Do("ijon", "main") /\ Tail(Rest(s)) = Later(s)
<1>1. Later(s) \in Seq(Items) BY LaterShape
<1>2. Do("ijon", "main") \in Items BY ItemTypes, Names
<1>3. CASE s = "main"
    <2>1. Rest(s) = <<Do("ijon", "main")>> \o Later(s) BY <1>3 DEF Rest
    <2> DEFINE d == Do("ijon", "main")
               L == Later(s)
    <2>2. d \in Items /\ L \in Seq(Items) BY <1>1, <1>2
    <2> HIDE DEF d, L
    <2>3. <<d>> \o L \in Seq(Items) /\ <<d>> \o L # <<>> /\ Head(<<d>> \o L) = d /\ Tail(<<d>> \o L) = L
        BY <2>2, Cons
    <2> QED BY <1>3, <2>1, <2>3 DEF d, L
<1>4. CASE s # "main"
    <2>1. Rest(s) = <<>> \o Later(s) BY <1>4 DEF Rest
    <2> QED BY <1>1, <1>4, <2>1, ConcatEmptySeq
<1> QED BY <1>3, <1>4

\* After the check or the restart of s.
Onward(s) == IF s = "main" THEN "ijon" ELSE "done"

LEMMA PlanShape ==
    ASSUME NEW s \in Servers
    PROVE  /\ Plan("first", s) # <<>> /\ Head(Plan("first", s)) = Do("start", s)
           /\ Tail(Plan("first", s)) = Plan("check", s)
           /\ Plan("check", s) # <<>> /\ Head(Plan("check", s)) = Do("check", s)
           /\ Tail(Plan("check", s)) = Plan(Onward(s), s)
           /\ Plan("both", s) # <<>> /\ Head(Plan("both", s)) = Do("start", "main")
           /\ Tail(Plan("both", s)) = Plan("again", s)
           /\ Plan("again", s) # <<>> /\ Head(Plan("again", s)) = Do("start", s)
           /\ Tail(Plan("again", s)) = Plan(Onward(s), s)
           /\ \A p \in Phases : Plan(p, s) \in Seq(Items)
           /\ s = "main" => /\ Plan("ijon", s) # <<>> /\ Head(Plan("ijon", s)) = Do("ijon", "main")
                            /\ Tail(Plan("ijon", s)) = Plan("done", s)
           /\ s = "main" => Starts(<<"main">>) \o Plan(Onward(s), s) = Plan("again", s)
           /\ s # "main" => Starts(<<"main", s>>) \o Plan(Onward(s), s) = Plan("both", s)
           /\ <<Do("start", s), Do("check", s)>> \o Rest(s) = Plan("first", s)
<1> DEFINE R == Rest(s)
           a == Do("start", s)
           c == Do("check", s)
           m == Do("start", "main")
<1>1. Plan("first", s) = <<a, c>> \o R /\ Plan("check", s) = <<c>> \o R /\ Plan("both", s) = <<m, a>> \o R
      /\ Plan("again", s) = <<a>> \o R /\ Plan("ijon", s) = R /\ Plan("done", s) = Later(s)
    BY DEF Plan
<1>2. R \in Seq(Items) BY RestShape
<1>3. a \in Items /\ c \in Items /\ m \in Items BY ItemTypes, Names
<1>4. Plan(Onward(s), s) = R BY <1>1, RestShape DEF Onward
<1>5. s = "main" => R # <<>> /\ Head(R) = Do("ijon", "main") /\ Tail(R) = Later(s) BY RestShape
<1>6. Starts(<<"main">>) = <<m>> BY DEF Starts
<1>7. Starts(<<"main", s>>) = <<m, a>> BY DEF Starts
<1>8. s = "main" => m = a OBVIOUS
<1> HIDE DEF R, a, c, m
<1>9. /\ <<a, c>> \o R # <<>> /\ Head(<<a, c>> \o R) = a /\ Tail(<<a, c>> \o R) = <<c>> \o R
      /\ <<c>> \o R # <<>> /\ Head(<<c>> \o R) = c /\ Tail(<<c>> \o R) = R
      /\ <<m, a>> \o R # <<>> /\ Head(<<m, a>> \o R) = m /\ Tail(<<m, a>> \o R) = <<a>> \o R
      /\ <<a>> \o R # <<>> /\ Head(<<a>> \o R) = a /\ Tail(<<a>> \o R) = R
      /\ <<a, c>> \o R \in Seq(Items) /\ <<c>> \o R \in Seq(Items) /\ <<m, a>> \o R \in Seq(Items)
      /\ <<a>> \o R \in Seq(Items)
    <2>1. /\ <<a, c>> \o R # <<>> /\ Head(<<a, c>> \o R) = a /\ Tail(<<a, c>> \o R) = <<c>> \o R
          /\ <<a, c>> \o R \in Seq(Items)
        BY <1>2, <1>3, Cons
    <2>2. /\ <<c>> \o R # <<>> /\ Head(<<c>> \o R) = c /\ Tail(<<c>> \o R) = R /\ <<c>> \o R \in Seq(Items)
        BY <1>2, <1>3, Cons
    <2>3. /\ <<m, a>> \o R # <<>> /\ Head(<<m, a>> \o R) = m /\ Tail(<<m, a>> \o R) = <<a>> \o R
          /\ <<m, a>> \o R \in Seq(Items)
        BY <1>2, <1>3, Cons
    <2>4. /\ <<a>> \o R # <<>> /\ Head(<<a>> \o R) = a /\ Tail(<<a>> \o R) = R /\ <<a>> \o R \in Seq(Items)
        BY <1>2, <1>3, Cons
    <2> QED BY <2>1, <2>2, <2>3, <2>4
<1>10. \A p \in Phases : Plan(p, s) \in Seq(Items) BY <1>1, <1>2, <1>9, LaterShape DEF Phases
<1> QED BY <1>1, <1>4, <1>5, <1>6, <1>7, <1>8, <1>9, <1>10 DEF R, a, c, m

Rank(s) == CASE s = "main" -> 1 [] s = "san" -> 2 [] s = "cmplog" -> 3

\* When main is done with s, the next server follows or all are up.
LEMMA PlanDone ==
    ASSUME NEW s \in Servers
    PROVE  \/ Plan("done", s) = <<>> /\ Before(s) \cup {s} = Servers
           \/ \E n \in Extra : /\ Plan("done", s) # <<>> /\ Head(Plan("done", s)) = Do("spawn", n)
                               /\ <<Do("start", n), Do("check", n)>> \o Tail(Plan("done", s)) = Plan("first", n)
                               /\ Before(n) = Before(s) \cup {s} /\ Rank(n) > Rank(s)
<1>1. Plan("done", s) = Later(s) BY DEF Plan
<1> DEFINE Follows(n) == /\ Later(s) # <<>> /\ Head(Later(s)) = Do("spawn", n)
                         /\ <<Do("start", n), Do("check", n)>> \o Tail(Later(s)) = Plan("first", n)
                         /\ Before(n) = Before(s) \cup {s} /\ Rank(n) > Rank(s)
<1>2. ASSUME NEW n \in Extra, Later(s) = <<Do("spawn", n)>> \o Later(n),
             Before(n) = Before(s) \cup {s}, Rank(n) > Rank(s)
      PROVE  Follows(n)
    <2>1. n \in Servers /\ n # "main" BY Names
    <2>2. Later(n) \in Seq(Items) /\ Do("spawn", n) \in Items BY <2>1, LaterShape, ItemTypes
    <2>3. Later(s) # <<>> /\ Head(Later(s)) = Do("spawn", n) /\ Tail(Later(s)) = Later(n)
        BY <1>2, <2>2, Cons
    <2>4. Rest(n) = Later(n) BY <2>1, RestShape
    <2>5. <<Do("start", n), Do("check", n)>> \o Later(n) = Plan("first", n) BY <2>1, <2>4, PlanShape
    <2> QED BY <1>2, <2>3, <2>5
<1> HIDE DEF Follows
<1>3. Rank("main") = 1 /\ Rank("san") = 2 /\ Rank("cmplog") = 3 BY DEF Rank
<1>4. Before("main") = {} /\ Before("san") = {"main"} /\ Before("cmplog") = Servers \ {"cmplog"}
    BY DEF Before
<1>5. CASE s = "cmplog" BY <1>1, <1>4, <1>5, LaterShape
<1>6. CASE s = "san"
    <2>1. CASE "cmplog" \in Extra
        <3>1. Servers = {"main", "san", "cmplog"} BY <1>6, <2>1, Names
        <3>2. Later(s) = <<Do("spawn", "cmplog")>> \o Later("cmplog")
            BY <1>6, <2>1, <3>1, LaterShape
        <3>3. Before("cmplog") = Before(s) \cup {s} /\ Rank("cmplog") > Rank(s)
            BY <1>3, <1>4, <1>6, <3>1
        <3>4. Follows("cmplog") BY <1>2, <2>1, <3>2, <3>3
        <3> QED BY <1>1, <2>1, <3>4 DEF Follows
    <2>2. CASE "cmplog" \notin Extra
        <3>1. Servers = {"main", "san"} BY <1>6, <2>2, Names
        <3> QED BY <1>1, <1>4, <1>6, <2>2, <3>1, LaterShape
    <2> QED BY <2>1, <2>2
<1>7. CASE s = "main"
    <2>1. CASE "san" \in Extra
        <3>1. Later(s) = <<Do("spawn", "san")>> \o Later("san") BY <1>7, <2>1, LaterShape
        <3>2. Before("san") = Before(s) \cup {s} /\ Rank("san") > Rank(s) BY <1>3, <1>4, <1>7
        <3>3. Follows("san") BY <1>2, <2>1, <3>1, <3>2
        <3> QED BY <1>1, <2>1, <3>3 DEF Follows
    <2>2. CASE "san" \notin Extra /\ "cmplog" \in Extra
        <3>1. Servers = {"main", "cmplog"} BY <2>2, Names
        <3>2. Later(s) = <<Do("spawn", "cmplog")>> \o Later("cmplog")
            BY <1>7, <2>2, <3>1, LaterShape
        <3>3. Before("cmplog") = Before(s) \cup {s} /\ Rank("cmplog") > Rank(s)
            BY <1>3, <1>4, <1>7, <3>1
        <3>4. Follows("cmplog") BY <1>2, <2>2, <3>2, <3>3
        <3> QED BY <1>1, <2>2, <3>4 DEF Follows
    <2>3. CASE "san" \notin Extra /\ "cmplog" \notin Extra
        <3>1. Servers = {"main"} BY <2>3, Names
        <3> QED BY <1>1, <1>4, <1>7, <2>3, <3>1, LaterShape
    <2> QED BY <2>1, <2>2, <2>3
<1> QED BY <1>5, <1>6, <1>7, Names

-----------------------------------------------------------------------------
(***************************************************************************)
(* The invariant, part by part.                                            *)
(***************************************************************************)
MainTypes ==
    /\ env \in [no_autodict : BOOLEAN, no_ijon : BOOLEAN] /\ agenda \in Seq(Items)
    /\ map_size \in Nat /\ buf \in Nat /\ shm \in [size : Nat, seg : 1 .. 4] /\ ijon_seg \in 0 .. 4
ReadTypes ==
    /\ at \in {"idle", "fatal", "hello", "opt", "map", "len", "dat", "final"}
    /\ why \in {"", "timeout", "handshake", "mapsize", "ijon"}
    /\ status \subseteq {"map", "shm", "dict", "ijon"} /\ dict_left \in 0 .. DictLen /\ extras \in 0 .. 1
FsrvRecord == [map_size : Nat, real_map_size : Nat, use_shmem_fuzz : BOOLEAN,
               use_ijon : BOOLEAN, seg : 0 .. 4]
FsrvTypes == fsrv \in [Servers -> FsrvRecord]
TargetRecord == [at : {"none", "boot", "wait", "send", "up", "dead"}, map : Nat, cov : Nat,
                 shmem : BOOLEAN, ijon : BOOLEAN, seg : 0 .. 4, left : Seq(Words)]
TargetTypes == target \in [Servers -> TargetRecord]
PipeTypes == st \in Seq(Words) /\ Len(ctl) <= 1
WhyOK == at = "fatal" <=> why # ""
IdleOK == at = "idle" => st = <<>>
Stage == \E p \in Phases, s \in Servers : OnTheWay(p, s) /\ (Good => Known(p, s))

LEMMA IInvParts ==
    IInv <=> /\ MainTypes /\ ReadTypes /\ FsrvTypes /\ TargetTypes /\ PipeTypes
             /\ ConfOK /\ WhyOK /\ IdleOK /\ GivesUpRightly /\ OneSize /\ TargetData /\ Handshake /\ Stage
<1>1. TypeOK <=> MainTypes /\ ReadTypes /\ FsrvTypes /\ TargetTypes /\ PipeTypes
    BY DEF TypeOK, MainTypes, ReadTypes, FsrvTypes, FsrvRecord, TargetTypes, TargetRecord,
       PipeTypes, Items
<1> QED BY <1>1 DEF IInv, WhyOK, IdleOK, Stage

LEMMA IInvNext ==
    ASSUME MainTypes', ReadTypes', FsrvTypes', TargetTypes', PipeTypes', ConfOK', WhyOK', IdleOK',
           GivesUpRightly', OneSize', TargetData', Handshake', Stage'
    PROVE  IInv'
<1>1. TypeOK'
    BY DEF TypeOK, MainTypes, ReadTypes, FsrvTypes, FsrvRecord, TargetTypes, TargetRecord,
       PipeTypes, Items
<1> QED BY <1>1 DEF IInv, WhyOK, IdleOK, Stage

\* What a server asks for.
LEMMA SizeFacts ==
    ASSUME ConfOK, NEW s \in Servers
    PROVE  /\ \A i \in BOOLEAN : /\ Cov(s, i) \in Nat /\ MapOf(s, i) \in Nat /\ Cov(s, i) <= MapOf(s, i)
                                 /\ RoundUp(MapOf(s, i)) \in Nat /\ MapOf(s, i) <= RoundUp(MapOf(s, i))
           /\ Cov(s, TRUE) + IjonBytes = MapOf(s, TRUE)
           /\ RoundUp(MapOf(s, FALSE)) + IjonBytes <= RoundUp(MapOf(s, TRUE))
<1> DEFINE z == conf.size[s]
           R == RoundUp(z)
           a == MapOf(s, FALSE)
           b == MapOf(s, TRUE)
<1>1. IjonBytes \in Nat /\ IjonMap \in Nat BY StartAssumption
<1>2. z \in Nat BY StartAssumption DEF ConfOK
<1>3. R \in Nat /\ z <= R BY <1>2, RoundUpBounds
<1>4. Cov(s, FALSE) = z /\ a = z /\ Cov(s, TRUE) = R + IjonMap /\ b = R + IjonMap + IjonBytes
    BY DEF Cov, MapOf
<1>5. RoundUp(a) = R BY <1>4
<1> DEFINE B == RoundUp(b)
<1> HIDE DEF z, R, a, b, B
<1>6. R + IjonMap \in Nat /\ b \in Nat /\ R + IjonMap <= b /\ R + IjonBytes <= b BY <1>1, <1>3, <1>4
<1>7. B \in Nat /\ b <= B BY <1>6, RoundUpBounds DEF B
<1>8. R + IjonBytes <= B BY <1>1, <1>3, <1>6, <1>7
<1>9. ASSUME NEW i \in BOOLEAN
      PROVE  /\ Cov(s, i) \in Nat /\ MapOf(s, i) \in Nat /\ Cov(s, i) <= MapOf(s, i)
             /\ RoundUp(MapOf(s, i)) \in Nat /\ MapOf(s, i) <= RoundUp(MapOf(s, i))
    <2>1. MapOf(s, FALSE) = z /\ Cov(s, FALSE) = z /\ RoundUp(MapOf(s, FALSE)) = R
        BY <1>4, <1>5 DEF a
    <2>2. MapOf(s, TRUE) = b /\ Cov(s, TRUE) = R + IjonMap /\ RoundUp(MapOf(s, TRUE)) = B
        BY <1>4 DEF b, B
    <2>3. z <= z BY <1>2
    <2>4. CASE i = FALSE BY <1>2, <1>3, <2>1, <2>3, <2>4
    <2>5. CASE i = TRUE BY <1>6, <1>7, <2>2, <2>5
    <2> QED BY <2>4, <2>5
<1>10. RoundUp(MapOf(s, FALSE)) + IjonBytes <= RoundUp(MapOf(s, TRUE)) BY <1>5, <1>8 DEF a, b, B
<1>11. Cov(s, TRUE) + IjonBytes = MapOf(s, TRUE) BY <1>4 DEF b
<1> QED BY <1>9, <1>10, <1>11

LEMMA NeedKept ==
    ASSUME UNCHANGED <<conf, env>>
    PROVE  (Ijon' <=> Ijon) /\ (\A r : Need(r)' = Need(r)) /\ TheDict' = TheDict
BY DEF Ijon, Need, MapOf, Cov, TheDict

\* What the runtime sends after the reply, and in which order.
LEMMA ParamsShape ==
    ASSUME ConfOK, NEW t \in TargetRecord, NEW P, P = Params(t), NEW n
    PROVE  /\ P \in Seq(Words) /\ P # <<>> /\ Head(P) = Word("opt", 0, Options(t))
           /\ Tail(P) \in Seq(Words) /\ Tail(P) # <<>> /\ Head(Tail(P)) = Word("map", t.map, {})
           /\ conf.dict => Tail(Tail(P)) = Awaited("len", n, P)
           /\ ~conf.dict => Tail(Tail(P)) = Awaited("final", n, P)
           /\ t.map \in Nat /\ Options(t) \in SUBSET {"map", "shm", "dict", "ijon"} /\ conf.dict \in BOOLEAN
<1> DEFINE o == Word("opt", 0, Options(t))
           m == Word("map", t.map, {})
           D == IF conf.dict THEN <<Word("len", DictLen, {})>> \o Dats(DictLen) ELSE <<>>
<1>0. t.map \in Nat /\ Options(t) \in SUBSET {"map", "shm", "dict", "ijon"} /\ conf.dict \in BOOLEAN
    BY DEF TargetRecord, Options, ConfOK
<1>1. o \in Words /\ m \in Words /\ Hello \in Words BY <1>0, WordTypes
<1>2. D \in Seq(Words)
    <2>1. Dats(DictLen) \in Seq(Words) BY DatsShape, StartAssumption
    <2>2. <<Word("len", DictLen, {})>> \in Seq(Words) BY WordTypes
    <2> QED BY <2>1, <2>2, ConcatProperties
<1>3. P = (<<o, m>> \o D) \o <<Hello>> BY DEF Params, Dats
<1>4. /\ conf.dict => D \o <<Hello>> = Awaited("len", n, P)
      /\ ~conf.dict => D \o <<Hello>> = Awaited("final", n, P)
    <2>1. CASE conf.dict BY <2>1 DEF Awaited
    <2>2. CASE ~conf.dict
        <3>1. D = <<>> /\ <<Hello>> \in Seq(Words) BY <1>1, <2>2
        <3>2. D \o <<Hello>> = <<Hello>> BY <3>1, ConcatEmptySeq
        <3> QED BY <2>2, <3>2 DEF Awaited
    <2> QED BY <2>1, <2>2
<1> HIDE DEF o, m, D
<1>5. <<o, m>> \in Seq(Words) /\ <<Hello>> \in Seq(Words) /\ <<m>> \in Seq(Words) BY <1>1
<1>6. D \o <<Hello>> \in Seq(Words) BY <1>2, <1>5, ConcatProperties
<1> DEFINE Z == D \o <<Hello>>
<1>7. P = <<o, m>> \o Z BY <1>2, <1>3, <1>5, ConcatAssociative
<1>8. Z \in Seq(Words) BY <1>6
<1> HIDE DEF Z
<1> DEFINE x == <<o, m>>
           y == <<m>>
<1>9. x # <<>> /\ Head(x) = o /\ Tail(x) = y /\ y # <<>> /\ Head(y) = m /\ Tail(y) = <<>>
    OBVIOUS
<1>a. x \in Seq(Words) /\ y \in Seq(Words) /\ P = x \o Z BY <1>5, <1>7
<1> HIDE DEF x, y
<1>b. x \in Seq(Words) /\ y \in Seq(Words) /\ Z \in Seq(Words) /\ x # <<>> /\ y # <<>>
    BY <1>8, <1>9, <1>a
<1>c. x \o Z # <<>> /\ Head(x \o Z) = Head(x) /\ Tail(x \o Z) = Tail(x) \o Z BY <1>b, ReadOne
<1>d. y \o Z # <<>> /\ Head(y \o Z) = Head(y) /\ Tail(y \o Z) = Tail(y) \o Z BY <1>b, ReadOne
<1>10. P # <<>> /\ Head(P) = o /\ Tail(P) = y \o Z BY <1>9, <1>a, <1>c
<1>11. Tail(P) # <<>> /\ Head(Tail(P)) = m /\ Tail(Tail(P)) = <<>> \o Z
    BY <1>9, <1>10, <1>d
<1>12. <<>> \o Z = Z BY <1>8, ConcatEmptySeq
<1>13. P \in Seq(Words) /\ Tail(P) \in Seq(Words) BY <1>8, <1>10, <1>a, ConcatProperties
<1> QED BY <1>0, <1>4, <1>10, <1>11, <1>12, <1>13 DEF o, m, Z

-----------------------------------------------------------------------------
(***************************************************************************)
(* Where main is.                                                          *)
(***************************************************************************)
\* The phase after the one in which a server is started.
Then(p, s) == CASE p = "first" -> "check" [] p = "both" -> "again" [] p = "again" -> Onward(s)

LEMMA PhaseHeads ==
    ASSUME NEW p \in Phases, NEW s \in Servers, OnTheWay(p, s)
    PROVE  /\ agenda = Plan(p, s)
           /\ p \in {"first", "both", "again"} =>
                  /\ agenda # <<>> /\ Tail(agenda) = Plan(Then(p, s), s)
                  /\ Head(agenda) = Do("start", IF p = "both" THEN "main" ELSE s)
           /\ p = "check" => /\ agenda # <<>> /\ Head(agenda) = Do("check", s)
                             /\ Tail(agenda) = Plan(Onward(s), s)
           /\ p = "ijon" => /\ s = "main" /\ agenda # <<>> /\ Head(agenda) = Do("ijon", "main")
                            /\ Tail(agenda) = Plan("done", s)
           /\ p = "done" /\ agenda # <<>> => \E n \in Extra : Head(agenda) = Do("spawn", n)
<1>1. agenda = Plan(p, s) /\ (p = "ijon" => s = "main") BY DEF OnTheWay
<1>2. Then("first", s) = "check" /\ Then("both", s) = "again" /\ Then("again", s) = Onward(s)
    BY DEF Then
<1>3. p = "done" /\ agenda # <<>> => \E n \in Extra : Head(agenda) = Do("spawn", n)
    BY <1>1, PlanDone
<1>4. CASE p = "first" BY <1>1, <1>2, <1>4, PlanShape
<1>5. CASE p = "both" BY <1>1, <1>2, <1>5, PlanShape
<1>6. CASE p = "again" BY <1>1, <1>2, <1>6, PlanShape
<1>7. CASE p = "check" BY <1>1, <1>7, PlanShape
<1>8. CASE p = "ijon" BY <1>1, <1>8, PlanShape
<1> QED BY <1>1, <1>3, <1>4, <1>5, <1>6, <1>7, <1>8 DEF Phases

LEMMA AtStart ==
    ASSUME NEW p \in Phases, NEW s \in Servers, OnTheWay(p, s), Head(agenda).do = "start", agenda # <<>>
    PROVE  /\ p \in {"first", "both", "again"} /\ Cur = (IF p = "both" THEN "main" ELSE s) /\ Cur \in Servers
           /\ Cur \notin Served(p, s) /\ Tail(agenda) = Plan(Then(p, s), s)
<1>1. \A d, r : Do(d, r).do = d /\ Do(d, r).srv = r BY DEF Do
<1>2. p \in {"first", "both", "again"} BY <1>1, PhaseHeads DEF Phases
<1>3. Head(agenda) = Do("start", IF p = "both" THEN "main" ELSE s) /\ Tail(agenda) = Plan(Then(p, s), s)
    BY <1>2, PhaseHeads
<1>4. Cur = IF p = "both" THEN "main" ELSE s BY <1>1, <1>3 DEF Cur
<1>5. Cur \in Servers BY <1>4, Names
<1>6. Cur \notin Served(p, s)
    <2>1. "main" \in Servers /\ s \in {"main", "san", "cmplog"} BY Names
    <2>2. s \notin Before(s) BY <2>1 DEF Before
    <2>3. CASE p = "both" BY <1>4, <2>3 DEF Served
    <2>4. CASE p # "both"
        <3>1. Served(p, s) = Before(s) BY <1>2, <2>4 DEF Served
        <3> QED BY <1>4, <2>2, <2>4, <3>1
    <2> QED BY <2>3, <2>4
<1> QED BY <1>2, <1>3, <1>4, <1>5, <1>6

\* What main does when no handshake is under way.
LEMMA AtDoing ==
    ASSUME NEW p \in Phases, NEW s \in Servers, OnTheWay(p, s), NEW d, NEW r, Doing(d, r)
    PROVE  /\ d = "check" => p = "check" /\ r = s /\ Tail(agenda) = Plan(Onward(s), s)
           /\ d = "ijon" => p = "ijon" /\ s = "main" /\ Tail(agenda) = Plan("done", s)
           /\ d = "spawn" => p = "done"
<1>1. \A x, y : Do(x, y).do = x /\ Do(x, y).srv = y BY DEF Do
<1>2. agenda # <<>> /\ Head(agenda).do = d /\ Head(agenda).srv = r BY <1>1 DEF Doing
<1> QED BY <1>1, <1>2, PhaseHeads DEF Phases

-----------------------------------------------------------------------------
(***************************************************************************)
(* The runtime's side of the handshake.                                    *)
(***************************************************************************)
LEMMA TargetStep ==
    ASSUME IInv, Starting, UNCHANGED <<fuzzer, fooled>>, target[Cur].at # "dead",
           NEW t \in TargetRecord, target' = [target EXCEPT ![Cur] = t], t.seg <= shm.seg,
           t.at \in {"wait", "send", "up"} =>
               /\ t.cov = Cov(Cur, t.ijon) /\ t.map = MapOf(Cur, t.ijon) /\ t.shmem = conf.shmem
               /\ t.ijon = Ijon /\ t.seg = shm.seg,
           st' \in Seq(Words), Len(ctl') <= 1,
           IF at = "hello" THEN Greeting(t)' ELSE Exchange(t)'
    PROVE  IInv'
<1>1. PICK p \in Phases, s \in Servers : OnTheWay(p, s) /\ (Good => Known(p, s))
    BY IInvParts DEF Stage
<1>2. agenda # <<>> /\ Head(agenda).do = "start" /\ at \notin {"idle", "fatal"} BY DEF Starting
<1>3. p \in {"first", "both", "again"} /\ Cur \in Servers /\ Cur \notin Served(p, s)
    BY <1>1, <1>2, AtStart
<1>4. /\ conf' = conf /\ env' = env /\ agenda' = agenda /\ at' = at /\ why' = why /\ status' = status
      /\ dict_left' = dict_left /\ fsrv' = fsrv /\ map_size' = map_size /\ buf' = buf /\ shm' = shm
      /\ ijon_seg' = ijon_seg /\ extras' = extras /\ fooled' = fooled
    BY DEF fuzzer
<1>5. Cur' = Cur /\ Starting' BY <1>2, <1>4 DEF Cur, Starting
<1>6. target'[Cur] = t /\ \A r \in Servers \ {Cur} : target'[r] = target[r]
    BY <1>3, IInvParts DEF TargetTypes
<1>7. (Ijon' <=> Ijon) /\ (\A r : Need(r)' = Need(r)) /\ TheDict' = TheDict BY <1>4, NeedKept
<1>8. \A r, i : Cov(r, i)' = Cov(r, i) /\ MapOf(r, i)' = MapOf(r, i) BY <1>4 DEF Cov, MapOf
<1>9. MainTypes' BY <1>4, IInvParts DEF MainTypes
<1>10. ReadTypes' BY <1>4, IInvParts DEF ReadTypes
<1>11. FsrvTypes' BY <1>4, IInvParts DEF FsrvTypes
<1>12. TargetTypes' BY IInvParts DEF TargetTypes
<1>13. PipeTypes' BY DEF PipeTypes
<1>14. ConfOK' BY <1>4, IInvParts DEF ConfOK
<1>15. WhyOK' /\ IdleOK' /\ why = "" BY <1>2, <1>4, IInvParts DEF WhyOK, IdleOK
<1>16. GivesUpRightly' BY <1>4, <1>15 DEF GivesUpRightly
<1>17. OneSize'
    <2>1. OneSize BY IInvParts
    <2>2. \A r \in Servers : target'[r].seg <= shm.seg BY <1>6, <2>1 DEF OneSize
    <2>3. RoundUp(conf.user)' = RoundUp(conf.user) BY <1>4
    <2> QED BY <1>4, <2>1, <2>2, <2>3 DEF OneSize
<1>18. TargetData'
    <2>1. TargetData BY IInvParts
    <2> SUFFICES ASSUME NEW r \in Servers, target'[r].at \in {"wait", "send", "up"}
                 PROVE  /\ target'[r].cov = Cov(r, target'[r].ijon) /\ target'[r].map = MapOf(r, target'[r].ijon)
                        /\ target'[r].shmem = conf.shmem
        BY <1>4, <1>8 DEF TargetData
    <2>2. CASE r = Cur BY <1>6, <2>2
    <2>3. CASE r # Cur BY <1>6, <2>1, <2>3 DEF TargetData
    <2> QED BY <2>2, <2>3
<1>19. Handshake' BY <1>4, <1>5, <1>6, <1>7 DEF Handshake
<1>20. OnTheWay(p, s)' BY <1>1, <1>4 DEF OnTheWay
<1>21. ASSUME Good' PROVE Known(p, s)'
    <2>1. Good BY <1>2, <1>4, <1>21 DEF Good
    <2>2. Known(p, s) BY <1>1, <2>1
    <2>3. \A r : Told(r)' <=> Told(r) BY <1>4, <1>7 DEF Told
    <2>4. \A r : Fits(r)' <=> Fits(r) BY <1>4, <1>7 DEF Fits
    <2>5. \A r \in Servers \ {Cur} : Serves(r)' <=> Serves(r) BY <1>4, <1>6 DEF Serves
    <2>6. \A r \in Served(p, s) : r \in Servers \ {Cur} BY <1>3, Names DEF Served, Before
    <2>7. \A r \in Served(p, s) : Serves(r)' BY <2>2, <2>5, <2>6 DEF Known
    <2>8. RoundUp(conf.user)' = RoundUp(conf.user) BY <1>4
    <2> QED BY <1>3, <1>4, <1>5, <1>7, <2>2, <2>3, <2>4, <2>7, <2>8 DEF Known
<1>22. Stage' BY <1>20, <1>21 DEF Stage
<1> QED
    BY <1>9, <1>10, <1>11, <1>12, <1>13, <1>14, <1>15, <1>16, <1>17, <1>18, <1>19, <1>22, IInvNext

\* The server under way.
LEMMA CurKnown ==
    ASSUME IInv, Starting
    PROVE  /\ Cur \in Servers /\ target[Cur] \in TargetRecord /\ at \notin {"idle", "fatal"}
           /\ agenda # <<>> /\ Head(agenda).do = "start"
           /\ target[Cur].seg <= shm.seg /\ shm.seg \in 1 .. 4
           /\ target[Cur].at \in {"wait", "send", "up"} =>
                  /\ target[Cur].ijon = Ijon /\ target[Cur].seg = shm.seg
                  /\ target[Cur].cov = Cov(Cur, target[Cur].ijon)
                  /\ target[Cur].map = MapOf(Cur, target[Cur].ijon)
                  /\ target[Cur].shmem = conf.shmem
           /\ IF at = "hello" THEN Greeting(target[Cur]) ELSE Exchange(target[Cur])
           /\ st \in Seq(Words) /\ ConfOK /\ conf.old \in BOOLEAN
<1>1. PICK p \in Phases, s \in Servers : OnTheWay(p, s) BY IInvParts DEF Stage
<1>2. agenda # <<>> /\ Head(agenda).do = "start" /\ at \notin {"idle", "fatal"} BY DEF Starting
<1>3. Cur \in Servers BY <1>1, <1>2, AtStart
<1>4. target[Cur] \in TargetRecord BY <1>3, IInvParts DEF TargetTypes
<1>5. target[Cur].seg <= shm.seg BY <1>3, IInvParts DEF OneSize
<1>6. /\ target[Cur].at \in {"wait", "send", "up"} =>
             target[Cur].ijon = Ijon /\ target[Cur].seg = shm.seg
      /\ IF at = "hello" THEN Greeting(target[Cur]) ELSE Exchange(target[Cur])
    BY <1>2, IInvParts DEF Handshake
<1>7. target[Cur].at \in {"wait", "send", "up"} =>
          /\ target[Cur].cov = Cov(Cur, target[Cur].ijon) /\ target[Cur].map = MapOf(Cur, target[Cur].ijon)
          /\ target[Cur].shmem = conf.shmem
    BY <1>3, IInvParts DEF TargetData
<1>8. st \in Seq(Words) /\ shm.seg \in 1 .. 4 BY IInvParts DEF PipeTypes, MainTypes
<1>9. ConfOK /\ conf.old \in BOOLEAN BY IInvParts DEF ConfOK
<1> QED BY <1>2, <1>3, <1>4, <1>5, <1>6, <1>7, <1>8, <1>9

LEMMA SayHelloIInv == IInv /\ SayHello => IInv'
<1> SUFFICES ASSUME IInv, SayHello PROVE IInv' OBVIOUS
<1> DEFINE cov == Cov(Cur, Ijon)
<1>1. PICK t : t = [at |-> IF conf.old THEN "up" ELSE "wait", cov |-> cov,
                    map |-> MapOf(Cur, Ijon), shmem |-> conf.shmem, ijon |-> Ijon, seg |-> shm.seg,
                    left |-> <<>>]
    OBVIOUS
<1>2. /\ Starting /\ target[Cur].at = "boot" /\ target' = [target EXCEPT ![Cur] = t]
      /\ st' = Append(st, IF conf.old THEN Word("old", 0, {}) ELSE Hello)
      /\ UNCHANGED <<fuzzer, fooled>> /\ ctl' = ctl
    BY <1>1 DEF SayHello, Cov, MapOf, Ijon
<1>3. Cur \in Servers /\ st \in Seq(Words) /\ ConfOK /\ shm.seg \in 1 .. 4 BY <1>2, CurKnown
<1>4. at = "hello" /\ Greeting(target[Cur]) BY <1>2, CurKnown DEF Exchange
<1>5. Ijon \in BOOLEAN /\ conf.shmem \in BOOLEAN /\ conf.old \in BOOLEAN
    BY IInvParts DEF ConfOK, Ijon, MainTypes
<1>6. Cov(Cur, Ijon) \in Nat /\ MapOf(Cur, Ijon) \in Nat BY <1>3, <1>5, SizeFacts
<1>7. <<>> \in Seq(Words) BY EmptySeq
<1>8. t \in TargetRecord BY <1>1, <1>3, <1>5, <1>6, <1>7 DEF TargetRecord
<1>9. Word("old", 0, {}) \in Words BY DEF Word, Words
<1>10. st = <<>> /\ ctl = <<>> BY <1>2, <1>4 DEF Greeting
<1>11. st' = <<IF conf.old THEN Word("old", 0, {}) ELSE Hello>> BY <1>2, <1>10
<1>12. st' \in Seq(Words) BY <1>9, <1>11, WordTypes
<1>13. Len(ctl') <= 1 BY <1>2, <1>10
<1>14. conf' = conf BY <1>2 DEF fuzzer
<1>15. Greeting(t)' BY <1>1, <1>2, <1>5, <1>10, <1>11, <1>14 DEF Greeting
<1>16. t.seg <= shm.seg BY <1>1, <1>3
<1>17. t.cov = Cov(Cur, t.ijon) /\ t.map = MapOf(Cur, t.ijon) /\ t.shmem = conf.shmem
       /\ t.ijon = Ijon /\ t.seg = shm.seg
    BY <1>1
<1>18. target[Cur].at # "dead" BY <1>2
<1> QED BY <1>2, <1>4, <1>8, <1>12, <1>13, <1>15, <1>16, <1>17, <1>18, TargetStep

LEMMA SendErrorIInv == IInv /\ SendError => IInv'
<1> SUFFICES ASSUME IInv, SendError PROVE IInv' OBVIOUS
<1>1. PICK t : t = [target[Cur] EXCEPT !.at = "dead"] OBVIOUS
<1>2. /\ Starting /\ target[Cur].at = "boot" /\ target' = [target EXCEPT ![Cur] = t]
      /\ st' = Append(st, Word("err", 0, {})) /\ UNCHANGED <<fuzzer, fooled>> /\ ctl' = ctl
    BY <1>1 DEF SendError
<1>3. target[Cur] \in TargetRecord /\ target[Cur].seg <= shm.seg BY <1>2, CurKnown
<1>4. at = "hello" /\ Greeting(target[Cur]) BY <1>2, CurKnown DEF Exchange
<1>5. t \in TargetRecord /\ t.at = "dead" /\ t.seg = target[Cur].seg BY <1>1, <1>3 DEF TargetRecord
<1>6. st = <<>> /\ ctl = <<>> BY <1>2, <1>4 DEF Greeting
<1>7. st' = <<Word("err", 0, {})>> BY <1>2, <1>6
<1>8. st' \in Seq(Words) BY <1>7 DEF Word, Words
<1>9. Len(ctl') <= 1 BY <1>2, <1>6
<1>10. Greeting(t)' BY <1>2, <1>5, <1>6, <1>7 DEF Greeting
<1> QED BY <1>2, <1>3, <1>4, <1>5, <1>8, <1>9, <1>10, TargetStep

LEMMA ReadReplyIInv == IInv /\ ReadReply => IInv'
<1> SUFFICES ASSUME IInv, ReadReply PROVE IInv' OBVIOUS
<1> DEFINE T == target[Cur]
<1>1. PICK t : t = [T EXCEPT !.at = "send", !.left = Params(T)] OBVIOUS
<1>2. /\ Starting /\ T.at = "wait" /\ ctl # <<>> /\ target' = [target EXCEPT ![Cur] = t]
      /\ ctl' = Tail(ctl) /\ UNCHANGED <<fuzzer, fooled>> /\ st' = st
    <2>1. /\ Starting /\ T.at = "wait" /\ ctl # <<>> /\ ctl' = Tail(ctl)
          /\ target' = [target EXCEPT ![Cur].at = "send", ![Cur].left = Params(target[Cur])]
          /\ UNCHANGED <<fuzzer, fooled>> /\ st' = st
        BY DEF ReadReply
    <2>2. target' = [target EXCEPT ![Cur] = t]
        <3>1. Cur \in Servers BY <2>1, CurKnown
        <3> QED BY <1>1, <2>1, <3>1, IInvParts DEF TargetTypes, TargetRecord
    <2> QED BY <2>1, <2>2
<1>3. /\ T \in TargetRecord /\ T.seg <= shm.seg /\ ConfOK /\ st \in Seq(Words)
      /\ T.ijon = Ijon /\ T.seg = shm.seg /\ T.cov = Cov(Cur, T.ijon) /\ T.map = MapOf(Cur, T.ijon)
      /\ T.shmem = conf.shmem
    BY <1>2, CurKnown
<1>4. at # "hello" /\ Exchange(T) BY <1>2, CurKnown DEF Greeting
<1>5. at = "opt" /\ st = <<>> /\ ~conf.old BY <1>2, <1>4 DEF Exchange
<1> DEFINE P == Params(T)
<1>6. P \in Seq(Words) /\ P # <<>> BY <1>3, ParamsShape
<1>7. t \in TargetRecord BY <1>1, <1>3, <1>6 DEF TargetRecord
<1>8. /\ t.at = "send" /\ t.left = P /\ t.seg = T.seg /\ t.ijon = T.ijon /\ t.cov = T.cov /\ t.map = T.map
      /\ t.shmem = T.shmem
    BY <1>1, <1>3 DEF TargetRecord
<1>9. conf' = conf /\ at' = at /\ status' = status /\ dict_left' = dict_left BY <1>2 DEF fuzzer
<1>10. Params(t)' = P BY <1>8, <1>9 DEF Params, Options
<1>11. st' \o t.left = Awaited(at, dict_left, Params(t))'
    <2>1. <<>> \o P = P BY <1>6, ConcatEmptySeq
    <2>2. Awaited(at, dict_left, Params(t))' = P BY <1>5, <1>9, <1>10 DEF Awaited
    <2> QED BY <1>2, <1>5, <1>8, <2>1, <2>2
<1>12. Exchange(t)'
    <2> HIDE DEF T, P
    <2> QED BY <1>5, <1>6, <1>8, <1>9, <1>11 DEF Exchange
<1>13. Len(ctl') <= 1
    <2>1. Len(ctl) <= 1 BY IInvParts DEF PipeTypes
    <2> QED BY <1>2, <2>1
<1>14. st' \in Seq(Words) BY <1>2, <1>3
<1>15. t.seg <= shm.seg BY <1>3, <1>8
<1>16. t.cov = Cov(Cur, t.ijon) /\ t.map = MapOf(Cur, t.ijon) /\ t.shmem = conf.shmem
       /\ t.ijon = Ijon /\ t.seg = shm.seg
    BY <1>3, <1>8
<1>17. target[Cur].at # "dead" BY <1>2
<1> QED BY <1>2, <1>4, <1>7, <1>12, <1>13, <1>14, <1>15, <1>16, <1>17, TargetStep

LEMMA SendWordIInv == IInv /\ SendWord => IInv'
<1> SUFFICES ASSUME IInv, SendWord PROVE IInv' OBVIOUS
<1> DEFINE T == target[Cur]
           L == T.left
<1>1. PICK t : t = [T EXCEPT !.at = IF Len(L) = 1 THEN "up" ELSE "send", !.left = Tail(L)] OBVIOUS
<1>2. /\ Starting /\ T.at = "send" /\ target' = [target EXCEPT ![Cur] = t]
      /\ st' = Append(st, Head(L)) /\ UNCHANGED <<fuzzer, fooled>> /\ ctl' = ctl
    <2>1. /\ Starting /\ T.at = "send" /\ st' = Append(st, Head(L))
          /\ target' = [target EXCEPT ![Cur].left = Tail(@),
                                      ![Cur].at = IF Len(L) = 1 THEN "up" ELSE @]
          /\ UNCHANGED <<fuzzer, fooled>> /\ ctl' = ctl
        BY DEF SendWord
    <2>2. target' = [target EXCEPT ![Cur] = t]
        <3>1. Cur \in Servers BY <2>1, CurKnown
        <3> QED BY <1>1, <2>1, <3>1, IInvParts DEF TargetTypes, TargetRecord
    <2> QED BY <2>1, <2>2
<1>3. /\ T \in TargetRecord /\ T.seg <= shm.seg /\ ConfOK /\ st \in Seq(Words)
      /\ T.ijon = Ijon /\ T.seg = shm.seg /\ T.cov = Cov(Cur, T.ijon) /\ T.map = MapOf(Cur, T.ijon)
      /\ T.shmem = conf.shmem
    BY <1>2, CurKnown
<1>4. at # "hello" /\ Exchange(T) BY <1>2, CurKnown DEF Greeting
<1>5. /\ ~conf.old /\ L # <<>> /\ st \o L = Awaited(at, dict_left, Params(T))
      /\ (at = "opt" \/ status = Options(T)) /\ (at = "dat" => dict_left # 0)
      /\ (at \in {"len", "dat"} => conf.dict)
    BY <1>2, <1>4 DEF Exchange
<1>6. L \in Seq(Words) BY <1>3 DEF TargetRecord
<1>7. /\ st' \o Tail(L) = st \o L /\ st' # <<>> /\ st' \in Seq(Words) /\ Tail(L) \in Seq(Words)
      /\ (Len(L) = 1 <=> Tail(L) = <<>>)
    <2>1. L \in Seq(Words) /\ st \in Seq(Words) /\ L # <<>> BY <1>3, <1>5, <1>6
    <2> HIDE DEF L
    <2> QED BY <1>2, <2>1, SendOne
<1>8. t \in TargetRecord BY <1>1, <1>3, <1>7 DEF TargetRecord
<1>9. /\ t.at = (IF Len(L) = 1 THEN "up" ELSE "send") /\ t.left = Tail(L) /\ t.seg = T.seg
      /\ t.ijon = T.ijon /\ t.cov = T.cov /\ t.map = T.map /\ t.shmem = T.shmem
    BY <1>1, <1>3 DEF TargetRecord
<1>10. conf' = conf /\ at' = at /\ status' = status /\ dict_left' = dict_left BY <1>2 DEF fuzzer
<1>11. Params(t)' = Params(T) /\ Options(t)' = Options(T) BY <1>9, <1>10 DEF Params, Options
<1>12. st' \o t.left = Awaited(at, dict_left, Params(t))'
    <2>1. Awaited(at, dict_left, Params(t))' = Awaited(at, dict_left, Params(T))
        BY <1>10, <1>11 DEF Awaited, Dats
    <2> QED BY <1>5, <1>7, <1>9, <2>1
<1>13. Exchange(t)'
    <2>1. t.at = "send" \/ t.at = "up" BY <1>9
    <2>2. (t.at = "send" => t.left # <<>>) /\ (t.at = "up" => t.left = <<>>) BY <1>7, <1>9
    <2> HIDE DEF T, L
    <2> QED BY <1>5, <1>10, <1>11, <1>12, <2>1, <2>2 DEF Exchange
<1>14. Len(ctl') <= 1 BY <1>2, IInvParts DEF PipeTypes
<1>15. t.seg <= shm.seg BY <1>3, <1>9
<1>16. t.cov = Cov(Cur, t.ijon) /\ t.map = MapOf(Cur, t.ijon) /\ t.shmem = conf.shmem
       /\ t.ijon = Ijon /\ t.seg = shm.seg
    BY <1>3, <1>9
<1>17. target[Cur].at # "dead" BY <1>2
<1> QED BY <1>2, <1>4, <1>7, <1>8, <1>13, <1>14, <1>15, <1>16, <1>17, TargetStep

LEMMA TargetDiesIInv == IInv /\ TargetDies => IInv'
<1> SUFFICES ASSUME IInv, TargetDies PROVE IInv' OBVIOUS
<1> DEFINE T == target[Cur]
<1>1. PICK t : t = [T EXCEPT !.at = "dead"] OBVIOUS
<1>2. /\ Starting /\ T.at \in {"boot", "wait", "send"} /\ target' = [target EXCEPT ![Cur] = t]
      /\ st' = st /\ UNCHANGED <<fuzzer, fooled>> /\ ctl' = ctl
    BY <1>1 DEF TargetDies
<1>3. T \in TargetRecord /\ T.seg <= shm.seg /\ st \in Seq(Words) BY <1>2, CurKnown
<1>4. IF at = "hello" THEN Greeting(T) ELSE Exchange(T) BY <1>2, CurKnown
<1>5. t \in TargetRecord BY <1>1, <1>3 DEF TargetRecord
<1>6. /\ t.at = "dead" /\ t.left = T.left /\ t.seg = T.seg
      /\ t.ijon = T.ijon /\ t.cov = T.cov /\ t.map = T.map /\ t.shmem = T.shmem
    BY <1>1, <1>3 DEF TargetRecord
<1>7. conf' = conf /\ at' = at /\ status' = status /\ dict_left' = dict_left BY <1>2 DEF fuzzer
<1>8. Params(t)' = Params(T) /\ Options(t)' = Options(T) BY <1>6, <1>7 DEF Params, Options
<1>9. Awaited(at, dict_left, Params(t))' = Awaited(at, dict_left, Params(T))
    BY <1>7, <1>8 DEF Awaited, Dats
<1>10. Len(ctl') <= 1 BY <1>2, IInvParts DEF PipeTypes
<1>11. ASSUME at = "hello" PROVE Greeting(t)' BY <1>2, <1>4, <1>6, <1>7, <1>11 DEF Greeting
<1>12. ASSUME at # "hello" PROVE Exchange(t)'
    <2>1. Exchange(T) BY <1>4, <1>12
    <2> HIDE DEF T
    <2> QED BY <1>2, <1>6, <1>7, <1>8, <1>9, <2>1 DEF Exchange
<1> QED BY <1>2, <1>3, <1>5, <1>6, <1>10, <1>11, <1>12, TargetStep

-----------------------------------------------------------------------------
(***************************************************************************)
(* afl-fuzz's side of the handshake.                                       *)
(***************************************************************************)
\* The structure of the server under way is all that changes.
OnlyFsrv(f) == fsrv' = [fsrv EXCEPT ![Cur] = f]
FsrvOK(f) == /\ f \in FsrvRecord /\ f.seg = fsrv[Cur].seg
             /\ Cur = "main" => f.map_size < f.real_map_size + Align

LEMMA FsrvStep ==
    ASSUME IInv, Cur \in Servers, NEW f, FsrvOK(f), OnlyFsrv(f),
           UNCHANGED <<conf, map_size, buf, shm, ijon_seg, target>>
    PROVE  /\ FsrvTypes' /\ TargetTypes' /\ ConfOK' /\ OneSize' /\ TargetData'
           /\ fsrv'[Cur] = f /\ \A r \in Servers \ {Cur} : fsrv'[r] = fsrv[r]
<1>1. fsrv \in [Servers -> FsrvRecord] /\ f \in FsrvRecord BY IInvParts DEF FsrvTypes, FsrvOK
<1>2. fsrv'[Cur] = f /\ \A r \in Servers \ {Cur} : fsrv'[r] = fsrv[r] BY <1>1 DEF OnlyFsrv
<1>3. FsrvTypes' BY <1>1 DEF OnlyFsrv, FsrvTypes
<1>4. TargetTypes' BY IInvParts DEF TargetTypes
<1>5. ConfOK' BY IInvParts DEF ConfOK
<1>6. OneSize'
    <2>1. OneSize BY IInvParts
    <2>2. \A r \in Servers : fsrv'[r].seg = fsrv[r].seg BY <1>2 DEF FsrvOK
    <2>3. fsrv'["main"].map_size < fsrv'["main"].real_map_size + Align
        <3>1. CASE Cur = "main" BY <1>2, <3>1 DEF FsrvOK
        <3>2. CASE Cur # "main" BY <1>2, <2>1, <3>2, Names DEF OneSize
        <3> QED BY <3>1, <3>2
    <2>4. RoundUp(conf.user)' = RoundUp(conf.user) OBVIOUS
    <2> QED BY <2>1, <2>2, <2>3, <2>4, Names DEF OneSize
<1>7. TargetData'
    <2>1. \A r, i : Cov(r, i)' = Cov(r, i) /\ MapOf(r, i)' = MapOf(r, i) BY DEF Cov, MapOf
    <2> QED BY <2>1, IInvParts DEF TargetData
<1> QED BY <1>2, <1>3, <1>4, <1>5, <1>6, <1>7

\* afl_fsrv_start or main gives up.
LEMMA FatalStep ==
    ASSUME IInv, at' = "fatal", why' \in {"timeout", "handshake", "mapsize", "ijon"},
           FsrvTypes', TargetTypes', ConfOK', OneSize', TargetData',
           UNCHANGED <<conf, env, agenda, fooled, status, dict_left, map_size, buf, shm, ijon_seg, extras,
                       target>>,
           st' \in Seq(Words), Len(ctl') <= 1, GivesUpRightly'
    PROVE  IInv'
<1>1. PICK p \in Phases, s \in Servers : OnTheWay(p, s) BY IInvParts DEF Stage
<1>2. MainTypes' BY IInvParts DEF MainTypes
<1>3. ReadTypes' BY IInvParts DEF ReadTypes
<1>4. PipeTypes' BY DEF PipeTypes
<1>5. WhyOK' /\ IdleOK' /\ Handshake' /\ ~Good' BY DEF WhyOK, IdleOK, Handshake, Good
<1>6. OnTheWay(p, s)' BY <1>1 DEF OnTheWay
<1>7. Stage' BY <1>5, <1>6 DEF Stage
<1> QED BY <1>2, <1>3, <1>4, <1>5, <1>7, IInvNext

\* It goes on to the next read.
Kept(f) == /\ f = fsrv[Cur] /\ (at' \in {"len", "dat", "final"} => at \in {"len", "dat"})
           /\ (at' \in {"opt", "map"} => at \in {"hello", "opt"})
Learnt(f) == /\ at = "map" /\ at' \in {"len", "final"}
             /\ f.map_size = Need(Cur) /\ f.map_size <= fsrv[Cur].map_size
             /\ f.use_shmem_fuzz = (fsrv[Cur].use_shmem_fuzz \/ conf.shmem)
             /\ f.use_ijon = (fsrv[Cur].use_ijon \/ Ijon)
             /\ f.seg = fsrv[Cur].seg

LEMMA AwaitStep ==
    ASSUME IInv, Starting, at # "final", at' \in {"opt", "map", "len", "dat", "final"},
           UNCHANGED <<conf, env, agenda, why, fooled, map_size, buf, shm, ijon_seg, target>>,
           NEW f, FsrvOK(f), OnlyFsrv(f), target[Cur].at = "dead" \/ Kept(f) \/ Learnt(f),
           st' \in Seq(Words), Len(ctl') <= 1,
           status' \subseteq {"map", "shm", "dict", "ijon"}, dict_left' \in 0 .. DictLen, extras' \in 0 .. 1,
           at' # "final" => extras' = extras,
           target[Cur].at # "dead" =>
               extras' = IF at' = "final" /\ Cur = "main" /\ conf.dict /\ ~env.no_autodict
                         THEN extras + 1 ELSE extras,
           Exchange(target[Cur])'
    PROVE  IInv'
<1>1. PICK p \in Phases, s \in Servers : OnTheWay(p, s) /\ (Good => Known(p, s))
    BY IInvParts DEF Stage
<1>2. agenda # <<>> /\ Head(agenda).do = "start" /\ at \notin {"idle", "fatal"} BY DEF Starting
<1>3. /\ p \in {"first", "both", "again"} /\ Cur = (IF p = "both" THEN "main" ELSE s) /\ Cur \in Servers
      /\ Cur \notin Served(p, s)
    BY <1>1, <1>2, AtStart
<1>4. Cur' = Cur /\ Starting' BY <1>2 DEF Cur, Starting
<1>5. /\ FsrvTypes' /\ TargetTypes' /\ ConfOK' /\ OneSize' /\ TargetData'
      /\ fsrv'[Cur] = f /\ \A r \in Servers \ {Cur} : fsrv'[r] = fsrv[r]
    BY <1>3, FsrvStep
<1>6. (Ijon' <=> Ijon) /\ (\A r : Need(r)' = Need(r)) /\ TheDict' = TheDict BY NeedKept
<1>7. MainTypes' BY IInvParts DEF MainTypes
<1>8. ReadTypes' BY IInvParts DEF ReadTypes
<1>9. PipeTypes' BY DEF PipeTypes
<1>10. WhyOK' /\ IdleOK' /\ why = "" BY <1>2, IInvParts DEF WhyOK, IdleOK
<1>11. GivesUpRightly' BY <1>10 DEF GivesUpRightly
<1>12. Handshake'
    <2>1. target[Cur].at \in {"wait", "send", "up"} => target[Cur].ijon = Ijon /\ target[Cur].seg = shm.seg
        BY CurKnown
    <2> QED BY <1>4, <1>6, <2>1 DEF Handshake
<1>13. p = "first" /\ s = "main" => extras = 0 /\ env.no_autodict = conf.no_autodict
    BY <1>1, <1>2 DEF OnTheWay
<1>14. at' # "final" => extras' = extras OBVIOUS
<1>15. OnTheWay(p, s)'
    <2>1. p = "first" /\ s = "main" /\ at' \notin {"final", "fatal"} => extras' = 0 BY <1>13, <1>14
    <2>2. shm' = shm /\ env' = env /\ agenda' = agenda /\ conf' = conf OBVIOUS
    <2> QED BY <1>1, <2>1, <2>2 DEF OnTheWay
<1>16. ASSUME Good' PROVE Known(p, s)'
    <2>1. Good /\ target[Cur].at # "dead" BY <1>2, <1>4, <1>16 DEF Good
    <2>2. Known(p, s) BY <1>1, <2>1
    <2>3. Kept(f) \/ Learnt(f) BY <2>1
    <2>4. (p = "first" /\ s = "main" /\ at' # "final") \/ extras' = TheDict
        <3>1. CASE p = "first" /\ s = "main"
            <4>1. Cur = "main" BY <1>3, <3>1
            <4>2. at' = "final" => extras' = IF conf.dict /\ ~conf.no_autodict THEN 0 + 1 ELSE 0
                BY <1>13, <2>1, <3>1, <4>1
            <4> QED BY <3>1, <4>2 DEF TheDict
        <3>2. CASE ~(p = "first" /\ s = "main")
            <4>1. extras = TheDict BY <2>2, <3>2 DEF Known
            <4>2. Cur = "main" => env.no_autodict BY <1>1, <1>3, <3>2 DEF OnTheWay
            <4>3. extras' = extras BY <2>1, <4>2
            <4> QED BY <4>1, <4>3
        <3> QED BY <3>1, <3>2
    <2>5. f.use_shmem_fuzz => conf.shmem
        <3>1. fsrv[Cur].use_shmem_fuzz => conf.shmem BY <1>3, <2>2 DEF Known
        <3> QED BY <2>3, <3>1 DEF Kept, Learnt
    <2>6. \A r \in Servers : fsrv'[r].use_shmem_fuzz => conf.shmem BY <1>5, <2>2, <2>5 DEF Known
    <2>7. s = "main" /\ p # "done" => (fsrv'["main"].use_ijon => conf.ijon)
        <3> SUFFICES ASSUME s = "main", fsrv'["main"].use_ijon PROVE conf.ijon OBVIOUS
        <3>1. Cur = "main" BY <1>3
        <3>2. fsrv["main"].use_ijon => conf.ijon BY <1>3, <2>2 DEF Known
        <3>3. f.use_ijon BY <1>5, <3>1
        <3> QED BY <2>3, <3>1, <3>2, <3>3 DEF Kept, Learnt, Ijon
    <2>8. s # "main" \/ p = "done" => ~Ijon BY <2>2 DEF Known
    <2>9. at' \in {"len", "dat", "final"} => Told(Cur)'
        <3> SUFFICES ASSUME at' \in {"len", "dat", "final"} PROVE Told(Cur)' OBVIOUS
        <3>1. CASE Kept(f)
            <4>1. Told(Cur) BY <2>2, <3>1 DEF Known, Kept
            <4> QED BY <1>4, <1>5, <1>6, <3>1, <4>1 DEF Told, Kept
        <3>2. CASE Learnt(f)
            <4>1. f.map_size = Need(Cur) BY <3>2 DEF Learnt
            <4>2. f.use_shmem_fuzz = conf.shmem
                <5>1. fsrv[Cur].use_shmem_fuzz => conf.shmem BY <1>3, <2>2 DEF Known
                <5>2. conf.shmem \in BOOLEAN BY IInvParts DEF ConfOK
                <5>3. fsrv[Cur].use_shmem_fuzz \in BOOLEAN
                    BY <1>3, IInvParts DEF FsrvTypes, FsrvRecord
                <5> QED BY <3>2, <5>1, <5>2, <5>3 DEF Learnt
            <4>3. Ijon => f.use_ijon BY <3>2 DEF Learnt
            <4> QED BY <1>4, <1>5, <1>6, <4>1, <4>2, <4>3 DEF Told
        <3> QED BY <2>3, <3>1, <3>2
    <2>10. p = "first" /\ at' \in {"idle", "hello", "opt", "map"} =>
              fsrv'[s].map_size >= RoundUp(conf.user) /\ fsrv'[s].map_size >= DEFAULT_SHMEM_SIZE
        <3> SUFFICES ASSUME p = "first", at' \in {"opt", "map"}
                     PROVE  fsrv'[s].map_size >= RoundUp(conf.user) /\ fsrv'[s].map_size >= DEFAULT_SHMEM_SIZE
            OBVIOUS
        <3>1. Kept(f) BY <2>3 DEF Learnt
        <3>2. Cur = s /\ fsrv'[s] = fsrv[s] BY <1>3, <1>5, <3>1 DEF Kept
        <3>3. at \in {"hello", "opt"} BY <3>1 DEF Kept
        <3> QED BY <2>2, <3>2, <3>3 DEF Known
    <2>11. \A r \in Servers : fsrv'[r].seg = fsrv[r].seg BY <1>5 DEF FsrvOK
    <2>12. \A r \in Servers : Fits(r) => Fits(r)'
        <3> SUFFICES ASSUME NEW r \in Servers, Fits(r) PROVE Fits(r)' OBVIOUS
        <3>1. CASE r # Cur \/ Kept(f)
            <4>1. fsrv'[r] = fsrv[r] BY <1>5, <3>1 DEF Kept
            <4> QED BY <1>6, <4>1 DEF Fits
        <3>2. CASE r = Cur /\ Learnt(f)
            <4>1. f.map_size = Need(r) /\ f.map_size <= fsrv[r].map_size /\ fsrv'[r] = f
                BY <1>5, <3>2 DEF Learnt
            <4>2. fsrv[r].map_size <= map_size BY DEF Fits
            <4>3. f.map_size \in Nat /\ fsrv[r].map_size \in Nat /\ map_size \in Nat
                BY IInvParts DEF FsrvOK, FsrvTypes, FsrvRecord, MainTypes
            <4>4. f.map_size <= map_size BY <4>1, <4>2, <4>3
            <4>5. Need(r) <= f.map_size BY <4>1, <4>3
            <4> QED BY <1>6, <4>1, <4>4, <4>5 DEF Fits
        <3> QED BY <2>3, <3>1, <3>2
    <2>13. \A r \in Served(p, s) : r \in Servers \ {Cur} BY <1>3, Names DEF Served, Before
    <2>14. \A r \in Servers \ {Cur} : Serves(r) => Serves(r)' BY <1>5 DEF Serves
    <2>15. \A r \in Served(p, s) : Serves(r)' BY <2>2, <2>13, <2>14 DEF Known
    <2>16. fsrv'[s].seg = shm.seg BY <1>3, <2>2, <2>11 DEF Known
    <2>17. p \in {"both", "again"} /\ s # "san" => Fits(s)' BY <2>2, <2>12 DEF Known
    <2>18. s # "main" \/ p \notin {"first", "check"} => Fits("main")'
        BY <2>2, <2>12, Names DEF Known
    <2>19. RoundUp(conf.user)' = RoundUp(conf.user) OBVIOUS
    <2> QED
        BY <1>3, <1>4, <1>6, <2>4, <2>6, <2>7, <2>8, <2>9, <2>10, <2>15, <2>16, <2>17, <2>18, <2>19
         DEF Known
<1>17. Stage' BY <1>15, <1>16 DEF Stage
<1> QED BY <1>5, <1>7, <1>8, <1>9, <1>10, <1>11, <1>12, <1>17, IInvNext

\* A server that is up, with a map that fits, serves.
LEMMA UpServes ==
    ASSUME ConfOK, TargetData, FsrvTypes, TargetTypes, MainTypes, NEW s \in Servers, Up(s),
           shm.size = map_size, s # "san" => fsrv[s].map_size <= map_size
    PROVE  Serves(s)
<1> DEFINE i == target[s].ijon
<1>1. target[s].cov = Cov(s, i) /\ target[s].map = MapOf(s, i) /\ target[s].shmem = conf.shmem
    BY DEF Up, TargetData
<1>2. i \in BOOLEAN /\ i = Ijon BY DEF TargetTypes, TargetRecord, Up
<1>3. fsrv[s].map_size = RoundUp(MapOf(s, i)) /\ fsrv[s].use_shmem_fuzz = conf.shmem
    BY <1>2 DEF Up, Told, Need
<1>4. target[s].at = "up" /\ target[s].seg = shm.seg /\ fsrv[s].seg = shm.seg BY DEF Up
<1>5. /\ Cov(s, i) \in Nat /\ MapOf(s, i) \in Nat /\ Cov(s, i) <= MapOf(s, i)
      /\ RoundUp(MapOf(s, i)) \in Nat /\ MapOf(s, i) <= RoundUp(MapOf(s, i))
    BY <1>2, SizeFacts
<1>6. map_size \in Nat BY DEF MainTypes
<1> DEFINE c == Cov(s, i)
           m == MapOf(s, i)
           R == RoundUp(m)
<1>7. c \in Nat /\ m \in Nat /\ R \in Nat /\ c <= m /\ m <= R BY <1>5
<1>8. s # "san" => R <= map_size BY <1>3
<1> HIDE DEF c, m, R
<1>9. c <= R /\ (s # "san" => m <= map_size) BY <1>6, <1>7, <1>8
<1> QED BY <1>1, <1>3, <1>4, <1>9 DEF Serves, c, m, R

\* afl_fsrv_start returns: it believes the target to be up.
LEMMA ReturnStep ==
    ASSUME IInv, Starting, at' = "idle", agenda' = Tail(agenda),
           UNCHANGED <<conf, env, why, map_size, buf, shm, ijon_seg, target, status, dict_left, extras>>,
           NEW f, FsrvOK(f), OnlyFsrv(f), st' = <<>>, Len(ctl') <= 1,
           \/ conf.old
           \/ fooled'
           \/ f = fsrv[Cur] /\ (fooled => fooled') /\ at = "final" /\ target[Cur].at = "up"
    PROVE  IInv'
<1>1. PICK p \in Phases, s \in Servers : OnTheWay(p, s) /\ (Good => Known(p, s))
    BY IInvParts DEF Stage
<1>2. agenda # <<>> /\ Head(agenda).do = "start" /\ at \notin {"idle", "fatal"} BY DEF Starting
<1>3. /\ p \in {"first", "both", "again"} /\ Cur = (IF p = "both" THEN "main" ELSE s) /\ Cur \in Servers
      /\ Cur \notin Served(p, s) /\ Tail(agenda) = Plan(Then(p, s), s)
    BY <1>1, <1>2, AtStart
<1> DEFINE q == Then(p, s)
<1>4. q \in Phases /\ q = (CASE p = "first" -> "check" [] p = "both" -> "again" [] p = "again" -> Onward(s))
    BY <1>3 DEF Then, Onward, Phases
<1>5. /\ FsrvTypes' /\ TargetTypes' /\ ConfOK' /\ OneSize' /\ TargetData'
      /\ fsrv'[Cur] = f /\ \A r \in Servers \ {Cur} : fsrv'[r] = fsrv[r]
    BY <1>3, FsrvStep
<1>6. (Ijon' <=> Ijon) /\ (\A r : Need(r)' = Need(r)) /\ TheDict' = TheDict BY NeedKept
<1>7. MainTypes'
    <2>1. agenda' \in Seq(Items) BY <1>2, IInvParts, HeadTailProperties DEF MainTypes
    <2> QED BY <2>1, IInvParts DEF MainTypes
<1>8. ReadTypes' BY IInvParts DEF ReadTypes
<1>9. PipeTypes'
    <2>1. <<>> \in Seq(Words) BY EmptySeq
    <2> QED BY <2>1 DEF PipeTypes
<1>10. WhyOK' /\ IdleOK' /\ why = "" BY <1>2, IInvParts DEF WhyOK, IdleOK
<1>11. GivesUpRightly' BY <1>10 DEF GivesUpRightly
<1>12. Handshake' BY DEF Handshake
<1> HIDE DEF q
<1>13. /\ p = "first" => q = "check"
       /\ p = "both" => q = "again" /\ s # "main"
       /\ p = "again" => q = IF s = "main" THEN "ijon" ELSE "done"
    BY <1>1, <1>3, <1>4 DEF Onward, OnTheWay
<1>14. OnTheWay(q, s)'
    <2>1. agenda' = Plan(q, s) BY <1>3 DEF q
    <2>2. (q = "both" => s # "main") /\ (q = "ijon" => s = "main") BY <1>3, <1>13
    <2>3. shm.seg <= (CASE s = "main" -> 1 [] s = "san" -> 2 [] s = "cmplog" -> 3)
                     + (IF q \in {"first", "check"} THEN 0 ELSE 1)
        <3>1. shm.seg <= (CASE s = "main" -> 1 [] s = "san" -> 2 [] s = "cmplog" -> 3)
                         + (IF p \in {"first", "check"} THEN 0 ELSE 1)
            BY <1>1 DEF OnTheWay
        <3>2. p \in {"first", "check"} <=> q \in {"first", "check"} BY <1>3, <1>13
        <3> QED BY <3>1, <3>2
    <2>4. s # "main" /\ q \in {"both", "again"} => shm.seg > 1 BY <1>1, <1>3, <1>13 DEF OnTheWay
    <2>5. q # "first" /\ q # "both" BY <1>3, <1>13
    <2>6. q = "again" => s # "main" BY <1>3, <1>13
    <2>7. s = "main" /\ q # "done" => ~env.no_ijon BY <1>1, <1>3 DEF OnTheWay
    <2> QED BY <2>1, <2>2, <2>3, <2>4, <2>5, <2>6, <2>7 DEF OnTheWay
<1>15. ASSUME Good' PROVE Known(q, s)'
    <2>1. ~fooled' /\ ~conf.old BY <1>15 DEF Good
    <2>2. f = fsrv[Cur] /\ (fooled => fooled') /\ at = "final" /\ target[Cur].at = "up" BY <2>1
    <2>3. Good BY <1>2, <2>1, <2>2 DEF Good
    <2>4. Known(p, s) BY <1>1, <2>3
    <2>5. \A r \in Servers : fsrv'[r] = fsrv[r] BY <1>5, <2>2
    <2>6. Told(Cur) BY <2>2, <2>4 DEF Known
    <2>7. target[Cur].ijon = Ijon /\ target[Cur].seg = shm.seg BY <2>2, CurKnown
    <2>8. fsrv[Cur].seg = shm.seg
        <3>1. fsrv["main"].seg = shm.seg BY IInvParts DEF OneSize
        <3>2. fsrv[s].seg = shm.seg BY <1>3, <2>4 DEF Known
        <3> QED BY <1>3, <3>1, <3>2
    <2>9. Up(Cur) BY <2>2, <2>6, <2>7, <2>8 DEF Up
    <2>10. ASSUME p # "first" PROVE Serves(Cur)
        <3>1. Cur # "san" => Fits(Cur) BY <1>3, <2>4, <2>10 DEF Known
        <3>2. Cur # "san" => fsrv[Cur].map_size <= map_size BY <3>1 DEF Fits
        <3>3. shm.size = map_size BY IInvParts DEF OneSize
        <3>4. ConfOK /\ TargetData /\ FsrvTypes /\ TargetTypes /\ MainTypes BY IInvParts
        <3> QED BY <1>3, <2>9, <3>2, <3>3, <3>4, UpServes
    <2>11. \A r \in Servers : (Told(r)' <=> Told(r)) /\ (Fits(r)' <=> Fits(r)) /\ (Serves(r)' <=> Serves(r))
                              /\ (Up(r)' <=> Up(r))
        <3> SUFFICES ASSUME NEW r \in Servers
                     PROVE (Told(r)' <=> Told(r)) /\ (Fits(r)' <=> Fits(r)) /\ (Serves(r)' <=> Serves(r))
                           /\ (Up(r)' <=> Up(r))
            OBVIOUS
        <3>1. fsrv'[r] = fsrv[r] BY <2>5
        <3>2. Told(r)' <=> Told(r) BY <1>6, <3>1 DEF Told
        <3>3. Fits(r)' <=> Fits(r) BY <1>6, <3>1 DEF Fits
        <3>4. Serves(r)' <=> Serves(r) BY <3>1 DEF Serves
        <3>5. Up(r)' <=> Up(r) BY <1>6, <3>1, <3>2 DEF Up
        <3> QED BY <3>2, <3>3, <3>4, <3>5
    <2>12. \A r \in Served(q, s) : Serves(r)'
        <3> SUFFICES ASSUME NEW r \in Served(q, s) PROVE Serves(r)' OBVIOUS
        <3>1. Served(p, s) \subseteq Servers BY Names DEF Served, Before
        <3>2. ASSUME r \in Served(p, s) PROVE Serves(r)' BY <2>4, <2>11, <3>1, <3>2 DEF Known
        <3>3. CASE p = "first"
            <4>1. Served(q, s) = Before(s) /\ Served(p, s) = Before(s) BY <1>13, <3>3 DEF Served
            <4> QED BY <3>2, <4>1
        <3>4. CASE p = "both"
            <4>1. Served(q, s) = Before(s) /\ Served(p, s) = Before(s) \ {"main"}
                BY <1>13, <3>4 DEF Served
            <4>2. Serves("main")' BY <1>3, <2>10, <2>11, <3>4
            <4> QED BY <3>2, <4>1, <4>2
        <3>5. CASE p = "again" /\ s = "main"
            <4>1. Served(q, s) = Before(s) /\ Served(p, s) = Before(s) BY <1>13, <3>5 DEF Served
            <4> QED BY <3>2, <4>1
        <3>6. CASE p = "again" /\ s # "main"
            <4>1. Served(q, s) = Before(s) \cup {s} /\ Served(p, s) = Before(s)
                BY <1>13, <3>6 DEF Served
            <4>2. Serves(s)' BY <1>3, <2>10, <2>11, <3>6
            <4> QED BY <3>2, <4>1, <4>2
        <3> QED BY <1>3, <3>3, <3>4, <3>5, <3>6
    <2>13. extras = TheDict BY <2>2, <2>4 DEF Known
    <2>14. \A r \in Servers : fsrv'[r].use_shmem_fuzz => conf.shmem BY <2>4, <2>5 DEF Known
    <2>15. s = "main" /\ q # "done" => (fsrv'["main"].use_ijon => conf.ijon)
        BY <1>3, <2>4, <2>5, Names DEF Known
    <2>16. s # "main" \/ q = "done" => ~Ijon BY <1>3, <1>13, <2>4 DEF Known
    <2>17. q # "first" BY <1>3, <1>13
    <2>18. q \in {"check", "ijon"} => Up(s)' BY <1>3, <1>13, <2>9, <2>11
    <2>19. fsrv'[s].seg = shm.seg BY <1>3, <2>4, <2>5 DEF Known
    <2>20. q \in {"both", "again"} /\ s # "san" => Fits(s)' BY <1>3, <1>13, <2>4, <2>11 DEF Known
    <2>21. s # "main" \/ q \notin {"first", "check"} => Fits("main")'
        BY <1>3, <1>13, <2>4, <2>11, Names DEF Known
    <2>22. at' = "idle" OBVIOUS
    <2> QED
        BY <1>6, <2>12, <2>13, <2>14, <2>15, <2>16, <2>17, <2>18, <2>19, <2>20, <2>21, <2>22
           DEF Known
<1>16. Stage' BY <1>4, <1>14, <1>15 DEF Stage
<1> QED BY <1>5, <1>7, <1>8, <1>9, <1>10, <1>11, <1>12, <1>16, IInvNext

\* What the next word read is: the one awaited, or, after the end of a target
\* that has died, whatever the variable holds.
Awaiting == Awaited(at, dict_left, Params(target[Cur]))
Real(w) == /\ st # <<>> /\ w \in Words /\ Awaiting # <<>> /\ w = Head(Awaiting)
           /\ st' \o target[Cur].left = Tail(Awaiting)
           /\ at = "opt" \/ status = Options(target[Cur])
           /\ target[Cur].at \in {"send", "up", "dead"}
           /\ target[Cur].at = "dead" => target[Cur].left # <<>>
Junk(w) == st = <<>> /\ st' = <<>> /\ target[Cur].at = "dead" /\ w \in Garbage

LEMMA ReadWord ==
    ASSUME IInv, Starting, at # "hello", NEW w \in Incoming, Consume
    PROVE  st' \in Seq(Words) /\ (Real(w) \/ Junk(w))
<1> DEFINE T == target[Cur]
           L == T.left
<1>1. T \in TargetRecord /\ st \in Seq(Words) /\ Exchange(T) BY CurKnown
<1>2. CASE st # <<>>
    <2>1. w = Head(st) /\ st' = Tail(st) BY <1>2 DEF Incoming, Consume
    <2>2. L \in Seq(Words) BY <1>1 DEF TargetRecord
    <2>3. st \o L = Awaiting /\ (at = "opt" \/ status = Options(T)) /\ T.at \in {"send", "up", "dead"}
          /\ (T.at = "dead" => L # <<>>)
        BY <1>1, <1>2 DEF Exchange, Awaiting
    <2>4. /\ st \o L # <<>> /\ Head(st \o L) = Head(st) /\ Tail(st \o L) = Tail(st) \o L
          /\ Head(st) \in Words /\ Tail(st) \in Seq(Words)
        <3> HIDE DEF L
        <3> QED BY <1>1, <1>2, <2>2, ReadOne
    <2> QED BY <1>2, <2>1, <2>3, <2>4 DEF Real
<1>3. CASE st = <<>>
    <2>1. T.at = "dead" /\ w \in Garbage BY <1>3 DEF Incoming
    <2>2. st' = <<>> BY <1>3 DEF Consume
    <2>3. <<>> \in Seq(Words) BY EmptySeq
    <2> QED BY <1>3, <2>1, <2>2, <2>3 DEF Junk
<1> QED BY <1>2, <1>3

LEMMA ReadOn ==
    ASSUME IInv, Starting, at # "hello", NEW w, Real(w) \/ Junk(w), UNCHANGED <<conf, target>>,
           Real(w) => /\ Tail(Awaiting) = Awaited(at', dict_left', Params(target[Cur]))
                      /\ status' = Options(target[Cur]),
           at' = "dat" => dict_left' # 0,
           at' \in {"len", "dat"} /\ target[Cur].at # "dead" => conf.dict,
           agenda' = agenda
    PROVE  Exchange(target[Cur])'
<1>1. Exchange(target[Cur]) BY CurKnown
<1>2. PICK t : t = target[Cur] OBVIOUS
<1>3. target'[Cur'] = t BY <1>2 DEF Cur
<1>4. Params(t)' = Params(t) /\ Options(t)' = Options(t) BY DEF Params, Options
<1>5. Awaited(at, dict_left, Params(t))' = Awaited(at', dict_left', Params(t))
    BY <1>4 DEF Awaited, Dats
<1>6. ~conf.old /\ t.at \in {"wait", "send", "up", "dead"} BY <1>1, <1>2 DEF Exchange
<1>7. (t.at = "send" => t.left # <<>>) /\ (t.at = "up" => t.left = <<>>) BY <1>1, <1>2 DEF Exchange
<1>8. t.at # "wait" /\ (t.at = "dead" /\ st' # <<>> => t.left # <<>>) BY <1>2 DEF Real, Junk
<1>9. t.at \in {"send", "up"} \/ st' # <<>> => Real(w) BY <1>2 DEF Junk
<1>10. Real(w) => st' \o t.left = Awaited(at, dict_left, Params(t))' /\ status' = Options(t)'
    BY <1>2, <1>4, <1>5 DEF Real
<1>11. Exchange(t)'
    BY <1>2, <1>6, <1>7, <1>8, <1>9, <1>10 DEF Exchange
<1> QED BY <1>3, <1>11 DEF Exchange, Awaited, Params, Options, Cur

LEMMA UnchangedFsrv ==
    ASSUME IInv, Cur \in Servers, fsrv' = fsrv PROVE FsrvOK(fsrv[Cur]) /\ OnlyFsrv(fsrv[Cur])
<1>1. fsrv \in [Servers -> FsrvRecord] BY IInvParts DEF FsrvTypes
<1>2. Cur = "main" => fsrv[Cur].map_size < fsrv[Cur].real_map_size + Align BY IInvParts DEF OneSize
<1> QED BY <1>1, <1>2 DEF FsrvOK, OnlyFsrv

\* A failed handshake.
LEMMA FailIInv ==
    ASSUME IInv, Starting, NEW reason \in {"timeout", "handshake"}, Fatal(reason), fsrv' = fsrv,
           st' \in Seq(Words), Len(ctl') <= 1
    PROVE  IInv'
<1>1. /\ at' = "fatal" /\ why' = reason
      /\ UNCHANGED <<conf, env, agenda, fooled, status, dict_left, map_size, buf, shm, ijon_seg, extras,
                     target>>
    BY DEF Fatal
<1>2. Cur \in Servers BY CurKnown
<1>3. FsrvOK(fsrv[Cur]) /\ OnlyFsrv(fsrv[Cur]) BY <1>2, UnchangedFsrv
<1>4. FsrvTypes' /\ TargetTypes' /\ ConfOK' /\ OneSize' /\ TargetData' BY <1>1, <1>2, <1>3, FsrvStep
<1>5. GivesUpRightly' BY <1>1 DEF GivesUpRightly
<1> QED BY <1>1, <1>4, <1>5, FatalStep

LEMMA TimeoutIInv == IInv /\ Timeout => IInv'
<1> SUFFICES ASSUME IInv, Timeout PROVE IInv' OBVIOUS
<1>1. Starting /\ Fatal("timeout") /\ fsrv' = fsrv /\ st' = st /\ ctl' = ctl BY DEF Timeout
<1>2. st' \in Seq(Words) /\ Len(ctl') <= 1 BY <1>1, IInvParts DEF PipeTypes
<1> QED BY <1>1, <1>2, FailIInv

LEMMA ReadHelloIInv == IInv /\ ReadHello => IInv'
<1> SUFFICES ASSUME IInv, ReadHello PROVE IInv' OBVIOUS
<1> DEFINE T == target[Cur]
<1>1. Starting /\ at = "hello" BY DEF ReadHello
<1>2. PICK w \in Incoming :
         /\ Consume
         /\ CASE w.w = "hello" ->
                   /\ ctl' = Append(ctl, Word("reply", 0, {}))
                   /\ Await("opt") /\ UNCHANGED <<status, dict_left, fsrv, extras>>
              [] w.w = "old" /\ Cur # "cmplog" ->
                   /\ fsrv' = [fsrv EXCEPT ![Cur].map_size = MAP_SIZE, ![Cur].real_map_size = MAP_SIZE]
                   /\ Return /\ UNCHANGED <<fooled, status, dict_left, extras, ctl>>
              [] OTHER -> Fatal("handshake") /\ UNCHANGED <<fsrv, ctl>>
    BY DEF ReadHello
<1>3. /\ Cur \in Servers /\ T \in TargetRecord /\ Greeting(T) /\ st \in Seq(Words) /\ conf.old \in BOOLEAN
    BY <1>1, CurKnown
<1>4. ctl = <<>> BY <1>3 DEF Greeting
<1>5. \/ st = <<Hello>> /\ T.at \in {"wait", "dead"} /\ ~conf.old /\ w = Hello
      \/ st = <<Word("old", 0, {})>> /\ conf.old /\ w = Word("old", 0, {})
      \/ st = <<Word("err", 0, {})>> /\ w = Word("err", 0, {})
      \/ st = <<>> /\ w = Word("eof", 0, {})
    <2>1. st # <<>> => w = Head(st) BY DEF Incoming
    <2>2. st = <<>> => T.at = "dead" /\ w \in Garbage BY DEF Incoming
    <2>3. Garbage = {Word("eof", 0, {})} BY <1>1 DEF Garbage
    <2> QED BY <1>3, <2>1, <2>2, <2>3 DEF Greeting
<1>6. st' = <<>>
    <2>1. CASE st = <<>> BY <1>2, <2>1 DEF Consume
    <2>2. CASE st # <<>>
        <3>1. \A x : <<x>> # <<>> /\ Tail(<<x>>) = <<>> OBVIOUS
        <3> QED BY <1>2, <1>5, <2>2, <3>1 DEF Consume
    <2> QED BY <2>1, <2>2
<1>7. st' \in Seq(Words) BY <1>6, EmptySeq
<1>8. \A x : Word(x, 0, {}).w = x /\ Hello.w = "hello" BY DEF Word, Hello
<1>9. CASE w.w = "hello"
    <2>1. /\ ctl' = Append(ctl, Word("reply", 0, {})) /\ at' = "opt"
          /\ UNCHANGED <<conf, env, agenda, why, fooled, map_size, buf, shm, ijon_seg, target>>
          /\ UNCHANGED <<status, dict_left, fsrv, extras>>
        BY <1>2, <1>9 DEF Await
    <2>2. T.at \in {"wait", "dead"} /\ ~conf.old BY <1>5, <1>8, <1>9
    <2>3. ctl' = <<Word("reply", 0, {})>> BY <1>4, <2>1
    <2>4. Len(ctl') <= 1 BY <2>3
    <2>5. FsrvOK(fsrv[Cur]) /\ OnlyFsrv(fsrv[Cur]) BY <1>3, <2>1, UnchangedFsrv
    <2>6. Kept(fsrv[Cur]) BY <1>1, <2>1 DEF Kept
    <2>7. Exchange(target[Cur])'
        <3>1. target'[Cur'] = T BY <2>1 DEF Cur
        <3> QED BY <1>6, <2>1, <2>2, <3>1 DEF Exchange
    <2>8. status' \subseteq {"map", "shm", "dict", "ijon"} /\ dict_left' \in 0 .. DictLen /\ extras' \in 0 .. 1
        BY <2>1, IInvParts DEF ReadTypes
    <2>9. at' # "final" /\ extras' = extras /\ at # "final" BY <1>1, <2>1
    <2> QED BY <1>1, <1>7, <2>1, <2>4, <2>5, <2>6, <2>7, <2>8, <2>9, AwaitStep
<1>10. CASE w.w = "old" /\ Cur # "cmplog"
    <2>1. /\ fsrv' = [fsrv EXCEPT ![Cur].map_size = MAP_SIZE, ![Cur].real_map_size = MAP_SIZE]
          /\ Return /\ UNCHANGED <<fooled, status, dict_left, extras, ctl>>
        BY <1>2, <1>10
    <2>2. /\ at' = "idle" /\ agenda' = Tail(agenda)
          /\ UNCHANGED <<conf, env, why, map_size, buf, shm, ijon_seg, target, status, dict_left, extras>>
        BY <2>1 DEF Return
    <2>3. conf.old BY <1>5, <1>8, <1>10
    <2>4. PICK f : f = [fsrv[Cur] EXCEPT !.map_size = MAP_SIZE, !.real_map_size = MAP_SIZE] OBVIOUS
    <2>5. fsrv \in [Servers -> FsrvRecord] BY IInvParts DEF FsrvTypes
    <2>6. OnlyFsrv(f) BY <1>3, <2>1, <2>4, <2>5 DEF OnlyFsrv, FsrvRecord
    <2>7. FsrvOK(f)
        <3>1. MAP_SIZE \in Nat /\ MAP_SIZE < MAP_SIZE + Align BY StartAssumption
        <3>2. f \in FsrvRecord BY <1>3, <2>4, <2>5, <3>1 DEF FsrvRecord
        <3>3. f.seg = fsrv[Cur].seg /\ f.map_size = MAP_SIZE /\ f.real_map_size = MAP_SIZE
            BY <1>3, <2>4, <2>5 DEF FsrvRecord
        <3> QED BY <3>1, <3>2, <3>3 DEF FsrvOK
    <2>8. Len(ctl') <= 1 BY <2>1, IInvParts DEF PipeTypes
    <2> QED BY <1>1, <1>6, <2>2, <2>3, <2>6, <2>7, <2>8, ReturnStep
<1>11. CASE w.w # "hello" /\ ~(w.w = "old" /\ Cur # "cmplog")
    <2>1. Fatal("handshake") /\ fsrv' = fsrv /\ ctl' = ctl BY <1>2, <1>11
    <2>2. Len(ctl') <= 1 BY <2>1, IInvParts DEF PipeTypes
    <2> QED BY <1>1, <1>7, <2>1, <2>2, FailIInv
<1> QED BY <1>9, <1>10, <1>11

LEMMA ReadOptionsIInv == IInv /\ ReadOptions => IInv'
<1> SUFFICES ASSUME IInv, ReadOptions PROVE IInv' OBVIOUS
<1> DEFINE T == target[Cur]
<1>1. Starting /\ at = "opt" BY DEF ReadOptions
<1>2. PICK w \in Incoming :
         /\ Consume
         /\ status' = w.o
         /\ IF "map" \in w.o
            THEN Await("map") /\ UNCHANGED fsrv
            ELSE /\ fsrv' = [fsrv EXCEPT ![Cur] = WithOptions([@ EXCEPT !.map_size = MAP_SIZE,
                                                                        !.real_map_size = MAP_SIZE], w.o)]
                 /\ Await(AfterMap(w.o))
         /\ UNCHANGED <<dict_left, extras, ctl>>
    BY DEF ReadOptions
<1>3. Cur \in Servers /\ T \in TargetRecord /\ ConfOK BY <1>1, CurKnown
<1>4. st' \in Seq(Words) /\ (Real(w) \/ Junk(w)) BY <1>1, <1>2, ReadWord
<1>5. /\ Params(T) \in Seq(Words) /\ Params(T) # <<>> /\ Head(Params(T)) = Word("opt", 0, Options(T))
      /\ Options(T) \in SUBSET {"map", "shm", "dict", "ijon"}
    BY <1>3, ParamsShape
<1>6. Awaiting = Params(T) BY <1>1 DEF Awaiting, Awaited
<1>7. Real(w) => w.o = Options(T) /\ "map" \in w.o BY <1>5, <1>6 DEF Real, Word, Options
<1>8. Junk(w) => w.o = {"shm", "ijon"} BY <1>1 DEF Junk, Garbage, Word
<1>9. /\ status' \subseteq {"map", "shm", "dict", "ijon"} /\ dict_left' \in 0 .. DictLen /\ extras' \in 0 .. 1
      /\ Len(ctl') <= 1
    BY <1>2, <1>4, <1>5, <1>7, <1>8, IInvParts DEF ReadTypes, PipeTypes
<1>10. extras' = extras /\ dict_left' = dict_left BY <1>2
<1>11. CASE "map" \in w.o
    <2>1. /\ at' = "map" /\ fsrv' = fsrv
          /\ UNCHANGED <<conf, env, agenda, why, fooled, map_size, buf, shm, ijon_seg, target>>
        BY <1>2, <1>11 DEF Await
    <2>2. Real(w) BY <1>4, <1>8, <1>11
    <2>3. FsrvOK(fsrv[Cur]) /\ OnlyFsrv(fsrv[Cur]) BY <1>3, <2>1, UnchangedFsrv
    <2>4. Kept(fsrv[Cur]) BY <1>1, <2>1 DEF Kept
    <2>5. Tail(Awaiting) = Awaited(at', dict_left', Params(T)) BY <1>6, <2>1 DEF Awaited
    <2>6. status' = Options(T) BY <1>2, <1>7, <2>2
    <2>7. Exchange(target[Cur])' BY <1>1, <2>1, <2>2, <2>5, <2>6, ReadOn
    <2>8. at' # "final" /\ at # "final" BY <1>1, <2>1
    <2> QED BY <1>1, <1>4, <1>9, <1>10, <2>1, <2>3, <2>4, <2>7, <2>8, AwaitStep
<1>12. CASE "map" \notin w.o
    <2>1. Junk(w) BY <1>4, <1>7, <1>12
    <2>2. AfterMap(w.o) = "final" BY <1>8, <2>1 DEF AfterMap
    <2>3. /\ at' = "final"
          /\ fsrv' = [fsrv EXCEPT ![Cur] = WithOptions([@ EXCEPT !.map_size = MAP_SIZE,
                                                                 !.real_map_size = MAP_SIZE], w.o)]
          /\ UNCHANGED <<conf, env, agenda, why, fooled, map_size, buf, shm, ijon_seg, target>>
        BY <1>2, <1>12, <2>2 DEF Await
    <2>4. PICK f : f = WithOptions([fsrv[Cur] EXCEPT !.map_size = MAP_SIZE, !.real_map_size = MAP_SIZE], w.o)
        OBVIOUS
    <2>5. fsrv \in [Servers -> FsrvRecord] BY IInvParts DEF FsrvTypes
    <2>6. OnlyFsrv(f) BY <1>3, <2>3, <2>4, <2>5 DEF OnlyFsrv
    <2>7. FsrvOK(f)
        <3>1. MAP_SIZE \in Nat /\ MAP_SIZE < MAP_SIZE + Align BY StartAssumption
        <3>2. fsrv[Cur] \in FsrvRecord BY <1>3, <2>5
        <3>3. f \in FsrvRecord /\ f.seg = fsrv[Cur].seg /\ f.map_size = MAP_SIZE /\ f.real_map_size = MAP_SIZE
            BY <2>4, <3>1, <3>2 DEF WithOptions, FsrvRecord
        <3> QED BY <3>1, <3>2, <3>3 DEF FsrvOK
    <2>8. target[Cur].at = "dead" BY <2>1 DEF Junk
    <2>9. ~Real(w) BY <2>1 DEF Real, Junk
    <2>10. Exchange(target[Cur])' BY <1>1, <2>1, <2>3, <2>8, <2>9, ReadOn
    <2>11. at # "final" BY <1>1
    <2> QED BY <1>1, <1>4, <1>9, <1>10, <2>3, <2>6, <2>7, <2>8, <2>10, <2>11, AwaitStep
<1> QED BY <1>11, <1>12

LEMMA ReadMapSizeIInv == IInv /\ ReadMapSize => IInv'
<1> SUFFICES ASSUME IInv, ReadMapSize PROVE IInv' OBVIOUS
<1> DEFINE T == target[Cur]
<1>1. Starting /\ at = "map" BY DEF ReadMapSize
<1>2. PICK w \in Incoming :
         /\ Consume
         /\ IF RoundUp(w.n) > fsrv[Cur].map_size
            THEN Fatal("mapsize") /\ fsrv' = [fsrv EXCEPT ![Cur].real_map_size = w.n]
            ELSE /\ fsrv' = [fsrv EXCEPT ![Cur] = WithOptions([@ EXCEPT !.map_size = RoundUp(w.n),
                                                                        !.real_map_size = w.n], status)]
                 /\ Await(AfterMap(status))
                 /\ UNCHANGED <<status, dict_left, extras>>
         /\ UNCHANGED ctl
    BY DEF ReadMapSize
<1>3. Cur \in Servers /\ T \in TargetRecord /\ ConfOK /\ Exchange(T) BY <1>1, CurKnown
<1>4. st' \in Seq(Words) /\ (Real(w) \/ Junk(w)) BY <1>1, <1>2, ReadWord
<1>5. /\ Tail(Params(T)) # <<>> /\ Head(Tail(Params(T))) = Word("map", T.map, {})
      /\ conf.dict => Tail(Tail(Params(T))) = Awaited("len", dict_left, Params(T))
      /\ ~conf.dict => Tail(Tail(Params(T))) = Awaited("final", dict_left, Params(T))
      /\ T.map \in Nat /\ conf.dict \in BOOLEAN
    BY <1>3, ParamsShape
<1>6. Awaiting = Tail(Params(T)) BY <1>1 DEF Awaiting, Awaited
<1>7. Real(w) => w.n = T.map /\ status = Options(T) BY <1>1, <1>5, <1>6 DEF Real, Word
<1>8. Junk(w) => w.n \in Nat BY <1>1, StartAssumption DEF Junk, Garbage, Word
<1>9. w.n \in Nat BY <1>4, <1>5, <1>7, <1>8
<1> DEFINE n == w.n
           R == RoundUp(n)
           M == fsrv[Cur].map_size
<1>10. n \in Nat /\ R \in Nat /\ n <= R /\ R < n + Align /\ Align \in Nat
    BY <1>9, RoundUpBounds, StartAssumption
<1>11. fsrv \in [Servers -> FsrvRecord] BY IInvParts DEF FsrvTypes
<1>12. fsrv[Cur] \in FsrvRecord /\ M \in Nat BY <1>3, <1>11 DEF FsrvRecord
<1>13. Len(ctl') <= 1 BY <1>2, IInvParts DEF PipeTypes
<1>14. ASSUME T.at # "dead" PROVE Real(w) /\ n = T.map /\ R = Need(Cur) /\ n = MapOf(Cur, Ijon)
    <2>1. Real(w) /\ n = T.map BY <1>4, <1>7, <1>14 DEF Junk
    <2>2. T.at \in {"wait", "send", "up"} BY <1>3, <1>14 DEF Exchange
    <2>3. T.map = MapOf(Cur, Ijon) BY <1>1, <2>2, CurKnown
    <2> QED BY <2>1, <2>3 DEF Need
<1>15. CASE R > M
    <2>1. /\ at' = "fatal" /\ why' = "mapsize" /\ fsrv' = [fsrv EXCEPT ![Cur].real_map_size = n]
          /\ UNCHANGED <<conf, env, agenda, fooled, status, dict_left, map_size, buf, shm, ijon_seg, extras,
                         target>>
        BY <1>2, <1>15 DEF Fatal
    <2>2. PICK f : f = [fsrv[Cur] EXCEPT !.real_map_size = n] OBVIOUS
    <2>3. OnlyFsrv(f) BY <1>3, <1>11, <2>1, <2>2 DEF OnlyFsrv
    <2>4. FsrvOK(f)
        <3>1. f \in FsrvRecord /\ f.seg = fsrv[Cur].seg /\ f.map_size = M /\ f.real_map_size = n
            BY <1>10, <1>12, <2>2 DEF FsrvRecord
        <3> HIDE DEF M, R, n
        <3>2. M < n + Align BY <1>10, <1>12, <1>15
        <3> QED BY <3>1, <3>2 DEF FsrvOK
    <2>5. FsrvTypes' /\ TargetTypes' /\ ConfOK' /\ OneSize' /\ TargetData'
        BY <1>3, <2>1, <2>3, <2>4, FsrvStep
    <2>6. GivesUpRightly'
        <3>1. CASE T.at = "dead" BY <1>3, <2>1, <3>1 DEF GivesUpRightly
        <3>2. CASE fooled BY <2>1, <3>2 DEF GivesUpRightly
        <3>3. CASE T.at # "dead" /\ ~fooled
            <4>1. PICK p \in Phases, s \in Servers : OnTheWay(p, s) /\ (Good => Known(p, s))
                BY IInvParts DEF Stage
            <4>2. p \in {"first", "both", "again"} /\ Cur = (IF p = "both" THEN "main" ELSE s)
                BY <1>1, <4>1, AtStart DEF Starting
            <4>3. Good BY <1>1, <1>3, <3>3 DEF Good, Exchange
            <4>4. Known(p, s) BY <4>1, <4>3
            <4>5. n = T.map /\ R = Need(Cur) BY <1>14, <3>3
            <4>6. CASE p = "first"
                <5>1. M >= RoundUp(conf.user) /\ M >= DEFAULT_SHMEM_SIZE
                    BY <1>1, <4>2, <4>4, <4>6 DEF Known
                <5>2. conf.user \in Nat /\ DEFAULT_SHMEM_SIZE \in Nat
                    BY <1>3, StartAssumption DEF ConfOK
                <5>3. RoundUp(conf.user) \in Nat BY <5>2, RoundUpBounds
                <5>4. ~(n <= conf.user)
                    <6>1. n <= conf.user => R <= RoundUp(conf.user) BY <1>10, <5>2, RoundUpGrows
                    <6> DEFINE u == RoundUp(conf.user)
                    <6> HIDE DEF u, R, M, n
                    <6>2. ~(R <= u)
                        <7>1. u \in Nat /\ M >= u BY <5>1, <5>3 DEF u
                        <7> QED BY <1>10, <1>12, <1>15, <7>1
                    <6> QED BY <6>1, <6>2 DEF u
                <5>5. ~(n <= DEFAULT_SHMEM_SIZE)
                    <6>1. n <= DEFAULT_SHMEM_SIZE => R <= DEFAULT_SHMEM_SIZE
                        BY <1>10, RoundUpDefault
                    <6> HIDE DEF R, M, n
                    <6> QED BY <1>10, <1>12, <1>15, <5>1, <5>2, <6>1
                <5>6. n > Max({DEFAULT_SHMEM_SIZE, conf.user})
                    <6>1. Max({DEFAULT_SHMEM_SIZE, conf.user}) \in {DEFAULT_SHMEM_SIZE, conf.user}
                        BY <5>2, MaxPair
                    <6> HIDE DEF n
                    <6>2. n > DEFAULT_SHMEM_SIZE /\ n > conf.user BY <1>10, <5>2, <5>4, <5>5
                    <6> QED BY <6>1, <6>2
                <5> QED BY <1>3, <2>1, <4>5, <5>6 DEF GivesUpRightly
            <4>7. CASE p # "first" /\ Cur = "san"
                <5>1. s = "san" /\ p = "again" BY <4>2, <4>7
                <5>2. shm.seg > 1 BY <4>1, <5>1 DEF OnTheWay
                <5>3. Cur' = Cur /\ agenda' # <<>> BY <1>1, <2>1 DEF Cur, Starting
                <5> QED BY <2>1, <4>7, <5>2, <5>3 DEF GivesUpRightly
            <4>8. CASE p # "first" /\ Cur # "san"
                <5>1. Fits(Cur) BY <4>2, <4>4, <4>8 DEF Known
                <5>2. R <= M BY <4>5, <5>1 DEF Fits
                <5> HIDE DEF R, M
                <5> QED BY <1>10, <1>12, <1>15, <5>2
            <4> QED BY <4>6, <4>7, <4>8
        <3> QED BY <3>1, <3>2, <3>3
    <2> QED BY <1>4, <1>13, <2>1, <2>5, <2>6, FatalStep
<1>16. CASE ~(R > M)
    <2>1. /\ fsrv' = [fsrv EXCEPT ![Cur] = WithOptions([@ EXCEPT !.map_size = R, !.real_map_size = n], status)]
          /\ at' = AfterMap(status)
          /\ UNCHANGED <<conf, env, agenda, why, fooled, map_size, buf, shm, ijon_seg, target>>
          /\ UNCHANGED <<status, dict_left, extras>>
        BY <1>2, <1>16 DEF Await
    <2>2. PICK f : f = WithOptions([fsrv[Cur] EXCEPT !.map_size = R, !.real_map_size = n], status) OBVIOUS
    <2>3. OnlyFsrv(f) BY <1>3, <1>11, <2>1, <2>2 DEF OnlyFsrv
    <2>4. /\ f \in FsrvRecord /\ f.seg = fsrv[Cur].seg /\ f.map_size = R /\ f.real_map_size = n
          /\ f.use_shmem_fuzz = (fsrv[Cur].use_shmem_fuzz \/ "shm" \in status)
          /\ f.use_ijon = (fsrv[Cur].use_ijon \/ "ijon" \in status)
        BY <1>10, <1>12, <2>2 DEF WithOptions, FsrvRecord
    <2>5. FsrvOK(f) BY <1>10, <2>4 DEF FsrvOK
    <2>6. at' \in {"len", "final"} /\ at # "final" BY <1>1, <2>1 DEF AfterMap
    <2>7. Real(w) => /\ at' = (IF conf.dict THEN "len" ELSE "final")
                     /\ Tail(Awaiting) = Awaited(at', dict_left', Params(T)) /\ status' = Options(T)
        <3> SUFFICES ASSUME Real(w)
                     PROVE  /\ at' = (IF conf.dict THEN "len" ELSE "final")
                            /\ Tail(Awaiting) = Awaited(at', dict_left', Params(T)) /\ status' = Options(T)
            OBVIOUS
        <3>1. status = Options(T) BY <1>7
        <3>2. "dict" \in Options(T) <=> conf.dict BY DEF Options
        <3>3. at' = IF conf.dict THEN "len" ELSE "final" BY <2>1, <3>1, <3>2 DEF AfterMap
        <3> QED BY <1>5, <1>6, <2>1, <3>1, <3>3
    <2>8. T.at = "dead" \/ Learnt(f)
        <3> SUFFICES ASSUME T.at # "dead" PROVE Learnt(f) OBVIOUS
        <3>1. R = Need(Cur) /\ Real(w) BY <1>14
        <3>2. T.at \in {"wait", "send", "up"} BY <1>3 DEF Exchange
        <3>3. T.ijon = Ijon /\ T.shmem = conf.shmem BY <1>1, <3>2, CurKnown
        <3>4. status = Options(T) BY <1>7, <3>1
        <3>5. ("shm" \in status <=> conf.shmem) /\ ("ijon" \in status <=> Ijon)
            BY <3>3, <3>4 DEF Options
        <3>6. conf.shmem \in BOOLEAN /\ Ijon \in BOOLEAN BY IInvParts DEF ConfOK, Ijon, MainTypes
        <3>7. f.use_shmem_fuzz = (fsrv[Cur].use_shmem_fuzz \/ conf.shmem)
              /\ f.use_ijon = (fsrv[Cur].use_ijon \/ Ijon)
            BY <2>4, <3>5, <3>6
        <3>8. R <= M
            <4> HIDE DEF R, M
            <4> QED BY <1>10, <1>12, <1>16
        <3> QED BY <1>1, <2>4, <2>6, <3>1, <3>7, <3>8 DEF Learnt
    <2>9. T.at # "dead" => at' = (IF conf.dict THEN "len" ELSE "final") BY <1>14, <2>7
    <2>10. at' # "dat" /\ (at' \in {"len", "dat"} /\ T.at # "dead" => conf.dict) BY <2>6, <2>9
    <2>11. agenda' = agenda /\ UNCHANGED <<conf, target>> BY <2>1
    <2>12. Exchange(target[Cur])' BY <1>1, <1>4, <2>7, <2>10, <2>11, ReadOn
    <2>13. status' \subseteq {"map", "shm", "dict", "ijon"} /\ dict_left' \in 0 .. DictLen /\ extras' \in 0 .. 1
        BY <2>1, IInvParts DEF ReadTypes
    <2>14. extras' = extras BY <2>1
    <2>15. T.at # "dead" => extras' = IF at' = "final" /\ Cur = "main" /\ conf.dict /\ ~env.no_autodict
                                      THEN extras + 1 ELSE extras
        BY <2>9, <2>14
    <2> QED
        BY <1>1, <1>4, <1>13, <2>1, <2>3, <2>5, <2>6, <2>8, <2>12, <2>13, <2>14, <2>15, AwaitStep
<1> QED BY <1>15, <1>16

LEMMA ReadDictLenIInv == IInv /\ ReadDictLen => IInv'
<1> SUFFICES ASSUME IInv, ReadDictLen PROVE IInv' OBVIOUS
<1> DEFINE T == target[Cur]
<1>1. Starting /\ at = "len" BY DEF ReadDictLen
<1>2. PICK w \in Incoming :
         /\ Consume
         /\ IF w.w = "eof" THEN Fatal("handshake")
            ELSE Await("dat") /\ dict_left' = w.n /\ UNCHANGED <<status, extras>>
         /\ UNCHANGED <<fsrv, ctl>>
    BY DEF ReadDictLen
<1>3. Cur \in Servers /\ Exchange(T) BY <1>1, CurKnown
<1>4. st' \in Seq(Words) /\ (Real(w) \/ Junk(w)) BY <1>1, <1>2, ReadWord
<1>5. DictLen \in Nat \ {0} /\ dict_left \in Nat
    <2>1. DictLen \in Nat \ {0} BY StartAssumption
    <2>2. dict_left \in 0 .. DictLen BY IInvParts DEF ReadTypes
    <2> QED BY <2>1, <2>2
<1>6. Awaiting = Awaited("len", dict_left, Params(T)) BY <1>1 DEF Awaiting
<1>7. Head(Awaiting) = Word("len", DictLen, {}) /\ Tail(Awaiting) = Awaited("dat", DictLen, Params(T))
    BY <1>5, <1>6, AwaitedShape
<1>8. Len(ctl') <= 1 BY <1>2, IInvParts DEF PipeTypes
<1>9. CASE w.w = "eof" BY <1>1, <1>2, <1>4, <1>8, <1>9, FailIInv
<1>10. CASE w.w # "eof"
    <2>1. /\ at' = "dat" /\ dict_left' = w.n /\ UNCHANGED <<status, extras>> /\ fsrv' = fsrv
          /\ UNCHANGED <<conf, env, agenda, why, fooled, map_size, buf, shm, ijon_seg, target>>
        BY <1>2, <1>10 DEF Await
    <2>2. Real(w) BY <1>1, <1>4, <1>10 DEF Junk, Garbage, Word
    <2>3. dict_left' = DictLen BY <1>7, <2>1, <2>2 DEF Real, Word
    <2>4. Tail(Awaiting) = Awaited(at', dict_left', Params(T)) BY <1>7, <2>1, <2>3
    <2>5. status' = Options(T) BY <1>1, <2>1, <2>2 DEF Real
    <2>6. T.at # "dead" => conf.dict BY <1>1, <1>3 DEF Exchange
    <2>7. dict_left' # 0 BY <1>5, <2>3
    <2>8. Exchange(target[Cur])' BY <1>1, <2>1, <2>2, <2>4, <2>5, <2>6, <2>7, ReadOn
    <2>9. FsrvOK(fsrv[Cur]) /\ OnlyFsrv(fsrv[Cur]) BY <1>3, <2>1, UnchangedFsrv
    <2>10. Kept(fsrv[Cur]) BY <1>1, <2>1 DEF Kept
    <2>11. status' \subseteq {"map", "shm", "dict", "ijon"} /\ extras' \in 0 .. 1
        BY <2>1, IInvParts DEF ReadTypes
    <2>12. dict_left' \in 0 .. DictLen BY <1>5, <2>3
    <2>13. at # "final" /\ at' # "final" /\ extras' = extras BY <1>1, <2>1
    <2> QED BY <1>1, <1>4, <1>8, <2>1, <2>8, <2>9, <2>10, <2>11, <2>12, <2>13, AwaitStep
<1> QED BY <1>9, <1>10

LEMMA ReadDictIInv == IInv /\ ReadDict => IInv'
<1> SUFFICES ASSUME IInv, ReadDict PROVE IInv' OBVIOUS
<1> DEFINE T == target[Cur]
<1>1. Starting /\ at = "dat" BY DEF ReadDict
<1>2. PICK w \in Incoming :
         /\ Consume
         /\ IF w.w = "eof" THEN Fatal("handshake")
            ELSE /\ dict_left' = dict_left - 1
                 /\ Await(IF dict_left = 1 THEN "final" ELSE "dat")
                 /\ extras' = IF dict_left = 1 /\ Cur = "main" /\ ~env.no_autodict
                              THEN extras + 1 ELSE extras
                 /\ UNCHANGED status
         /\ UNCHANGED <<fsrv, ctl>>
    BY DEF ReadDict
<1>3. Cur \in Servers /\ Exchange(T) BY <1>1, CurKnown
<1>4. st' \in Seq(Words) /\ (Real(w) \/ Junk(w)) BY <1>1, <1>2, ReadWord
<1>5. DictLen \in Nat \ {0} /\ dict_left \in 0 .. DictLen /\ dict_left \in Nat
    <2>1. DictLen \in Nat \ {0} BY StartAssumption
    <2>2. dict_left \in 0 .. DictLen BY IInvParts DEF ReadTypes
    <2> QED BY <2>1, <2>2
<1>6. Awaiting = Awaited("dat", dict_left, Params(T)) BY <1>1 DEF Awaiting
<1>7. dict_left # 0 BY <1>1, <1>3 DEF Exchange
<1>8. Tail(Awaiting) = Awaited(IF dict_left = 1 THEN "final" ELSE "dat", dict_left - 1, Params(T))
    BY <1>5, <1>6, <1>7, AwaitedShape
<1>9. Len(ctl') <= 1 BY <1>2, IInvParts DEF PipeTypes
<1>10. CASE w.w = "eof" BY <1>1, <1>2, <1>4, <1>9, <1>10, FailIInv
<1>11. CASE w.w # "eof"
    <2>1. /\ at' = (IF dict_left = 1 THEN "final" ELSE "dat") /\ dict_left' = dict_left - 1
          /\ status' = status /\ fsrv' = fsrv
          /\ extras' = IF dict_left = 1 /\ Cur = "main" /\ ~env.no_autodict THEN extras + 1 ELSE extras
          /\ UNCHANGED <<conf, env, agenda, why, fooled, map_size, buf, shm, ijon_seg, target>>
        BY <1>2, <1>11 DEF Await
    <2>2. Real(w) BY <1>1, <1>4, <1>11 DEF Junk, Garbage, Word
    <2>3. Tail(Awaiting) = Awaited(at', dict_left', Params(T)) BY <1>8, <2>1
    <2>4. status' = Options(T) BY <1>1, <2>1, <2>2 DEF Real
    <2>5. T.at # "dead" => conf.dict BY <1>1, <1>3 DEF Exchange
    <2>6. at' = "dat" => dict_left' # 0
        <3>1. at' = "dat" => dict_left # 1 BY <2>1
        <3> QED BY <1>5, <2>1, <3>1
    <2>7. Exchange(target[Cur])' BY <1>1, <2>1, <2>2, <2>3, <2>4, <2>5, <2>6, ReadOn
    <2>8. FsrvOK(fsrv[Cur]) /\ OnlyFsrv(fsrv[Cur]) BY <1>3, <2>1, UnchangedFsrv
    <2>9. Kept(fsrv[Cur]) BY <1>1, <2>1 DEF Kept
    <2>10. status' \subseteq {"map", "shm", "dict", "ijon"} /\ extras \in 0 .. 1
        BY <2>1, IInvParts DEF ReadTypes
    <2>11. dict_left' \in 0 .. DictLen BY <1>5, <1>7, <2>1
    <2>12. Cur = "main" /\ ~env.no_autodict => extras = 0
        <3>1. PICK p \in Phases, s \in Servers : OnTheWay(p, s) BY IInvParts DEF Stage
        <3>2. p \in {"first", "both", "again"} /\ Cur = (IF p = "both" THEN "main" ELSE s)
            BY <1>1, <3>1, AtStart DEF Starting
        <3> QED BY <1>1, <3>1, <3>2 DEF OnTheWay
    <2>13. extras' \in 0 .. 1 BY <2>1, <2>10, <2>12
    <2>14. at # "final" /\ (at' # "final" => extras' = extras) /\ (at' = "final" <=> dict_left = 1)
        BY <1>1, <2>1
    <2>15. T.at # "dead" => extras' = IF at' = "final" /\ Cur = "main" /\ conf.dict /\ ~env.no_autodict
                                      THEN extras + 1 ELSE extras
        BY <2>1, <2>5, <2>14
    <2>16. at' \in {"dat", "final"} BY <2>1
    <2> QED
        BY <1>1, <1>4, <1>9, <2>1, <2>7, <2>8, <2>9, <2>10, <2>11, <2>13, <2>14, <2>15, <2>16,
           AwaitStep
<1> QED BY <1>10, <1>11

LEMMA ReadFinalIInv == IInv /\ ReadFinal => IInv'
<1> SUFFICES ASSUME IInv, ReadFinal PROVE IInv' OBVIOUS
<1> DEFINE T == target[Cur]
           L == T.left
<1>1. Starting /\ at = "final" BY DEF ReadFinal
<1>2. PICK w \in Incoming :
         /\ Consume
         /\ IF w.w # "hello" THEN Fatal("handshake")
            ELSE /\ Return
                 /\ fooled' = (fooled \/ st = <<>>)
                 /\ UNCHANGED <<status, dict_left, extras>>
         /\ UNCHANGED <<fsrv, ctl>>
    BY DEF ReadFinal
<1>3. Cur \in Servers /\ T \in TargetRecord /\ Exchange(T) BY <1>1, CurKnown
<1>4. st' \in Seq(Words) /\ (Real(w) \/ Junk(w)) BY <1>1, <1>2, ReadWord
<1>5. Len(ctl') <= 1 BY <1>2, IInvParts DEF PipeTypes
<1>6. CASE w.w # "hello" BY <1>1, <1>2, <1>4, <1>5, <1>6, FailIInv
<1>7. CASE w.w = "hello"
    <2>1. /\ at' = "idle" /\ agenda' = Tail(agenda) /\ fsrv' = fsrv
          /\ UNCHANGED <<conf, env, why, map_size, buf, shm, ijon_seg, target, status, dict_left, extras>>
          /\ fooled' = (fooled \/ st = <<>>)
        BY <1>2, <1>7 DEF Return
    <2>2. FsrvOK(fsrv[Cur]) /\ OnlyFsrv(fsrv[Cur]) BY <1>3, <2>1, UnchangedFsrv
    <2>3. CASE Real(w)
        <3>1. Awaiting = <<Hello>> BY <1>1 DEF Awaiting, Awaited
        <3>2. Tail(Awaiting) = <<>> BY <3>1
        <3>3. st' \o L = <<>> BY <2>3, <3>2 DEF Real
        <3>4. L \in Seq(Words) BY <1>3 DEF TargetRecord
        <3>5. st' = <<>> /\ L = <<>>
            <4> HIDE DEF L
            <4>1. Len(st') + Len(L) = 0 BY <1>4, <3>3, <3>4, ConcatProperties
            <4>2. Len(st') \in Nat /\ Len(L) \in Nat BY <1>4, <3>4, LenProperties
            <4>3. Len(st') = 0 /\ Len(L) = 0 BY <4>1, <4>2
            <4> QED BY <1>4, <3>4, <4>3, EmptySeq
        <3>6. T.at = "up" BY <1>3, <2>3, <3>5 DEF Real, Exchange
        <3>7. fooled => fooled' BY <2>1
        <3> QED BY <1>1, <1>5, <2>1, <2>2, <3>5, <3>6, <3>7, ReturnStep
    <2>4. CASE Junk(w)
        <3>1. st = <<>> /\ st' = <<>> BY <2>4 DEF Junk
        <3>2. fooled' BY <2>1, <3>1
        <3> QED BY <1>1, <1>5, <2>1, <2>2, <3>1, <3>2, ReturnStep
    <2> QED BY <1>4, <2>3, <2>4
<1> QED BY <1>6, <1>7

-----------------------------------------------------------------------------
(***************************************************************************)
(* main.                                                                   *)
(***************************************************************************)
LEMMA ForkIInv == IInv /\ Fork => IInv'
<1> SUFFICES ASSUME IInv, Fork PROVE IInv' OBVIOUS
<1>1. /\ at = "idle" /\ agenda # <<>> /\ Head(agenda).do = "start" /\ at' = "hello" /\ st' = <<>> /\ ctl' = <<>>
      /\ target' = [target EXCEPT ![Cur] = [NoTarget EXCEPT !.at = "boot"]]
      /\ UNCHANGED <<conf, env, agenda, why, fooled, status, dict_left, fsrv, map_size, buf, shm, ijon_seg,
                     extras>>
    BY DEF Fork
<1>2. PICK p \in Phases, s \in Servers : OnTheWay(p, s) /\ (Good => Known(p, s))
    BY IInvParts DEF Stage
<1>3. p \in {"first", "both", "again"} /\ Cur \in Servers /\ Cur \notin Served(p, s)
    BY <1>1, <1>2, AtStart
<1>4. Cur' = Cur /\ Starting' BY <1>1 DEF Cur, Starting
<1>5. PICK t : t = [NoTarget EXCEPT !.at = "boot"] OBVIOUS
<1>6. t \in TargetRecord /\ t.at = "boot" /\ t.seg = 0
    <2>1. <<>> \in Seq(Words) BY EmptySeq
    <2>2. t = [at |-> "boot", map |-> 0, cov |-> 0, shmem |-> FALSE, ijon |-> FALSE, seg |-> 0, left |-> <<>>]
        BY <1>5 DEF NoTarget
    <2> QED BY <2>1, <2>2 DEF TargetRecord
<1>7. target \in [Servers -> TargetRecord] BY IInvParts DEF TargetTypes
<1>8. target'[Cur] = t /\ \A r \in Servers \ {Cur} : target'[r] = target[r]
    BY <1>1, <1>3, <1>5, <1>7
<1>9. (Ijon' <=> Ijon) /\ (\A r : Need(r)' = Need(r)) /\ TheDict' = TheDict BY <1>1, NeedKept
<1>10. MainTypes' BY <1>1, IInvParts DEF MainTypes
<1>11. ReadTypes' BY <1>1, IInvParts DEF ReadTypes
<1>12. FsrvTypes' /\ ConfOK' BY <1>1, IInvParts DEF FsrvTypes, ConfOK
<1>13. TargetTypes' BY <1>1, <1>3, <1>5, <1>6, <1>7 DEF TargetTypes
<1>14. PipeTypes'
    <2>1. <<>> \in Seq(Words) BY EmptySeq
    <2> QED BY <1>1, <2>1 DEF PipeTypes
<1>15. WhyOK' /\ IdleOK' /\ why = "" BY <1>1, IInvParts DEF WhyOK, IdleOK
<1>16. GivesUpRightly' BY <1>1, <1>15 DEF GivesUpRightly
<1>17. OneSize'
    <2>1. OneSize BY IInvParts
    <2>2. shm.seg \in 1 .. 4 BY IInvParts DEF MainTypes
    <2>3. 0 <= shm.seg BY <2>2
    <2>4. \A r \in Servers : target'[r].seg <= shm.seg BY <1>6, <1>8, <2>1, <2>3 DEF OneSize
    <2>5. RoundUp(conf.user)' = RoundUp(conf.user) BY <1>1
    <2> QED BY <1>1, <2>1, <2>4, <2>5 DEF OneSize
<1>18. TargetData'
    <2>1. TargetData BY IInvParts
    <2>2. \A r, i : Cov(r, i)' = Cov(r, i) /\ MapOf(r, i)' = MapOf(r, i) BY <1>1 DEF Cov, MapOf
    <2>3. \A r \in Servers : target'[r].at \in {"wait", "send", "up"} => r # Cur BY <1>6, <1>8
    <2> QED BY <1>1, <1>8, <2>1, <2>2, <2>3 DEF TargetData
<1>19. Handshake' BY <1>1, <1>4, <1>6, <1>8 DEF Handshake, Greeting
<1>20. OnTheWay(p, s)' BY <1>1, <1>2 DEF OnTheWay
<1>21. ASSUME Good' PROVE Known(p, s)'
    <2>1. Good BY <1>1, <1>21 DEF Good
    <2>2. Known(p, s) BY <1>2, <2>1
    <2>3. \A r : Fits(r)' <=> Fits(r) BY <1>1, <1>9 DEF Fits
    <2>4. \A r \in Servers \ {Cur} : Serves(r)' <=> Serves(r) BY <1>1, <1>8 DEF Serves
    <2>5. \A r \in Served(p, s) : r \in Servers \ {Cur} BY <1>3, Names DEF Served, Before
    <2>6. \A r \in Served(p, s) : Serves(r)' BY <2>2, <2>4, <2>5 DEF Known
    <2>7. RoundUp(conf.user)' = RoundUp(conf.user) BY <1>1
    <2> QED BY <1>1, <1>3, <1>9, <2>2, <2>3, <2>6, <2>7 DEF Known
<1>22. Stage' BY <1>20, <1>21 DEF Stage
<1> QED BY <1>10, <1>11, <1>12, <1>13, <1>14, <1>15, <1>16, <1>17, <1>18, <1>19, <1>22, IInvNext

\* Between two handshakes.
LEMMA MainStep ==
    ASSUME IInv, at = "idle", UNCHANGED <<conf, at, why, fooled, status, dict_left, extras, st, ctl>>,
           MainTypes', FsrvTypes', TargetTypes', OneSize', TargetData', Stage'
    PROVE  IInv'
<1>1. ReadTypes' BY IInvParts DEF ReadTypes
<1>2. PipeTypes' BY IInvParts DEF PipeTypes
<1>3. ConfOK' BY IInvParts DEF ConfOK
<1>4. WhyOK' /\ IdleOK' /\ why = "" BY IInvParts DEF WhyOK, IdleOK
<1>5. GivesUpRightly' BY <1>4 DEF GivesUpRightly
<1>6. Handshake' BY DEF Handshake
<1> QED BY <1>1, <1>2, <1>3, <1>4, <1>5, <1>6, IInvNext

\* main goes on with nothing else changed.
LEMMA ProceedStep ==
    ASSUME IInv, at = "idle", agenda # <<>>,
           UNCHANGED <<conf, env, at, why, fooled, status, dict_left, fsrv, map_size, buf, shm, ijon_seg, extras,
                       target, st, ctl>>,
           agenda' = Tail(agenda), Stage'
    PROVE  IInv'
<1>1. agenda' \in Seq(Items) BY IInvParts, HeadTailProperties DEF MainTypes
<1>2. MainTypes' BY <1>1, IInvParts DEF MainTypes
<1>3. FsrvTypes' /\ TargetTypes' BY IInvParts DEF FsrvTypes, TargetTypes
<1>4. OneSize'
    <2>1. RoundUp(conf.user)' = RoundUp(conf.user) OBVIOUS
    <2> QED BY <2>1, IInvParts DEF OneSize
<1>5. TargetData'
    <2>1. \A r, i : Cov(r, i)' = Cov(r, i) /\ MapOf(r, i)' = MapOf(r, i) BY DEF Cov, MapOf
    <2> QED BY <2>1, IInvParts DEF TargetData
<1> QED BY <1>2, <1>3, <1>4, <1>5, MainStep

\* What holds of a server when nothing has changed but main's list.
LEMMA StillSo ==
    ASSUME UNCHANGED <<conf, env, fsrv, map_size, shm, target>>
    PROVE  /\ (Ijon' <=> Ijon) /\ (\A r : Need(r)' = Need(r)) /\ TheDict' = TheDict
           /\ \A r : (Told(r)' <=> Told(r)) /\ (Fits(r)' <=> Fits(r)) /\ (Serves(r)' <=> Serves(r))
                     /\ (Up(r)' <=> Up(r))
<1>1. (Ijon' <=> Ijon) /\ (\A r : Need(r)' = Need(r)) /\ TheDict' = TheDict BY NeedKept
<1>2. \A r : Told(r)' <=> Told(r) BY <1>1 DEF Told
<1>3. \A r : Fits(r)' <=> Fits(r) BY <1>1 DEF Fits
<1>4. \A r : Serves(r)' <=> Serves(r) BY DEF Serves
<1>5. \A r : Up(r)' <=> Up(r) BY <1>1, <1>2 DEF Up
<1> QED BY <1>1, <1>2, <1>3, <1>4, <1>5

\* The new segment.
LEMMA ReinitStep ==
    ASSUME IInv, NEW S, NEW new \in Nat, map_size < new, Reinit(S, new), shm.seg < 4,
           UNCHANGED <<conf, ijon_seg>>, agenda' \in Seq(Items), FsrvTypes',
           fsrv'["main"].seg = shm.seg + 1, \A r \in Servers : fsrv'[r].seg <= shm.seg + 1,
           fsrv'["main"].map_size = fsrv["main"].map_size,
           fsrv'["main"].real_map_size = fsrv["main"].real_map_size
    PROVE  /\ MainTypes' /\ TargetTypes' /\ OneSize' /\ TargetData'
           /\ (Ijon' <=> Ijon) /\ (\A r : Need(r)' = Need(r)) /\ TheDict' = TheDict
           /\ map_size' = new /\ shm' = [size |-> new, seg |-> shm.seg + 1] /\ env'.no_autodict
           /\ env'.no_ijon = env.no_ijon
           /\ \A r \in Servers \ S : target'[r] = target[r]
<1>1. /\ buf' = new /\ map_size' = new /\ shm' = [size |-> new, seg |-> shm.seg + 1]
      /\ env' = [env EXCEPT !.no_autodict = TRUE]
      /\ target' = [r \in Servers |-> IF r \in S THEN NoTarget ELSE target[r]]
    BY DEF Reinit, NewSegment, Killed
<1>2. env \in [no_autodict : BOOLEAN, no_ijon : BOOLEAN] /\ shm.seg \in 1 .. 4 /\ ijon_seg \in 0 .. 4
      /\ map_size \in Nat
    BY IInvParts DEF MainTypes
<1>3. /\ env' \in [no_autodict : BOOLEAN, no_ijon : BOOLEAN] /\ env'.no_autodict
      /\ env'.no_ijon = env.no_ijon
    BY <1>1, <1>2
<1>4. shm.seg + 1 \in 1 .. 4 /\ shm.seg <= shm.seg + 1 BY <1>2
<1>5. MainTypes' BY <1>1, <1>2, <1>3, <1>4 DEF MainTypes
<1>6. NoTarget \in TargetRecord /\ NoTarget.at = "none" /\ NoTarget.seg = 0
    <2>1. <<>> \in Seq(Words) BY EmptySeq
    <2> QED BY <2>1 DEF NoTarget, TargetRecord
<1>7. target \in [Servers -> TargetRecord] BY IInvParts DEF TargetTypes
<1>8. TargetTypes' BY <1>1, <1>6, <1>7 DEF TargetTypes
<1>9. \A r \in Servers : target'[r] = IF r \in S THEN NoTarget ELSE target[r] BY <1>1
<1>10. Ijon' <=> Ijon BY <1>3 DEF Ijon
<1>11. \A r, i : Cov(r, i)' = Cov(r, i) /\ MapOf(r, i)' = MapOf(r, i) BY DEF Cov, MapOf
<1>12. \A r : Need(r)' = Need(r) BY <1>10 DEF Need, MapOf, Cov
<1>13. TheDict' = TheDict BY DEF TheDict
<1>14. TargetData'
    <2>1. TargetData BY IInvParts
    <2>2. \A r \in Servers : target'[r].at \in {"wait", "send", "up"} => target'[r] = target[r]
        BY <1>6, <1>9
    <2> QED BY <1>11, <2>1, <2>2 DEF TargetData
<1>15. OneSize'
    <2>1. OneSize BY IInvParts
    <2>2. RoundUp(conf.user)' = RoundUp(conf.user) OBVIOUS
    <2>3. RoundUp(conf.user) <= new
        <3>1. conf.user \in Nat BY IInvParts, StartAssumption DEF ConfOK
        <3>2. RoundUp(conf.user) \in Nat /\ RoundUp(conf.user) <= map_size
            BY <2>1, <3>1, RoundUpBounds DEF OneSize
        <3> DEFINE u == RoundUp(conf.user)
        <3>3. u \in Nat /\ u <= map_size BY <3>2
        <3> HIDE DEF u
        <3>4. u <= new BY <1>2, <3>3
        <3> QED BY <3>4 DEF u
    <2>4. ijon_seg <= shm.seg + 1
        <3>1. ijon_seg <= shm.seg BY <2>1 DEF OneSize
        <3> QED BY <1>2, <3>1
    <2>5. ASSUME NEW r \in Servers PROVE target'[r].seg <= shm.seg + 1
        <3>1. target[r].seg <= shm.seg BY <2>1 DEF OneSize
        <3>2. target[r].seg \in 0 .. 4 BY <1>7 DEF TargetRecord
        <3>3. target[r].seg <= shm.seg + 1 BY <1>2, <3>1, <3>2
        <3>4. 0 <= shm.seg + 1 BY <1>2
        <3> QED BY <1>6, <1>9, <3>3, <3>4
    <2>6. fsrv'["main"].map_size < fsrv'["main"].real_map_size + Align BY <2>1 DEF OneSize
    <2>7. shm'.seg = shm.seg + 1 /\ shm'.size = new BY <1>1
    <2> QED BY <1>1, <2>2, <2>3, <2>4, <2>5, <2>6, <2>7 DEF OneSize
<1> QED BY <1>1, <1>3, <1>5, <1>8, <1>9, <1>10, <1>12, <1>13, <1>14, <1>15

LEMMA CheckMainIInv == IInv /\ CheckMain => IInv'
<1> SUFFICES ASSUME IInv, CheckMain PROVE IInv' OBVIOUS
<1> DEFINE new == fsrv["main"].map_size
<1>1. /\ Doing("check", "main")
      /\ IF map_size >= new THEN Proceed /\ UNCHANGED <<env, map_size, buf, shm, fsrv, target>>
         ELSE /\ Reinit({"main"}, new)
              /\ fsrv' = [fsrv EXCEPT !["main"].seg = shm.seg + 1]
              /\ agenda' = Starts(<<"main">>) \o Tail(agenda)
              /\ UNCHANGED <<at, why>>
      /\ UNCHANGED <<conf, fooled, status, dict_left, ijon_seg, extras, st, ctl>>
    BY DEF CheckMain
<1>2. PICK p \in Phases, s \in Servers : OnTheWay(p, s) /\ (Good => Known(p, s))
    BY IInvParts DEF Stage
<1>3. p = "check" /\ s = "main" /\ Tail(agenda) = Plan("ijon", "main")
    BY <1>1, <1>2, AtDoing DEF Onward
<1>4. at = "idle" /\ agenda # <<>> BY <1>1 DEF Doing
<1>5. fsrv \in [Servers -> FsrvRecord] /\ "main" \in Servers /\ new \in Nat
    BY IInvParts, Names DEF FsrvTypes, FsrvRecord
<1>6. map_size \in Nat /\ shm.seg \in 1 .. 4 BY IInvParts DEF MainTypes
<1>7. shm.seg <= 1 + 0 /\ ~env.no_ijon BY <1>2, <1>3 DEF OnTheWay
<1>8. "ijon" \in Phases /\ "again" \in Phases BY DEF Phases
<1>9. CASE map_size >= new
    <2>1. agenda' = Tail(agenda) /\ UNCHANGED <<at, why>> /\ UNCHANGED <<env, map_size, buf, shm, fsrv, target>>
        BY <1>1, <1>9 DEF Proceed
    <2>2. UNCHANGED <<conf, fooled, status, dict_left, ijon_seg, extras, st, ctl>> BY <1>1
    <2>3. OnTheWay("ijon", "main")'
        <3>1. shm'.seg <= 1 + 1 BY <1>6, <1>7, <2>1
        <3> QED BY <1>3, <1>7, <2>1, <3>1 DEF OnTheWay
    <2>4. ASSUME Good' PROVE Known("ijon", "main")'
        <3>1. Good BY <1>4, <2>1, <2>2, <2>4 DEF Good
        <3>2. Known("check", "main") BY <1>2, <1>3, <3>1
        <3>3. /\ (Ijon' <=> Ijon) /\ TheDict' = TheDict
              /\ \A r : (Told(r)' <=> Told(r)) /\ (Fits(r)' <=> Fits(r)) /\ (Serves(r)' <=> Serves(r))
                        /\ (Up(r)' <=> Up(r))
            BY <2>1, <2>2, StillSo
        <3>4. Up("main") BY <3>2 DEF Known
        <3>5. Fits("main")
            <4>1. new = Need("main") BY <3>4 DEF Up, Told
            <4>2. new <= map_size BY <1>5, <1>6, <1>9
            <4>3. Need("main") <= new BY <1>5, <4>1
            <4> QED BY <4>2, <4>3 DEF Fits
        <3>6. Served("ijon", "main") = {} BY DEF Served, Before
        <3> QED BY <1>4, <2>1, <2>2, <3>2, <3>3, <3>4, <3>5, <3>6 DEF Known
    <2>5. Stage' BY <1>5, <1>8, <2>3, <2>4 DEF Stage
    <2> QED BY <1>4, <2>1, <2>2, <2>5, ProceedStep
<1>10. CASE ~(map_size >= new)
    <2>1. /\ Reinit({"main"}, new) /\ fsrv' = [fsrv EXCEPT !["main"].seg = shm.seg + 1]
          /\ agenda' = Starts(<<"main">>) \o Tail(agenda) /\ UNCHANGED <<at, why>>
        BY <1>1, <1>10
    <2>2. UNCHANGED <<conf, fooled, status, dict_left, ijon_seg, extras, st, ctl>> BY <1>1
    <2>3. map_size < new /\ shm.seg < 4 /\ shm.seg + 1 \in 0 .. 4 /\ shm.seg + 1 <= 1 + 1
        BY <1>5, <1>6, <1>7, <1>10
    <2>4. agenda' = Plan("again", "main") BY <1>3, <1>5, <2>1, PlanShape DEF Onward
    <2>5. agenda' \in Seq(Items) BY <1>5, <1>8, <2>4, PlanShape
    <2>6. /\ fsrv' \in [Servers -> FsrvRecord] /\ fsrv'["main"] = [fsrv["main"] EXCEPT !.seg = shm.seg + 1]
          /\ \A r \in Servers \ {"main"} : fsrv'[r] = fsrv[r]
        BY <1>5, <2>1, <2>3 DEF FsrvRecord
    <2>7. /\ fsrv'["main"].seg = shm.seg + 1 /\ fsrv'["main"].map_size = new
          /\ fsrv'["main"].real_map_size = fsrv["main"].real_map_size
          /\ fsrv'["main"].use_shmem_fuzz = fsrv["main"].use_shmem_fuzz
          /\ fsrv'["main"].use_ijon = fsrv["main"].use_ijon
        BY <1>5, <2>6 DEF FsrvRecord
    <2>8. \A r \in Servers : fsrv'[r].seg <= shm.seg + 1
        <3> SUFFICES ASSUME NEW r \in Servers PROVE fsrv'[r].seg <= shm.seg + 1 OBVIOUS
        <3>1. fsrv[r].seg <= shm.seg /\ fsrv[r].seg \in 0 .. 4
            BY <1>5, IInvParts DEF OneSize, FsrvRecord
        <3>2. fsrv[r].seg <= shm.seg + 1 /\ shm.seg + 1 <= shm.seg + 1 BY <1>6, <3>1
        <3> QED BY <2>6, <2>7, <3>2
    <2>9. FsrvTypes' BY <2>6 DEF FsrvTypes
    <2>10. /\ MainTypes' /\ TargetTypes' /\ OneSize' /\ TargetData'
           /\ (Ijon' <=> Ijon) /\ (\A r : Need(r)' = Need(r)) /\ TheDict' = TheDict
           /\ map_size' = new /\ shm' = [size |-> new, seg |-> shm.seg + 1] /\ env'.no_autodict
           /\ env'.no_ijon = env.no_ijon
        <3> HIDE DEF new
        <3>1. fsrv'["main"].map_size = fsrv["main"].map_size BY <2>7 DEF new
        <3> QED BY <1>5, <2>1, <2>2, <2>3, <2>5, <2>7, <2>8, <2>9, <3>1, ReinitStep
    <2>11. OnTheWay("again", "main")'
        <3>1. shm'.seg <= 1 + 1 BY <2>3, <2>10
        <3> QED BY <1>7, <2>4, <2>10, <3>1 DEF OnTheWay
    <2>12. ASSUME Good' PROVE Known("again", "main")'
        <3>1. Good BY <1>4, <2>1, <2>2, <2>12 DEF Good
        <3>2. Known("check", "main") BY <1>2, <1>3, <3>1
        <3>3. new = Need("main") BY <3>2 DEF Known, Up, Told
        <3>4. Fits("main")'
            <4>1. new <= new BY <1>5
            <4> QED BY <2>7, <2>10, <3>3, <4>1 DEF Fits
        <3>5. \A r \in Servers : fsrv'[r].use_shmem_fuzz => conf.shmem BY <2>6, <2>7, <3>2 DEF Known
        <3>6. fsrv'["main"].use_ijon => conf.ijon BY <2>7, <3>2 DEF Known
        <3>7. extras = TheDict BY <3>2 DEF Known
        <3>8. fsrv'["main"].seg = shm'.seg BY <2>7, <2>10
        <3>9. Served("again", "main") = {} BY DEF Served, Before
        <3>10. at' = "idle" BY <1>4, <2>1
        <3> QED BY <2>2, <2>10, <3>4, <3>5, <3>6, <3>7, <3>8, <3>9, <3>10 DEF Known
    <2>13. Stage' BY <1>5, <1>8, <2>11, <2>12 DEF Stage
    <2> QED BY <1>4, <2>1, <2>2, <2>9, <2>10, <2>13, MainStep
<1> QED BY <1>9, <1>10

LEMMA CheckExtraIInv == ASSUME NEW c \in Extra PROVE IInv /\ CheckExtra(c) => IInv'
<1> SUFFICES ASSUME IInv, CheckExtra(c) PROVE IInv' OBVIOUS
<1> DEFINE new == fsrv[c].map_size
           M == fsrv["main"].map_size
<1>1. /\ Doing("check", c)
      /\ IF map_size >= new THEN Proceed /\ UNCHANGED <<env, map_size, buf, shm, fsrv, target>>
         ELSE /\ Reinit({"main", c}, new)
              /\ fsrv' = [fsrv EXCEPT ![c].seg = shm.seg + 1, !["main"].seg = shm.seg + 1,
                           ![c].map_size = IF c = "san" THEN M ELSE new]
              /\ agenda' = Starts(<<"main", c>>) \o Tail(agenda)
              /\ UNCHANGED <<at, why>>
      /\ UNCHANGED <<conf, fooled, status, dict_left, ijon_seg, extras, st, ctl>>
    BY DEF CheckExtra
<1>2. PICK p \in Phases, s \in Servers : OnTheWay(p, s) /\ (Good => Known(p, s))
    BY IInvParts DEF Stage
<1>3. c \in Servers /\ c # "main" /\ "main" \in Servers /\ c \in {"san", "cmplog"} BY Names
<1>4. p = "check" /\ s = c /\ Tail(agenda) = Plan("done", c) BY <1>1, <1>2, <1>3, AtDoing DEF Onward
<1>5. at = "idle" /\ agenda # <<>> BY <1>1 DEF Doing
<1>6. fsrv \in [Servers -> FsrvRecord] /\ new \in Nat /\ M \in Nat
    BY <1>3, IInvParts DEF FsrvTypes, FsrvRecord
<1>7. map_size \in Nat /\ shm.seg \in 1 .. 4 BY IInvParts DEF MainTypes
<1>8. shm.seg <= (CASE c = "main" -> 1 [] c = "san" -> 2 [] c = "cmplog" -> 3) + 0
    BY <1>2, <1>4 DEF OnTheWay
<1>9. "done" \in Phases /\ "both" \in Phases BY DEF Phases
<1>10. shm.seg <= 3 /\ shm.seg + 1 <= (CASE c = "main" -> 1 [] c = "san" -> 2 [] c = "cmplog" -> 3) + 1
       /\ shm.seg <= (CASE c = "main" -> 1 [] c = "san" -> 2 [] c = "cmplog" -> 3) + 1
    <2>1. CASE c = "san" BY <1>7, <1>8, <2>1
    <2>2. CASE c = "cmplog" BY <1>7, <1>8, <2>2
    <2> QED BY <1>3, <2>1, <2>2
<1>11. CASE map_size >= new
    <2>1. agenda' = Tail(agenda) /\ UNCHANGED <<at, why>> /\ UNCHANGED <<env, map_size, buf, shm, fsrv, target>>
        BY <1>1, <1>11 DEF Proceed
    <2>2. UNCHANGED <<conf, fooled, status, dict_left, ijon_seg, extras, st, ctl>> BY <1>1
    <2>3. OnTheWay("done", c)' BY <1>3, <1>4, <1>10, <2>1 DEF OnTheWay
    <2>4. ASSUME Good' PROVE Known("done", c)'
        <3>1. Good BY <1>5, <2>1, <2>2, <2>4 DEF Good
        <3>2. Known("check", c) BY <1>2, <1>4, <3>1
        <3>3. /\ (Ijon' <=> Ijon) /\ TheDict' = TheDict
              /\ \A r : (Told(r)' <=> Told(r)) /\ (Fits(r)' <=> Fits(r)) /\ (Serves(r)' <=> Serves(r))
                        /\ (Up(r)' <=> Up(r))
            BY <2>1, <2>2, StillSo
        <3>4. Serves(c)
            <4>1. Up(c) BY <3>2 DEF Known
            <4>2. fsrv[c].map_size <= map_size BY <1>6, <1>7, <1>11
            <4>3. shm.size = map_size BY IInvParts DEF OneSize
            <4>4. ConfOK /\ TargetData /\ FsrvTypes /\ TargetTypes /\ MainTypes BY IInvParts
            <4> QED BY <1>3, <4>1, <4>2, <4>3, <4>4, UpServes
        <3>5. Served("done", c) = Before(c) \cup {c} /\ Served("check", c) = Before(c) BY DEF Served
        <3>6. \A r \in Served("done", c) : Serves(r)' BY <3>2, <3>3, <3>4, <3>5 DEF Known
        <3> QED BY <1>3, <1>5, <2>1, <2>2, <3>2, <3>3, <3>6 DEF Known
    <2>5. Stage' BY <1>3, <1>9, <2>3, <2>4 DEF Stage
    <2> QED BY <1>5, <2>1, <2>2, <2>5, ProceedStep
<1>12. CASE ~(map_size >= new)
    <2>1. /\ Reinit({"main", c}, new)
          /\ fsrv' = [fsrv EXCEPT ![c].seg = shm.seg + 1, !["main"].seg = shm.seg + 1,
                       ![c].map_size = IF c = "san" THEN M ELSE new]
          /\ agenda' = Starts(<<"main", c>>) \o Tail(agenda) /\ UNCHANGED <<at, why>>
        BY <1>1, <1>12
    <2>2. UNCHANGED <<conf, fooled, status, dict_left, ijon_seg, extras, st, ctl>> BY <1>1
    <2>3. map_size < new /\ shm.seg < 4 /\ shm.seg + 1 \in 0 .. 4 /\ shm.seg + 1 > 1
        BY <1>6, <1>7, <1>10, <1>12
    <2>4. agenda' = Plan("both", c)
        <3>1. Starts(<<"main", c>>) \o Plan("done", c) = Plan("both", c)
            BY <1>3, PlanShape DEF Onward
        <3> QED BY <1>4, <2>1, <3>1
    <2>5. agenda' \in Seq(Items) BY <1>3, <1>9, <2>4, PlanShape
    <2>6. /\ fsrv' \in [Servers -> FsrvRecord] /\ fsrv'["main"] = [fsrv["main"] EXCEPT !.seg = shm.seg + 1]
          /\ fsrv'[c] = [fsrv[c] EXCEPT !.seg = shm.seg + 1, !.map_size = IF c = "san" THEN M ELSE new]
          /\ \A r \in Servers \ {"main", c} : fsrv'[r] = fsrv[r]
        <3>1. PICK f : f = [fsrv["main"] EXCEPT !.seg = shm.seg + 1] OBVIOUS
        <3>2. PICK g : g = [fsrv[c] EXCEPT !.seg = shm.seg + 1, !.map_size = IF c = "san" THEN M ELSE new]
            OBVIOUS
        <3>3. f \in FsrvRecord /\ g \in FsrvRecord
            <4> DEFINE k == shm.seg + 1
                       x == IF c = "san" THEN M ELSE new
            <4>1. fsrv["main"] \in FsrvRecord /\ fsrv[c] \in FsrvRecord BY <1>3, <1>6
            <4>2. k \in 0 .. 4 /\ x \in Nat BY <1>6, <2>3
            <4>3. f = [fsrv["main"] EXCEPT !.seg = k] /\ g = [fsrv[c] EXCEPT !.seg = k, !.map_size = x]
                BY <3>1, <3>2
            <4> HIDE DEF k, x
            <4> QED BY <4>1, <4>2, <4>3 DEF FsrvRecord
        <3>4. fsrv' = [fsrv EXCEPT ![c] = g, !["main"] = f]
            <4> HIDE DEF M, new
            <4> QED BY <1>3, <1>6, <2>1, <3>1, <3>2 DEF FsrvRecord
        <3> HIDE DEF M, new
        <3>5. fsrv' \in [Servers -> FsrvRecord] BY <1>3, <1>6, <3>3, <3>4
        <3>6. fsrv'["main"] = f /\ fsrv'[c] = g /\ \A r \in Servers \ {"main", c} : fsrv'[r] = fsrv[r]
            BY <1>3, <1>6, <3>4
        <3> QED BY <3>1, <3>2, <3>5, <3>6
    <2>7. /\ fsrv'["main"].seg = shm.seg + 1 /\ fsrv'["main"].map_size = M
          /\ fsrv'["main"].real_map_size = fsrv["main"].real_map_size
          /\ fsrv'["main"].use_shmem_fuzz = fsrv["main"].use_shmem_fuzz
          /\ fsrv'[c].seg = shm.seg + 1 /\ fsrv'[c].use_shmem_fuzz = fsrv[c].use_shmem_fuzz
          /\ fsrv'[c].map_size = IF c = "san" THEN M ELSE new
        BY <1>3, <1>6, <2>6 DEF FsrvRecord
    <2>8. \A r \in Servers : fsrv'[r].seg <= shm.seg + 1
        <3> SUFFICES ASSUME NEW r \in Servers PROVE fsrv'[r].seg <= shm.seg + 1 OBVIOUS
        <3>1. fsrv[r].seg <= shm.seg /\ fsrv[r].seg \in 0 .. 4
            BY <1>6, IInvParts DEF OneSize, FsrvRecord
        <3>2. fsrv[r].seg <= shm.seg + 1 /\ shm.seg + 1 <= shm.seg + 1 BY <1>7, <3>1
        <3> QED BY <2>6, <2>7, <3>2
    <2>9. FsrvTypes' BY <2>6 DEF FsrvTypes
    <2>10. /\ MainTypes' /\ TargetTypes' /\ OneSize' /\ TargetData'
           /\ (Ijon' <=> Ijon) /\ (\A r : Need(r)' = Need(r)) /\ TheDict' = TheDict
           /\ map_size' = new /\ shm' = [size |-> new, seg |-> shm.seg + 1] /\ env'.no_autodict
           /\ \A r \in Servers \ {"main", c} : target'[r] = target[r]
        <3>1. fsrv'["main"].map_size = fsrv["main"].map_size BY <2>7
        <3> HIDE DEF new, M
        <3> QED BY <1>6, <2>1, <2>2, <2>3, <2>5, <2>7, <2>8, <2>9, <3>1, ReinitStep
    <2>11. OnTheWay("both", c)' BY <1>3, <1>10, <2>3, <2>4, <2>10 DEF OnTheWay
    <2>12. ASSUME Good' PROVE Known("both", c)'
        <3>1. Good BY <1>5, <2>1, <2>2, <2>12 DEF Good
        <3>2. Known("check", c) BY <1>2, <1>4, <3>1
        <3>3. new = Need(c) BY <3>2 DEF Known, Up, Told
        <3>4. c # "san" => Fits(c)'
            <4>1. new <= new BY <1>6
            <4> QED BY <2>7, <2>10, <3>3, <4>1 DEF Fits
        <3>5. Fits("main")'
            <4>1. Need("main") <= M /\ M <= map_size BY <1>3, <3>2 DEF Known, Fits
            <4>2. M <= new BY <1>6, <1>7, <2>3, <4>1
            <4> QED BY <2>7, <2>10, <4>1, <4>2 DEF Fits
        <3>6. \A r \in Servers : fsrv'[r].use_shmem_fuzz => conf.shmem BY <2>6, <2>7, <3>2 DEF Known
        <3>7. extras = TheDict /\ ~Ijon BY <1>3, <3>2 DEF Known
        <3>8. fsrv'[c].seg = shm'.seg BY <2>7, <2>10
        <3>9. \A r \in Served("both", c) : Serves(r)'
            <4>1. Served("both", c) = Before(c) \ {"main"} /\ Served("check", c) = Before(c)
                BY DEF Served
            <4>2. \A r \in Before(c) \ {"main"} : r = "san" /\ r \in Servers \ {"main", c}
                BY <1>3, Names DEF Before
            <4>3. ASSUME NEW r \in Served("both", c) PROVE Serves(r)'
                <5>1. r = "san" /\ r \in Servers \ {"main", c} /\ Serves(r)
                    BY <3>2, <4>1, <4>2 DEF Known
                <5>2. target'[r] = target[r] /\ fsrv'[r] = fsrv[r] BY <2>6, <2>10, <5>1
                <5> QED BY <5>1, <5>2 DEF Serves
            <4> QED BY <4>3
        <3>10. at' = "idle" BY <1>5, <2>1
        <3> QED BY <1>3, <2>2, <2>10, <3>4, <3>5, <3>6, <3>7, <3>8, <3>9, <3>10 DEF Known
    <2>13. Stage' BY <1>3, <1>9, <2>11, <2>12 DEF Stage
    <2> QED BY <1>5, <2>1, <2>2, <2>9, <2>10, <2>13, MainStep
<1> QED BY <1>11, <1>12

LEMMA SetUpIjonIInv == IInv /\ SetUpIjon => IInv'
<1> SUFFICES ASSUME IInv, SetUpIjon PROVE IInv' OBVIOUS
<1> DEFINE f == fsrv["main"]
<1>1. /\ Doing("ijon", "main")
      /\ CASE ~f.use_ijon -> Proceed /\ UNCHANGED <<env, fsrv, ijon_seg>>
           [] f.use_ijon /\ f.map_size <= IjonMin + IjonBytes + IjonMap ->
                at' = "fatal" /\ why' = "ijon" /\ UNCHANGED <<agenda, env, fsrv, ijon_seg>>
           [] OTHER ->
                /\ fsrv' = [fsrv EXCEPT !["main"].map_size = @ - IjonBytes,
                                        !["main"].real_map_size = @ - IjonBytes]
                /\ ijon_seg' = f.seg
                /\ env' = [env EXCEPT !.no_ijon = TRUE]
                /\ Proceed
      /\ UNCHANGED <<conf, fooled, status, dict_left, map_size, buf, shm, extras, target, st, ctl>>
    BY DEF SetUpIjon
<1>2. PICK p \in Phases, s \in Servers : OnTheWay(p, s) /\ (Good => Known(p, s))
    BY IInvParts DEF Stage
<1>3. p = "ijon" /\ s = "main" /\ Tail(agenda) = Plan("done", "main") BY <1>1, <1>2, AtDoing
<1>4. at = "idle" /\ agenda # <<>> BY <1>1 DEF Doing
<1>5. fsrv \in [Servers -> FsrvRecord] /\ "main" \in Servers BY IInvParts, Names DEF FsrvTypes
<1>6. f \in FsrvRecord /\ f.map_size \in Nat /\ f.real_map_size \in Nat /\ f.use_ijon \in BOOLEAN
    BY <1>5 DEF FsrvRecord
<1>7. shm.seg <= 1 + 1 /\ ~env.no_ijon
    <2>1. shm.seg <= (CASE "main" = "main" -> 1 [] "main" = "san" -> 2 [] "main" = "cmplog" -> 3) + 1
        BY <1>2, <1>3 DEF OnTheWay
    <2> QED BY <1>2, <1>3, <2>1 DEF OnTheWay
<1>8. "done" \in Phases BY DEF Phases
<1>9. UNCHANGED <<conf, fooled, status, dict_left, map_size, buf, shm, extras, target, st, ctl>>
    BY <1>1
<1>10. Served("done", "main") = {"main"} BY DEF Served, Before
<1>11. OnTheWay("done", "main")' <=> agenda' = Plan("done", "main")
    BY <1>7, <1>9 DEF OnTheWay
<1>12. ASSUME Good
       PROVE  /\ Known("ijon", "main") /\ Up("main") /\ Fits("main") /\ Serves("main") /\ (f.use_ijon <=> Ijon)
    <2>1. Known("ijon", "main") BY <1>2, <1>3, <1>12
    <2>2. Up("main") /\ Fits("main") BY <2>1 DEF Known
    <2>3. f.use_ijon <=> Ijon BY <1>7, <2>1, <2>2 DEF Known, Up, Told, Ijon
    <2>4. Serves("main")
        <3>1. f.map_size <= map_size BY <2>2 DEF Fits
        <3>2. shm.size = map_size BY IInvParts DEF OneSize
        <3>3. ConfOK /\ TargetData /\ FsrvTypes /\ TargetTypes /\ MainTypes BY IInvParts
        <3> QED BY <1>5, <2>2, <3>1, <3>2, <3>3, UpServes
    <2> QED BY <2>1, <2>2, <2>3, <2>4
<1>13. CASE ~f.use_ijon
    <2>1. agenda' = Tail(agenda) /\ UNCHANGED <<at, why, env, fsrv, ijon_seg>>
        BY <1>1, <1>13 DEF Proceed
    <2>2. OnTheWay("done", "main")' BY <1>3, <1>11, <2>1
    <2>3. ASSUME Good' PROVE Known("done", "main")'
        <3>1. Good BY <1>4, <1>9, <2>1, <2>3 DEF Good
        <3>2. Known("ijon", "main") /\ Fits("main") /\ Serves("main") /\ ~Ijon BY <1>12, <1>13, <3>1
        <3>3. /\ (Ijon' <=> Ijon) /\ TheDict' = TheDict
              /\ \A r : (Fits(r)' <=> Fits(r)) /\ (Serves(r)' <=> Serves(r))
            BY <1>9, <2>1, StillSo
        <3> QED BY <1>4, <1>9, <1>10, <2>1, <3>2, <3>3 DEF Known
    <2>4. Stage' BY <1>5, <1>8, <2>2, <2>3 DEF Stage
    <2> QED BY <1>4, <1>9, <2>1, <2>4, ProceedStep
<1>14. CASE f.use_ijon /\ f.map_size <= IjonMin + IjonBytes + IjonMap
    <2>1. at' = "fatal" /\ why' = "ijon" /\ UNCHANGED <<agenda, env, fsrv, ijon_seg>> BY <1>1, <1>14
    <2>2. FsrvTypes' /\ TargetTypes' /\ ConfOK'
        BY <1>9, <2>1, IInvParts DEF FsrvTypes, TargetTypes, ConfOK
    <2>3. OneSize'
        <3>1. RoundUp(conf.user)' = RoundUp(conf.user) BY <1>9
        <3> QED BY <1>9, <2>1, <3>1, IInvParts DEF OneSize
    <2>4. TargetData'
        <3>1. \A r, i : Cov(r, i)' = Cov(r, i) /\ MapOf(r, i)' = MapOf(r, i) BY <1>9 DEF Cov, MapOf
        <3> QED BY <1>9, <3>1, IInvParts DEF TargetData
    <2>5. GivesUpRightly' BY <2>1 DEF GivesUpRightly
    <2>6. st' \in Seq(Words) /\ Len(ctl') <= 1 BY <1>9, IInvParts DEF PipeTypes
    <2> QED BY <1>9, <2>1, <2>2, <2>3, <2>4, <2>5, <2>6, FatalStep
<1>15. CASE f.use_ijon /\ ~(f.map_size <= IjonMin + IjonBytes + IjonMap)
    <2>1. /\ fsrv' = [fsrv EXCEPT !["main"].map_size = @ - IjonBytes, !["main"].real_map_size = @ - IjonBytes]
          /\ ijon_seg' = f.seg /\ env' = [env EXCEPT !.no_ijon = TRUE]
          /\ agenda' = Tail(agenda) /\ UNCHANGED <<at, why>>
        BY <1>1, <1>15 DEF Proceed
    <2> DEFINE M == f.map_size
               R == f.real_map_size
    <2>2. IjonMin \in Nat /\ IjonBytes \in Nat /\ IjonMap \in Nat /\ Align \in Nat /\ Align <= IjonMap
        BY StartAssumption
    <2>3. M < R + Align /\ f.seg = shm.seg BY IInvParts DEF OneSize
    <2>4. M - IjonBytes \in Nat /\ R - IjonBytes \in Nat /\ M - IjonBytes < (R - IjonBytes) + Align
        <3>1. M \in Nat /\ R \in Nat /\ ~(M <= IjonMin + IjonBytes + IjonMap) BY <1>6, <1>15
        <3>2. M < R + Align BY <2>3
        <3> HIDE DEF M, R
        <3> QED BY <2>2, <3>1, <3>2
    <2>5. PICK g : g = [f EXCEPT !.map_size = M - IjonBytes, !.real_map_size = R - IjonBytes] OBVIOUS
    <2>6. g \in FsrvRecord /\ g.map_size = M - IjonBytes /\ g.real_map_size = R - IjonBytes /\ g.seg = f.seg
          /\ g.use_shmem_fuzz = f.use_shmem_fuzz
        <3>1. M - IjonBytes \in Nat /\ R - IjonBytes \in Nat BY <2>4
        <3> DEFINE m == M - IjonBytes
                   r == R - IjonBytes
        <3>2. m \in Nat /\ r \in Nat /\ g = [f EXCEPT !.map_size = m, !.real_map_size = r]
            BY <2>5, <3>1
        <3> HIDE DEF m, r, f
        <3>3. g \in FsrvRecord /\ g.map_size = m /\ g.real_map_size = r /\ g.seg = f.seg
              /\ g.use_shmem_fuzz = f.use_shmem_fuzz
            BY <1>6, <3>2 DEF FsrvRecord
        <3> QED BY <3>3 DEF m, r
    <2>7. fsrv' = [fsrv EXCEPT !["main"] = g] BY <1>5, <2>1, <2>5 DEF FsrvRecord
    <2>8. FsrvTypes' BY <1>5, <2>6, <2>7 DEF FsrvTypes
    <2>9. fsrv'["main"] = g /\ \A r \in Servers \ {"main"} : fsrv'[r] = fsrv[r] BY <1>5, <2>7
    <2>10. TargetTypes' BY <1>9, IInvParts DEF TargetTypes
    <2>11. MainTypes'
        <3>1. agenda' \in Seq(Items) BY <1>4, <2>1, IInvParts, HeadTailProperties DEF MainTypes
        <3>2. ijon_seg' \in 0 .. 4 BY <1>6, <2>1 DEF FsrvRecord
        <3>3. env' \in [no_autodict : BOOLEAN, no_ijon : BOOLEAN] BY <2>1, IInvParts DEF MainTypes
        <3> QED BY <1>9, <3>1, <3>2, <3>3, IInvParts DEF MainTypes
    <2>12. OneSize'
        <3>1. OneSize BY IInvParts
        <3>2. RoundUp(conf.user)' = RoundUp(conf.user) BY <1>9
        <3>3. \A r \in Servers : fsrv'[r].seg = fsrv[r].seg BY <1>5, <2>6, <2>9
        <3>4. shm.seg \in 1 .. 4 BY IInvParts DEF MainTypes
        <3>5. ijon_seg' <= shm.seg BY <2>1, <2>3, <3>4
        <3>6. fsrv'["main"].map_size < fsrv'["main"].real_map_size + Align BY <2>4, <2>6, <2>9
        <3> QED BY <1>5, <1>9, <3>1, <3>2, <3>3, <3>5, <3>6 DEF OneSize
    <2>13. TargetData'
        <3>1. \A r, i : Cov(r, i)' = Cov(r, i) /\ MapOf(r, i)' = MapOf(r, i) BY <1>9 DEF Cov, MapOf
        <3> QED BY <1>9, <3>1, IInvParts DEF TargetData
    <2>14. OnTheWay("done", "main")' BY <1>3, <1>11, <2>1
    <2>15. ~Ijon'
        <3>1. env'.no_ijon BY <2>1, IInvParts DEF MainTypes
        <3> QED BY <3>1 DEF Ijon
    <2>16. ASSUME Good' PROVE Known("done", "main")'
        <3>1. Good BY <1>4, <1>9, <2>1, <2>16 DEF Good
        <3>2. Known("ijon", "main") /\ Up("main") /\ Fits("main") /\ Serves("main") /\ Ijon = TRUE
            <4>1. Ijon \in BOOLEAN BY IInvParts DEF ConfOK, Ijon, MainTypes
            <4> QED BY <1>12, <1>15, <3>1, <4>1
        <3>3. target["main"].ijon = TRUE /\ M = RoundUp(MapOf("main", TRUE))
            BY <3>2 DEF Up, Told, Need
        <3>4. target["main"].cov = Cov("main", TRUE)
            BY <1>5, <3>2, <3>3, IInvParts DEF TargetData, Up
        <3> DEFINE c == Cov("main", TRUE)
                   a == MapOf("main", TRUE)
                   b == RoundUp(MapOf("main", FALSE))
        <3>5. ConfOK BY IInvParts
        <3>6. c \in Nat /\ a \in Nat /\ a <= M /\ c + IjonBytes = a /\ b \in Nat /\ b + IjonBytes <= M
            <4>1. c \in Nat /\ a \in Nat /\ a <= RoundUp(a) BY <1>5, <3>5, SizeFacts
            <4>2. b \in Nat BY <1>5, <3>5, SizeFacts
            <4>3. c + IjonBytes = a /\ b + IjonBytes <= RoundUp(a) BY <1>5, <3>5, SizeFacts
            <4> QED BY <3>3, <4>1, <4>2, <4>3
        <3>7. M <= map_size /\ map_size \in Nat BY <3>2, IInvParts DEF Fits, MainTypes
        <3> HIDE DEF c, a, b
        <3>8. c <= M - IjonBytes /\ b <= M - IjonBytes /\ M - IjonBytes <= map_size
            <4>1. M \in Nat BY <1>6
            <4> HIDE DEF M
            <4> QED BY <2>2, <3>6, <3>7, <4>1
        <3>9. Need("main")' = b
            <4>1. Ijon' = FALSE BY <2>15, IInvParts DEF Ijon
            <4>2. MapOf("main", FALSE)' = MapOf("main", FALSE) BY <1>9 DEF MapOf, Cov
            <4> QED BY <4>1, <4>2 DEF Need, b, MapOf, Cov
        <3>10. Fits("main")' BY <1>9, <2>6, <2>9, <3>8, <3>9 DEF Fits
        <3>11. Serves("main")'
            <4>1. target["main"].cov <= g.map_size BY <2>6, <3>4, <3>8 DEF c
            <4> QED BY <1>9, <2>6, <2>9, <3>2, <4>1 DEF Serves
        <3>12. \A r \in Servers : fsrv'[r].use_shmem_fuzz => conf.shmem
            BY <1>5, <2>6, <2>9, <3>2 DEF Known
        <3>13. extras' = TheDict' BY <1>9, <3>2 DEF Known, TheDict
        <3>14. at' = "idle" BY <1>4, <2>1
        <3> QED BY <1>9, <1>10, <2>15, <3>10, <3>11, <3>12, <3>13, <3>14 DEF Known
    <2>17. Stage' BY <1>5, <1>8, <2>14, <2>16 DEF Stage
    <2> QED BY <1>4, <1>9, <2>1, <2>8, <2>10, <2>11, <2>12, <2>13, <2>17, MainStep
<1> QED BY <1>13, <1>14, <1>15

LEMMA DummySizeBounds ==
    ASSUME IInv, NEW n \in Nat
    PROVE  DummySize(n) \in Nat /\ DummySize(n) >= DEFAULT_SHMEM_SIZE /\ DummySize(n) >= RoundUp(conf.user)
<1> DEFINE d == DEFAULT_SHMEM_SIZE
           u == RoundUp(conf.user)
           x == Max({map_size, d})
<1>1. d \in Nat /\ map_size \in Nat BY StartAssumption, IInvParts DEF MainTypes
<1>2. conf.user \in Nat BY StartAssumption, IInvParts DEF ConfOK
<1>3. u \in Nat /\ u <= map_size BY <1>2, RoundUpBounds, IInvParts DEF OneSize
<1>4. x \in Nat /\ map_size <= x /\ d <= x BY <1>1, MaxPair
<1>5. DummySize(n) = IF map_size <= d \/ n < map_size THEN x ELSE n BY DEF DummySize
<1> HIDE DEF d, u, x
<1>6. LET z == IF map_size <= d \/ n < map_size THEN x ELSE n IN z \in Nat /\ z >= d /\ z >= u
    BY <1>1, <1>3, <1>4
<1> QED BY <1>5, <1>6 DEF d, u

LEMMA SpawnIInv == ASSUME NEW c \in Extra PROVE IInv /\ Spawn(c) => IInv'
<1> SUFFICES ASSUME IInv, Spawn(c) PROVE IInv' OBVIOUS
<1> DEFINE M == fsrv["main"].map_size
           k == fsrv["main"].seg
<1>1. /\ Doing("spawn", c)
      /\ fsrv' = [fsrv EXCEPT ![c] = [NewFsrv(DummySize(M)) EXCEPT !.seg = k]]
      /\ agenda' = <<Do("start", c), Do("check", c)>> \o Tail(agenda)
      /\ UNCHANGED <<conf, env, at, why, fooled, status, dict_left, map_size, buf, shm, ijon_seg,
                     extras, target, st, ctl>>
    BY DEF Spawn
<1>2. PICK p \in Phases, s \in Servers : OnTheWay(p, s) /\ (Good => Known(p, s))
    BY IInvParts DEF Stage
<1>3. c \in Servers /\ c # "main" /\ "main" \in Servers /\ c \in {"san", "cmplog"} BY Names
<1>4. p = "done" BY <1>1, <1>2, AtDoing
<1>5. at = "idle" /\ agenda # <<>> /\ Head(agenda) = Do("spawn", c) BY <1>1 DEF Doing
<1>6. agenda' = Plan("first", c) /\ Before(c) = Before(s) \cup {s} /\ Rank(c) > Rank(s)
    <2>1. agenda = Plan("done", s) BY <1>2, <1>4 DEF OnTheWay
    <2>2. PICK n \in Extra : /\ Head(agenda) = Do("spawn", n)
                             /\ <<Do("start", n), Do("check", n)>> \o Tail(agenda) = Plan("first", n)
                             /\ Before(n) = Before(s) \cup {s} /\ Rank(n) > Rank(s)
        BY <1>5, <2>1, PlanDone
    <2>3. n = c BY <1>5, <2>2 DEF Do
    <2> QED BY <1>1, <2>2, <2>3
<1>7. fsrv \in [Servers -> FsrvRecord] BY IInvParts DEF FsrvTypes
<1>8. M \in Nat /\ k \in 0 .. 4 /\ k = shm.seg BY <1>3, <1>7, IInvParts DEF FsrvRecord, OneSize
<1>9. PICK D : D = DummySize(M) OBVIOUS
<1>10. D \in Nat /\ D >= DEFAULT_SHMEM_SIZE /\ D >= RoundUp(conf.user)
    BY <1>8, <1>9, DummySizeBounds
<1>11. PICK g : g = [NewFsrv(D) EXCEPT !.seg = k] OBVIOUS
<1>12. fsrv' = [fsrv EXCEPT ![c] = g] BY <1>1, <1>9, <1>11
<1>13. g \in FsrvRecord /\ g.seg = shm.seg /\ g.map_size = D /\ g.use_shmem_fuzz = FALSE
    <2>1. NewFsrv(D) \in FsrvRecord /\ NewFsrv(D).map_size = D /\ NewFsrv(D).use_shmem_fuzz = FALSE
        BY <1>10 DEF NewFsrv, FsrvRecord
    <2> QED BY <1>8, <1>11, <2>1 DEF FsrvRecord
<1>14. FsrvTypes' /\ fsrv'[c] = g /\ \A r \in Servers \ {c} : fsrv'[r] = fsrv[r]
    BY <1>3, <1>7, <1>12, <1>13 DEF FsrvTypes
<1>15. "first" \in Phases BY DEF Phases
<1>16. MainTypes'
    <2>1. agenda' \in Seq(Items) BY <1>3, <1>6, <1>15, PlanShape
    <2> QED BY <1>1, <2>1, IInvParts DEF MainTypes
<1>17. TargetTypes' BY <1>1, IInvParts DEF TargetTypes
<1>18. OneSize'
    <2>1. OneSize BY IInvParts
    <2>2. RoundUp(conf.user)' = RoundUp(conf.user) BY <1>1
    <2>3. shm.seg \in 1 .. 4 BY IInvParts DEF MainTypes
    <2>4. \A r \in Servers : fsrv'[r].seg <= shm.seg BY <1>13, <1>14, <2>1, <2>3 DEF OneSize
    <2> QED BY <1>1, <1>3, <1>14, <2>1, <2>2, <2>4 DEF OneSize
<1>19. TargetData'
    <2>1. \A r, i : Cov(r, i)' = Cov(r, i) /\ MapOf(r, i)' = MapOf(r, i) BY <1>1 DEF Cov, MapOf
    <2> QED BY <1>1, <2>1, IInvParts DEF TargetData
<1>20. OnTheWay("first", c)'
    <2>1. shm.seg <= (CASE s = "main" -> 1 [] s = "san" -> 2 [] s = "cmplog" -> 3) + 1
        BY <1>2, <1>4 DEF OnTheWay
    <2>2. shm.seg <= (CASE c = "main" -> 1 [] c = "san" -> 2 [] c = "cmplog" -> 3) + 0
        <3>1. shm.seg <= Rank(s) + 1 BY <2>1 DEF Rank
        <3>2. Rank(s) \in Nat /\ Rank(c) \in Nat BY <1>3, Names DEF Rank
        <3>3. shm.seg \in 1 .. 4 BY IInvParts DEF MainTypes
        <3>4. shm.seg <= Rank(c) + 0 BY <1>6, <3>1, <3>2, <3>3
        <3> QED BY <3>4 DEF Rank
    <2> QED BY <1>1, <1>3, <1>6, <2>2 DEF OnTheWay
<1>21. ASSUME Good' PROVE Known("first", c)'
    <2>1. Good BY <1>1, <1>5, <1>21 DEF Good
    <2>2. Known("done", s) BY <1>2, <1>4, <2>1
    <2>3. (Ijon' <=> Ijon) /\ (\A r : Need(r)' = Need(r)) /\ TheDict' = TheDict BY <1>1, NeedKept
    <2>4. Fits("main")'
        <3>1. Fits("main") BY <2>2 DEF Known
        <3> QED BY <1>1, <1>3, <1>14, <2>3, <3>1 DEF Fits
    <2>5. \A r \in Served("first", c) : Serves(r)'
        <3> SUFFICES ASSUME NEW r \in Served("first", c) PROVE Serves(r)' OBVIOUS
        <3>1. Served("first", c) = Before(c) /\ Served("done", s) = Before(s) \cup {s} BY DEF Served
        <3>2. Serves(r) BY <1>6, <2>2, <3>1 DEF Known
        <3>3. r \in Servers /\ r # c BY <1>3, <3>1, Names DEF Before
        <3>4. fsrv'[r] = fsrv[r] BY <1>14, <3>3
        <3> QED BY <1>1, <3>2, <3>4 DEF Serves
    <2>6. \A r \in Servers : fsrv'[r].use_shmem_fuzz => conf.shmem BY <1>13, <1>14, <2>2 DEF Known
    <2>7. extras = TheDict /\ ~Ijon BY <2>2 DEF Known
    <2>8. fsrv'[c].map_size >= RoundUp(conf.user) /\ fsrv'[c].map_size >= DEFAULT_SHMEM_SIZE
          /\ fsrv'[c].seg = shm.seg
        BY <1>10, <1>13, <1>14
    <2>9. RoundUp(conf.user)' = RoundUp(conf.user) BY <1>1
    <2> QED BY <1>1, <1>3, <1>5, <2>3, <2>4, <2>5, <2>6, <2>7, <2>8, <2>9 DEF Known
<1>22. Stage' BY <1>3, <1>15, <1>20, <1>21 DEF Stage
<1> QED BY <1>1, <1>5, <1>14, <1>16, <1>17, <1>18, <1>19, <1>22, MainStep

-----------------------------------------------------------------------------
(***************************************************************************)
(* The invariant holds initially and is kept.                              *)
(***************************************************************************)
LEMMA InitAgenda ==
    <<Do("start", "main"), Do("check", "main"), Do("ijon", "main")>>
    \o (IF "san" \in Extra THEN <<Do("spawn", "san")>> ELSE <<>>)
    \o (IF "cmplog" \in Extra THEN <<Do("spawn", "cmplog")>> ELSE <<>>)
    = Plan("first", "main")
<1> DEFINE a == Do("start", "main")
           c == Do("check", "main")
           i == Do("ijon", "main")
           A == IF "san" \in Extra THEN <<Do("spawn", "san")>> ELSE <<>>
           B == IF "cmplog" \in Extra THEN <<Do("spawn", "cmplog")>> ELSE <<>>
<1>1. A \in Seq(Items) /\ B \in Seq(Items) BY ItemTypes, Names
<1>2. a \in Items /\ c \in Items /\ i \in Items BY ItemTypes, Names
<1>3. Plan("first", "main") = <<a, c>> \o (<<i>> \o (A \o B)) BY DEF Plan, Rest, Later
<1> HIDE DEF a, c, i, A, B
<1> DEFINE x == <<a, c>>
           y == <<i>>
           z == <<a, c, i>>
<1>4. x \in Seq(Items) /\ y \in Seq(Items) /\ z \in Seq(Items) /\ z = x \o y BY <1>2
<1> HIDE DEF x, y, z
<1>5. x \in Seq(Items) /\ y \in Seq(Items) /\ A \in Seq(Items) /\ B \in Seq(Items) BY <1>1, <1>4
<1>6. (x \o y) \o A = x \o (y \o A) BY <1>5, ConcatAssociative
<1>7. (y \o A) \o B = y \o (A \o B) BY <1>5, ConcatAssociative
<1>8. (x \o (y \o A)) \o B = x \o ((y \o A) \o B)
    <2> DEFINE v == y \o A
    <2>1. v \in Seq(Items) BY <1>5, ConcatProperties
    <2> HIDE DEF v
    <2>2. (x \o v) \o B = x \o (v \o B) BY <1>5, <2>1, ConcatAssociative
    <2> QED BY <2>2 DEF v
<1>9. (z \o A) \o B = x \o (y \o (A \o B)) BY <1>4, <1>6, <1>7, <1>8
<1> QED BY <1>3, <1>9 DEF a, c, i, A, B, x, y, z

LEMMA InitIInv == Init => IInv
<1> SUFFICES ASSUME Init PROVE IInv OBVIOUS
<1> DEFINE u == RoundUp(conf.user)
           x == Max({u, DEFAULT_SHMEM_SIZE})
<1>1. at = "idle" /\ why = "" /\ fooled = FALSE /\ status = {} BY DEF Init
<1>a. dict_left = 0 /\ map_size = u /\ buf = u /\ ijon_seg = 0 /\ extras = 0 BY DEF Init
<1>b. shm.size = u /\ shm.seg = 1 /\ shm = [size |-> u, seg |-> 1] BY DEF Init
<1>c. st = <<>> /\ ctl = <<>> BY DEF Init
<1>d. /\ env = [no_autodict |-> conf.no_autodict, no_ijon |-> FALSE]
      /\ env.no_autodict = conf.no_autodict /\ env.no_ijon = FALSE
    BY DEF Init
<1>f. fsrv = [s \in Servers |-> [NewFsrv(IF s = "main" THEN x ELSE 0)
                                   EXCEPT !.seg = IF s = "main" THEN 1 ELSE 0]]
    BY DEF Init
<1>t. target = [s \in Servers |-> NoTarget] BY DEF Init
<1>2. ConfOK BY DEF Init, ConfOK
<1>3. agenda = Plan("first", "main") BY InitAgenda DEF Init
<1>4. conf.user \in Nat /\ DEFAULT_SHMEM_SIZE \in Nat /\ Align \in Nat \ {0} /\ DictLen \in Nat
    BY <1>2, StartAssumption DEF ConfOK
<1>5. u \in Nat BY <1>4, RoundUpBounds
<1>6. x \in Nat /\ u <= x /\ DEFAULT_SHMEM_SIZE <= x BY <1>4, <1>5, MaxPair
<1>7. "main" \in Servers /\ "first" \in Phases BY Names DEF Phases
<1> HIDE DEF u, x
<1>8. \A n \in Nat, k \in 0 .. 4 :
          /\ [NewFsrv(n) EXCEPT !.seg = k] \in FsrvRecord
          /\ [NewFsrv(n) EXCEPT !.seg = k].map_size = n /\ [NewFsrv(n) EXCEPT !.seg = k].real_map_size = n
          /\ [NewFsrv(n) EXCEPT !.seg = k].seg = k /\ [NewFsrv(n) EXCEPT !.seg = k].use_shmem_fuzz = FALSE
          /\ [NewFsrv(n) EXCEPT !.seg = k].use_ijon = FALSE
    BY DEF NewFsrv, FsrvRecord
<1>9. ASSUME NEW s \in Servers
      PROVE  /\ fsrv[s] \in FsrvRecord /\ fsrv[s].seg = (IF s = "main" THEN 1 ELSE 0)
             /\ fsrv[s].use_shmem_fuzz = FALSE /\ fsrv[s].use_ijon = FALSE
             /\ fsrv[s].map_size = (IF s = "main" THEN x ELSE 0) /\ fsrv[s].real_map_size = fsrv[s].map_size
    <2>1. PICK n \in Nat : n = IF s = "main" THEN x ELSE 0 BY <1>6
    <2>2. PICK k \in 0 .. 4 : k = IF s = "main" THEN 1 ELSE 0 OBVIOUS
    <2>3. fsrv[s] = [NewFsrv(n) EXCEPT !.seg = k] BY <1>f, <2>1, <2>2
    <2>4. PICK g : g = [NewFsrv(n) EXCEPT !.seg = k] OBVIOUS
    <2>5. /\ g \in FsrvRecord /\ g.map_size = n /\ g.real_map_size = n /\ g.seg = k
          /\ g.use_shmem_fuzz = FALSE /\ g.use_ijon = FALSE
        BY <1>8, <2>4
    <2> QED BY <2>1, <2>2, <2>3, <2>4, <2>5
<1>10. FsrvTypes
    <2>1. fsrv = [s \in Servers |-> fsrv[s]] BY <1>f
    <2> QED BY <1>9, <2>1 DEF FsrvTypes
<1>11. <<>> \in Seq(Words) BY EmptySeq
<1>12. NoTarget \in TargetRecord /\ NoTarget.at = "none" /\ NoTarget.seg = 0
    BY <1>11 DEF NoTarget, TargetRecord
<1>13. TargetTypes /\ \A s \in Servers : target[s] = NoTarget BY <1>t, <1>12 DEF TargetTypes
<1>14. MainTypes
    <2>1. agenda \in Seq(Items) BY <1>3, <1>7, PlanShape
    <2>2. conf.no_autodict \in BOOLEAN BY <1>2 DEF ConfOK
    <2>3. env \in [no_autodict : BOOLEAN, no_ijon : BOOLEAN] BY <1>d, <2>2
    <2>4. shm \in [size : Nat, seg : 1 .. 4] BY <1>5, <1>b
    <2>5. map_size \in Nat /\ buf \in Nat /\ ijon_seg \in 0 .. 4 BY <1>5, <1>a
    <2> QED BY <2>1, <2>3, <2>4, <2>5 DEF MainTypes
<1>15. ReadTypes
    <2>1. dict_left \in 0 .. DictLen /\ extras \in 0 .. 1 BY <1>4, <1>a
    <2> QED BY <1>1, <2>1 DEF ReadTypes
<1>16. PipeTypes
    <2>1. Len(ctl) <= 1 BY <1>c
    <2> QED BY <1>11, <1>c, <2>1 DEF PipeTypes
<1>17. WhyOK /\ IdleOK /\ GivesUpRightly /\ Handshake
    BY <1>1, <1>c DEF WhyOK, IdleOK, GivesUpRightly, Handshake
<1>18. OneSize
    <2>1. u <= map_size BY <1>5, <1>a
    <2>2. fsrv["main"].map_size = x /\ fsrv["main"].real_map_size = x /\ fsrv["main"].seg = 1
        BY <1>7, <1>9
    <2>3. fsrv["main"].map_size < fsrv["main"].real_map_size + Align BY <1>4, <1>6, <2>2
    <2>4. \A s \in Servers : fsrv[s].seg \in {0, 1} /\ target[s].seg = 0 BY <1>9, <1>12, <1>13
    <2>5. \A s \in Servers : fsrv[s].seg <= 1 /\ target[s].seg <= 1 BY <2>4
    <2>6. ijon_seg <= 1 BY <1>a
    <2> QED BY <1>a, <1>b, <2>1, <2>2, <2>3, <2>5, <2>6 DEF OneSize, u
<1>19. TargetData BY <1>12, <1>13 DEF TargetData
<1>20. OnTheWay("first", "main")
    <2>1. shm.seg <= (CASE "main" = "main" -> 1 [] "main" = "san" -> 2 [] "main" = "cmplog" -> 3) + 0
        BY <1>b
    <2> QED BY <1>3, <1>a, <1>d, <2>1 DEF OnTheWay
<1>21. Known("first", "main")
    <2>1. Served("first", "main") = {} BY DEF Served, Before
    <2>2. fsrv["main"].map_size >= u /\ fsrv["main"].map_size >= DEFAULT_SHMEM_SIZE
        BY <1>4, <1>5, <1>6, <1>7, <1>9
    <2>3. fsrv["main"].seg = shm.seg BY <1>b, <1>7, <1>9
    <2>4. fsrv["main"].use_ijon = FALSE /\ \A s \in Servers : fsrv[s].use_shmem_fuzz = FALSE
        BY <1>7, <1>9
    <2> QED BY <1>1, <2>1, <2>2, <2>3, <2>4 DEF Known, u
<1>22. Stage BY <1>7, <1>20, <1>21 DEF Stage
<1> QED BY <1>2, <1>10, <1>13, <1>14, <1>15, <1>16, <1>17, <1>18, <1>19, <1>22, IInvParts

LEMMA StutterIInv == IInv /\ UNCHANGED vars => IInv'
<1> SUFFICES ASSUME IInv, UNCHANGED vars PROVE IInv' OBVIOUS
<1>1. /\ UNCHANGED <<conf, env, agenda, at, why, status, dict_left, fsrv, map_size, buf, shm, ijon_seg, extras>>
      /\ UNCHANGED <<fooled, target, st, ctl>>
    BY DEF vars, fuzzer
<1>2. MainTypes' /\ ReadTypes' /\ FsrvTypes' /\ TargetTypes' /\ PipeTypes' /\ ConfOK'
    <2>1. MainTypes' /\ ReadTypes' BY <1>1, IInvParts DEF MainTypes, ReadTypes
    <2>2. FsrvTypes' /\ TargetTypes' BY <1>1, IInvParts DEF FsrvTypes, TargetTypes
    <2>3. PipeTypes' /\ ConfOK' BY <1>1, IInvParts DEF PipeTypes, ConfOK
    <2> QED BY <2>1, <2>2, <2>3
<1>3. WhyOK' /\ IdleOK' /\ GivesUpRightly' BY <1>1, IInvParts DEF WhyOK, IdleOK, GivesUpRightly, Cur
<1>4. OneSize'
    <2>1. RoundUp(conf.user)' = RoundUp(conf.user) BY <1>1
    <2> QED BY <1>1, <2>1, IInvParts DEF OneSize
<1>5. TargetData'
    <2>1. \A r, i : Cov(r, i)' = Cov(r, i) /\ MapOf(r, i)' = MapOf(r, i) BY <1>1 DEF Cov, MapOf
    <2> QED BY <1>1, <2>1, IInvParts DEF TargetData
<1>6. Cur' = Cur /\ (Starting' <=> Starting) BY <1>1 DEF Cur, Starting
<1>7. /\ (Ijon' <=> Ijon) /\ (\A r : Need(r)' = Need(r)) /\ TheDict' = TheDict
      /\ \A r : (Told(r)' <=> Told(r)) /\ (Fits(r)' <=> Fits(r)) /\ (Serves(r)' <=> Serves(r))
                /\ (Up(r)' <=> Up(r))
    BY <1>1, StillSo
<1>8. Handshake'
    <2>1. Greeting(target[Cur])' <=> Greeting(target[Cur]) BY <1>1, <1>6 DEF Greeting
    <2>2. Exchange(target[Cur])' <=> Exchange(target[Cur])
        <3>1. target'[Cur'] = target[Cur] BY <1>1, <1>6
        <3>2. Params(target[Cur])' = Params(target[Cur]) /\ Options(target[Cur])' = Options(target[Cur])
            BY <1>1, <3>1 DEF Params, Options
        <3>3. Awaited(at, dict_left, Params(target[Cur]))' = Awaited(at, dict_left, Params(target[Cur]))
            BY <1>1, <3>2 DEF Awaited, Dats
        <3> QED BY <1>1, <3>1, <3>2, <3>3 DEF Exchange
    <2>3. target'[Cur'] = target[Cur] /\ at' = at /\ shm' = shm BY <1>1, <1>6
    <2>4. Handshake BY IInvParts
    <2>5. CASE at \in {"idle", "fatal"} BY <2>3, <2>5 DEF Handshake
    <2>6. CASE at \notin {"idle", "fatal"}
        <3>1. /\ Starting
              /\ target[Cur].at \in {"wait", "send", "up"} =>
                     target[Cur].ijon = Ijon /\ target[Cur].seg = shm.seg
              /\ IF at = "hello" THEN Greeting(target[Cur]) ELSE Exchange(target[Cur])
            BY <2>4, <2>6 DEF Handshake
        <3>2. Ijon' = Ijon BY <1>1 DEF Ijon
        <3>3. (IF at = "hello" THEN Greeting(target[Cur]) ELSE Exchange(target[Cur]))'
            BY <2>1, <2>2, <2>3, <3>1
        <3> QED BY <1>6, <2>3, <3>1, <3>2, <3>3 DEF Handshake
    <2> QED BY <2>5, <2>6
<1>9. PICK p \in Phases, s \in Servers : OnTheWay(p, s) /\ (Good => Known(p, s))
    BY IInvParts DEF Stage
<1>10. OnTheWay(p, s)' BY <1>1, <1>9 DEF OnTheWay
<1>11. ASSUME Good' PROVE Known(p, s)'
    <2>1. Good BY <1>1, <1>6, <1>11 DEF Good
    <2>2. Known(p, s) BY <1>9, <2>1
    <2>3. RoundUp(conf.user)' = RoundUp(conf.user) BY <1>1
    <2> QED BY <1>1, <1>6, <1>7, <2>2, <2>3 DEF Known
<1>12. Stage' BY <1>10, <1>11 DEF Stage
<1> QED BY <1>2, <1>3, <1>4, <1>5, <1>8, <1>12, IInvNext

LEMMA NextIInv == IInv /\ [Next]_vars => IInv'
<1> SUFFICES ASSUME IInv, [Next]_vars PROVE IInv' OBVIOUS
<1>1. CASE Target
    BY <1>1, SayHelloIInv, SendErrorIInv, ReadReplyIInv, SendWordIInv, TargetDiesIInv DEF Target
<1>2. CASE Fork \/ Timeout \/ ReadHello \/ ReadOptions \/ ReadMapSize \/ ReadDictLen \/ ReadDict \/ ReadFinal
    BY <1>2, ForkIInv, TimeoutIInv, ReadHelloIInv, ReadOptionsIInv, ReadMapSizeIInv,
       ReadDictLenIInv,
       ReadDictIInv, ReadFinalIInv
<1>3. CASE CheckMain \/ SetUpIjon BY <1>3, CheckMainIInv, SetUpIjonIInv
<1>4. CASE \E s \in Extra : Spawn(s) \/ CheckExtra(s) BY <1>4, SpawnIInv, CheckExtraIInv
<1>5. CASE UNCHANGED vars BY <1>5, StutterIInv
<1> QED BY <1>1, <1>2, <1>3, <1>4, <1>5 DEF Next, Fuzzer

\* All that IInv says holds throughout start-up: types, what is in the pipes, where
\* main is in its list and what it knows of the servers' sizes by then.
THEOREM StartInvariant == Spec => []IInv
<1>1. Init => IInv BY InitIInv
<1>2. IInv /\ [Next]_vars => IInv' BY NextIInv
<1> QED BY <1>1, <1>2, PTL DEF Spec

-----------------------------------------------------------------------------
(***************************************************************************)
(* What follows from it.                                                   *)
(***************************************************************************)
LEMMA IInvInStep == IInv => InStep
<1> SUFFICES ASSUME IInv PROVE InStep OBVIOUS
<1>1. TypeOK /\ (at = "idle" => st = <<>>) BY DEF IInv
<1>2. ASSUME st # <<>>, at \notin {"idle", "fatal"}
      PROVE  Head(st).w \in CASE at = "hello" -> {"hello", "old", "err"}
                              [] at = "final" -> {"hello"}
                              [] OTHER -> {at}
    <2>1. Starting BY <1>2, IInvParts DEF Handshake
    <2> DEFINE T == target[Cur]
               L == T.left
    <2>2. T \in TargetRecord /\ ConfOK /\ st \in Seq(Words) BY <2>1, CurKnown
    <2>3. IF at = "hello" THEN Greeting(T) ELSE Exchange(T) BY <2>1, CurKnown
    <2>4. \A x, n, o : Word(x, n, o).w = x BY DEF Word
    <2>5. Hello.w = "hello" BY DEF Hello, Word
    <2>6. CASE at = "hello"
        <3>1. st = <<Hello>> \/ st = <<Word("old", 0, {})>> \/ st = <<Word("err", 0, {})>>
            BY <1>2, <2>3, <2>6 DEF Greeting
        <3>2. Head(st) \in {Hello, Word("old", 0, {}), Word("err", 0, {})} BY <3>1
        <3> QED BY <2>4, <2>5, <2>6, <3>2
    <2>7. CASE at # "hello"
        <3>1. st \o L = Awaited(at, dict_left, Params(T)) /\ (at = "dat" => dict_left # 0)
            BY <1>2, <2>3, <2>7 DEF Exchange
        <3>2. L \in Seq(Words) BY <2>2 DEF TargetRecord
        <3>3. Head(st) = Head(Awaited(at, dict_left, Params(T)))
            <4> HIDE DEF L
            <4>1. Head(st \o L) = Head(st) BY <1>2, <2>2, <3>2, ReadOne
            <4> QED BY <3>1, <4>1
        <3>4. dict_left \in Nat
            <4>1. DictLen \in Nat BY StartAssumption
            <4>2. dict_left \in 0 .. DictLen BY IInvParts DEF ReadTypes
            <4> QED BY <4>1, <4>2
        <3>5. CASE at = "opt"
            <4>1. Head(st) = Word("opt", 0, Options(T))
                BY <2>2, <3>3, <3>4, <3>5, AwaitedShape, ParamsShape
            <4> QED BY <2>4, <3>5, <4>1
        <3>6. CASE at = "map"
            <4>1. Awaited(at, dict_left, Params(T)) = Tail(Params(T)) BY <3>4, <3>6, AwaitedShape
            <4>2. Head(Tail(Params(T))) = Word("map", T.map, {}) BY <2>2, ParamsShape
            <4>3. Head(st) = Word("map", T.map, {}) BY <3>3, <4>1, <4>2
            <4> QED BY <2>4, <3>6, <4>3
        <3>7. CASE at = "len"
            <4>1. Head(st) = Word("len", DictLen, {}) BY <3>3, <3>4, <3>7, AwaitedShape
            <4> QED BY <2>4, <3>7, <4>1
        <3>8. CASE at = "dat"
            <4>1. Head(st) = Word("dat", 0, {}) BY <3>1, <3>3, <3>4, <3>8, AwaitedShape
            <4> QED BY <2>4, <3>8, <4>1
        <3>9. CASE at = "final"
            <4>1. Awaited(at, dict_left, Params(T)) = <<Hello>> BY <3>4, <3>9, AwaitedShape
            <4>2. Head(st) = Hello BY <3>3, <4>1
            <4> QED BY <2>5, <3>9, <4>2
        <3>10. at \in {"opt", "map", "len", "dat", "final"} BY <1>2, <2>7, IInvParts DEF ReadTypes
        <3> QED BY <3>5, <3>6, <3>7, <3>8, <3>9, <3>10
    <2> QED BY <2>6, <2>7
<1> QED BY <1>1, <1>2 DEF InStep

\* When main's list is empty and nothing has gone wrong, it is done with all servers.
LEMMA ReadyFacts ==
    ASSUME IInv, Ready, ~conf.old, ~fooled
    PROVE  /\ extras = TheDict /\ Fits("main") /\ \A s \in Servers : Serves(s)
           /\ buf = map_size /\ shm.size = map_size
<1>1. PICK p \in Phases, s \in Servers : OnTheWay(p, s) /\ (Good => Known(p, s))
    BY IInvParts DEF Stage
<1>2. Good /\ agenda = <<>> BY DEF Ready, Good
<1>3. p = "done" BY <1>1, <1>2, PhaseHeads DEF Phases
<1>4. Known("done", s) BY <1>1, <1>2, <1>3
<1>5. agenda = Plan("done", s) BY <1>1, <1>3 DEF OnTheWay
<1>6. Before(s) \cup {s} = Servers BY <1>2, <1>5, PlanDone
<1>7. Served("done", s) = Servers BY <1>6 DEF Served
<1>8. extras = TheDict /\ Fits("main") /\ \A r \in Servers : Serves(r) BY <1>4, <1>7 DEF Known
<1>9. buf = map_size /\ shm.size = map_size BY IInvParts DEF OneSize
<1> QED BY <1>8, <1>9

LEMMA IInvSidesAgree == IInv => SidesAgree
<1> SUFFICES ASSUME IInv, Ready, ~conf.old, ~fooled
             PROVE  /\ fsrv["main"].map_size <= buf /\ fsrv["main"].map_size <= shm.size
                    /\ \A s \in Servers \ {"san"} :
                         /\ target[s].seg = shm.seg /\ fsrv[s].seg = shm.seg
                         /\ target[s].map <= shm.size
                         /\ target[s].cov <= fsrv[s].map_size
                    /\ \A s \in Servers : fsrv[s].use_shmem_fuzz = target[s].shmem
    BY DEF SidesAgree
<1>1. /\ Fits("main") /\ \A s \in Servers : Serves(s)
      /\ buf = map_size /\ shm.size = map_size
    BY ReadyFacts
<1>2. fsrv["main"].map_size <= map_size BY <1>1 DEF Fits
<1> QED BY <1>1, <1>2 DEF Serves

\* No word of the handshake is taken for another one, whatever servers are started and
\* started again, with a dictionary of any length and whenever a target dies.
THEOREM WordsKeepStep == Spec => []InStep
BY StartInvariant, IInvInStep, PTL

\* When all servers are up they write into the current segment, within its bounds, and
\* afl-fuzz's sizes cover what they write; whichever servers asked for a larger map.
THEOREM ServersFit == Spec => []SidesAgree
BY StartInvariant, IInvSidesAgree, PTL

\* The dictionary of the target is loaded exactly once, or not at all if unwanted.
THEOREM DictionaryOnce == Spec => []DictOnce
<1>1. IInv => DictOnce BY ReadyFacts DEF DictOnce, TheDict
<1> QED BY <1>1, StartInvariant, PTL

\* afl-fuzz refuses a map as too large only when it is larger than the user's size and
\* the default, when the target died, or for a sanitizer's server started again.
THEOREM RefusalsAreRight == Spec => []GivesUpRightly
<1>1. IInv => GivesUpRightly BY DEF IInv
<1> QED BY <1>1, StartInvariant, PTL
=============================================================================
