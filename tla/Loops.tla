------------------------------- MODULE Loops -------------------------------
(***************************************************************************)
(* Loops as recursive functions.  The components write a loop of the       *)
(* program, for (n = 1; n <= N; n++) s = step(n, s), as the function       *)
(*                                                                         *)
(*    after[n \in 0 .. N] == IF n = 0 THEN s ELSE step(n, after[n - 1])    *)
(*                                                                         *)
(* and take after[N].  The lemmas say that there is such a function and    *)
(* that what each round keeps holds in the end.  They speak of sets and    *)
(* functions only, so that they can be used for any step.  The second part *)
(* does the same for sums over finite sets.                                *)
(***************************************************************************)
EXTENDS Integers, FiniteSets, FiniteSetsExt, FiniteSetTheorems, WellFoundedInduction, TLAPS

\* A set of natural numbers has a least element.
LEMMA LeastNat ==
    ASSUME NEW T \in SUBSET Nat, T # {}
    PROVE  \E m \in T : \A n \in T : m <= n
<1> DEFINE R == OpToRel(<, Nat)
<1>1. IsWellFoundedOn(R, Nat) BY NatLessThanWellFounded
<1> HIDE DEF R
<1>2. PICK m \in T : \A n \in T : ~(<<n, m>> \in R) BY <1>1, WFMin
<1>3. ASSUME NEW n \in T PROVE m <= n
    <2>1. n \in Nat /\ m \in Nat OBVIOUS
    <2>2. <<n, m>> \notin R BY <1>2
    <2>3. ~(n < m) BY <2>1, <2>2 DEF R, OpToRel
    <2> QED BY <2>1, <2>3
<1> QED BY <1>2, <1>3

\* Induction up to N: a set that has 0 and with each number the next one has all.
LEMMA UpTo ==
    ASSUME NEW N \in Nat, NEW P, 0 \in P, \A n \in 1 .. N : n - 1 \in P => n \in P
    PROVE  \A n \in 0 .. N : n \in P
<1> SUFFICES ASSUME NEW k \in 0 .. N, k \notin P PROVE FALSE OBVIOUS
<1> DEFINE T == (0 .. N) \ P
<1>1. T \in SUBSET Nat /\ T # {} OBVIOUS
<1> HIDE DEF T
<1>2. PICK m \in T : \A n \in T : m <= n BY <1>1, LeastNat
<1>3. m \in 0 .. N /\ m \notin P BY DEF T
<1>4. m \in 1 .. N /\ m - 1 \in 0 .. N BY <1>3
<1>5. m - 1 \notin T
    <2>1. ~(m <= m - 1) BY <1>3
    <2> QED BY <1>2, <2>1
<1>6. m - 1 \in P BY <1>4, <1>5 DEF T
<1> QED BY <1>3, <1>4, <1>6

\* What holds before the loop, and in each round if it held in the one before.
LEMMA LoopKeeps ==
    ASSUME NEW N \in Nat, NEW g, NEW J,
           g[0] \in J[0], \A n \in 1 .. N : g[n - 1] \in J[n - 1] => g[n] \in J[n]
    PROVE  \A n \in 0 .. N : g[n] \in J[n]
<1> DEFINE P == {n \in 0 .. N : g[n] \in J[n]}
<1>1. 0 \in P OBVIOUS
<1>2. \A n \in 1 .. N : n - 1 \in P => n \in P OBVIOUS
<1> HIDE DEF P
<1>3. \A n \in 0 .. N : n \in P BY <1>1, <1>2, UpTo
<1> QED BY <1>3 DEF P

\* g is what the loop computes when F[n] is its n-th round.
IsLoop(g, N, s, F) == g[0] = s /\ \A n \in 1 .. N : g[n] = F[n][g[n - 1]]

\* The recursion has a solution, for steps from S to S.
LEMMA LoopDefined ==
    ASSUME NEW N \in Nat, NEW S, NEW s \in S, NEW F \in [1 .. N -> [S -> S]]
    PROVE  \E g \in [0 .. N -> S] : IsLoop(g, N, s, F)
<1> DEFINE Sol(g, k) == g[0] = s /\ \A n \in 1 .. k : g[n] = F[n][g[n - 1]]
           P == {k \in 0 .. N : \E g \in [0 .. k -> S] : Sol(g, k)}
<1>1. 0 \in P
    <2> DEFINE g == [n \in 0 .. 0 |-> s]
    <2>1. g \in [0 .. 0 -> S] /\ Sol(g, 0) OBVIOUS
    <2> HIDE DEF g
    <2>2. \E f \in [0 .. 0 -> S] : Sol(f, 0) BY <2>1
    <2> QED BY <2>2
<1>2. ASSUME NEW k \in 1 .. N, k - 1 \in P PROVE k \in P
    <2>1. PICK g \in [0 .. k - 1 -> S] : Sol(g, k - 1) BY <1>2
    <2> DEFINE h == [n \in 0 .. k |-> IF n = k THEN F[k][g[k - 1]] ELSE g[n]]
    <2>2. h \in [0 .. k -> S]
        <3>1. F[k] \in [S -> S] /\ g[k - 1] \in S OBVIOUS
        <3> QED BY <3>1
    <2>3. h[0] = s BY <2>1
    <2>4. ASSUME NEW n \in 1 .. k PROVE h[n] = F[n][h[n - 1]]
        <3>1. CASE n = k BY <3>1
        <3>2. CASE n # k
            <4>1. n \in 1 .. k - 1 BY <3>2
            <4>2. h[n] = g[n] /\ h[n - 1] = g[n - 1] BY <3>2
            <4> QED BY <2>1, <4>1, <4>2
        <3> QED BY <3>1, <3>2
    <2> HIDE DEF h
    <2>5. Sol(h, k) BY <2>3, <2>4
    <2> HIDE DEF Sol
    <2>6. \E f \in [0 .. k -> S] : Sol(f, k) BY <2>2, <2>5
    <2> QED BY <2>6
<1> HIDE DEF P
<1>3. N \in P
    <2>1. \A n \in 0 .. N : n \in P BY <1>1, <1>2, UpTo
    <2> QED BY <2>1
<1>4. PICK g \in [0 .. N -> S] : Sol(g, N) BY <1>3 DEF P
<1> QED BY <1>4 DEF IsLoop

-----------------------------------------------------------------------------
(***************************************************************************)
(* Sums over finite sets, for what MapThenSumSet computes.  It takes the   *)
(* elements in the order in which CHOOSE gives them; the order makes no    *)
(* difference (SumTakeOut).                                                *)
(***************************************************************************)
\* Induction over the subsets of a finite set.
LEMMA Subsets ==
    ASSUME NEW S, IsFiniteSet(S), NEW P, {} \in P,
           \A T \in SUBSET S : T # {} /\ (\A x \in T : T \ {x} \in P) => T \in P
    PROVE  \A T \in SUBSET S : T \in P
<1> SUFFICES ASSUME NEW A \in SUBSET S, A \notin P PROVE FALSE OBVIOUS
<1> DEFINE K == {Cardinality(T) : T \in (SUBSET S) \ P}
<1>1. \A T \in SUBSET S : IsFiniteSet(T) /\ Cardinality(T) \in Nat
    BY FS_Subset, FS_CardinalityType
<1>2. K \in SUBSET Nat /\ K # {} BY <1>1
<1>3. PICK k \in K : \A n \in K : k <= n
    <2> HIDE DEF K
    <2> QED BY <1>2, LeastNat
<1>4. PICK T \in (SUBSET S) \ P : k = Cardinality(T) BY <1>3
<1>5. T # {} BY <1>4
<1>6. ASSUME NEW x \in T PROVE T \ {x} \in P
    <2>1. Cardinality(T \ {x}) = k - 1 BY <1>1, <1>4, FS_RemoveElement
    <2>2. T \ {x} \in SUBSET S BY <1>4
    <2>3. ~(k <= k - 1) BY <1>2, <1>3
    <2>4. k - 1 \notin K BY <1>3, <2>3
    <2> QED BY <2>1, <2>2, <2>4
<1> QED BY <1>4, <1>5, <1>6

\* The element that the sum over T takes first.
First(T) == CHOOSE x \in T : TRUE

\* The sums over the subsets of S from those over the subsets with one element less.
SumStep(h, f, S) ==
    [T \in SUBSET S |-> IF T = {} THEN 0 ELSE f[First(T)] + h[T \ {First(T)}]]

\* g gives the sums of f over the subsets of S.
IsSum(g, f, S) ==
    /\ g[{}] = 0
    /\ \A T \in SUBSET S : T # {} => g[T] = f[First(T)] + g[T \ {First(T)}]

\* The recursion of MapThenSumSet has a solution.
LEMMA SumDefined ==
    ASSUME NEW S, IsFiniteSet(S), NEW f, \A e \in S : f[e] \in Nat
    PROVE  \E g \in [SUBSET S -> Nat] : g = SumStep(g, f, S)
<1> DEFINE D == [SUBSET S -> Nat]
           Round(h) == SumStep(h, f, S)
<1>1. PICK N \in Nat : N = Cardinality(S) BY FS_CardinalityType
<1>2. \A T \in SUBSET S : T # {} => First(T) \in T BY DEF First
<1>3. ASSUME NEW h \in D PROVE Round(h) \in D
    <2> SUFFICES ASSUME NEW T \in SUBSET S, T # {} PROVE f[First(T)] + h[T \ {First(T)}] \in Nat
        BY DEF SumStep
    <2>1. First(T) \in S /\ T \ {First(T)} \in SUBSET S BY <1>2
    <2>2. f[First(T)] \in Nat /\ h[T \ {First(T)}] \in Nat BY <2>1
    <2> QED BY <2>2
<1> DEFINE F == [n \in 1 .. N |-> [h \in D |-> Round(h)]]
           s == [T \in SUBSET S |-> 0]
<1>4. s \in D /\ F \in [1 .. N -> [D -> D]] BY <1>3
<1>5. PICK g \in [0 .. N -> D] : IsLoop(g, N, s, F)
    <2> HIDE DEF D, s, F
    <2> QED BY <1>4, LoopDefined
<1>6. ASSUME NEW n \in 1 .. N PROVE g[n] = Round(g[n - 1])
    <2>1. n - 1 \in 0 .. N OBVIOUS
    <2>2. g[n - 1] \in D BY <2>1
    <2>3. g[n] = F[n][g[n - 1]] BY <1>5 DEF IsLoop
    <2> QED BY <2>2, <2>3
<1>7. \A T \in SUBSET S : IsFiniteSet(T) /\ Cardinality(T) \in 0 .. N
    BY <1>1, FS_Subset, FS_CardinalityType
<1> HIDE DEF D, Round
<1> DEFINE Fixed(n) == \A T \in SUBSET S : Cardinality(T) <= n => g[n][T] = Round(g[n])[T]
           P == {n \in 0 .. N : Fixed(n)}
<1>8. Fixed(0)
    <2> SUFFICES ASSUME NEW T \in SUBSET S, Cardinality(T) <= 0 PROVE g[0][T] = Round(g[0])[T]
        OBVIOUS
    <2>1. T = {} BY <1>7, FS_EmptySet
    <2>2. g[0][T] = 0 BY <1>5 DEF IsLoop
    <2> QED BY <2>1, <2>2 DEF Round, SumStep
<1>9. ASSUME NEW n \in 1 .. N, Fixed(n - 1) PROVE Fixed(n)
    <2> SUFFICES ASSUME NEW T \in SUBSET S, Cardinality(T) <= n PROVE g[n][T] = Round(g[n])[T]
        OBVIOUS
    <2>1. CASE T = {} BY <1>6, <2>1 DEF Round, SumStep
    <2>2. CASE T # {}
        <3> DEFINE U == T \ {First(T)}
        <3>1. First(T) \in T /\ U \in SUBSET S BY <1>2, <2>2
        <3>2. Cardinality(U) = Cardinality(T) - 1 BY <1>7, <3>1, FS_RemoveElement
        <3>3. Cardinality(U) <= n - 1
            <4>1. Cardinality(T) \in Nat BY <1>7
            <4> QED BY <3>2, <4>1
        <3>4. g[n - 1][U] = Round(g[n - 1])[U] BY <1>9, <3>1, <3>3
        <3>5. g[n][U] = g[n - 1][U] BY <1>6, <3>4
        <3>6. g[n][T] = f[First(T)] + g[n - 1][U]
            <4>1. Round(g[n - 1])[T] = f[First(T)] + g[n - 1][U] BY <2>2 DEF Round, SumStep
            <4> QED BY <1>6, <4>1
        <3>7. Round(g[n])[T] = f[First(T)] + g[n][U] BY <2>2 DEF Round, SumStep
        <3> QED BY <3>5, <3>6, <3>7
    <2> QED BY <2>1, <2>2
<1>10. Fixed(N)
    <2> HIDE DEF Fixed
    <2>1. 0 \in P /\ \A n \in 1 .. N : n - 1 \in P => n \in P BY <1>8, <1>9
    <2> HIDE DEF P
    <2>2. \A n \in 0 .. N : n \in P BY <2>1, UpTo
    <2>3. N \in P BY <2>2
    <2> QED BY <2>3 DEF P
<1>11. g[N] \in D BY <1>5
<1>12. \A T \in SUBSET S : g[N][T] = Round(g[N])[T] BY <1>7, <1>10
<1>13. g[N] = Round(g[N])
    <2>1. Round(g[N]) \in D BY <1>3, <1>11
    <2> QED BY <1>11, <1>12, <2>1 DEF D
<1> QED BY <1>11, <1>13 DEF D, Round

\* The sum of f over S.
SumOf(f, S) == MapThenSumSet(LAMBDA e : f[e], S)

\* It is one of the solutions.
LEMMA SumOfIsSum ==
    ASSUME NEW S, IsFiniteSet(S), NEW f, \A e \in S : f[e] \in Nat
    PROVE  \E g : IsSum(g, f, S) /\ SumOf(f, S) = g[S]
<1> DEFINE sum == CHOOSE g : g = SumStep(g, f, S)
<1>1. SumOf(f, S) = sum[S]
    BY DEF SumOf, MapThenSumSet, MapThenFoldSet, First, SumStep
<1>2. sum = SumStep(sum, f, S)
    <2>1. \E g : g = SumStep(g, f, S) BY SumDefined
    <2> QED BY <2>1
<1> HIDE DEF sum
<1>3. IsSum(sum, f, S)
    <2>1. sum[{}] = 0 BY <1>2 DEF SumStep
    <2>2. ASSUME NEW T \in SUBSET S, T # {} PROVE sum[T] = f[First(T)] + sum[T \ {First(T)}]
        BY <1>2, <2>2 DEF SumStep
    <2> QED BY <2>1, <2>2 DEF IsSum
<1> QED BY <1>1, <1>3

\* Sums are natural numbers.
LEMMA SumIsNat ==
    ASSUME NEW S, IsFiniteSet(S), NEW f, \A e \in S : f[e] \in Nat, NEW g, IsSum(g, f, S)
    PROVE  \A T \in SUBSET S : g[T] \in Nat
<1> DEFINE P == {T \in SUBSET S : g[T] \in Nat}
<1>1. {} \in P BY DEF IsSum
<1>2. ASSUME NEW T \in SUBSET S, T # {}, \A x \in T : T \ {x} \in P PROVE T \in P
    <2>1. First(T) \in T BY <1>2 DEF First
    <2>2. g[T] = f[First(T)] + g[T \ {First(T)}] BY <1>2 DEF IsSum
    <2>3. g[T \ {First(T)}] \in Nat /\ f[First(T)] \in Nat BY <1>2, <2>1
    <2> QED BY <2>2, <2>3
<1> HIDE DEF P
<1>3. \A T \in SUBSET S : T \in P BY <1>1, <1>2, Subsets
<1> QED BY <1>3 DEF P

\* Any element may be taken out first.
LEMMA SumTakeOut ==
    ASSUME NEW S, IsFiniteSet(S), NEW f, \A e \in S : f[e] \in Nat, NEW g, IsSum(g, f, S)
    PROVE  \A T \in SUBSET S : \A x \in T : g[T] = f[x] + g[T \ {x}]
<1> DEFINE P == {T \in SUBSET S : \A x \in T : g[T] = f[x] + g[T \ {x}]}
<1>1. {} \in P OBVIOUS
<1>2. ASSUME NEW T \in SUBSET S, T # {}, \A x \in T : T \ {x} \in P PROVE T \in P
    <2> SUFFICES ASSUME NEW x \in T PROVE g[T] = f[x] + g[T \ {x}] OBVIOUS
    <2> DEFINE c == First(T)
    <2>1. c \in T BY <1>2 DEF First
    <2>2. g[T] = f[c] + g[T \ {c}] BY <1>2 DEF IsSum
    <2> HIDE DEF c
    <2>3. CASE x = c BY <2>2, <2>3
    <2>4. CASE x # c
        <3>1. PICK r : r = g[T \ {c, x}] OBVIOUS
        <3>2. r \in Nat BY <3>1, SumIsNat
        <3>3. (T \ {c}) \ {x} = T \ {c, x} /\ (T \ {x}) \ {c} = T \ {c, x} OBVIOUS
        <3>4. g[T \ {c}] = f[x] + r BY <1>2, <2>1, <2>4, <3>1, <3>3
        <3>5. g[T \ {x}] = f[c] + r BY <1>2, <2>1, <2>4, <3>1, <3>3
        <3>6. f[x] \in Nat /\ f[c] \in Nat BY <2>1
        <3> QED BY <2>2, <3>2, <3>4, <3>5, <3>6
    <2> QED BY <2>3, <2>4
<1> HIDE DEF P
<1>3. \A T \in SUBSET S : T \in P BY <1>1, <1>2, Subsets
<1> QED BY <1>3 DEF P

\* Smaller terms have a smaller sum, and the sum over T depends on nothing outside T.
LEMMA SumMonotone ==
    ASSUME NEW S, IsFiniteSet(S), NEW U, IsFiniteSet(U),
           NEW f, \A e \in S : f[e] \in Nat, NEW g, IsSum(g, f, S),
           NEW h, \A e \in U : h[e] \in Nat, NEW k, IsSum(k, h, U)
    PROVE  \A T \in SUBSET (S \cap U) : (\A x \in T : h[x] <= f[x]) => k[T] <= g[T]
<1> DEFINE P == {T \in SUBSET (S \cap U) : (\A x \in T : h[x] <= f[x]) => k[T] <= g[T]}
<1>1. {} \in P BY DEF IsSum
<1>2. ASSUME NEW T \in SUBSET (S \cap U), T # {}, \A x \in T : T \ {x} \in P PROVE T \in P
    <2> SUFFICES ASSUME \A x \in T : h[x] <= f[x] PROVE k[T] <= g[T] OBVIOUS
    <2> DEFINE c == First(T)
    <2>1. c \in T BY <1>2 DEF First
    <2>2. T \in SUBSET S /\ T \in SUBSET U OBVIOUS
    <2>3. g[T] = f[c] + g[T \ {c}] /\ k[T] = h[c] + k[T \ {c}] BY <1>2, <2>2 DEF IsSum
    <2> HIDE DEF c
    <2>4. g[T \ {c}] \in Nat /\ k[T \ {c}] \in Nat BY <2>2, SumIsNat
    <2>5. f[c] \in Nat /\ h[c] \in Nat /\ h[c] <= f[c] BY <2>1, <2>2
    <2>6. k[T \ {c}] <= g[T \ {c}] BY <1>2, <2>1
    <2> QED BY <2>3, <2>4, <2>5, <2>6
<1>3. IsFiniteSet(S \cap U) BY FS_Subset
<1> HIDE DEF P
<1>4. \A T \in SUBSET (S \cap U) : T \in P BY <1>1, <1>2, <1>3, Subsets
<1> QED BY <1>4 DEF P

\* The same for SumOf.  The sum over no element is 0.
LEMMA SumOfEmpty == ASSUME NEW f PROVE SumOf(f, {}) = 0
<1>1. PICK g : IsSum(g, f, {}) /\ SumOf(f, {}) = g[{}]
    BY FS_EmptySet, SumOfIsSum
<1> QED BY <1>1 DEF IsSum

\* It is a natural number.
LEMMA SumOfIsNat ==
    ASSUME NEW S, IsFiniteSet(S), NEW f, \A e \in S : f[e] \in Nat
    PROVE  SumOf(f, S) \in Nat
<1>1. PICK g : IsSum(g, f, S) /\ SumOf(f, S) = g[S] BY SumOfIsSum
<1> QED BY <1>1, SumIsNat

\* Smaller terms have a smaller sum.
LEMMA SumOfMonotone ==
    ASSUME NEW S, IsFiniteSet(S), NEW f, \A e \in S : f[e] \in Nat,
           NEW h, \A e \in S : h[e] \in Nat, \A e \in S : h[e] <= f[e]
    PROVE  SumOf(h, S) <= SumOf(f, S)
<1>1. PICK g : IsSum(g, f, S) /\ SumOf(f, S) = g[S] BY SumOfIsSum
<1>2. PICK k : IsSum(k, h, S) /\ SumOf(h, S) = k[S] BY SumOfIsSum
<1>3. S \in SUBSET (S \cap S) OBVIOUS
<1>4. k[S] <= g[S] BY <1>1, <1>2, <1>3, SumMonotone
<1> QED BY <1>1, <1>2, <1>4

\* A sum with and without one of its terms.
LEMMA SumOfTakeOut ==
    ASSUME NEW S, IsFiniteSet(S), NEW f, \A e \in S : f[e] \in Nat, NEW x \in S
    PROVE  SumOf(f, S) =
              f[x] + SumOf(f, S \ {x})
<1>1. PICK U : U = S \ {x} OBVIOUS
<1>2. IsFiniteSet(U) /\ \A e \in U : f[e] \in Nat BY <1>1, FS_Subset
<1>3. PICK g : IsSum(g, f, S) /\ SumOf(f, S) = g[S] BY SumOfIsSum
<1>4. PICK k : IsSum(k, f, U) /\ SumOf(f, U) = k[U]
    BY <1>2, SumOfIsSum
<1>5. g[S] = f[x] + g[U] BY <1>1, <1>3, SumTakeOut
<1>6. U \in SUBSET S /\ U \in SUBSET (S \cap U) /\ U \in SUBSET (U \cap S) BY <1>1
<1>7. g[U] \in Nat /\ k[U] \in Nat BY <1>2, <1>3, <1>4, <1>6, SumIsNat
<1>8. \A e \in U : f[e] <= f[e] BY <1>2
<1>9. k[U] <= g[U] BY <1>2, <1>3, <1>4, <1>6, <1>8, SumMonotone
<1>10. g[U] <= k[U] BY <1>2, <1>3, <1>4, <1>6, <1>8, SumMonotone
<1>11. k[U] = g[U] BY <1>7, <1>9, <1>10
<1> QED BY <1>1, <1>3, <1>4, <1>5, <1>11
=============================================================================
