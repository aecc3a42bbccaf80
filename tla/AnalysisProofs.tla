--------------------------- MODULE AnalysisProofs ---------------------------
(***************************************************************************)
(* Proofs about Spans and Analysis: what the functions of chunking.py and  *)
(* citations.py return for any text, and what the stream of an analysis    *)
(* ends in, for any texts, answers, units and threads.                     *)
(*                                                                         *)
(* The functions are defined by recursion and by sorting.  The first part  *)
(* has what is needed to reason about both: induction over an interval,    *)
(* recursive functions as limits of their steps, and ranks in an order.    *)
(***************************************************************************)
EXTENDS Analysis, FiniteSetTheorems, SequenceTheorems, WellFoundedInduction, TLAPS

-----------------------------------------------------------------------------
(* Induction, least and greatest elements *)

\* A set of integers from lo on has a least element.
LEMMA LeastExists ==
  ASSUME NEW lo \in Int, NEW S, S # {}, \A x \in S : x \in Int /\ lo <= x
  PROVE  \E m \in S : \A x \in S : m <= x
  <1> DEFINE T == {x - lo : x \in S}
  <1>1. T \subseteq Nat /\ T # {}
    OBVIOUS
  <1>2. \E x \in T : \A y \in T : ~ (<<y, x>> \in OpToRel(<, Nat))
    BY <1>1, WFMin, NatLessThanWellFounded, Zenon
  <1>3. PICK y \in T : \A z \in T : ~ (z < y)
    BY <1>1, <1>2 DEF OpToRel
  <1>4. PICK m \in S : y = m - lo
    OBVIOUS
  <1>5. \A x \in S : ~ (x - lo < m - lo)
    BY <1>3, <1>4
  <1>6. QED
    BY <1>5

\* A set of integers that is bounded below contains its minimum.
LEMMA MinOf ==
  ASSUME NEW lo \in Int, NEW S, S # {}, \A x \in S : x \in Int /\ lo <= x
  PROVE  Min(S) \in S /\ \A x \in S : Min(S) <= x
  BY LeastExists DEF Min

\* A set of integers that is bounded above contains its maximum.
LEMMA MaxOf ==
  ASSUME NEW hi \in Int, NEW S, S # {}, \A x \in S : x \in Int /\ x <= hi
  PROVE  Max(S) \in S /\ \A x \in S : x <= Max(S)
  <1> DEFINE T == {hi - x : x \in S}
  <1>1. T # {} /\ \A y \in T : y \in Int /\ 0 <= y
    OBVIOUS
  <1>2. PICK y \in T : \A z \in T : y <= z
    <2> HIDE DEF T
    <2>1. 0 \in Int
      OBVIOUS
    <2>2. QED
      BY <1>1, <2>1, LeastExists
  <1>3. PICK m \in S : y = hi - m
    OBVIOUS
  <1>4. \A x \in S : hi - m <= hi - x
    BY <1>2, <1>3
  <1>5. \E x \in S : \A y1 \in S : x >= y1
    BY <1>4
  <1>6. QED
    BY <1>5 DEF Max

\* Of two integers, the greater one.
LEMMA MaxOfTwo ==
  ASSUME NEW x \in Int, NEW y \in Int
  PROVE  /\ Max({x, y}) \in Int /\ x <= Max({x, y}) /\ y <= Max({x, y})
         /\ Max({x, y}) = x \/ Max({x, y}) = y
  <1>1. Max({x, y}) \in {x, y} /\ \A z \in {x, y} : z <= Max({x, y})
    <2>1. \A z \in {x, y} : z \in Int /\ z <= IF x <= y THEN y ELSE x
      OBVIOUS
    <2>2. QED
      BY <2>1, MaxOf
  <1>2. QED
    BY <1>1

\* Of two integers, the smaller one.
LEMMA MinOfTwo ==
  ASSUME NEW x \in Int, NEW y \in Int
  PROVE  /\ Min({x, y}) \in Int /\ Min({x, y}) <= x /\ Min({x, y}) <= y
         /\ Min({x, y}) = x \/ Min({x, y}) = y
  <1>1. Min({x, y}) \in {x, y} /\ \A z \in {x, y} : Min({x, y}) <= z
    <2>1. \A z \in {x, y} : z \in Int /\ (IF x <= y THEN x ELSE y) <= z
      OBVIOUS
    <2>2. QED
      BY <2>1, MinOf
  <1>2. QED
    BY <1>1

\* Induction over an interval, for a set of its members.
LEMMA Induct ==
  ASSUME NEW lo \in Int, NEW hi \in Int, NEW P,
         lo \in P, \A k \in lo + 1 .. hi : k - 1 \in P => k \in P
  PROVE  lo .. hi \subseteq P
  <1> DEFINE bad == {k \in lo .. hi : k \notin P}
  <1>1. SUFFICES ASSUME bad # {} PROVE FALSE
    OBVIOUS
  <1>2. \A x \in bad : x \in Int /\ lo <= x
    OBVIOUS
  <1>3. PICK m \in bad : \A x \in bad : m <= x
    BY <1>1, <1>2, LeastExists
  <1>4. m \in lo + 1 .. hi /\ m - 1 \in lo .. hi /\ m - 1 \notin bad
    BY <1>3
  <1>5. QED
    BY <1>4

\* A step that stays in A, repeated from lo to hi.
Repeats(f, lo, hi, A, first, Step) ==
  /\ f \in [lo .. hi -> A]
  /\ f[lo] = first
  /\ \A k \in lo + 1 .. hi : f[k] = Step[<<f[k - 1], k>>]

\* There is such a function: a recursion over an interval is well defined.
LEMMA RepeatsExists ==
  ASSUME NEW lo \in Int, NEW hi \in Int, lo <= hi, NEW A, NEW first \in A,
         NEW Step \in [A \X (lo + 1 .. hi) -> A]
  PROVE  \E f : Repeats(f, lo, hi, A, first, Step)
  <1> DEFINE P == {m \in lo .. hi : \E f : Repeats(f, lo, m, A, first, Step)}
  <1>1. lo \in P
    <2>1. Repeats([k \in lo .. lo |-> first], lo, lo, A, first, Step)
      BY DEF Repeats
    <2>2. QED
      BY <2>1
  <1>2. ASSUME NEW m \in lo + 1 .. hi, m - 1 \in P PROVE m \in P
    <2>1. PICK f : Repeats(f, lo, m - 1, A, first, Step)
      BY <1>2
    <2> DEFINE g == [k \in lo .. m |-> IF k = m THEN Step[<<f[m - 1], m>>] ELSE f[k]]
    <2>2. /\ f \in [lo .. m - 1 -> A] /\ f[lo] = first
          /\ \A k \in lo + 1 .. m - 1 : f[k] = Step[<<f[k - 1], k>>]
      BY <2>1 DEF Repeats
    <2>3. m - 1 \in lo .. m - 1
      OBVIOUS
    <2>4. Step[<<f[m - 1], m>>] \in A
      BY <2>2, <2>3
    <2>5. g \in [lo .. m -> A] /\ g[lo] = first
      BY <2>2, <2>4
    <2>6. ASSUME NEW k \in lo + 1 .. m PROVE g[k] = Step[<<g[k - 1], k>>]
      <3>1. CASE k = m
        <4>1. m \in lo .. m /\ m - 1 \in lo .. m /\ m - 1 # m
          OBVIOUS
        <4>2. g[m] = Step[<<f[m - 1], m>>] /\ g[m - 1] = f[m - 1]
          BY <4>1
        <4>3. QED
          BY <3>1, <4>2
      <3>2. CASE k # m
        BY <2>2, <3>2
      <3>3. QED
        BY <3>1, <3>2
    <2>7. Repeats(g, lo, m, A, first, Step)
      BY <2>5, <2>6 DEF Repeats
    <2>8. QED
      BY <2>7
  <1>3. lo .. hi \subseteq P
    <2> HIDE DEF P
    <2>1. QED
      BY <1>1, <1>2, Induct
  <1>4. QED
    BY <1>3

-----------------------------------------------------------------------------
(* Orders, ranks and sorted lists *)

IsOrder(S, R) ==
  /\ \A x \in S : <<x, x>> \notin R
  /\ \A x, y, z \in S : <<x, y>> \in R /\ <<y, z>> \in R => <<x, z>> \in R
  /\ \A x, y \in S : x # y => <<x, y>> \in R \/ <<y, x>> \in R

Rank(S, R, x) == Cardinality({y \in S : <<y, x>> \in R})

\* The list q has the members of S, each once, in the order R.
Lists(q, S, R) ==
  /\ q \in [1 .. Cardinality(S) -> S]
  /\ \A x \in S : \E k \in 1 .. Cardinality(S) : q[k] = x
  /\ \A i, j \in 1 .. Cardinality(S) : i < j <=> <<q[i], q[j]>> \in R

\* The ranks of n things in an order are the numbers from 0 to n - 1.
LEMMA Ranks ==
  ASSUME NEW S, IsFiniteSet(S), NEW R, IsOrder(S, R)
  PROVE  /\ Cardinality(S) \in Nat
         /\ \A x \in S : Rank(S, R, x) \in 0 .. Cardinality(S) - 1
         /\ \A x, y \in S : Rank(S, R, x) < Rank(S, R, y) <=> <<x, y>> \in R
         /\ \A k \in 1 .. Cardinality(S) : \E x \in S : Rank(S, R, x) = k - 1
  <1> DEFINE n == Cardinality(S)
             below(x) == {y \in S : <<y, x>> \in R}
             rank == [x \in S |-> Cardinality(below(x))]
  <1>1. n \in Nat
    BY FS_CardinalityType
  <1>2. ASSUME NEW x \in S
        PROVE  IsFiniteSet(below(x)) /\ Cardinality(below(x)) \in Nat
    <2>1. below(x) \in SUBSET S
      OBVIOUS
    <2>2. IsFiniteSet(below(x))
      BY <2>1, FS_Subset
    <2>3. QED
      BY <2>2, FS_CardinalityType
  <1>3. ASSUME NEW x \in S PROVE Cardinality(below(x)) \in 0 .. n - 1
    <2>1. below(x) \in SUBSET (S \ {x})
      BY DEF IsOrder
    <2>2. IsFiniteSet(S \ {x}) /\ Cardinality(S \ {x}) = n - 1
      BY FS_RemoveElement
    <2>3. Cardinality(below(x)) <= n - 1
      <3> HIDE DEF below, n
      <3>1. Cardinality(below(x)) <= Cardinality(S \ {x})
        BY <2>1, <2>2, FS_Subset
      <3>2. QED
        BY <2>2, <3>1
    <2>4. QED
      BY <1>1, <1>2, <2>3
  <1>4. ASSUME NEW x \in S, NEW y \in S, <<x, y>> \in R
        PROVE  Cardinality(below(x)) < Cardinality(below(y))
    <2>1. below(x) \in SUBSET below(y)
      BY <1>4 DEF IsOrder
    <2>2. x \in below(y) /\ x \notin below(x)
      BY <1>4 DEF IsOrder
    <2>3. /\ Cardinality(below(x)) <= Cardinality(below(y))
          /\ Cardinality(below(y)) = Cardinality(below(x)) => below(y) = below(x)
      BY <1>2, <2>1, FS_Subset
    <2>4. Cardinality(below(y)) # Cardinality(below(x))
      BY <2>2, <2>3
    <2>5. QED
      BY <1>2, <2>3, <2>4
  <1>5. ASSUME NEW x \in S, NEW y \in S
        PROVE  Cardinality(below(x)) < Cardinality(below(y)) <=> <<x, y>> \in R
    <2>1. CASE <<x, y>> \in R
      BY <1>4, <2>1
    <2>2. CASE <<y, x>> \in R
      <3>1. Cardinality(below(y)) < Cardinality(below(x))
        BY <1>4, <2>2
      <3>2. <<x, y>> \notin R
        BY <2>2 DEF IsOrder
      <3>3. QED
        BY <1>2, <3>1, <3>2
    <2>3. CASE x = y
      <3>1. ~ (Cardinality(below(x)) < Cardinality(below(y)))
        <4>1. Cardinality(below(x)) = Cardinality(below(y)) /\ Cardinality(below(y)) \in Nat
          BY <1>2, <2>3
        <4> HIDE DEF below
        <4>2. QED
          BY <4>1
      <3>2. <<x, y>> \notin R
        BY <2>3 DEF IsOrder
      <3>3. QED
        BY <3>1, <3>2
    <2>4. QED
      BY <2>1, <2>2, <2>3 DEF IsOrder
  <1>6. rank \in Injection(S, 0 .. n - 1)
    <2>1. rank \in [S -> 0 .. n - 1]
      BY <1>3
    <2>2. ASSUME NEW x \in S, NEW y \in S, rank[x] = rank[y] PROVE x = y
      <3>1. Cardinality(below(x)) = Cardinality(below(y))
        BY <2>2
      <3>2. <<x, y>> \notin R /\ <<y, x>> \notin R
        <4>1. Cardinality(below(x)) \in Nat /\ Cardinality(below(y)) \in Nat
          BY <1>2
        <4>2. /\ Cardinality(below(x)) < Cardinality(below(y)) <=> <<x, y>> \in R
              /\ Cardinality(below(y)) < Cardinality(below(x)) <=> <<y, x>> \in R
          BY <1>5
        <4> HIDE DEF below
        <4>3. QED
          BY <3>1, <4>1, <4>2
      <3>3. QED
        BY <3>2 DEF IsOrder
    <2>3. IsInjective(rank)
      <3> HIDE DEF rank
      <3>1. DOMAIN rank = S
        BY <2>1
      <3>2. QED
        BY <2>2, <3>1 DEF IsInjective
    <2>4. QED
      BY <2>1, <2>3 DEF Injection
  <1>7. IsFiniteSet(0 .. n - 1) /\ Cardinality(0 .. n - 1) = n
    <2>1. 0 \in Int /\ n - 1 \in Int
      BY <1>1
    <2>2. QED
      BY <1>1, <2>1, FS_Interval
  <1>8. rank \in Surjection(S, 0 .. n - 1)
    BY <1>6, <1>7, FS_Injection
  <1>9. ASSUME NEW k \in 1 .. n PROVE \E x \in S : Cardinality(below(x)) = k - 1
    <2>1. k - 1 \in 0 .. n - 1
      BY <1>1
    <2>2. \A y \in 0 .. n - 1 : \E x \in S : rank[x] = y
      BY <1>8, Zenon DEF Surjection
    <2>3. QED
      BY <2>1, <2>2
  <1>10. QED
    BY <1>1, <1>3, <1>5, <1>9 DEF Rank

\* Choosing the members by their ranks lists them in order.
LEMMA ChosenByRank ==
  ASSUME NEW S, IsFiniteSet(S), NEW R, IsOrder(S, R),
         NEW q, q = [k \in 1 .. Cardinality(S) |-> q[k]],
         \A k \in 1 .. Cardinality(S) :
           (\E x \in S : Rank(S, R, x) = k - 1) => q[k] \in S /\ Rank(S, R, q[k]) = k - 1
  PROVE  Lists(q, S, R)
  <1> DEFINE n == Cardinality(S)
  <1>1. /\ n \in Nat
        /\ \A x \in S : Rank(S, R, x) \in 0 .. n - 1
        /\ \A x, y \in S : Rank(S, R, x) < Rank(S, R, y) <=> <<x, y>> \in R
        /\ \A k \in 1 .. n : \E x \in S : Rank(S, R, x) = k - 1
    BY Ranks
  <1>2. \A k \in 1 .. n : q[k] \in S /\ Rank(S, R, q[k]) = k - 1
    BY <1>1
  <1>3. q \in [1 .. n -> S]
    BY <1>2
  <1>4. ASSUME NEW x \in S PROVE \E k \in 1 .. n : q[k] = x
    <2> DEFINE k == Rank(S, R, x) + 1
    <2>1. k \in 1 .. n
      BY <1>1
    <2>2. q[k] \in S /\ Rank(S, R, q[k]) = Rank(S, R, x)
      BY <1>1, <1>2, <2>1
    <2>3. <<q[k], x>> \notin R /\ <<x, q[k]>> \notin R
      BY <1>1, <2>2
    <2>4. q[k] = x
      BY <2>2, <2>3 DEF IsOrder
    <2>5. QED
      BY <2>1, <2>4
  <1>5. ASSUME NEW i \in 1 .. n, NEW j \in 1 .. n
        PROVE  i < j <=> <<q[i], q[j]>> \in R
    <2>1. Rank(S, R, q[i]) < Rank(S, R, q[j]) <=> <<q[i], q[j]>> \in R
      BY <1>1, <1>2
    <2>2. Rank(S, R, q[i]) = i - 1 /\ Rank(S, R, q[j]) = j - 1
      BY <1>2
    <2>3. QED
      BY <2>1, <2>2
  <1>6. QED
    BY <1>3, <1>4, <1>5 DEF Lists

\* Two lists of the same things in the same order are equal.
LEMMA ListsUnique ==
  ASSUME NEW S, IsFiniteSet(S), NEW R, NEW q, NEW p, Lists(q, S, R), Lists(p, S, R)
  PROVE  q = p
  <1> DEFINE n == Cardinality(S)
  <1>1. n \in Nat
    BY FS_CardinalityType
  <1>2. ASSUME NEW m \in 1 .. n, \A i \in 1 .. m - 1 : q[i] = p[i] PROVE q[m] = p[m]
    <2>1. PICK k \in 1 .. n : p[k] = q[m]
      BY DEF Lists
    <2>2. PICK l \in 1 .. n : q[l] = p[m]
      BY DEF Lists
    <2>3. ~ (k < m)
      <3>1. SUFFICES ASSUME k < m PROVE FALSE
        OBVIOUS
      <3>2. q[k] = q[m]
        BY <1>2, <2>1, <3>1
      <3>3. <<q[k], q[m]>> \in R /\ <<q[m], q[m]>> \notin R
        BY <3>1 DEF Lists
      <3>4. QED
        BY <3>2, <3>3
    <2>4. ~ (l < m)
      <3>1. SUFFICES ASSUME l < m PROVE FALSE
        OBVIOUS
      <3>2. p[l] = p[m]
        BY <1>2, <2>2, <3>1
      <3>3. <<p[l], p[m]>> \in R /\ <<p[m], p[m]>> \notin R
        BY <3>1 DEF Lists
      <3>4. QED
        BY <3>2, <3>3
    <2>5. k = m \/ l = m
      <3>1. SUFFICES ASSUME m < k, m < l PROVE FALSE
        BY <2>3, <2>4
      <3>2. <<p[m], p[k]>> \in R
        BY <3>1 DEF Lists
      <3>3. <<q[l], q[m]>> \in R
        BY <2>1, <2>2, <3>2
      <3>4. l < m
        BY <3>3 DEF Lists
      <3>5. QED
        BY <3>1, <3>4
    <2>6. QED
      BY <2>1, <2>2, <2>5
  <1>3. \A m \in 1 .. n : q[m] = p[m]
    <2> DEFINE P == {k \in 0 .. n : \A i \in 1 .. k : q[i] = p[i]}
    <2>1. 0 \in P
      BY <1>1
    <2>2. ASSUME NEW k \in 1 .. n, k - 1 \in P PROVE k \in P
      BY <1>2, <2>2
    <2>3. 0 .. n \subseteq P
      <3> HIDE DEF P
      <3>1. 0 \in Int /\ n \in Int
        BY <1>1
      <3>2. QED
        BY <2>1, <2>2, <3>1, Induct
    <2>4. n \in P
      BY <1>1, <2>3
    <2>5. QED
      BY <2>4
  <1>4. QED
    <2>1. q \in [1 .. n -> S] /\ p \in [1 .. n -> S]
      BY DEF Lists
    <2> HIDE DEF n
    <2>2. q = [i \in 1 .. n |-> q[i]] /\ p = [i \in 1 .. n |-> p[i]]
      BY <2>1
    <2>3. [i \in 1 .. n |-> q[i]] = [i \in 1 .. n |-> p[i]]
      BY <1>3
    <2>4. QED
      BY <2>2, <2>3

\* A sequence with the members of S in the order R lists S.
LEMMA IsList ==
  ASSUME NEW S, NEW R, NEW n \in Nat, NEW q \in [1 .. n -> S],
         \A x \in S : \E k \in 1 .. n : q[k] = x,
         \A i, j \in 1 .. n : i < j <=> <<q[i], q[j]>> \in R
  PROVE  IsFiniteSet(S) /\ Cardinality(S) = n /\ Lists(q, S, R)
  <1>1. \A i, j \in 1 .. n : i # j => q[i] # q[j]
    <2>1. ASSUME NEW i \in 1 .. n, NEW j \in 1 .. n, i < j PROVE q[i] # q[j]
      <3>1. <<q[i], q[j]>> \in R /\ <<q[i], q[i]>> \notin R
        BY <2>1
      <3>2. QED
        BY <3>1
    <2>2. QED
      BY <2>1
  <1>2. q \in Bijection(1 .. n, S)
    <2>1. q \in Surjection(1 .. n, S)
      BY DEF Surjection
    <2>2. IsInjective(q)
      BY <1>1 DEF IsInjective
    <2>3. QED
      BY <2>1, <2>2 DEF Bijection, Injection, Surjection
  <1>3. IsFiniteSet(S) /\ Cardinality(S) = n
    <2>1. ExistsBijection(1 .. n, S)
      BY <1>2 DEF ExistsBijection
    <2>2. QED
      BY <2>1, FS_CountingElements, FS_NatBijection
  <1>4. QED
    BY <1>3 DEF Lists

-----------------------------------------------------------------------------
(* The sorted lists of Spans *)

\* The positions of a sequence are finitely many.
LEMMA OneTo ==
  ASSUME NEW n \in Nat
  PROVE  IsFiniteSet(1 .. n) /\ Cardinality(1 .. n) = n
  BY FS_Interval

PairsOf(S, Less(_, _)) == {p \in S \X S : Less(p[1], p[2])}

\* Numbers in ascending order.
LEMMA NumbersInOrder ==
  ASSUME NEW S, IsFiniteSet(S), S \subseteq Int
  PROVE  Lists(InOrder(S, <), S, PairsOf(S, <))
  <1> DEFINE R == PairsOf(S, <)
             q == InOrder(S, <)
  <1>1. IsOrder(S, R)
    BY DEF IsOrder, PairsOf
  <1>2. ASSUME NEW x \in S PROVE {y \in S : <<y, x>> \in R} = {y \in S : y < x}
    BY DEF PairsOf
  <1>3. q = [k \in 1 .. Cardinality(S) |-> q[k]]
    <2> DEFINE e(k) == CHOOSE x \in S : Cardinality({y \in S : y < x}) = k - 1
    <2>1. q = [k \in 1 .. Cardinality(S) |-> e(k)]
      BY DEF InOrder
    <2> HIDE DEF e, q
    <2>2. QED
      BY <2>1
  <1>4. ASSUME NEW k \in 1 .. Cardinality(S), NEW x \in S, Rank(S, R, x) = k - 1
        PROVE  q[k] \in S /\ Rank(S, R, q[k]) = k - 1
    <2>1. Cardinality({y \in S : y < x}) = k - 1
      BY <1>2, <1>4 DEF Rank
    <2>2. q[k] = CHOOSE z \in S : Cardinality({y \in S : y < z}) = k - 1
      BY DEF InOrder
    <2>3. q[k] \in S /\ Cardinality({y \in S : y < q[k]}) = k - 1
      BY <2>1, <2>2
    <2>4. QED
      BY <1>2, <2>3 DEF Rank
  <1> HIDE DEF R, q
  <1>5. Lists(q, S, R)
    BY <1>1, <1>3, <1>4, ChosenByRank
  <1>6. QED
    BY <1>5 DEF R, q

\* Spans in the order of the text.
LEMMA SpansInOrder ==
  ASSUME NEW S, IsFiniteSet(S), S \subseteq Int \X Int
  PROVE  Lists(Sorted(S), S, PairsOf(S, Before))
  <1> DEFINE R == PairsOf(S, Before)
             q == Sorted(S)
  <1>1. IsOrder(S, R)
    BY DEF IsOrder, PairsOf, Before
  <1>2. ASSUME NEW x \in S PROVE {y \in S : <<y, x>> \in R} = {y \in S : Before(y, x)}
    BY DEF PairsOf
  <1>3. q = [k \in 1 .. Cardinality(S) |-> q[k]]
    <2> DEFINE e(k) == CHOOSE x \in S : Cardinality({y \in S : Before(y, x)}) = k - 1
    <2>1. q = [k \in 1 .. Cardinality(S) |-> e(k)]
      BY DEF InOrder, Sorted
    <2> HIDE DEF e, q
    <2>2. QED
      BY <2>1
  <1>4. ASSUME NEW k \in 1 .. Cardinality(S), NEW x \in S, Rank(S, R, x) = k - 1
        PROVE  q[k] \in S /\ Rank(S, R, q[k]) = k - 1
    <2>1. Cardinality({y \in S : Before(y, x)}) = k - 1
      BY <1>2, <1>4 DEF Rank
    <2>2. q[k] = CHOOSE z \in S : Cardinality({y \in S : Before(y, z)}) = k - 1
      BY DEF InOrder, Sorted
    <2>3. q[k] \in S /\ Cardinality({y \in S : Before(y, q[k])}) = k - 1
      BY <2>1, <2>2
    <2>4. QED
      BY <1>2, <2>3 DEF Rank
  <1> HIDE DEF R, q
  <1>5. Lists(q, S, R)
    BY <1>1, <1>3, <1>4, ChosenByRank
  <1>6. QED
    BY <1>5 DEF R, q

Citation == [law: Int, no: Int, start: Int, end: Int, domain: Int]

\* The list s has the entries of c, each as often, and none before a lesser.
Arranges(s, c, Less(_, _)) ==
  /\ s \in Seq(Citation) /\ Len(s) = Len(c) /\ Range(s) = Range(c)
  /\ \E place \in [1 .. Len(c) -> 1 .. Len(c)] :
       /\ \A i \in 1 .. Len(c) : s[i] = c[place[i]]
       /\ \A i, j \in 1 .. Len(c) : i # j => place[i] # place[j]
  /\ \A i, j \in 1 .. Len(c) : i < j => ~Less(s[j], s[i])


\* What is neither less nor greater counts as equal.
IsWeakOrder(S, W) ==
  /\ \A x \in S : <<x, x>> \notin W
  /\ \A x, y, z \in S : <<x, y>> \in W /\ <<y, z>> \in W => <<x, z>> \in W
  /\ \A x, y, z \in S : <<x, y>> \notin W /\ <<y, z>> \notin W => <<x, z>> \notin W

\* A stable sort: what counts as equal comes in the order of its places.
Stably(n, W) ==
  {p \in (1 .. n) \X (1 .. n) : p \in W \/ (<<p[2], p[1]>> \notin W /\ p[1] < p[2])}

IsArrangement(q, n, W) ==
  /\ q \in [1 .. n -> 1 .. n]
  /\ \A x \in 1 .. n : \E k \in 1 .. n : q[k] = x
  /\ \A i, j \in 1 .. n : i # j => q[i] # q[j]
  /\ \A i, j \in 1 .. n : i < j => <<q[j], q[i]>> \notin W

\* A stable sort by a weak order arranges all elements and loses none.
LEMMA StableSort ==
  ASSUME NEW n \in Nat, NEW W, IsWeakOrder(1 .. n, W),
         NEW q, q = [k \in 1 .. n |-> q[k]],
         \A k \in 1 .. n : (\E x \in 1 .. n : Rank(1 .. n, Stably(n, W), x) = k - 1)
                             => q[k] \in 1 .. n /\ Rank(1 .. n, Stably(n, W), q[k]) = k - 1
  PROVE  IsArrangement(q, n, W)
  <1> DEFINE S == 1 .. n
             R == Stably(n, W)
  <1>1. \A x, y \in S : <<x, y>> \in R <=> <<x, y>> \in W \/ (<<y, x>> \notin W /\ x < y)
    BY DEF Stably
  <1>2. \A x \in S : x \in Int
    OBVIOUS
  <1>3. IsFiniteSet(S) /\ Cardinality(S) = n
    BY FS_Interval
  <1> HIDE DEF S, R
  <1>4. IsOrder(S, R)
    <2>1. \A x \in S : <<x, x>> \notin W
      BY DEF IsWeakOrder, S
    <2>2. ASSUME NEW x \in S, NEW y \in S, NEW z \in S, <<x, y>> \in R, <<y, z>> \in R
          PROVE  <<x, z>> \in R
      <3>1. /\ <<x, y>> \in W \/ (<<y, x>> \notin W /\ x < y)
            /\ <<y, z>> \in W \/ (<<z, y>> \notin W /\ y < z)
        BY <1>1, <2>2
      <3>2. /\ <<x, y>> \in W /\ <<y, z>> \in W => <<x, z>> \in W
            /\ <<x, z>> \notin W /\ <<z, y>> \notin W => <<x, y>> \notin W
            /\ <<y, x>> \notin W /\ <<x, z>> \notin W => <<y, z>> \notin W
            /\ <<z, y>> \notin W /\ <<y, x>> \notin W => <<z, x>> \notin W
        BY DEF IsWeakOrder, S
      <3>3. <<x, z>> \in W \/ (<<z, x>> \notin W /\ x < z)
        <4>1. CASE <<x, z>> \in W
          BY <4>1
        <4>2. CASE <<x, z>> \notin W
          <5>1. ~ (<<x, y>> \in W /\ <<y, z>> \in W)
            BY <3>2, <4>2
          <5>2. <<z, y>> \notin W => <<x, y>> \notin W
            BY <3>2, <4>2
          <5>3. <<y, x>> \notin W => <<y, z>> \notin W
            BY <3>2, <4>2
          <5>4. <<y, x>> \notin W /\ x < y /\ <<z, y>> \notin W /\ y < z
            BY <3>1, <5>1, <5>2, <5>3
          <5>5. QED
            BY <1>2, <3>2, <5>4
        <4>3. QED
          BY <4>1, <4>2
      <3>4. QED
        BY <1>1, <3>3
    <2>3. ASSUME NEW x \in S, NEW y \in S, x # y PROVE <<x, y>> \in R \/ <<y, x>> \in R
      <3>1. x < y \/ y < x
        BY <1>2, <2>3
      <3>2. QED
        BY <1>1, <3>1
    <2>4. QED
      BY <1>1, <1>2, <2>1, <2>2, <2>3 DEF IsOrder
  <1>5. Lists(q, S, R)
    BY <1>3, <1>4, ChosenByRank DEF S, R
  <1>6. /\ q \in [1 .. n -> 1 .. n] /\ \A x \in 1 .. n : \E k \in 1 .. n : q[k] = x
        /\ \A i, j \in 1 .. n : i < j <=> <<q[i], q[j]>> \in R
    BY <1>3, <1>5 DEF Lists, S
  <1>7. ASSUME NEW i \in 1 .. n, NEW j \in 1 .. n, i < j
        PROVE  q[i] # q[j] /\ <<q[j], q[i]>> \notin W
    <2>1. <<q[i], q[j]>> \in R /\ <<q[j], q[i]>> \notin R /\ <<q[j], q[j]>> \notin R
      BY <1>6, <1>7
    <2>2. q[i] \in S /\ q[j] \in S
      BY <1>6 DEF S
    <2>3. QED
      BY <1>1, <2>1, <2>2
  <1>8. QED
    <2>1. ASSUME NEW i \in 1 .. n, NEW j \in 1 .. n, i # j PROVE q[i] # q[j]
      <3>1. i < j \/ j < i
        BY <2>1
      <3>2. QED
        BY <1>7, <3>1
    <2>2. QED
      BY <1>6, <1>7, <2>1 DEF IsArrangement

\* Arranging the places of a list arranges the list.
LEMMA ArrangedList ==
  ASSUME NEW c \in Seq(Citation), NEW W, NEW q, IsArrangement(q, Len(c), W),
         NEW s, s = [i \in DOMAIN c |-> c[q[i]]]
  PROVE  /\ s \in Seq(Citation) /\ Len(s) = Len(c) /\ Range(s) = Range(c)
         /\ \A i \in 1 .. Len(c) : s[i] = c[q[i]]
  <1>1. /\ Len(c) \in Nat /\ DOMAIN c = 1 .. Len(c)
        /\ \A i \in 1 .. Len(c) : c[i] \in Citation
    OBVIOUS
  <1>2. /\ q \in [1 .. Len(c) -> 1 .. Len(c)]
        /\ \A x \in 1 .. Len(c) : \E k \in 1 .. Len(c) : q[k] = x
    BY DEF IsArrangement
  <1>3. /\ s \in Seq(Citation) /\ Len(s) = Len(c) /\ DOMAIN s = 1 .. Len(c)
        /\ \A i \in 1 .. Len(c) : s[i] = c[q[i]]
    BY <1>1, <1>2
  <1>4. Range(s) = Range(c)
    <2>1. \A x \in Range(s) : x \in Range(c)
      BY <1>1, <1>2, <1>3 DEF Range
    <2>2. \A x \in Range(c) : x \in Range(s)
      BY <1>1, <1>2, <1>3 DEF Range
    <2>3. QED
      BY <2>1, <2>2
  <1>5. QED
    BY <1>3, <1>4

\* The order of articles and starts is a weak order.
LEMMA ByArticleIsWeak ==
  ASSUME NEW S, NEW c, \A i \in S : c[i] \in Citation
  PROVE  IsWeakOrder(S, {p \in S \X S : ByArticle(c[p[1]], c[p[2]])})
  <1> DEFINE W == {p \in S \X S : ByArticle(c[p[1]], c[p[2]])}
  <1>1. \A i \in S : c[i].domain \in Int /\ c[i].law \in Int /\ c[i].no \in Int /\ c[i].start \in Int
    BY DEF Citation
  <1>2. \A i, j \in S : <<i, j>> \in W <=> ByArticle(c[i], c[j])
    OBVIOUS
  <1>3. \A i \in S : ~ByArticle(c[i], c[i])
    BY <1>1 DEF ByArticle
  <1>4. ASSUME NEW i \in S, NEW j \in S, NEW k \in S, ByArticle(c[i], c[j]), ByArticle(c[j], c[k])
        PROVE  ByArticle(c[i], c[k])
    BY <1>1, <1>4 DEF ByArticle, SameArticle
  <1>5. ASSUME NEW i \in S, NEW j \in S, NEW k \in S, ~ByArticle(c[i], c[j]), ~ByArticle(c[j], c[k])
        PROVE  ~ByArticle(c[i], c[k])
    BY <1>1, <1>5 DEF ByArticle, SameArticle
  <1> HIDE DEF W
  <1>6. IsWeakOrder(S, W)
    BY <1>2, <1>3, <1>4, <1>5 DEF IsWeakOrder
  <1>7. QED
    BY <1>6 DEF W

\* Citations sorted for merging: a list of all of them, in that order.
LEMMA CitationsByArticle ==
  ASSUME NEW c \in Seq(Citation)
  PROVE  Arranges(SortedBy(c, ByArticle), c, ByArticle)
  <1> DEFINE n == Len(c)
             S == 1 .. n
             W == {p \in S \X S : ByArticle(c[p[1]], c[p[2]])}
             R == Stably(n, W)
             Comes(i, j) == ByArticle(c[i], c[j]) \/ (~ByArticle(c[j], c[i]) /\ i < j)
             e(k) == CHOOSE x \in S : Cardinality({y \in S : Comes(y, x)}) = k - 1
             q == [k \in 1 .. n |-> e(k)]
             s == SortedBy(c, ByArticle)
  <1>1. n \in Nat /\ DOMAIN c = S /\ Cardinality(S) = n /\ \A i \in S : c[i] \in Citation
    <2>1. Len(c) \in Nat /\ DOMAIN c = 1 .. Len(c) /\ \A i \in 1 .. Len(c) : c[i] \in Citation
      OBVIOUS
    <2>2. QED
      BY <2>1, OneTo
  <1>2. \A x \in S : {y \in S : <<y, x>> \in R} = {y \in S : Comes(y, x)}
    BY DEF Stably
  <1>3. s = [i \in DOMAIN c |-> c[q[i]]]
    <2>1. InOrder(DOMAIN c, Comes) = q
      BY <1>1 DEF InOrder
    <2>2. s = [i \in DOMAIN c |-> c[InOrder(DOMAIN c, Comes)[i]]]
      BY DEF SortedBy
    <2> HIDE DEF q, s, Comes
    <2>3. QED
      BY <2>1, <2>2
  <1>4. ASSUME NEW k \in 1 .. n, NEW x \in S, Rank(S, R, x) = k - 1
        PROVE  q[k] \in S /\ Rank(S, R, q[k]) = k - 1
    <2> HIDE DEF R, Comes
    <2>1. Cardinality({y \in S : Comes(y, x)}) = k - 1
      BY <1>2, <1>4 DEF Rank
    <2>2. q[k] = CHOOSE z \in S : Cardinality({y \in S : Comes(y, z)}) = k - 1
      OBVIOUS
    <2> HIDE DEF q
    <2>3. q[k] \in S /\ Cardinality({y \in S : Comes(y, q[k])}) = k - 1
      BY <2>1, <2>2
    <2>4. QED
      BY <1>2, <2>3 DEF Rank
  <1>5. q = [k \in 1 .. n |-> q[k]]
    <2> HIDE DEF e
    <2>1. QED
      OBVIOUS
  <1>6. IsWeakOrder(S, W)
    BY <1>1, ByArticleIsWeak
  <1> HIDE DEF W, q, s
  <1>7. IsArrangement(q, n, W)
    BY <1>1, <1>4, <1>5, <1>6, StableSort
  <1>8. /\ s \in Seq(Citation) /\ Len(s) = n /\ Range(s) = Range(c)
        /\ \A i \in 1 .. n : s[i] = c[q[i]]
    BY <1>3, <1>7, ArrangedList
  <1>9. \A i, j \in 1 .. n : i < j => ~ByArticle(s[j], s[i])
    <2>1. q \in [1 .. n -> 1 .. n] /\ \A i, j \in 1 .. n : i < j => <<q[j], q[i]>> \notin W
      BY <1>7 DEF IsArrangement
    <2>2. \A i, j \in S : <<i, j>> \notin W => ~ByArticle(c[i], c[j])
      BY DEF W
    <2>3. QED
      BY <1>8, <2>1, <2>2
  <1>10. QED
    BY <1>7, <1>8, <1>9 DEF Arranges, IsArrangement, s

\* The order of starts is a weak order.
LEMMA ByStartIsWeak ==
  ASSUME NEW S, NEW c, \A i \in S : c[i] \in Citation
  PROVE  IsWeakOrder(S, {p \in S \X S : ByStart(c[p[1]], c[p[2]])})
  <1> DEFINE W == {p \in S \X S : ByStart(c[p[1]], c[p[2]])}
  <1>1. \A i \in S : c[i].start \in Int
    BY DEF Citation
  <1>2. \A i, j \in S : <<i, j>> \in W <=> ByStart(c[i], c[j])
    OBVIOUS
  <1>3. \A i \in S : ~ByStart(c[i], c[i])
    BY <1>1 DEF ByStart
  <1>4. ASSUME NEW i \in S, NEW j \in S, NEW k \in S, ByStart(c[i], c[j]), ByStart(c[j], c[k])
        PROVE  ByStart(c[i], c[k])
    BY <1>1, <1>4 DEF ByStart
  <1>5. ASSUME NEW i \in S, NEW j \in S, NEW k \in S, ~ByStart(c[i], c[j]), ~ByStart(c[j], c[k])
        PROVE  ~ByStart(c[i], c[k])
    BY <1>1, <1>5 DEF ByStart
  <1> HIDE DEF W
  <1>6. IsWeakOrder(S, W)
    BY <1>2, <1>3, <1>4, <1>5 DEF IsWeakOrder
  <1>7. QED
    BY <1>6 DEF W

\* The final sort: a list of all citations, in the order of the text.
LEMMA CitationsByStart ==
  ASSUME NEW c \in Seq(Citation)
  PROVE  Arranges(SortedBy(c, ByStart), c, ByStart)
  <1> DEFINE n == Len(c)
             S == 1 .. n
             W == {p \in S \X S : ByStart(c[p[1]], c[p[2]])}
             R == Stably(n, W)
             Comes(i, j) == ByStart(c[i], c[j]) \/ (~ByStart(c[j], c[i]) /\ i < j)
             e(k) == CHOOSE x \in S : Cardinality({y \in S : Comes(y, x)}) = k - 1
             q == [k \in 1 .. n |-> e(k)]
             s == SortedBy(c, ByStart)
  <1>1. n \in Nat /\ DOMAIN c = S /\ Cardinality(S) = n /\ \A i \in S : c[i] \in Citation
    <2>1. Len(c) \in Nat /\ DOMAIN c = 1 .. Len(c) /\ \A i \in 1 .. Len(c) : c[i] \in Citation
      OBVIOUS
    <2>2. QED
      BY <2>1, OneTo
  <1>2. \A x \in S : {y \in S : <<y, x>> \in R} = {y \in S : Comes(y, x)}
    BY DEF Stably
  <1>3. s = [i \in DOMAIN c |-> c[q[i]]]
    <2>1. InOrder(DOMAIN c, Comes) = q
      BY <1>1 DEF InOrder
    <2>2. s = [i \in DOMAIN c |-> c[InOrder(DOMAIN c, Comes)[i]]]
      BY DEF SortedBy
    <2> HIDE DEF q, s, Comes
    <2>3. QED
      BY <2>1, <2>2
  <1>4. ASSUME NEW k \in 1 .. n, NEW x \in S, Rank(S, R, x) = k - 1
        PROVE  q[k] \in S /\ Rank(S, R, q[k]) = k - 1
    <2> HIDE DEF R, Comes
    <2>1. Cardinality({y \in S : Comes(y, x)}) = k - 1
      BY <1>2, <1>4 DEF Rank
    <2>2. q[k] = CHOOSE z \in S : Cardinality({y \in S : Comes(y, z)}) = k - 1
      OBVIOUS
    <2> HIDE DEF q
    <2>3. q[k] \in S /\ Cardinality({y \in S : Comes(y, q[k])}) = k - 1
      BY <2>1, <2>2
    <2>4. QED
      BY <1>2, <2>3 DEF Rank
  <1>5. q = [k \in 1 .. n |-> q[k]]
    <2> HIDE DEF e
    <2>1. QED
      OBVIOUS
  <1>6. IsWeakOrder(S, W)
    BY <1>1, ByStartIsWeak
  <1> HIDE DEF W, q, s
  <1>7. IsArrangement(q, n, W)
    BY <1>1, <1>4, <1>5, <1>6, StableSort
  <1>8. /\ s \in Seq(Citation) /\ Len(s) = n /\ Range(s) = Range(c)
        /\ \A i \in 1 .. n : s[i] = c[q[i]]
    BY <1>3, <1>7, ArrangedList
  <1>9. \A i, j \in 1 .. n : i < j => ~ByStart(s[j], s[i])
    <2>1. q \in [1 .. n -> 1 .. n] /\ \A i, j \in 1 .. n : i < j => <<q[j], q[i]>> \notin W
      BY <1>7 DEF IsArrangement
    <2>2. \A i, j \in S : <<i, j>> \notin W => ~ByStart(c[i], c[j])
      BY DEF W
    <2>3. QED
      BY <1>8, <2>1, <2>2
  <1>10. QED
    BY <1>7, <1>8, <1>9 DEF Arranges, IsArrangement, s

-----------------------------------------------------------------------------
(* Citations merged *)

\* One citation more, as MergeCitations goes through the sorted list.
MergeStep(acc, c) ==
  IF acc # <<>> /\ SameArticle(Last(acc), c) /\ c.start <= Last(acc).end
  THEN Append(Front(acc), [Last(acc) EXCEPT !.end = Max({@, c.end})])
  ELSE Append(acc, c)

\* What a step does to the list, entry by entry.
LEMMA MergeStepDoes ==
  ASSUME NEW acc \in Seq(Citation), NEW c \in Citation
  PROVE  /\ MergeStep(acc, c) \in Seq(Citation)
         /\ \/ /\ acc # <<>> /\ SameArticle(acc[Len(acc)], c) /\ c.start <= acc[Len(acc)].end
               /\ Len(MergeStep(acc, c)) = Len(acc)
               /\ \A m \in 1 .. Len(acc) - 1 : MergeStep(acc, c)[m] = acc[m]
               /\ MergeStep(acc, c)[Len(acc)] =
                    [acc[Len(acc)] EXCEPT !.end = Max({acc[Len(acc)].end, c.end})]
            \/ /\ ~(acc # <<>> /\ SameArticle(acc[Len(acc)], c) /\ c.start <= acc[Len(acc)].end)
               /\ Len(MergeStep(acc, c)) = Len(acc) + 1
               /\ \A m \in 1 .. Len(acc) : MergeStep(acc, c)[m] = acc[m]
               /\ MergeStep(acc, c)[Len(acc) + 1] = c
  <1> DEFINE n == Len(acc)
  <1>1. n \in Nat /\ (acc # <<>> => n > 0)
    OBVIOUS
  <1>2. Last(acc) = acc[n] /\ Front(acc) = SubSeq(acc, 1, n - 1)
    BY DEF Last, Front
  <1>3. CASE acc # <<>> /\ SameArticle(Last(acc), c) /\ c.start <= Last(acc).end
    <2> DEFINE x == [acc[n] EXCEPT !.end = Max({acc[n].end, c.end})]
    <2>1. acc[n] \in Citation
      BY <1>1, <1>3
    <2>2. x \in Citation
      <3>1. Max({acc[n].end, c.end}) \in Int
        BY <2>1, MaxOfTwo DEF Citation
      <3>2. QED
        BY <2>1, <3>1 DEF Citation
    <2>3. /\ Front(acc) \in Seq(Citation) /\ Len(Front(acc)) = n - 1
          /\ \A m \in 1 .. n - 1 : Front(acc)[m] = acc[m]
      <3>1. n \in Nat /\ n > 0
        BY <1>1, <1>3
      <3>2. n - 1 <= n /\ n - 1 >= 0 /\ n - 1 \in Int
        BY <3>1
      <3>3. \A m \in 1 .. n - 1 : acc[m] \in Citation
        OBVIOUS
      <3>4. /\ SubSeq(acc, 1, n - 1) \in Seq(Citation)
            /\ Len(SubSeq(acc, 1, n - 1)) = n - 1
            /\ \A m \in 1 .. n - 1 : SubSeq(acc, 1, n - 1)[m] = acc[m]
        <4> HIDE DEF n
        <4>1. 1 \in Int /\ n - 1 \in Int
          BY <3>1
        <4>2. /\ SubSeq(acc, 1, n - 1) \in Seq(Citation)
              /\ Len(SubSeq(acc, 1, n - 1)) = IF 1 <= n - 1 THEN (n - 1) - 1 + 1 ELSE 0
              /\ \A i \in 1 .. (n - 1) - 1 + 1 : SubSeq(acc, 1, n - 1)[i] = acc[1 + i - 1]
          BY <3>3, <4>1, SubSeqProperties
        <4>3. QED
          BY <3>1, <4>2
      <3>5. QED
        BY <1>2, <3>4
    <2>4. MergeStep(acc, c) = Append(Front(acc), x)
      BY <1>2, <1>3 DEF MergeStep
    <2> HIDE DEF x
    <2>5. /\ MergeStep(acc, c) \in Seq(Citation) /\ Len(MergeStep(acc, c)) = n
          /\ \A m \in 1 .. n - 1 : MergeStep(acc, c)[m] = acc[m]
          /\ MergeStep(acc, c)[n] = x
      BY <1>1, <1>3, <2>2, <2>3, <2>4
    <2>6. QED
      BY <1>2, <1>3, <2>5 DEF x
  <1>4. CASE ~(acc # <<>> /\ SameArticle(Last(acc), c) /\ c.start <= Last(acc).end)
    <2>1. MergeStep(acc, c) = Append(acc, c)
      BY <1>4 DEF MergeStep
    <2>2. QED
      BY <1>2, <1>4, <2>1
  <1>5. QED
    BY <1>3, <1>4

\* The lists MergeCitations goes through.
LEMMA MergeUnfolds ==
  ASSUME NEW c \in Seq(Citation)
  PROVE  \E f : /\ f \in [0 .. Len(c) -> Seq(Citation)]
                /\ f[0] = <<>>
                /\ \A k \in 1 .. Len(c) :
                     f[k] = MergeStep(f[k - 1], SortedBy(c, ByArticle)[k])
                /\ MergeCitations(c) = SortedBy(f[Len(c)], ByStart)
  <1> DEFINE n == Len(c)
             sorted == SortedBy(c, ByArticle)
             A == Seq(Citation)
             Step == [p \in A \X (1 .. n) |-> MergeStep(p[1], sorted[p[2]])]
             merged[k \in 0 .. Len(c)] ==
               IF k = 0 THEN <<>>
               ELSE LET acc == merged[k - 1]  d == sorted[k]
                    IN IF acc # <<>> /\ SameArticle(Last(acc), d) /\ d.start <= Last(acc).end
                       THEN Append(Front(acc), [Last(acc) EXCEPT !.end = Max({@, d.end})])
                       ELSE Append(acc, d)
             Body(f, k) == IF k = 0 THEN <<>> ELSE MergeStep(f[k - 1], sorted[k])
  <1>1. n \in Nat
    OBVIOUS
  <1>2. sorted \in Seq(Citation) /\ Len(sorted) = n
    BY CitationsByArticle DEF Arranges
  <1>3. merged = CHOOSE f : f = [k \in 0 .. n |-> Body(f, k)]
    BY DEF MergeStep
  <1>4. MergeCitations(c) = SortedBy(merged[n], ByStart)
    BY DEF MergeCitations
  <1> HIDE DEF sorted, merged
  <1>5. Step \in [A \X (0 + 1 .. n) -> A]
    <2>1. ASSUME NEW acc \in A, NEW k \in 1 .. n PROVE MergeStep(acc, sorted[k]) \in A
      <3>1. sorted[k] \in Citation
        BY <1>2
      <3>2. QED
        BY <3>1, MergeStepDoes
    <2>2. QED
      BY <2>1
  <1>6. PICK g : Repeats(g, 0, n, A, <<>>, Step)
    <2>1. <<>> \in A /\ 0 \in Int /\ n \in Int /\ 0 <= n
      BY <1>1
    <2> HIDE DEF A, Step
    <2>2. QED
      BY <1>5, <2>1, RepeatsExists
  <1>7. /\ g \in [0 .. n -> A] /\ g[0] = <<>>
        /\ \A k \in 1 .. n : g[k] = MergeStep(g[k - 1], sorted[k])
    <2>1. /\ g \in [0 .. n -> A] /\ g[0] = <<>>
          /\ \A k \in 1 .. n : g[k] = Step[<<g[k - 1], k>>]
      <3> HIDE DEF A, Step, n
      <3>1. 0 + 1 .. n = 1 .. n
        OBVIOUS
      <3>2. QED
        BY <1>6, <3>1 DEF Repeats
    <2>2. \A k \in 1 .. n : k - 1 \in 0 .. n /\ g[k - 1] \in A
      BY <1>1, <2>1
    <2> HIDE DEF A
    <2>3. \A k \in 1 .. n : Step[<<g[k - 1], k>>] = MergeStep(g[k - 1], sorted[k])
      BY <2>2
    <2>4. QED
      BY <2>1, <2>3
  <1>8. g = [k \in 0 .. n |-> Body(g, k)]
    <2> HIDE DEF A
    <2>1. \A k \in 0 .. n : g[k] = Body(g, k)
      BY <1>7
    <2> HIDE DEF Body
    <2>2. QED
      BY <1>7, <2>1
  <1>9. merged = [k \in 0 .. n |-> Body(merged, k)]
    <2> HIDE DEF Body
    <2>1. QED
      BY <1>3, <1>8
  <1> HIDE DEF A, Step, Body
  <1>10. \A k \in 0 .. n : merged[k] = Body(merged, k)
    BY <1>9
  <1>11. merged[0] = <<>> /\ \A k \in 1 .. n : merged[k] = MergeStep(merged[k - 1], sorted[k])
    BY <1>1, <1>10 DEF Body
  <1>12. \A k \in 0 .. n : merged[k] \in A
    <2> DEFINE P == {k \in 0 .. n : merged[k] \in A}
    <2>1. 0 \in P
      <3>1. merged[0] \in Seq(Citation)
        BY <1>11
      <3>2. QED
        BY <1>1, <3>1 DEF A
    <2>2. ASSUME NEW k \in 0 + 1 .. n, k - 1 \in P PROVE k \in P
      <3>1. sorted[k] \in Citation
        BY <1>2
      <3>2. MergeStep(merged[k - 1], sorted[k]) \in A
        BY <2>2, <3>1, MergeStepDoes DEF A
      <3>3. QED
        BY <1>11, <3>2
    <2> HIDE DEF P, n
    <2>3. 0 .. n \subseteq P
      <3>1. 0 \in Int /\ n \in Int
        BY <1>1
      <3>2. QED
        BY <2>1, <2>2, <3>1, Induct
    <2>4. QED
      BY <2>3 DEF P
  <1>13. merged \in [0 .. n -> A]
    <2>1. DOMAIN merged = 0 .. n
      BY <1>9
    <2>2. merged = [k \in 0 .. n |-> merged[k]]
      BY <1>9 DEF Body
    <2>3. QED
      BY <1>12, <2>2
  <1>14. QED
    BY <1>4, <1>11, <1>13 DEF A, sorted

Proper(c) == c \in Citation /\ c.start < c.end
Within(c, d) == SameArticle(c, d) /\ d.start <= c.start /\ c.end <= d.end

\* M is what becomes of the citations E: its entries cover them, begin and
\* end where they do, have no gaps, and stand in order and apart.
\* The order by article is the lexicographic one.
LEMMA ArticleOrder ==
  ASSUME NEW c \in Citation, NEW d \in Citation, NEW e \in Citation
  PROVE  /\ ~ByArticle(c, c)
         /\ ByArticle(c, d) /\ ByArticle(d, e) => ByArticle(c, e)
         /\ ByArticle(c, d) /\ ByArticle(d, e) /\ SameArticle(c, e)
              => SameArticle(c, d) /\ SameArticle(d, e)
         /\ SameArticle(c, d) /\ c.start < d.start => ByArticle(c, d)
         /\ SameArticle(c, d) /\ ByArticle(c, d) => c.start < d.start
  <1>1. /\ c.domain \in Int /\ c.law \in Int /\ c.no \in Int /\ c.start \in Int
        /\ d.domain \in Int /\ d.law \in Int /\ d.no \in Int /\ d.start \in Int
        /\ e.domain \in Int /\ e.law \in Int /\ e.no \in Int /\ e.start \in Int
    BY DEF Citation
  <1>2. ~ByArticle(c, c)
    BY <1>1 DEF ByArticle
  <1>3. ByArticle(c, d) /\ ByArticle(d, e) => ByArticle(c, e)
    BY <1>1 DEF ByArticle, SameArticle
  <1>4. ByArticle(c, d) /\ ByArticle(d, e) /\ SameArticle(c, e)
          => SameArticle(c, d) /\ SameArticle(d, e)
    BY <1>1 DEF ByArticle, SameArticle
  <1>5. SameArticle(c, d) /\ c.start < d.start => ByArticle(c, d)
    BY DEF ByArticle
  <1>6. SameArticle(c, d) /\ ByArticle(c, d) => c.start < d.start
    BY <1>1 DEF ByArticle, SameArticle
  <1>7. QED
    BY <1>2, <1>3, <1>4, <1>5, <1>6

Covers(M, E) == \A c \in E : \E m \in 1 .. Len(M) : Within(c, M[m])
EndsAreTheirs(M, E) ==
  \A m \in 1 .. Len(M) :
    /\ \E c \in E : SameArticle(c, M[m]) /\ c.start = M[m].start
    /\ \E c \in E : SameArticle(c, M[m]) /\ c.end = M[m].end
HasNoGaps(M, E) ==
  \A m \in 1 .. Len(M), x \in Int : M[m].start <= x /\ x < M[m].end =>
    \E c \in E : SameArticle(c, M[m]) /\ c.start <= x /\ x < c.end
IsApart(M) ==
  \A i, j \in 1 .. Len(M) : i < j =>
    ByArticle(M[i], M[j]) /\ (SameArticle(M[i], M[j]) => M[i].end < M[j].start)
IsFusion(M, E) ==
  /\ M \in Seq(Citation) /\ \A m \in 1 .. Len(M) : Proper(M[m])
  /\ Covers(M, E) /\ EndsAreTheirs(M, E) /\ HasNoGaps(M, E) /\ IsApart(M)

\* The list is a fusion of what was gone through, of which c was the last.
FusedUpTo(M, E, c) ==
  /\ IsFusion(M, E) /\ M # <<>>
  /\ SameArticle(M[Len(M)], c) /\ M[Len(M)].start <= c.start

\* Of one citation, the fusion is itself.
LEMMA FirstIsFused ==
  ASSUME NEW c, Proper(c)
  PROVE  FusedUpTo(MergeStep(<<>>, c), {c}, c)
  <1>1. MergeStep(<<>>, c) = <<c>>
    BY DEF MergeStep
  <1>2. <<c>> \in Seq(Citation) /\ Len(<<c>>) = 1 /\ <<c>>[1] = c /\ <<c>> # <<>>
    BY DEF Proper
  <1>3. c.start \in Int /\ c.end \in Int
    BY DEF Proper, Citation
  <1>4. IsFusion(<<c>>, {c})
    BY <1>2, <1>3 DEF IsFusion, Covers, EndsAreTheirs, HasNoGaps, IsApart, Within, SameArticle
  <1>5. SameArticle(c, c) /\ c.start <= c.start
    BY <1>3 DEF SameArticle
  <1>6. <<c>>[Len(<<c>>)] = c
    BY <1>2
  <1>7. QED
    BY <1>1, <1>2, <1>4, <1>5, <1>6 DEF FusedUpTo

\* A citation that begins in the last entry makes that one longer.
LEMMA FusesWithLast ==
  ASSUME NEW M, NEW E, NEW b, NEW c, FusedUpTo(M, E, b), E \subseteq Citation,
         Proper(c), Proper(b), ~ByArticle(c, b),
         SameArticle(M[Len(M)], c), c.start <= M[Len(M)].end,
         NEW N \in Seq(Citation), Len(N) = Len(M),
         \A m \in 1 .. Len(M) - 1 : N[m] = M[m],
         N[Len(M)] = [M[Len(M)] EXCEPT !.end = Max({M[Len(M)].end, c.end})]
  PROVE  FusedUpTo(N, E \cup {c}, c)
  <1> DEFINE n == Len(M)
             l == M[n]
  <1>1. /\ n \in Nat /\ n > 0 /\ M \in Seq(Citation) /\ \A m \in 1 .. n : Proper(M[m])
        /\ SameArticle(l, b) /\ l.start <= b.start
        /\ Covers(M, E) /\ EndsAreTheirs(M, E) /\ HasNoGaps(M, E) /\ IsApart(M)
    BY DEF FusedUpTo, IsFusion
  <1> HIDE DEF n
  <1>2. n \in 1 .. n /\ Len(M) = n /\ Len(N) = n
    BY <1>1 DEF n
  <1>3. Proper(l) /\ l.start \in Int /\ l.end \in Int /\ c.start \in Int /\ c.end \in Int
        /\ b.start \in Int
    BY <1>1, <1>2 DEF Proper, Citation
  <1>4. b.start <= c.start /\ l.start <= c.start
    <2>1. SameArticle(c, b)
      BY <1>1 DEF SameArticle, n
    <2>2. ~(c.start < b.start)
      BY <2>1 DEF ByArticle
    <2>3. QED
      BY <1>1, <1>3, <2>2
  <1> DEFINE e == Max({l.end, c.end})
  <1>5. e \in Int /\ l.end <= e /\ c.end <= e /\ (e = l.end \/ e = c.end)
    BY <1>3, MaxOfTwo
  <1> HIDE DEF e
  <1>6. N[n] = [l EXCEPT !.end = e]
    BY DEF e, n
  <1>7. /\ N[n].start = l.start /\ N[n].end = e /\ SameArticle(N[n], l)
        /\ N[n].domain = l.domain /\ N[n].law = l.law /\ N[n].no = l.no
    BY <1>3, <1>6 DEF Proper, Citation, SameArticle
  <1>8. \A m \in 1 .. n : m # n => N[m] = M[m]
    BY <1>1 DEF n
  <1>9. \A m \in 1 .. n : Proper(N[m])
    <2>1. N[n] \in Citation
      BY <1>2
    <2>2. Proper(N[n])
      BY <1>3, <1>5, <1>7, <2>1 DEF Proper
    <2>3. QED
      BY <1>1, <1>8, <2>2
  <1>10. \A d : SameArticle(d, l) <=> SameArticle(d, N[n])
    BY <1>7 DEF SameArticle
  <1>11. SameArticle(c, l)
    BY DEF SameArticle, n
  <1>12. Covers(N, E \cup {c})
    <2>1. ASSUME NEW d \in E PROVE \E m \in 1 .. n : Within(d, N[m])
      <3>1. PICK m \in 1 .. n : Within(d, M[m])
        BY <1>1, <1>2 DEF Covers
      <3>2. CASE m # n
        BY <1>8, <3>1, <3>2
      <3>3. CASE m = n
        <4>1. d.end \in Int /\ d.start \in Int
          BY DEF Citation
        <4>2. Within(d, N[n])
          BY <1>3, <1>5, <1>7, <1>10, <3>1, <3>3, <4>1 DEF Within
        <4>3. QED
          BY <1>2, <4>2
      <3>4. QED
        BY <3>2, <3>3
    <2>2. Within(c, N[n])
      BY <1>4, <1>5, <1>7, <1>10, <1>11 DEF Within
    <2>3. QED
      BY <1>2, <2>1, <2>2 DEF Covers
  <1>13. EndsAreTheirs(N, E \cup {c})
    <2>1. ASSUME NEW m \in 1 .. n
          PROVE  /\ \E d \in E \cup {c} : SameArticle(d, N[m]) /\ d.start = N[m].start
                 /\ \E d \in E \cup {c} : SameArticle(d, N[m]) /\ d.end = N[m].end
      <3>1. /\ \E d \in E : SameArticle(d, M[m]) /\ d.start = M[m].start
            /\ \E d \in E : SameArticle(d, M[m]) /\ d.end = M[m].end
        BY <1>1, <1>2 DEF EndsAreTheirs
      <3>2. CASE m # n
        BY <1>8, <3>1, <3>2
      <3>3. CASE m = n
        BY <1>5, <1>7, <1>10, <1>11, <3>1, <3>3
      <3>4. QED
        BY <3>2, <3>3
    <2>2. QED
      BY <1>2, <2>1 DEF EndsAreTheirs
  <1>14. HasNoGaps(N, E \cup {c})
    <2>1. ASSUME NEW m \in 1 .. n, NEW x \in Int, N[m].start <= x, x < N[m].end
          PROVE  \E d \in E \cup {c} : SameArticle(d, N[m]) /\ d.start <= x /\ x < d.end
      <3>1. M[m].start <= x /\ x < M[m].end
            => \E d \in E : SameArticle(d, M[m]) /\ d.start <= x /\ x < d.end
        BY <1>1, <1>2 DEF HasNoGaps
      <3>2. CASE m # n
        BY <1>8, <2>1, <3>1, <3>2
      <3>3. CASE m = n /\ x < l.end
        BY <1>7, <1>10, <2>1, <3>1, <3>3
      <3>4. CASE m = n /\ ~(x < l.end)
        <4>1. l.end <= x /\ x < e /\ e = c.end
          BY <1>3, <1>5, <1>7, <2>1, <3>4
        <4>2. c.start <= x /\ x < c.end
          BY <1>1, <1>2, <1>3, <4>1 DEF n
        <4>3. QED
          BY <1>10, <1>11, <3>4, <4>2
      <3>5. QED
        BY <3>2, <3>3, <3>4
    <2>2. QED
      BY <1>2, <2>1 DEF HasNoGaps
  <1>15. IsApart(N)
    <2>1. ASSUME NEW i \in 1 .. n, NEW j \in 1 .. n, i < j
          PROVE  ByArticle(N[i], N[j]) /\ (SameArticle(N[i], N[j]) => N[i].end < N[j].start)
      <3>1. i # n /\ N[i] = M[i]
        BY <1>1, <1>8, <2>1
      <3>2. ByArticle(M[i], M[j]) /\ (SameArticle(M[i], M[j]) => M[i].end < M[j].start)
        BY <1>1, <1>2, <2>1 DEF IsApart
      <3>3. CASE j # n
        BY <1>8, <3>1, <3>2, <3>3
      <3>4. CASE j = n
        BY <1>7, <3>1, <3>2, <3>4 DEF ByArticle, SameArticle
      <3>5. QED
        BY <3>3, <3>4
    <2>2. QED
      BY <1>2, <2>1 DEF IsApart
  <1>16. N # <<>> /\ SameArticle(N[Len(N)], c) /\ N[Len(N)].start <= c.start
    BY <1>1, <1>2, <1>4, <1>7 DEF SameArticle, n
  <1>17. QED
    BY <1>2, <1>9, <1>12, <1>13, <1>14, <1>15, <1>16 DEF FusedUpTo, IsFusion

\* Another citation becomes an entry of its own.
LEMMA StandsAlone ==
  ASSUME NEW M, NEW E, NEW b, NEW c, FusedUpTo(M, E, b), E \subseteq Citation,
         Proper(c), Proper(b), ~ByArticle(c, b),
         ~(SameArticle(M[Len(M)], c) /\ c.start <= M[Len(M)].end),
         NEW N \in Seq(Citation), Len(N) = Len(M) + 1,
         \A m \in 1 .. Len(M) : N[m] = M[m], N[Len(M) + 1] = c
  PROVE  FusedUpTo(N, E \cup {c}, c)
  <1> DEFINE n == Len(M)
             l == M[n]
  <1>1. /\ n \in Nat /\ n > 0 /\ M \in Seq(Citation) /\ \A m \in 1 .. n : Proper(M[m])
        /\ SameArticle(l, b) /\ l.start <= b.start
        /\ Covers(M, E) /\ EndsAreTheirs(M, E) /\ HasNoGaps(M, E) /\ IsApart(M)
    BY DEF FusedUpTo, IsFusion
  <1> HIDE DEF n
  <1>2. /\ n \in 1 .. n /\ n + 1 \in 1 .. n + 1 /\ Len(M) = n /\ Len(N) = n + 1 /\ N[n + 1] = c
        /\ \A m \in 1 .. n : m \in 1 .. n + 1 /\ N[m] = M[m]
        /\ \A m \in 1 .. n + 1 : m \in 1 .. n \/ m = n + 1
    BY <1>1 DEF n
  <1>3. /\ Proper(l) /\ l.start \in Int /\ l.end \in Int /\ c.start \in Int /\ c.end \in Int
        /\ b.start \in Int /\ l.start < l.end
        /\ l.domain \in Int /\ l.law \in Int /\ l.no \in Int
        /\ b.domain \in Int /\ b.law \in Int /\ b.no \in Int
        /\ c.domain \in Int /\ c.law \in Int /\ c.no \in Int
    BY <1>1, <1>2 DEF Proper, Citation
  <1>4. \A m \in 1 .. n + 1 : Proper(N[m])
    BY <1>1, <1>2
  <1>5. ~(SameArticle(l, c) /\ c.start <= l.end)
    BY DEF n
  <1>6. ByArticle(l, c) /\ (SameArticle(l, c) => l.end < c.start)
    <2>1. CASE SameArticle(l, c)
      <3>1. l.end < c.start /\ l.start < c.start
        <4> HIDE DEF l
        <4>1. QED
          BY <1>3, <1>5, <2>1
      <3>2. QED
        BY <2>1, <3>1 DEF ByArticle
    <2>2. CASE ~SameArticle(l, c)
      <3>1. l.domain = b.domain /\ l.law = b.law /\ l.no = b.no
        BY <1>1 DEF SameArticle
      <3>2. QED
        BY <1>3, <2>2, <3>1 DEF ByArticle, SameArticle
    <2>3. QED
      BY <2>1, <2>2
  <1>7. Covers(N, E \cup {c})
    <2>1. ASSUME NEW d \in E PROVE \E m \in 1 .. n + 1 : Within(d, N[m])
      BY <1>1, <1>2 DEF Covers
    <2>2. Within(c, N[n + 1])
      BY <1>2, <1>3 DEF Within, SameArticle
    <2>3. QED
      BY <1>2, <2>1, <2>2 DEF Covers
  <1>8. EndsAreTheirs(N, E \cup {c})
    <2>1. ASSUME NEW m \in 1 .. n
          PROVE  /\ \E d \in E \cup {c} : SameArticle(d, N[m]) /\ d.start = N[m].start
                 /\ \E d \in E \cup {c} : SameArticle(d, N[m]) /\ d.end = N[m].end
      BY <1>1, <1>2 DEF EndsAreTheirs
    <2>2. SameArticle(c, N[n + 1]) /\ c.start = N[n + 1].start /\ c.end = N[n + 1].end
      BY <1>2 DEF SameArticle
    <2>3. QED
      BY <1>2, <2>1, <2>2 DEF EndsAreTheirs
  <1>9. HasNoGaps(N, E \cup {c})
    <2>1. ASSUME NEW m \in 1 .. n, NEW x \in Int, N[m].start <= x, x < N[m].end
          PROVE  \E d \in E \cup {c} : SameArticle(d, N[m]) /\ d.start <= x /\ x < d.end
      BY <1>1, <1>2, <2>1 DEF HasNoGaps
    <2>2. SameArticle(c, N[n + 1]) /\ c.start = N[n + 1].start /\ c.end = N[n + 1].end
      BY <1>2 DEF SameArticle
    <2>3. QED
      BY <1>2, <2>1, <2>2 DEF HasNoGaps
  <1>10. IsApart(N)
    <2>1. ASSUME NEW i \in 1 .. n + 1, NEW j \in 1 .. n + 1, i < j
          PROVE  ByArticle(N[i], N[j]) /\ (SameArticle(N[i], N[j]) => N[i].end < N[j].start)
      <3>1. i \in 1 .. n /\ N[i] = M[i]
        BY <1>1, <1>2, <2>1
      <3>2. CASE j \in 1 .. n
        BY <1>1, <1>2, <2>1, <3>1, <3>2 DEF IsApart
      <3>3. CASE j = n + 1 /\ i = n
        BY <1>2, <1>6, <3>1, <3>3
      <3>4. CASE j = n + 1 /\ i # n
        <4>1. i < n
          BY <1>1, <3>1, <3>4
        <4>2. ByArticle(M[i], l) /\ (SameArticle(M[i], l) => M[i].end < l.start)
          BY <1>1, <1>2, <3>1, <4>1 DEF IsApart
        <4>3. M[i] \in Citation /\ l \in Citation /\ c \in Citation /\ M[i].end \in Int
          BY <1>1, <1>3, <3>1 DEF Proper, Citation
        <4>4. ByArticle(M[i], c)
          BY <1>6, <4>2, <4>3, ArticleOrder
        <4>5. ASSUME SameArticle(M[i], c) PROVE M[i].end < c.start
          <5>1. SameArticle(l, c) /\ SameArticle(M[i], l)
            BY <1>6, <4>2, <4>3, <4>5, ArticleOrder
          <5>2. M[i].end < l.start /\ l.end < c.start
            BY <1>6, <4>2, <5>1
          <5>3. QED
            BY <1>3, <4>3, <5>2, Z3T(30)
        <4>6. QED
          BY <1>2, <3>1, <3>4, <4>4, <4>5
      <3>5. QED
        BY <1>2, <3>2, <3>3, <3>4
    <2>2. QED
      BY <1>2, <2>1 DEF IsApart
  <1>11. N # <<>> /\ SameArticle(N[Len(N)], c) /\ N[Len(N)].start <= c.start
    BY <1>1, <1>2, <1>3 DEF SameArticle
  <1>12. QED
    BY <1>2, <1>4, <1>7, <1>8, <1>9, <1>10, <1>11 DEF FusedUpTo, IsFusion

\* Two fusions of the same citations have the same entries.
LEMMA FusionIsWithin ==
  ASSUME NEW E, \A c \in E : Proper(c), NEW M, IsFusion(M, E), NEW N, IsFusion(N, E),
         NEW m \in 1 .. Len(M)
  PROVE  \E k \in 1 .. Len(N) : Within(M[m], N[k])
  <1>1. /\ Proper(M[m]) /\ \A k \in 1 .. Len(N) : Proper(N[k])
        /\ EndsAreTheirs(M, E) /\ HasNoGaps(M, E) /\ Covers(N, E) /\ IsApart(N)
    BY DEF IsFusion
  <1>2. PICK c \in E : SameArticle(c, M[m]) /\ c.start = M[m].start
    BY <1>1 DEF EndsAreTheirs
  <1>3. PICK k \in 1 .. Len(N) : Within(c, N[k])
    BY <1>1 DEF Covers
  <1>4. /\ M[m].start \in Int /\ M[m].end \in Int /\ N[k].start \in Int /\ N[k].end \in Int
        /\ N[k].start < N[k].end /\ c.start \in Int /\ c.end \in Int /\ c.start < c.end
    BY <1>1 DEF Proper, Citation
  <1>5. SameArticle(M[m], N[k]) /\ N[k].start <= M[m].start /\ M[m].start < N[k].end
    <2>1. SameArticle(M[m], N[k])
      BY <1>2, <1>3 DEF Within, SameArticle
    <2>2. N[k].start <= c.start /\ c.end <= N[k].end
      BY <1>3 DEF Within
    <2>3. M[m].start < N[k].end
      BY <1>2, <1>4, <2>2, Z3T(30)
    <2>4. QED
      BY <1>2, <2>1, <2>2, <2>3
  <1>6. M[m].end <= N[k].end
    <2>1. SUFFICES ASSUME N[k].end < M[m].end PROVE FALSE
      BY <1>4
    <2>2. M[m].start <= N[k].end
      BY <1>4, <1>5
    <2>3. PICK d \in E : SameArticle(d, M[m]) /\ d.start <= N[k].end /\ N[k].end < d.end
      BY <1>1, <1>4, <2>1, <2>2 DEF HasNoGaps
    <2>4. PICK l \in 1 .. Len(N) : Within(d, N[l])
      BY <1>1 DEF Covers
    <2>5. /\ d.start \in Int /\ d.end \in Int /\ N[l].start \in Int /\ N[l].end \in Int
          /\ N[l].start <= d.start /\ d.end <= N[l].end
      BY <1>1, <2>4 DEF Within, Proper, Citation
    <2>6. N[l].start <= N[k].end /\ N[k].end < N[l].end
      BY <1>4, <2>3, <2>5, Z3T(30)
    <2>7. SameArticle(N[l], N[k]) /\ SameArticle(N[k], N[l])
      BY <1>5, <2>3, <2>4 DEF Within, SameArticle
    <2>8. l # k
      BY <1>4, <2>6
    <2>9. N[l].end < N[k].start \/ N[k].end < N[l].start
      BY <1>1, <2>7, <2>8 DEF IsApart
    <2>10. QED
      BY <1>4, <2>5, <2>6, <2>9, Z3T(30)
  <1>7. QED
    BY <1>5, <1>6 DEF Within

\* Each entry of a fusion is an entry of any other one.
LEMMA FusionEntries ==
  ASSUME NEW E, \A c \in E : Proper(c), NEW M, IsFusion(M, E), NEW N, IsFusion(N, E),
         NEW m \in 1 .. Len(M)
  PROVE  \E k \in 1 .. Len(N) : M[m] = N[k]
  <1>1. PICK k \in 1 .. Len(N) : Within(M[m], N[k])
    BY FusionIsWithin
  <1>2. PICK l \in 1 .. Len(M) : Within(N[k], M[l])
    BY FusionIsWithin
  <1>3. Proper(M[m]) /\ Proper(M[l]) /\ Proper(N[k]) /\ IsApart(M)
    BY DEF IsFusion
  <1>4. /\ M[m].start \in Int /\ M[m].end \in Int /\ N[k].start \in Int /\ N[k].end \in Int
        /\ M[l].start \in Int /\ M[l].end \in Int /\ M[m].start < M[m].end
    BY <1>3 DEF Proper, Citation
  <1>5. /\ SameArticle(M[m], M[l]) /\ SameArticle(M[l], M[m]) /\ SameArticle(M[m], N[k])
        /\ M[l].start <= N[k].start /\ N[k].start <= M[m].start
        /\ M[m].end <= N[k].end /\ N[k].end <= M[l].end
    BY <1>1, <1>2 DEF Within, SameArticle
  <1>6. l = m
    <2>1. SUFFICES ASSUME l # m PROVE FALSE
      OBVIOUS
    <2>2. M[l].end < M[m].start \/ M[m].end < M[l].start
      BY <1>3, <1>5, <2>1 DEF IsApart
    <2>3. QED
      BY <1>4, <1>5, <2>2, Z3T(30)
  <1>7. M[m].start = N[k].start /\ M[m].end = N[k].end
    BY <1>4, <1>5, <1>6
  <1>8. M[m] \in Citation /\ N[k] \in Citation
    BY <1>3 DEF Proper
  <1>9. M[m] = N[k]
    BY <1>5, <1>7, <1>8 DEF SameArticle, Citation
  <1>10. QED
    BY <1>9

\* A fusion lists its entries by article and start.
LEMMA FusionLists ==
  ASSUME NEW E, NEW M, IsFusion(M, E)
  PROVE  /\ IsFiniteSet(Range(M))
         /\ Lists(M, Range(M), PairsOf(Range(M), ByArticle))
  <1> DEFINE n == Len(M)
             S == Range(M)
             R == PairsOf(S, ByArticle)
  <1>1. /\ n \in Nat /\ M \in [1 .. n -> Citation] /\ IsApart(M)
        /\ \A m \in 1 .. n : Proper(M[m])
    BY DEF IsFusion
  <1>2. S = {M[m] : m \in 1 .. n} /\ M \in [1 .. n -> S]
    BY <1>1 DEF Range
  <1>3. \A i, j \in 1 .. n : i < j <=> <<M[i], M[j]>> \in R
    <2>1. ASSUME NEW i \in 1 .. n, NEW j \in 1 .. n PROVE i < j <=> ByArticle(M[i], M[j])
      <3>1. M[i] \in Citation /\ M[j] \in Citation
        BY <1>1
      <3>2. CASE i < j
        BY <1>1, <3>2 DEF IsApart
      <3>3. CASE j < i
        <4>1. ByArticle(M[j], M[i])
          BY <1>1, <3>3 DEF IsApart
        <4>2. ~ByArticle(M[i], M[j])
          BY <3>1, <4>1, ArticleOrder
        <4>3. QED
          BY <3>3, <4>2
      <3>4. CASE i = j
        BY <3>1, <3>4, ArticleOrder
      <3>5. QED
        BY <3>2, <3>3, <3>4
    <2>2. QED
      BY <1>2, <2>1 DEF PairsOf
  <1>4. \A x \in S : \E k \in 1 .. n : M[k] = x
    BY <1>2
  <1> HIDE DEF R, S, n
  <1>5. IsFiniteSet(S) /\ Lists(M, S, R)
    BY <1>1, <1>2, <1>3, <1>4, IsList
  <1>6. QED
    BY <1>5 DEF S, R

\* There is only one fusion of a set of citations.
LEMMA FusionIsUnique ==
  ASSUME NEW E, \A c \in E : Proper(c), NEW M, IsFusion(M, E), NEW N, IsFusion(N, E)
  PROVE  M = N
  <1>1. M \in Seq(Citation) /\ N \in Seq(Citation)
    BY DEF IsFusion
  <1>2. \A m \in 1 .. Len(M) : \E k \in 1 .. Len(N) : M[m] = N[k]
    BY FusionEntries
  <1>3. \A k \in 1 .. Len(N) : \E m \in 1 .. Len(M) : N[k] = M[m]
    BY FusionEntries
  <1>4. Range(M) = Range(N)
    <2>1. /\ Range(M) = {M[m] : m \in 1 .. Len(M)}
          /\ Range(N) = {N[k] : k \in 1 .. Len(N)}
      BY <1>1 DEF Range
    <2>2. QED
      BY <1>2, <1>3, <2>1
  <1>5. /\ IsFiniteSet(Range(M)) /\ Lists(M, Range(M), PairsOf(Range(M), ByArticle))
        /\ Lists(N, Range(M), PairsOf(Range(M), ByArticle))
    BY <1>4, FusionLists
  <1>6. QED
    BY <1>5, ListsUnique

\* What MergeCitations sorts at the end is the fusion of its citations.
LEMMA MergeIsFusion ==
  ASSUME NEW c \in Seq(Citation), \A i \in 1 .. Len(c) : Proper(c[i])
  PROVE  \E M : IsFusion(M, Range(c)) /\ MergeCitations(c) = SortedBy(M, ByStart)
  <1> DEFINE n == Len(c)
             s == SortedBy(c, ByArticle)
             E(k) == {s[i] : i \in 1 .. k}
  <1>1. n \in Nat /\ Range(c) = {c[i] : i \in 1 .. n}
    BY DEF Range
  <1>2. /\ s \in Seq(Citation) /\ Len(s) = n /\ Range(s) = Range(c)
        /\ \A i, j \in 1 .. n : i < j => ~ByArticle(s[j], s[i])
    BY CitationsByArticle DEF Arranges
  <1> HIDE DEF s
  <1>3. \A i \in 1 .. n : s[i] \in Range(s)
    BY <1>2 DEF Range
  <1>4. \A i \in 1 .. n : Proper(s[i]) /\ s[i] \in Citation
    BY <1>1, <1>2, <1>3
  <1>5. E(n) = Range(c)
    <2>1. Range(s) = {s[i] : i \in 1 .. n}
      BY <1>2 DEF Range
    <2>2. QED
      BY <1>2, <2>1
  <1>6. PICK f : /\ f \in [0 .. n -> Seq(Citation)] /\ f[0] = <<>>
                 /\ \A k \in 1 .. n : f[k] = MergeStep(f[k - 1], s[k])
                 /\ MergeCitations(c) = SortedBy(f[n], ByStart)
    BY MergeUnfolds DEF s
  <1>7. CASE n = 0
    <2>1. Range(c) = {} /\ f[n] = <<>>
      BY <1>1, <1>6, <1>7
    <2>2. IsFusion(<<>>, {})
      BY DEF IsFusion, Covers, EndsAreTheirs, HasNoGaps, IsApart
    <2>3. QED
      BY <1>6, <2>1, <2>2
  <1>8. CASE n # 0
    <2> DEFINE P == {k \in 1 .. n : FusedUpTo(f[k], E(k), s[k])}
    <2>1. 1 \in P
      <3>1. 1 \in 1 .. n /\ f[1] = MergeStep(<<>>, s[1])
        BY <1>1, <1>6, <1>8
      <3>2. E(1) = {s[1]}
        OBVIOUS
      <3>3. FusedUpTo(f[1], E(1), s[1])
        BY <1>4, <3>1, <3>2, FirstIsFused
      <3>4. QED
        BY <3>1, <3>3
    <2>2. ASSUME NEW k \in 1 + 1 .. n, k - 1 \in P PROVE k \in P
      <3> DEFINE acc == f[k - 1]
                 b == s[k - 1]
                 d == s[k]
                 N == MergeStep(acc, d)
      <3>1. k \in 1 .. n /\ k - 1 \in 1 .. n /\ k - 1 \in 0 .. n /\ k - 1 < k
        BY <1>1, <2>2
      <3>2. FusedUpTo(acc, E(k - 1), b)
        BY <2>2
      <3>3. /\ Proper(d) /\ Proper(b) /\ d \in Citation /\ ~ByArticle(d, b)
            /\ acc \in Seq(Citation) /\ f[k] = N
        BY <1>2, <1>4, <1>6, <3>1
      <3>4. E(k - 1) \subseteq Citation
        BY <1>4, <3>1
      <3>5. E(k) = E(k - 1) \cup {d}
        BY <3>1
      <3> HIDE DEF E, acc, b, d
      <3>6. FusedUpTo(N, E(k - 1) \cup {d}, d)
        <4>1. N \in Seq(Citation)
          BY <3>3, MergeStepDoes
        <4>2. CASE acc # <<>> /\ SameArticle(acc[Len(acc)], d) /\ d.start <= acc[Len(acc)].end
          <5>1. /\ Len(N) = Len(acc)
                /\ \A m \in 1 .. Len(acc) - 1 : N[m] = acc[m]
                /\ N[Len(acc)] = [acc[Len(acc)] EXCEPT !.end = Max({acc[Len(acc)].end, d.end})]
            BY <3>3, <4>2, MergeStepDoes
          <5> HIDE DEF N
          <5>2. QED
            BY <3>2, <3>3, <3>4, <4>1, <4>2, <5>1, FusesWithLast
        <4>3. CASE ~(acc # <<>> /\ SameArticle(acc[Len(acc)], d) /\ d.start <= acc[Len(acc)].end)
          <5>1. /\ Len(N) = Len(acc) + 1
                /\ \A m \in 1 .. Len(acc) : N[m] = acc[m]
                /\ N[Len(acc) + 1] = d
            BY <3>3, <4>3, MergeStepDoes
          <5>2. acc # <<>>
            BY <3>2 DEF FusedUpTo
          <5> HIDE DEF N
          <5>3. ~(SameArticle(acc[Len(acc)], d) /\ d.start <= acc[Len(acc)].end)
            BY <4>3, <5>2
          <5>4. QED
            BY <3>2, <3>3, <3>4, <4>1, <5>1, <5>3, StandsAlone
        <4>4. QED
          BY <4>2, <4>3
      <3>7. FusedUpTo(f[k], E(k), s[k])
        BY <3>3, <3>5, <3>6 DEF d
      <3>8. QED
        BY <3>1, <3>7
    <2>3. 1 .. n \subseteq P
      <3> HIDE DEF P, n
      <3>1. 1 \in Int /\ n \in Int
        BY <1>1
      <3>2. QED
        BY <2>1, <2>2, <3>1, Induct
    <2>4. n \in 1 .. n
      BY <1>1, <1>8
    <2>5. FusedUpTo(f[n], E(n), s[n])
      BY <2>3, <2>4
    <2>6. IsFusion(f[n], Range(c))
      BY <1>5, <2>5 DEF FusedUpTo
    <2>7. QED
      BY <1>6, <2>6
  <1>9. QED
    BY <1>7, <1>8

\* The same citations in any order, and as often as one likes, become the
\* same list.
THEOREM MergeIgnoresOrder ==
  ASSUME NEW c \in Seq(Citation), \A i \in 1 .. Len(c) : Proper(c[i]),
         NEW d \in Seq(Citation), \A i \in 1 .. Len(d) : Proper(d[i]),
         Range(c) = Range(d)
  PROVE  MergeCitations(c) = MergeCitations(d)
  <1>1. PICK M : IsFusion(M, Range(c)) /\ MergeCitations(c) = SortedBy(M, ByStart)
    BY MergeIsFusion
  <1>2. PICK N : IsFusion(N, Range(c)) /\ MergeCitations(d) = SortedBy(N, ByStart)
    BY MergeIsFusion
  <1>3. \A e \in Range(c) : Proper(e)
    BY DEF Range
  <1>4. M = N
    BY <1>1, <1>2, <1>3, FusionIsUnique
  <1>5. QED
    BY <1>1, <1>2, <1>4

\* The list covers each citation, and its entries begin and end where
\* citations do and stand apart.
THEOREM MergeCovers ==
  ASSUME NEW c \in Seq(Citation), \A i \in 1 .. Len(c) : Proper(c[i])
  PROVE  LET final == MergeCitations(c) IN
         /\ \A d \in Range(c) : \E k \in DOMAIN final :
              SameArticle(d, final[k]) /\ final[k].start <= d.start /\ d.end <= final[k].end
         /\ \A k \in DOMAIN final :
              /\ \E d \in Range(c) : SameArticle(d, final[k]) /\ d.start = final[k].start
              /\ \E d \in Range(c) : SameArticle(d, final[k]) /\ d.end = final[k].end
              /\ \A j \in DOMAIN final : SameArticle(final[j], final[k]) =>
                   j = k \/ final[j].end < final[k].start \/ final[k].end < final[j].start
  <1> DEFINE E == Range(c)
             F == MergeCitations(c)
  <1>1. PICK M : IsFusion(M, E) /\ F = SortedBy(M, ByStart)
    BY MergeIsFusion
  <1>2. /\ M \in Seq(Citation) /\ Covers(M, E) /\ EndsAreTheirs(M, E) /\ IsApart(M)
    BY <1>1 DEF IsFusion
  <1>3. Arranges(F, M, ByStart)
    BY <1>1, <1>2, CitationsByStart
  <1>4. PICK place \in [1 .. Len(M) -> 1 .. Len(M)] :
          /\ \A i \in 1 .. Len(M) : F[i] = M[place[i]]
          /\ \A i, j \in 1 .. Len(M) : i # j => place[i] # place[j]
    BY <1>3 DEF Arranges
  <1>5. /\ F \in Seq(Citation) /\ Len(F) = Len(M) /\ Range(F) = Range(M)
    BY <1>3 DEF Arranges
  <1> HIDE DEF F, E
  <1>6. DOMAIN F = 1 .. Len(M)
    BY <1>5
  <1>7. ASSUME NEW d \in E
        PROVE  \E k \in DOMAIN F :
                 SameArticle(d, F[k]) /\ F[k].start <= d.start /\ d.end <= F[k].end
    <2>1. PICK m \in 1 .. Len(M) : Within(d, M[m])
      BY <1>2 DEF Covers
    <2>2. M[m] \in Range(F)
      <3>1. DOMAIN M = 1 .. Len(M)
        BY <1>2
      <3>2. M[m] \in Range(M)
        BY <3>1 DEF Range
      <3>3. QED
        BY <1>5, <3>2
    <2>3. PICK k \in DOMAIN F : F[k] = M[m]
      BY <2>2 DEF Range
    <2>4. QED
      BY <2>1, <2>3 DEF Within
  <1>8. ASSUME NEW k \in DOMAIN F
        PROVE  /\ \E d \in E : SameArticle(d, F[k]) /\ d.start = F[k].start
               /\ \E d \in E : SameArticle(d, F[k]) /\ d.end = F[k].end
               /\ \A j \in DOMAIN F : SameArticle(F[j], F[k]) =>
                    j = k \/ F[j].end < F[k].start \/ F[k].end < F[j].start
    <2>1. place[k] \in 1 .. Len(M) /\ F[k] = M[place[k]]
      BY <1>4, <1>6
    <2>2. /\ \E d \in E : SameArticle(d, F[k]) /\ d.start = F[k].start
          /\ \E d \in E : SameArticle(d, F[k]) /\ d.end = F[k].end
      BY <1>2, <2>1 DEF EndsAreTheirs
    <2>3. ASSUME NEW j \in DOMAIN F, SameArticle(F[j], F[k]), j # k
          PROVE  F[j].end < F[k].start \/ F[k].end < F[j].start
      <3>1. place[j] \in 1 .. Len(M) /\ F[j] = M[place[j]] /\ place[j] # place[k]
        BY <1>4, <1>6, <2>3
      <3>2. SameArticle(F[k], F[j])
        BY <2>3 DEF SameArticle
      <3>3. CASE place[j] < place[k]
        BY <1>2, <2>1, <2>3, <3>1, <3>3 DEF IsApart
      <3>4. CASE place[k] < place[j]
        BY <1>2, <2>1, <3>1, <3>2, <3>4 DEF IsApart
      <3>5. QED
        BY <2>1, <3>1, <3>3, <3>4
    <2>4. QED
      BY <2>2, <2>3
  <1>9. QED
    BY <1>7, <1>8 DEF E, F

-----------------------------------------------------------------------------
(* Lists of numbers and of spans *)

\* Ascending numbers: a bound splits their list.
Ascends(q, S) ==
  /\ IsFiniteSet(S) /\ Cardinality(S) \in Nat
  /\ q \in [1 .. Cardinality(S) -> S]
  /\ \A x \in S : \E k \in 1 .. Cardinality(S) : q[k] = x
  /\ \A i, j \in 1 .. Cardinality(S) : i < j <=> q[i] < q[j]

\* A finite set of integers in order ascends.
LEMMA InOrderAscends ==
  ASSUME NEW S, IsFiniteSet(S), S \subseteq Int
  PROVE  Ascends(InOrder(S, <), S)
  <1> DEFINE q == InOrder(S, <)
  <1>1. Lists(q, S, PairsOf(S, <))
    BY NumbersInOrder
  <1>2. Cardinality(S) \in Nat
    BY FS_CardinalityType
  <1> HIDE DEF q
  <1>3. /\ q \in [1 .. Cardinality(S) -> S]
        /\ \A x \in S : \E k \in 1 .. Cardinality(S) : q[k] = x
        /\ \A i, j \in 1 .. Cardinality(S) : i < j <=> <<q[i], q[j]>> \in PairsOf(S, <)
    BY <1>1 DEF Lists
  <1>4. \A i, j \in 1 .. Cardinality(S) : i < j <=> q[i] < q[j]
    BY <1>3 DEF PairsOf
  <1>5. QED
    BY <1>2, <1>3, <1>4 DEF Ascends, q

\* Two ascending sequences of the same numbers are the same.
LEMMA AscendingIsUnique ==
  ASSUME NEW S, S \subseteq Int, NEW n \in Nat, NEW q \in [1 .. n -> S],
         \A x \in S : \E k \in 1 .. n : q[k] = x,
         \A i, j \in 1 .. n : i < j <=> q[i] < q[j]
  PROVE  IsFiniteSet(S) /\ Cardinality(S) = n /\ InOrder(S, <) = q
  <1> DEFINE R == PairsOf(S, <)
  <1>1. \A i, j \in 1 .. n : i < j <=> <<q[i], q[j]>> \in R
    BY DEF PairsOf
  <1> HIDE DEF R
  <1>2. IsFiniteSet(S) /\ Cardinality(S) = n /\ Lists(q, S, R)
    BY <1>1, IsList
  <1>3. Lists(InOrder(S, <), S, R)
    BY <1>2, NumbersInOrder DEF R
  <1>4. QED
    BY <1>2, <1>3, ListsUnique

\* Of an ascending list, a first part is below a bound and the rest is not.
LEMMA BoundSplits ==
  ASSUME NEW S, S \subseteq Int, NEW q, Ascends(q, S), NEW b \in Int
  PROVE  \E r \in 0 .. Cardinality(S) :
           \A k \in 1 .. Cardinality(S) : k <= r <=> q[k] < b
  <1> DEFINE n == Cardinality(S)
             below == {k \in 1 .. n : q[k] < b}
  <1>1. /\ n \in Nat /\ \A k \in 1 .. n : q[k] \in Int
        /\ \A i, j \in 1 .. n : i < j <=> q[i] < q[j]
    BY DEF Ascends
  <1> HIDE DEF n
  <1>2. CASE below = {}
    <2>1. \A k \in 1 .. n : k <= 0 <=> q[k] < b
      BY <1>2
    <2>2. 0 \in 0 .. n
      BY <1>1
    <2>3. QED
      BY <2>1, <2>2 DEF n
  <1>3. CASE below # {}
    <2>1. \A x \in below : x \in Int /\ x <= n
      BY <1>1
    <2>2. PICK r \in below : \A x \in below : x <= r
      <3> HIDE DEF below
      <3>1. n \in Int
        BY <1>1
      <3>2. Max(below) \in below /\ \A x \in below : x <= Max(below)
        BY <1>3, <2>1, <3>1, MaxOf
      <3>3. QED
        BY <3>2
    <2>3. ASSUME NEW k \in 1 .. n PROVE k <= r <=> q[k] < b
      <3>1. CASE k <= r
        <4>1. k < r \/ k = r
          BY <3>1
        <4>2. k < r => q[k] < q[r]
          BY <1>1
        <4>3. q[r] < b /\ q[r] \in Int /\ q[k] \in Int
          BY <1>1
        <4>4. QED
          BY <3>1, <4>1, <4>2, <4>3
      <3>2. CASE ~(k <= r)
        BY <2>2, <3>2
      <3>3. QED
        BY <3>1, <3>2
    <2>4. r \in 0 .. n
      BY <1>1
    <2>5. QED
      BY <2>3, <2>4 DEF n
  <1>4. QED
    BY <1>2, <1>3

-----------------------------------------------------------------------------
(* Texts without their blanks *)

\* The offsets of the characters that are not blank ascend.
LEMMA OffsetsAscend ==
  ASSUME NEW t \in Seq(STRING)
  PROVE  /\ Len(t) \in Nat /\ NonBlanks(t) \subseteq 0 .. Len(t) - 1
         /\ NonBlanks(t) \subseteq Int /\ IsFiniteSet(NonBlanks(t))
         /\ \A i \in 0 .. Len(t) - 1 : CharAt(t, i) = t[i + 1] /\ t[i + 1] \in STRING
         /\ Ascends(OffsetsOf(t), NonBlanks(t))
  <1>1. Len(t) \in Nat
    OBVIOUS
  <1>2. NonBlanks(t) \subseteq 0 .. Len(t) - 1
    BY DEF NonBlanks, Offsets
  <1>3. IsFiniteSet(0 .. Len(t) - 1)
    <2>1. 0 \in Int /\ Len(t) - 1 \in Int
      BY <1>1
    <2>2. QED
      BY <2>1, FS_Interval
  <1>4. IsFiniteSet(NonBlanks(t))
    BY <1>2, <1>3, FS_Subset
  <1>5. NonBlanks(t) \subseteq Int
    BY <1>2
  <1>6. Ascends(OffsetsOf(t), NonBlanks(t))
    BY <1>4, <1>5, InOrderAscends DEF OffsetsOf
  <1>7. \A i \in 0 .. Len(t) - 1 : CharAt(t, i) = t[i + 1] /\ t[i + 1] \in STRING
    BY DEF CharAt
  <1>8. QED
    BY <1>1, <1>2, <1>4, <1>5, <1>6, <1>7

\* A text without its blanks has as many characters as it has offsets.
LEMMA CompactIs ==
  ASSUME NEW t \in Seq(STRING)
  PROVE  /\ Compact(t) \in Seq(STRING) /\ Len(Compact(t)) = Cardinality(NonBlanks(t))
         /\ Len(OffsetsOf(t)) = Cardinality(NonBlanks(t))
         /\ \A k \in 1 .. Cardinality(NonBlanks(t)) : Compact(t)[k] = t[OffsetsOf(t)[k] + 1]
  <1> DEFINE n == Cardinality(NonBlanks(t))
             o == OffsetsOf(t)
  <1>1. n \in Nat /\ o \in [1 .. n -> NonBlanks(t)]
    BY OffsetsAscend DEF Ascends
  <1>2. \A k \in 1 .. n : CharAt(t, o[k]) = t[o[k] + 1] /\ t[o[k] + 1] \in STRING
    BY <1>1, OffsetsAscend
  <1>3. Compact(t) = [k \in 1 .. n |-> CharAt(t, o[k])]
    BY <1>1 DEF Compact
  <1>4. Len(o) = n
    BY <1>1
  <1> HIDE DEF n, o
  <1>5. Compact(t) \in Seq(STRING) /\ Len(Compact(t)) = n
    BY <1>1, <1>2, <1>3
  <1>6. \A k \in 1 .. n : Compact(t)[k] = t[o[k] + 1]
    BY <1>2, <1>3
  <1>7. QED
    BY <1>4, <1>5, <1>6 DEF n, o

\* The first r characters that are not blank come before b.
Splits(t, b, r) == \A k \in 1 .. Len(Compact(t)) : k <= r <=> OffsetsOf(t)[k] < b

\* A part of a text without its blanks is a part of the text without them.
LEMMA CompactOfSlice ==
  ASSUME NEW t \in Seq(STRING), NEW i \in 0 .. Len(t), NEW j \in 0 .. Len(t), i <= j,
         NEW r \in 0 .. Len(Compact(t)), NEW s \in 0 .. Len(Compact(t)),
         Splits(t, i, r), Splits(t, j, s)
  PROVE  r <= s /\ Compact(Slice(t, <<i, j>>)) = SubSeq(Compact(t), r + 1, s)
  <1> DEFINE u == Slice(t, <<i, j>>)
             n == Cardinality(NonBlanks(t))
             o == OffsetsOf(t)
             q == [k \in 1 .. s - r |-> o[r + k] - i]
  <1>1. /\ Len(t) \in Nat /\ n \in Nat /\ o \in [1 .. n -> NonBlanks(t)]
        /\ \A x \in NonBlanks(t) : \E k \in 1 .. n : o[k] = x
        /\ \A k, l \in 1 .. n : k < l <=> o[k] < o[l]
        /\ NonBlanks(t) \subseteq 0 .. Len(t) - 1
    BY OffsetsAscend DEF Ascends
  <1>2. Len(Compact(t)) = n /\ Compact(t) \in Seq(STRING)
        /\ \A k \in 1 .. n : Compact(t)[k] = t[o[k] + 1]
    BY CompactIs
  <1>3. \A k \in 1 .. n : (k <= r <=> o[k] < i) /\ (k <= s <=> o[k] < j)
    BY <1>2 DEF Splits
  <1>4. r \in 0 .. n /\ s \in 0 .. n
    BY <1>2
  <1> HIDE DEF n, o
  <1>5. r <= s
    <2>1. SUFFICES ASSUME s < r PROVE FALSE
      BY <1>4
    <2>2. r \in 1 .. n
      BY <1>4, <2>1
    <2>3. o[r] < i /\ ~(o[r] < j) /\ o[r] \in Int
      BY <1>1, <1>3, <1>4, <2>1, <2>2
    <2>4. QED
      BY <2>3
  <1>6. u \in Seq(STRING) /\ Len(u) = j - i /\ \A k \in 1 .. j - i : u[k] = t[i + k]
    <2>1. \A k \in i + 1 .. j : t[k] \in STRING
      OBVIOUS
    <2>2. i + 1 \in Int /\ j \in Int /\ u = SubSeq(t, i + 1, j)
      BY DEF Slice
    <2>3. /\ SubSeq(t, i + 1, j) \in Seq(STRING)
          /\ Len(SubSeq(t, i + 1, j)) = IF i + 1 <= j THEN j - (i + 1) + 1 ELSE 0
          /\ \A k \in 1 .. j - (i + 1) + 1 : SubSeq(t, i + 1, j)[k] = t[i + 1 + k - 1]
      BY <2>1, <2>2, SubSeqProperties
    <2> HIDE DEF u
    <2>4. QED
      BY <2>2, <2>3
  <1> HIDE DEF u
  <1>7. NonBlanks(u) = {x \in 0 .. j - i - 1 : i + x \in NonBlanks(t)}
    <2>1. Offsets(u) = 0 .. j - i - 1
      BY <1>6 DEF Offsets
    <2>2. \A x \in 0 .. j - i - 1 : CharAt(u, x) = CharAt(t, i + x)
      BY <1>1, <1>6 DEF CharAt
    <2>3. \A x \in 0 .. j - i - 1 : i + x \in Offsets(t)
      BY <1>1 DEF Offsets
    <2>4. QED
      BY <2>1, <2>2, <2>3 DEF NonBlanks
  <1>8. ASSUME NEW k \in 1 .. s - r
        PROVE  /\ r + k \in 1 .. n /\ o[r + k] \in NonBlanks(t) /\ o[r + k] \in Int
               /\ i <= o[r + k] /\ o[r + k] < j
    <2>1. r + k \in 1 .. n /\ r + k <= s /\ ~(r + k <= r)
      <3>1. /\ r \in Int /\ s \in Int /\ n \in Int /\ k \in Int
            /\ 0 <= r /\ s <= n /\ 1 <= k /\ k <= s - r
        BY <1>1, <1>4
      <3>2. QED
        BY <3>1, Z3T(30)
    <2>2. o[r + k] \in NonBlanks(t) /\ o[r + k] \in Int
      BY <1>1, <2>1
    <2>3. ~(o[r + k] < i) /\ o[r + k] < j
      BY <1>3, <2>1
    <2>4. QED
      BY <2>1, <2>2, <2>3
  <1>9. q \in [1 .. s - r -> NonBlanks(u)]
    <2>1. ASSUME NEW k \in 1 .. s - r PROVE o[r + k] - i \in NonBlanks(u)
      <3>1. o[r + k] - i \in 0 .. j - i - 1 /\ i + (o[r + k] - i) = o[r + k]
        <4>1. o[r + k] \in Int /\ i <= o[r + k] /\ o[r + k] < j
          BY <1>8, Zenon
        <4>2. i \in Int /\ j \in Int
          BY <1>1
        <4>3. QED
          BY <4>1, <4>2, Z3T(30)
      <3>2. QED
        BY <1>7, <1>8, <3>1
    <2>2. QED
      BY <2>1
  <1>10. ASSUME NEW x \in NonBlanks(u) PROVE \E k \in 1 .. s - r : q[k] = x
    <2>1. x \in 0 .. j - i - 1 /\ i + x \in NonBlanks(t)
      BY <1>7
    <2>2. PICK l \in 1 .. n : o[l] = i + x
      BY <1>1, <2>1
    <2>3. ~(l <= r) /\ l <= s
      BY <1>3, <2>1, <2>2
    <2>4. l - r \in 1 .. s - r /\ r + (l - r) = l
      BY <1>4, <2>3
    <2>5. q[l - r] = x
      BY <2>1, <2>2, <2>4
    <2>6. QED
      BY <2>4, <2>5
  <1>11. \A k, l \in 1 .. s - r : k < l <=> q[k] < q[l]
    <2>1. ASSUME NEW k \in 1 .. s - r, NEW l \in 1 .. s - r PROVE k < l <=> q[k] < q[l]
      <3>1. r + k < r + l <=> o[r + k] < o[r + l]
        BY <1>1, <1>8
      <3>2. o[r + k] \in Int /\ o[r + l] \in Int
        BY <1>8
      <3>3. q[k] = o[r + k] - i /\ q[l] = o[r + l] - i
        OBVIOUS
      <3> HIDE DEF q
      <3>4. QED
        BY <3>1, <3>2, <3>3
    <2>2. QED
      BY <2>1
  <1>12. OffsetsOf(u) = q /\ Cardinality(NonBlanks(u)) = s - r
    <2>1. s - r \in Nat /\ NonBlanks(u) \subseteq Int
      BY <1>4, <1>5, <1>7
    <2> HIDE DEF q
    <2>2. QED
      BY <1>9, <1>10, <1>11, <2>1, AscendingIsUnique DEF OffsetsOf
  <1>13. /\ Compact(u) \in Seq(STRING) /\ Len(Compact(u)) = s - r
         /\ \A k \in 1 .. s - r : Compact(u)[k] = u[q[k] + 1]
    <2>1. /\ Compact(u) \in Seq(STRING) /\ Len(Compact(u)) = Cardinality(NonBlanks(u))
          /\ \A k \in 1 .. Cardinality(NonBlanks(u)) : Compact(u)[k] = u[OffsetsOf(u)[k] + 1]
      BY <1>6, CompactIs
    <2> HIDE DEF q
    <2>2. QED
      BY <1>12, <2>1, Zenon
  <1>14. /\ SubSeq(Compact(t), r + 1, s) \in Seq(STRING)
         /\ Len(SubSeq(Compact(t), r + 1, s)) = s - r
         /\ \A k \in 1 .. s - r : SubSeq(Compact(t), r + 1, s)[k] = Compact(t)[r + k]
    <2>1. r + 1 \in Int /\ s \in Int
      OBVIOUS
    <2>2. \A k \in r + 1 .. s : Compact(t)[k] \in STRING
      BY <1>2, <1>4
    <2>3. /\ SubSeq(Compact(t), r + 1, s) \in Seq(STRING)
          /\ Len(SubSeq(Compact(t), r + 1, s)) = IF r + 1 <= s THEN s - (r + 1) + 1 ELSE 0
          /\ \A k \in 1 .. s - (r + 1) + 1 :
               SubSeq(Compact(t), r + 1, s)[k] = Compact(t)[r + 1 + k - 1]
      BY <2>1, <2>2, SubSeqProperties
    <2>4. QED
      BY <1>5, <2>1, <2>3
  <1>15. ASSUME NEW k \in 1 .. s - r
         PROVE  Compact(u)[k] = SubSeq(Compact(t), r + 1, s)[k]
    <2>1. q[k] = o[r + k] - i /\ q[k] + 1 \in 1 .. j - i /\ i + (q[k] + 1) = o[r + k] + 1
      <3>1. o[r + k] \in Int /\ i <= o[r + k] /\ o[r + k] < j
        BY <1>8, Zenon
      <3>2. q[k] = o[r + k] - i
        OBVIOUS
      <3>3. i \in Int /\ j \in Int
        BY <1>1
      <3> HIDE DEF q
      <3>4. QED
        BY <3>1, <3>2, <3>3, Z3T(30)
    <2>2. u[q[k] + 1] = t[o[r + k] + 1]
      BY <1>6, <2>1
    <2>3. Compact(t)[r + k] = t[o[r + k] + 1]
      BY <1>2, <1>8
    <2>4. QED
      BY <1>13, <1>14, <2>2, <2>3
  <1>16. Compact(u) = SubSeq(Compact(t), r + 1, s)
    <2> HIDE DEF q
    <2> DEFINE v == Compact(u)
               w == SubSeq(Compact(t), r + 1, s)
    <2>1. v \in Seq(STRING) /\ w \in Seq(STRING) /\ Len(v) = s - r /\ Len(w) = s - r
      BY <1>13, <1>14
    <2>2. \A k \in 1 .. s - r : v[k] = w[k]
      BY <1>15
    <2> HIDE DEF v, w
    <2>3. v = w
      BY <2>1, <2>2
    <2>4. QED
      BY <2>3 DEF v, w
  <1>17. QED
    BY <1>5, <1>16 DEF u

\* Stripping takes blanks only.
LEMMA StripKeeps ==
  ASSUME NEW q \in Seq(STRING), Compact(q) # <<>>
  PROVE  Strip(q) \in Seq(STRING) /\ Strip(q) # <<>> /\ Compact(Strip(q)) = Compact(q)
  <1> DEFINE kept == {i \in 1 .. Len(q) : q[i] \notin Blanks}
             n == Len(Compact(q))
             o == OffsetsOf(q)
             a == Min(kept)
             b == Max(kept)
  <1>1. /\ Len(q) \in Nat /\ NonBlanks(q) \subseteq 0 .. Len(q) - 1
        /\ n = Cardinality(NonBlanks(q)) /\ n \in Nat
        /\ o \in [1 .. n -> NonBlanks(q)]
    BY OffsetsAscend, CompactIs DEF Ascends
  <1>2. NonBlanks(q) = {x \in 0 .. Len(q) - 1 : x + 1 \in kept}
    BY DEF NonBlanks, Offsets, CharAt
  <1>3. n # 0
    <2>1. Compact(q) \in Seq(STRING)
      BY CompactIs
    <2>2. QED
      BY <2>1
  <1> HIDE DEF n, o
  <1>4. kept # {}
    <2>1. 1 \in 1 .. n
      BY <1>1, <1>3
    <2>2. o[1] \in NonBlanks(q)
      BY <1>1, <2>1
    <2>3. QED
      BY <1>2, <2>2
  <1>5. /\ a \in 1 .. Len(q) /\ \A x \in kept : a <= x
        /\ b \in 1 .. Len(q) /\ \A x \in kept : x <= b
    <2>1. \A x \in kept : x \in Int /\ 1 <= x /\ x <= Len(q) /\ x \in 1 .. Len(q)
      BY <1>1
    <2> HIDE DEF kept
    <2>2. 1 \in Int /\ Len(q) \in Int
      BY <1>1
    <2>3. Min(kept) \in kept /\ \A x \in kept : Min(kept) <= x
      BY <1>4, <2>1, <2>2, MinOf
    <2>4. Max(kept) \in kept /\ \A x \in kept : x <= Max(kept)
      BY <1>4, <2>1, <2>2, MaxOf
    <2>5. QED
      BY <2>1, <2>3, <2>4
  <1>6. Strip(q) = Slice(q, <<a - 1, b>>)
    <2>1. Strip(q) = SubSeq(q, a, b)
      BY <1>4 DEF Strip
    <2> HIDE DEF a, b
    <2>2. Slice(q, <<a - 1, b>>) = SubSeq(q, a - 1 + 1, b) /\ a - 1 + 1 = a
      BY <1>5 DEF Slice
    <2>3. QED
      BY <2>1, <2>2
  <1>7. \A k \in 1 .. n : o[k] \in Int /\ a - 1 <= o[k] /\ o[k] < b
    <2>1. ASSUME NEW k \in 1 .. n PROVE o[k] \in Int /\ a - 1 <= o[k] /\ o[k] < b
      <3>1. o[k] \in NonBlanks(q)
        BY <1>1
      <3>2. o[k] \in 0 .. Len(q) - 1 /\ o[k] + 1 \in kept
        BY <1>2, <3>1
      <3>3. a <= o[k] + 1 /\ o[k] + 1 <= b /\ o[k] \in Int /\ a \in Int /\ b \in Int
        BY <1>5, <3>2
      <3> HIDE DEF a, b
      <3>4. QED
        BY <3>3, Z3T(30)
    <2>2. QED
      BY <2>1
  <1>8. a <= b /\ a - 1 \in 0 .. Len(q) /\ b \in 0 .. Len(q) /\ a - 1 <= b
    <2>1. 1 \in 1 .. n
      BY <1>1, <1>3
    <2>2. a - 1 <= o[1] /\ o[1] < b /\ o[1] \in Int
      BY <1>7, <2>1
    <2> HIDE DEF a, b
    <2>3. a \in Int /\ b \in Int /\ 1 <= a /\ b <= Len(q) /\ a <= Len(q) /\ 0 <= b
      BY <1>5
    <2>4. a <= b
      BY <2>2, <2>3, Z3T(30)
    <2>5. QED
      BY <1>1, <2>3, <2>4
  <1> HIDE DEF a, b
  <1>9. Compact(Slice(q, <<a - 1, b>>)) = SubSeq(Compact(q), 0 + 1, n)
    <2>1. 0 \in 0 .. n /\ n \in 0 .. n
      BY <1>1
    <2>2. \A k \in 1 .. n : (k <= 0 <=> o[k] < a - 1) /\ (k <= n <=> o[k] < b)
      <3>1. ASSUME NEW k \in 1 .. n
            PROVE  (k <= 0 <=> o[k] < a - 1) /\ (k <= n <=> o[k] < b)
        <4>1. o[k] \in Int /\ a - 1 <= o[k] /\ o[k] < b /\ a - 1 \in Int
          BY <1>7, <1>8
        <4>2. QED
          BY <1>1, <4>1
      <3>2. QED
        BY <3>1
    <2>3. Splits(q, a - 1, 0) /\ Splits(q, b, n)
      BY <2>2 DEF n, o, Splits
    <2>4. QED
      BY <1>8, <2>1, <2>3, CompactOfSlice DEF n
  <1>10. SubSeq(Compact(q), 0 + 1, n) = Compact(q)
    <2>1. Compact(q) \in Seq(STRING)
      BY CompactIs
    <2>2. 0 + 1 = 1
      OBVIOUS
    <2>3. QED
      BY <2>1, <2>2, SubSeqFull DEF n
  <1>11. Strip(q) \in Seq(STRING) /\ Strip(q) # <<>>
    <2>1. \A k \in a .. b : q[k] \in STRING
      BY <1>5
    <2>2. Strip(q) = SubSeq(q, a, b)
      BY <1>4 DEF Strip, a, b
    <2>3. SubSeq(q, a, b) \in Seq(STRING) /\ Len(SubSeq(q, a, b)) = b - a + 1
      BY <1>5, <1>8, <2>1, SubSeqProperties
    <2>4. b - a + 1 # 0 /\ Len(<<>>) = 0
      BY <1>5, <1>8
    <2>5. QED
      BY <2>2, <2>3, <2>4
  <1>12. QED
    BY <1>6, <1>9, <1>10, <1>11

\* What str.find returns.
LEMMA FindIs ==
  ASSUME NEW t, NEW q \in Seq(STRING), NEW lo \in Int, NEW hi \in Int
  PROVE  /\ Find(t, q, <<lo, hi>>) # Null =>
              \E m \in lo .. hi :
                /\ Find(t, q, <<lo, hi>>) = <<m, m + Len(q)>> /\ m + Len(q) <= hi
                /\ Slice(t, <<m, m + Len(q)>>) = q
         /\ \A m \in lo .. hi :
              m + Len(q) <= hi /\ Slice(t, <<m, m + Len(q)>>) = q
              => Find(t, q, <<lo, hi>>) # Null
  <1> DEFINE places == {i \in lo .. hi : /\ i + Len(q) <= hi
                                         /\ Slice(t, <<i, i + Len(q)>>) = q}
  <1>1. Find(t, q, <<lo, hi>>) =
          IF places = {} THEN Null ELSE <<Min(places), Min(places) + Len(q)>>
    BY DEF Find
  <1>2. Len(q) \in Nat
    OBVIOUS
  <1>3. ASSUME places # {}
        PROVE  /\ Min(places) \in places /\ Min(places) \in Int
               /\ <<Min(places), Min(places) + Len(q)>> # Null
    <2>1. \A x \in places : x \in Int /\ lo <= x
      OBVIOUS
    <2> HIDE DEF places
    <2>2. Min(places) \in places
      BY <1>3, <2>1, MinOf
    <2>3. <<Min(places), Min(places) + Len(q)>> \in Int \X Int
      BY <1>2, <2>1, <2>2
    <2>4. QED
      BY <2>1, <2>2, <2>3, NullAssumption
  <1>4. QED
    BY <1>1, <1>3

\* A quote without blanks is found if it is part of the text without blanks,
\* and what is found reads like it.
LEMMA FindCompactIs ==
  ASSUME NEW t \in Seq(STRING), NEW q \in Seq(STRING), Compact(q) # <<>>
  PROVE  /\ FindCompact(t, q) # Null =>
              \E i, j \in 0 .. Len(t) :
                /\ i < j /\ FindCompact(t, q) = <<i, j>>
                /\ Compact(Slice(t, <<i, j>>)) = Compact(q)
         /\ Compact(q) \in Readings(t) => FindCompact(t, q) # Null
  <1> DEFINE n == Len(Compact(t))
             o == OffsetsOf(t)
             l == Len(Compact(q))
             at == Find(Compact(t), Compact(q), <<0, n>>)
  <1>1. /\ Len(t) \in Nat /\ NonBlanks(t) \subseteq 0 .. Len(t) - 1
        /\ n = Cardinality(NonBlanks(t)) /\ n \in Nat
        /\ o \in [1 .. n -> NonBlanks(t)] /\ Len(o) = n
        /\ \A k, m \in 1 .. n : k < m <=> o[k] < o[m]
    BY OffsetsAscend, CompactIs DEF Ascends
  <1>2. Compact(t) \in Seq(STRING) /\ Compact(q) \in Seq(STRING) /\ l \in Nat /\ l > 0
    <2>1. Compact(t) \in Seq(STRING) /\ Compact(q) \in Seq(STRING)
      BY CompactIs
    <2>2. QED
      BY <2>1
  <1>3. FindCompact(t, q) = IF at = Null THEN Null ELSE <<o[at[1] + 1], o[at[2]] + 1>>
    BY <1>1 DEF FindCompact
  <1>4. \A k \in 1 .. n : o[k] \in 0 .. Len(t) - 1 /\ o[k] \in Int
    BY <1>1
  <1> HIDE DEF n, o, l, at
  <1>5. ASSUME at # Null
        PROVE  /\ FindCompact(t, q) # Null
               /\ \E i, j \in 0 .. Len(t) :
                    /\ i < j /\ FindCompact(t, q) = <<i, j>>
                    /\ Compact(Slice(t, <<i, j>>)) = Compact(q)
    <2>1. PICK m \in 0 .. n : /\ at = <<m, m + l>> /\ m + l <= n
                              /\ Slice(Compact(t), <<m, m + l>>) = Compact(q)
      <3>1. 0 \in Int /\ n \in Int
        BY <1>1
      <3>2. QED
        BY <1>2, <1>5, <3>1, FindIs DEF at, l
    <2>2. m + 1 \in 1 .. n /\ m + l \in 1 .. n /\ m + 1 <= m + l /\ m + l \in 0 .. n
      BY <1>1, <1>2, <2>1
    <2> DEFINE i == o[m + 1]
               j == o[m + l] + 1
    <2>3. i \in 0 .. Len(t) /\ j \in 0 .. Len(t) /\ i \in Int /\ j \in Int
      <3>1. o[m + 1] \in 0 .. Len(t) - 1 /\ o[m + l] \in 0 .. Len(t) - 1
        BY <1>4, <2>2
      <3>2. QED
        BY <1>1, <3>1
    <2>4. i < j
      <3>1. m + 1 < m + l \/ m + 1 = m + l
        BY <2>2
      <3>2. o[m + 1] < o[m + l] \/ o[m + 1] = o[m + l]
        BY <1>1, <2>2, <3>1
      <3>3. o[m + 1] \in Int /\ o[m + l] \in Int
        BY <1>4, <2>2
      <3>4. QED
        BY <3>2, <3>3
    <2>5. FindCompact(t, q) = <<i, j>>
      BY <1>3, <1>5, <2>1
    <2>6. \A k \in 1 .. n : k <= m <=> o[k] < i
      <3>1. ASSUME NEW k \in 1 .. n PROVE k <= m <=> o[k] < o[m + 1]
        <4>1. k < m + 1 <=> o[k] < o[m + 1]
          BY <1>1, <2>2
        <4>2. QED
          BY <4>1
      <3>2. QED
        BY <3>1
    <2>7. \A k \in 1 .. n : k <= m + l <=> o[k] < j
      <3>1. ASSUME NEW k \in 1 .. n PROVE k <= m + l <=> o[k] < o[m + l] + 1
        <4>1. m + l < k <=> o[m + l] < o[k]
          BY <1>1, <2>2
        <4>2. o[k] \in Int /\ o[m + l] \in Int /\ m + l \in Int
          BY <1>4, <2>2
        <4>3. QED
          BY <4>1, <4>2
      <3>2. QED
        BY <3>1
    <2> HIDE DEF i, j
    <2>8. Compact(Slice(t, <<i, j>>)) = SubSeq(Compact(t), m + 1, m + l)
      <3>1. i <= j
        BY <2>3, <2>4
      <3>2. Splits(t, i, m) /\ Splits(t, j, m + l)
        BY <2>6, <2>7 DEF n, o, Splits
      <3>3. m \in 0 .. Len(Compact(t)) /\ m + l \in 0 .. Len(Compact(t))
        BY <2>2 DEF n
      <3>4. QED
        BY <2>3, <3>1, <3>2, <3>3, CompactOfSlice
    <2>9. Slice(Compact(t), <<m, m + l>>) = SubSeq(Compact(t), m + 1, m + l)
      BY DEF Slice
    <2>10. <<i, j>> # Null
      <3>1. <<i, j>> \in Int \X Int
        BY <2>3
      <3>2. QED
        BY <3>1, NullAssumption
    <2>11. QED
      BY <2>1, <2>3, <2>4, <2>5, <2>8, <2>9, <2>10
  <1>6. ASSUME Compact(q) \in Readings(t) PROVE at # Null
    <2>1. PICK i \in 0 .. Len(t), j \in 0 .. Len(t) :
            Compact(q) = Compact(Slice(t, <<i, j>>))
      BY <1>6 DEF Readings
    <2>2. i <= j
      <3>1. SUFFICES ASSUME j < i PROVE FALSE
        OBVIOUS
      <3>2. Slice(t, <<i, j>>) = <<>>
        <4>1. Slice(t, <<i, j>>) = SubSeq(t, i + 1, j) /\ i + 1 \in Int /\ j \in Int /\ j < i + 1
          BY <3>1 DEF Slice
        <4>2. QED
          BY <4>1, SubSeqEmpty
      <3>3. Compact(<<>>) = <<>>
        <4>1. <<>> \in Seq(STRING) /\ Len(<<>>) = 0
          OBVIOUS
        <4>2. NonBlanks(<<>>) = {}
          BY DEF NonBlanks, Offsets
        <4>3. Len(Compact(<<>>)) = 0 /\ Compact(<<>>) \in Seq(STRING)
          BY <4>1, <4>2, CompactIs, FS_EmptySet
        <4>4. QED
          BY <4>3
      <3>4. QED
        BY <2>1, <3>2, <3>3
    <2>3. Ascends(o, NonBlanks(t)) /\ NonBlanks(t) \subseteq Int /\ i \in Int /\ j \in Int
      BY OffsetsAscend DEF o
    <2>4. PICK r \in 0 .. n : \A k \in 1 .. n : k <= r <=> o[k] < i
      BY <1>1, <2>3, BoundSplits
    <2>5. PICK s \in 0 .. n : \A k \in 1 .. n : k <= s <=> o[k] < j
      BY <1>1, <2>3, BoundSplits
    <2>6. r <= s /\ Compact(q) = SubSeq(Compact(t), r + 1, s)
      <3>1. Splits(t, i, r) /\ Splits(t, j, s)
        BY <2>4, <2>5 DEF n, o, Splits
      <3>2. QED
        BY <2>1, <2>2, <3>1, CompactOfSlice DEF n
    <2>7. l = s - r
      <3>1. \A k \in r + 1 .. s : Compact(t)[k] \in STRING
        BY <1>2 DEF n
      <3>2. r + 1 \in Int /\ s \in Int
        OBVIOUS
      <3>3. Len(SubSeq(Compact(t), r + 1, s)) = IF r + 1 <= s THEN s - (r + 1) + 1 ELSE 0
        BY <3>1, <3>2, SubSeqProperties
      <3>4. l = IF r + 1 <= s THEN s - (r + 1) + 1 ELSE 0
        BY <2>6, <3>3 DEF l
      <3>5. QED
        BY <2>6, <3>2, <3>4
    <2>8. r + l = s
      BY <2>7
    <2>9. Slice(Compact(t), <<r, r + l>>) = Compact(q) /\ r + l <= n
      BY <1>1, <2>6, <2>8 DEF Slice
    <2>10. 0 \in Int /\ n \in Int
      BY <1>1
    <2>11. QED
      BY <1>2, <2>9, <2>10, FindIs DEF at, l
  <1>7. FindCompact(t, q) # Null => at # Null
    BY <1>3
  <1>8. QED
    BY <1>5, <1>6, <1>7

\* The places of quotes are spans of the text.
SpansOf(t) == {span \in (0 .. Len(t)) \X (0 .. Len(t)) : span[1] < span[2]}

\* What is located reads like the quote, and what the text says is located.
LEMMA LocateQuoteIs ==
  ASSUME NEW t \in Seq(STRING), NEW quote \in Seq(STRING), Compact(quote) # <<>>,
         NEW within,
         within = Null \/ within \in (0 .. Len(t)) \X (0 .. Len(t))
  PROVE  /\ LocateQuote(t, quote, within) # Null =>
              /\ LocateQuote(t, quote, within) \in SpansOf(t)
              /\ Compact(Slice(t, LocateQuote(t, quote, within))) = Compact(quote)
         /\ Compact(quote) \in Readings(t) => LocateQuote(t, quote, within) # Null
         /\ within # Null /\ Find(t, Strip(quote), within) # Null =>
              within[1] <= LocateQuote(t, quote, within)[1]
  <1> DEFINE q == Strip(quote)
             place == LocateQuote(t, quote, within)
             inside == IF within = Null THEN Null ELSE Find(t, q, within)
             anywhere == Find(t, q, <<0, Len(t)>>)
  <1>1. q \in Seq(STRING) /\ q # <<>> /\ Compact(q) = Compact(quote) /\ Len(q) \in Nat /\ Len(q) > 0
    <2>1. q \in Seq(STRING) /\ q # <<>> /\ Compact(q) = Compact(quote)
      BY StripKeeps
    <2> HIDE DEF q
    <2>2. QED
      BY <2>1
  <1>2. place = IF inside # Null THEN inside ELSE IF anywhere # Null THEN anywhere
                ELSE FindCompact(t, q)
    BY <1>1 DEF LocateQuote
  <1>3. Len(t) \in Nat /\ 0 \in Int /\ Len(t) \in Int
    OBVIOUS
  <1> HIDE DEF q, place
  <1>4. ASSUME NEW lo \in 0 .. Len(t), NEW hi \in 0 .. Len(t), Find(t, q, <<lo, hi>>) # Null
        PROVE  /\ Find(t, q, <<lo, hi>>) \in SpansOf(t) /\ lo <= Find(t, q, <<lo, hi>>)[1]
               /\ Compact(Slice(t, Find(t, q, <<lo, hi>>))) = Compact(quote)
    <2>1. lo \in Int /\ hi \in Int
      OBVIOUS
    <2>2. PICK m \in lo .. hi : /\ Find(t, q, <<lo, hi>>) = <<m, m + Len(q)>>
                                /\ m + Len(q) <= hi
                                /\ Slice(t, <<m, m + Len(q)>>) = q
      <3>1. \E m \in lo .. hi :
                /\ Find(t, q, <<lo, hi>>) = <<m, m + Len(q)>> /\ m + Len(q) <= hi
                /\ Slice(t, <<m, m + Len(q)>>) = q
        BY <1>1, <1>4, <2>1, FindIs
      <3>2. QED
        BY <3>1
    <2>3. m \in 0 .. Len(t) /\ m + Len(q) \in 0 .. Len(t) /\ m < m + Len(q) /\ lo <= m
      BY <1>1, <2>2
    <2>4. <<m, m + Len(q)>> \in SpansOf(t)
      BY <2>3 DEF SpansOf
    <2>5. Compact(Slice(t, Find(t, q, <<lo, hi>>))) = Compact(quote)
      BY <1>1, <2>2
    <2>6. Find(t, q, <<lo, hi>>)[1] = m
      BY <2>2
    <2>7. QED
      BY <2>2, <2>3, <2>4, <2>5, <2>6
  <1>5. ASSUME inside # Null
        PROVE  /\ inside \in SpansOf(t) /\ within[1] <= inside[1]
               /\ Compact(Slice(t, inside)) = Compact(quote)
    <2>1. within # Null /\ inside = Find(t, q, within)
      BY <1>5
    <2>2. PICK lo \in 0 .. Len(t), hi \in 0 .. Len(t) : within = <<lo, hi>>
      BY <2>1
    <2>3. within[1] = lo
      BY <2>2
    <2>4. QED
      BY <1>4, <1>5, <2>1, <2>2, <2>3
  <1>6. ASSUME anywhere # Null
        PROVE  anywhere \in SpansOf(t) /\ Compact(Slice(t, anywhere)) = Compact(quote)
    <2>1. 0 \in 0 .. Len(t) /\ Len(t) \in 0 .. Len(t)
      BY <1>3
    <2>2. QED
      BY <1>4, <1>6, <2>1
  <1>7. ASSUME FindCompact(t, q) # Null
        PROVE  /\ FindCompact(t, q) \in SpansOf(t)
               /\ Compact(Slice(t, FindCompact(t, q))) = Compact(quote)
    <2>1. PICK i \in 0 .. Len(t), j \in 0 .. Len(t) :
            /\ i < j /\ FindCompact(t, q) = <<i, j>>
            /\ Compact(Slice(t, <<i, j>>)) = Compact(q)
      BY <1>1, <1>7, FindCompactIs
    <2>2. QED
      BY <1>1, <2>1 DEF SpansOf
  <1>8. Compact(quote) \in Readings(t) => FindCompact(t, q) # Null
    BY <1>1, FindCompactIs
  <1>9. within # Null /\ Find(t, Strip(quote), within) # Null
          => inside # Null
    BY DEF q
  <1> HIDE DEF inside, anywhere
  <1>10. QED
    BY <1>2, <1>5, <1>6, <1>7, <1>8, <1>9 DEF place

\* What a part of the text says is one of its readings.
LEMMA Reading ==
  ASSUME NEW t, NEW i \in 0 .. Len(t), NEW j \in 0 .. Len(t)
  PROVE  Compact(Slice(t, <<i, j>>)) \in Readings(t)
  BY DEF Readings

\* A quote that has only blanks is found nowhere.
LEMMA BlankQuote ==
  ASSUME NEW t, NEW quote \in Seq(STRING), Compact(quote) = <<>>, NEW within
  PROVE  LocateQuote(t, quote, within) = Null
  <1>1. NonBlanks(quote) = {}
    <2>1. Cardinality(NonBlanks(quote)) = 0 /\ IsFiniteSet(NonBlanks(quote))
      BY CompactIs, OffsetsAscend
    <2>2. QED
      BY <2>1, FS_EmptySet
  <1>2. \A i \in 1 .. Len(quote) : quote[i] \in Blanks
    <2>1. ASSUME NEW i \in 1 .. Len(quote) PROVE quote[i] \in Blanks
      <3>1. i - 1 \in Offsets(quote) /\ CharAt(quote, i - 1) = quote[i]
        BY DEF Offsets, CharAt
      <3>2. QED
        BY <1>1, <3>1 DEF NonBlanks
    <2>2. QED
      BY <2>1
  <1>3. Strip(quote) = <<>>
    BY <1>2 DEF Strip
  <1>4. QED
    BY <1>3 DEF LocateQuote

\* What QuoteIsLocated says, for every text, quote and part of the text.
THEOREM QuotesAreLocated ==
  ASSUME NEW t \in Seq(STRING), NEW q \in Seq(STRING), Compact(q) # <<>>,
         NEW within \in (0 .. Len(t)) \X (0 .. Len(t))
  PROVE  /\ LocateQuote(t, q, Null) # Null <=> Compact(q) \in Readings(t)
         /\ QuoteFits(t, q, within)
  <1>1. within # Null
    <2>1. within \in Int \X Int
      OBVIOUS
    <2>2. QED
      BY <2>1, NullAssumption
  <1>2. /\ LocateQuote(t, q, Null) # Null =>
             /\ LocateQuote(t, q, Null) \in SpansOf(t)
             /\ Compact(Slice(t, LocateQuote(t, q, Null))) = Compact(q)
        /\ Compact(q) \in Readings(t) => LocateQuote(t, q, Null) # Null
    BY LocateQuoteIs
  <1>3. Find(t, Strip(q), within) # Null => within[1] <= LocateQuote(t, q, within)[1]
    BY <1>1, LocateQuoteIs
  <1>4. LocateQuote(t, q, Null) # Null => Compact(q) \in Readings(t)
    <2>1. ASSUME LocateQuote(t, q, Null) # Null PROVE Compact(q) \in Readings(t)
      <3>1. PICK i \in 0 .. Len(t), j \in 0 .. Len(t) : LocateQuote(t, q, Null) = <<i, j>>
        BY <1>2, <2>1 DEF SpansOf
      <3>2. Compact(q) = Compact(Slice(t, <<i, j>>))
        BY <1>2, <2>1, <3>1
      <3>3. QED
        BY <3>2, Reading
    <2>2. QED
      BY <2>1
  <1>5. QED
    BY <1>2, <1>3, <1>4 DEF QuoteFits

-----------------------------------------------------------------------------
(* Sentences, units and chunks *)

\* Spans one after the other that leave out nothing but blanks.
AreParts(parts, t) ==
  /\ parts \in Seq(SpansOf(t))
  /\ \A i, j \in 1 .. Len(parts) : i < j => parts[i][2] <= parts[j][1]
  /\ \A x \in NonBlanks(t) : \E k \in 1 .. Len(parts) : parts[k][1] <= x /\ x < parts[k][2]

\* The spans of a text are finitely many, and are pairs of integers.
LEMMA SpansOfText ==
  ASSUME NEW t \in Seq(STRING)
  PROVE  /\ IsFiniteSet(SpansOf(t)) /\ SpansOf(t) \subseteq Int \X Int
         /\ \A a \in SpansOf(t) : a[1] \in Int /\ a[2] \in Int /\ a[1] < a[2]
                                  /\ 0 <= a[1] /\ a[2] <= Len(t) /\ a = <<a[1], a[2]>>
  <1>1. Len(t) \in Nat
    OBVIOUS
  <1>2. IsFiniteSet(0 .. Len(t))
    <2>1. 0 \in Int /\ Len(t) \in Int
      BY <1>1
    <2>2. QED
      BY <2>1, FS_Interval
  <1>3. IsFiniteSet((0 .. Len(t)) \X (0 .. Len(t)))
    BY <1>2, FS_Product
  <1>4. IsFiniteSet(SpansOf(t))
    BY <1>3, FS_Subset DEF SpansOf
  <1>5. SpansOf(t) \subseteq Int \X Int
    BY <1>1 DEF SpansOf
  <1>6. \A a \in SpansOf(t) : a[1] \in Int /\ a[2] \in Int /\ a[1] < a[2]
                             /\ 0 <= a[1] /\ a[2] <= Len(t) /\ a = <<a[1], a[2]>>
    BY <1>1 DEF SpansOf
  <1>7. QED
    BY <1>4, <1>5, <1>6

\* Spans of a text in order, none twice.
LEMMA SortedSpans ==
  ASSUME NEW t \in Seq(STRING), NEW S, S \subseteq SpansOf(t)
  PROVE  /\ Sorted(S) \in Seq(SpansOf(t))
         /\ \A k \in 1 .. Len(Sorted(S)) : Sorted(S)[k] \in S
         /\ \A a \in S : \E k \in 1 .. Len(Sorted(S)) : Sorted(S)[k] = a
         /\ \A i, j \in 1 .. Len(Sorted(S)) : i < j => Before(Sorted(S)[i], Sorted(S)[j])
  <1> DEFINE q == Sorted(S)
             n == Cardinality(S)
  <1>1. IsFiniteSet(S) /\ S \subseteq Int \X Int
    BY SpansOfText, FS_Subset
  <1>2. n \in Nat
    BY <1>1, FS_CardinalityType
  <1>3. Lists(q, S, PairsOf(S, Before))
    BY <1>1, SpansInOrder
  <1> HIDE DEF q
  <1>4. /\ q \in [1 .. n -> S] /\ \A x \in S : \E k \in 1 .. n : q[k] = x
        /\ \A i, j \in 1 .. n : i < j <=> <<q[i], q[j]>> \in PairsOf(S, Before)
    BY <1>3 DEF Lists
  <1> HIDE DEF n
  <1>5. q \in Seq(SpansOf(t)) /\ Len(q) = n
    BY <1>2, <1>4
  <1>6. \A i, j \in 1 .. n : i < j => Before(q[i], q[j])
    BY <1>4 DEF PairsOf
  <1>7. QED
    BY <1>4, <1>5, <1>6 DEF q

\* The sentences of a text are parts of it.
LEMMA SentencesAreParts ==
  ASSUME NEW t \in Seq(STRING)
  PROVE  AreParts(SplitSentences(t), t)
  <1> DEFINE n == Len(t)
             kept == {i \in Offsets(t) : ~IsSeparator(t, i)}
             starts == {i \in kept : i - 1 \notin kept}
             Ends(start) == {e \in start + 1 .. Len(t) : e \notin kept}
             S == {<<start, Min(Ends(start))>> : start \in starts}
             q == Sorted(S)
  <1>1. n \in Nat /\ Offsets(t) = 0 .. n - 1 /\ kept \subseteq 0 .. n - 1
    BY DEF Offsets
  <1>2. SplitSentences(t) = q
    BY DEF SplitSentences
  <1>3. \A x \in NonBlanks(t) : x \in kept
    BY DEF NonBlanks, IsSeparator
  <1> HIDE DEF n, kept, q
  <1>4. ASSUME NEW a \in starts
        PROVE  /\ a \in 0 .. n - 1 /\ Min(Ends(a)) \in a + 1 .. n /\ Min(Ends(a)) \notin kept
               /\ \A x \in a + 1 .. n : x \notin kept => Min(Ends(a)) <= x
    <2>1. a \in 0 .. n - 1 /\ a \in Int
      BY <1>1
    <2>2. n \in Ends(a)
      BY <1>1, <2>1 DEF n
    <2>3. \A x \in Ends(a) : x \in Int /\ 0 <= x
      BY <2>1
    <2>4. Ends(a) = {e \in a + 1 .. n : e \notin kept}
      BY DEF n
    <2> HIDE DEF Ends
    <2>5. 0 \in Int /\ Ends(a) # {}
      BY <2>2
    <2>6. Min(Ends(a)) \in Ends(a) /\ \A x \in Ends(a) : Min(Ends(a)) <= x
      BY <2>3, <2>5, MinOf
    <2>7. QED
      BY <2>1, <2>4, <2>6
  <1>5. S \subseteq SpansOf(t)
    <2>1. ASSUME NEW a \in starts PROVE <<a, Min(Ends(a))>> \in SpansOf(t)
      <3> DEFINE e == Min(Ends(a))
      <3>1. a \in 0 .. n - 1 /\ e \in a + 1 .. n
        BY <1>4
      <3> HIDE DEF e
      <3>2. a \in 0 .. n /\ e \in 0 .. n /\ a < e
        BY <1>1, <3>1
      <3>3. <<a, e>> \in SpansOf(t)
        BY <3>2 DEF SpansOf, n
      <3>4. QED
        BY <3>3 DEF e
    <2>2. QED
      BY <2>1
  <1>6. /\ q \in Seq(SpansOf(t)) /\ \A k \in 1 .. Len(q) : q[k] \in S
        /\ \A a \in S : \E k \in 1 .. Len(q) : q[k] = a
        /\ \A i, j \in 1 .. Len(q) : i < j => Before(q[i], q[j])
    <2> HIDE DEF S
    <2>1. QED
      BY <1>5, SortedSpans DEF q
  <1> HIDE DEF Ends
  <1>7. \A k \in 1 .. Len(q) : \E a \in starts : q[k] = <<a, Min(Ends(a))>>
    BY <1>6
  <1>8. ASSUME NEW i \in 1 .. Len(q), NEW j \in 1 .. Len(q), i < j
        PROVE  q[i][2] <= q[j][1]
    <2>1. PICK a \in starts : q[i] = <<a, Min(Ends(a))>>
      BY <1>7
    <2>2. PICK b \in starts : q[j] = <<b, Min(Ends(b))>>
      BY <1>7
    <2> DEFINE e == Min(Ends(a))
    <2>3. /\ a \in 0 .. n - 1 /\ e \in a + 1 .. n
          /\ \A x \in a + 1 .. n : x \notin kept => e <= x
      BY <1>4
    <2>4. Before(q[i], q[j])
      BY <1>6, <1>8
    <2>5. a \in Int /\ b \in Int /\ e \in Int /\ b \in 0 .. n - 1
      BY <1>1, <1>4, <2>3
    <2>6. a < b
      <3>1. a # b
        <4>1. SUFFICES ASSUME a = b PROVE FALSE
          OBVIOUS
        <4>2. q[i] = q[j] /\ q[i][1] = a /\ q[j][1] = a /\ q[i][2] = e /\ q[j][2] = e
          BY <2>1, <2>2, <4>1
        <4> HIDE DEF e
        <4>3. QED
          BY <2>4, <2>5, <4>2 DEF Before
      <3>2. a <= b
        <4>1. q[i][1] = a /\ q[j][1] = b
          BY <2>1, <2>2
        <4>2. QED
          BY <2>4, <2>5, <4>1 DEF Before
      <3>3. QED
        BY <2>5, <3>1, <3>2
    <2>7. b - 1 \notin kept /\ a \in kept
      OBVIOUS
    <2>8. b - 1 # a /\ b - 1 \in a + 1 .. n
      BY <1>1, <2>5, <2>6, <2>7
    <2> HIDE DEF e
    <2>9. e <= b - 1
      BY <2>3, <2>7, <2>8
    <2>10. e <= b
      BY <2>5, <2>9
    <2>11. QED
      BY <2>1, <2>2, <2>10 DEF e
  <1>9. ASSUME NEW x \in NonBlanks(t)
        PROVE  \E k \in 1 .. Len(q) : q[k][1] <= x /\ x < q[k][2]
    <2> DEFINE run == {a \in 0 .. x : \A y \in a .. x : y \in kept}
    <2>1. x \in kept /\ x \in 0 .. n - 1 /\ x \in Int
      <3>1. x \in kept
        BY <1>3
      <3>2. x \in 0 .. n - 1
        BY <1>1, <3>1
      <3>3. QED
        BY <3>1, <3>2
    <2>2. run # {} /\ \A a \in run : a \in Int /\ 0 <= a
      <3>1. x \in run
        BY <2>1
      <3>2. QED
        BY <3>1
    <2>3. PICK a \in run : \A b \in run : a <= b
      <3> HIDE DEF run
      <3>1. 0 \in Int
        OBVIOUS
      <3>2. QED
        BY <2>2, <3>1, LeastExists
    <2>4. a \in starts
      <3>1. a \in kept
        BY <2>1
      <3>2. SUFFICES ASSUME a - 1 \in kept PROVE FALSE
        BY <3>1
      <3>3. a - 1 \in 0 .. x
        BY <1>1, <2>1, <3>2
      <3>4. \A y \in a - 1 .. x : y = a - 1 \/ y \in a .. x
        BY <2>1
      <3>5. a - 1 \in run
        BY <3>2, <3>3, <3>4
      <3>6. QED
        BY <2>3, <3>5
    <2> DEFINE e == Min(Ends(a))
    <2>5. e \in a + 1 .. n /\ e \notin kept
      BY <1>4, <2>4
    <2>6. a <= x /\ x < e
      <3>1. e \notin a .. x
        BY <2>5
      <3> HIDE DEF e
      <3>2. QED
        BY <2>1, <2>5, <3>1
    <2>7. <<a, e>> \in S
      BY <2>4
    <2>8. PICK k \in 1 .. Len(q) : q[k] = <<a, e>>
      BY <1>6, <2>7
    <2>9. q[k][1] = a /\ q[k][2] = e
      BY <2>8
    <2>10. QED
      BY <2>6, <2>9
  <1>10. AreParts(q, t)
    BY <1>6, <1>8, <1>9 DEF AreParts
  <1>11. QED
    BY <1>2, <1>10

\* Sentences are joined into spans that are parts of the text too.
JoinStep(acc, s, minChars) ==
  LET from == IF acc.from = Null THEN s[1] ELSE acc.from
  IN IF s[2] - from >= minChars
     THEN [units |-> Append(acc.units, <<from, s[2]>>), from |-> Null]
     ELSE [acc EXCEPT !.from = from]

Joined(t) == [units : Seq(SpansOf(t)), from : (0 .. Len(t)) \cup {Null}]

\* What is known of the first k sentences when they have been gone through.
JoinedUpTo(acc, ss, k, t) ==
  /\ acc \in Joined(t)
  /\ \A i, j \in 1 .. Len(acc.units) : i < j => acc.units[i][2] <= acc.units[j][1]
  /\ k = 0 => acc.units = <<>> /\ acc.from = Null
  /\ k > 0 =>
       /\ \A i \in 1 .. Len(acc.units) : acc.units[i][2] <= ss[k][2]
       /\ acc.from # Null =>
            /\ acc.from <= ss[k][1]
            /\ \A i \in 1 .. Len(acc.units) : acc.units[i][2] <= acc.from
  /\ \A m \in 1 .. k :
       \/ \E i \in 1 .. Len(acc.units) : acc.units[i][1] <= ss[m][1] /\ ss[m][2] <= acc.units[i][2]
       \/ acc.from # Null /\ acc.from <= ss[m][1]

\* A sentence joined to the units before it leaves parts.
LEMMA JoinStepIs ==
  ASSUME NEW t \in Seq(STRING), NEW ss, AreParts(ss, t), NEW minChars \in Int,
         NEW k \in 1 .. Len(ss), NEW acc, JoinedUpTo(acc, ss, k - 1, t)
  PROVE  JoinedUpTo(JoinStep(acc, ss[k], minChars), ss, k, t)
  <1> DEFINE s == ss[k]
             from == IF acc.from = Null THEN s[1] ELSE acc.from
             n == Len(acc.units)
             new == JoinStep(acc, s, minChars)
  <1>1. /\ ss \in Seq(SpansOf(t)) /\ \A i \in 1 .. Len(ss) : ss[i] \in SpansOf(t)
        /\ \A i, j \in 1 .. Len(ss) : i < j => ss[i][2] <= ss[j][1]
    BY DEF AreParts
  <1>2. /\ \A i \in 1 .. Len(ss) : ss[i][1] \in Int /\ ss[i][2] \in Int /\ ss[i][1] < ss[i][2]
        /\ s[1] \in 0 .. Len(t) /\ s[2] \in 0 .. Len(t)
    BY <1>1, SpansOfText DEF SpansOf
  <1>3. /\ acc.units \in Seq(SpansOf(t)) /\ acc.from \in (0 .. Len(t)) \cup {Null}
        /\ n \in Nat /\ acc = [units |-> acc.units, from |-> acc.from]
    BY DEF JoinedUpTo, Joined
  <1>4. \A i \in 1 .. n : /\ acc.units[i] \in SpansOf(t) /\ acc.units[i][1] \in Int
                          /\ acc.units[i][2] \in Int /\ acc.units[i][1] < acc.units[i][2]
    BY <1>3, SpansOfText
  <1>5. s[1] # Null /\ s[1] \in Int /\ s[2] \in Int /\ s[1] < s[2]
    BY <1>2, NullAssumption
  <1>6. k \in Int /\ Len(ss) \in Nat /\ 1 <= k /\ k <= Len(ss)
    BY <1>1
  <1> HIDE DEF s, n
  \* The start of what is joined, and where it lies.
  <1>7. /\ from \in 0 .. Len(t) /\ from \in Int /\ from # Null /\ from <= s[1]
        /\ \A i \in 1 .. n : acc.units[i][2] <= from
        /\ acc.from # Null => from = acc.from
    <2>1. CASE acc.from = Null
      <3>1. from = s[1]
        BY <2>1
      <3>2. ASSUME NEW i \in 1 .. n PROVE acc.units[i][2] <= s[1]
        <4>1. CASE k = 1
          BY <4>1, <1>3 DEF JoinedUpTo, n
        <4>2. CASE k # 1
          <5>1. k - 1 > 0 /\ k - 1 \in 1 .. Len(ss) /\ k - 1 < k
            BY <1>6, <4>2
          <5>2. acc.units[i][2] <= ss[k - 1][2]
            BY <5>1 DEF JoinedUpTo, n
          <5>3. ss[k - 1][2] <= s[1] /\ ss[k - 1][2] \in Int
            BY <1>1, <1>2, <5>1 DEF s
          <5>4. QED
            BY <1>4, <1>5, <5>2, <5>3
        <4>3. QED
          BY <4>1, <4>2
      <3>3. s[1] \in 0 .. Len(t)
        BY <1>2 DEF s
      <3> HIDE DEF from
      <3>4. QED
        BY <1>5, <2>1, <3>1, <3>2, <3>3
    <2>2. CASE acc.from # Null
      <3>1. from = acc.from /\ from \in 0 .. Len(t)
        BY <1>3, <2>2
      <3>2. k # 1
        BY <2>2 DEF JoinedUpTo
      <3>3. k - 1 > 0 /\ k - 1 \in 1 .. Len(ss) /\ k - 1 < k
        BY <1>6, <3>2
      <3>4. acc.from <= ss[k - 1][1] /\ \A i \in 1 .. n : acc.units[i][2] <= acc.from
        BY <2>2, <3>3 DEF JoinedUpTo, n
      <3>5. /\ ss[k - 1][1] < ss[k - 1][2] /\ ss[k - 1][2] <= s[1]
            /\ ss[k - 1][1] \in Int /\ ss[k - 1][2] \in Int
        BY <1>1, <1>2, <3>3 DEF s
      <3> HIDE DEF from
      <3>6. from \in Int /\ from <= ss[k - 1][1]
        BY <3>1, <3>4
      <3>7. from <= s[1]
        BY <1>5, <3>5, <3>6, Z3T(30)
      <3>8. QED
        BY <2>2, <3>1, <3>4, <3>6, <3>7
    <2>3. QED
      BY <2>1, <2>2
  <1>8. \A m \in 1 .. k - 1 :
          \/ \E i \in 1 .. n : acc.units[i][1] <= ss[m][1] /\ ss[m][2] <= acc.units[i][2]
          \/ from <= ss[m][1]
    <2>1. \A m \in 1 .. k - 1 :
            \/ \E i \in 1 .. n : acc.units[i][1] <= ss[m][1] /\ ss[m][2] <= acc.units[i][2]
            \/ acc.from # Null /\ acc.from <= ss[m][1]
      BY DEF JoinedUpTo, n
    <2>2. QED
      BY <1>7, <2>1
  <1> HIDE DEF from
  <1>9. new = IF s[2] - from >= minChars
              THEN [units |-> Append(acc.units, <<from, s[2]>>), from |-> Null]
              ELSE [acc EXCEPT !.from = from]
    BY DEF JoinStep, from
  <1>10. \A i, j \in 1 .. n : i < j => acc.units[i][2] <= acc.units[j][1]
    BY DEF JoinedUpTo, n
  <1> HIDE DEF new
  <1>11. CASE s[2] - from >= minChars
    <2> DEFINE u == <<from, s[2]>>
               U == Append(acc.units, u)
    <2>1. new = [units |-> U, from |-> Null]
      BY <1>9, <1>11
    <2>2. u \in SpansOf(t) /\ u[1] = from /\ u[2] = s[2]
      <3>1. from < s[2]
        BY <1>5, <1>7
      <3>2. s[2] \in 0 .. Len(t)
        BY <1>2 DEF s
      <3>3. QED
        BY <1>7, <3>1, <3>2 DEF SpansOf
    <2> HIDE DEF u
    <2>3. /\ U \in Seq(SpansOf(t)) /\ Len(U) = n + 1 /\ U[n + 1] = u
          /\ \A i \in 1 .. n : U[i] = acc.units[i]
      BY <1>3, <2>2 DEF n
    <2> HIDE DEF U
    <2>4. new \in Joined(t) /\ new.units = U /\ new.from = Null
      BY <2>1, <2>3 DEF Joined
    <2>5. \A i \in 1 .. n + 1 : i \in 1 .. n \/ i = n + 1
      BY <1>3
    <2>6. \A i, j \in 1 .. n + 1 : i < j => U[i][2] <= U[j][1]
      <3>1. ASSUME NEW i \in 1 .. n + 1, NEW j \in 1 .. n + 1, i < j
            PROVE  U[i][2] <= U[j][1]
        <4>1. i \in 1 .. n /\ U[i] = acc.units[i]
          BY <1>3, <2>3, <3>1
        <4>2. CASE j \in 1 .. n
          BY <1>10, <2>3, <3>1, <4>1, <4>2
        <4>3. CASE j = n + 1
          BY <1>7, <2>2, <2>3, <4>1, <4>3
        <4>4. QED
          BY <2>5, <4>2, <4>3
      <3>2. QED
        BY <3>1
    <2>7. \A i \in 1 .. n + 1 : U[i][2] <= s[2]
      <3>1. ASSUME NEW i \in 1 .. n PROVE acc.units[i][2] <= s[2]
        BY <1>4, <1>5, <1>7
      <3>2. QED
        BY <1>5, <2>2, <2>3, <2>5, <3>1
    <2>8. ASSUME NEW m \in 1 .. k
          PROVE  \E i \in 1 .. n + 1 : U[i][1] <= ss[m][1] /\ ss[m][2] <= U[i][2]
      <3>1. n + 1 \in 1 .. n + 1 /\ \A i \in 1 .. n : i \in 1 .. n + 1
        BY <1>3
      <3>2. m \in 1 .. Len(ss)
        BY <1>6
      <3>3. ss[m][2] <= s[2]
        <4>1. CASE m = k
          BY <1>5, <4>1 DEF s
        <4>2. CASE m # k
          <5>1. ss[m][2] <= s[1] /\ ss[m][2] \in Int
            BY <1>1, <1>2, <3>2, <4>2 DEF s
          <5>2. QED
            BY <1>5, <5>1
        <4>3. QED
          BY <4>1, <4>2
      <3>4. CASE from <= ss[m][1]
        BY <2>2, <2>3, <3>1, <3>3, <3>4
      <3>5. CASE ~(from <= ss[m][1])
        <4>1. m # k
          BY <1>7, <3>5 DEF s
        <4>2. m \in 1 .. k - 1
          BY <1>6, <4>1
        <4>3. PICK i \in 1 .. n : acc.units[i][1] <= ss[m][1] /\ ss[m][2] <= acc.units[i][2]
          BY <1>8, <3>5, <4>2
        <4>4. QED
          BY <2>3, <3>1, <4>3
      <3>6. QED
        BY <3>4, <3>5
    <2>9. k # 0 /\ s = ss[k]
      BY <1>6 DEF s
    <2>10. JoinedUpTo(new, ss, k, t)
      BY <2>3, <2>4, <2>6, <2>7, <2>8, <2>9 DEF JoinedUpTo
    <2>11. QED
      BY <2>10 DEF new, s
  <1>12. CASE ~(s[2] - from >= minChars)
    <2>1. new = [acc EXCEPT !.from = from]
      BY <1>9, <1>12
    <2>2. new \in Joined(t) /\ new.units = acc.units /\ new.from = from
      BY <1>3, <1>7, <2>1 DEF Joined
    <2>3. k # 0 /\ s = ss[k]
      BY <1>6 DEF s
    <2>4. \A i \in 1 .. n : acc.units[i][2] <= s[2]
      BY <1>4, <1>5, <1>7
    <2>5. ASSUME NEW m \in 1 .. k
          PROVE  \/ \E i \in 1 .. n : acc.units[i][1] <= ss[m][1] /\ ss[m][2] <= acc.units[i][2]
                 \/ from <= ss[m][1]
      <3>1. m = k \/ m \in 1 .. k - 1
        BY <1>6
      <3>2. QED
        BY <1>7, <1>8, <3>1 DEF s
    <2>6. JoinedUpTo(new, ss, k, t)
      BY <1>7, <1>10, <2>2, <2>3, <2>4, <2>5 DEF JoinedUpTo, n
    <2>7. QED
      BY <2>6 DEF new, s
  <1>13. QED
    BY <1>11, <1>12

\* The loop that merges short sentences, unfolded.
LEMMA JoinUnfolds ==
  ASSUME NEW t \in Seq(STRING), NEW ss, AreParts(ss, t), NEW minChars \in Int
  PROVE  \E acc :
           /\ JoinedUpTo(acc, ss, Len(ss), t)
           /\ MergeShortSentences(ss, minChars) =
                IF minChars = 0 THEN ss
                ELSE IF acc.from = Null THEN acc.units
                ELSE IF acc.units = <<>> THEN << <<acc.from, ss[Len(ss)][2]>> >>
                ELSE Append(Front(acc.units), <<Last(acc.units)[1], ss[Len(ss)][2]>>)
  <1> DEFINE n == Len(ss)
             A == {acc \in Joined(t) : \E k \in 0 .. n : JoinedUpTo(acc, ss, k, t)}
             first == [units |-> <<>>, from |-> Null]
             Body(f, k) == IF k = 0 THEN first ELSE JoinStep(f[k - 1], ss[k], minChars)
             joined[k \in 0 .. Len(ss)] ==
               IF k = 0 THEN [units |-> <<>>, from |-> Null]
               ELSE LET acc == joined[k - 1]  s == ss[k]
                        from == IF acc.from = Null THEN s[1] ELSE acc.from
                    IN IF s[2] - from >= minChars
                       THEN [units |-> Append(acc.units, <<from, s[2]>>), from |-> Null]
                       ELSE [acc EXCEPT !.from = from]
  <1>1. n \in Nat /\ \A k \in 1 .. n : ss[k] \in SpansOf(t)
    BY DEF AreParts
  <1>2. joined = CHOOSE f : f = [k \in 0 .. n |-> Body(f, k)]
    BY DEF JoinStep
  <1>3. MergeShortSentences(ss, minChars) =
          IF minChars = 0 THEN ss
          ELSE IF joined[n].from = Null THEN joined[n].units
          ELSE IF joined[n].units = <<>> THEN << <<joined[n].from, ss[n][2]>> >>
          ELSE Append(Front(joined[n].units), <<Last(joined[n].units)[1], ss[n][2]>>)
    BY DEF MergeShortSentences
  <1> HIDE DEF joined
  <1>4. first \in Joined(t) /\ JoinedUpTo(first, ss, 0, t)
    <2>1. first \in Joined(t) /\ first.units = <<>> /\ first.from = Null
      BY DEF Joined
    <2> HIDE DEF first
    <2>2. QED
      BY <2>1 DEF JoinedUpTo
  \* Some function goes through the sentences.
  <1> DEFINE G == [p \in Joined(t) \X (1 .. n) |->
                     IF JoinedUpTo(p[1], ss, p[2] - 1, t)
                     THEN JoinStep(p[1], ss[p[2]], minChars) ELSE first]
  <1>5. G \in [Joined(t) \X (0 + 1 .. n) -> Joined(t)]
    <2>1. ASSUME NEW acc \in Joined(t), NEW k \in 1 .. n, JoinedUpTo(acc, ss, k - 1, t)
          PROVE  JoinStep(acc, ss[k], minChars) \in Joined(t)
      <3>1. JoinedUpTo(JoinStep(acc, ss[k], minChars), ss, k, t)
        BY <2>1, JoinStepIs
      <3>2. QED
        BY <3>1 DEF JoinedUpTo
    <2>2. 0 + 1 .. n = 1 .. n
      OBVIOUS
    <2> HIDE DEF first, n
    <2>3. QED
      BY <1>4, <2>1, <2>2
  <1>6. PICK g : Repeats(g, 0, n, Joined(t), first, G)
    <2>1. 0 \in Int /\ n \in Int /\ 0 <= n
      BY <1>1
    <2> HIDE DEF G, n, first
    <2>2. QED
      BY <1>4, <1>5, <2>1, RepeatsExists
  <1>7. /\ g \in [0 .. n -> Joined(t)] /\ g[0] = first
        /\ \A k \in 1 .. n : g[k] = IF JoinedUpTo(g[k - 1], ss, k - 1, t)
                                    THEN JoinStep(g[k - 1], ss[k], minChars) ELSE first
    <2>1. /\ g \in [0 .. n -> Joined(t)] /\ g[0] = first
          /\ \A k \in 1 .. n : g[k] = G[<<g[k - 1], k>>]
      <3> HIDE DEF G, n, first
      <3>1. 0 + 1 .. n = 1 .. n
        OBVIOUS
      <3>2. QED
        BY <1>6, <3>1 DEF Repeats
    <2>2. \A k \in 1 .. n : k - 1 \in 0 .. n /\ g[k - 1] \in Joined(t)
      BY <1>1, <2>1
    <2> HIDE DEF first, n
    <2>3. \A k \in 1 .. n : G[<<g[k - 1], k>>] =
            IF JoinedUpTo(g[k - 1], ss, k - 1, t)
            THEN JoinStep(g[k - 1], ss[k], minChars) ELSE first
      BY <2>2
    <2> HIDE DEF G
    <2>4. QED
      BY <2>1, <2>3
  <1> HIDE DEF G, first
  <1>8. \A k \in 0 .. n : JoinedUpTo(g[k], ss, k, t)
    <2> DEFINE P == {k \in 0 .. n : JoinedUpTo(g[k], ss, k, t)}
    <2>1. 0 \in P
      BY <1>1, <1>4, <1>7
    <2>2. ASSUME NEW k \in 0 + 1 .. n, k - 1 \in P PROVE k \in P
      <3>1. k \in 1 .. n /\ JoinedUpTo(g[k - 1], ss, k - 1, t)
        BY <2>2
      <3>2. g[k] = JoinStep(g[k - 1], ss[k], minChars)
        BY <1>7, <3>1
      <3>3. JoinedUpTo(g[k], ss, k, t)
        BY <3>1, <3>2, JoinStepIs
      <3>4. QED
        BY <3>1, <3>3
    <2> HIDE DEF P, n
    <2>3. 0 \in Int /\ n \in Int
      BY <1>1
    <2>4. 0 .. n \subseteq P
      BY <2>1, <2>2, <2>3, Induct
    <2>5. QED
      BY <2>4 DEF P
  <1>9. g = [k \in 0 .. n |-> Body(g, k)]
    <2>1. \A k \in 0 .. n : g[k] = Body(g, k)
      <3>1. ASSUME NEW k \in 1 .. n PROVE g[k] = JoinStep(g[k - 1], ss[k], minChars)
        <4>1. k - 1 \in 0 .. n
          BY <1>1
        <4>2. QED
          BY <1>7, <1>8, <4>1
      <3>2. \A k \in 0 .. n : k = 0 \/ k \in 1 .. n
        BY <1>1
      <3>3. QED
        BY <1>7, <3>1, <3>2
    <2> HIDE DEF Body
    <2>2. QED
      BY <1>7, <2>1
  <1>10. joined = [k \in 0 .. n |-> Body(joined, k)]
    <2> HIDE DEF Body
    <2>1. QED
      BY <1>2, <1>9
  <1> HIDE DEF Body
  <1>11. \A k \in 0 .. n : joined[k] = Body(joined, k)
    BY <1>10
  <1>12. joined[0] = first /\ \A k \in 1 .. n : joined[k] = JoinStep(joined[k - 1], ss[k], minChars)
    BY <1>1, <1>11 DEF Body
  <1>13. \A k \in 0 .. n : JoinedUpTo(joined[k], ss, k, t)
    <2> DEFINE P == {k \in 0 .. n : JoinedUpTo(joined[k], ss, k, t)}
    <2>1. 0 \in P
      BY <1>1, <1>4, <1>12
    <2>2. ASSUME NEW k \in 0 + 1 .. n, k - 1 \in P PROVE k \in P
      <3>1. k \in 1 .. n /\ JoinedUpTo(joined[k - 1], ss, k - 1, t)
        BY <2>2
      <3>2. JoinedUpTo(joined[k], ss, k, t)
        BY <1>12, <3>1, JoinStepIs
      <3>3. QED
        BY <3>1, <3>2
    <2> HIDE DEF P, n
    <2>3. 0 \in Int /\ n \in Int
      BY <1>1
    <2>4. 0 .. n \subseteq P
      BY <2>1, <2>2, <2>3, Induct
    <2>5. QED
      BY <2>4 DEF P
  <1>14. n \in 0 .. n
    BY <1>1
  <1>15. QED
    BY <1>3, <1>13, <1>14

\* Joining leaves out nothing, whatever the length that is asked for.
LEMMA MergedAreParts ==
  ASSUME NEW t \in Seq(STRING), NEW ss, AreParts(ss, t), NEW minChars \in Int
  PROVE  AreParts(MergeShortSentences(ss, minChars), t)
  <1> DEFINE n == Len(ss)
             q == MergeShortSentences(ss, minChars)
  <1>1. PICK acc :
           /\ JoinedUpTo(acc, ss, n, t)
           /\ q = IF minChars = 0 THEN ss
                  ELSE IF acc.from = Null THEN acc.units
                  ELSE IF acc.units = <<>> THEN << <<acc.from, ss[n][2]>> >>
                  ELSE Append(Front(acc.units), <<Last(acc.units)[1], ss[n][2]>>)
    BY JoinUnfolds
  <1> DEFINE U == acc.units
             l == Len(U)
  <1>2. /\ ss \in Seq(SpansOf(t)) /\ n \in Nat /\ \A i \in 1 .. n : ss[i] \in SpansOf(t)
        /\ \A i, j \in 1 .. n : i < j => ss[i][2] <= ss[j][1]
        /\ \A x \in NonBlanks(t) : \E k \in 1 .. n : ss[k][1] <= x /\ x < ss[k][2]
    BY DEF AreParts
  <1>3. \A i \in 1 .. n : /\ ss[i][1] \in Int /\ ss[i][2] \in Int /\ ss[i][1] < ss[i][2]
                          /\ ss[i][2] \in 0 .. Len(t)
    <2>1. Len(t) \in Nat
      OBVIOUS
    <2>2. QED
      BY <1>2, <2>1, SpansOfText DEF SpansOf
  <1>4. /\ U \in Seq(SpansOf(t)) /\ l \in Nat /\ \A i \in 1 .. l : U[i] \in SpansOf(t)
        /\ acc.from \in (0 .. Len(t)) \cup {Null}
        /\ \A i, j \in 1 .. l : i < j => U[i][2] <= U[j][1]
        /\ n = 0 => U = <<>> /\ acc.from = Null
        /\ n > 0 =>
             /\ \A i \in 1 .. l : U[i][2] <= ss[n][2]
             /\ acc.from # Null =>
                  acc.from <= ss[n][1] /\ \A i \in 1 .. l : U[i][2] <= acc.from
        /\ \A m \in 1 .. n :
             \/ \E i \in 1 .. l : U[i][1] <= ss[m][1] /\ ss[m][2] <= U[i][2]
             \/ acc.from # Null /\ acc.from <= ss[m][1]
    BY <1>1 DEF JoinedUpTo, Joined
  <1>5. \A x \in NonBlanks(t) : x \in Int
    BY OffsetsAscend
  <1> HIDE DEF n, q, U, l
  <1>6. \A i \in 1 .. l : U[i][1] \in Int /\ U[i][2] \in Int /\ U[i][1] < U[i][2]
                          /\ U[i][1] \in 0 .. Len(t)
    <2>1. Len(t) \in Nat
      OBVIOUS
    <2>2. QED
      BY <1>4, <2>1, SpansOfText DEF SpansOf
  \* What covers the sentences covers the text.
  <1>7. ASSUME NEW r \in Seq(SpansOf(t)),
               \A m \in 1 .. n : \E i \in 1 .. Len(r) : r[i][1] <= ss[m][1] /\ ss[m][2] <= r[i][2]
        PROVE  \A x \in NonBlanks(t) : \E i \in 1 .. Len(r) : r[i][1] <= x /\ x < r[i][2]
    <2>1. ASSUME NEW x \in NonBlanks(t)
          PROVE  \E i \in 1 .. Len(r) : r[i][1] <= x /\ x < r[i][2]
      <3>1. PICK m \in 1 .. n : ss[m][1] <= x /\ x < ss[m][2]
        BY <1>2
      <3>2. PICK i \in 1 .. Len(r) : r[i][1] <= ss[m][1] /\ ss[m][2] <= r[i][2]
        BY <1>7
      <3>3. /\ ss[m][1] \in Int /\ ss[m][2] \in Int /\ x \in Int
            /\ r[i][1] \in Int /\ r[i][2] \in Int
        <4>1. r[i] \in SpansOf(t)
          OBVIOUS
        <4>2. QED
          BY <1>3, <1>5, <4>1, SpansOfText
      <3>4. r[i][1] <= x /\ x < r[i][2]
        BY <3>1, <3>2, <3>3, Z3T(30)
      <3>5. QED
        BY <3>4
    <2>2. QED
      BY <2>1
  <1>8. CASE minChars = 0
    BY <1>1, <1>8 DEF U, q
  <1>9. CASE minChars # 0 /\ acc.from = Null
    <2>1. q = U
      BY <1>1, <1>9 DEF U, q
    <2>2. \A m \in 1 .. n : \E i \in 1 .. l : U[i][1] <= ss[m][1] /\ ss[m][2] <= U[i][2]
      BY <1>4, <1>9
    <2>3. QED
      <3>1. Len(U) = l
        BY DEF l
      <3>2. \A x \in NonBlanks(t) : \E i \in 1 .. l : U[i][1] <= x /\ x < U[i][2]
        BY <1>4, <1>7, <2>2, <3>1
      <3>3. AreParts(U, t)
        BY <1>4, <3>1, <3>2 DEF AreParts
      <3>4. QED
        BY <2>1, <3>3 DEF q
  <1> DEFINE from == acc.from
             e == ss[n][2]
  <1>10. ASSUME acc.from # Null
         PROVE  /\ n \in 1 .. n /\ e \in 0 .. Len(t) /\ from \in 0 .. Len(t) /\ e \in Int /\ from \in Int
                /\ from < e /\ from <= ss[n][1]
                /\ \A m \in 1 .. n : ss[m][2] <= e
                /\ \A i \in 1 .. l : U[i][2] <= from
    <2>1. n > 0 /\ n \in 1 .. n
      BY <1>2, <1>4, <1>10
    <2>2. from \in 0 .. Len(t) /\ from <= ss[n][1] /\ \A i \in 1 .. l : U[i][2] <= from
      BY <1>4, <1>10, <2>1
    <2>3. e \in 0 .. Len(t) /\ e \in Int /\ ss[n][1] \in Int /\ ss[n][1] < e
      BY <1>3, <2>1
    <2>4. ASSUME NEW m \in 1 .. n PROVE ss[m][2] <= e
      <3>1. CASE m = n
        BY <2>3, <3>1
      <3>2. CASE m # n
        <4>1. ss[m][2] <= ss[n][1] /\ ss[m][2] \in Int
          BY <1>2, <1>3, <2>1, <3>2
        <4>2. QED
          BY <2>3, <4>1
      <3>3. QED
        BY <3>1, <3>2
    <2>5. from \in Int
      BY <2>2
    <2> HIDE DEF from, e
    <2>6. from < e
      BY <2>2, <2>3, <2>5, Z3T(30)
    <2>7. QED
      BY <2>1, <2>2, <2>3, <2>4, <2>5, <2>6 DEF from
  <1>11. CASE minChars # 0 /\ acc.from # Null /\ U = <<>>
    <2> DEFINE u == <<from, e>>
    <2>1. q = <<u>>
      BY <1>1, <1>11 DEF U, q
    <2>2. u \in SpansOf(t) /\ u[1] = from /\ u[2] = e
      BY <1>10, <1>11 DEF SpansOf
    <2> HIDE DEF u
    <2>3. q \in Seq(SpansOf(t)) /\ Len(q) = 1 /\ q[1] = u
      BY <2>1, <2>2
    <2>4. \A i, j \in 1 .. Len(q) : i < j => q[i][2] <= q[j][1]
      BY <2>3
    <2>5. l = 0
      BY <1>11 DEF l
    <2>6. \A m \in 1 .. n : \E i \in 1 .. Len(q) : q[i][1] <= ss[m][1] /\ ss[m][2] <= q[i][2]
      BY <1>4, <1>10, <1>11, <2>2, <2>3, <2>5
    <2>7. QED
      BY <1>7, <2>3, <2>4, <2>6 DEF AreParts, q
  <1>12. CASE minChars # 0 /\ acc.from # Null /\ U # <<>>
    <2> DEFINE u == <<U[l][1], e>>
    <2>1. l > 0 /\ l \in 1 .. l
      BY <1>4, <1>12 DEF l
    <2>2. /\ Front(U) \in Seq(SpansOf(t)) /\ Len(Front(U)) = l - 1
          /\ \A i \in 1 .. l - 1 : Front(U)[i] = U[i]
      <3>1. Front(U) = SubSeq(U, 1, l - 1)
        BY DEF Front, l
      <3>2. 1 \in Int /\ l - 1 \in Int
        BY <1>4
      <3>3. \A i \in 1 .. l - 1 : U[i] \in SpansOf(t)
        BY <1>4
      <3>4. /\ SubSeq(U, 1, l - 1) \in Seq(SpansOf(t))
            /\ Len(SubSeq(U, 1, l - 1)) = IF 1 <= l - 1 THEN (l - 1) - 1 + 1 ELSE 0
            /\ \A i \in 1 .. (l - 1) - 1 + 1 : SubSeq(U, 1, l - 1)[i] = U[1 + i - 1]
        BY <3>2, <3>3, SubSeqProperties
      <3>5. QED
        BY <1>4, <2>1, <3>1, <3>4
    <2>3. u \in SpansOf(t) /\ u[1] = U[l][1] /\ u[2] = e
      <3>1. U[l][1] \in 0 .. Len(t) /\ U[l][1] < U[l][2] /\ U[l][2] <= from
            /\ U[l][1] \in Int /\ U[l][2] \in Int
        BY <1>6, <1>10, <1>12, <2>1
      <3>2. e \in 0 .. Len(t) /\ e \in Int /\ from \in Int /\ from < e
        BY <1>10, <1>12
      <3> HIDE DEF e, from
      <3>3. U[l][1] < e
        BY <3>1, <3>2, Z3T(30)
      <3>4. QED
        BY <3>1, <3>2, <3>3 DEF SpansOf
    <2>4. q = Append(Front(U), u)
      BY <1>1, <1>12 DEF U, q, Last, l
    <2> HIDE DEF u
    <2>5. /\ q \in Seq(SpansOf(t)) /\ Len(q) = l /\ q[l] = u
          /\ \A i \in 1 .. l - 1 : q[i] = U[i]
      BY <1>4, <2>1, <2>2, <2>3, <2>4
    <2>6. \A i \in 1 .. l : q[i][1] = U[i][1]
      BY <1>4, <2>3, <2>5
    <2>7. \A i, j \in 1 .. l : i < j => q[i][2] <= q[j][1]
      <3>1. ASSUME NEW i \in 1 .. l, NEW j \in 1 .. l, i < j PROVE q[i][2] <= q[j][1]
        <4>1. i \in 1 .. l - 1
          BY <1>4, <3>1
        <4>2. q[i] = U[i] /\ q[j][1] = U[j][1]
          BY <2>5, <2>6, <4>1
        <4>3. QED
          BY <1>4, <3>1, <4>2
      <3>2. QED
        BY <3>1
    <2>8. ASSUME NEW m \in 1 .. n
          PROVE  \E i \in 1 .. l : q[i][1] <= ss[m][1] /\ ss[m][2] <= q[i][2]
      <3>1. CASE \E i \in 1 .. l - 1 : U[i][1] <= ss[m][1] /\ ss[m][2] <= U[i][2]
        <4>1. PICK i \in 1 .. l - 1 : U[i][1] <= ss[m][1] /\ ss[m][2] <= U[i][2]
          BY <3>1
        <4>2. i \in 1 .. l /\ q[i] = U[i]
          BY <1>4, <2>5
        <4>3. QED
          BY <4>1, <4>2
      <3>2. CASE U[l][1] <= ss[m][1]
        <4>1. ss[m][2] <= e
          BY <1>10, <1>12
        <4>2. QED
          BY <2>1, <2>3, <2>5, <3>2, <4>1
      <3>3. CASE from <= ss[m][1]
        <4>1. /\ U[l][1] < U[l][2] /\ U[l][2] <= from /\ U[l][1] \in Int /\ U[l][2] \in Int
              /\ from \in Int /\ ss[m][1] \in Int
          BY <1>3, <1>6, <1>10, <1>12, <2>1
        <4> HIDE DEF from
        <4>2. U[l][1] <= ss[m][1]
          BY <3>3, <4>1, Z3T(30)
        <4>3. QED
          BY <3>2, <4>2
      <3>4. QED
        <4>1. \A i \in 1 .. l : i = l \/ i \in 1 .. l - 1
          BY <1>4
        <4>2. QED
          BY <1>4, <3>1, <3>2, <3>3, <4>1
    <2>9. QED
      BY <1>7, <2>5, <2>7, <2>8 DEF AreParts, q
  <1>13. QED
    BY <1>8, <1>9, <1>11, <1>12

\* Multiples of a step are at least the step apart.
LEMMA Multiples ==
  ASSUME NEW d \in Nat, d > 0
  PROVE  /\ \A i, j \in Nat : i % d = 0 /\ j % d = 0 /\ i < j => i + d <= j
         /\ \A i \in Nat : i % d = 0 /\ i # 0 => i - d \in Nat /\ (i - d) % d = 0
         /\ \A x \in Nat : \E i \in Nat : i % d = 0 /\ i <= x /\ x < i + d
         /\ 0 % d = 0
  <1>1. \A i \in Nat : i % d = 0 <=> \E k \in Nat : i = k * d
    <2>1. ASSUME NEW i \in Nat, i % d = 0 PROVE \E k \in Nat : i = k * d
      BY <2>1
    <2>2. ASSUME NEW i \in Nat, NEW k \in Nat, i = k * d PROVE i % d = 0
      BY <2>2
    <2>3. QED
      BY <2>1, <2>2
  <1>2. ASSUME NEW j \in Nat, NEW k \in Nat, j < k PROVE j * d + d <= k * d
    <2>1. (k - j) * d >= d
      BY <1>2
    <2>2. QED
      BY <2>1
  <1>3. ASSUME NEW i \in Nat, NEW j \in Nat, i % d = 0, j % d = 0, i < j PROVE i + d <= j
    <2>1. PICK k \in Nat : i = k * d
      BY <1>1, <1>3
    <2>2. PICK m \in Nat : j = m * d
      BY <1>1, <1>3
    <2>3. k < m
      <3>1. SUFFICES ASSUME m <= k PROVE FALSE
        OBVIOUS
      <3>2. m * d <= k * d
        BY <3>1
      <3>3. QED
        BY <1>3, <2>1, <2>2, <3>2
    <2>4. QED
      BY <1>2, <2>1, <2>2, <2>3
  <1>4. ASSUME NEW i \in Nat, i % d = 0, i # 0 PROVE i - d \in Nat /\ (i - d) % d = 0
    <2>1. PICK k \in Nat : i = k * d
      BY <1>1, <1>4
    <2>2. k # 0
      BY <1>4, <2>1
    <2>3. k - 1 \in Nat /\ i - d = (k - 1) * d
      BY <2>1, <2>2
    <2>4. (k - 1) * d \in Nat
      BY <2>3
    <2>5. QED
      BY <1>1, <2>3, <2>4
  <1>5. ASSUME NEW x \in Nat PROVE \E i \in Nat : i % d = 0 /\ i <= x /\ x < i + d
    <2> DEFINE below == {i \in 0 .. x : i % d = 0}
    <2>1. 0 \in below /\ \A i \in below : i \in Int /\ i <= x
      OBVIOUS
    <2>2. PICK i \in below : \A j \in below : j <= i
      <3> HIDE DEF below
      <3>1. below # {} /\ x \in Int
        BY <2>1
      <3>2. Max(below) \in below /\ \A j \in below : j <= Max(below)
        BY <2>1, <3>1, MaxOf
      <3>3. QED
        BY <3>2
    <2>3. i \in Nat /\ i % d = 0 /\ i <= x
      OBVIOUS
    <2>4. SUFFICES ASSUME i + d <= x PROVE FALSE
      BY <2>3
    <2>5. PICK k \in Nat : i = k * d
      BY <1>1, <2>3
    <2>6. i + d \in Nat /\ i + d = (k + 1) * d /\ k + 1 \in Nat
      BY <2>3, <2>5
    <2>7. (i + d) % d = 0
      BY <1>1, <2>6
    <2>8. i + d \in below
      BY <2>4, <2>6, <2>7
    <2>9. QED
      BY <2>2, <2>3, <2>8
  <1>6. 0 % d = 0
    OBVIOUS
  <1>7. QED
    BY <1>3, <1>4, <1>5, <1>6

\* Chunks of parts leave out nothing, go forward and none is in another.
LEMMA ChunksOfParts ==
  ASSUME NEW t \in Seq(STRING), NEW ss, AreParts(ss, t),
         NEW window \in Nat \ {0}, NEW overlap \in Nat
  PROVE  /\ ChunkText(ss, window, overlap) \in Seq(SpansOf(t))
         /\ ChunksCover(t, ss, window, overlap)
  <1> DEFINE n == Len(ss)
             step == Max({window - overlap, 1})
             starts == {i \in 0 .. n - 1 : i % step = 0 /\ (i = 0 \/ i - step + window < n)}
             last(i) == Min({i + window, n})
             S == {<<ss[i + 1][1], ss[last(i)][2]>> : i \in starts}
             q == ChunkText(ss, window, overlap)
  <1>1. /\ ss \in Seq(SpansOf(t)) /\ n \in Nat /\ \A i \in 1 .. n : ss[i] \in SpansOf(t)
        /\ \A i, j \in 1 .. n : i < j => ss[i][2] <= ss[j][1]
        /\ \A x \in NonBlanks(t) : \E k \in 1 .. n : ss[k][1] <= x /\ x < ss[k][2]
    BY DEF AreParts
  <1>2. \A i \in 1 .. n : /\ ss[i][1] \in Int /\ ss[i][2] \in Int /\ ss[i][1] < ss[i][2]
                          /\ ss[i][1] \in 0 .. Len(t) /\ ss[i][2] \in 0 .. Len(t)
    <2>1. Len(t) \in Nat
      OBVIOUS
    <2>2. QED
      BY <1>1, <2>1, SpansOfText DEF SpansOf
  <1>3. step \in Nat /\ step > 0 /\ step <= window
    <2>1. window - overlap \in Int /\ 1 \in Int
      OBVIOUS
    <2>2. step \in Int /\ 1 <= step /\ (step = window - overlap \/ step = 1)
      BY <2>1, MaxOfTwo
    <2> HIDE DEF step
    <2>3. QED
      BY <2>2
  <1>4. q = Sorted(S)
    BY DEF ChunkText
  <1> HIDE DEF n, step, q
  <1>5. /\ \A i, j \in Nat : i % step = 0 /\ j % step = 0 /\ i < j => i + step <= j
        /\ \A i \in Nat : i % step = 0 /\ i # 0 => i - step \in Nat /\ (i - step) % step = 0
        /\ \A x \in Nat : \E i \in Nat : i % step = 0 /\ i <= x /\ x < i + step
        /\ 0 % step = 0
    BY <1>3, Multiples
  <1>6. \A i \in 0 .. n - 1 :
          /\ i + 1 \in 1 .. n /\ last(i) \in 1 .. n /\ i + 1 <= last(i) /\ last(i) <= i + window
          /\ last(i) = i + window \/ last(i) = n
          /\ i + window < n => last(i) = i + window
    <2>1. ASSUME NEW i \in 0 .. n - 1
          PROVE  /\ i + 1 \in 1 .. n /\ last(i) \in 1 .. n /\ i + 1 <= last(i)
                 /\ last(i) <= i + window
                 /\ last(i) = i + window \/ last(i) = n
                 /\ i + window < n => last(i) = i + window
      <3>1. i + window \in Int /\ n \in Int /\ i \in Int /\ 0 <= i /\ i <= n - 1 /\ window >= 1
        BY <1>1
      <3>2. /\ last(i) \in Int /\ last(i) <= i + window /\ last(i) <= n
            /\ last(i) = i + window \/ last(i) = n
        BY <3>1, MinOfTwo
      <3> HIDE DEF last
      <3>3. QED
        BY <3>1, <3>2
    <2>2. QED
      BY <2>1
  <1> HIDE DEF last
  <1>7. \A i, j \in 1 .. n : i <= j => ss[i][1] < ss[j][2]
    <2>1. ASSUME NEW i \in 1 .. n, NEW j \in 1 .. n, i < j PROVE ss[i][1] < ss[j][2]
      <3>1. /\ ss[i][1] < ss[i][2] /\ ss[i][2] <= ss[j][1] /\ ss[j][1] < ss[j][2]
            /\ ss[i][1] \in Int /\ ss[i][2] \in Int /\ ss[j][1] \in Int /\ ss[j][2] \in Int
        BY <1>1, <1>2, <2>1
      <3>2. QED
        BY <3>1, Z3T(30)
    <2>2. ASSUME NEW i \in 1 .. n, NEW j \in 1 .. n, i <= j PROVE ss[i][1] < ss[j][2]
      <3>1. CASE i = j
        BY <1>2, <3>1
      <3>2. CASE i # j
        <4>1. i < j
          BY <2>2, <3>2
        <4>2. QED
          BY <2>1, <4>1
      <3>3. QED
        BY <3>1, <3>2
    <2>3. QED
      BY <2>2
  <1>8. \A i, j \in 1 .. n : i < j => ss[i][1] < ss[j][1] /\ ss[i][2] < ss[j][2]
    <2>1. ASSUME NEW i \in 1 .. n, NEW j \in 1 .. n, i < j
          PROVE  ss[i][1] < ss[j][1] /\ ss[i][2] < ss[j][2]
      <3>1. /\ ss[i][1] < ss[i][2] /\ ss[i][2] <= ss[j][1] /\ ss[j][1] < ss[j][2]
            /\ ss[i][1] \in Int /\ ss[i][2] \in Int /\ ss[j][1] \in Int /\ ss[j][2] \in Int
        BY <1>1, <1>2, <2>1
      <3>2. QED
        BY <3>1, Z3T(30)
    <2>2. QED
      BY <2>1
  <1>9. S \subseteq SpansOf(t)
    <2>1. ASSUME NEW i \in starts PROVE <<ss[i + 1][1], ss[last(i)][2]>> \in SpansOf(t)
      <3>1. i + 1 \in 1 .. n /\ last(i) \in 1 .. n /\ i + 1 <= last(i)
        BY <1>6
      <3>2. ss[i + 1][1] < ss[last(i)][2]
        BY <1>7, <3>1
      <3>3. ss[i + 1][1] \in 0 .. Len(t) /\ ss[last(i)][2] \in 0 .. Len(t)
        BY <1>2, <3>1
      <3>4. QED
        BY <3>2, <3>3 DEF SpansOf
    <2>2. QED
      BY <2>1
  <1>10. /\ q \in Seq(SpansOf(t)) /\ \A k \in 1 .. Len(q) : q[k] \in S
         /\ \A a \in S : \E k \in 1 .. Len(q) : q[k] = a
         /\ \A i, j \in 1 .. Len(q) : i < j => Before(q[i], q[j])
    <2> HIDE DEF S
    <2>1. QED
      BY <1>4, <1>9, SortedSpans
  <1>11. DOMAIN q = 1 .. Len(q)
    BY <1>10
  \* A window lies behind the one that begins before it.
  <1>12. ASSUME NEW i \in starts, NEW j \in starts, i < j
         PROVE  /\ ss[i + 1][1] < ss[j + 1][1]
                /\ ss[last(i)][2] < ss[last(j)][2]
    <2>1. i \in 0 .. n - 1 /\ j \in 0 .. n - 1 /\ i \in Nat /\ j \in Nat
      OBVIOUS
    <2>2. /\ i + 1 \in 1 .. n /\ j + 1 \in 1 .. n /\ last(i) \in 1 .. n /\ last(j) \in 1 .. n
          /\ last(j) = j + window \/ last(j) = n
          /\ i + window < n => last(i) = i + window
      BY <1>6, <2>1
    <2>3. ss[i + 1][1] < ss[j + 1][1]
      BY <1>8, <1>12, <2>1, <2>2
    <2>4. i % step = 0 /\ j % step = 0 /\ j - step + window < n
      BY <1>12, <2>1
    <2>5. i + step <= j
      BY <1>5, <1>12, <2>1, <2>4
    <2>6. i + window < n /\ i + window < j + window
      BY <1>1, <1>3, <1>12, <2>1, <2>4, <2>5
    <2>7. last(i) < last(j)
      BY <2>2, <2>6
    <2>8. QED
      BY <1>8, <2>2, <2>3, <2>7
  <1>13. ASSUME NEW x \in Offsets(t), CharAt(t, x) \notin Blanks
         PROVE  \E k \in DOMAIN q : q[k][1] <= x /\ x < q[k][2]
    <2>1. x \in NonBlanks(t) /\ x \in Int
      <3>1. x \in NonBlanks(t)
        BY <1>13 DEF NonBlanks
      <3>2. QED
        BY <3>1, OffsetsAscend
    <2>2. PICK k \in 1 .. n : ss[k][1] <= x /\ x < ss[k][2]
      BY <1>1, <2>1
    <2> DEFINE p == k - 1
               reach == {i \in 0 .. n - 1 : i % step = 0 /\ k <= i + window}
    <2>3. p \in Nat /\ p \in 0 .. n - 1 /\ k \in Int
      BY <1>1
    <2>4. PICK h \in Nat : h % step = 0 /\ h <= p /\ p < h + step
      BY <1>5, <2>3
    <2>5. h \in reach
      <3>1. h \in 0 .. n - 1
        BY <1>1, <2>3, <2>4
      <3>2. k - 1 < h + step /\ k \in Int /\ h \in Int /\ step \in Int /\ step <= window
            /\ window \in Int
        BY <1>3, <2>3, <2>4
      <3>3. k <= h + window
        BY <3>2, Z3T(30)
      <3>4. QED
        BY <2>4, <3>1, <3>3
    <2>6. PICK i \in reach : \A j \in reach : i <= j
      <3>1. \A j \in reach : j \in Int /\ 0 <= j
        OBVIOUS
      <3>2. 0 \in Int
        OBVIOUS
      <3> HIDE DEF reach
      <3>3. QED
        BY <2>5, <3>1, <3>2, LeastExists
    <2>7. i \in 0 .. n - 1 /\ i \in Nat /\ i % step = 0 /\ k <= i + window /\ i <= p
      BY <2>4, <2>5, <2>6
    <2>8. i \in starts
      <3>1. CASE i = 0
        BY <2>7, <3>1
      <3>2. CASE i # 0
        <4>1. i - step \in Nat /\ (i - step) % step = 0 /\ i - step < i
          BY <1>3, <1>5, <2>7, <3>2
        <4>2. i - step \in 0 .. n - 1
          <5>1. i \in Int /\ i <= n - 1 /\ n \in Int
            BY <1>1, <2>7
          <5>2. QED
            BY <4>1, <5>1
        <4>3. i - step \notin reach
          BY <2>6, <4>1
        <4>4. ~(k <= i - step + window)
          BY <4>1, <4>2, <4>3
        <4>5. i - step + window < n
          BY <1>1, <1>3, <2>7, <4>4
        <4>6. QED
          BY <2>7, <4>5
      <3>3. QED
        BY <3>1, <3>2
    <2>9. i + 1 \in 1 .. n /\ last(i) \in 1 .. n /\ i + 1 <= k /\ k <= last(i)
      <3>1. /\ i + 1 \in 1 .. n /\ last(i) \in 1 .. n
            /\ last(i) = i + window \/ last(i) = n
        BY <1>6, <2>7
      <3>2. QED
        BY <2>3, <2>7, <3>1
    <2>10. ss[i + 1][1] <= ss[k][1]
      <3>1. i + 1 = k \/ i + 1 < k
        BY <2>3, <2>9
      <3>2. ss[k][1] \in Int /\ ss[i + 1][1] \in Int
        BY <1>2, <2>9
      <3>3. i + 1 < k => ss[i + 1][1] < ss[k][1]
        BY <1>8, <2>9
      <3>4. QED
        BY <3>1, <3>2, <3>3
    <2>11. ss[k][2] <= ss[last(i)][2]
      <3>1. k = last(i) \/ k < last(i)
        BY <2>3, <2>9
      <3>2. ss[k][2] \in Int /\ ss[last(i)][2] \in Int
        BY <1>2, <2>9
      <3>3. k < last(i) => ss[k][2] < ss[last(i)][2]
        BY <1>8, <2>9
      <3>4. QED
        BY <3>1, <3>2, <3>3
    <2>12. <<ss[i + 1][1], ss[last(i)][2]>> \in S
      BY <2>8
    <2>13. PICK m \in 1 .. Len(q) : q[m] = <<ss[i + 1][1], ss[last(i)][2]>>
      BY <1>10, <2>12
    <2>14. ss[i + 1][1] <= x /\ x < ss[last(i)][2]
      <3>1. /\ ss[k][1] \in Int /\ ss[k][2] \in Int
            /\ ss[i + 1][1] \in Int /\ ss[last(i)][2] \in Int
        BY <1>2, <2>9
      <3>2. QED
        BY <2>1, <2>2, <2>10, <2>11, <3>1, Z3T(30)
    <2>15. q[m][1] = ss[i + 1][1] /\ q[m][2] = ss[last(i)][2]
      BY <2>13
    <2>16. QED
      BY <1>11, <2>14, <2>15
  <1>14. ASSUME NEW k \in DOMAIN q, k > 1
         PROVE  q[k - 1][1] < q[k][1] /\ q[k - 1][2] < q[k][2]
    <2>1. k - 1 \in 1 .. Len(q) /\ k \in 1 .. Len(q) /\ k - 1 < k
      BY <1>11, <1>14
    <2>2. Before(q[k - 1], q[k])
      BY <1>10, <2>1
    <2>3. PICK i \in starts : q[k - 1] = <<ss[i + 1][1], ss[last(i)][2]>>
      BY <1>10, <2>1
    <2>4. PICK j \in starts : q[k] = <<ss[j + 1][1], ss[last(j)][2]>>
      BY <1>10, <2>1
    <2>5. /\ q[k - 1][1] = ss[i + 1][1] /\ q[k - 1][2] = ss[last(i)][2]
          /\ q[k][1] = ss[j + 1][1] /\ q[k][2] = ss[last(j)][2]
      BY <2>3, <2>4
    <2>6. /\ ss[i + 1][1] \in Int /\ ss[last(i)][2] \in Int
          /\ ss[j + 1][1] \in Int /\ ss[last(j)][2] \in Int
      BY <1>2, <1>6
    <2>7. CASE i < j
      BY <1>12, <2>5, <2>7
    <2>8. CASE j < i
      <3>1. ss[j + 1][1] < ss[i + 1][1]
        BY <1>12, <2>8
      <3>2. QED
        BY <2>2, <2>5, <2>6, <3>1 DEF Before
    <2>9. CASE i = j
      BY <2>2, <2>5, <2>6, <2>9 DEF Before
    <2>10. i \in Int /\ j \in Int
      OBVIOUS
    <2>11. QED
      BY <2>7, <2>8, <2>9, <2>10
  <1>15. QED
    BY <1>10, <1>13, <1>14 DEF ChunksCover, q

\* What ChunksCoverText says, for every text and all sizes.
THEOREM ChunksCoverAll ==
  ASSUME NEW t \in Seq(STRING), NEW window \in Nat \ {0}, NEW overlap \in Nat,
         NEW minChars \in Nat
  PROVE  ChunksCover(t, MergeShortSentences(SplitSentences(t), minChars), window, overlap)
  <1>1. AreParts(MergeShortSentences(SplitSentences(t), minChars), t)
    BY SentencesAreParts, MergedAreParts
  <1>2. QED
    BY <1>1, ChunksOfParts

-----------------------------------------------------------------------------
(* The spans of issues and citations *)

\* What is located, of any quote, is a span of the text.
LEMMA QuoteSpan ==
  ASSUME NEW t \in Seq(STRING), NEW quote \in Seq(STRING), NEW within,
         within = Null \/ within \in (0 .. Len(t)) \X (0 .. Len(t))
  PROVE  LocateQuote(t, quote, within) = Null \/ LocateQuote(t, quote, within) \in SpansOf(t)
  <1>1. CASE Compact(quote) = <<>>
    BY <1>1, BlankQuote
  <1>2. CASE Compact(quote) # <<>>
    BY <1>2, LocateQuoteIs
  <1>3. QED
    BY <1>1, <1>2

FuseStep(acc, s) ==
  IF acc # <<>> /\ s[1] <= Last(acc)[2]
  THEN Append(Front(acc), <<Last(acc)[1], Max({Last(acc)[2], s[2]})>>)
  ELSE Append(acc, s)

\* A span fused with the last one, or appended, leaves spans of the text.
LEMMA FuseStepIs ==
  ASSUME NEW t \in Seq(STRING), NEW acc \in Seq(SpansOf(t)), NEW s \in SpansOf(t)
  PROVE  FuseStep(acc, s) \in Seq(SpansOf(t))
  <1>1. CASE acc # <<>> /\ s[1] <= Last(acc)[2]
    <2> DEFINE n == Len(acc)
               l == acc[n]
               e == Max({l[2], s[2]})
    <2>1. n \in Nat /\ n > 0 /\ n \in 1 .. n /\ l \in SpansOf(t) /\ Last(acc) = l
      BY <1>1 DEF Last
    <2>2. /\ l[1] \in Int /\ l[2] \in Int /\ l[1] < l[2] /\ l[1] \in 0 .. Len(t)
          /\ s[2] \in Int /\ l[2] \in 0 .. Len(t) /\ s[2] \in 0 .. Len(t)
      BY <2>1, SpansOfText DEF SpansOf
    <2>3. e \in 0 .. Len(t) /\ l[1] < e
      <3>1. e \in Int /\ l[2] <= e /\ (e = l[2] \/ e = s[2])
        BY <2>2, MaxOfTwo, Zenon
      <3> HIDE DEF e
      <3>2. QED
        BY <2>2, <3>1
    <2>4. <<l[1], e>> \in SpansOf(t)
      BY <2>2, <2>3 DEF SpansOf
    <2>5. Front(acc) \in Seq(SpansOf(t))
      <3>1. Front(acc) = SubSeq(acc, 1, n - 1) /\ 1 \in Int /\ n - 1 \in Int
        BY <2>1 DEF Front
      <3>2. \A i \in 1 .. n - 1 : acc[i] \in SpansOf(t)
        OBVIOUS
      <3> HIDE DEF n
      <3>3. SubSeq(acc, 1, n - 1) \in Seq(SpansOf(t))
        BY <3>1, <3>2, SubSeqProperties
      <3>4. QED
        BY <3>1, <3>3
    <2>6. FuseStep(acc, s) = Append(Front(acc), <<l[1], e>>)
      BY <1>1, <2>1 DEF FuseStep
    <2> HIDE DEF e, l, n
    <2>7. QED
      BY <2>4, <2>5, <2>6
  <1>2. CASE ~(acc # <<>> /\ s[1] <= Last(acc)[2])
    BY <1>2 DEF FuseStep
  <1>3. QED
    BY <1>1, <1>2

\* Fused spans are spans of the text.
LEMMA FuseIs ==
  ASSUME NEW t \in Seq(STRING), NEW spans \in Seq(SpansOf(t))
  PROVE  Fuse(spans) \in Seq(SpansOf(t))
  <1> DEFINE n == Len(spans)
             A == Seq(SpansOf(t))
             Step == [p \in A \X (1 .. n) |-> FuseStep(p[1], spans[p[2]])]
             Body(f, k) == IF k = 0 THEN <<>> ELSE FuseStep(f[k - 1], spans[k])
             fused[k \in 0 .. Len(spans)] ==
               IF k = 0 THEN <<>>
               ELSE LET acc == fused[k - 1]  s == spans[k]
                    IN IF acc # <<>> /\ s[1] <= Last(acc)[2]
                       THEN Append(Front(acc), <<Last(acc)[1], Max({Last(acc)[2], s[2]})>>)
                       ELSE Append(acc, s)
  <1>1. n \in Nat /\ \A k \in 1 .. n : spans[k] \in SpansOf(t)
    OBVIOUS
  <1>2. fused = CHOOSE f : f = [k \in 0 .. n |-> Body(f, k)]
    BY DEF FuseStep
  <1>3. Fuse(spans) = fused[n]
    BY DEF Fuse
  <1> HIDE DEF fused
  <1>4. <<>> \in A
    OBVIOUS
  <1>5. \A acc \in A, k \in 1 .. n : FuseStep(acc, spans[k]) \in A
    BY <1>1, FuseStepIs
  <1> HIDE DEF A, n
  <1>6. 0 + 1 .. n = 1 .. n
    OBVIOUS
  <1>7. PICK g : Repeats(g, 0, n, A, <<>>, Step)
    <2>1. Step \in [A \X (0 + 1 .. n) -> A]
      BY <1>5, <1>6
    <2>2. 0 \in Int /\ n \in Int /\ 0 <= n
      BY <1>1
    <2> HIDE DEF Step
    <2>3. QED
      BY <1>4, <2>1, <2>2, RepeatsExists
  <1>8. /\ g \in [0 .. n -> A] /\ g[0] = <<>>
        /\ \A k \in 1 .. n : g[k] = Step[<<g[k - 1], k>>]
    <2> HIDE DEF Step
    <2>1. QED
      BY <1>6, <1>7 DEF Repeats
  <1>9. \A k \in 0 .. n : g[k] = Body(g, k)
    <2>1. ASSUME NEW k \in 1 .. n PROVE g[k] = FuseStep(g[k - 1], spans[k])
      <3>1. k - 1 \in 0 .. n
        BY <1>1
      <3>2. g[k - 1] \in A
        BY <1>8, <3>1
      <3>3. QED
        BY <1>8, <3>2
    <2>2. \A k \in 0 .. n : k = 0 \/ k \in 1 .. n
      BY <1>1
    <2>3. QED
      BY <1>8, <2>1, <2>2
  <1>10. g = [k \in 0 .. n |-> Body(g, k)]
    <2> HIDE DEF Body
    <2>1. QED
      BY <1>8, <1>9
  <1>11. fused = [k \in 0 .. n |-> Body(fused, k)]
    <2> HIDE DEF Body
    <2>1. QED
      BY <1>2, <1>10
  <1> HIDE DEF Body
  <1>12. \A k \in 0 .. n : fused[k] = Body(fused, k)
    BY <1>11
  <1> DEFINE P == {k \in 0 .. n : fused[k] \in A}
  <1>13. 0 \in P
    BY <1>1, <1>4, <1>12 DEF Body
  <1>14. ASSUME NEW k \in 0 + 1 .. n, k - 1 \in P PROVE k \in P
    <2>1. k \in 1 .. n /\ k \in 0 .. n /\ k # 0 /\ fused[k - 1] \in A
      BY <1>14
    <2>2. fused[k] = FuseStep(fused[k - 1], spans[k])
      BY <1>12, <2>1 DEF Body
    <2>3. QED
      BY <1>5, <2>1, <2>2
  <1> HIDE DEF P
  <1>15. 0 .. n \subseteq P
    <2>1. 0 \in Int /\ n \in Int
      BY <1>1
    <2>2. QED
      BY <1>13, <1>14, <2>1, Induct
  <1>16. n \in 0 .. n
    BY <1>1
  <1>17. QED
    BY <1>3, <1>15, <1>16 DEF P, A

\* The spans of an issue are spans of the text.
LEMMA ResolveSpansIs ==
  ASSUME NEW t \in Seq(STRING), NEW quotes \in Seq(Seq(STRING))
  PROVE  ResolveSpans(t, quotes) \in Seq(SpansOf(t))
  <1> DEFINE S == {LocateQuote(t, quotes[k], Null) : k \in DOMAIN quotes} \ {Null}
  <1>1. S \subseteq SpansOf(t)
    <2>1. \A k \in DOMAIN quotes : quotes[k] \in Seq(STRING)
      OBVIOUS
    <2>2. \A k \in DOMAIN quotes :
            LocateQuote(t, quotes[k], Null) = Null \/ LocateQuote(t, quotes[k], Null) \in SpansOf(t)
      BY <2>1, QuoteSpan
    <2>3. QED
      BY <2>2
  <1>2. ResolveSpans(t, quotes) = Fuse(Sorted(S))
    BY DEF ResolveSpans
  <1> HIDE DEF S
  <1>3. Sorted(S) \in Seq(SpansOf(t))
    BY <1>1, SortedSpans
  <1>4. QED
    BY <1>2, <1>3, FuseIs

-----------------------------------------------------------------------------
(* The units and what is cited for them *)

Issues(t) == [domain : DOMAIN Codes, label : STRING, spans : Seq(SpansOf(t))]
UnitsOf(t) ==
  [domain : DOMAIN Codes \cup {NoDomain}, search : Seq((0 .. Len(t)) \X (0 .. Len(t))),
   fallback : Seq(SpansOf(t)), docs : Seq((DOMAIN Category) \X Int)]
CitationsIn(t) ==
  {c \in Citation : <<c.start, c.end>> \in SpansOf(t) /\ c.domain \in DOMAIN Codes \cup {NoDomain}}

\* Citations in a text are not empty.
LEMMA CitationsAreProper ==
  ASSUME NEW t \in Seq(STRING), NEW s \in Seq(CitationsIn(t))
  PROVE  s \in Seq(Citation) /\ \A i \in 1 .. Len(s) : Proper(s[i])
  <1>1. \A c \in CitationsIn(t) : Proper(c) /\ c \in Citation
    BY DEF CitationsIn, Proper, SpansOf
  <1>2. QED
    BY <1>1

\* Whatever the LLM writes, the domain is one of the codes.
LEMMA NormalizeDomainIs ==
  ASSUME NEW code
  PROVE  NormalizeDomain(code) \in DOMAIN Codes
  <1> DEFINE longer == {d \in DOMAIN Codes : code # <<>> /\ IsPrefix(code, Codes[d])}
  <1>1. Cardinality(longer) = 1 => longer # {}
    <2>1. Cardinality({}) = 0
      BY FS_EmptySet
    <2> HIDE DEF longer
    <2>2. QED
      BY <2>1
  <1>2. Etc \in DOMAIN Codes
    BY InputsAssumption
  <1>3. Cardinality(longer) = 1 => (CHOOSE d \in longer : TRUE) \in DOMAIN Codes
    BY <1>1
  <1>4. (\E d \in DOMAIN Codes : Codes[d] = code)
          => (CHOOSE d \in DOMAIN Codes : Codes[d] = code) \in DOMAIN Codes
    OBVIOUS
  <1>5. NormalizeDomain(code) =
          IF \E d \in DOMAIN Codes : Codes[d] = code
          THEN CHOOSE d \in DOMAIN Codes : Codes[d] = code
          ELSE IF Cardinality(longer) = 1 THEN CHOOSE d \in longer : TRUE ELSE Etc
    BY DEF NormalizeDomain
  <1> HIDE DEF longer
  <1>6. QED
    BY <1>2, <1>3, <1>4, <1>5, Zenon

\* The spans of a citation are spans of the text.
LEMMA CitationSpansIs ==
  ASSUME NEW t \in Seq(STRING), NEW unit \in UnitsOf(t), NEW quote \in Seq(STRING)
  PROVE  CitationSpans(t, unit, quote) \in Seq(SpansOf(t))
  <1> DEFINE found == {s \in 1 .. Len(unit.search) :
                         LocateQuote(t, quote, unit.search[s]) # Null}
  <1>1. /\ unit.search \in Seq((0 .. Len(t)) \X (0 .. Len(t)))
        /\ unit.fallback \in Seq(SpansOf(t))
    BY DEF UnitsOf
  <1>2. CASE found = {}
    BY <1>1, <1>2 DEF CitationSpans
  <1>3. CASE found # {}
    <2>1. \A s \in found : s \in Int /\ 1 <= s
      OBVIOUS
    <2>2. CitationSpans(t, unit, quote) = << LocateQuote(t, quote, unit.search[Min(found)]) >>
      BY <1>3 DEF CitationSpans
    <2>3. Min(found) \in found
      <3> HIDE DEF found
      <3>1. 1 \in Int
        OBVIOUS
      <3>2. QED
        BY <1>3, <2>1, <3>1, MinOf
    <2> DEFINE m == Min(found)
    <2>4. m \in 1 .. Len(unit.search) /\ LocateQuote(t, quote, unit.search[m]) # Null
      BY <2>3
    <2> HIDE DEF m
    <2>5. unit.search[m] \in (0 .. Len(t)) \X (0 .. Len(t))
      BY <1>1, <2>4
    <2>6. LocateQuote(t, quote, unit.search[m]) \in SpansOf(t)
      BY <2>4, <2>5, QuoteSpan
    <2>7. << LocateQuote(t, quote, unit.search[m]) >> \in Seq(SpansOf(t))
      BY <2>6
    <2>8. QED
      BY <2>2, <2>7 DEF m
  <1>4. QED
    BY <1>2, <1>3

Cited == [law : Int, no : Int, tail : BOOLEAN, quote : Seq(STRING)]

\* The citations a unit may give: of its perspective, or if it has none, of
\* the perspective of the law, where the law is known.
CitationsFor(t, item) ==
  {c \in CitationsIn(t) :
     IF item.domain # NoDomain THEN c.domain = item.domain
     ELSE c.domain = NoDomain \/ (c.law \in DOMAIN Category /\ Category[c.law] = c.domain)}

\* What is made of one answered citation are citations of the unit.
LEMMA CitationsOfIs ==
  ASSUME NEW t \in Seq(STRING), NEW item \in UnitsOf(t), NEW cited \in Cited
  PROVE  CitationsOf(t, item, cited) \in Seq(CitationsFor(t, item))
  <1> DEFINE doc == MatchOf(item.docs, cited)
             spans == CitationSpans(t, item, cited.quote)
             dom == IF item.domain # NoDomain THEN item.domain
                    ELSE IF doc = Null THEN NoDomain ELSE Category[doc[1]]
             law == IF doc = Null THEN cited.law ELSE doc[1]
             c(k) == [law |-> law, no |-> cited.no, start |-> spans[k][1],
                      end |-> spans[k][2], domain |-> dom]
  <1>1. /\ item.docs \in Seq((DOMAIN Category) \X Int)
        /\ item.domain \in DOMAIN Codes \cup {NoDomain}
        /\ cited.law \in Int /\ cited.no \in Int /\ cited.quote \in Seq(STRING)
    BY DEF UnitsOf, Cited
  <1>2. doc = Null \/ doc \in (DOMAIN Category) \X Int
    <2> DEFINE exact == {k \in DOMAIN item.docs : /\ ~cited.tail
                                                  /\ item.docs[k] = <<cited.law, cited.no>>}
               alike == {k \in DOMAIN item.docs : item.docs[k][2] = cited.no}
    <2>1. doc = IF exact # {} THEN item.docs[Min(exact)]
                ELSE IF alike # {} THEN item.docs[Min(alike)] ELSE Null
      BY DEF MatchOf
    <2>2. ASSUME NEW S, S # {}, S \subseteq DOMAIN item.docs
          PROVE  item.docs[Min(S)] \in (DOMAIN Category) \X Int
      <3>1. \A x \in S : x \in Int /\ 1 <= x
        BY <1>1, <2>2
      <3>2. 1 \in Int
        OBVIOUS
      <3>3. Min(S) \in S
        BY <2>2, <3>1, <3>2, MinOf
      <3>4. Min(S) \in DOMAIN item.docs
        BY <2>2, <3>3
      <3>5. QED
        BY <1>1, <3>4
    <2>3. exact \subseteq DOMAIN item.docs /\ alike \subseteq DOMAIN item.docs
      OBVIOUS
    <2> HIDE DEF exact, alike, doc
    <2>4. exact # {} => item.docs[Min(exact)] \in (DOMAIN Category) \X Int
      BY <2>2, <2>3
    <2>5. alike # {} => item.docs[Min(alike)] \in (DOMAIN Category) \X Int
      BY <2>2, <2>3
    <2>6. QED
      BY <2>1, <2>4, <2>5
  <1>3. spans \in Seq(SpansOf(t))
    BY <1>1, CitationSpansIs
  <1>4. CitationsOf(t, item, cited) = [k \in DOMAIN spans |-> c(k)]
    BY DEF CitationsOf
  <1> HIDE DEF doc, spans
  <1>5. doc # Null => doc[1] \in DOMAIN Category /\ doc[1] \in Int /\ Category[doc[1]] \in DOMAIN Codes
    <2>1. Category \in Seq(DOMAIN Codes)
      BY InputsAssumption
    <2>2. QED
      BY <1>2, <2>1
  <1>6. law \in Int /\ dom \in DOMAIN Codes \cup {NoDomain}
    BY <1>1, <1>5
  <1>7. \A d \in DOMAIN Codes \cup {NoDomain} : d \in Int
    BY InputsAssumption DEF NoDomain
  <1>8. IF item.domain # NoDomain THEN dom = item.domain
         ELSE dom = NoDomain \/ (law \in DOMAIN Category /\ Category[law] = dom)
    BY <1>5
  <1> HIDE DEF law, dom
  <1>9. ASSUME NEW k \in DOMAIN spans PROVE c(k) \in CitationsFor(t, item)
    <2>1. /\ spans[k] \in SpansOf(t)
          /\ spans[k][1] \in Int /\ spans[k][2] \in Int /\ spans[k] = <<spans[k][1], spans[k][2]>>
      <3>1. spans[k] \in SpansOf(t)
        BY <1>3
      <3>2. QED
        BY <3>1, SpansOfText
    <2>2. c(k) \in Citation
      BY <1>1, <1>6, <1>7, <2>1 DEF Citation
    <2>3. <<c(k).start, c(k).end>> \in SpansOf(t) /\ c(k).domain \in DOMAIN Codes \cup {NoDomain}
      BY <1>6, <2>1
    <2>4. c(k).law = law /\ c(k).domain = dom
      OBVIOUS
    <2> HIDE DEF c
    <2>5. QED
      BY <1>8, <2>2, <2>3, <2>4 DEF CitationsIn, CitationsFor
  <1> HIDE DEF c
  <1>10. [k \in DOMAIN spans |-> c(k)] \in Seq(CitationsFor(t, item))
    BY <1>3, <1>9
  <1>11. QED
    BY <1>4, <1>10

-----------------------------------------------------------------------------
(* Sequences of sequences *)

\* A concatenation has the elements of both sequences.
LEMMA RangeOfBoth ==
  ASSUME NEW A, NEW s \in Seq(A), NEW r \in Seq(A)
  PROVE  s \o r \in Seq(A) /\ Range(s \o r) = Range(s) \cup Range(r)
  <1>1. /\ s \o r \in Seq(A) /\ Len(s) \in Nat /\ Len(r) \in Nat /\ Len(s \o r) = Len(s) + Len(r)
        /\ \A i \in 1 .. Len(s) : (s \o r)[i] = s[i]
        /\ \A i \in 1 .. Len(r) : (s \o r)[Len(s) + i] = r[i]
        /\ DOMAIN (s \o r) = 1 .. Len(s) + Len(r)
        /\ DOMAIN s = 1 .. Len(s) /\ DOMAIN r = 1 .. Len(r)
    OBVIOUS
  <1>2. Range(s \o r) \subseteq Range(s) \cup Range(r)
    <2>1. SUFFICES ASSUME NEW i \in 1 .. Len(s) + Len(r)
                   PROVE  (s \o r)[i] \in Range(s) \cup Range(r)
      BY <1>1 DEF Range
    <2>2. CASE i \in 1 .. Len(s)
      BY <1>1, <2>2 DEF Range
    <2>3. CASE i \notin 1 .. Len(s)
      <3>1. i - Len(s) \in 1 .. Len(r) /\ Len(s) + (i - Len(s)) = i
        BY <1>1, <2>3
      <3>2. (s \o r)[i] = r[i - Len(s)]
        BY <1>1, <3>1
      <3>3. QED
        BY <1>1, <3>1, <3>2 DEF Range
    <2>4. QED
      BY <2>2, <2>3
  <1>3. Range(s) \subseteq Range(s \o r)
    <2>1. ASSUME NEW i \in 1 .. Len(s) PROVE s[i] \in Range(s \o r)
      <3>1. i \in 1 .. Len(s) + Len(r)
        BY <1>1
      <3>2. QED
        BY <1>1, <3>1 DEF Range
    <2>2. QED
      BY <1>1, <2>1 DEF Range
  <1>4. Range(r) \subseteq Range(s \o r)
    <2>1. ASSUME NEW i \in 1 .. Len(r) PROVE r[i] \in Range(s \o r)
      <3>1. Len(s) + i \in 1 .. Len(s) + Len(r)
        BY <1>1
      <3>2. QED
        BY <1>1, <3>1 DEF Range
    <2>2. QED
      BY <1>1, <2>1 DEF Range
  <1>5. QED
    BY <1>1, <1>2, <1>3, <1>4

\* Sequences put one after the other have the elements of all of them.
LEMMA FlattenIs ==
  ASSUME NEW A, NEW ss \in Seq(Seq(A))
  PROVE  /\ FlattenSeq(ss) \in Seq(A)
         /\ Range(FlattenSeq(ss)) = UNION {Range(ss[i]) : i \in DOMAIN ss}
  <1> DEFINE n == Len(ss)
             B == Seq(A)
             Step == [p \in B \X (2 .. n) |-> p[1] \o ss[p[2]]]
             Body(f, i) == IF i = 1 THEN ss[i] ELSE f[i - 1] \o ss[i]
             flatten[i \in 1 .. Len(ss)] == IF i = 1 THEN ss[i] ELSE flatten[i - 1] \o ss[i]
  <1>1. n \in Nat /\ (\A k \in 1 .. n : ss[k] \in B) /\ DOMAIN ss = 1 .. n
    OBVIOUS
  <1>2. CASE n = 0
    <2>1. ss = <<>> /\ DOMAIN ss = {}
      BY <1>2
    <2>2. FlattenSeq(ss) = <<>>
      BY <1>2, <2>1 DEF FlattenSeq
    <2>3. <<>> \in Seq(A) /\ Range(<<>>) = {}
      BY DEF Range
    <2>4. UNION {Range(ss[i]) : i \in {}} = {}
      OBVIOUS
    <2>5. QED
      BY <2>1, <2>2, <2>3, <2>4
  <1>3. CASE n # 0
    <2>1. flatten = CHOOSE f : f = [i \in 1 .. n |-> Body(f, i)]
      OBVIOUS
    <2>2. FlattenSeq(ss) = flatten[n]
      BY <1>3 DEF FlattenSeq
    <2> HIDE DEF flatten
    <2>3. n \in 1 .. n /\ 1 \in 1 .. n /\ 1 + 1 .. n = 2 .. n
      BY <1>1, <1>3
    <2>4. \A s \in B, r \in B : s \o r \in B /\ Range(s \o r) = Range(s) \cup Range(r)
      BY RangeOfBoth
    <2>5. \A k \in 2 .. n : k \in 1 .. n /\ k - 1 \in 1 .. n /\ k # 1
      BY <1>1
    <2> HIDE DEF B, n
    <2>6. PICK g : Repeats(g, 1, n, B, ss[1], Step)
      <3>1. Step \in [B \X (1 + 1 .. n) -> B]
        <4>1. \A p \in B \X (2 .. n) : p[1] \o ss[p[2]] \in B
          BY <1>1, <2>4, <2>5
        <4>2. QED
          BY <4>1, <2>3
      <3>2. 1 \in Int /\ n \in Int /\ 1 <= n /\ ss[1] \in B
        BY <1>1, <2>3
      <3> HIDE DEF Step
      <3>3. QED
        BY <3>1, <3>2, RepeatsExists
    <2>7. /\ g \in [1 .. n -> B] /\ g[1] = ss[1]
          /\ \A k \in 2 .. n : g[k] = Step[<<g[k - 1], k>>]
      <3> HIDE DEF Step
      <3>1. QED
        BY <2>3, <2>6 DEF Repeats
    <2>8. \A k \in 1 .. n : g[k] = Body(g, k)
      <3>1. ASSUME NEW k \in 2 .. n PROVE g[k] = g[k - 1] \o ss[k]
        <4>1. g[k - 1] \in B
          BY <2>5, <2>7
        <4>2. QED
          BY <2>7, <4>1
      <3>2. \A k \in 1 .. n : k = 1 \/ k \in 2 .. n
        BY <1>1
      <3>3. QED
        BY <2>5, <2>7, <3>1, <3>2
    <2>9. g = [k \in 1 .. n |-> Body(g, k)]
      <3> HIDE DEF Body
      <3>1. QED
        BY <2>7, <2>8
    <2>10. flatten = [k \in 1 .. n |-> Body(flatten, k)]
      <3> HIDE DEF Body
      <3>1. QED
        BY <2>1, <2>9
    <2> HIDE DEF Body
    <2>11. \A k \in 1 .. n : flatten[k] = Body(flatten, k)
      BY <2>10
    <2> DEFINE Upto(k) == UNION {Range(ss[i]) : i \in 1 .. k}
               P == {k \in 1 .. n : flatten[k] \in B /\ Range(flatten[k]) = Upto(k)}
    <2>12. 1 \in P
      <3>1. flatten[1] = ss[1]
        BY <2>3, <2>11 DEF Body
      <3>2. Upto(1) = Range(ss[1])
        <4>1. 1 .. 1 = {1}
          OBVIOUS
        <4>2. QED
          BY <4>1
      <3>3. QED
        BY <1>1, <2>3, <3>1, <3>2
    <2>13. ASSUME NEW k \in 1 + 1 .. n, k - 1 \in P PROVE k \in P
      <3>1. k \in 2 .. n /\ k \in 1 .. n /\ k # 1
        BY <2>3, <2>5, <2>13
      <3>2. flatten[k] = flatten[k - 1] \o ss[k]
        BY <2>11, <3>1 DEF Body
      <3>3. /\ flatten[k] \in B
            /\ Range(flatten[k]) = Upto(k - 1) \cup Range(ss[k])
        BY <1>1, <2>4, <2>13, <3>1, <3>2
      <3>4. Upto(k) = Upto(k - 1) \cup Range(ss[k])
        <4>1. 1 .. k = (1 .. k - 1) \cup {k}
          BY <3>1
        <4>2. QED
          BY <4>1
      <3> HIDE DEF Upto
      <3>5. QED
        BY <3>1, <3>3, <3>4
    <2> HIDE DEF P
    <2>14. 1 .. n \subseteq P
      <3>1. 1 \in Int /\ n \in Int
        BY <1>1
      <3>2. QED
        BY <2>12, <2>13, <3>1, Induct
    <2>15. QED
      BY <1>1, <2>2, <2>3, <2>14 DEF P, B
  <1>4. QED
    BY <1>2, <1>3

\* What is made of an answer are citations of the unit, in the text.
LEMMA CitationsFromResultIs ==
  ASSUME NEW t \in Seq(STRING), NEW item \in UnitsOf(t), NEW parsed \in Seq(Cited)
  PROVE  /\ CitationsFromResult(t, item, parsed) \in Seq(CitationsFor(t, item))
         /\ CitationsFromResult(t, item, parsed) \in Seq(CitationsIn(t))
  <1> DEFINE ss == [k \in DOMAIN parsed |-> CitationsOf(t, item, parsed[k])]
  <1>1. \A k \in DOMAIN parsed : CitationsOf(t, item, parsed[k]) \in Seq(CitationsFor(t, item))
    BY CitationsOfIs
  <1>2. ss \in Seq(Seq(CitationsFor(t, item)))
    BY <1>1
  <1>3. CitationsFromResult(t, item, parsed) = FlattenSeq(ss)
    BY DEF CitationsFromResult
  <1> HIDE DEF ss
  <1>4. CitationsFromResult(t, item, parsed) \in Seq(CitationsFor(t, item))
    BY <1>2, <1>3, FlattenIs
  <1>5. CitationsFor(t, item) \subseteq CitationsIn(t)
    BY DEF CitationsFor
  <1>6. QED
    BY <1>4, <1>5

-----------------------------------------------------------------------------
(* The issues that are kept, and the units *)

IssueLists(t) == {kept \in Seq(Issues(t)) : Len(kept) <= MaxIssues}
IssueItem == [code : Seq(STRING), label : STRING, query : STRING, quotes : Seq(Seq(STRING))]

\* An issue has a name whatever the LLM calls it.
LEMMA IssueIs ==
  ASSUME NEW t \in Seq(STRING), NEW answered \in IssueItem
  PROVE  Issue(t, answered) \in Issues(t)
  <1> DEFINE domain == NormalizeDomain(answered.code)
             label == IF answered.label = "" THEN DomainLabel[domain] ELSE answered.label
             spans == ResolveSpans(t, answered.quotes)
  <1>1. answered.label \in STRING /\ answered.quotes \in Seq(Seq(STRING))
    BY DEF IssueItem
  <1>2. domain \in DOMAIN Codes
    BY NormalizeDomainIs
  <1>3. label \in STRING
    BY <1>1, <1>2, InputsAssumption
  <1>4. spans \in Seq(SpansOf(t))
    BY <1>1, ResolveSpansIs
  <1>5. Issue(t, answered) = [domain |-> domain, label |-> label, spans |-> spans]
    BY DEF Issue
  <1> HIDE DEF domain, label, spans
  <1>6. QED
    BY <1>2, <1>3, <1>4, <1>5 DEF Issues

\* Whatever the LLM answers, the issues keep the limit.
LEMMA KeptIssuesIs ==
  ASSUME NEW t \in Seq(STRING), NEW answer \in Seq(IssueItem)
  PROVE  KeptIssues(t, answer) \in IssueLists(t)
  <1> DEFINE asked == {k \in DOMAIN answer : answer[k].query # ""}
             Key(k) == <<NormalizeDomain(answer[k].code), answer[k].label>>
             S == {k \in asked : \A j \in asked : j < k => Key(j) # Key(k)}
             fresh == InOrder(S, <)
             n == Min({Len(fresh), MaxIssues})
  <1>1. KeptIssues(t, answer) = [i \in 1 .. n |-> Issue(t, answer[fresh[i]])]
    BY DEF KeptIssues
  <1>2. S \subseteq DOMAIN answer /\ DOMAIN answer = 1 .. Len(answer) /\ Len(answer) \in Nat
    <2>1. S \subseteq asked /\ asked \subseteq DOMAIN answer
      OBVIOUS
    <2> HIDE DEF S, asked
    <2>2. QED
      BY <2>1
  <1> HIDE DEF S
  <1>3. IsFiniteSet(S) /\ S \subseteq Int
    <2>1. IsFiniteSet(1 .. Len(answer))
      BY <1>2, FS_Interval
    <2>2. QED
      BY <1>2, <2>1, FS_Subset
  <1>4. Lists(fresh, S, PairsOf(S, <))
    BY <1>3, NumbersInOrder
  <1> HIDE DEF fresh
  <1>5. fresh \in [1 .. Cardinality(S) -> S] /\ Cardinality(S) \in Nat
    BY <1>3, <1>4, FS_CardinalityType DEF Lists
  <1>6. Len(fresh) = Cardinality(S) /\ Len(fresh) \in Nat
    BY <1>5
  <1>7. n \in Nat /\ n <= Len(fresh) /\ n <= MaxIssues
    <2>1. MaxIssues \in Nat /\ MaxIssues \in Int /\ Len(fresh) \in Int
      BY <1>6, AnalysisAssumption
    <2>2. /\ n \in Int /\ n <= Len(fresh) /\ n <= MaxIssues
          /\ n = Len(fresh) \/ n = MaxIssues
      BY <2>1, MinOfTwo, Zenon
    <2> HIDE DEF n
    <2>3. QED
      BY <1>6, <2>1, <2>2
  <1> HIDE DEF n
  <1>8. ASSUME NEW i \in 1 .. n PROVE Issue(t, answer[fresh[i]]) \in Issues(t)
    <2>1. i \in 1 .. Cardinality(S)
      BY <1>5, <1>6, <1>7
    <2>2. fresh[i] \in DOMAIN answer
      BY <1>2, <1>5, <2>1
    <2>3. answer[fresh[i]] \in IssueItem
      BY <2>2
    <2>4. QED
      BY <2>3, IssueIs
  <1> DEFINE kept == [i \in 1 .. n |-> Issue(t, answer[fresh[i]])]
  <1>9. kept \in Seq(Issues(t)) /\ Len(kept) = n
    BY <1>7, <1>8
  <1> HIDE DEF kept
  <1>10. QED
    BY <1>1, <1>7, <1>9 DEF IssueLists, kept

\* The units of a text are about spans of it.
LEMMA UnitsIs ==
  ASSUME NEW t \in Seq(STRING), NEW kept \in Seq(Issues(t))
  PROVE  /\ Units(t, kept) \in Seq(UnitsOf(t))
         /\ \A i \in DOMAIN Units(t, kept) :
              Units(t, kept)[i].domain \in {NoDomain} \cup Established(kept)
  <1> DEFINE chunks == ChunkText(SplitSentences(t), Window, Overlap)
             ofIssues == [i \in DOMAIN kept |-> IssueUnit(t, kept[i])]
             ofChunks == [i \in DOMAIN chunks |-> ChunkUnit(chunks[i])]
             Places == (0 .. Len(t)) \X (0 .. Len(t))
  <1>1. SpansOf(t) \subseteq Places /\ Len(t) \in Nat
    BY DEF SpansOf
  <1>2. chunks \in Seq(SpansOf(t))
    <2>1. AreParts(SplitSentences(t), t) /\ Window \in Nat \ {0} /\ Overlap \in Nat
      BY SentencesAreParts, AnalysisAssumption
    <2>2. QED
      BY <2>1, ChunksOfParts
  <1>3. \A issue \in Issues(t) : IssueUnit(t, issue) \in UnitsOf(t)
    <2>1. SUFFICES ASSUME NEW issue \in Issues(t) PROVE IssueUnit(t, issue) \in UnitsOf(t)
      OBVIOUS
    <2>2. issue.domain \in DOMAIN Codes /\ issue.spans \in Seq(SpansOf(t))
      BY DEF Issues
    <2>3. issue.spans \in Seq(Places) /\ << <<0, Len(t)>> >> \in Seq(Places)
      BY <1>1, <2>2
    <2>4. <<>> \in Seq((DOMAIN Category) \X Int)
      OBVIOUS
    <2>5. QED
      BY <2>2, <2>3, <2>4 DEF IssueUnit, Unit, UnitsOf
  <1>4. \A chunk \in SpansOf(t) : ChunkUnit(chunk) \in UnitsOf(t)
    BY <1>1 DEF ChunkUnit, Unit, UnitsOf
  <1>5. Units(t, kept) = ofIssues \o ofChunks
    BY DEF Units
  <1> HIDE DEF chunks
  <1>6. ofIssues \in Seq(UnitsOf(t))
    BY <1>3
  <1>7. ofChunks \in Seq(UnitsOf(t))
    BY <1>2, <1>4
  <1>8. /\ \A i \in DOMAIN ofIssues : ofIssues[i].domain \in {NoDomain} \cup Established(kept)
        /\ \A i \in DOMAIN ofChunks : ofChunks[i].domain \in {NoDomain} \cup Established(kept)
    BY DEF IssueUnit, ChunkUnit, Unit, Established
  <1> HIDE DEF ofIssues, ofChunks
  <1>9. QED
    BY <1>5, <1>6, <1>7, <1>8

-----------------------------------------------------------------------------
(***************************************************************************)
(* The inductive invariant.  What was sent is known as a set, for threads  *)
(* end in any order: it is what the answered calls cite.  The failures are *)
(* counted, so that they are all calls exactly if none is answered.  The   *)
(* last event is tied to the merged list of what was sent, which is where  *)
(* the theorems about MergeCitations apply.                                *)
(***************************************************************************)
Futures ==
  {[pc |-> "waiting"], [pc |-> "running"]}
    \cup [pc : {"ready", "taken"}, parsed : Replies \cup {Null}]
FailedCalls == {i \in DOMAIN call : call[i].pc = "taken" /\ call[i].parsed = Null}
Sent(i) == Range(CitationsFromResult(text, items[i], call[i].parsed))

UnitsAreOfIssues ==
  \A i \in DOMAIN items : items[i].domain \in {NoDomain} \cup Established(issues)

VerdictInv ==
  /\ text \in Texts
  /\ issues \in IssueLists(text)
  /\ dismissed \subseteq DOMAIN Codes /\ dismissed \cap Established(issues) = {}
CallInv ==
  /\ items \in Seq(UnitsOf(text))
  /\ UnitsAreOfIssues
  /\ call \in [DOMAIN call -> Futures]
  /\ phase \in {"received", "issues"} => call = <<>> /\ emitted = <<>>
  /\ phase \in {"calling", "leaving", "ended"} => DOMAIN call = DOMAIN items
  /\ Cardinality(Running) <= Workers
  /\ failed = Cardinality(FailedCalls)
SentInv ==
  /\ emitted \in Seq(CitationsIn(text))
  /\ Range(emitted) = UNION {Sent(i) : i \in Answered}
EndInv ==
  /\ phase \in Phases
  /\ session <=> phase # "ended"
  /\ \/ ending = Silence
     \/ /\ phase = "ended" /\ ending = Error
        /\ Answered = {} /\ emitted = <<>> /\ AllTaken
     \/ /\ phase = "ended" /\ ending = DoneWith(MergeCitations(emitted))
        /\ (Answered # {} \/ items = <<>>) /\ AllTaken
AnalysisInv == VerdictInv /\ CallInv /\ SentInv /\ EndInv

\* What a future is known to hold.
LEMMA FutureIs ==
  ASSUME NEW f \in Futures
  PROVE  /\ f.pc \in {"waiting", "running", "ready", "taken"}
         /\ f.pc \in {"ready", "taken"} =>
              f.parsed \in Replies \cup {Null} /\ f = [pc |-> f.pc, parsed |-> f.parsed]
  BY DEF Futures

\* A reply is not a failure.
LEMMA ReplyIs ==
  ASSUME NEW r \in Replies
  PROVE  r \in Seq(Cited) /\ r # Null
  BY InputsAssumption DEF Cited

\* The text of the request is text.
LEMMA TextIs ==
  ASSUME VerdictInv
  PROVE  text \in Seq(STRING)
  BY InputsAssumption DEF VerdictInv

\* Once there are calls, there is one for each unit, in finite number.
LEMMA CallsAre ==
  ASSUME CallInv, phase \in {"calling", "leaving", "ended"}
  PROVE  /\ DOMAIN call = 1 .. Len(items) /\ Len(items) \in Nat /\ DOMAIN items = 1 .. Len(items)
         /\ IsFiniteSet(DOMAIN call) /\ Cardinality(DOMAIN call) = Len(items)
         /\ IsFiniteSet(Running) /\ Cardinality(Running) \in Nat
         /\ IsFiniteSet(FailedCalls) /\ failed \in 0 .. Len(items)
         /\ failed = Len(items) => FailedCalls = DOMAIN call
         /\ Running \subseteq DOMAIN call /\ FailedCalls \subseteq DOMAIN call
         /\ Answered \subseteq DOMAIN call
  <1>1. /\ DOMAIN call = 1 .. Len(items) /\ Len(items) \in Nat /\ DOMAIN items = 1 .. Len(items)
        /\ failed = Cardinality(FailedCalls)
    BY DEF CallInv
  <1>2. IsFiniteSet(DOMAIN call) /\ Cardinality(DOMAIN call) = Len(items)
    <2>1. /\ IsFiniteSet(1 .. Len(items))
          /\ Cardinality(1 .. Len(items)) = IF 1 > Len(items) THEN 0 ELSE Len(items) - 1 + 1
      BY <1>1, FS_Interval
    <2>2. QED
      BY <1>1, <2>1
  <1>3. /\ Running \subseteq DOMAIN call /\ FailedCalls \subseteq DOMAIN call
        /\ Answered \subseteq DOMAIN call
    BY DEF Running, FailedCalls, Answered
  <1>4. IsFiniteSet(Running) /\ Cardinality(Running) \in Nat
    BY <1>2, <1>3, FS_Subset, FS_CardinalityType
  <1>5. /\ IsFiniteSet(FailedCalls) /\ Cardinality(FailedCalls) <= Cardinality(DOMAIN call)
        /\ Cardinality(DOMAIN call) = Cardinality(FailedCalls) => DOMAIN call = FailedCalls
    BY <1>2, <1>3, FS_Subset
  <1>6. Cardinality(FailedCalls) \in Nat
    BY <1>5, FS_CardinalityType
  <1>7. QED
    BY <1>1, <1>2, <1>3, <1>4, <1>5, <1>6

\* The invariant holds at first.
LEMMA InitEstablishes ==
  ASSUME Init
  PROVE  AnalysisInv
  <1>1. call = <<>> /\ DOMAIN call = {} /\ items = <<>> /\ issues = <<>> /\ emitted = <<>>
    BY DEF Init
  <1>2. Cardinality({}) = 0 /\ Workers \in Nat /\ MaxIssues \in Nat
    BY FS_EmptySet, AnalysisAssumption
  <1>3. VerdictInv
    BY <1>1, <1>2 DEF Init, VerdictInv, IssueLists, Established
  <1>4. Running = {} /\ FailedCalls = {} /\ Answered = {}
    BY <1>1 DEF Running, FailedCalls, Answered
  <1>5. CallInv
    BY <1>1, <1>2, <1>4 DEF Init, CallInv, UnitsAreOfIssues, Established
  <1>6. SentInv
    BY <1>1, <1>4 DEF SentInv, Range
  <1>7. EndInv
    BY DEF Init, EndInv, Phases
  <1>8. QED
    BY <1>3, <1>5, <1>6, <1>7 DEF AnalysisInv

\* What there is before the calls.
LEMMA BeforeCalls ==
  ASSUME AnalysisInv, phase \in {"received", "issues"}
  PROVE  /\ call = <<>> /\ DOMAIN call = {} /\ emitted = <<>> /\ failed = 0
         /\ Running = {} /\ FailedCalls = {} /\ Answered = {}
         /\ ending = Silence /\ session = TRUE /\ Cardinality({}) = 0
  <1>1. call = <<>> /\ DOMAIN call = {} /\ emitted = <<>>
    BY DEF AnalysisInv, CallInv
  <1>2. Running = {} /\ FailedCalls = {} /\ Answered = {}
    BY <1>1 DEF Running, FailedCalls, Answered
  <1>3. Cardinality({}) = 0
    BY FS_EmptySet
  <1>4. failed = 0
    BY <1>2, <1>3 DEF AnalysisInv, CallInv
  <1>5. ending = Silence /\ session = TRUE
    BY DEF AnalysisInv, EndInv
  <1>6. QED
    BY <1>1, <1>2, <1>3, <1>4, <1>5

\* The answer about the issues keeps the invariant.
LEMMA ExtractKeeps ==
  ASSUME AnalysisInv, ExtractIssues
  PROVE  AnalysisInv'
  <1>1. /\ phase = "received" /\ phase' = "issues" /\ text' = text /\ call' = call
        /\ emitted' = emitted /\ failed' = failed /\ ending' = ending /\ session' = session
        /\ items' = Units(text, issues')
    BY DEF ExtractIssues
  <1>2. /\ call = <<>> /\ DOMAIN call = {} /\ emitted = <<>> /\ failed = 0
        /\ ending = Silence /\ session = TRUE /\ Cardinality({}) = 0
    BY <1>1, BeforeCalls
  <1>3. VerdictInv /\ text \in Seq(STRING) /\ text \in Texts
    BY TextIs DEF AnalysisInv, VerdictInv
  <1>4. /\ issues' \in IssueLists(text)
        /\ dismissed' \subseteq DOMAIN Codes /\ dismissed' \cap Established(issues') = {}
    <2>1. CASE UNCHANGED <<issues, dismissed>>
      BY <1>3, <2>1 DEF VerdictInv
    <2>2. ASSUME NEW answer \in IssueReplies, issues' = KeptIssues(text, answer.issues),
                 dismissed' = DismissedDomains(answer.dismissed, issues')
          PROVE  /\ issues' \in IssueLists(text)
                 /\ dismissed' \subseteq DOMAIN Codes
                 /\ dismissed' \cap Established(issues') = {}
      <3>1. answer.issues \in Seq(IssueItem)
        BY InputsAssumption DEF IssueItem
      <3>2. issues' \in IssueLists(text)
        BY <1>3, <2>2, <3>1, KeptIssuesIs
      <3>3. \A c : NormalizeDomain(c) \in DOMAIN Codes
        BY NormalizeDomainIs
      <3>4. QED
        BY <2>2, <3>2, <3>3 DEF DismissedDomains
    <2>3. QED
      BY <2>1, <2>2 DEF ExtractIssues
  <1>5. VerdictInv'
    BY <1>1, <1>3, <1>4 DEF VerdictInv
  <1>6. Running' = {} /\ FailedCalls' = {} /\ Answered' = {}
    BY <1>1, <1>2 DEF Running, FailedCalls, Answered
  <1>7. items' \in Seq(UnitsOf(text)) /\ UnitsAreOfIssues'
    <2>1. issues' \in Seq(Issues(text))
      BY <1>4 DEF IssueLists
    <2>2. QED
      BY <1>1, <1>3, <2>1, UnitsIs DEF UnitsAreOfIssues, Established
  <1>8. CallInv'
    <2>1. call' \in [DOMAIN call' -> Futures]
      BY <1>1, <1>2
    <2>2. QED
      BY <1>1, <1>2, <1>6, <1>7, <2>1, AnalysisAssumption DEF CallInv
  <1>9. SentInv'
    BY <1>1, <1>2, <1>6 DEF SentInv, Range
  <1>10. EndInv'
    BY <1>1, <1>2 DEF EndInv, Phases
  <1>11. QED
    BY <1>5, <1>8, <1>9, <1>10 DEF AnalysisInv

\* The search of candidates keeps the invariant.
LEMMA RetrieveKeeps ==
  ASSUME AnalysisInv, RetrieveUnits
  PROVE  AnalysisInv'
  <1>1. /\ phase = "issues" /\ phase' = "calling" /\ text' = text /\ issues' = issues
        /\ dismissed' = dismissed
        /\ emitted' = emitted /\ failed' = failed /\ ending' = ending /\ session' = session
        /\ call' = [i \in DOMAIN items' |-> [pc |-> "waiting"]]
    BY DEF RetrieveUnits
  <1>2. /\ emitted = <<>> /\ failed = 0 /\ ending = Silence /\ session = TRUE
        /\ Cardinality({}) = 0
    BY <1>1, BeforeCalls
  <1>3. VerdictInv'
    BY <1>1 DEF AnalysisInv, VerdictInv
  <1>4. Running' = {} /\ FailedCalls' = {} /\ Answered' = {} /\ DOMAIN call' = DOMAIN items'
    BY <1>1 DEF Running, FailedCalls, Answered
  <1>5. items' \in Seq(UnitsOf(text)) /\ UnitsAreOfIssues'
    <2>1. PICK found \in [DOMAIN items -> DocLists] :
            LET kept == InOrder({i \in DOMAIN items : found[i] # <<>>}, <)
            IN items' = [k \in DOMAIN kept |-> [items[kept[k]] EXCEPT !.docs = found[kept[k]]]]
      BY DEF RetrieveUnits
    <2> DEFINE S == {i \in DOMAIN items : found[i] # <<>>}
               kept == InOrder(S, <)
    <2>2. items' = [k \in DOMAIN kept |-> [items[kept[k]] EXCEPT !.docs = found[kept[k]]]]
      BY <2>1
    <2>3. items \in Seq(UnitsOf(text)) /\ Len(items) \in Nat /\ DOMAIN items = 1 .. Len(items)
      BY DEF AnalysisInv, CallInv
    <2>4. IsFiniteSet(S) /\ S \subseteq Int /\ S \subseteq DOMAIN items
      <3>1. IsFiniteSet(1 .. Len(items))
        BY <2>3, FS_Interval
      <3>2. QED
        BY <2>3, <3>1, FS_Subset
    <2> HIDE DEF S
    <2>5. Lists(kept, S, PairsOf(S, <))
      BY <2>4, NumbersInOrder
    <2> HIDE DEF kept
    <2>6. kept \in [1 .. Cardinality(S) -> S] /\ Cardinality(S) \in Nat
      BY <2>4, <2>5, FS_CardinalityType DEF Lists
    <2>7. kept \in Seq(S)
      BY <2>6
    <2>8. ASSUME NEW k \in DOMAIN kept
          PROVE  /\ [items[kept[k]] EXCEPT !.docs = found[kept[k]]] \in UnitsOf(text)
                 /\ [items[kept[k]] EXCEPT !.docs = found[kept[k]]].domain
                      \in {NoDomain} \cup Established(issues)
      <3>1. kept[k] \in DOMAIN items
        BY <2>4, <2>6
      <3>2. /\ items[kept[k]] \in UnitsOf(text)
            /\ items[kept[k]].domain \in {NoDomain} \cup Established(issues)
            /\ found[kept[k]] \in Seq((DOMAIN Category) \X Int)
        BY <2>3, <3>1, InputsAssumption DEF AnalysisInv, CallInv, UnitsAreOfIssues
      <3>3. QED
        BY <3>2 DEF UnitsOf
    <2>9. Established(issues)' = Established(issues)
      BY <1>1 DEF Established
    <2> DEFINE e(k) == [items[kept[k]] EXCEPT !.docs = found[kept[k]]]
    <2>10. items' = [k \in DOMAIN kept |-> e(k)]
      BY <2>2
    <2>11. \A k \in DOMAIN kept : /\ e(k) \in UnitsOf(text)
                                  /\ e(k).domain \in {NoDomain} \cup Established(issues)
      BY <2>8
    <2> HIDE DEF e
    <2>12. items' \in Seq(UnitsOf(text))
      BY <2>7, <2>10, <2>11
    <2>13. UnitsAreOfIssues'
      BY <2>9, <2>10, <2>11 DEF UnitsAreOfIssues
    <2>14. QED
      BY <2>12, <2>13
  <1>6. call' \in [DOMAIN call' -> Futures]
    BY <1>1 DEF Futures
  <1>7. CallInv'
    BY <1>1, <1>2, <1>4, <1>5, <1>6, AnalysisAssumption DEF CallInv
  <1>8. SentInv'
    BY <1>1, <1>2, <1>4 DEF SentInv, Range
  <1>9. EndInv'
    BY <1>1, <1>2 DEF EndInv, Phases
  <1>10. QED
    BY <1>3, <1>7, <1>8, <1>9 DEF AnalysisInv

\* The failure of the search keeps the invariant.
LEMMA RetrievalFailsKeeps ==
  ASSUME AnalysisInv, RetrievalFails
  PROVE  AnalysisInv'
  <1>1. /\ phase = "issues" /\ phase' = "ended" /\ text' = text /\ issues' = issues
        /\ dismissed' = dismissed /\ call' = call /\ items' = <<>>
        /\ emitted' = emitted /\ failed' = failed /\ ending' = Error /\ session' = FALSE
    BY DEF RetrievalFails
  <1>2. /\ call = <<>> /\ DOMAIN call = {} /\ emitted = <<>> /\ failed = 0
        /\ Cardinality({}) = 0
    BY <1>1, BeforeCalls
  <1>3. VerdictInv'
    BY <1>1 DEF AnalysisInv, VerdictInv
  <1>4. Running' = {} /\ FailedCalls' = {} /\ Answered' = {} /\ AllTaken'
    BY <1>1, <1>2 DEF Running, FailedCalls, Answered, AllTaken
  <1>5. CallInv'
    <2>1. call' \in [DOMAIN call' -> Futures]
      BY <1>1, <1>2
    <2>2. QED
      BY <1>1, <1>2, <1>4, <2>1, AnalysisAssumption DEF CallInv, UnitsAreOfIssues, Established
  <1>6. SentInv'
    BY <1>1, <1>2, <1>4 DEF SentInv, Range
  <1>7. EndInv'
    BY <1>1, <1>2, <1>4 DEF EndInv, Phases
  <1>8. QED
    BY <1>3, <1>5, <1>6, <1>7 DEF AnalysisInv

\* A step of the pool: one call that was not taken goes on, to a call that is
\* not taken, and fewer than Workers others run.
LEMMA PoolKeeps ==
  ASSUME AnalysisInv, NEW i \in DOMAIN call, NEW f \in Futures,
         phase \in {"calling", "leaving", "ended"},
         call[i].pc # "taken", f.pc # "taken",
         f.pc = "running" => call[i].pc # "running" /\ Cardinality(Running) < Workers,
         call' = [call EXCEPT ![i] = f],
         UNCHANGED <<phase, text, issues, dismissed, items, emitted, failed, ending, session>>
  PROVE  AnalysisInv'
  <1>1. /\ IsFiniteSet(Running) /\ Cardinality(Running) \in Nat /\ Cardinality(Running) <= Workers
        /\ Workers \in Nat
    BY CallsAre, AnalysisAssumption DEF AnalysisInv, CallInv
  <1>2. /\ call \in [DOMAIN call -> Futures] /\ DOMAIN call' = DOMAIN call /\ call'[i] = f
        /\ \A j \in DOMAIN call : j # i => call'[j] = call[j]
        /\ call' \in [DOMAIN call' -> Futures]
    BY DEF AnalysisInv, CallInv
  <1>3. Answered' = Answered /\ FailedCalls' = FailedCalls
    BY <1>2 DEF Answered, FailedCalls
  <1>4. Cardinality(Running') <= Workers
    <2>1. CASE f.pc = "running"
      <3>1. Running' = Running \cup {i} /\ i \notin Running
        BY <1>2, <2>1 DEF Running
      <3>2. Cardinality(Running \cup {i}) = Cardinality(Running) + 1
        BY <1>1, <3>1, FS_AddElement
      <3>3. QED
        BY <1>1, <2>1, <3>1, <3>2
    <2>2. CASE f.pc # "running"
      <3>1. Running' \in SUBSET Running
        BY <1>2, <2>2 DEF Running
      <3>2. IsFiniteSet(Running') /\ Cardinality(Running') <= Cardinality(Running)
        BY <1>1, <3>1, FS_Subset
      <3>3. Cardinality(Running') \in Nat
        BY <3>2, FS_CardinalityType
      <3>4. QED
        BY <1>1, <3>2, <3>3
    <2>3. QED
      BY <2>1, <2>2
  <1>5. VerdictInv'
    BY DEF AnalysisInv, VerdictInv
  <1>6. CallInv'
    <2>1. phase \notin {"received", "issues"}
      OBVIOUS
    <2>2. QED
      BY <1>2, <1>3, <1>4, <2>1 DEF AnalysisInv, CallInv, UnitsAreOfIssues, Established
  <1>7. SentInv'
    <2>1. \A j \in Answered : call'[j] = call[j]
      BY <1>2 DEF Answered
    <2>2. {Range(CitationsFromResult(text, items[j], call'[j].parsed)) : j \in Answered}
            = {Range(CitationsFromResult(text, items[j], call[j].parsed)) : j \in Answered}
      BY <2>1
    <2>3. QED
      BY <1>3, <2>2 DEF AnalysisInv, SentInv, Sent
  <1>8. EndInv'
    <2>1. AllTaken <=> FALSE
      BY DEF AllTaken
    <2>2. ending = Silence
      BY <2>1 DEF AnalysisInv, EndInv
    <2>3. QED
      BY <2>2 DEF AnalysisInv, EndInv
  <1>9. QED
    BY <1>5, <1>6, <1>7, <1>8 DEF AnalysisInv

\* The start of a call keeps the invariant.
LEMMA StartKeeps ==
  ASSUME AnalysisInv, NEW i \in DOMAIN call, StartCall(i)
  PROVE  AnalysisInv'
  <1>1. [pc |-> "running"] \in Futures /\ [pc |-> "running"].pc = "running"
    BY DEF Futures
  <1>2. call[i].pc = "waiting"
    BY DEF StartCall, Waiting
  <1>3. /\ phase \in {"calling", "leaving", "ended"} /\ Cardinality(Running) < Workers
        /\ call' = [call EXCEPT ![i] = [pc |-> "running"]]
        /\ UNCHANGED <<phase, text, issues, dismissed, items, emitted, failed, ending, session>>
    BY DEF StartCall
  <1>4. QED
    BY <1>1, <1>2, <1>3, PoolKeeps

\* The end of a call keeps the invariant.
LEMMA EndKeeps ==
  ASSUME AnalysisInv, NEW i \in DOMAIN call, EndCall(i)
  PROVE  AnalysisInv'
  <1>1. PICK result \in Replies \cup {Null} :
          call' = [call EXCEPT ![i] = [pc |-> "ready", parsed |-> result]]
    BY DEF EndCall
  <1> DEFINE f == [pc |-> "ready", parsed |-> result]
  <1>2. f \in Futures /\ f.pc = "ready"
    BY DEF Futures
  <1>3. call[i].pc = "running"
    BY DEF EndCall, Running
  <1>4. phase \in {"calling", "leaving", "ended"}
    <2>1. call # <<>>
      OBVIOUS
    <2>2. QED
      BY <2>1 DEF AnalysisInv, CallInv, EndInv, Phases
  <1>5. call' = [call EXCEPT ![i] = f]
    BY <1>1
  <1>6. UNCHANGED <<phase, text, issues, dismissed, items, emitted, failed, ending, session>>
    BY DEF EndCall
  <1> HIDE DEF f
  <1>7. QED
    BY <1>2, <1>3, <1>4, <1>5, <1>6, PoolKeeps

\* An answer that is taken keeps the invariant.
LEMMA TakeKeeps ==
  ASSUME AnalysisInv, NEW i \in DOMAIN call, TakeResult(i)
  PROVE  AnalysisInv'
  <1> DEFINE r == call[i].parsed
             new == CitationsFromResult(text, items[i], r)
  <1>1. /\ phase = "calling" /\ call[i].pc = "ready" /\ call' = [call EXCEPT ![i].pc = "taken"]
        /\ UNCHANGED <<phase, text, issues, dismissed, items, ending, session>>
    BY DEF TakeResult, TakeCall
  <1>2. /\ IsFiniteSet(Running) /\ Cardinality(Running) \in Nat /\ Cardinality(Running) <= Workers
        /\ Workers \in Nat /\ IsFiniteSet(FailedCalls) /\ failed = Cardinality(FailedCalls)
        /\ DOMAIN call = DOMAIN items /\ items \in Seq(UnitsOf(text))
        /\ call \in [DOMAIN call -> Futures]
    BY <1>1, CallsAre, AnalysisAssumption DEF AnalysisInv, CallInv
  <1>3. r \in Replies \cup {Null} /\ call[i] = [pc |-> "ready", parsed |-> r]
    <2>1. call[i] \in Futures
      BY <1>2
    <2>2. QED
      BY <1>1, <2>1, FutureIs
  <1>4. /\ DOMAIN call' = DOMAIN call /\ call'[i] = [pc |-> "taken", parsed |-> r]
        /\ \A j \in DOMAIN call : j # i => call'[j] = call[j]
    BY <1>1, <1>3
  <1>5. [pc |-> "taken", parsed |-> r] \in Futures
    BY <1>3 DEF Futures
  <1>6. call' \in [DOMAIN call' -> Futures]
    BY <1>1, <1>2, <1>4, <1>5
  <1>7. VerdictInv'
    BY <1>1 DEF AnalysisInv, VerdictInv
  <1>8. UnitsAreOfIssues'
    BY <1>1 DEF AnalysisInv, CallInv, UnitsAreOfIssues, Established
  <1>9. Cardinality(Running') <= Workers
    <2>1. Running' \in SUBSET Running
      BY <1>4 DEF Running
    <2>2. IsFiniteSet(Running') /\ Cardinality(Running') <= Cardinality(Running)
      BY <1>2, <2>1, FS_Subset
    <2>3. Cardinality(Running') \in Nat
      BY <2>2, FS_CardinalityType
    <2>4. QED
      BY <1>2, <2>2, <2>3
  <1>10. i \notin Answered /\ i \notin FailedCalls
    BY <1>1 DEF Answered, FailedCalls
  <1>11. \A j \in Answered : j \in DOMAIN call /\ j # i /\ call'[j] = call[j]
    BY <1>4, <1>10 DEF Answered
  <1>12. ending = Silence
    BY <1>1 DEF AnalysisInv, EndInv
  <1>13. EndInv'
    BY <1>1, <1>12 DEF AnalysisInv, EndInv
  <1>14. CASE r = Null
    <2>1. failed' = failed + 1 /\ emitted' = emitted
      BY <1>14 DEF TakeResult
    <2>2. FailedCalls' = FailedCalls \cup {i}
      BY <1>4, <1>14 DEF FailedCalls
    <2>3. failed' = Cardinality(FailedCalls')
      BY <1>2, <1>10, <2>1, <2>2, FS_AddElement
    <2>4. Answered' = Answered
      BY <1>1, <1>4, <1>14 DEF Answered
    <2>5. {Range(CitationsFromResult(text, items[j], call'[j].parsed)) : j \in Answered}
            = {Range(CitationsFromResult(text, items[j], call[j].parsed)) : j \in Answered}
      BY <1>11
    <2>6. SentInv'
      BY <1>1, <2>1, <2>4, <2>5 DEF AnalysisInv, SentInv, Sent
    <2>7. CallInv'
      BY <1>1, <1>2, <1>4, <1>6, <1>9, <1>8, <2>3 DEF CallInv
    <2>8. QED
      BY <1>7, <1>13, <2>6, <2>7 DEF AnalysisInv
  <1>15. CASE r # Null
    <2>1. failed' = failed /\ emitted' = emitted \o new
      BY <1>15 DEF TakeResult
    <2>2. FailedCalls' = FailedCalls
      BY <1>1, <1>4, <1>15 DEF FailedCalls
    <2>3. Answered' = Answered \cup {i}
      BY <1>4, <1>15 DEF Answered
    <2>4. new \in Seq(CitationsIn(text))
      <3>1. r \in Seq(Cited)
        BY <1>3, <1>15, ReplyIs
      <3>2. items[i] \in UnitsOf(text) /\ text \in Seq(STRING)
        BY <1>2, TextIs DEF AnalysisInv
      <3>3. QED
        BY <3>1, <3>2, CitationsFromResultIs
    <2> DEFINE Given(j) == Range(CitationsFromResult(text, items[j], call'[j].parsed))
    <2>5. Given(i) = Range(new)
      BY <1>4
    <2> HIDE DEF new
    <2>6. emitted \in Seq(CitationsIn(text)) /\ Range(emitted) = UNION {Sent(j) : j \in Answered}
      BY DEF AnalysisInv, SentInv
    <2>7. emitted' \in Seq(CitationsIn(text)) /\ Range(emitted') = Range(emitted) \cup Range(new)
      BY <2>1, <2>4, <2>6, RangeOfBoth
    <2>8. \A j \in Answered : Sent(j) = Given(j)
      BY <1>11 DEF Sent
    <2>9. {Sent(j)' : j \in Answered'} = {Given(j) : j \in Answered'}
      BY <1>1 DEF Sent
    <2> HIDE DEF Given
    <2>10. UNION {Given(j) : j \in Answered'} = (UNION {Sent(j) : j \in Answered}) \cup Given(i)
      <3>1. {Given(j) : j \in Answered'} = {Given(j) : j \in Answered} \cup {Given(i)}
        BY <2>3
      <3>2. {Given(j) : j \in Answered} = {Sent(j) : j \in Answered}
        BY <2>8
      <3>3. \A X, y : UNION (X \cup {y}) = (UNION X) \cup y
        OBVIOUS
      <3>4. QED
        BY <3>1, <3>2, <3>3, Zenon
    <2>11. SentInv'
      <3>1. Range(emitted') = UNION {Given(j) : j \in Answered'}
        BY <2>5, <2>6, <2>7, <2>10, Zenon
      <3>2. emitted' \in Seq(CitationsIn(text'))
        BY <1>1, <2>7
      <3>3. QED
        BY <2>9, <3>1, <3>2 DEF SentInv
    <2>12. CallInv'
      BY <1>1, <1>2, <1>4, <1>6, <1>9, <1>8, <2>1, <2>2 DEF CallInv
    <2>13. QED
      BY <1>7, <1>13, <2>11, <2>12 DEF AnalysisInv
  <1>16. QED
    BY <1>14, <1>15

\* The end of the stream keeps the invariant: failures are counted.
LEMMA FinishKeeps ==
  ASSUME AnalysisInv, Finish
  PROVE  AnalysisInv'
  <1>1. /\ phase = "calling" /\ AllTaken /\ phase' = "ended" /\ session' = FALSE
        /\ ending' = IF AllFailed THEN Error ELSE DoneWith(MergeCitations(emitted))
        /\ UNCHANGED <<text, issues, dismissed, items, call, emitted, failed>>
    BY DEF Finish
  <1>2. /\ Running' = Running /\ FailedCalls' = FailedCalls /\ Answered' = Answered
        /\ AllTaken' = AllTaken
    BY <1>1 DEF Running, FailedCalls, Answered, AllTaken
  <1>3. VerdictInv'
    BY <1>1 DEF AnalysisInv, VerdictInv
  <1>4. CallInv'
    BY <1>1, <1>2 DEF AnalysisInv, CallInv, UnitsAreOfIssues, Established
  <1>5. SentInv'
    BY <1>1, <1>2 DEF AnalysisInv, SentInv, Sent
  <1>6. /\ DOMAIN call = 1 .. Len(items) /\ Len(items) \in Nat /\ failed \in 0 .. Len(items)
        /\ failed = Len(items) => FailedCalls = DOMAIN call
        /\ items \in Seq(UnitsOf(text)) /\ emitted \in Seq(CitationsIn(text))
        /\ failed = Cardinality(FailedCalls) /\ Cardinality(DOMAIN call) = Len(items)
        /\ Range(emitted) = UNION {Sent(j) : j \in Answered}
    BY <1>1, CallsAre DEF AnalysisInv, CallInv, SentInv
  <1>7. CASE AllFailed
    <2>1. FailedCalls = DOMAIN call
      BY <1>6, <1>7 DEF AllFailed
    <2>2. Answered = {}
      BY <2>1 DEF Answered, FailedCalls
    <2>3. Range(emitted) = {}
      BY <1>6, <2>2
    <2>4. emitted = <<>>
      <3>1. \A k \in DOMAIN emitted : emitted[k] \in Range(emitted)
        BY DEF Range
      <3>2. DOMAIN emitted = {}
        BY <2>3, <3>1
      <3>3. QED
        BY <1>6, <3>2
    <2>5. QED
      BY <1>1, <1>2, <1>3, <1>4, <1>5, <1>7, <2>2, <2>4 DEF AnalysisInv, EndInv, Phases
  <1>8. CASE ~AllFailed
    <2>1. Answered # {} \/ items = <<>>
      <3>1. SUFFICES ASSUME items # <<>> PROVE Answered # {}
        OBVIOUS
      <3>2. FailedCalls # DOMAIN call
        BY <1>6, <1>8, <3>1 DEF AllFailed
      <3>3. PICK j \in DOMAIN call : j \notin FailedCalls
        BY <3>2 DEF FailedCalls
      <3>4. j \in Answered
        BY <1>1, <3>3 DEF AllTaken, FailedCalls, Answered
      <3>5. QED
        BY <3>4
    <2>2. ending' = DoneWith(MergeCitations(emitted'))
      BY <1>1, <1>8
    <2>3. EndInv'
      BY <1>1, <1>2, <2>1, <2>2 DEF EndInv, Phases
    <2>4. QED
      BY <1>3, <1>4, <1>5, <2>3 DEF AnalysisInv
  <1>9. QED
    BY <1>7, <1>8

\* Steps of the generator that change neither the calls nor what was sent.
LEMMA PhaseKeeps ==
  ASSUME AnalysisInv, phase \in {"calling", "leaving"},
         phase' \in {"leaving", "ended"}, session' <=> phase' # "ended",
         UNCHANGED <<text, issues, dismissed, items, call, emitted, failed, ending>>
  PROVE  AnalysisInv'
  <1>1. /\ Running' = Running /\ FailedCalls' = FailedCalls /\ Answered' = Answered
    BY DEF Running, FailedCalls, Answered
  <1>2. VerdictInv'
    BY DEF AnalysisInv, VerdictInv
  <1>3. CallInv'
    BY <1>1 DEF AnalysisInv, CallInv, UnitsAreOfIssues, Established
  <1>4. SentInv'
    BY <1>1 DEF AnalysisInv, SentInv, Sent
  <1>5. EndInv'
    BY DEF AnalysisInv, EndInv, Phases
  <1>6. QED
    BY <1>2, <1>3, <1>4, <1>5 DEF AnalysisInv

\* A step of nothing keeps the invariant.
LEMMA StutterKeeps ==
  ASSUME AnalysisInv, UNCHANGED vars
  PROVE  AnalysisInv'
  <1>1. UNCHANGED <<phase, text, issues, dismissed, items, call, emitted, failed, ending, session>>
    BY DEF vars
  <1>2. /\ Running' = Running /\ FailedCalls' = FailedCalls /\ Answered' = Answered
        /\ AllTaken' = AllTaken
    BY <1>1 DEF Running, FailedCalls, Answered, AllTaken
  <1>3. VerdictInv'
    BY <1>1 DEF AnalysisInv, VerdictInv
  <1>4. CallInv'
    BY <1>1, <1>2 DEF AnalysisInv, CallInv, UnitsAreOfIssues, Established
  <1>5. SentInv'
    BY <1>1, <1>2 DEF AnalysisInv, SentInv, Sent
  <1>6. EndInv'
    BY <1>1, <1>2 DEF AnalysisInv, EndInv
  <1>7. QED
    BY <1>3, <1>4, <1>5, <1>6 DEF AnalysisInv

\* The inductive invariant: whatever the answers, the units and the threads.
THEOREM AnalysisInvariant == Spec => []AnalysisInv
  <1>1. Init => AnalysisInv
    BY InitEstablishes
  <1>2. AnalysisInv /\ [Next]_vars => AnalysisInv'
    <2>1. SUFFICES ASSUME AnalysisInv, [Next]_vars PROVE AnalysisInv'
      OBVIOUS
    <2>2. CASE ExtractIssues
      BY <2>1, <2>2, ExtractKeeps
    <2>3. CASE RetrieveUnits
      BY <2>1, <2>3, RetrieveKeeps
    <2>4. CASE RetrievalFails
      BY <2>1, <2>4, RetrievalFailsKeeps
    <2>5. ASSUME NEW i \in DOMAIN call, StartCall(i) PROVE AnalysisInv'
      BY <2>1, <2>5, StartKeeps
    <2>6. ASSUME NEW i \in DOMAIN call, EndCall(i) PROVE AnalysisInv'
      BY <2>1, <2>6, EndKeeps
    <2>7. ASSUME NEW i \in DOMAIN call, TakeResult(i) PROVE AnalysisInv'
      BY <2>1, <2>7, TakeKeeps
    <2>8. CASE Finish
      BY <2>1, <2>8, FinishKeeps
    <2>9. CASE Leave
      BY <2>1, <2>9, PhaseKeeps DEF Leave
    <2>10. CASE Disconnect
      <3>1. session = TRUE
        BY <2>1, <2>10 DEF Disconnect, AnalysisInv, EndInv
      <3>2. QED
        BY <2>1, <2>10, <3>1, PhaseKeeps DEF Disconnect
    <2>11. CASE UNCHANGED vars
      BY <2>1, <2>11, StutterKeeps
    <2>12. QED
      BY <2>1, <2>2, <2>3, <2>4, <2>5, <2>6, <2>7, <2>8, <2>9, <2>10, <2>11
         DEF Next, Calls, Generator
  <1>3. QED
    BY <1>1, <1>2, PTL DEF Spec

-----------------------------------------------------------------------------
(* The theorems about the stream *)

\* The types.
THEOREM TypesAreCorrect == Spec => []TypeOK
  <1>1. AnalysisInv => TypeOK
    <2>1. SUFFICES ASSUME AnalysisInv PROVE TypeOK
      OBVIOUS
    <2>2. VerdictInv /\ CallInv /\ SentInv /\ EndInv
      BY <2>1 DEF AnalysisInv
    <2>3. text \in Texts /\ issues \in Seq(Issues(text)) /\ Len(issues) <= MaxIssues
      BY <2>2 DEF VerdictInv, IssueLists
    <2>4. TextSpans = SpansOf(text)
      BY DEF TextSpans, SpansOf
    <2>5. ASSUME NEW i \in DOMAIN issues
          PROVE  issues[i].domain \in DOMAIN Codes /\ Range(issues[i].spans) \subseteq TextSpans
      <3>1. issues[i] \in Issues(text)
        BY <2>3
      <3>2. issues[i].domain \in DOMAIN Codes /\ issues[i].spans \in Seq(SpansOf(text))
        BY <3>1 DEF Issues
      <3>3. QED
        BY <2>4, <3>2 DEF Range
    <2>6. \A i \in DOMAIN call : call[i].pc \in {"waiting", "running", "ready", "taken"}
      <3>1. \A i \in DOMAIN call : call[i] \in Futures
        BY <2>2 DEF CallInv
      <3>2. QED
        BY <3>1, FutureIs
    <2>7. ASSUME NEW k \in DOMAIN emitted PROVE IsCitation(emitted[k])
      <3>1. emitted[k] \in CitationsIn(text)
        BY <2>2 DEF SentInv
      <3>2. QED
        BY <2>4, <3>1 DEF CitationsIn, Citation, IsCitation
    <2>8. failed \in 0 .. Len(items)
      <3>1. CASE phase \in {"received", "issues"}
        <4>1. failed = 0
          BY <2>1, <3>1, BeforeCalls
        <4>2. items \in Seq(UnitsOf(text))
          BY <2>2 DEF CallInv
        <4>3. QED
          BY <4>1, <4>2
      <3>2. CASE phase \in {"calling", "leaving", "ended"}
        BY <2>2, <3>2, CallsAre
      <3>3. QED
        BY <2>2, <3>1, <3>2 DEF EndInv, Phases
    <2>9. ending.type \in {"none", "error", "done"}
      BY <2>2 DEF EndInv, Silence, Error, DoneWith
    <2>10. QED
      BY <2>2, <2>3, <2>5, <2>6, <2>7, <2>8, <2>9 DEF TypeOK, VerdictInv, CallInv, EndInv
  <1>2. QED
    BY <1>1, AnalysisInvariant, PTL

\* No perspective is established and dismissed, and a dismissed one shows no
\* articles but those of its own law: not what was sent, nor the final list.
THEOREM DismissedStaysDismissed == Spec => []DismissedIsNotArgued
  <1>1. AnalysisInv => DismissedIsNotArgued
    <2>1. SUFFICES ASSUME AnalysisInv PROVE DismissedIsNotArgued
      OBVIOUS
    <2> DEFINE ByItsLaw(c) == c.law \in DOMAIN Category /\ Category[c.law] = c.domain
    <2>2. dismissed \subseteq DOMAIN Codes /\ dismissed \cap Established(issues) = {}
      BY <2>1 DEF AnalysisInv, VerdictInv
    <2>3. ASSUME NEW c \in Range(emitted), c.domain \in dismissed PROVE ByItsLaw(c)
      <3>1. PICK i \in Answered : c \in Sent(i)
        BY <2>1, <2>3 DEF AnalysisInv, SentInv
      <3>2. /\ i \in DOMAIN items /\ call[i].parsed \in Replies /\ items[i] \in UnitsOf(text)
            /\ items[i].domain \in {NoDomain} \cup Established(issues) /\ text \in Seq(STRING)
        <4>1. call # <<>> /\ i \in DOMAIN call
          BY <3>1 DEF Answered
        <4>2. DOMAIN call = DOMAIN items
          BY <2>1, <4>1 DEF AnalysisInv, CallInv, EndInv, Phases
        <4>3. call[i] \in Futures /\ call[i].pc = "taken" /\ call[i].parsed # Null
          BY <2>1, <3>1, <4>1 DEF AnalysisInv, CallInv, Answered
        <4>4. QED
          BY <2>1, <4>1, <4>2, <4>3, FutureIs, TextIs DEF AnalysisInv, CallInv, UnitsAreOfIssues
      <3>3. c \in CitationsFor(text, items[i])
        <4>1. call[i].parsed \in Seq(Cited)
          BY <3>2, ReplyIs
        <4>2. CitationsFromResult(text, items[i], call[i].parsed)
                \in Seq(CitationsFor(text, items[i]))
          BY <3>2, <4>1, CitationsFromResultIs
        <4>3. QED
          BY <3>1, <4>2 DEF Sent, Range
      <3>4. NoDomain \notin DOMAIN Codes
        BY InputsAssumption DEF NoDomain
      <3>5. c.domain # NoDomain /\ c.domain \notin Established(issues)
        BY <2>2, <2>3, <3>4
      <3>6. QED
        BY <3>2, <3>3, <3>5 DEF CitationsFor
    <2>4. ASSUME NEW c \in Range(ending.citations), ending.type = "done", c.domain \in dismissed
          PROVE  ByItsLaw(c)
      <3>1. ending.citations = MergeCitations(emitted)
        BY <2>1, <2>4 DEF AnalysisInv, EndInv, Silence, Error, DoneWith
      <3>2. text \in Seq(STRING) /\ emitted \in Seq(CitationsIn(text))
        BY <2>1, TextIs DEF AnalysisInv, SentInv
      <3>3. emitted \in Seq(Citation) /\ \A k \in 1 .. Len(emitted) : Proper(emitted[k])
        BY <3>2, CitationsAreProper
      <3>4. PICK d \in Range(emitted) : SameArticle(d, c)
        <4>1. \A k \in DOMAIN ending.citations : \E d \in Range(emitted) :
                SameArticle(d, ending.citations[k])
          BY <3>1, <3>3, MergeCovers
        <4>2. QED
          BY <2>4, <4>1 DEF Range
      <3>5. d.domain = c.domain /\ d.law = c.law
        BY <3>4 DEF SameArticle
      <3>6. QED
        BY <2>3, <2>4, <3>5
    <2>5. QED
      BY <2>2, <2>3, <2>4 DEF DismissedIsNotArgued, Shown
  <1>2. QED
    BY <1>1, AnalysisInvariant, PTL

\* The stream ends in an error only if no call was answered, and in a list
\* only if one was, or none was asked.
THEOREM AnswersAreJudged == Spec => []AnswerIsJudged
  <1>1. AnalysisInv => AnswerIsJudged
    BY DEF AnalysisInv, EndInv, AnswerIsJudged, Silence, Error, DoneWith
  <1>2. QED
    BY <1>1, AnalysisInvariant, PTL

\* The final list covers all that was sent, and has nothing else.
THEOREM DoneCovers == Spec => []DoneCoversEmitted
  <1>1. AnalysisInv => DoneCoversEmitted
    <2>1. SUFFICES ASSUME AnalysisInv, ending.type = "done" PROVE DoneCoversEmitted
      BY DEF DoneCoversEmitted
    <2>2. ending = DoneWith(MergeCitations(emitted))
      BY <2>1 DEF AnalysisInv, EndInv, Silence, Error
    <2>3. ending.citations = MergeCitations(emitted)
      BY <2>2 DEF DoneWith
    <2>4. text \in Seq(STRING) /\ emitted \in Seq(CitationsIn(text))
      BY <2>1, TextIs DEF AnalysisInv, SentInv
    <2>5. emitted \in Seq(Citation) /\ \A k \in 1 .. Len(emitted) : Proper(emitted[k])
      BY <2>4, CitationsAreProper
    <2>6. QED
      BY <2>3, <2>5, MergeCovers DEF DoneCoversEmitted
  <1>2. QED
    BY <1>1, AnalysisInvariant, PTL

\* The final list is the same in whatever order the calls end.
THEOREM OrderIsIgnored == Spec => []ResultIgnoresOrder
  <1>1. AnalysisInv => ResultIgnoresOrder
    <2>1. SUFFICES ASSUME AnalysisInv, ending.type = "done" PROVE ResultIgnoresOrder
      BY DEF ResultIgnoresOrder
    <2>2. ending = DoneWith(MergeCitations(emitted)) /\ phase = "ended"
      BY <2>1 DEF AnalysisInv, EndInv, Silence, Error
    <2>3. ending.citations = MergeCitations(emitted)
      BY <2>2 DEF DoneWith
    <2>4. /\ text \in Seq(STRING) /\ emitted \in Seq(CitationsIn(text))
          /\ Range(emitted) = UNION {Sent(j) : j \in Answered}
          /\ items \in Seq(UnitsOf(text)) /\ call \in [DOMAIN call -> Futures]
          /\ Answered \subseteq DOMAIN items /\ DOMAIN call = DOMAIN items
      <3>1. Answered \subseteq DOMAIN call /\ DOMAIN call = DOMAIN items
        BY <2>1, <2>2 DEF AnalysisInv, CallInv, Answered
      <3>2. QED
        BY <2>1, <3>1, TextIs DEF AnalysisInv, SentInv, CallInv
    <2> DEFINE A == Seq(CitationsIn(text))
               Of(j) == CitationsFromResult(text, items[j], call[j].parsed)
               ss == [i \in DOMAIN items |-> IF i \in Answered THEN Of(i) ELSE <<>>]
    <2>5. ASSUME NEW i \in Answered PROVE Of(i) \in A
      <3>1. call[i].parsed \in Replies
        <4>1. call[i] \in Futures /\ call[i].pc = "taken" /\ call[i].parsed # Null
          BY <2>4 DEF Answered
        <4>2. QED
          BY <4>1, FutureIs
      <3>2. call[i].parsed \in Seq(Cited) /\ items[i] \in UnitsOf(text)
        BY <2>4, <3>1, ReplyIs
      <3>3. QED
        BY <2>4, <3>2, CitationsFromResultIs
    <2>6. \A j \in Answered : Sent(j) = Range(Of(j))
      BY DEF Sent
    <2>7. InUnitOrder = FlattenSeq(ss)
      BY DEF InUnitOrder
    <2> HIDE DEF Of
    <2>8. ss \in Seq(A) /\ DOMAIN ss = DOMAIN items
      <3>1. <<>> \in A
        OBVIOUS
      <3> HIDE DEF A
      <3>2. QED
        BY <2>4, <2>5, <3>1
    <2>9. \A i \in DOMAIN items : Range(ss[i]) = IF i \in Answered THEN Range(Of(i)) ELSE {}
      <3>1. Range(<<>>) = {}
        BY DEF Range
      <3>2. QED
        BY <3>1
    <2> HIDE DEF ss
    <2>10. FlattenSeq(ss) \in A /\ Range(FlattenSeq(ss)) = UNION {Range(ss[i]) : i \in DOMAIN ss}
      BY <2>8, FlattenIs
    <2>11. Range(FlattenSeq(ss)) = Range(emitted)
      <3>1. \A x : x \in Range(FlattenSeq(ss)) <=> \E i \in DOMAIN items : x \in Range(ss[i])
        BY <2>8, <2>10
      <3>2. \A x : x \in Range(emitted) <=> \E j \in Answered : x \in Range(Of(j))
        BY <2>4, <2>6
      <3>3. \A x : x \in Range(FlattenSeq(ss)) <=> x \in Range(emitted)
        BY <2>4, <2>9, <3>1, <3>2
      <3>4. QED
        BY <3>3
    <2>12. /\ emitted \in Seq(Citation) /\ \A k \in 1 .. Len(emitted) : Proper(emitted[k])
           /\ FlattenSeq(ss) \in Seq(Citation)
           /\ \A k \in 1 .. Len(FlattenSeq(ss)) : Proper(FlattenSeq(ss)[k])
      BY <2>4, <2>10, CitationsAreProper
    <2>13. MergeCitations(emitted) = MergeCitations(FlattenSeq(ss))
      BY <2>11, <2>12, MergeIgnoresOrder
    <2>14. QED
      BY <2>3, <2>7, <2>13 DEF ResultIgnoresOrder
  <1>2. QED
    BY <1>1, AnalysisInvariant, PTL

\* Chunks cover every text, with and without merging, whatever their sizes.
THEOREM ChunksAlwaysCover == Spec => []ChunksCoverText
  <1>1. ChunksCoverText
    <2>1. ASSUME NEW t \in Samples, NEW window \in 1 .. 3, NEW overlap \in 0 .. 2,
                 NEW minChars \in {0, 3}
          PROVE  ChunksCover(t, MergeShortSentences(SplitSentences(t), minChars), window, overlap)
      <3>1. /\ t \in Seq(STRING) /\ window \in Nat \ {0} /\ overlap \in Nat /\ minChars \in Nat
        BY InputsAssumption
      <3>2. QED
        BY <3>1, ChunksCoverAll
    <2>2. QED
      BY <2>1 DEF ChunksCoverText
  <1>2. QED
    BY <1>1, PTL

\* A quote is found exactly if the text reads like it, and where it reads so.
THEOREM QuotesAreAlwaysLocated == Spec => []QuoteIsLocated
  <1>1. QuoteIsLocated
    <2>1. ASSUME NEW t \in Samples, NEW q \in Samples, Compact(q) # <<>>
          PROVE  /\ LocateQuote(t, q, Null) # Null <=> Compact(q) \in Readings(t)
                 /\ QuoteFits(t, q, <<Len(t) \div 2, Len(t)>>)
      <3>1. t \in Seq(STRING) /\ q \in Seq(STRING) /\ Len(t) \in Nat
        BY InputsAssumption
      <3>2. Len(t) \div 2 \in 0 .. Len(t) /\ Len(t) \in 0 .. Len(t)
        BY <3>1
      <3>3. <<Len(t) \div 2, Len(t)>> \in (0 .. Len(t)) \X (0 .. Len(t))
        BY <3>2
      <3>4. QED
        BY <2>1, <3>1, <3>3, QuotesAreLocated
    <2>2. QED
      BY <2>1 DEF QuoteIsLocated
  <1>2. QED
    BY <1>1, PTL

=============================================================================
