----------------------------- MODULE Positions -----------------------------
(* Facts about positions in sequences that the proofs share: the last      *)
(* position of a kind, and the order in which a finite set is listed.      *)
EXTENDS Integers, Sequences, SequencesExt, FiniteSetsExt, FiniteSetTheorems, FunctionTheorems, TLAPS

(* A non-empty set of positions of a sequence has a largest one, which is  *)
(* where a scan for the newest entry ends.                                 *)
LEMMA LargestPosition ==
    ASSUME NEW n \in Nat, NEW S, S \subseteq 1..n, S # {}
    PROVE  /\ Max(S) \in S
           /\ \A i \in S : Max(S) >= i
  <1> DEFINE T == {k \in Nat : \E i \in S : k = n - i}
  <1>1. \A i \in S : i \in Nat /\ n - i \in T
    OBVIOUS
  <1>2. T \subseteq Nat /\ T # {}
    BY <1>1
  <1>3. PICK t \in T : \A u \in T : ~(<<u, t>> \in OpToRel(<, Nat))
    <2> HIDE DEF T
    <2> QED BY <1>2, NatLessThanWellFounded, WFMin
  <1>4. \A u \in T : ~(u < t)
    <2> HIDE DEF T
    <2> QED BY <1>2, <1>3 DEF OpToRel
  <1>5. PICK m \in S : t = n - m
    OBVIOUS
  <1>6. \A i \in S : m >= i
    <2> TAKE i \in S
    <2>1. ~(n - i < n - m)
      BY <1>1, <1>4, <1>5
    <2> QED BY <2>1, <1>1
  <1> QED BY <1>6 DEF Max

LEMMA NewLargestPosition ==
    ASSUME NEW n \in Nat, NEW S, S \subseteq 1..n
    PROVE  Max(S \cup {n + 1}) = n + 1
  <1> DEFINE T == S \cup {n + 1}
  <1>1. n + 1 \in Nat /\ T \subseteq 1..(n + 1) /\ n + 1 \in T
    OBVIOUS
  <1> HIDE DEF T
  <1>2. Max(T) \in T /\ Max(T) >= n + 1
    BY <1>1, LargestPosition
  <1>3. Max(T) \in 1..(n + 1)
    BY <1>1, <1>2, Zenon
  <1>4. \A m \in 1..(n + 1) : m >= n + 1 => m = n + 1
    OBVIOUS
  <1>5. Max(T) = n + 1
    BY <1>2, <1>3, <1>4, Zenon
  <1> QED BY <1>5 DEF T

(* The lesser of two numbers, where a page is cut.                         *)
LEMMA LesserOfTwo ==
    ASSUME NEW a \in Int, NEW b \in Int
    PROVE  Min({a, b}) = IF a <= b THEN a ELSE b
  <1> DEFINE P(x) == \A y \in {a, b} : x <= y
             lesser == IF a <= b THEN a ELSE b
  <1>1. lesser \in {a, b} /\ P(lesser)
    OBVIOUS
  <1>2. \A x \in {a, b} : P(x) => x = lesser
    OBVIOUS
  <1>3. Min({a, b}) = CHOOSE x \in {a, b} : P(x)
    BY DEF Min
  <1> HIDE DEF P, lesser
  <1>4. Min({a, b}) = lesser
    BY <1>1, <1>2, <1>3
  <1> QED BY <1>4 DEF lesser

(* A property of the naturals, given as the set of those that have it,     *)
(* holds of all of them if it holds at 0 and passes on.                    *)
LEMMA ByInduction ==
    ASSUME NEW T, 0 \in T, \A n \in Nat : n \in T => n + 1 \in T
    PROVE  Nat \subseteq T
  <1> DEFINE Rest == Nat \ T
  <1> SUFFICES ASSUME Rest # {} PROVE FALSE
    OBVIOUS
  <1>1. PICK t \in Rest : \A u \in Rest : ~(<<u, t>> \in OpToRel(<, Nat))
    <2>1. Rest \subseteq Nat
      OBVIOUS
    <2> HIDE DEF Rest
    <2> QED BY <2>1, NatLessThanWellFounded, WFMin
  <1>2. t \in Nat \ {0} /\ t - 1 \in Nat /\ t - 1 < t
    OBVIOUS
  <1>3. t - 1 \notin Rest
    BY <1>1, <1>2 DEF OpToRel
  <1> QED BY <1>2, <1>3
-----------------------------------------------------------------------------
(* R orders the elements of S: none precedes itself, what precedes a       *)
(* predecessor precedes, and of two one precedes the other.                *)
Orders(R, S) ==
    /\ \A a \in S : <<a, a>> \notin R
    /\ \A a, b, c \in S : <<a, b>> \in R /\ <<b, c>> \in R => <<a, c>> \in R
    /\ \A a, b \in S : a = b \/ <<a, b>> \in R \/ <<b, a>> \in R

(* A finite set can be listed in any order of its elements: each at the    *)
(* place that the number of its predecessors says.                         *)
LEMMA OrderedListExists ==
    ASSUME NEW S, IsFiniteSet(S), NEW R, Orders(R, S)
    PROVE  \E s \in [1..Cardinality(S) -> S] :
             \A i, j \in 1..Cardinality(S) : i < j => <<s[i], s[j]>> \in R
  <1> DEFINE n == Cardinality(S)
             Before(a) == {b \in S : <<b, a>> \in R}
             rank == [a \in S |-> Cardinality(Before(a)) + 1]
  <1>1. n \in Nat /\ IsFiniteSet(1..n) /\ Cardinality(1..n) = n
    BY FS_CardinalityType, FS_Interval
  <1>2. ASSUME NEW a \in S
        PROVE  /\ IsFiniteSet(Before(a)) /\ Cardinality(Before(a)) \in Nat
               /\ Cardinality(Before(a)) < n
    <2>1. Before(a) \in SUBSET S /\ a \notin Before(a)
      BY DEF Orders
    <2> HIDE DEF Before
    <2>2. /\ IsFiniteSet(Before(a)) /\ Cardinality(Before(a)) <= n
          /\ Cardinality(Before(a)) = n => S = Before(a)
      BY <2>1, FS_Subset
    <2>3. Cardinality(Before(a)) \in Nat
      BY <2>2, FS_CardinalityType
    <2> QED BY <1>1, <2>1, <2>2, <2>3
  <1>3. \A a, b \in S : <<a, b>> \in R => rank[a] < rank[b]
    <2> SUFFICES ASSUME NEW a \in S, NEW b \in S, <<a, b>> \in R
                 PROVE  rank[a] < rank[b]
      OBVIOUS
    <2>1. Before(a) \in SUBSET Before(b) /\ a \in Before(b) /\ a \notin Before(a)
      BY DEF Orders
    <2>2. IsFiniteSet(Before(b)) /\ Cardinality(Before(a)) \in Nat /\ Cardinality(Before(b)) \in Nat
      BY <1>2
    <2>3. rank[a] = Cardinality(Before(a)) + 1 /\ rank[b] = Cardinality(Before(b)) + 1
      OBVIOUS
    <2> HIDE DEF Before, rank
    <2>4. /\ Cardinality(Before(a)) <= Cardinality(Before(b))
          /\ Cardinality(Before(b)) = Cardinality(Before(a)) => Before(b) = Before(a)
      BY <2>1, <2>2, FS_Subset
    <2> QED BY <2>1, <2>2, <2>3, <2>4
  <1>4. rank \in [S -> 1..n]
    <2>1. \A a \in S : Cardinality(Before(a)) + 1 \in 1..n
      <3> HIDE DEF n, Before
      <3> QED BY <1>1, <1>2
    <2> QED BY <2>1
  <1> HIDE DEF rank, Before, n
  <1>5. \A a, b \in S : rank[a] = rank[b] => a = b
    <2> SUFFICES ASSUME NEW a \in S, NEW b \in S, rank[a] = rank[b], a # b
                 PROVE  FALSE
      OBVIOUS
    <2>1. rank[a] \in Nat /\ rank[b] \in Nat
      BY <1>1, <1>4
    <2>2. ~(rank[a] < rank[b]) /\ ~(rank[b] < rank[a])
      BY <2>1
    <2>3. <<a, b>> \in R \/ <<b, a>> \in R
      BY DEF Orders
    <2> QED BY <1>3, <2>2, <2>3
  <1>6. rank \in Bijection(S, 1..n)
    <2>1. rank \in Injection(S, 1..n)
      BY <1>4, <1>5, Fun_IsInj
    <2>2. rank \in Surjection(S, 1..n)
      BY <2>1, <1>1, FS_Injection DEF n
    <2> QED BY <2>1, <2>2, Fun_IsBij
  <1>7. PICK s : s \in [1..n -> S] /\ \A i \in 1..n : rank[s[i]] = i
    <2>1. \A i \in 1..n : \E a \in S : rank[a] = i
      BY <1>6 DEF Bijection, Surjection
    <2> WITNESS [i \in 1..n |-> CHOOSE a \in S : rank[a] = i]
    <2> QED BY <2>1
  <1>8. \A i, j \in 1..n : i < j => <<s[i], s[j]>> \in R
    <2> SUFFICES ASSUME NEW i \in 1..n, NEW j \in 1..n, i < j
                 PROVE  <<s[i], s[j]>> \in R
      OBVIOUS
    <2>1. s[i] \in S /\ s[j] \in S /\ rank[s[i]] = i /\ rank[s[j]] = j
      BY <1>7
    <2>2. s[i] # s[j] /\ ~(rank[s[j]] < rank[s[i]])
      BY <1>1, <2>1
    <2> QED BY <1>3, <2>1, <2>2 DEF Orders
  <1> QED BY <1>7, <1>8 DEF n

(* A list of as many elements as the set has, in order, has each once.     *)
LEMMA OrderedListComplete ==
    ASSUME NEW S, IsFiniteSet(S), NEW R, Orders(R, S),
           NEW s \in [1..Cardinality(S) -> S],
           \A i, j \in 1..Cardinality(S) : i < j => <<s[i], s[j]>> \in R
    PROVE  /\ s \in Seq(S) /\ Len(s) = Cardinality(S) /\ DOMAIN s = 1..Len(s)
           /\ \A i, j \in 1..Len(s) : i < j <=> <<s[i], s[j]>> \in R
           /\ \A i, j \in 1..Len(s) : s[i] = s[j] => i = j
           /\ s \in Surjection(1..Len(s), S)
  <1> DEFINE n == Cardinality(S)
  <1>1. n \in Nat /\ IsFiniteSet(1..n) /\ Cardinality(1..n) = n
    BY FS_CardinalityType, FS_Interval
  <1> HIDE DEF n
  <1>2. s \in [1..n -> S] /\ \A i, j \in 1..n : i < j => <<s[i], s[j]>> \in R
    BY DEF n
  <1>3. s \in Seq(S) /\ Len(s) = n /\ DOMAIN s = 1..n
    BY <1>1, <1>2
  <1>4. \A i, j \in 1..n : s[i] = s[j] => i = j
    <2> SUFFICES ASSUME NEW i \in 1..n, NEW j \in 1..n, s[i] = s[j], i # j
                 PROVE  FALSE
      OBVIOUS
    <2>1. i < j \/ j < i
      BY <1>1
    <2> QED BY <1>2, <2>1 DEF Orders
  <1>5. \A i, j \in 1..n : <<s[i], s[j]>> \in R => i < j
    <2> SUFFICES ASSUME NEW i \in 1..n, NEW j \in 1..n, <<s[i], s[j]>> \in R, ~(i < j)
                 PROVE  FALSE
      OBVIOUS
    <2>1. i = j \/ j < i
      BY <1>1
    <2>2. s[i] \in S /\ s[j] \in S
      BY <1>2
    <2> QED BY <1>2, <2>1, <2>2 DEF Orders
  <1>6. s \in Surjection(1..n, S)
    <2>1. s \in Injection(1..n, S)
      BY <1>2, <1>4, Fun_IsInj
    <2> QED BY <2>1, <1>1, FS_Injection DEF n
  <1>7. /\ s \in Seq(S) /\ Len(s) = n /\ DOMAIN s = 1..Len(s)
        /\ \A i, j \in 1..Len(s) : i < j <=> <<s[i], s[j]>> \in R
    BY <1>2, <1>3, <1>5
  <1>8. s \in Surjection(1..Len(s), S)
    BY <1>3, <1>6
  <1> QED BY <1>3, <1>4, <1>7, <1>8 DEF n

(* An element's place in such a list is the number of those before it.     *)
Listed(s, S, R) ==
    /\ s \in Seq(S) /\ s \in Surjection(1..Len(s), S)
    /\ \A i, j \in 1..Len(s) : i < j <=> <<s[i], s[j]>> \in R
    /\ \A i, j \in 1..Len(s) : s[i] = s[j] => i = j

LEMMA OrderedListPlaces ==
    ASSUME NEW S, NEW R, NEW s, Listed(s, S, R), NEW i \in 1..Len(s),
           NEW T, T = {b \in S : <<b, s[i]>> \in R}
    PROVE  Cardinality(T) = i - 1
  <1> DEFINE f == [j \in 1..(i - 1) |-> s[j]]
  <1>1. /\ Len(s) \in Nat /\ \A j \in 1..Len(s) : s[j] \in S
        /\ \A b \in S : \E j \in 1..Len(s) : b = s[j]
    BY DEF Surjection, Listed
  <1>2. \A j \in 1..(i - 1) : j \in 1..Len(s) /\ j < i
    BY <1>1
  <1>3. \A b \in T : \E j \in 1..(i - 1) : b = s[j]
    <2> SUFFICES ASSUME NEW b \in T PROVE \E j \in 1..(i - 1) : b = s[j]
      OBVIOUS
    <2>1. PICK j \in 1..Len(s) : b = s[j]
      BY <1>1
    <2>2. j < i
      BY <2>1 DEF Listed
    <2> QED BY <1>1, <2>1, <2>2
  <1>4. f \in [1..(i - 1) -> T]
    BY <1>1, <1>2 DEF Listed
  <1>5. f \in Surjection(1..(i - 1), T)
    BY <1>3, <1>4 DEF Surjection
  <1>6. f \in Injection(1..(i - 1), T)
    <2>1. \A j, k \in 1..(i - 1) : f[j] = f[k] => j = k
      BY <1>1, <1>2 DEF Listed
    <2> HIDE DEF f
    <2> QED BY <1>4, <2>1, Fun_IsInj
  <1>7. i - 1 \in Nat /\ IsFiniteSet(1..(i - 1)) /\ Cardinality(1..(i - 1)) = i - 1
    <2>1. i - 1 \in Nat
      BY <1>1
    <2> QED BY <2>1, FS_Interval
  <1> HIDE DEF f
  <1> QED BY <1>5, <1>6, <1>7, FS_Surjection

-----------------------------------------------------------------------------
(* A function on 0..n can be given by its first value and a step from each *)
(* value to the next.                                                      *)
Recurs(f, n, first, step) ==
    f = [k \in 0..n |-> IF k = 0 THEN first ELSE step[<<k, f[k - 1]>>]]

LEMMA RecursionExtends ==
    ASSUME NEW n \in Nat, NEW S, NEW first \in S, NEW step,
           \A k \in 1..(n + 1) : \A v \in S : step[<<k, v>>] \in S,
           NEW f \in [0..n -> S], Recurs(f, n, first, step)
    PROVE  \E g \in [0..(n + 1) -> S] : Recurs(g, n + 1, first, step)
  <1> DEFINE last == step[<<n + 1, f[n]>>]
             g == [k \in 0..(n + 1) |-> IF k = n + 1 THEN last ELSE f[k]]
  <1>1. \A k \in 0..n : f[k] = IF k = 0 THEN first ELSE step[<<k, f[k - 1]>>]
    <2>1. f = [k \in 0..n |-> IF k = 0 THEN first ELSE step[<<k, f[k - 1]>>]]
      BY DEF Recurs
    <2> QED BY <2>1, Zenon
  <1>2. last \in S
    <2>1. n \in 0..n /\ n + 1 \in 1..(n + 1)
      OBVIOUS
    <2> QED BY <2>1
  <1>3. ASSUME NEW k \in 0..(n + 1)
        PROVE  g[k] \in S /\ g[k] = IF k = 0 THEN first ELSE step[<<k, g[k - 1]>>]
    <2>1. CASE k = n + 1
      <3>1. k # 0 /\ k - 1 = n /\ n \in 0..(n + 1) /\ n # n + 1
        BY <2>1
      <3>2. g[n] = f[n] /\ g[k] = last
        BY <2>1, <3>1
      <3> HIDE DEF g
      <3> QED BY <1>2, <2>1, <3>1, <3>2
    <2>2. CASE k # n + 1
      <3>1. k \in 0..n /\ (k # 0 => k - 1 \in 0..n /\ k - 1 \in 0..(n + 1) /\ k - 1 # n + 1)
        BY <2>2
      <3>2. g[k] = f[k] /\ (k # 0 => g[k - 1] = f[k - 1])
        BY <2>2, <3>1
      <3> HIDE DEF g
      <3> QED BY <1>1, <3>1, <3>2
    <2> QED BY <2>1, <2>2
  <1>4. g = [k \in 0..(n + 1) |-> g[k]]
    OBVIOUS
  <1> HIDE DEF g
  <1>5. g \in [0..(n + 1) -> S] /\ Recurs(g, n + 1, first, step)
    BY <1>3, <1>4 DEF Recurs
  <1> QED BY <1>5

LEMMA RecursionExists ==
    ASSUME NEW n \in Nat, NEW S, NEW first \in S, NEW step,
           \A k \in 1..n : \A v \in S : step[<<k, v>>] \in S
    PROVE  \E f \in [0..n -> S] : Recurs(f, n, first, step)
  <1> DEFINE T == {k \in Nat : k <= n => \E f \in [0..k -> S] : Recurs(f, k, first, step)}
  <1>1. 0 \in T
    <2> DEFINE f == [k \in 0..0 |-> first]
    <2>1. f \in [0..0 -> S] /\ f = [k \in 0..0 |-> IF k = 0 THEN first ELSE step[<<k, f[k - 1]>>]]
      OBVIOUS
    <2> HIDE DEF f
    <2>2. Recurs(f, 0, first, step)
      BY <2>1 DEF Recurs
    <2> QED BY <2>1, <2>2
  <1>2. ASSUME NEW k \in Nat, k \in T PROVE k + 1 \in T
    <2> SUFFICES ASSUME k + 1 <= n
                 PROVE  \E f \in [0..(k + 1) -> S] : Recurs(f, k + 1, first, step)
      OBVIOUS
    <2>1. PICK f \in [0..k -> S] : Recurs(f, k, first, step)
      BY <1>2
    <2>2. \A l \in 1..(k + 1) : l \in 1..n
      OBVIOUS
    <2> QED BY <2>1, <2>2, RecursionExtends
  <1>3. n \in T
    <2> HIDE DEF T
    <2> QED BY <1>1, <1>2, ByInduction
  <1> QED BY <1>3

LEMMA LeastOfThree ==
    ASSUME NEW a \in Nat, NEW b \in Nat, NEW c \in Nat
    PROVE  /\ Min({a, b, c}) \in {a, b, c}
           /\ Min({a, b, c}) <= a /\ Min({a, b, c}) <= b /\ Min({a, b, c}) <= c
  <1> DEFINE P(x) == \A y \in {a, b, c} : x <= y
             least == IF a <= b THEN (IF a <= c THEN a ELSE c) ELSE (IF b <= c THEN b ELSE c)
  <1>1. least \in {a, b, c} /\ P(least)
    OBVIOUS
  <1>2. Min({a, b, c}) = CHOOSE x \in {a, b, c} : P(x)
    BY DEF Min
  <1> HIDE DEF P, least
  <1>3. Min({a, b, c}) \in {a, b, c} /\ P(Min({a, b, c}))
    BY <1>1, <1>2
  <1> QED BY <1>3 DEF P

(* Sequences are equal that have the same elements in the same places.     *)
LEMMA SameElements ==
    ASSUME NEW S, NEW s \in Seq(S), NEW T, NEW t \in Seq(T), Len(s) = Len(t),
           \A k \in 1..Len(s) : s[k] = t[k]
    PROVE  s = t
  <1>1. s = [k \in 1..Len(s) |-> s[k]] /\ t = [k \in 1..Len(t) |-> t[k]]
    OBVIOUS
  <1> QED BY <1>1

LEMMA JoinIs ==
    ASSUME NEW S, NEW u \in Seq(S), NEW v \in Seq(S)
    PROVE  /\ u \o v \in Seq(S) /\ Len(u \o v) = Len(u) + Len(v)
           /\ \A k \in 1..(Len(u) + Len(v)) :
                (u \o v)[k] = IF k <= Len(u) THEN u[k] ELSE v[k - Len(u)]
  OBVIOUS

LEMMA RemovalIs ==
    ASSUME NEW S, NEW s \in Seq(S), NEW i \in 1..Len(s)
    PROVE  /\ RemoveAt(s, i) \in Seq(S) /\ Len(RemoveAt(s, i)) = Len(s) - 1
           /\ \A k \in 1..(Len(s) - 1) : RemoveAt(s, i)[k] = IF k < i THEN s[k] ELSE s[k + 1]
  <1> DEFINE u == SubSeq(s, 1, i - 1)
             v == SubSeq(s, i + 1, Len(s))
  <1>1. Len(s) \in Nat /\ i \in Nat
    OBVIOUS
  <1>2. u \in Seq(S) /\ Len(u) = i - 1 /\ \A k \in 1..(i - 1) : u[k] = s[k]
    BY <1>1
  <1>3. v \in Seq(S) /\ Len(v) = Len(s) - i /\ \A k \in 1..(Len(s) - i) : v[k] = s[i + k]
    BY <1>1
  <1>4. RemoveAt(s, i) = u \o v
    BY DEF RemoveAt
  <1> HIDE DEF u, v
  <1>5. /\ u \o v \in Seq(S) /\ Len(u \o v) = Len(u) + Len(v)
        /\ \A k \in 1..(Len(u) + Len(v)) : (u \o v)[k] = IF k <= Len(u) THEN u[k] ELSE v[k - Len(u)]
    BY <1>2, <1>3, JoinIs
  <1>6. ASSUME NEW k \in 1..(Len(s) - 1)
        PROVE  (u \o v)[k] = IF k < i THEN s[k] ELSE s[k + 1]
    <2>1. CASE k < i
      <3>1. k \in 1..(i - 1) /\ k \in 1..(Len(u) + Len(v)) /\ k <= Len(u)
        BY <1>1, <1>2, <1>3, <2>1
      <3> QED BY <1>2, <1>5, <2>1, <3>1
    <2>2. CASE ~(k < i)
      <3>1. /\ k - (i - 1) \in 1..(Len(s) - i) /\ k \in 1..(Len(u) + Len(v)) /\ ~(k <= Len(u))
            /\ i + (k - (i - 1)) = k + 1 /\ k - Len(u) = k - (i - 1)
        BY <1>1, <1>2, <1>3, <2>2
      <3> QED BY <1>3, <1>5, <2>2, <3>1
    <2> QED BY <2>1, <2>2
  <1> QED BY <1>1, <1>2, <1>3, <1>4, <1>5, <1>6
=============================================================================
