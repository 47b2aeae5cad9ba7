------------------------- MODULE ShardsProofs ------------------------------
(* Pages that every shard cut by itself are enough for the merged page,    *)
(* whatever the clauses of a query compute, and whatever is written to the *)
(* shards between their turns.                                             *)
EXTENDS Shards, Positions, SequenceTheorems

Hit == [id: DocIds, score: Int]

(* Hits with no document among them twice.                                 *)
SoundHits(S) ==
    S \subseteq Hit /\ IsFiniteSet(S) /\ \A h, g \in S : h.id = g.id => h = g

(* A list of all of them, each once; and one that has the best first.      *)
Lists(s, S) ==
    /\ s \in Seq(S) /\ s \in Surjection(1..Len(s), S)
    /\ \A i, j \in 1..Len(s) : s[i] = s[j] => i = j

Ranks(s, S) == Lists(s, S) /\ \A i, j \in 1..Len(s) : i < j <=> Better(s[i], s[j])

BetterIn(S) == {p \in S \X S : Better(p[1], p[2])}

LEMMA BetterOrders ==
    ASSUME NEW S, SoundHits(S)
    PROVE  /\ Orders(BetterIn(S), S)
           /\ \A a, b \in S : <<a, b>> \in BetterIn(S) <=> Better(a, b)
  <1>1. \A a, b \in S : <<a, b>> \in BetterIn(S) <=> Better(a, b)
    BY DEF BetterIn
  <1>2. \A a \in S : a.score \in Int /\ a.id \in Int
    BY CoordinatorAssumption DEF CoordinatorAssumption, SoundHits, Hit
  <1>3. \A a, b \in S : a # b => a.id # b.id
    BY DEF SoundHits
  <1>4. \A a \in S : ~Better(a, a)
    BY <1>2 DEF Better
  <1>5. \A a, b, c \in S : Better(a, b) /\ Better(b, c) => Better(a, c)
    BY <1>2 DEF Better
  <1>6. \A a, b \in S : a = b \/ Better(a, b) \/ Better(b, a)
    BY <1>2, <1>3 DEF Better
  <1>7. Orders(BetterIn(S), S)
    BY <1>1, <1>4, <1>5, <1>6, Zenon DEF Orders
  <1> QED BY <1>1, <1>7

(* What a shard answers, before it is cut.                                 *)
LEMMA InOrderRanks ==
    ASSUME NEW S, SoundHits(S)
    PROVE  Ranks(InOrder(S, Better), S)
  <1> DEFINE n == Cardinality(S)
             R == BetterIn(S)
             t == InOrder(S, Better)
  <1>1. IsFiniteSet(S) /\ Orders(R, S) /\ \A a, b \in S : <<a, b>> \in R <=> Better(a, b)
    BY BetterOrders DEF SoundHits
  <1>2. t = CHOOSE s \in [1..n -> S] : \A i, j \in 1..n : i < j => Better(s[i], s[j])
    BY DEF InOrder
  <1> HIDE DEF t, R
  <1>3. \E s \in [1..n -> S] : \A i, j \in 1..n : i < j => Better(s[i], s[j])
    <2>1. PICK s \in [1..n -> S] : \A i, j \in 1..n : i < j => <<s[i], s[j]>> \in R
      BY <1>1, OrderedListExists
    <2> QED BY <1>1, <2>1
  <1>4. t \in [1..n -> S] /\ \A i, j \in 1..n : i < j => Better(t[i], t[j])
    BY <1>2, <1>3
  <1>5. \A i, j \in 1..n : i < j => <<t[i], t[j]>> \in R
    BY <1>1, <1>4
  <1>6. /\ t \in Seq(S) /\ Len(t) = n /\ t \in Surjection(1..Len(t), S)
        /\ \A i, j \in 1..Len(t) : i < j <=> <<t[i], t[j]>> \in R
        /\ \A i, j \in 1..Len(t) : t[i] = t[j] => i = j
    BY <1>1, <1>4, <1>5, OrderedListComplete
  <1>7. \A i, j \in 1..Len(t) : i < j <=> Better(t[i], t[j])
    BY <1>1, <1>4, <1>6
  <1> QED BY <1>6, <1>7 DEF Ranks, Lists, t

(* What Merge makes of the hits it has gathered.                           *)
LEMMA SortedRanks ==
    ASSUME NEW S, SoundHits(S), NEW hits, Lists(hits, S)
    PROVE  Ranks(Sorted(hits), S)
  <1> DEFINE n == Len(hits)
             D == 1..n
             Goes(i, j) == \/ Better(hits[i], hits[j])
                           \/ ~Better(hits[j], hits[i]) /\ i < j
             R == {p \in D \X D : Better(hits[p[1]], hits[p[2]])}
             order == InOrder(DOMAIN hits, LAMBDA i, j : Goes(i, j))
  <1>1. /\ n \in Nat /\ DOMAIN hits = D /\ \A i \in D : hits[i] \in S
        /\ \A g \in S : \E i \in D : hits[i] = g
        /\ \A i, j \in D : hits[i] = hits[j] => i = j
    BY DEF Lists, Surjection
  <1>2. IsFiniteSet(D) /\ Cardinality(D) = n
    BY <1>1, FS_Interval
  <1>3. \A i, j \in D : <<i, j>> \in R <=> Better(hits[i], hits[j])
    OBVIOUS
  <1>4. \A i, j \in D : <<i, j>> \in R <=> Goes(i, j)
    <2> SUFFICES ASSUME NEW i \in D, NEW j \in D PROVE <<i, j>> \in R <=> Goes(i, j)
      OBVIOUS
    <2>1. CASE i = j
      <3>1. \A a \in S : ~Better(a, a)
        BY BetterOrders DEF Orders
      <3>2. ~Better(hits[i], hits[j]) /\ ~(i < j)
        BY <1>1, <2>1, <3>1
      <3> QED BY <1>3, <2>1, <3>2
    <2>2. CASE i # j
      <3>1. Better(hits[i], hits[j]) \/ Better(hits[j], hits[i])
        BY <1>1, <2>2, BetterOrders DEF Orders
      <3> QED BY <1>3, <3>1
    <2> QED BY <2>1, <2>2
  <1>5. Orders(R, D)
    <2>1. Orders(BetterIn(S), S) /\ \A a, b \in S : <<a, b>> \in BetterIn(S) <=> Better(a, b)
      BY BetterOrders
    <2> HIDE DEF R, D
    <2>2. \A a \in D : <<a, a>> \notin R
      BY <1>1, <1>3, <2>1 DEF Orders
    <2>3. \A a, b, c \in D : <<a, b>> \in R /\ <<b, c>> \in R => <<a, c>> \in R
      <3>1. \A a, b, c \in S : Better(a, b) /\ Better(b, c) => Better(a, c)
        BY <2>1 DEF Orders
      <3> QED BY <1>1, <1>3, <3>1
    <2>4. \A a, b \in D : a = b \/ <<a, b>> \in R \/ <<b, a>> \in R
      <3>1. \A a, b \in S : a = b \/ Better(a, b) \/ Better(b, a)
        BY <2>1 DEF Orders
      <3> QED BY <1>1, <1>3, <3>1
    <2> QED BY <2>2, <2>3, <2>4 DEF Orders
  <1>6. order = CHOOSE s \in [1..Cardinality(D) -> D] :
                  \A i, j \in 1..Cardinality(D) : i < j => Goes(s[i], s[j])
    BY <1>1 DEF InOrder
  <1>7. Sorted(hits) = [i \in D |-> hits[order[i]]]
    BY <1>1 DEF Sorted
  <1> HIDE DEF order, R, Goes, D
  <1>8. \E s \in [1..n -> D] : \A i, j \in 1..n : i < j => Goes(s[i], s[j])
    <2>1. PICK s \in [1..n -> D] : \A i, j \in 1..n : i < j => <<s[i], s[j]>> \in R
      BY <1>2, <1>5, OrderedListExists
    <2> QED BY <1>4, <2>1
  <1>9. order \in [1..n -> D] /\ \A i, j \in 1..n : i < j => Goes(order[i], order[j])
    BY <1>2, <1>6, <1>8
  <1>10. \A i, j \in 1..n : i < j => <<order[i], order[j]>> \in R
    BY <1>4, <1>9
  <1>11. /\ Len(order) = n /\ order \in Surjection(1..n, D)
         /\ \A i, j \in 1..n : i < j <=> <<order[i], order[j]>> \in R
         /\ \A i, j \in 1..n : order[i] = order[j] => i = j
    BY <1>2, <1>5, <1>9, <1>10, OrderedListComplete
  <1> DEFINE t == [i \in D |-> hits[order[i]]]
  <1>12. /\ \A i \in 1..n : order[i] \in D /\ t[i] = hits[order[i]]
         /\ t \in Seq(S) /\ Len(t) = n /\ t \in [1..n -> S]
    BY <1>1, <1>9 DEF D
  <1> HIDE DEF t
  <1>13. \A g \in S : \E i \in 1..n : t[i] = g
    <2> SUFFICES ASSUME NEW g \in S PROVE \E i \in 1..n : t[i] = g
      OBVIOUS
    <2>1. PICK k \in D : hits[k] = g
      BY <1>1
    <2>2. PICK i \in 1..n : order[i] = k
      BY <1>11 DEF Surjection
    <2> QED BY <1>12, <2>1, <2>2
  <1>14. ASSUME NEW i \in 1..n, NEW j \in 1..n
         PROVE  (t[i] = t[j] => i = j) /\ (i < j <=> Better(t[i], t[j]))
    <2>1. /\ order[i] \in D /\ t[i] = hits[order[i]]
          /\ order[j] \in D /\ t[j] = hits[order[j]]
      BY <1>12
    <2>2. t[i] = t[j] => i = j
      <3>1. hits[order[i]] = hits[order[j]] => order[i] = order[j]
        BY <1>1, <2>1
      <3>2. order[i] = order[j] => i = j
        BY <1>11
      <3> QED BY <2>1, <3>1, <3>2
    <2>3. i < j <=> Better(t[i], t[j])
      BY <1>3, <1>11, <2>1, Zenon
    <2> QED BY <2>2, <2>3
  <1>15. Lists(t, S)
    BY <1>12, <1>13, <1>14 DEF Lists, Surjection
  <1> QED BY <1>7, <1>12, <1>14, <1>15 DEF Ranks, t

(* Of a ranked list, hit i is the one with i - 1 better ones.              *)
Ahead(h, S) == Cardinality({g \in S : Better(g, h)})

LEMMA AheadIs ==
    ASSUME NEW S, NEW s, Ranks(s, S), NEW i \in 1..Len(s)
    PROVE  /\ Ahead(s[i], S) = i - 1
           /\ \A g \in S : Better(g, s[i]) => \E j \in 1..(i - 1) : g = s[j]
  <1> DEFINE T == {g \in S : Better(g, s[i])}
             f == [j \in 1..(i - 1) |-> s[j]]
  <1>1. /\ Len(s) \in Nat /\ \A j \in 1..Len(s) : s[j] \in S
        /\ \A g \in S : \E j \in 1..Len(s) : g = s[j]
        /\ \A j, k \in 1..Len(s) : s[j] = s[k] => j = k
        /\ \A j, k \in 1..Len(s) : j < k <=> Better(s[j], s[k])
    BY DEF Ranks, Lists, Surjection
  <1>2. \A j \in 1..(i - 1) : j \in 1..Len(s) /\ j < i
    BY <1>1
  <1>3. \A g \in T : \E j \in 1..(i - 1) : g = s[j]
    <2> SUFFICES ASSUME NEW g \in T PROVE \E j \in 1..(i - 1) : g = s[j]
      OBVIOUS
    <2>1. PICK j \in 1..Len(s) : g = s[j]
      BY <1>1
    <2>2. j < i
      BY <1>1, <2>1
    <2> QED BY <1>1, <2>1, <2>2
  <1>4. f \in Surjection(1..(i - 1), T)
    <2>1. f \in [1..(i - 1) -> T]
      BY <1>1, <1>2
    <2> QED BY <1>3, <2>1 DEF Surjection
  <1>5. f \in Injection(1..(i - 1), T)
    <2>1. f \in [1..(i - 1) -> T]
      BY <1>4 DEF Surjection
    <2>2. \A j, k \in 1..(i - 1) : f[j] = f[k] => j = k
      BY <1>1, <1>2
    <2> HIDE DEF f, T
    <2> QED BY <2>1, <2>2, Fun_IsInj
  <1>6. i - 1 \in Nat /\ IsFiniteSet(1..(i - 1)) /\ Cardinality(1..(i - 1)) = i - 1
    <2>1. i - 1 \in Nat
      BY <1>1
    <2> QED BY <2>1, FS_Interval
  <1>7. Cardinality(T) = i - 1
    <2> HIDE DEF f, T
    <2> QED BY <1>4, <1>5, <1>6, FS_Surjection
  <1> QED BY <1>3, <1>7 DEF Ahead

LEMMA CutIs ==
    ASSUME NEW S, NEW s \in Seq(S), NEW size \in Nat
    PROVE  /\ Cut(s, size) \in Seq(S)
           /\ Len(Cut(s, size)) = IF size <= Len(s) THEN size ELSE Len(s)
           /\ \A i \in 1..Len(Cut(s, size)) : Cut(s, size)[i] = s[i]
  <1> DEFINE m == IF size <= Len(s) THEN size ELSE Len(s)
  <1>1. m \in Nat /\ m <= Len(s) /\ m <= size
    OBVIOUS
  <1>2. Cut(s, size) = SubSeq(s, 1, m)
    BY LesserOfTwo DEF Cut
  <1> HIDE DEF m
  <1>3. /\ SubSeq(s, 1, m) \in Seq(S) /\ Len(SubSeq(s, 1, m)) = m
        /\ \A i \in 1..m : SubSeq(s, 1, m)[i] = s[i]
    BY <1>1
  <1> QED BY <1>2, <1>3 DEF m

(* The hits that a page of the best ones needs.                            *)
Leading(S, size) == {h \in S : Ahead(h, S) < size}

LEMMA CutLists ==
    ASSUME NEW S, NEW s, Ranks(s, S), NEW size \in Nat
    PROVE  Lists(Cut(s, size), Leading(S, size))
  <1> DEFINE c == Cut(s, size)
             L == Leading(S, size)
  <1>1. /\ s \in Seq(S) /\ Len(s) \in Nat /\ \A j \in 1..Len(s) : s[j] \in S
        /\ \A g \in S : \E j \in 1..Len(s) : g = s[j]
        /\ \A j, k \in 1..Len(s) : s[j] = s[k] => j = k
    BY DEF Ranks, Lists, Surjection
  <1>2. /\ c \in Seq(S) /\ Len(c) \in Nat /\ Len(c) <= Len(s) /\ Len(c) <= size
        /\ \A i \in 1..Len(s) : i <= size => i \in 1..Len(c)
        /\ \A i \in 1..Len(c) : c[i] = s[i] /\ i \in 1..Len(s)
    <2>1. /\ c \in Seq(S) /\ Len(c) = IF size <= Len(s) THEN size ELSE Len(s)
          /\ \A i \in 1..Len(c) : c[i] = s[i]
      BY <1>1, CutIs
    <2> HIDE DEF c
    <2> QED BY <1>1, <2>1
  <1> HIDE DEF c
  <1>3. \A i \in 1..Len(s) : s[i] \in L <=> i \in 1..Len(c)
    <2> SUFFICES ASSUME NEW i \in 1..Len(s) PROVE s[i] \in L <=> i \in 1..Len(c)
      OBVIOUS
    <2>1. Ahead(s[i], S) = i - 1
      BY AheadIs
    <2> QED BY <1>1, <1>2, <2>1 DEF Leading
  <1>4. /\ c \in [1..Len(c) -> L]
        /\ \A h \in L : \E i \in 1..Len(c) : c[i] = h
    <2>1. DOMAIN c = 1..Len(c) /\ c = [i \in 1..Len(c) |-> c[i]]
      BY <1>2
    <2>2. \A i \in 1..Len(c) : c[i] \in L
      BY <1>2, <1>3
    <2>3. L \subseteq S
      BY DEF Leading
    <2>4. ASSUME NEW h \in L PROVE \E i \in 1..Len(c) : c[i] = h
      <3>1. PICK j \in 1..Len(s) : h = s[j]
        BY <1>1, <2>3
      <3> QED BY <1>2, <1>3, <3>1
    <2> HIDE DEF L
    <2> QED BY <2>1, <2>2, <2>4
  <1>5. \A i, j \in 1..Len(c) : c[i] = c[j] => i = j
    BY <1>1, <1>2
  <1>6. c \in Seq(L)
    BY <1>2, <1>4
  <1> QED BY <1>4, <1>5, <1>6 DEF Lists, Surjection, c

(* The best of a part are the best of the whole, if the part has all that  *)
(* a page of the whole needs.                                              *)
LEMMA CutsAgree ==
    ASSUME NEW S, NEW s, Ranks(s, S), NEW G, NEW t, Ranks(t, G), G \subseteq S,
           NEW size \in Nat \ {0}, Leading(S, size) \subseteq G
    PROVE  Cut(t, size) = Cut(s, size)
  <1>1. /\ s \in Seq(S) /\ Len(s) \in Nat /\ \A j \in 1..Len(s) : s[j] \in S
        /\ \A g \in S : \E j \in 1..Len(s) : g = s[j]
        /\ t \in Seq(G) /\ Len(t) \in Nat /\ \A j \in 1..Len(t) : t[j] \in G
        /\ \A g \in G : \E j \in 1..Len(t) : g = t[j]
    BY DEF Ranks, Lists, Surjection
  <1>2. ASSUME NEW i \in 1..Len(s), i <= size
        PROVE  s[i] \in G
    <2>1. Ahead(s[i], S) = i - 1
      BY AheadIs
    <2> QED BY <1>1, <1>2, <2>1 DEF Leading
  <1>3. ASSUME NEW i \in 1..Len(s), i <= size
        PROVE  i \in 1..Len(t) /\ t[i] = s[i]
    <2>1. {g \in G : Better(g, s[i])} = {g \in S : Better(g, s[i])}
      <3>1. ASSUME NEW g \in S, Better(g, s[i]) PROVE g \in G
        <4>1. PICK j \in 1..(i - 1) : g = s[j]
          BY <3>1, AheadIs
        <4>2. j \in 1..Len(s) /\ j <= size
          BY <1>1, <1>3
        <4> QED BY <1>2, <4>1, <4>2
      <3> QED BY <3>1
    <2>2. Ahead(s[i], G) = i - 1
      BY <2>1, AheadIs DEF Ahead
    <2>3. PICK j \in 1..Len(t) : s[i] = t[j]
      BY <1>1, <1>2, <1>3
    <2>4. Ahead(t[j], G) = j - 1
      BY AheadIs
    <2>5. i = j
      BY <1>1, <2>2, <2>3, <2>4
    <2> QED BY <2>3, <2>5
  <1>4. ASSUME NEW j \in 1..Len(t), j <= size
        PROVE  j \in 1..Len(s)
    <2>1. PICK i \in 1..Len(s) : t[j] = s[i]
      BY <1>1
    <2> SUFFICES ASSUME j > Len(s) PROVE FALSE
      BY <1>1
    <2>2. i <= size /\ i < j
      BY <1>1, <1>4
    <2>3. i \in 1..Len(t) /\ t[i] = t[j]
      BY <1>3, <2>1, <2>2
    <2> QED BY <2>2, <2>3 DEF Ranks, Lists
  <1> DEFINE c == Cut(s, size)
             d == Cut(t, size)
  <1>5. /\ c \in Seq(S) /\ Len(c) = IF size <= Len(s) THEN size ELSE Len(s)
        /\ \A i \in 1..Len(c) : c[i] = s[i]
        /\ d \in Seq(G) /\ Len(d) = IF size <= Len(t) THEN size ELSE Len(t)
        /\ \A i \in 1..Len(d) : d[i] = t[i]
    BY <1>1, CutIs
  <1> HIDE DEF c, d
  <1>6. Len(c) = Len(d)
    <2>1. CASE size <= Len(s)
      <3>1. size \in 1..Len(t)
        BY <1>1, <1>3, <2>1
      <3> QED BY <1>1, <1>5, <2>1, <3>1
    <2>2. CASE size > Len(s)
      <3>1. Len(s) <= Len(t)
        <4>1. CASE Len(s) = 0
          BY <1>1, <4>1
        <4>2. CASE Len(s) # 0
          BY <1>1, <1>3, <2>2, <4>2
        <4> QED BY <4>1, <4>2
      <3>2. ~(Len(s) < Len(t))
        <4> SUFFICES ASSUME Len(s) < Len(t) PROVE FALSE
          OBVIOUS
        <4>1. \A a, b, z \in Nat : a < b /\ z > a => a + 1 \in 1..b /\ a + 1 <= z
          OBVIOUS
        <4>2. Len(s) + 1 \in 1..Len(t) /\ Len(s) + 1 <= size
          BY <1>1, <2>2, <4>1
        <4> QED BY <1>1, <1>4, <4>2
      <3> QED BY <1>1, <1>5, <2>2, <3>1, <3>2
    <2> QED BY <1>1, <2>1, <2>2
  <1>7. \A i \in 1..Len(c) : c[i] = d[i]
    <2> SUFFICES ASSUME NEW i \in 1..Len(c) PROVE c[i] = d[i]
      OBVIOUS
    <2> DEFINE m == Len(s)
               n == Len(c)
    <2>1. m \in Nat /\ n = (IF size <= m THEN size ELSE m) /\ i \in 1..n
      BY <1>1, <1>5
    <2> HIDE DEF m, n
    <2>2. i \in 1..m /\ i <= size
      BY <2>1
    <2>3. i \in 1..Len(s) /\ i <= size
      BY <2>2 DEF m
    <2> QED BY <1>3, <1>5, <1>6, <2>3
  <1> QED BY <1>5, <1>6, <1>7 DEF c, d
-----------------------------------------------------------------------------
(* Merge's loop adds one result after the other.                           *)
Ungathered == [hits |-> <<>>, total |-> 0]
Added(all, result) ==
    [hits |-> all.hits \o result.hits, total |-> all.total + result.total]

IsRun(results, n, g) ==
    g = [k \in 0..n |-> IF k = 0 THEN Ungathered ELSE Added(g[k - 1], results[k])]

LEMMA RunStates ==
    ASSUME NEW results, NEW n \in Nat, NEW g, IsRun(results, n, g)
    PROVE  /\ g[0] = Ungathered
           /\ \A k \in 0..n : k + 1 <= n => g[k + 1] = Added(g[k], results[k + 1])
  <1>1. \A k \in 0..n : g[k] = IF k = 0 THEN Ungathered ELSE Added(g[k - 1], results[k])
    <2>1. g = [k \in 0..n |-> IF k = 0 THEN Ungathered ELSE Added(g[k - 1], results[k])]
      BY DEF IsRun
    <2> QED BY <2>1, Zenon
  <1>2. \A k \in 0..n : k + 1 <= n => k + 1 \in 0..n /\ k + 1 # 0 /\ (k + 1) - 1 = k
    OBVIOUS
  <1>3. 0 \in 0..n
    OBVIOUS
  <1>4. ASSUME NEW k \in 0..n, k + 1 <= n
        PROVE  g[k + 1] = Added(g[k], results[k + 1])
    BY <1>1, <1>2, <1>4
  <1> QED BY <1>1, <1>3, <1>4

LEMMA RunExtends ==
    ASSUME NEW results, NEW n \in Nat, NEW g, IsRun(results, n, g)
    PROVE  \E h : IsRun(results, n + 1, h)
  <1> DEFINE last == Added(g[n], results[n + 1])
             h == [k \in 0..(n + 1) |-> IF k = n + 1 THEN last ELSE g[k]]
  <1>1. ASSUME NEW k \in 0..(n + 1)
        PROVE  h[k] = IF k = 0 THEN Ungathered ELSE Added(h[k - 1], results[k])
    <2>1. CASE k = n + 1
      <3>1. k # 0 /\ k - 1 = n /\ n \in 0..(n + 1) /\ n # n + 1
        BY <2>1
      <3>2. h[n] = g[n] /\ h[k] = last
        BY <2>1, <3>1
      <3> HIDE DEF h
      <3> QED BY <2>1, <3>1, <3>2
    <2>2. CASE k # n + 1 /\ k # 0
      <3>1. /\ k - 1 \in 0..n /\ (k - 1) + 1 = k /\ k <= n
            /\ k - 1 \in 0..(n + 1) /\ k - 1 # n + 1
        BY <2>2
      <3>2. h[k] = g[k] /\ h[k - 1] = g[k - 1]
        BY <2>2, <3>1
      <3> HIDE DEF h
      <3> QED BY <2>2, <3>1, <3>2, RunStates
    <2>3. CASE k = 0
      <3>1. 0 # n + 1 /\ h[0] = g[0]
        OBVIOUS
      <3> HIDE DEF h
      <3> QED BY <2>3, <3>1, RunStates
    <2> QED BY <2>1, <2>2, <2>3
  <1>2. h = [k \in 0..(n + 1) |-> h[k]]
    OBVIOUS
  <1> HIDE DEF h
  <1>3. h = [k \in 0..(n + 1) |->
               IF k = 0 THEN Ungathered ELSE Added(h[k - 1], results[k])]
    BY <1>1, <1>2
  <1> QED BY <1>3 DEF IsRun

LEMMA GatherRuns ==
    ASSUME NEW results, Len(results) \in Nat
    PROVE  \E g : IsRun(results, Len(results), g) /\ Gather(results) = g[Len(results)]
  <1> DEFINE T == {n \in Nat : \E g : IsRun(results, n, g)}
  <1>1. 0 \in T
    <2> DEFINE g == [k \in 0..0 |-> Ungathered]
    <2>1. g = [k \in 0..0 |-> IF k = 0 THEN Ungathered ELSE Added(g[k - 1], results[k])]
      OBVIOUS
    <2>2. IsRun(results, 0, g)
      BY <2>1 DEF IsRun
    <2> QED BY <2>2
  <1>2. \A n \in Nat : n \in T => n + 1 \in T
    BY RunExtends
  <1>3. PICK g : IsRun(results, Len(results), g)
    <2> HIDE DEF T
    <2>1. Len(results) \in T
      BY <1>1, <1>2, ByInduction
    <2> QED BY <2>1 DEF T
  <1> DEFINE h == CHOOSE f : f = [k \in 0..Len(results) |->
                                   IF k = 0 THEN Ungathered ELSE Added(f[k - 1], results[k])]
  <1>4. IsRun(results, Len(results), h)
    BY <1>3, Zenon DEF IsRun
  <1>5. Gather(results) = h[Len(results)]
    BY DEF Gather, Ungathered, Added
  <1> QED BY <1>4, <1>5

LEMMA GatherNone == Gather(<<>>) = Ungathered
  <1>1. Len(<<>>) = 0
    OBVIOUS
  <1> QED BY <1>1, GatherRuns, RunStates

LEMMA GatherNext ==
    ASSUME NEW T, NEW results \in Seq(T), NEW result \in T
    PROVE  Gather(Append(results, result)) = Added(Gather(results), result)
  <1> DEFINE n == Len(results)
             more == Append(results, result)
  <1>1. /\ n \in Nat /\ Len(more) = n + 1 /\ more[n + 1] = result
        /\ \A k \in 1..n : more[k] = results[k]
    OBVIOUS
  <1> HIDE DEF n, more
  <1>2. PICK g : IsRun(more, n + 1, g) /\ Gather(more) = g[n + 1]
    BY <1>1, GatherRuns
  <1>3. PICK h : IsRun(results, n, h) /\ Gather(results) = h[n]
    BY <1>1, GatherRuns DEF n
  <1>4. /\ g[0] = Ungathered
        /\ \A k \in 0..(n + 1) : k + 1 <= n + 1 => g[k + 1] = Added(g[k], more[k + 1])
        /\ h[0] = Ungathered
        /\ \A k \in 0..n : k + 1 <= n => h[k + 1] = Added(h[k], results[k + 1])
    BY <1>1, <1>2, <1>3, RunStates
  <1> DEFINE Same == {k \in Nat : k <= n => g[k] = h[k]}
  <1>5. 0 \in Same
    BY <1>4
  <1>6. ASSUME NEW k \in Nat, k \in Same PROVE k + 1 \in Same
    <2> SUFFICES ASSUME k + 1 <= n PROVE g[k + 1] = h[k + 1]
      OBVIOUS
    <2>1. /\ g[k] = h[k] /\ k \in 0..n /\ k \in 0..(n + 1) /\ k + 1 <= n + 1
          /\ k + 1 \in 1..n
      BY <1>1, <1>6
    <2> QED BY <1>1, <1>4, <2>1
  <1>7. g[n] = h[n]
    <2>1. n \in Same
      <3> HIDE DEF Same
      <3> QED BY <1>1, <1>5, <1>6, ByInduction
    <2> QED BY <1>1, <2>1
  <1>8. g[n + 1] = Added(g[n], result)
    BY <1>1, <1>4
  <1> QED BY <1>2, <1>3, <1>7, <1>8 DEF more

LEMMA ListsTogether ==
    ASSUME NEW S, NEW s, Lists(s, S), NEW T, NEW t, Lists(t, T), S \cap T = {}
    PROVE  Lists(s \o t, S \cup T)
  <1> DEFINE u == s \o t
  <1>1. /\ s \in Seq(S) /\ Len(s) \in Nat /\ \A i \in 1..Len(s) : s[i] \in S
        /\ \A g \in S : \E i \in 1..Len(s) : s[i] = g
        /\ \A i, j \in 1..Len(s) : s[i] = s[j] => i = j
        /\ t \in Seq(T) /\ Len(t) \in Nat /\ \A i \in 1..Len(t) : t[i] \in T
        /\ \A g \in T : \E i \in 1..Len(t) : t[i] = g
        /\ \A i, j \in 1..Len(t) : t[i] = t[j] => i = j
    BY DEF Lists, Surjection
  <1>2. /\ u \in Seq(S \cup T) /\ Len(u) = Len(s) + Len(t)
        /\ \A i \in 1..Len(s) : u[i] = s[i]
        /\ \A i \in 1..Len(t) : u[Len(s) + i] = t[i]
    BY <1>1
  <1> HIDE DEF u
  <1>3. ASSUME NEW i \in 1..Len(u)
        PROVE  \/ i \in 1..Len(s) /\ u[i] = s[i]
               \/ i - Len(s) \in 1..Len(t) /\ u[i] = t[i - Len(s)]
    <2>1. \/ i \in 1..Len(s)
          \/ i - Len(s) \in 1..Len(t) /\ Len(s) + (i - Len(s)) = i
      BY <1>1, <1>2
    <2> QED BY <1>2, <2>1
  <1>4. \A g \in S \cup T : \E i \in 1..Len(u) : u[i] = g
    <2> SUFFICES ASSUME NEW g \in S \cup T PROVE \E i \in 1..Len(u) : u[i] = g
      OBVIOUS
    <2>1. CASE g \in S
      <3>1. PICK i \in 1..Len(s) : s[i] = g
        BY <1>1, <2>1
      <3>2. i \in 1..Len(u)
        BY <1>1, <1>2
      <3> QED BY <1>2, <3>1, <3>2
    <2>2. CASE g \in T
      <3>1. PICK i \in 1..Len(t) : t[i] = g
        BY <1>1, <2>2
      <3>2. Len(s) + i \in 1..Len(u)
        BY <1>1, <1>2
      <3> QED BY <1>2, <3>1, <3>2
    <2> QED BY <2>1, <2>2
  <1>5. ASSUME NEW i \in 1..Len(u), NEW j \in 1..Len(u), u[i] = u[j]
        PROVE  i = j
    <2>1. CASE i \in 1..Len(s) /\ u[i] = s[i] /\ j \in 1..Len(s) /\ u[j] = s[j]
      BY <1>1, <1>5, <2>1
    <2>2. CASE /\ i - Len(s) \in 1..Len(t) /\ u[i] = t[i - Len(s)]
               /\ j - Len(s) \in 1..Len(t) /\ u[j] = t[j - Len(s)]
      <3>1. i - Len(s) = j - Len(s)
        BY <1>1, <1>5, <2>2
      <3> QED BY <1>1, <3>1
    <2>3. ~(u[i] \in S /\ u[j] \in T) /\ ~(u[i] \in T /\ u[j] \in S)
      BY <1>5
    <2> QED BY <1>1, <1>3, <2>1, <2>2, <2>3
  <1>6. u \in [1..Len(u) -> S \cup T]
    BY <1>2
  <1>7. Lists(u, S \cup T)
    <2>1. u \in Surjection(1..Len(u), S \cup T)
      BY <1>4, <1>6 DEF Surjection
    <2> QED BY <1>2, <1>5, <2>1 DEF Lists
  <1> QED BY <1>7 DEF u
-----------------------------------------------------------------------------
(* The shards asked so far have each given the hits that a page of theirs  *)
(* needs, and no document has two shards.                                  *)
SameShard(h, found) == {g \in found : Route(g.id) = Route(h.id)}
LeadingEach(found) == {h \in found : Ahead(h, SameShard(h, found)) < Size}

Page == [hits: Seq(Hit), total: Nat]

Collected(done, results, found) ==
    /\ results \in Seq(Page) /\ SoundHits(found)
    /\ \A h \in found : Route(h.id) \in done
    /\ Lists(Gather(results).hits, LeadingEach(found))
    /\ Gather(results).total = Cardinality(found)

FanOut ==
    asked # None =>
      /\ asked \in [request: Requests, ranged: {shards}, done: SUBSET shards,
                    results: Seq(Page), found: SUBSET Hit]
      /\ Collected(asked.done, asked.results, asked.found)

CoordinatorInv == TypeOK /\ FanOut /\ CompleteAsksAll /\ MergedIsTopOfAll

LEMMA FoundSound ==
    ASSUME TypeOK, NEW s \in ShardIds, NEW request \in Requests
    PROVE  SoundHits(Found(s, request)) /\ \A h \in Found(s, request) : Route(h.id) = s
  <1> DEFINE live == {id \in DocIds : docs[s][id] # None}
             score(id) == Match(request.query, docs[s][id], Cardinality(live)).score
             F == Found(s, request)
  <1>1. ASSUME NEW h \in F
        PROVE  h.id \in live /\ h = [id |-> h.id, score |-> score(h.id)]
    BY DEF Found
  <1>2. IsFiniteSet(live) /\ Cardinality(live) \in Nat /\ Cardinality(live) <= Cardinality(DocIds)
    <2>1. IsFiniteSet(DocIds) /\ live \in SUBSET DocIds
      BY CoordinatorAssumption DEF CoordinatorAssumption
    <2> HIDE DEF live
    <2> QED BY <2>1, FS_Subset, FS_CardinalityType
  <1>3. \A id \in live : id \in DocIds /\ Route(id) = s /\ docs[s][id] \in Contents[id]
    BY DEF TypeOK
  <1> HIDE DEF F
  <1>4. ASSUME NEW id \in live PROVE score(id) \in Int
    <2>1. Cardinality(live) \in 1..Cardinality(DocIds)
      <3>1. Cardinality(live) # 0 /\ Cardinality(DocIds) \in Nat
        <4> HIDE DEF live
        <4> QED BY <1>2, FS_EmptySet, CoordinatorAssumption, FS_CardinalityType
                DEF CoordinatorAssumption
      <3> HIDE DEF live
      <3> QED BY <1>2, <3>1
    <2>2. id \in DocIds /\ docs[s][id] \in Contents[id]
      BY <1>3
    <2> HIDE DEF live
    <2> QED BY <2>1, <2>2, CoordinatorAssumption DEF CoordinatorAssumption
  <1>5. F \subseteq Hit
    <2> SUFFICES ASSUME NEW h \in F PROVE h \in Hit
      OBVIOUS
    <2>1. h.id \in live /\ h = [id |-> h.id, score |-> score(h.id)]
      BY <1>1
    <2> HIDE DEF live, score
    <2> QED BY <1>3, <1>4, <2>1 DEF Hit
  <1>6. \A h, g \in F : h.id = g.id => h = g
    <2> SUFFICES ASSUME NEW h \in F, NEW g \in F, h.id = g.id PROVE h = g
      OBVIOUS
    <2>1. h = [id |-> h.id, score |-> score(h.id)] /\ g = [id |-> g.id, score |-> score(g.id)]
      BY <1>1
    <2> HIDE DEF score
    <2> QED BY <2>1
  <1>7. IsFiniteSet(F)
    <2> DEFINE f == [h \in F |-> h.id]
    <2>1. f \in Injection(F, live)
      <3>1. f \in [F -> live] /\ \A h, g \in F : f[h] = f[g] => h = g
        BY <1>1, <1>6
      <3> HIDE DEF f, live
      <3> QED BY <3>1, Fun_IsInj
    <2> HIDE DEF f, live
    <2> QED BY <1>2, <2>1, FS_Injection
  <1>8. \A h \in F : Route(h.id) = s
    BY <1>1, <1>3
  <1> QED BY <1>5, <1>6, <1>7, <1>8 DEF SoundHits, F

LEMMA ResultLists ==
    ASSUME NEW F, SoundHits(F), Size \in Nat
    PROVE  /\ Result(F) \in Page /\ Lists(Result(F).hits, Leading(F, Size))
           /\ Result(F).total = Cardinality(F)
  <1>1. Lists(Cut(InOrder(F, Better), Size), Leading(F, Size))
    BY InOrderRanks, CutLists
  <1>2. /\ Result(F).hits = Cut(InOrder(F, Better), Size) /\ Result(F).total = Cardinality(F)
        /\ Result(F) = [hits |-> Result(F).hits, total |-> Result(F).total]
    BY DEF Result
  <1>3. Leading(F, Size) \subseteq Hit /\ Cardinality(F) \in Nat
    BY FS_CardinalityType DEF Leading, SoundHits
  <1>4. Lists(Result(F).hits, Leading(F, Size))
    BY <1>1, <1>2, Zenon
  <1>5. Result(F).hits \in Seq(Hit)
    BY <1>3, <1>4 DEF Lists
  <1>6. Result(F) \in Page
    BY <1>2, <1>3, <1>5 DEF Page
  <1> QED BY <1>2, <1>4, <1>6

LEMMA CollectedNext ==
    ASSUME NEW done, NEW results, NEW found, Collected(done, results, found), Size \in Nat,
           NEW s, s \notin done, NEW F, SoundHits(F), \A h \in F : Route(h.id) = s
    PROVE  Collected(done \cup {s}, Append(results, Result(F)), found \cup F)
  <1> DEFINE all == Gather(results)
             more == Append(results, Result(F))
             both == found \cup F
  <1>1. /\ results \in Seq(Page) /\ SoundHits(found)
        /\ \A h \in found : Route(h.id) \in done
        /\ Lists(all.hits, LeadingEach(found)) /\ all.total = Cardinality(found)
    BY DEF Collected
  <1>2. /\ Result(F) \in Page /\ Lists(Result(F).hits, Leading(F, Size))
        /\ Result(F).total = Cardinality(F)
    BY ResultLists
  <1>3. /\ more \in Seq(Page)
        /\ Gather(more).hits = all.hits \o Result(F).hits
        /\ Gather(more).total = all.total + Result(F).total
    <2>1. more \in Seq(Page)
      BY <1>1, <1>2
    <2>2. Gather(more) = Added(all, Result(F))
      BY <1>1, <1>2, GatherNext
    <2>3. /\ Added(all, Result(F)).hits = all.hits \o Result(F).hits
          /\ Added(all, Result(F)).total = all.total + Result(F).total
      <3> HIDE DEF all
      <3> QED BY DEF Added
    <2> QED BY <2>1, <2>2, <2>3, Zenon
  <1>4. \A h \in found, g \in F : Route(h.id) # Route(g.id)
    BY <1>1
  <1>5. found \cap F = {} /\ SoundHits(both)
    <2>1. found \cap F = {} /\ both \subseteq Hit /\ \A h, g \in both : h.id = g.id => h = g
      BY <1>1, <1>4 DEF SoundHits
    <2>2. IsFiniteSet(both)
      BY <1>1, FS_Union DEF SoundHits
    <2> QED BY <2>1, <2>2 DEF SoundHits
  <1>6. Cardinality(both) = Cardinality(found) + Cardinality(F)
    <2>1. /\ IsFiniteSet(found) /\ IsFiniteSet(F)
          /\ Cardinality(found) \in Nat /\ Cardinality(F) \in Nat
      BY <1>1, FS_CardinalityType DEF SoundHits
    <2> QED BY <1>5, <2>1, FS_Union, FS_EmptySet
  <1>7. LeadingEach(both) = LeadingEach(found) \cup Leading(F, Size)
    <2>1. \A h \in found : SameShard(h, both) = SameShard(h, found)
      BY <1>4 DEF SameShard
    <2>2. \A h \in F : SameShard(h, both) = F
      BY <1>4 DEF SameShard
    <2>3. \A h \in found : h \in LeadingEach(both) <=> h \in LeadingEach(found)
      BY <2>1 DEF LeadingEach
    <2>4. \A h \in F : h \in LeadingEach(both) <=> h \in Leading(F, Size)
      BY <2>2 DEF LeadingEach, Leading
    <2>5. /\ LeadingEach(both) \subseteq both
          /\ LeadingEach(found) \subseteq found /\ Leading(F, Size) \subseteq F
      BY DEF LeadingEach, Leading
    <2> HIDE DEF both
    <2>6. \A h : h \in both <=> h \in found \/ h \in F
      BY DEF both
    <2> QED BY <2>3, <2>4, <2>5, <2>6
  <1>8. Lists(Gather(more).hits, LeadingEach(both))
    <2>1. LeadingEach(found) \cap Leading(F, Size) = {}
      BY <1>5 DEF LeadingEach, Leading
    <2>2. Lists(all.hits \o Result(F).hits, LeadingEach(found) \cup Leading(F, Size))
      BY <1>1, <1>2, <2>1, ListsTogether
    <2> QED BY <1>3, <1>7, <2>2, Zenon
  <1>9. \A h \in both : Route(h.id) \in done \cup {s}
    BY <1>1
  <1> HIDE DEF all, more, both
  <1>10. Gather(more).total = Cardinality(both)
    BY <1>1, <1>2, <1>3, <1>6
  <1>11. Collected(done \cup {s}, more, both)
    BY <1>3, <1>5, <1>8, <1>9, <1>10 DEF Collected
  <1> QED BY <1>11 DEF more, both

(* What was cut away by a shard is not missing from the merged page.       *)
LEMMA MergedIsTop ==
    ASSUME NEW done, NEW results, NEW found, Collected(done, results, found),
           Size \in Nat \ {0}
    PROVE  /\ Merge(results, Size).hits = Cut(InOrder(found, Better), Size)
           /\ Merge(results, Size).total = Cardinality(found)
  <1> DEFINE hits == Gather(results).hits
             G == LeadingEach(found)
  <1>1. SoundHits(found) /\ Lists(hits, G) /\ Gather(results).total = Cardinality(found)
    BY DEF Collected
  <1>2. G \subseteq found
    BY DEF LeadingEach
  <1>3. SoundHits(G)
    <2> HIDE DEF G
    <2>1. IsFiniteSet(G)
      BY <1>1, <1>2, FS_Subset DEF SoundHits
    <2> QED BY <1>1, <1>2, <2>1 DEF SoundHits
  <1>4. Leading(found, Size) \subseteq G
    <2> SUFFICES ASSUME NEW h \in found, Ahead(h, found) < Size
                 PROVE  Ahead(h, SameShard(h, found)) < Size
      BY DEF Leading, LeadingEach
    <2> DEFINE A == {g \in found : Better(g, h)}
               B == {g \in SameShard(h, found) : Better(g, h)}
    <2>1. B \in SUBSET A /\ A \in SUBSET found
      BY DEF SameShard
    <2>2. Ahead(h, found) = Cardinality(A) /\ Ahead(h, SameShard(h, found)) = Cardinality(B)
      BY DEF Ahead
    <2> HIDE DEF A, B
    <2>3. IsFiniteSet(A)
      BY <1>1, <2>1, FS_Subset DEF SoundHits
    <2>4. /\ IsFiniteSet(B) /\ Cardinality(B) <= Cardinality(A)
          /\ Cardinality(A) \in Nat /\ Cardinality(B) \in Nat
      BY <2>1, <2>3, FS_Subset, FS_CardinalityType
    <2> QED BY <2>2, <2>4
  <1>5. Ranks(Sorted(hits), G) /\ Ranks(InOrder(found, Better), found)
    <2> HIDE DEF hits, G
    <2> QED BY <1>1, <1>3, SortedRanks, InOrderRanks
  <1>6. Cut(Sorted(hits), Size) = Cut(InOrder(found, Better), Size)
    <2> HIDE DEF hits, G
    <2> QED BY <1>2, <1>4, <1>5, CutsAgree
  <1>7. /\ Merge(results, Size).hits = Cut(Sorted(hits), Size)
        /\ Merge(results, Size).total = Gather(results).total
    BY DEF Merge
  <1> QED BY <1>1, <1>6, <1>7, Zenon
-----------------------------------------------------------------------------
LEMMA SearchShardKeeps ==
    ASSUME TypeOK, FanOut, NEW s \in ShardIds, SearchShard(s)
    PROVE  CoordinatorInv'
  <1> DEFINE F == Found(s, asked.request)
             results == Append(asked.results, Result(F))
  <1>1. /\ asked # None /\ s \in asked.ranged \ asked.done
        /\ asked' = [asked EXCEPT !.done = asked.done \cup {s}, !.results = results,
                                  !.found = asked.found \cup F]
        /\ answer' = None /\ shards' = shards /\ docs' = docs
    BY DEF SearchShard
  <1>2. /\ asked \in [request: Requests, ranged: {shards}, done: SUBSET shards,
                       results: Seq(Page), found: SUBSET Hit]
        /\ Size \in Nat \ {0}
        /\ Collected(asked.done, asked.results, asked.found)
    BY <1>1, CoordinatorAssumption DEF FanOut, CoordinatorAssumption
  <1>3. SoundHits(F) /\ \A h \in F : Route(h.id) = s
    BY <1>2, FoundSound
  <1>4. Collected(asked.done \cup {s}, results, asked.found \cup F)
    <2> HIDE DEF F
    <2> QED BY <1>1, <1>2, <1>3, CollectedNext
  <1>5. results \in Seq(Page) /\ asked.found \cup F \in SUBSET Hit
    BY <1>4 DEF Collected, SoundHits
  <1> HIDE DEF F, results
  <1>6. /\ asked' \in [request: Requests, ranged: {shards}, done: SUBSET shards,
                        results: Seq(Page), found: SUBSET Hit]
        /\ asked'.request = asked.request /\ asked'.done = asked.done \cup {s}
        /\ asked'.results = results /\ asked'.found = asked.found \cup F
    BY <1>1, <1>2, <1>5
  <1>7. FanOut'
    BY <1>1, <1>2, <1>4, <1>6
       DEF FanOut, Collected, Route, count, LeadingEach, SameShard
  <1>8. TypeOK'
    BY <1>1, <1>6 DEF TypeOK, Route, count
  <1> QED BY <1>1, <1>7, <1>8 DEF CoordinatorInv, CompleteAsksAll, MergedIsTopOfAll

LEMMA ReturnKeeps ==
    ASSUME TypeOK, FanOut, asked # None, NEW complete, Return(complete),
           complete => asked.done = asked.ranged
    PROVE  CoordinatorInv'
  <1>1. /\ asked.ranged = shards /\ Size \in Nat \ {0}
        /\ Collected(asked.done, asked.results, asked.found)
    BY CoordinatorAssumption DEF FanOut, CoordinatorAssumption
  <1>2. /\ answer'.complete = complete /\ answer'.of = asked.done
        /\ answer'.found = asked.found /\ answer'.merged = Merge(asked.results, Size)
        /\ asked' = None /\ UNCHANGED <<shards, docs>>
    BY DEF Return
  <1>3. CompleteAsksAll'
    BY <1>1, <1>2 DEF CompleteAsksAll
  <1>4. /\ answer'.merged.hits = Cut(InOrder(answer'.found, Better), Size)
        /\ answer'.merged.total = Cardinality(answer'.found)
    BY <1>1, <1>2, MergedIsTop
  <1>5. \A h, g \in answer'.found : h.id = g.id => h = g
    BY <1>1, <1>2 DEF Collected, SoundHits
  <1>6. MergedIsTopOfAll'
    BY <1>4, <1>5 DEF MergedIsTopOfAll
  <1> QED BY <1>2, <1>3, <1>6 DEF CoordinatorInv, TypeOK, FanOut, Route, count

LEMMA CoordinatorInvKept ==
    ASSUME CoordinatorInv, [Next]_vars
    PROVE  CoordinatorInv'
  <1> USE DEF CoordinatorInv
  <1>1. ASSUME NEW s \in ShardIds, Register(s) PROVE CoordinatorInv'
    <2>1. /\ shards' = shards \cup {s} /\ docs' = [docs EXCEPT ![s] = Empty]
          /\ asked = None /\ asked' = None /\ answer' = None
      BY <1>1 DEF Register
    <2>2. TypeOK'
      BY <2>1 DEF TypeOK, Empty, Route, count
    <2> QED BY <2>1, <2>2 DEF FanOut, CompleteAsksAll, MergedIsTopOfAll
  <1>2. ASSUME NEW id \in DocIds, Write(id) PROVE CoordinatorInv'
    <2>1. PICK content \in Contents[id] :
            docs' = [docs EXCEPT ![Route(id)][id] = content]
      BY <1>2 DEF Write
    <2>2. /\ Route(id) \in shards /\ shards' = shards /\ asked' = asked /\ answer' = None
          /\ Route(id) \in ShardIds
      BY <1>2 DEF Write, TypeOK
    <2>3. TypeOK'
      BY <2>1, <2>2 DEF TypeOK, Route, count
    <2> QED BY <2>2, <2>3 DEF FanOut, CompleteAsksAll, MergedIsTopOfAll, Collected, Route,
                              count, LeadingEach, SameShard
  <1>3. ASSUME NEW request \in Requests, Query(request) PROVE CoordinatorInv'
    <2>1. /\ asked' = [request |-> request, ranged |-> shards, done |-> {},
                       results |-> <<>>, found |-> {}]
          /\ answer' = None /\ UNCHANGED <<shards, docs>>
      BY <1>3 DEF Query
    <2>2. Collected({}, <<>>, {})
      <3>1. SoundHits({}) /\ Cardinality({}) = 0
        BY FS_EmptySet DEF SoundHits
      <3>2. LeadingEach({}) = {} /\ Lists(<<>>, {})
        BY DEF LeadingEach, Lists, Surjection
      <3> QED BY <3>1, <3>2, GatherNone DEF Collected, Ungathered
    <2>3. /\ asked' \in [request: Requests, ranged: {shards}, done: SUBSET shards,
                          results: Seq(Page), found: SUBSET Hit]
          /\ asked'.request = request /\ asked'.done = {} /\ asked'.results = <<>>
          /\ asked'.found = {}
      BY <2>1
    <2>4. FanOut'
      BY <2>1, <2>2, <2>3 DEF FanOut
    <2> QED BY <2>1, <2>3, <2>4 DEF TypeOK, CompleteAsksAll, MergedIsTopOfAll, Route, count
  <1>4. ASSUME NEW s \in ShardIds, SearchFails(s) PROVE CoordinatorInv'
    BY <1>4, ReturnKeeps DEF SearchFails
  <1>5. CASE AllSearched
    BY <1>5, ReturnKeeps DEF AllSearched
  <1>6. CASE Refuse \/ UNCHANGED vars
    BY <1>6 DEF Refuse, vars, TypeOK, FanOut, CompleteAsksAll, MergedIsTopOfAll, Route, count
  <1> QED BY <1>1, <1>2, <1>3, <1>4, <1>5, <1>6, SearchShardKeeps DEF Next

LEMMA InitCoordinates == Init => CoordinatorInv
  BY DEF Init, Empty, CoordinatorInv, TypeOK, FanOut, CompleteAsksAll, MergedIsTopOfAll

THEOREM CoordinatorInvariant == Spec => []CoordinatorInv
  BY InitCoordinates, CoordinatorInvKept, PTL DEF Spec

(* Documents stay where Route sends them, and a fan-out asks registered    *)
(* shards only (Coordinator.Route, Coordinator.Query).                     *)
THEOREM TypeCorrect == Spec => []TypeOK
  <1>1. CoordinatorInv => TypeOK
    BY DEF CoordinatorInv
  <1> QED BY <1>1, CoordinatorInvariant, PTL

(* An answer without an error comes from every shard registered when it is *)
(* given, for any number of shards (Coordinator.Query and its lock).       *)
THEOREM CompleteAnswersAskAll == Spec => []CompleteAsksAll
  <1>1. CoordinatorInv => CompleteAsksAll
    BY DEF CoordinatorInv
  <1> QED BY <1>1, CoordinatorInvariant, PTL

(* Merging pages loses nothing: for every evaluation of clauses, every     *)
(* routing, page size and number of shards, and whatever is written during *)
(* the fan-out, the merged page is the first page of all that was found    *)
(* (Merge over the results of Engine.Search).                              *)
THEOREM MergedPageIsTopOfAll == Spec => []MergedIsTopOfAll
  <1>1. CoordinatorInv => MergedIsTopOfAll
    BY DEF CoordinatorInv
  <1> QED BY <1>1, CoordinatorInvariant, PTL
-----------------------------------------------------------------------------
(* The digits of a number are what their recursive definition says.        *)
DigitsRun(n, g) ==
    g = [k \in 0..n |-> IF k < 10 THEN <<k>> ELSE Append(g[k \div 10], k % 10)]

LEMMA DigitsRunStates ==
    ASSUME NEW n \in Nat, NEW g, DigitsRun(n, g), NEW k \in 0..n
    PROVE  /\ g[k] = IF k < 10 THEN <<k>> ELSE Append(g[k \div 10], k % 10)
           /\ k >= 10 => k \div 10 \in 0..n /\ k \div 10 < k
  <1>1. g = [i \in 0..n |-> IF i < 10 THEN <<i>> ELSE Append(g[i \div 10], i % 10)]
    BY DEF DigitsRun
  <1>2. g[k] = IF k < 10 THEN <<k>> ELSE Append(g[k \div 10], k % 10)
    BY <1>1, Zenon
  <1>3. k >= 10 => k \div 10 \in 0..n /\ k \div 10 < k
    OBVIOUS
  <1> QED BY <1>2, <1>3

LEMMA DigitsRunsAgree ==
    ASSUME NEW n \in Nat, NEW g, DigitsRun(n, g), NEW m \in Nat, NEW h, DigitsRun(m, h)
    PROVE  \A k \in Nat : k <= n /\ k <= m => g[k] = h[k]
  <1> DEFINE T == {k \in Nat : \A i \in 0..k : i <= n /\ i <= m => g[i] = h[i]}
  <1>1. ASSUME NEW k \in Nat, k <= n, k <= m,
               \A i \in Nat : i < k => g[i] = h[i]
        PROVE  g[k] = h[k]
    <2>1. k \in 0..n /\ k \in 0..m
      BY <1>1
    <2>2. /\ g[k] = IF k < 10 THEN <<k>> ELSE Append(g[k \div 10], k % 10)
          /\ h[k] = IF k < 10 THEN <<k>> ELSE Append(h[k \div 10], k % 10)
          /\ k >= 10 => k \div 10 \in 0..n /\ k \div 10 < k
      BY <2>1, DigitsRunStates
    <2>3. CASE k < 10
      BY <2>2, <2>3
    <2>4. CASE k >= 10
      <3>1. k \div 10 \in Nat /\ k \div 10 < k /\ ~(k < 10)
        BY <2>2, <2>4
      <3>2. g[k \div 10] = h[k \div 10]
        BY <1>1, <3>1
      <3> QED BY <2>2, <3>1, <3>2
    <2> QED BY <2>3, <2>4
  <1>2. 0 \in T
    BY <1>1
  <1>3. ASSUME NEW k \in Nat, k \in T PROVE k + 1 \in T
    <2>1. \A i \in Nat : i < k + 1 => i \in 0..k
      OBVIOUS
    <2>2. k + 1 <= n /\ k + 1 <= m => g[k + 1] = h[k + 1]
      <3> SUFFICES ASSUME k + 1 <= n, k + 1 <= m PROVE g[k + 1] = h[k + 1]
        OBVIOUS
      <3>1. \A i \in Nat : i < k + 1 => g[i] = h[i]
        BY <1>3, <2>1
      <3> QED BY <1>1, <3>1
    <2>3. \A i \in 0..(k + 1) : i \in 0..k \/ i = k + 1
      OBVIOUS
    <2> QED BY <1>3, <2>2, <2>3
  <1>4. Nat \subseteq T
    <2> HIDE DEF T
    <2> QED BY <1>2, <1>3, ByInduction
  <1>5. ASSUME NEW k \in Nat, k <= n, k <= m PROVE g[k] = h[k]
    <2>1. k \in T /\ k \in 0..k
      BY <1>4
    <2> QED BY <1>5, <2>1
  <1> QED BY <1>5

LEMMA DigitsRunExists ==
    ASSUME NEW n \in Nat
    PROVE  \E g : DigitsRun(n, g)
  <1> DEFINE T == {m \in Nat : \E g : DigitsRun(m, g)}
  <1>1. 0 \in T
    <2> DEFINE g == [k \in 0..0 |-> <<k>>]
    <2>1. g = [k \in 0..0 |-> IF k < 10 THEN <<k>> ELSE Append(g[k \div 10], k % 10)]
      OBVIOUS
    <2>2. DigitsRun(0, g)
      BY <2>1 DEF DigitsRun
    <2> QED BY <2>2
  <1>2. ASSUME NEW m \in Nat, m \in T PROVE m + 1 \in T
    <2>1. PICK g : DigitsRun(m, g)
      BY <1>2
    <2> DEFINE next == IF m + 1 < 10 THEN <<m + 1>>
                       ELSE Append(g[(m + 1) \div 10], (m + 1) % 10)
               h == [k \in 0..(m + 1) |-> IF k = m + 1 THEN next ELSE g[k]]
    <2>2. ASSUME NEW k \in 0..(m + 1)
          PROVE  h[k] = IF k < 10 THEN <<k>> ELSE Append(h[k \div 10], k % 10)
      <3>1. k >= 10 => k \div 10 \in 0..m /\ k \div 10 # m + 1 /\ k \div 10 \in 0..(m + 1)
        OBVIOUS
      <3>2. k >= 10 => h[k \div 10] = g[k \div 10]
        BY <3>1
      <3>3. CASE k = m + 1
        <4>1. h[k] = next
          BY <3>3
        <4> HIDE DEF h
        <4> QED BY <3>2, <3>3, <4>1
      <3>4. CASE k # m + 1
        <4>1. k \in 0..m /\ h[k] = g[k]
          BY <3>4
        <4>2. g[k] = IF k < 10 THEN <<k>> ELSE Append(g[k \div 10], k % 10)
          BY <2>1, <4>1, DigitsRunStates
        <4> HIDE DEF h
        <4> QED BY <3>2, <4>1, <4>2
      <3> QED BY <3>3, <3>4
    <2>3. h = [k \in 0..(m + 1) |-> h[k]]
      OBVIOUS
    <2> HIDE DEF h
    <2>4. h = [k \in 0..(m + 1) |-> IF k < 10 THEN <<k>> ELSE Append(h[k \div 10], k % 10)]
      BY <2>2, <2>3
    <2>5. DigitsRun(m + 1, h)
      BY <2>4 DEF DigitsRun
    <2> QED BY <2>5
  <1>3. n \in T
    <2> HIDE DEF T
    <2> QED BY <1>1, <1>2, ByInduction
  <1> QED BY <1>3

LEMMA DigitsAre ==
    \A n \in Nat : Digits[n] = IF n < 10 THEN <<n>> ELSE Append(Digits[n \div 10], n % 10)
  <1> DEFINE Run(n) == CHOOSE g : DigitsRun(n, g)
             f == [n \in Nat |-> Run(n)[n]]
  <1>1. \A n \in Nat : DigitsRun(n, Run(n))
    BY DigitsRunExists, Zenon
  <1> HIDE DEF Run
  <1>2. ASSUME NEW n \in Nat
        PROVE  f[n] = IF n < 10 THEN <<n>> ELSE Append(f[n \div 10], n % 10)
    <2>1. /\ Run(n)[n] = IF n < 10 THEN <<n>> ELSE Append(Run(n)[n \div 10], n % 10)
          /\ n >= 10 => n \div 10 \in 0..n
      <3>1. n \in 0..n
        OBVIOUS
      <3> QED BY <1>1, <3>1, DigitsRunStates
    <2>2. ASSUME n >= 10 PROVE Run(n)[n \div 10] = f[n \div 10]
      <3>1. n \div 10 \in Nat /\ n \div 10 <= n /\ n \div 10 <= n \div 10
        BY <2>1, <2>2
      <3>2. Run(n)[n \div 10] = Run(n \div 10)[n \div 10]
        BY <1>1, <3>1, DigitsRunsAgree
      <3> QED BY <3>1, <3>2
    <2> DEFINE tenth == n \div 10
    <2>3. f[n] = Run(n)[n]
      OBVIOUS
    <2> HIDE DEF f
    <2> QED BY <2>1, <2>2, <2>3
  <1>3. f = [n \in Nat |-> f[n]]
    OBVIOUS
  <1> HIDE DEF f
  <1>4. f = [n \in Nat |-> IF n < 10 THEN <<n>> ELSE Append(f[n \div 10], n % 10)]
    BY <1>2, <1>3
  <1>5. Digits = CHOOSE d : d = [n \in Nat |-> IF n < 10 THEN <<n>>
                                              ELSE Append(d[n \div 10], n % 10)]
    BY DEF Digits
  <1>6. Digits = [n \in Nat |-> IF n < 10 THEN <<n>> ELSE Append(Digits[n \div 10], n % 10)]
    BY <1>4, <1>5, Zenon
  <1> QED BY <1>6, Zenon

Decimal == 0..9

(* Digits are from 0 to 9, and a number of ten or more has one more of     *)
(* them than its tenth part.                                               *)
LEMMA DigitsShape ==
    \A n \in Nat : /\ Digits[n] \in Seq(Decimal) /\ Len(Digits[n]) >= 1
                   /\ n < 10 => Digits[n] = <<n>> /\ Len(Digits[n]) = 1
                   /\ n >= 10 => /\ Digits[n \div 10] \in Seq(Decimal)
                                 /\ Digits[n] = Append(Digits[n \div 10], n % 10)
                                 /\ Len(Digits[n]) = Len(Digits[n \div 10]) + 1
                                 /\ Len(Digits[n]) >= 2
  <1> DEFINE Shaped(n) == Digits[n] \in Seq(Decimal) /\ Len(Digits[n]) >= 1
             T == {n \in Nat : \A k \in Nat : k <= n => Shaped(k)}
  <1>1. ASSUME NEW n \in Nat, n < 10 PROVE Digits[n] = <<n>> /\ Len(Digits[n]) = 1 /\ Shaped(n)
    <2>1. Digits[n] = <<n>>
      BY <1>1, DigitsAre
    <2>2. n \in Decimal
      BY <1>1 DEF Decimal
    <2> QED BY <2>1, <2>2
  <1>2. ASSUME NEW n \in Nat, n >= 10, Shaped(n \div 10)
        PROVE  /\ Shaped(n)
               /\ Digits[n] = Append(Digits[n \div 10], n % 10)
               /\ Len(Digits[n]) = Len(Digits[n \div 10]) + 1
    <2>1. ~(n < 10) /\ n % 10 \in Decimal
      BY <1>2 DEF Decimal
    <2>2. Digits[n] = Append(Digits[n \div 10], n % 10)
      BY <2>1, DigitsAre
    <2> QED BY <1>2, <2>1, <2>2
  <1>3. \A n \in Nat : n >= 10 => n \div 10 \in Nat /\ n \div 10 < n
    OBVIOUS
  <1>4. Nat \subseteq T
    <2>1. 0 \in T
      BY <1>1
    <2>2. ASSUME NEW n \in Nat, n \in T PROVE n + 1 \in T
      <3>1. \A k \in Nat : k <= n => Shaped(k)
        BY <2>2
      <3> HIDE DEF Shaped
      <3>2. Shaped(n + 1)
        <4>1. CASE n + 1 < 10
          BY <4>1, <1>1
        <4>2. CASE n + 1 >= 10
          <5>1. (n + 1) \div 10 \in Nat /\ (n + 1) \div 10 <= n
            BY <4>2
          <5> QED BY <3>1, <4>2, <5>1, <1>2
        <4> QED BY <4>1, <4>2
      <3>3. \A k \in Nat : k <= n + 1 => k <= n \/ k = n + 1
        OBVIOUS
      <3> QED BY <3>1, <3>2, <3>3
    <2> HIDE DEF T
    <2> QED BY <2>1, <2>2, ByInduction
  <1>5. ASSUME NEW n \in Nat PROVE Shaped(n)
    <2>1. n \in T /\ n <= n
      BY <1>4
    <2> HIDE DEF Shaped
    <2> QED BY <2>1
  <1> HIDE DEF T
  <1>6. ASSUME NEW n \in Nat, n >= 10
        PROVE  /\ Digits[n \div 10] \in Seq(Decimal)
               /\ Digits[n] = Append(Digits[n \div 10], n % 10)
               /\ Len(Digits[n]) = Len(Digits[n \div 10]) + 1 /\ Len(Digits[n]) >= 2
    <2>1. n \div 10 \in Nat
      BY <1>3, <1>6
    <2>2. Shaped(n \div 10)
      BY <2>1, <1>5
    <2>3. Len(Digits[n]) = Len(Digits[n \div 10]) + 1 /\ Digits[n] = Append(Digits[n \div 10], n % 10)
      BY <2>2, <1>2, <1>6
    <2>4. Len(Digits[n \div 10]) \in Nat
      BY <2>2
    <2> QED BY <2>2, <2>3, <2>4
  <1> QED BY <1>1, <1>5, <1>6

(* The text s is before t: where they first differ, s has the lesser digit. *)
Less(s, t) ==
    \E i \in DOMAIN s \cap DOMAIN t : s[i] < t[i] /\ \A j \in 1..(i - 1) : s[j] = t[j]

(* Texts with a digit more each compare as the texts do, and then the digits. *)
LEMMA LessByLastDigit ==
    ASSUME NEW s \in Seq(Decimal), NEW t \in Seq(Decimal), Len(s) = Len(t),
           NEW x \in Decimal, NEW y \in Decimal
    PROVE  /\ Less(Append(s, x), Append(t, y)) <=> (Less(s, t) \/ (s = t /\ x < y))
           /\ Append(s, x) = Append(t, y) <=> (s = t /\ x = y)
  <1> DEFINE n == Len(s)
             S == Append(s, x)
             U == Append(t, y)
  <1>1. /\ n \in Nat /\ n = Len(t) /\ DOMAIN s = 1..n /\ DOMAIN t = 1..n
        /\ DOMAIN S = 1..(n + 1) /\ DOMAIN U = 1..(n + 1)
        /\ S[n + 1] = x /\ U[n + 1] = y
        /\ \A i \in 1..n : S[i] = s[i] /\ U[i] = t[i]
    OBVIOUS
  <1>2. s = t <=> \A i \in 1..n : s[i] = t[i]
    OBVIOUS
  <1>3. S = U <=> \A i \in 1..(n + 1) : S[i] = U[i]
    <2>1. S \in Seq(Decimal) /\ U \in Seq(Decimal) /\ Len(S) = n + 1 /\ Len(U) = n + 1
      OBVIOUS
    <2> HIDE DEF S, U, n
    <2> QED BY <2>1, <1>1
  <1> HIDE DEF S, U, n
  <1>4. S = U <=> s = t /\ x = y
    BY <1>1, <1>2, <1>3
  <1>5. ASSUME Less(S, U) PROVE Less(s, t) \/ (s = t /\ x < y)
    <2>1. PICK i \in 1..(n + 1) : S[i] < U[i] /\ \A j \in 1..(i - 1) : S[j] = U[j]
      BY <1>1, <1>5 DEF Less
    <2>2. CASE i = n + 1
      BY <1>1, <1>2, <2>1, <2>2
    <2>3. CASE i \in 1..n
      <3>1. \A j \in 1..(i - 1) : j \in 1..n
        BY <1>1, <2>3
      <3>2. s[i] < t[i] /\ \A j \in 1..(i - 1) : s[j] = t[j]
        BY <1>1, <2>1, <2>3, <3>1
      <3> QED BY <1>1, <2>3, <3>2 DEF Less
    <2> QED BY <1>1, <2>2, <2>3
  <1>6. ASSUME Less(s, t) PROVE Less(S, U)
    <2>1. PICK i \in 1..n : s[i] < t[i] /\ \A j \in 1..(i - 1) : s[j] = t[j]
      BY <1>1, <1>6 DEF Less
    <2>2. i \in 1..(n + 1) /\ \A j \in 1..(i - 1) : j \in 1..n
      BY <1>1
    <2>3. S[i] < U[i] /\ \A j \in 1..(i - 1) : S[j] = U[j]
      BY <1>1, <2>1, <2>2
    <2> QED BY <1>1, <2>2, <2>3 DEF Less
  <1>7. ASSUME s = t, x < y PROVE Less(S, U)
    <2>1. n + 1 \in 1..(n + 1) /\ (n + 1) - 1 = n
      BY <1>1
    <2>2. S[n + 1] < U[n + 1] /\ \A j \in 1..((n + 1) - 1) : S[j] = U[j]
      BY <1>1, <1>7, <2>1
    <2> QED BY <1>1, <2>1, <2>2 DEF Less
  <1> QED BY <1>4, <1>5, <1>6, <1>7 DEF S, U

(* Among numbers of one width, the order of the texts is that of the       *)
(* numbers.                                                                *)
LEMMA DigitsInOrder ==
    \A n, m \in Nat : Len(Digits[n]) = Len(Digits[m]) =>
      /\ Less(Digits[n], Digits[m]) <=> n < m
      /\ Digits[n] = Digits[m] <=> n = m
  <1> DEFINE Orderly(n) ==
               \A m \in Nat : Len(Digits[n]) = Len(Digits[m]) =>
                 /\ Less(Digits[n], Digits[m]) <=> n < m
                 /\ Digits[n] = Digits[m] <=> n = m
             T == {n \in Nat : \A k \in Nat : k <= n => Orderly(k)}
  <1>1. ASSUME NEW n \in Nat, n < 10 PROVE Orderly(n)
    <2> SUFFICES ASSUME NEW m \in Nat, Len(Digits[n]) = Len(Digits[m])
                 PROVE  /\ Less(Digits[n], Digits[m]) <=> n < m
                        /\ Digits[n] = Digits[m] <=> n = m
      OBVIOUS
    <2>1. Digits[n] = <<n>> /\ Len(Digits[n]) = 1
      BY <1>1, DigitsShape
    <2>2. m < 10
      <3>1. m >= 10 => Len(Digits[m]) >= 2
        BY DigitsShape
      <3>2. Len(Digits[m]) = 1
        BY <2>1
      <3> QED BY <3>1, <3>2
    <2>3. Digits[m] = <<m>>
      BY <2>2, DigitsShape
    <2>4. Less(<<n>>, <<m>>) <=> n < m
      BY DEF Less
    <2> QED BY <2>1, <2>3, <2>4
  <1>2. ASSUME NEW n \in Nat, n >= 10, Orderly(n \div 10) PROVE Orderly(n)
    <2> SUFFICES ASSUME NEW m \in Nat, Len(Digits[n]) = Len(Digits[m])
                 PROVE  /\ Less(Digits[n], Digits[m]) <=> n < m
                        /\ Digits[n] = Digits[m] <=> n = m
      OBVIOUS
    <2> DEFINE a == n \div 10  b == m \div 10  x == n % 10  y == m % 10
    <2>1. /\ Digits[a] \in Seq(Decimal) /\ Digits[n] = Append(Digits[a], x)
          /\ Len(Digits[n]) = Len(Digits[a]) + 1 /\ Len(Digits[n]) >= 2
      BY <1>2, DigitsShape
    <2>2. m >= 10
      <3>1. m < 10 => Len(Digits[m]) = 1
        BY DigitsShape
      <3> QED BY <2>1, <3>1
    <2>3. /\ Digits[b] \in Seq(Decimal) /\ Digits[m] = Append(Digits[b], y)
          /\ Len(Digits[m]) = Len(Digits[b]) + 1
      BY <2>2, DigitsShape
    <2>4. /\ a \in Nat /\ b \in Nat /\ x \in Decimal /\ y \in Decimal
          /\ n < m <=> a < b \/ (a = b /\ x < y)
          /\ n = m <=> a = b /\ x = y
      BY DEF Decimal
    <2> HIDE DEF a, b, x, y
    <2>5. Len(Digits[a]) = Len(Digits[b])
      <3>1. Len(Digits[a]) \in Nat /\ Len(Digits[b]) \in Nat
        BY <2>1, <2>3
      <3> QED BY <2>1, <2>3, <3>1
    <2>6. /\ Less(Digits[a], Digits[b]) <=> a < b
          /\ Digits[a] = Digits[b] <=> a = b
      BY <1>2, <2>4, <2>5 DEF a
    <2>7. /\ Less(Digits[n], Digits[m])
                <=> Less(Digits[a], Digits[b]) \/ (Digits[a] = Digits[b] /\ x < y)
          /\ Digits[n] = Digits[m] <=> Digits[a] = Digits[b] /\ x = y
      <3> DEFINE s == Digits[a]
                 t == Digits[b]
      <3>1. /\ s \in Seq(Decimal) /\ t \in Seq(Decimal) /\ Len(s) = Len(t)
            /\ x \in Decimal /\ y \in Decimal
        BY <2>1, <2>3, <2>4, <2>5
      <3> HIDE DEF s, t
      <3>2. /\ Less(Append(s, x), Append(t, y)) <=> (Less(s, t) \/ (s = t /\ x < y))
            /\ Append(s, x) = Append(t, y) <=> (s = t /\ x = y)
        BY <3>1, LessByLastDigit
      <3> QED BY <2>1, <2>3, <3>2 DEF s, t
    <2> QED BY <2>4, <2>6, <2>7
  <1> HIDE DEF Orderly
  <1>3. Nat \subseteq T
    <2>1. 0 \in T
      BY <1>1
    <2>2. ASSUME NEW n \in Nat, n \in T PROVE n + 1 \in T
      <3>1. \A k \in Nat : k <= n => Orderly(k)
        BY <2>2
      <3>2. Orderly(n + 1)
        <4>1. CASE n + 1 < 10
          BY <4>1, <1>1
        <4>2. CASE n + 1 >= 10
          <5>1. (n + 1) \div 10 \in Nat /\ (n + 1) \div 10 <= n
            BY <4>2
          <5> QED BY <3>1, <4>2, <5>1, <1>2
        <4> QED BY <4>1, <4>2
      <3>3. \A k \in Nat : k <= n + 1 => k <= n \/ k = n + 1
        OBVIOUS
      <3> QED BY <3>1, <3>2, <3>3
    <2> HIDE DEF T
    <2> QED BY <2>1, <2>2, ByInduction
  <1>4. ASSUME NEW n \in Nat PROVE Orderly(n)
    <2>1. n \in T /\ n <= n
      BY <1>3
    <2> QED BY <2>1
  <1> QED BY <1>4 DEF Orderly

(* Of two texts of one length, one is at most the other if they are the    *)
(* same or the first difference says so.                                   *)
LEMMA AtMostIsLess ==
    ASSUME NEW s \in Seq(Int), NEW t \in Seq(Int), Len(s) = Len(t)
    PROVE  AtMost(s, t) <=> (s = t \/ Less(s, t))
  <1>1. SubSeq(t, 1, Len(t)) = t /\ SubSeq(s, 1, Len(s)) = s
    BY SubSeqFull, Zenon
  <1>2. IsPrefix(s, t) <=> s = t
    BY <1>1 DEF IsPrefix
  <1> QED BY <1>2 DEF AtMost, Less

LEMMA BothJoined ==
    ASSUME NEW s \in Seq(Int), NEW t \in Seq(Int)
    PROVE  /\ s \o t \in Seq(Int) /\ Len(s \o t) = Len(s) + Len(t)
           /\ \A i \in 1..Len(s) : (s \o t)[i] = s[i]
           /\ \A i \in 1..Len(t) : (s \o t)[Len(s) + i] = t[i]
  OBVIOUS

(* The characters of a number with an exponent: the significant digits     *)
(* with a point behind the first, then the exponent.                       *)
FractionLen(k) == IF k = 1 THEN 0 ELSE k

Shown(d, k, x) ==
    /\ x \in Seq(Int) /\ Len(x) = FractionLen(k) + 5
    /\ x[1] = d[1]
    /\ k > 1 => x[2] = Point
    /\ k > 1 => \A i \in 2..k : x[i + 1] = d[i]
    /\ x[FractionLen(k) + 2] = Exponent[1] /\ x[FractionLen(k) + 3] = Exponent[2]
    /\ x[FractionLen(k) + 4] = (Len(d) - 1) \div 10
    /\ x[FractionLen(k) + 5] = (Len(d) - 1) % 10

LEMMA ScientificShown ==
    ASSUME NEW d \in Seq(Decimal), Len(d) >= 1
    PROVE  /\ Significant(d) \in 1..Len(d)
           /\ \A i \in 1..Len(d) : i > Significant(d) => d[i] = 0
           /\ Shown(d, Significant(d), Scientific(d))
  <1> DEFINE k == Significant(d)
             S == {1} \cup {i \in DOMAIN d : d[i] # 0}
             e1 == (Len(d) - 1) \div 10
             e2 == (Len(d) - 1) % 10
             first == <<d[1]>>
             fraction == IF k = 1 THEN <<>> ELSE <<Point>> \o SubSeq(d, 2, k)
             exponent == <<e1, e2>>
             n == FractionLen(k)
             x == Scientific(d)
  <1>1. Len(d) \in Nat /\ DOMAIN d = 1..Len(d) /\ \A i \in 1..Len(d) : d[i] \in Int
    BY DEF Decimal
  <1>2. k \in 1..Len(d) /\ \A i \in 1..Len(d) : i > k => d[i] = 0
    <2>1. S \subseteq 1..Len(d) /\ S # {} /\ k = Max(S)
      BY <1>1 DEF Significant
    <2>2. \A i \in 1..Len(d) : i \in S \/ d[i] = 0
      BY <1>1
    <2> HIDE DEF S, k
    <2>3. k \in S /\ \A i \in S : k >= i
      BY <1>1, <2>1, LargestPosition
    <2> QED BY <1>1, <2>1, <2>2, <2>3
  <1>3. e1 \in Int /\ e2 \in Int
    BY <1>1
  <1>4. x = ((first \o fraction) \o Exponent) \o exponent
    BY DEF Scientific
  <1> HIDE DEF e1, e2, k, x
  <1>5. /\ first \in Seq(Int) /\ Len(first) = 1 /\ first[1] = d[1]
        /\ exponent \in Seq(Int) /\ Len(exponent) = 2 /\ exponent[1] = e1 /\ exponent[2] = e2
        /\ Exponent \in Seq(Int) /\ Len(Exponent) = 2
    BY <1>1, <1>2, <1>3 DEF Exponent
  <1>6. /\ fraction \in Seq(Int) /\ n \in Nat /\ Len(fraction) = n
        /\ k > 1 => n = k /\ fraction[1] = Point /\ \A i \in 2..k : fraction[i] = d[i]
    <2>1. k \in Int /\ k >= 1
      BY <1>1, <1>2
    <2>2. CASE k = 1
      BY <2>2 DEF FractionLen
    <2>3. CASE k > 1
      <3> DEFINE point == <<Point>>
                 tail == SubSeq(d, 2, k)
      <3>1. /\ tail \in Seq(Int) /\ Len(tail) = k - 1
            /\ \A i \in 1..(k - 1) : tail[i] = d[i + 1]
        BY <1>1, <1>2, <2>3
      <3>2. point \in Seq(Int) /\ Len(point) = 1 /\ point[1] = Point
        BY DEF Point
      <3>3. n = k /\ fraction = point \o tail
        <4>1. k # 1
          BY <2>1, <2>3
        <4> QED BY <4>1 DEF FractionLen
      <3> HIDE DEF point, tail, fraction, n
      <3>4. /\ fraction \in Seq(Int) /\ Len(fraction) = Len(point) + Len(tail)
            /\ \A i \in 1..Len(point) : fraction[i] = point[i]
            /\ \A i \in 1..Len(tail) : fraction[Len(point) + i] = tail[i]
        BY <3>1, <3>2, <3>3, BothJoined
      <3>5. fraction[1] = Point /\ Len(fraction) = k
        BY <2>1, <3>1, <3>2, <3>4
      <3>6. ASSUME NEW i \in 2..k PROVE fraction[i] = d[i]
        <4>1. i - 1 \in 1..(k - 1) /\ (i - 1) + 1 = i /\ 1 + (i - 1) = i
          BY <2>1
        <4>2. fraction[1 + (i - 1)] = tail[i - 1]
          BY <3>1, <3>2, <3>4, <4>1
        <4>3. tail[i - 1] = d[(i - 1) + 1]
          BY <3>1, <4>1
        <4> QED BY <4>1, <4>2, <4>3
      <3> QED BY <2>1, <3>3, <3>4, <3>5, <3>6
    <2> QED BY <2>1, <2>2, <2>3
  <1> DEFINE start == first \o fraction
             middle == start \o Exponent
  <1> HIDE DEF first, fraction, exponent, n
  <1>7. /\ start \in Seq(Int) /\ Len(start) = n + 1 /\ start[1] = d[1]
        /\ \A i \in 1..n : start[1 + i] = fraction[i]
    <2>1. /\ start \in Seq(Int) /\ Len(start) = Len(first) + Len(fraction)
          /\ \A i \in 1..Len(first) : start[i] = first[i]
          /\ \A i \in 1..Len(fraction) : start[Len(first) + i] = fraction[i]
      BY <1>5, <1>6, BothJoined
    <2> HIDE DEF start
    <2> QED BY <1>5, <1>6, <2>1
  <1> HIDE DEF start
  <1>8. /\ middle \in Seq(Int) /\ Len(middle) = n + 3
        /\ \A i \in 1..(n + 1) : middle[i] = start[i]
        /\ middle[n + 2] = Exponent[1] /\ middle[n + 3] = Exponent[2]
    <2>1. /\ middle \in Seq(Int) /\ Len(middle) = Len(start) + Len(Exponent)
          /\ \A i \in 1..Len(start) : middle[i] = start[i]
          /\ \A i \in 1..Len(Exponent) : middle[Len(start) + i] = Exponent[i]
      BY <1>5, <1>7, BothJoined
    <2> HIDE DEF middle
    <2>2. middle[(n + 1) + 1] = Exponent[1] /\ middle[(n + 1) + 2] = Exponent[2]
      BY <1>5, <1>7, <2>1
    <2> QED BY <1>5, <1>6, <1>7, <2>1, <2>2
  <1>9. x = middle \o exponent
    BY <1>4 DEF middle, start
  <1> HIDE DEF middle
  <1>10. /\ x \in Seq(Int) /\ Len(x) = n + 5
         /\ \A i \in 1..(n + 3) : x[i] = middle[i]
         /\ x[n + 4] = e1 /\ x[n + 5] = e2
    <2>1. /\ x \in Seq(Int) /\ Len(x) = Len(middle) + Len(exponent)
          /\ \A i \in 1..Len(middle) : x[i] = middle[i]
          /\ \A i \in 1..Len(exponent) : x[Len(middle) + i] = exponent[i]
      BY <1>5, <1>8, <1>9, BothJoined
    <2>2. x[(n + 3) + 1] = e1 /\ x[(n + 3) + 2] = e2
      BY <1>5, <1>8, <2>1
    <2> QED BY <1>5, <1>6, <1>8, <2>1, <2>2
  <1>11. x[n + 2] = Exponent[1] /\ x[n + 3] = Exponent[2]
    BY <1>6, <1>8, <1>10
  <1>12. \A i \in 1..(n + 1) : x[i] = start[i]
    <2>1. \A i \in 1..(n + 1) : i \in 1..(n + 3)
      BY <1>6
    <2> QED BY <1>8, <1>10, <2>1
  <1>13. x[1] = d[1]
    <2>1. 1 \in 1..(n + 1)
      BY <1>6
    <2> QED BY <1>7, <1>12, <2>1
  <1>14. ASSUME NEW i \in 1..n PROVE x[i + 1] = fraction[i]
    <2>1. 1 + i \in 1..(n + 1) /\ 1 + i = i + 1
      BY <1>6
    <2> QED BY <1>7, <1>12, <2>1
  <1>15. ASSUME k > 1 PROVE x[2] = Point /\ \A i \in 2..k : x[i + 1] = d[i]
    <2>1. k \in Int /\ 1 \in 1..n /\ 1 + 1 = 2 /\ \A i \in 2..k : i \in 1..n
      BY <1>2, <1>6, <1>15
    <2>2. x[1 + 1] = fraction[1]
      BY <1>14, <2>1
    <2> QED BY <1>6, <1>14, <1>15, <2>1, <2>2
  <1>16. Shown(d, k, x)
    BY <1>10, <1>11, <1>13, <1>15 DEF Shown, n, e1, e2
  <1> QED BY <1>2, <1>16 DEF k, x

(* With one exponent and as many significant digits, texts with exponents  *)
(* compare as the digits do.                                               *)
LEMMA ScientificInOrder ==
    ASSUME NEW s \in Seq(Decimal), NEW t \in Seq(Decimal), Len(s) = Len(t), Len(s) >= 1,
           Len(Scientific(s)) = Len(Scientific(t))
    PROVE  AtMost(Scientific(s), Scientific(t)) <=> AtMost(s, t)
  <1> DEFINE k == Significant(s)
             x == Scientific(s)
             y == Scientific(t)
             n == Len(s)
             Place(i) == IF i = 1 THEN 1 ELSE i + 1
  <1>1. /\ n \in Nat /\ n >= 1 /\ n = Len(t) /\ DOMAIN s = 1..n /\ DOMAIN t = 1..n
        /\ \A i \in 1..n : s[i] \in Int /\ t[i] \in Int
        /\ s \in Seq(Int) /\ t \in Seq(Int)
    BY DEF Decimal
  <1>2. /\ k \in 1..n /\ Shown(s, k, x)
        /\ Significant(t) \in 1..n /\ Shown(t, Significant(t), y)
        /\ \A i \in 1..n : (i > k => s[i] = 0) /\ (i > Significant(t) => t[i] = 0)
    BY <1>1, ScientificShown
  <1> HIDE DEF k, x, y
  <1>3. Significant(t) = k /\ Len(x) = Len(y)
    <2>1. Len(x) = Len(y)
      BY DEF x, y
    <2>2. k \in Nat /\ Significant(t) \in Nat /\ k >= 1 /\ Significant(t) >= 1
      BY <1>1, <1>2
    <2>3. /\ k = 1 => Len(x) = 5
          /\ k > 1 => Len(x) = k + 5
          /\ Significant(t) = 1 => Len(y) = 5
          /\ Significant(t) > 1 => Len(y) = Significant(t) + 5
      <3>1. Len(x) = FractionLen(k) + 5 /\ Len(y) = FractionLen(Significant(t)) + 5
        BY <1>2 DEF Shown
      <3> QED BY <2>2, <3>1 DEF FractionLen
    <2> QED BY <2>1, <2>2, <2>3
  <1>4. /\ x \in Seq(Int) /\ y \in Seq(Int)
        /\ k \in Nat /\ k >= 1 /\ Len(x) = FractionLen(k) + 5
        /\ Len(x) \in Nat /\ DOMAIN x = 1..Len(x) /\ DOMAIN y = 1..Len(x)
    <2>1. x \in Seq(Int) /\ y \in Seq(Int) /\ Len(x) = FractionLen(k) + 5
      BY <1>2 DEF Shown
    <2>2. k \in Nat /\ k >= 1
      BY <1>1, <1>2
    <2>3. Len(x) \in Nat /\ DOMAIN x = 1..Len(x) /\ DOMAIN y = 1..Len(y)
      BY <2>1
    <2> QED BY <1>3, <2>1, <2>2, <2>3
  <1>13. /\ k = 1 => Len(x) = 5
         /\ k > 1 => Len(x) = k + 5
    BY <1>4 DEF FractionLen
  <1>5. \A i \in 1..k : /\ Place(i) \in 1..Len(x) /\ x[Place(i)] = s[i] /\ y[Place(i)] = t[i]
                        /\ \A j \in 1..k : j < i <=> Place(j) < Place(i)
    <2>1. \A i \in 1..k : Place(i) \in 1..Len(x)
      BY <1>4, <1>13
    <2>2. \A i \in 1..k : x[Place(i)] = s[i] /\ y[Place(i)] = t[i]
      <3> SUFFICES ASSUME NEW i \in 1..k PROVE x[Place(i)] = s[i] /\ y[Place(i)] = t[i]
        OBVIOUS
      <3>1. CASE i = 1
        BY <1>2, <3>1 DEF Shown
      <3>2. CASE i # 1
        <4>1. k > 1 /\ i \in 2..k /\ Place(i) = i + 1
          BY <1>1, <1>2, <3>2
        <4> QED BY <1>2, <1>3, <4>1 DEF Shown
      <3> QED BY <3>1, <3>2
    <2>3. \A i, j \in 1..k : j < i <=> Place(j) < Place(i)
      BY <1>1, <1>2
    <2> QED BY <2>1, <2>2, <2>3
  <1>6. \A p \in 1..Len(x) : (\E i \in 1..k : p = Place(i)) \/ x[p] = y[p]
    <2> SUFFICES ASSUME NEW p \in 1..Len(x), \A i \in 1..k : p # Place(i)
                 PROVE  x[p] = y[p]
      OBVIOUS
    <2>1. p # 1 /\ (\A i \in 2..k : p # i + 1)
      <3>1. 1 \in 1..k /\ Place(1) = 1
        BY <1>4
      <3>2. \A i \in 2..k : i \in 1..k /\ Place(i) = i + 1
        BY <1>4
      <3> QED BY <3>1, <3>2
    <2>2. p \in Int /\ p >= 1 /\ p <= Len(x)
      BY <1>4
    <2>3. (k > 1 /\ p = 2) \/ p > FractionLen(k) + 1
      <3>1. CASE k = 1
        BY <2>1, <2>2, <3>1 DEF FractionLen
      <3>2. CASE k > 1
        <4>1. p <= 2 \/ p > k + 1
          <5>1. p - 1 \in 2..k => p # (p - 1) + 1
            BY <2>1
          <5> QED BY <1>4, <2>2, <5>1
        <4> QED BY <1>4, <2>1, <2>2, <3>2, <4>1 DEF FractionLen
      <3> QED BY <1>4, <3>1, <3>2
    <2>4. k > 1 => x[2] = y[2]
      BY <1>2, <1>3 DEF Shown
    <2> DEFINE f == FractionLen(k)
    <2>5. /\ x[f + 2] = y[f + 2] /\ x[f + 3] = y[f + 3]
          /\ x[f + 4] = y[f + 4] /\ x[f + 5] = y[f + 5]
      BY <1>1, <1>2, <1>3 DEF Shown
    <2>6. p > f + 1 => p = f + 2 \/ p = f + 3 \/ p = f + 4 \/ p = f + 5
      <3>1. f \in Nat
        BY <1>4 DEF FractionLen
      <3>2. p <= f + 5
        BY <1>4, <2>2
      <3> HIDE DEF f
      <3> QED BY <2>2, <3>1, <3>2
    <2> HIDE DEF f
    <2> QED BY <2>3, <2>4, <2>5, <2>6 DEF f
  <1> HIDE DEF n, Place
  <1>7. x = y <=> \A p \in 1..Len(x) : x[p] = y[p]
    BY <1>3, <1>4, SeqEqual
  <1>8. s = t <=> \A i \in 1..n : s[i] = t[i]
    BY <1>1 DEF n
  <1>9. x = y <=> s = t
    <2>1. \A i \in 1..n : i \in 1..k \/ s[i] = t[i]
      BY <1>1, <1>2, <1>3
    <2>2. k \in Nat /\ \A i \in 1..k : i \in 1..n
      BY <1>1, <1>2
    <2>3. ASSUME x = y PROVE s = t
      BY <1>5, <1>8, <2>1, <2>3
    <2>4. ASSUME s = t PROVE x = y
      BY <1>5, <1>6, <1>7, <2>4
    <2> QED BY <2>3, <2>4
  <1>10. ASSUME Less(x, y) PROVE Less(s, t)
    <2>1. PICK p \in 1..Len(x) : x[p] < y[p] /\ \A q \in 1..(p - 1) : x[q] = y[q]
      BY <1>4, <1>10 DEF Less
    <2>2. PICK i \in 1..k : p = Place(i)
      <3>1. x[p] # y[p]
        BY <1>3, <1>4, <2>1
      <3> QED BY <1>6, <3>1
    <2>3. s[i] < t[i]
      BY <1>5, <2>1, <2>2
    <2>4. ASSUME NEW j \in 1..(i - 1) PROVE s[j] = t[j]
      <3>1. j \in 1..k /\ j < i
        BY <1>1, <1>2
      <3>2. Place(j) \in 1..Len(x) /\ Place(j) < p
        BY <1>5, <2>2, <3>1
      <3>3. Place(j) \in 1..(p - 1)
        BY <1>4, <3>2
      <3>4. x[Place(j)] = y[Place(j)]
        BY <2>1, <3>3
      <3> QED BY <1>5, <3>1, <3>4
    <2>5. i \in 1..n
      BY <1>1, <1>2
    <2> QED BY <1>1, <2>3, <2>4, <2>5 DEF Less
  <1>11. ASSUME Less(s, t) PROVE Less(x, y)
    <2>1. PICK i \in 1..n : s[i] < t[i] /\ \A j \in 1..(i - 1) : s[j] = t[j]
      BY <1>1, <1>11 DEF Less
    <2>2. i \in 1..k
      <3>1. i <= k
        BY <1>1, <1>2, <1>3, <2>1
      <3> QED BY <1>1, <1>2, <3>1
    <2>3. Place(i) \in 1..Len(x) /\ x[Place(i)] < y[Place(i)]
      BY <1>5, <2>1, <2>2
    <2>4. ASSUME NEW q \in 1..(Place(i) - 1) PROVE x[q] = y[q]
      <3>1. q \in 1..Len(x) /\ q < Place(i)
        BY <1>4, <2>3
      <3>2. CASE \E j \in 1..k : q = Place(j)
        <4>1. PICK j \in 1..k : q = Place(j)
          BY <3>2
        <4>2. j < i
          BY <1>5, <2>2, <3>1, <4>1
        <4>3. s[j] = t[j]
          BY <1>1, <1>2, <2>1, <2>2, <4>1, <4>2
        <4> QED BY <1>5, <4>1, <4>3
      <3> QED BY <1>6, <3>1, <3>2
    <2> QED BY <1>4, <2>3, <2>4 DEF Less
  <1>12. AtMost(x, y) <=> AtMost(s, t)
    <2>1. AtMost(x, y) <=> x = y \/ Less(x, y)
      BY <1>3, <1>4, AtMostIsLess
    <2>2. AtMost(s, t) <=> s = t \/ Less(s, t)
      BY <1>1, AtMostIsLess DEF n
    <2> QED BY <1>9, <1>10, <1>11, <2>1, <2>2
  <1> QED BY <1>12 DEF x, y

LEMMA AtMostAlike ==
    ASSUME NEW n \in Nat, NEW m \in Nat, Missing \notin Nat, Alike(n, m)
    PROVE  AtMost(Sprint(n), Sprint(m)) <=> n <= m
  <1> DEFINE s == Digits[n]
             t == Digits[m]
  <1>1. /\ s \in Seq(Decimal) /\ t \in Seq(Decimal) /\ Len(s) = Len(t) /\ Len(s) >= 1
        /\ Len(Sprint(n)) = Len(Sprint(m))
        /\ Sprint(n) = IF Len(s) <= 6 THEN s ELSE Scientific(s)
        /\ Sprint(m) = IF Len(s) <= 6 THEN t ELSE Scientific(t)
    BY DigitsShape DEF Alike, Sprint
  <1>2. /\ Less(s, t) <=> n < m
        /\ s = t <=> n = m
    BY <1>1, DigitsInOrder
  <1> HIDE DEF s, t
  <1>3. AtMost(s, t) <=> n <= m
    <2>1. s \in Seq(Int) /\ t \in Seq(Int)
      BY <1>1 DEF Decimal
    <2>2. AtMost(s, t) <=> s = t \/ Less(s, t)
      BY <1>1, <2>1, AtMostIsLess
    <2> QED BY <1>2, <2>2
  <1>4. CASE Len(s) <= 6
    BY <1>1, <1>3, <1>4
  <1>5. CASE ~(Len(s) <= 6)
    <2>1. Sprint(n) = Scientific(s) /\ Sprint(m) = Scientific(t)
      BY <1>1, <1>5
    <2> QED BY <1>1, <1>3, <2>1, ScientificInOrder
  <1> QED BY <1>4, <1>5

(* No number sorts behind "<nil>", and "<nil>" behind all of them.         *)
LEMMA NilIsLast ==
    ASSUME NEW n \in Nat, Missing \notin Nat
    PROVE  AtMost(Sprint(n), Nil) /\ ~AtMost(Nil, Sprint(n))
  <1> DEFINE x == Sprint(n)
  <1>1. x \in Seq(Int) /\ Len(x) >= 1 /\ x[1] \in Decimal
    <2> DEFINE d == Digits[n]
    <2>1. /\ d \in Seq(Decimal) /\ Len(d) >= 1
          /\ x = IF Len(d) <= 6 THEN d ELSE Scientific(d)
      BY DigitsShape DEF Sprint
    <2> HIDE DEF d, x
    <2>2. d \in Seq(Int) /\ d[1] \in Decimal
      BY <2>1 DEF Decimal
    <2>3. CASE x = d
      BY <2>1, <2>2, <2>3
    <2>4. CASE x = Scientific(d)
      <3>1. Significant(d) \in 1..Len(d) /\ Shown(d, Significant(d), x)
        BY <2>1, <2>4, ScientificShown
      <3>2. x \in Seq(Int) /\ x[1] = d[1] /\ Len(x) >= 5
        <4>1. x \in Seq(Int) /\ x[1] = d[1] /\ Len(x) = FractionLen(Significant(d)) + 5
          BY <3>1 DEF Shown
        <4>2. Significant(d) \in Nat
          BY <2>1, <3>1
        <4> QED BY <4>1, <4>2 DEF FractionLen
      <3> QED BY <2>2, <3>2
    <2> QED BY <2>1, <2>3, <2>4
  <1> HIDE DEF x
  <1>2. 1 \in DOMAIN x
    BY <1>1
  <1>3. x[1] < Nil[1] /\ 1 \in DOMAIN Nil /\ 1..(1 - 1) = {}
    BY <1>1 DEF Decimal, Nil
  <1>4. AtMost(x, Nil)
    BY <1>2, <1>3 DEF AtMost
  <1>5. ~IsPrefix(Nil, x)
    <2> SUFFICES ASSUME IsPrefix(Nil, x) PROVE FALSE
      OBVIOUS
    <2>1. SubSeq(Nil, 1, 1) = SubSeq(x, 1, 1)
      BY DEF IsPrefix, Nil
    <2>2. SubSeq(x, 1, 1)[1] = x[1]
      BY <1>1
    <2> QED BY <1>1, <2>1, <2>2 DEF Decimal, Nil
  <1>6. ASSUME NEW i \in DOMAIN Nil \cap DOMAIN x PROVE ~(Nil[i] < x[i])
    <2>1. i = 1
      BY DEF Nil
    <2> QED BY <1>1, <2>1 DEF Decimal, Nil
  <1> QED BY <1>4, <1>5, <1>6 DEF AtMost, x

(* In every state of the coordinator, and for all numbers, a range clause  *)
(* under way finds the numbers within its bounds if they have as many      *)
(* digits and are written in as many characters as the bounds, and a       *)
(* document without a number exactly if nothing bounds it from above       *)
(* (rangeMatch's comparison of fmt.Sprint).                                *)
THEOREM RangesWithinWidth == Spec => []RangeWithinWidth
  <1>1. TypeOK => RangeWithinWidth
    <2> SUFFICES ASSUME TypeOK, NEW c \in Clauses, c.kind = "range"
                 PROVE  LET Finds(number) == RangeMatch(c, [number |-> number]).ok
                            Within(n) == /\ c.from # Missing => c.from <= n
                                         /\ c.to # Missing => n <= c.to
                        IN  /\ Finds(Missing) <=> c.to = Missing
                            /\ \A n \in Numbers :
                                 (\A b \in {c.from, c.to} \ {Missing} : Alike(b, n))
                                 => (Finds(n) <=> Within(n))
      BY Zenon DEF RangeWithinWidth
    <2> DEFINE Finds(number) == RangeMatch(c, [number |-> number]).ok
    <2>1. /\ c.from \in Nat \cup {Missing} /\ c.to \in Nat \cup {Missing}
          /\ Numbers \subseteq Nat /\ Missing \notin Nat
      <3>1. asked # None /\ asked.request \in Requests
            /\ c \in {asked.request.query} \cup ToSet(asked.request.filters)
        BY DEF Clauses, TypeOK
      <3> QED BY <3>1, ShardsAssumption DEF Printable
    <2>2. \A number : Finds(number) <=>
             /\ c.from # Missing => AtMost(Sprint(c.from), Sprint(number))
             /\ c.to # Missing => AtMost(Sprint(number), Sprint(c.to))
      BY DEF RangeMatch
    <2> HIDE DEF Finds
    <2>3. Sprint(Missing) = Nil
      BY DEF Sprint
    <2>4. Finds(Missing) <=> c.to = Missing
      <3>1. c.from # Missing => AtMost(Sprint(c.from), Sprint(Missing))
        BY <2>1, <2>3, NilIsLast
      <3>2. c.to # Missing => ~AtMost(Sprint(Missing), Sprint(c.to))
        BY <2>1, <2>3, NilIsLast
      <3> QED BY <2>2, <3>1, <3>2
    <2>5. ASSUME NEW n \in Numbers,
                 \A b \in {c.from, c.to} \ {Missing} : Alike(b, n)
          PROVE  Finds(n) <=> /\ c.from # Missing => c.from <= n
                              /\ c.to # Missing => n <= c.to
      <3>1. n \in Nat
        BY <2>1
      <3>2. c.from # Missing => (AtMost(Sprint(c.from), Sprint(n)) <=> c.from <= n)
        BY <2>1, <2>5, <3>1, AtMostAlike
      <3>3. c.to # Missing => (AtMost(Sprint(n), Sprint(c.to)) <=> n <= c.to)
        <4>1. c.to # Missing => Alike(n, c.to)
          BY <2>5 DEF Alike
        <4> QED BY <2>1, <3>1, <4>1, AtMostAlike
      <3> QED BY <2>2, <3>2, <3>3
    <2> QED BY <2>4, <2>5 DEF Finds
  <1> QED BY <1>1, TypeCorrect, PTL
-----------------------------------------------------------------------------
(* The scan of a text goes from state to state, one character at a time.   *)
Unread == [tokens |-> <<>>, next |-> 0, start |-> 0]

IsScan(text, n, g) ==
    g = [k \in 0..n |-> IF k = 0 THEN Unread ELSE ReadRune(g[k - 1], text, k)]

LEMMA ScanStates ==
    ASSUME NEW text, NEW n \in Nat, NEW g, IsScan(text, n, g)
    PROVE  /\ g[0] = Unread
           /\ \A k \in 0..n : k + 1 <= n => g[k + 1] = ReadRune(g[k], text, k + 1)
  <1>1. \A k \in 0..n : g[k] = IF k = 0 THEN Unread ELSE ReadRune(g[k - 1], text, k)
    <2>1. g = [k \in 0..n |-> IF k = 0 THEN Unread ELSE ReadRune(g[k - 1], text, k)]
      BY DEF IsScan
    <2> QED BY <2>1, Zenon
  <1>2. \A k \in 0..n : k + 1 <= n => k + 1 \in 0..n /\ k + 1 # 0 /\ (k + 1) - 1 = k
    OBVIOUS
  <1>3. 0 \in 0..n
    OBVIOUS
  <1>4. ASSUME NEW k \in 0..n, k + 1 <= n
        PROVE  g[k + 1] = ReadRune(g[k], text, k + 1)
    BY <1>1, <1>2, <1>4
  <1> QED BY <1>1, <1>3, <1>4

LEMMA ScanExtends ==
    ASSUME NEW text, NEW n \in Nat, NEW g, IsScan(text, n, g)
    PROVE  \E h : IsScan(text, n + 1, h)
  <1> DEFINE last == ReadRune(g[n], text, n + 1)
             h == [k \in 0..(n + 1) |-> IF k = n + 1 THEN last ELSE g[k]]
  <1>1. ASSUME NEW k \in 0..(n + 1)
        PROVE  h[k] = IF k = 0 THEN Unread ELSE ReadRune(h[k - 1], text, k)
    <2>1. CASE k = n + 1
      <3>1. k # 0 /\ k - 1 = n /\ n \in 0..(n + 1) /\ n # n + 1
        BY <2>1
      <3>2. h[n] = g[n] /\ h[k] = last
        BY <2>1, <3>1
      <3> HIDE DEF h
      <3> QED BY <2>1, <3>1, <3>2
    <2>2. CASE k # n + 1 /\ k # 0
      <3>1. /\ k - 1 \in 0..n /\ (k - 1) + 1 = k /\ k <= n
            /\ k - 1 \in 0..(n + 1) /\ k - 1 # n + 1
        BY <2>2
      <3>2. h[k] = g[k] /\ h[k - 1] = g[k - 1]
        BY <2>2, <3>1
      <3>3. g[(k - 1) + 1] = ReadRune(g[k - 1], text, (k - 1) + 1)
        BY <3>1, ScanStates
      <3>4. g[k] = ReadRune(g[k - 1], text, k)
        BY <3>1, <3>3
      <3> HIDE DEF h, last
      <3> QED BY <2>2, <3>2, <3>4, Zenon
    <2>3. CASE k = 0
      <3>1. 0 # n + 1 /\ h[0] = g[0]
        OBVIOUS
      <3> HIDE DEF h
      <3> QED BY <2>3, <3>1, ScanStates
    <2> QED BY <2>1, <2>2, <2>3
  <1>2. h = [k \in 0..(n + 1) |-> h[k]]
    OBVIOUS
  <1> HIDE DEF h
  <1>3. h = [k \in 0..(n + 1) |->
               IF k = 0 THEN Unread ELSE ReadRune(h[k - 1], text, k)]
    BY <1>1, <1>2
  <1> QED BY <1>3 DEF IsScan

LEMMA ScanRuns ==
    ASSUME NEW text, Len(text) \in Nat
    PROVE  \E g : IsScan(text, Len(text), g) /\ Scan(text) = g[Len(text)]
  <1> DEFINE T == {n \in Nat : \E g : IsScan(text, n, g)}
  <1>1. 0 \in T
    <2> DEFINE g == [k \in 0..0 |-> Unread]
    <2>1. g = [k \in 0..0 |-> IF k = 0 THEN Unread ELSE ReadRune(g[k - 1], text, k)]
      OBVIOUS
    <2>2. IsScan(text, 0, g)
      BY <2>1 DEF IsScan
    <2> QED BY <2>2
  <1>2. \A n \in Nat : n \in T => n + 1 \in T
    BY ScanExtends
  <1>3. PICK g : IsScan(text, Len(text), g)
    <2> HIDE DEF T
    <2>1. Len(text) \in T
      BY <1>1, <1>2, ByInduction
    <2> QED BY <2>1 DEF T
  <1> DEFINE h == CHOOSE f : f = [k \in 0..Len(text) |->
                                   IF k = 0 THEN Unread ELSE ReadRune(f[k - 1], text, k)]
  <1>4. IsScan(text, Len(text), h)
    BY <1>3, Zenon DEF IsScan
  <1>5. Scan(text) = h[Len(text)]
    BY DEF Scan, Unread
  <1> QED BY <1>4, <1>5

-----------------------------------------------------------------------------
(* A span is an ideograph, or letters between others.                      *)
LetterRun(text, a, b) ==
    /\ a \in 1..Len(text) /\ b \in 1..Len(text) /\ a <= b
    /\ \A k \in a..b : text[k] \in Letters
    /\ a = 1 \/ text[a - 1] \notin Letters
    /\ b = Len(text) \/ text[b + 1] \notin Letters

LEMMA SpansAre ==
    ASSUME NEW text, text \in Seq(ToSet(text))
    PROVE  /\ \A s \in Spans(text) :
                /\ s = <<s[1], s[2]>> /\ s[1] \in 1..Len(text) /\ s[2] \in 1..Len(text)
                /\ s[1] <= s[2]
                /\ \/ LetterRun(text, s[1], s[2])
                   \/ s[1] = s[2] /\ text[s[1]] \in Ideographs
           /\ \A a, b : LetterRun(text, a, b) => <<a, b>> \in Spans(text)
           /\ \A i \in 1..Len(text) : text[i] \in Ideographs => <<i, i>> \in Spans(text)
  <1>1. Len(text) \in Nat /\ DOMAIN text = 1..Len(text)
    OBVIOUS
  <1>2. ASSUME NEW s \in Spans(text)
        PROVE  /\ s = <<s[1], s[2]>> /\ s[1] \in 1..Len(text) /\ s[2] \in 1..Len(text)
               /\ s[1] <= s[2]
               /\ \/ LetterRun(text, s[1], s[2])
                  \/ s[1] = s[2] /\ text[s[1]] \in Ideographs
    <2>1. /\ s \in (1..Len(text)) \X (1..Len(text))
          /\ \/ s[1] = s[2] /\ text[s[1]] \in Ideographs
             \/ /\ s[1] <= s[2] /\ \A n \in s[1]..s[2] : text[n] \in Letters
                /\ s[1] = 1 \/ text[s[1] - 1] \notin Letters
                /\ s[2] = Len(text) \/ text[s[2] + 1] \notin Letters
      BY <1>1 DEF Spans
    <2>2. s = <<s[1], s[2]>> /\ s[1] \in 1..Len(text) /\ s[2] \in 1..Len(text)
      BY <2>1
    <2> QED BY <2>1, <2>2 DEF LetterRun
  <1>3. ASSUME NEW a, NEW b, LetterRun(text, a, b) PROVE <<a, b>> \in Spans(text)
    <2>1. <<a, b>> \in (DOMAIN text) \X (DOMAIN text) /\ <<a, b>>[1] = a /\ <<a, b>>[2] = b
      BY <1>1, <1>3 DEF LetterRun
    <2> QED BY <1>3, <2>1 DEF LetterRun, Spans
  <1>4. ASSUME NEW i \in 1..Len(text), text[i] \in Ideographs PROVE <<i, i>> \in Spans(text)
    <2>1. <<i, i>> \in (DOMAIN text) \X (DOMAIN text) /\ <<i, i>>[1] = i /\ <<i, i>>[2] = i
      BY <1>1
    <2> QED BY <1>4, <2>1 DEF Spans
  <1> QED BY <1>2, <1>3, <1>4

(* No two spans overlap.                                                   *)
LEMMA SpansApart ==
    ASSUME NEW text, text \in Seq(ToSet(text)),
           NEW s \in Spans(text), NEW t \in Spans(text), s # t
    PROVE  s[2] < t[1] \/ t[2] < s[1]
  <1> SUFFICES ASSUME t[1] <= s[2], s[1] <= t[2] PROVE FALSE
    BY SpansAre
  <1> DEFINE a == s[1]  b == s[2]  c == t[1]  d == t[2]
  <1>1. /\ a \in 1..Len(text) /\ b \in 1..Len(text) /\ a <= b
        /\ c \in 1..Len(text) /\ d \in 1..Len(text) /\ c <= d
        /\ LetterRun(text, a, b) \/ (a = b /\ text[a] \in Ideographs)
        /\ LetterRun(text, c, d) \/ (c = d /\ text[c] \in Ideographs)
        /\ ~(a = c /\ b = d) /\ c <= b /\ a <= d
    BY SpansAre
  <1>2. Len(text) \in Nat
    OBVIOUS
  <1> HIDE DEF a, b, c, d
  <1>3. \A i : text[i] \in Letters => text[i] \notin Ideographs
    BY TextAssumption DEF TextAssumption
  <1>4. CASE LetterRun(text, a, b) /\ LetterRun(text, c, d)
    <2>1. a = c
      <3>1. CASE a < c
        <4>1. c - 1 \in a..b /\ c # 1
          BY <1>1, <3>1
        <4> QED BY <1>4, <4>1 DEF LetterRun
      <3>2. CASE c < a
        <4>1. a - 1 \in c..d /\ a # 1
          BY <1>1, <3>2
        <4> QED BY <1>4, <4>1 DEF LetterRun
      <3> QED BY <1>1, <3>1, <3>2
    <2>2. b = d
      <3>1. CASE b < d
        <4>1. b + 1 \in c..d /\ b # Len(text)
          BY <1>1, <3>1
        <4> QED BY <1>4, <4>1 DEF LetterRun
      <3>2. CASE d < b
        <4>1. d + 1 \in a..b /\ d # Len(text)
          BY <1>1, <3>2
        <4> QED BY <1>4, <4>1 DEF LetterRun
      <3> QED BY <1>1, <3>1, <3>2
    <2> QED BY <1>1, <2>1, <2>2
  <1>5. CASE LetterRun(text, a, b) /\ c = d /\ text[c] \in Ideographs
    <2>1. c \in a..b
      BY <1>1, <1>5
    <2> QED BY <1>3, <1>5, <2>1 DEF LetterRun
  <1>6. CASE LetterRun(text, c, d) /\ a = b /\ text[a] \in Ideographs
    <2>1. a \in c..d
      BY <1>1, <1>6
    <2> QED BY <1>3, <1>6, <2>1 DEF LetterRun
  <1>7. CASE a = b /\ c = d
    BY <1>1, <1>7
  <1> QED BY <1>1, <1>4, <1>5, <1>6, <1>7

-----------------------------------------------------------------------------
(* The words a text keeps, those that end before a character, how many     *)
(* come before one, and the postings that a set of them makes.             *)
Stopped == {Normalize(w) : w \in Stopwords}
Kept(text) == {s \in Spans(text) : Word(text, s) \notin Stopped}
Ended(text, e) == {s \in Kept(text) : s[2] < e}
Place(text, s) == Cardinality({t \in Kept(text) : t[1] < s[1]})
Postings(text, S) == UNION {Means(Word(text, s)) \X {Place(text, s)} : s \in S}
Emitted(tokens) == {<<t.term, t.position>> : t \in ToSet(tokens)}
Numbered(tokens) == \A k \in 1..Len(tokens) : tokens[k].position = k - 1

(* The state of a scan holds the postings of what ended before e, one      *)
(* after the other if there are no synonyms among them.                    *)
Reads(state, text, e) ==
    /\ state = [tokens |-> state.tokens, next |-> state.next, start |-> state.start]
    /\ state.tokens \in Seq(ToSet(state.tokens))
    /\ state.next = Cardinality(Ended(text, e))
    /\ Emitted(state.tokens) = Postings(text, Ended(text, e))
    /\ (\A t \in Ended(text, e) : SynonymsOf(Word(text, t)) = <<>>)
         => Len(state.tokens) = state.next /\ Numbered(state.tokens)

LEMMA KeptFinite ==
    ASSUME NEW text, text \in Seq(ToSet(text))
    PROVE  IsFiniteSet(Kept(text)) /\ \A e : IsFiniteSet(Ended(text, e))
  <1>1. Len(text) \in Nat /\ DOMAIN text = 1..Len(text)
    OBVIOUS
  <1>2. IsFiniteSet((1..Len(text)) \X (1..Len(text)))
    <2>1. IsFiniteSet(1..Len(text))
      BY <1>1, FS_Interval
    <2> QED BY <2>1, FS_Product
  <1>3. Kept(text) \subseteq (1..Len(text)) \X (1..Len(text))
    BY <1>1 DEF Kept, Spans
  <1>4. IsFiniteSet(Kept(text))
    BY <1>2, <1>3, FS_Subset
  <1>5. \A e : Ended(text, e) \subseteq Kept(text)
    BY DEF Ended
  <1> QED BY <1>4, <1>5, FS_Subset

(* What ends before a span is what starts before it; past its end, the     *)
(* span has ended too.                                                     *)
LEMMA EndedIs ==
    ASSUME NEW text, text \in Seq(ToSet(text)), NEW s \in Spans(text)
    PROVE  /\ Ended(text, s[1]) = {t \in Kept(text) : t[1] < s[1]}
           /\ Ended(text, s[2] + 1) = Ended(text, s[1]) \cup ({s} \cap Kept(text))
           /\ s \notin Ended(text, s[1])
  <1>1. /\ s[1] \in Nat /\ s[2] \in Nat /\ s[1] <= s[2]
        /\ \A t \in Kept(text) : t \in Spans(text) /\ t[1] \in Nat /\ t[2] \in Nat /\ t[1] <= t[2]
    <2>1. Len(text) \in Nat /\ \A t \in Kept(text) : t \in Spans(text)
      BY DEF Kept
    <2> QED BY <2>1, SpansAre
  <1>2. \A t \in Kept(text) : t = s \/ t[2] < s[1] \/ s[2] < t[1]
    BY <1>1, SpansApart
  <1>3. \A t \in Kept(text) : t[2] < s[1] <=> t[1] < s[1]
    BY <1>1, <1>2
  <1>4. \A t \in Kept(text) : t[2] < s[2] + 1 <=> t[2] < s[1] \/ t = s
    BY <1>1, <1>2
  <1>5. Ended(text, s[1]) = {t \in Kept(text) : t[1] < s[1]}
    BY <1>3, Zenon DEF Ended
  <1>6. Ended(text, s[2] + 1) = Ended(text, s[1]) \cup ({s} \cap Kept(text))
    BY <1>4, Zenon DEF Ended
  <1>7. ~(s[2] < s[1])
    BY <1>1
  <1> QED BY <1>5, <1>6, <1>7 DEF Ended

LEMMA OwnElements ==
    ASSUME NEW S, NEW s \in Seq(S)
    PROVE  s \in Seq(ToSet(s))
  <1>1. Len(s) \in Nat /\ DOMAIN s = 1..Len(s) /\ s \in [1..Len(s) -> S]
    OBVIOUS
  <1>2. \A i \in 1..Len(s) : s[i] \in ToSet(s)
    BY <1>1 DEF ToSet
  <1>3. s \in [1..Len(s) -> ToSet(s)]
    BY <1>1, <1>2
  <1> QED BY <1>1, <1>3

LEMMA Joined ==
    ASSUME NEW a, a \in Seq(ToSet(a)), NEW b, b \in Seq(ToSet(b))
    PROVE  a \o b \in Seq(ToSet(a \o b)) /\ ToSet(a \o b) = ToSet(a) \cup ToSet(b)
  <1>1. /\ Len(a) \in Nat /\ Len(b) \in Nat /\ DOMAIN a = 1..Len(a) /\ DOMAIN b = 1..Len(b)
        /\ Len(a \o b) = Len(a) + Len(b) /\ DOMAIN (a \o b) = 1..(Len(a) + Len(b))
        /\ \A i \in 1..(Len(a) + Len(b)) :
             (a \o b)[i] = IF i <= Len(a) THEN a[i] ELSE b[i - Len(a)]
    OBVIOUS
  <1>2. ToSet(a \o b) \subseteq ToSet(a) \cup ToSet(b)
    BY <1>1 DEF ToSet
  <1>3. \A i \in 1..Len(a) : i \in 1..(Len(a) + Len(b)) /\ (a \o b)[i] = a[i]
    BY <1>1
  <1>4. \A i \in 1..Len(b) : Len(a) + i \in 1..(Len(a) + Len(b)) /\ (a \o b)[Len(a) + i] = b[i]
    BY <1>1
  <1>5. ToSet(a) \subseteq ToSet(a \o b)
    BY <1>1, <1>3 DEF ToSet
  <1>6. ToSet(b) \subseteq ToSet(a \o b)
    <2> DEFINE c == a \o b
    <2>1. ASSUME NEW i \in DOMAIN b PROVE b[i] \in ToSet(c)
      <3>1. Len(a) + i \in DOMAIN c /\ c[Len(a) + i] = b[i]
        BY <1>1, <1>4
      <3> HIDE DEF c
      <3> QED BY <3>1, Zenon DEF ToSet
    <2> QED BY <2>1 DEF ToSet
  <1>7. a \o b \in Seq(ToSet(a) \cup ToSet(b))
    OBVIOUS
  <1> QED BY <1>2, <1>5, <1>6, <1>7, OwnElements

Meant(word, synonyms) == {word} \cup {Normalize(x) : x \in ToSet(synonyms)}

Adds(s, e, word, synonyms) ==
    /\ e = [tokens |-> e.tokens, next |-> e.next, start |-> e.start]
    /\ e.next = s.next + 1 /\ e.start = s.start
    /\ e.tokens \in Seq(ToSet(e.tokens))
    /\ Emitted(e.tokens) = Emitted(s.tokens) \cup Meant(word, synonyms) \X {s.next}
    /\ synonyms = <<>> /\ Len(s.tokens) = s.next /\ Numbered(s.tokens)
         => Len(e.tokens) = e.next /\ Numbered(e.tokens)

LEMMA SynonymsAre ==
    \A word : SynonymsOf(word) \in Seq(ToSet(SynonymsOf(word)))
  <1>1. <<>> \in Seq(ToSet(<<>>))
    OBVIOUS
  <1>2. \A word \in DOMAIN Synonyms : Synonyms[word] \in Seq(ToSet(Synonyms[word]))
    BY TextAssumption DEF TextAssumption
  <1> QED BY <1>1, <1>2 DEF SynonymsOf

(* A word that is no stopword leaves it and its synonyms at the next place. *)
LEMMA Emits ==
    ASSUME NEW s, s.tokens \in Seq(ToSet(s.tokens)),
           NEW word, word \notin Stopped,
           NEW synonyms, synonyms \in Seq(ToSet(synonyms)),
           NEW e, e = Emit(s, word, synonyms)
    PROVE  Adds(s, e, word, synonyms)
  <1> DEFINE Token(term) == [term |-> term, position |-> s.next]
             first == <<Token(word)>>
             others == [i \in DOMAIN synonyms |-> Token(Normalize(synonyms[i]))]
  <1>1. /\ first \in Seq(ToSet(first)) /\ ToSet(first) = {Token(word)}
        /\ Append(s.tokens, Token(word)) = s.tokens \o first
    <2>1. Len(first) = 1 /\ DOMAIN first = 1..1 /\ first[1] = Token(word)
      OBVIOUS
    <2>2. ToSet(first) = {Token(word)}
      BY <2>1 DEF ToSet
    <2>3. Append(s.tokens, Token(word)) = s.tokens \o first
      OBVIOUS
    <2> QED BY <2>1, <2>2, <2>3
  <1>2. /\ others \in Seq(ToSet(others))
        /\ ToSet(others) = {Token(Normalize(x)) : x \in ToSet(synonyms)}
    <2>1. Len(synonyms) \in Nat /\ DOMAIN synonyms = 1..Len(synonyms)
      OBVIOUS
    <2>2. others = [i \in 1..Len(synonyms) |-> Token(Normalize(synonyms[i]))]
      BY <2>1
    <2>3. ToSet(others) = {Token(Normalize(x)) : x \in ToSet(synonyms)}
      BY <2>1 DEF ToSet
    <2>4. \A i \in 1..Len(synonyms) : others[i] \in ToSet(others)
      BY <2>1 DEF ToSet
    <2>5. others = [i \in 1..Len(synonyms) |-> others[i]]
      BY <2>2
    <2> HIDE DEF others
    <2>6. others \in Seq(ToSet(others))
      BY <2>1, <2>4, <2>5
    <2> QED BY <2>3, <2>6
  <1>3. e = [tokens |-> Append(s.tokens, Token(word)) \o others,
             next |-> s.next + 1, start |-> s.start]
    <2>1. ~\E stop \in Stopwords : Normalize(stop) = word
      BY DEF Stopped
    <2> QED BY <2>1 DEF Emit
  <1> HIDE DEF first, others, Token
  <1>4. /\ s.tokens \o first \in Seq(ToSet(s.tokens \o first))
        /\ ToSet(s.tokens \o first) = ToSet(s.tokens) \cup {Token(word)}
    BY <1>1, Joined
  <1>5. /\ e.tokens \in Seq(ToSet(e.tokens))
        /\ ToSet(e.tokens) = ToSet(s.tokens) \cup {Token(word)}
                               \cup {Token(Normalize(x)) : x \in ToSet(synonyms)}
    <2> DEFINE p == s.tokens \o first
    <2>1. e.tokens = p \o others
      BY <1>1, <1>3
    <2>2. p \in Seq(ToSet(p)) /\ ToSet(p) = ToSet(s.tokens) \cup {Token(word)}
      BY <1>4
    <2> HIDE DEF p
    <2>3. p \o others \in Seq(ToSet(p \o others)) /\ ToSet(p \o others) = ToSet(p) \cup ToSet(others)
      BY <1>2, <2>2, Joined
    <2> QED BY <1>2, <2>1, <2>2, <2>3
  <1>6. \A term : Token(term).term = term /\ Token(term).position = s.next
    BY DEF Token
  <1>7. Emitted(e.tokens) = Emitted(s.tokens) \cup {<<word, s.next>>}
                              \cup {<<Normalize(x), s.next>> : x \in ToSet(synonyms)}
    <2> DEFINE P(t) == <<t.term, t.position>>
               Z == {Normalize(x) : x \in ToSet(synonyms)}
    <2>1. ToSet(e.tokens) = ToSet(s.tokens) \cup {Token(word)} \cup {Token(z) : z \in Z}
      BY <1>5
    <2>2. \A term : P(Token(term)) = <<term, s.next>>
      BY <1>6
    <2>3. Emitted(e.tokens) = {P(t) : t \in ToSet(e.tokens)}
          /\ Emitted(s.tokens) = {P(t) : t \in ToSet(s.tokens)}
      BY DEF Emitted
    <2>4. {<<Normalize(x), s.next>> : x \in ToSet(synonyms)} = {<<z, s.next>> : z \in Z}
      OBVIOUS
    <2> HIDE DEF P, Z
    <2>5. {P(t) : t \in ToSet(e.tokens)}
          = {P(t) : t \in ToSet(s.tokens)} \cup {P(Token(word))} \cup {P(Token(z)) : z \in Z}
      BY <2>1
    <2>6. {P(Token(z)) : z \in Z} = {<<z, s.next>> : z \in Z}
      BY <2>2
    <2> QED BY <2>2, <2>3, <2>4, <2>5, <2>6
  <1>8. ({word} \cup {Normalize(x) : x \in ToSet(synonyms)}) \X {s.next}
        = {<<word, s.next>>} \cup {<<Normalize(x), s.next>> : x \in ToSet(synonyms)}
    OBVIOUS
  <1>9. Emitted(e.tokens) = Emitted(s.tokens) \cup Meant(word, synonyms) \X {s.next}
    BY <1>7, <1>8, Zenon DEF Meant
  <1>10. /\ e = [tokens |-> e.tokens, next |-> e.next, start |-> e.start]
         /\ e.next = s.next + 1 /\ e.start = s.start
    BY <1>3
  <1>11. ASSUME synonyms = <<>>, Len(s.tokens) = s.next, Numbered(s.tokens)
         PROVE  Len(e.tokens) = e.next /\ Numbered(e.tokens)
    <2>1. others = <<>>
      BY <1>11 DEF others
    <2>2. e.tokens = Append(s.tokens, Token(word))
      BY <1>1, <1>3, <1>4, <2>1
    <2>3. Len(s.tokens) \in Nat
      OBVIOUS
    <2>4. /\ Len(e.tokens) = Len(s.tokens) + 1 /\ e.tokens[Len(s.tokens) + 1] = Token(word)
          /\ \A k \in 1..Len(s.tokens) : e.tokens[k] = s.tokens[k]
      BY <2>2
    <2>5. \A k \in 1..(Len(s.tokens) + 1) : k \in 1..Len(s.tokens) \/ k = Len(s.tokens) + 1
      BY <2>3
    <2> QED BY <1>6, <1>10, <1>11, <2>3, <2>4, <2>5 DEF Numbered
  <1> QED BY <1>5, <1>9, <1>10, <1>11 DEF Adds

(* A span that has been read adds its postings, if its word is kept.       *)
LEMMA EmitReads ==
    ASSUME NEW text, text \in Seq(ToSet(text)), NEW span \in Spans(text),
           NEW s, Reads(s, text, span[1]),
           NEW word, word = Word(text, span), NEW synonyms, synonyms = SynonymsOf(word),
           NEW e, e = Emit(s, word, synonyms)
    PROVE  Reads(e, text, span[2] + 1) /\ e.start = s.start
  <1> DEFINE now == Ended(text, span[1])
             later == Ended(text, span[2] + 1)
  <1>1. later = now \cup ({span} \cap Kept(text)) /\ span \notin now
        /\ Cardinality(now) = Place(text, span) /\ IsFiniteSet(now)
    BY EndedIs, KeptFinite DEF Place
  <1>2. /\ s = [tokens |-> s.tokens, next |-> s.next, start |-> s.start]
        /\ s.tokens \in Seq(ToSet(s.tokens))
        /\ s.next = Cardinality(now) /\ Emitted(s.tokens) = Postings(text, now)
        /\ (\A t \in now : SynonymsOf(Word(text, t)) = <<>>)
             => Len(s.tokens) = s.next /\ Numbered(s.tokens)
    BY DEF Reads
  <1>3. CASE word \in Stopped
    <2>1. e = s
      BY <1>3 DEF Emit, Stopped
    <2>2. span \notin Kept(text)
      BY <1>3 DEF Kept
    <2>3. later = now
      BY <1>1, <2>2
    <2> QED BY <1>2, <2>1, <2>3 DEF Reads
  <1>4. CASE word \notin Stopped
    <2>1. Adds(s, e, word, synonyms) /\ Means(word) = Meant(word, synonyms)
      <3> HIDE DEF now, later
      <3>1. synonyms \in Seq(ToSet(synonyms))
        BY SynonymsAre
      <3>2. Adds(s, e, word, synonyms)
        BY <1>2, <1>4, <3>1, Emits
      <3> QED BY <3>2 DEF Means, Meant
    <2>2. span \in Kept(text)
      BY <1>4 DEF Kept
    <2>3. later = now \cup {span}
      BY <1>1, <2>2
    <2>4. Cardinality(later) = Cardinality(now) + 1
      BY <1>1, <2>3, FS_AddElement
    <2>5. Postings(text, later) = Postings(text, now) \cup (Means(word) \X {Place(text, span)})
      BY <2>3, Zenon DEF Postings
    <2> HIDE DEF now, later
    <2>6. Emitted(e.tokens) = Postings(text, later)
      BY <1>1, <1>2, <2>1, <2>5 DEF Adds
    <2>7. ASSUME \A t \in later : SynonymsOf(Word(text, t)) = <<>>
          PROVE  Len(e.tokens) = e.next /\ Numbered(e.tokens)
      BY <1>2, <2>1, <2>3, <2>7 DEF Adds
    <2> QED BY <1>2, <2>1, <2>4, <2>6, <2>7 DEF Reads, Adds, later
  <1> QED BY <1>3, <1>4

LEMMA NormalIs ==
    ASSUME NEW text, text \in Seq(ToSet(text)), NEW a \in 1..Len(text), NEW b \in 1..Len(text), a <= b
    PROVE  /\ 1 \in DOMAIN Word(text, <<a, b>>)
           /\ Word(text, <<a, b>>)[1] = IF text[a] \in Letters THEN Lower[text[a]] ELSE text[a]
           /\ a = b => Word(text, <<a, b>>) = <<Word(text, <<a, b>>)[1]>>
  <1> DEFINE w == SubSeq(text, a, b)
  <1>1. Len(text) \in Nat
    OBVIOUS
  <1>2. Len(w) = b - a + 1 /\ DOMAIN w = 1..(b - a + 1) /\ w[1] = text[a]
    BY <1>1
  <1>3. Word(text, <<a, b>>) = [i \in DOMAIN w |-> IF w[i] \in Letters THEN Lower[w[i]] ELSE w[i]]
    BY DEF Word, Normalize
  <1>4. 1 \in DOMAIN w
    BY <1>1, <1>2
  <1>5. a = b => DOMAIN w = 1..1
    BY <1>2
  <1> HIDE DEF w
  <1>6. Word(text, <<a, b>>)[1] = IF text[a] \in Letters THEN Lower[text[a]] ELSE text[a]
    BY <1>2, <1>3, <1>4
  <1>7. ASSUME a = b PROVE Word(text, <<a, b>>) = <<Word(text, <<a, b>>)[1]>>
    <2>1. DOMAIN w = {1}
      BY <1>5, <1>7
    <2> QED BY <1>3, <2>1
  <1> QED BY <1>3, <1>4, <1>6, <1>7

(* After i characters: what ended has been read, and the letters from      *)
(* start on are a word that has not ended.                                 *)
ScanInv(text, i, s) ==
    /\ s.start \in 0..i
    /\ s.start = 0 => Reads(s, text, i + 1) /\ (i = 0 \/ text[i] \notin Letters)
    /\ s.start # 0 => /\ Reads(s, text, s.start)
                      /\ \A k \in (s.start)..i : text[k] \in Letters
                      /\ s.start = 1 \/ text[s.start - 1] \notin Letters

LEMMA FlushReads ==
    ASSUME NEW text, text \in Seq(ToSet(text)), NEW i \in 0..Len(text),
           NEW s, ScanInv(text, i, s), i = Len(text) \/ text[i + 1] \notin Letters
    PROVE  LET f == Flush(s, text, i + 1)
           IN  Reads(f, text, i + 1) /\ f.start = 0
  <1>1. CASE s.start = 0
    <2>1. Flush(s, text, i + 1) = s
      BY <1>1 DEF Flush
    <2> QED BY <1>1, <2>1 DEF ScanInv
  <1>2. CASE s.start # 0
    <2> DEFINE a == s.start
               span == <<a, i>>
               word == Word(text, span)
               synonyms == IF word \in DOMAIN Synonyms THEN Synonyms[word] ELSE <<>>
               e == Emit(s, word, synonyms)
    <2>1. Len(text) \in Nat
      OBVIOUS
    <2>2. /\ a \in 1..i /\ i \in 1..Len(text) /\ a \in 1..Len(text) /\ a <= i /\ (i + 1) - 1 = i
          /\ Reads(s, text, a) /\ \A k \in a..i : text[k] \in Letters
          /\ a = 1 \/ text[a - 1] \notin Letters
      BY <1>2, <2>1 DEF ScanInv
    <2>3. Flush(s, text, i + 1) = [e EXCEPT !.start = 0]
      BY <1>2, <2>2, Zenon DEF Flush, Word
    <2> HIDE DEF a
    <2>4. LetterRun(text, a, i)
      BY <2>2 DEF LetterRun
    <2>5. span \in Spans(text) /\ span[1] = a /\ span[2] = i
      BY <2>4, SpansAre
    <2>6. word \notin {<<c>> : c \in Ideographs}
      <3>1. text[a] \in Letters
        BY <2>2
      <3>2. word[1] \in Letters
        BY <2>2, <3>1, NormalIs, TextAssumption DEF TextAssumption
      <3> HIDE DEF word
      <3> QED BY <3>2, TextAssumption DEF TextAssumption
    <2>7. synonyms = SynonymsOf(word)
      BY <2>6 DEF SynonymsOf
    <2>8. Reads(e, text, i + 1)
      <3> HIDE DEF synonyms, span
      <3> QED BY <2>2, <2>5, <2>7, EmitReads
    <2> HIDE DEF e
    <2>9. Reads([e EXCEPT !.start = 0], text, i + 1) /\ [e EXCEPT !.start = 0].start = 0
      BY <2>8 DEF Reads
    <2> QED BY <2>3, <2>9
  <1> QED BY <1>1, <1>2

LEMMA StepReads ==
    ASSUME NEW text, text \in Seq(ToSet(text)), NEW i \in 0..Len(text), i + 1 <= Len(text),
           NEW s, ScanInv(text, i, s)
    PROVE  ScanInv(text, i + 1, ReadRune(s, text, i + 1))
  <1> DEFINE n == i + 1
             r == ReadRune(s, text, n)
             f == Flush(s, text, n)
  <1>1. Len(text) \in Nat /\ i \in Nat /\ n \in 1..Len(text) /\ n # 0 /\ n - 1 = i
    OBVIOUS
  <1>2. CASE text[n] \in Letters /\ s.start = 0
    <2>1. r = [s EXCEPT !.start = n]
      BY <1>2 DEF ReadRune
    <2>2. Reads(s, text, n) /\ (i = 0 \/ text[i] \notin Letters)
      BY <1>2 DEF ScanInv
    <2>3. r.start = n /\ Reads(r, text, n)
      BY <2>1, <2>2 DEF Reads
    <2> HIDE DEF r
    <2>4. \A k \in n..n : text[k] \in Letters
      BY <1>1, <1>2
    <2>5. n = 1 \/ text[n - 1] \notin Letters
      BY <1>1, <2>2
    <2>6. n \in 0..n
      BY <1>1
    <2> QED BY <1>1, <2>3, <2>4, <2>5, <2>6 DEF ScanInv, r
  <1>3. CASE text[n] \in Letters /\ s.start # 0
    <2>1. r = s
      BY <1>3 DEF ReadRune
    <2>2. s.start \in 0..n /\ \A k \in (s.start)..n : k = n \/ k \in (s.start)..i
      BY <1>1 DEF ScanInv
    <2> QED BY <1>3, <2>1, <2>2 DEF ScanInv
  <1>4. CASE text[n] \notin Letters
    <2>1. Reads(f, text, n) /\ f.start = 0
      BY <1>4, FlushReads
    <2>2. CASE text[n] \in Ideographs
      <3> DEFINE span == <<n, n>>
                 word == <<text[n]>>
      <3>1. span \in Spans(text) /\ span[1] = n /\ span[2] = n
        BY <1>1, <2>2, SpansAre
      <3>2. Word(text, span) = word
        BY <1>1, <1>4, NormalIs
      <3>3. r = Emit(f, word, <<>>)
        BY <1>4, <2>2 DEF ReadRune
      <3>4. SynonymsOf(word) = <<>>
        BY <2>2 DEF SynonymsOf
      <3> HIDE DEF word, span, f, r, n
      <3>5. Reads(r, text, n + 1) /\ r.start = 0
        <4>1. Reads(f, text, span[1]) /\ word = Word(text, span) /\ span[2] + 1 = n + 1
          BY <2>1, <3>1, <3>2
        <4>2. Reads(r, text, span[2] + 1) /\ r.start = f.start
          <5> DEFINE none == <<>>
          <5>1. r = Emit(f, word, none) /\ none = SynonymsOf(word)
            BY <3>3, <3>4
          <5> HIDE DEF none
          <5> QED BY <4>1, <3>1, <5>1, EmitReads
        <4> QED BY <2>1, <4>1, <4>2
      <3>6. 0 \in 0..n
        BY <1>1
      <3>7. ScanInv(text, n, r)
        BY <1>4, <3>5, <3>6 DEF ScanInv
      <3> QED BY <3>7 DEF n, r
    <2>3. CASE text[n] \notin Ideographs
      <3>1. r = f
        BY <1>4, <2>3 DEF ReadRune
      <3>2. \A t \in Kept(text) : t[2] < n + 1 <=> t[2] < n
        <4>1. ASSUME NEW t \in Kept(text) PROVE t[2] # n /\ t[2] \in Nat
          <5>1. /\ t[1] \in 1..Len(text) /\ t[2] \in 1..Len(text) /\ t[1] <= t[2]
                /\ LetterRun(text, t[1], t[2]) \/ (t[1] = t[2] /\ text[t[1]] \in Ideographs)
            BY SpansAre DEF Kept
          <5>2. t[2] \in t[1]..t[2]
            BY <1>1, <5>1
          <5>3. text[t[2]] \in Letters \/ text[t[2]] \in Ideographs
            BY <5>1, <5>2 DEF LetterRun
          <5> QED BY <1>1, <1>4, <2>3, <5>1, <5>3
        <4> QED BY <1>1, <4>1
      <3>3. Ended(text, n + 1) = Ended(text, n)
        BY <3>2, Zenon DEF Ended
      <3> HIDE DEF f, r, n
      <3>4. Reads(r, text, n + 1) /\ r.start = 0
        BY <2>1, <3>1, <3>3 DEF Reads
      <3>5. 0 \in 0..n
        BY <1>1
      <3>6. ScanInv(text, n, r)
        BY <1>4, <3>4, <3>5 DEF ScanInv
      <3> QED BY <3>6 DEF n, r
    <2> QED BY <2>2, <2>3
  <1> QED BY <1>2, <1>3, <1>4

LEMMA AnalyzeReads ==
    ASSUME NEW text, text \in Seq(ToSet(text))
    PROVE  /\ Analyze(text) \in Seq(ToSet(Analyze(text)))
           /\ Emitted(Analyze(text)) = Postings(text, Kept(text))
           /\ (\A s \in Kept(text) : SynonymsOf(Word(text, s)) = <<>>)
                => Len(Analyze(text)) = Cardinality(Kept(text)) /\ Numbered(Analyze(text))
  <1> DEFINE n == Len(text)
  <1>1. n \in Nat
    OBVIOUS
  <1>2. PICK g : IsScan(text, n, g) /\ Scan(text) = g[n]
    BY <1>1, ScanRuns
  <1> DEFINE T == {k \in Nat : k <= n => ScanInv(text, k, g[k])}
  <1>3. 0 \in T
    <2>1. g[0] = Unread
      BY <1>1, <1>2, ScanStates
    <2>2. Ended(text, 0 + 1) = {}
      <3>1. \A s \in Kept(text) : ~(s[2] < 0 + 1)
        BY <1>1, SpansAre DEF Kept
      <3> QED BY <3>1 DEF Ended
    <2>3. ToSet(<<>>) = {}
      BY DEF ToSet
    <2>4. Reads(Unread, text, 0 + 1)
      <3>1. Emitted(<<>>) = {} /\ Postings(text, {}) = {} /\ Cardinality({}) = 0
        BY <2>3, FS_EmptySet DEF Emitted, Postings
      <3>2. <<>> \in Seq(ToSet(<<>>))
        OBVIOUS
      <3>3. Unread.tokens = <<>> /\ Unread.next = 0
            /\ Unread = [tokens |-> Unread.tokens, next |-> Unread.next, start |-> Unread.start]
        BY DEF Unread
      <3>4. Len(Unread.tokens) = 0 /\ Numbered(Unread.tokens)
        BY DEF Numbered, Unread
      <3> QED BY <2>2, <3>1, <3>2, <3>3, <3>4 DEF Reads
    <2>5. Unread.start = 0 /\ 0 \in 0..0
      BY DEF Unread
    <2>6. ScanInv(text, 0, g[0])
      BY <2>1, <2>4, <2>5 DEF ScanInv
    <2> QED BY <2>6
  <1>4. ASSUME NEW k \in Nat, k \in T PROVE k + 1 \in T
    <2> SUFFICES ASSUME k + 1 <= n PROVE ScanInv(text, k + 1, g[k + 1])
      OBVIOUS
    <2>1. k \in 0..n /\ k <= n
      BY <1>1
    <2>2. g[k + 1] = ReadRune(g[k], text, k + 1)
      BY <1>1, <1>2, <2>1, ScanStates
    <2>3. ScanInv(text, k, g[k])
      BY <1>4, <2>1
    <2> QED BY <2>1, <2>2, <2>3, StepReads
  <1>5. n \in T
    <2> HIDE DEF T
    <2> QED BY <1>1, <1>3, <1>4, ByInduction
  <1>6. ScanInv(text, n, Scan(text)) /\ n \in 0..n
    BY <1>1, <1>2, <1>5
  <1> DEFINE f == Flush(Scan(text), text, n + 1)
  <1>7. Reads(f, text, n + 1)
    BY <1>6, FlushReads
  <1>8. Ended(text, n + 1) = Kept(text)
    <2>1. \A s \in Kept(text) : s[2] < n + 1
      BY <1>1, SpansAre DEF Kept
    <2> QED BY <2>1 DEF Ended
  <1>9. Analyze(text) = f.tokens
    BY DEF Analyze
  <1> HIDE DEF f, n
  <1> QED BY <1>7, <1>8, <1>9 DEF Reads

(* The kept words in order, each after as many as come before it.          *)
LEMMA WordsAre ==
    ASSUME NEW text, text \in Seq(ToSet(text))
    PROVE  \E order \in Seq(Kept(text)) :
             /\ order \in Surjection(1..Len(order), Kept(text))
             /\ Len(order) = Cardinality(Kept(text))
             /\ DOMAIN Words(text) = 1..Len(order)
             /\ \A i \in 1..Len(order) : /\ Words(text)[i] = Word(text, order[i])
                                         /\ Place(text, order[i]) = i - 1
  <1> DEFINE S == Kept(text)
             R == {p \in S \X S : p[1][1] < p[2][1]}
             IsOrder(s) == /\ s \in [1..Cardinality(S) -> S]
                           /\ \A i, j \in 1..Cardinality(S) : i < j => s[i][1] < s[j][1]
             order == InOrder(S, LAMBDA s, t : s[1] < t[1])
  <1>1. IsFiniteSet(S)
    BY KeptFinite
  <1>2. \A s \in S : s[1] \in Nat /\ s[2] \in Nat /\ s[1] <= s[2] /\ s \in Spans(text)
    <2>1. Len(text) \in Nat
      OBVIOUS
    <2> QED BY <2>1, SpansAre DEF Kept
  <1>3. \A s, t \in S : s = t \/ s[1] < t[1] \/ t[1] < s[1]
    <2> TAKE s, t \in S
    <2>1. s = t \/ s[2] < t[1] \/ t[2] < s[1]
      BY <1>2, SpansApart
    <2> HIDE DEF S
    <2> QED BY <1>2, <2>1
  <1>4. \A s, t \in S : <<s, t>> \in R <=> s[1] < t[1]
    OBVIOUS
  <1> HIDE DEF S, R
  <1>5. Orders(R, S)
    BY <1>2, <1>3, <1>4 DEF Orders
  <1>6. IsOrder(order)
    <2>1. \E l : IsOrder(l)
      <3>1. PICK l \in [1..Cardinality(S) -> S] :
              \A i, j \in 1..Cardinality(S) : i < j => <<l[i], l[j]>> \in R
        BY <1>1, <1>5, OrderedListExists
      <3> QED BY <1>4, <3>1
    <2>2. order = CHOOSE l \in [1..Cardinality(S) -> S] :
                    \A i, j \in 1..Cardinality(S) : i < j => l[i][1] < l[j][1]
      BY DEF InOrder
    <2> HIDE DEF order
    <2> QED BY <2>1, <2>2, Zenon
  <1>7. Words(text) = [i \in DOMAIN order |-> Word(text, order[i])]
    BY DEF Words, Kept, Stopped, S
  <1> HIDE DEF order
  <1>8. /\ order \in [1..Cardinality(S) -> S]
        /\ \A i, j \in 1..Cardinality(S) : i < j => <<order[i], order[j]>> \in R
    BY <1>4, <1>6
  <1>9. /\ order \in Seq(S) /\ DOMAIN order = 1..Len(order)
        /\ \A i, j \in 1..Len(order) : i < j <=> <<order[i], order[j]>> \in R
        /\ \A i, j \in 1..Len(order) : order[i] = order[j] => i = j
        /\ order \in Surjection(1..Len(order), S) /\ Len(order) = Cardinality(S)
    BY <1>1, <1>5, <1>8, OrderedListComplete
  <1>10. ASSUME NEW i \in 1..Len(order)
         PROVE  Place(text, order[i]) = i - 1
    <2> DEFINE T == {b \in S : b[1] < order[i][1]}
    <2>1. order[i] \in S
      BY <1>9
    <2>2. T = {b \in S : <<b, order[i]>> \in R} /\ Listed(order, S, R)
      BY <1>4, <1>9, <2>1 DEF Listed
    <2>3. Place(text, order[i]) = Cardinality(T)
      BY DEF Place, S
    <2> HIDE DEF T
    <2>4. Cardinality(T) = i - 1
      BY <2>2, OrderedListPlaces
    <2> QED BY <2>3, <2>4
  <1> QED BY <1>7, <1>9, <1>10 DEF S

LEMMA NormalizedIs ==
    ASSUME NEW S, NEW w \in Seq(S)
    PROVE  Normalize(w) \in Seq(ToSet(Normalize(w)))
  <1> DEFINE v == Normalize(w)
  <1>1. Len(w) \in Nat /\ DOMAIN w = 1..Len(w)
    OBVIOUS
  <1>2. v = [i \in 1..Len(w) |-> v[i]] /\ DOMAIN v = 1..Len(w)
    BY <1>1 DEF Normalize
  <1> HIDE DEF v
  <1>3. \A i \in 1..Len(w) : v[i] \in ToSet(v)
    BY <1>2 DEF ToSet
  <1>4. v \in Seq(ToSet(v))
    BY <1>1, <1>2, <1>3
  <1> QED BY <1>4 DEF v

(* The tokens of a text are its words, each at its place, and what they    *)
(* mean; without synonyms they are its words, one after the other.         *)
LEMMA TokensAre ==
    ASSUME NEW text, text \in Seq(ToSet(text)),
           NEW tokens, tokens = Analyze(text), NEW has, has = Words(text)
    PROVE  /\ Len(has) \in Nat /\ DOMAIN has = 1..Len(has)
           /\ \A n \in DOMAIN tokens : \E j \in DOMAIN has :
                tokens[n].term \in Means(has[j]) /\ tokens[n].position = j - 1
           /\ \A j \in DOMAIN has : \A m \in Means(has[j]) : \E n \in DOMAIN tokens :
                tokens[n].term = m /\ tokens[n].position = j - 1
           /\ \A j \in DOMAIN has : \A m \in Means(has[j]) : m \in Seq(ToSet(m))
           /\ (\A j \in DOMAIN has : SynonymsOf(has[j]) = <<>>)
                => /\ DOMAIN tokens = DOMAIN has
                   /\ \A j \in DOMAIN has : tokens[j].term = has[j]
  <1>1. PICK order \in Seq(Kept(text)) :
          /\ order \in Surjection(1..Len(order), Kept(text))
          /\ Len(order) = Cardinality(Kept(text))
          /\ DOMAIN has = 1..Len(order)
          /\ \A i \in 1..Len(order) : has[i] = Word(text, order[i]) /\ Place(text, order[i]) = i - 1
    BY WordsAre
  <1>2. /\ Len(order) \in Nat /\ \A i \in 1..Len(order) : order[i] \in Kept(text)
        /\ \A s \in Kept(text) : \E i \in 1..Len(order) : s = order[i]
    BY <1>1 DEF Surjection
  <1>3. Len(has) = Len(order)
    <2>1. has = [i \in 1..Len(order) |-> has[i]]
      BY <1>1 DEF Words
    <2> QED BY <1>2, <2>1
  <1>4. /\ tokens \in Seq(ToSet(tokens))
        /\ Emitted(tokens) = Postings(text, Kept(text))
        /\ (\A s \in Kept(text) : SynonymsOf(Word(text, s)) = <<>>)
             => Len(tokens) = Cardinality(Kept(text)) /\ Numbered(tokens)
    BY AnalyzeReads
  <1>5. DOMAIN tokens = 1..Len(tokens)
    BY <1>4
  <1>6. \A p : p \in Emitted(tokens) <=>
          \E j \in DOMAIN has : \E m \in Means(has[j]) : p = <<m, j - 1>>
    <2> SUFFICES ASSUME NEW p
                 PROVE  p \in Emitted(tokens) <=>
                          \E j \in DOMAIN has : \E m \in Means(has[j]) : p = <<m, j - 1>>
      OBVIOUS
    <2>1. p \in Postings(text, Kept(text)) <=>
            \E s \in Kept(text) : p \in Means(Word(text, s)) \X {Place(text, s)}
      BY DEF Postings
    <2>2. \A s : p \in Means(Word(text, s)) \X {Place(text, s)} <=>
                   \E m \in Means(Word(text, s)) : p = <<m, Place(text, s)>>
      OBVIOUS
    <2>3. (\E s \in Kept(text) : \E m \in Means(Word(text, s)) : p = <<m, Place(text, s)>>)
          <=> \E j \in DOMAIN has : \E m \in Means(has[j]) : p = <<m, j - 1>>
      BY <1>1, <1>2
    <2> QED BY <1>4, <2>1, <2>2, <2>3
  <1>7. ASSUME NEW n \in DOMAIN tokens
        PROVE  \E j \in DOMAIN has : tokens[n].term \in Means(has[j]) /\ tokens[n].position = j - 1
    <2>1. <<tokens[n].term, tokens[n].position>> \in Emitted(tokens)
      BY DEF Emitted, ToSet
    <2> QED BY <1>6, <2>1
  <1>8. ASSUME NEW j \in DOMAIN has, NEW m \in Means(has[j])
        PROVE  \E n \in DOMAIN tokens : tokens[n].term = m /\ tokens[n].position = j - 1
    <2>1. <<m, j - 1>> \in Emitted(tokens)
      BY <1>6
    <2>2. PICK t \in ToSet(tokens) : <<m, j - 1>> = <<t.term, t.position>>
      BY <2>1 DEF Emitted
    <2> QED BY <2>2 DEF ToSet
  <1>9. ASSUME NEW j \in DOMAIN has, NEW m \in Means(has[j]) PROVE m \in Seq(ToSet(m))
    <2>1. order[j] \in Spans(text)
      BY <1>1, <1>2 DEF Kept
    <2> DEFINE a == order[j][1]  b == order[j][2]
    <2>2. SubSeq(text, a, b) \in Seq(ToSet(text)) /\ has[j] = Normalize(SubSeq(text, a, b))
      <3>1. a \in 1..Len(text) /\ b \in 1..Len(text)
        BY <2>1, SpansAre
      <3>2. has[j] = Normalize(SubSeq(text, a, b))
        BY <1>1 DEF Word
      <3> HIDE DEF a, b
      <3> QED BY <3>1, <3>2
    <2>3. has[j] \in Seq(ToSet(has[j]))
      BY <2>2, NormalizedIs
    <2>4. ASSUME NEW s \in ToSet(SynonymsOf(has[j])) PROVE s \in Seq(ToSet(s))
      <3>1. ToSet(<<>>) = {}
        BY DEF ToSet
      <3> QED BY <2>4, <3>1, TextAssumption DEF SynonymsOf, TextAssumption
    <2>5. \A s \in ToSet(SynonymsOf(has[j])) : Normalize(s) \in Seq(ToSet(Normalize(s)))
      BY <2>4, NormalizedIs
    <2> QED BY <2>3, <2>5 DEF Means
  <1>10. ASSUME \A j \in DOMAIN has : SynonymsOf(has[j]) = <<>>
         PROVE  /\ DOMAIN tokens = DOMAIN has
                /\ \A j \in DOMAIN has : tokens[j].term = has[j]
    <2>1. Len(tokens) = Len(order) /\ Numbered(tokens)
      BY <1>1, <1>2, <1>4, <1>10
    <2>2. DOMAIN tokens = DOMAIN has
      BY <1>1, <1>5, <2>1
    <2>3. \A j \in DOMAIN has : Means(has[j]) = {has[j]}
      BY <1>10 DEF Means, ToSet
    <2>4. ASSUME NEW j \in DOMAIN has PROVE tokens[j].term = has[j]
      <3>1. PICK i \in DOMAIN has : tokens[j].term \in Means(has[i]) /\ tokens[j].position = i - 1
        BY <1>7, <2>2
      <3>2. tokens[j].position = j - 1
        BY <1>5, <2>1, <2>2 DEF Numbered
      <3>3. i = j
        BY <1>1, <1>2, <3>1, <3>2
      <3> QED BY <2>3, <3>1, <3>3
    <2> QED BY <2>2, <2>4
  <1> QED BY <1>1, <1>2, <1>3, <1>7, <1>8, <1>9, <1>10

LEMMA TextsAre ==
    ASSUME TypeOK, NEW text \in Texts
    PROVE  text \in Seq(ToSet(text))
  <1>1. PICK s \in ShardIds, id \in DocIds : docs[s][id] # None /\ text = docs[s][id].text
    BY DEF Texts
  <1>2. docs[s][id] \in Contents[id]
    BY <1>1 DEF TypeOK
  <1> QED BY <1>1, <1>2, ShardsAssumption DEF ShardsAssumption

(* The postings of every document are its kept words in order, each at its *)
(* place among them, and their synonyms with them (indexDocument,          *)
(* Pipeline.Analyze).                                                      *)
THEOREM PostingsAreWords == Spec => []PostingsFollowWords
  <1>1. ASSUME NEW text, text \in Seq(ToSet(text))
        PROVE  {<<t.term, t.position + 1>> : t \in ToSet(Analyze(text))}
               = UNION {Means(Words(text)[i]) \X {i} : i \in DOMAIN Words(text)}
    <2> DEFINE tokens == Analyze(text)
               has == Words(text)
               L == {<<t.term, t.position + 1>> : t \in ToSet(tokens)}
               R == UNION {Means(has[i]) \X {i} : i \in DOMAIN has}
    <2>1. /\ Len(has) \in Nat /\ DOMAIN has = 1..Len(has)
          /\ \A n \in DOMAIN tokens : \E j \in DOMAIN has :
               tokens[n].term \in Means(has[j]) /\ tokens[n].position = j - 1
          /\ \A j \in DOMAIN has : \A m \in Means(has[j]) : \E n \in DOMAIN tokens :
               tokens[n].term = m /\ tokens[n].position = j - 1
      BY <1>1, TokensAre
    <2> HIDE DEF tokens, has
    <2>2. ASSUME NEW p \in L PROVE p \in R
      <3>1. PICK n \in DOMAIN tokens : p = <<tokens[n].term, tokens[n].position + 1>>
        BY <2>2 DEF ToSet
      <3>2. PICK j \in DOMAIN has : tokens[n].term \in Means(has[j]) /\ tokens[n].position = j - 1
        BY <2>1
      <3>3. (j - 1) + 1 = j
        BY <2>1
      <3> QED BY <3>1, <3>2, <3>3
    <2>3. ASSUME NEW p \in R PROVE p \in L
      <3>1. PICK j \in DOMAIN has : p \in Means(has[j]) \X {j}
        BY <2>3
      <3>2. p = <<p[1], j>> /\ p[1] \in Means(has[j])
        BY <3>1
      <3>3. PICK n \in DOMAIN tokens : tokens[n].term = p[1] /\ tokens[n].position = j - 1
        BY <2>1, <3>2
      <3>4. (j - 1) + 1 = j /\ tokens[n] \in ToSet(tokens)
        BY <2>1 DEF ToSet
      <3> QED BY <3>2, <3>3, <3>4
    <2>4. L = R
      <3> HIDE DEF L, R
      <3> QED BY <2>2, <2>3
    <2> QED BY <2>4 DEF tokens, has
  <1>2. TypeOK => PostingsFollowWords
    BY <1>1, TextsAre DEF PostingsFollowWords
  <1> QED BY <1>2, TypeCorrect, PTL

-----------------------------------------------------------------------------
(* The table that distance fills, a row for each letter of the one word    *)
(* and a column for each of the other.                                     *)
Cost(x, y) == IF x = y THEN 0 ELSE 1

IsNextRow(new, row, i, x, b) ==
    /\ new \in [0..Len(b) -> Nat] /\ new[0] = i
    /\ \A j \in 1..Len(b) :
         new[j] = Min({row[j] + 1, new[j - 1] + 1, row[j - 1] + Cost(x, b[j])})

(* The one row when entry j has been overwritten: up to there it is new,   *)
(* behind it is the row before, and prev is what the entry was.            *)
Overwritten(s, j, row, i, x, b) ==
    /\ s.prev = row[j]
    /\ s.row[0] = i
    /\ \A l \in 1..j : s.row[l] = Min({row[l] + 1, s.row[l - 1] + 1, row[l - 1] + Cost(x, b[l])})
    /\ \A l \in (j + 1)..Len(b) : s.row[l] = row[l]

LEMMA OverwriteKeeps ==
    ASSUME NEW b, Len(b) \in Nat, NEW row \in [0..Len(b) -> Nat], NEW i \in Nat, NEW x,
           NEW s \in [row: [0..Len(b) -> Nat], prev: Nat], NEW j \in 0..Len(b), j + 1 <= Len(b),
           Overwritten(s, j, row, i, x, b)
    PROVE  Overwritten(Overwrite(s, x, b, j + 1), j + 1, row, i, x, b)
  <1> DEFINE n == Len(b)
             k == j + 1
             least == Min({s.row[k] + 1, s.row[k - 1] + 1, s.prev + Cost(x, b[k])})
             t == Overwrite(s, x, b, k)
  <1>1. n \in Nat /\ j \in Nat /\ k \in 1..n /\ k - 1 = j /\ s.row \in [0..n -> Nat]
    OBVIOUS
  <1>2. t = [row |-> [s.row EXCEPT ![k] = least], prev |-> s.row[k]]
    BY DEF Overwrite, Cost
  <1> HIDE DEF least
  <1>3. /\ t.prev = s.row[k] /\ t.row[k] = least
        /\ \A l \in 0..n : l # k => t.row[l] = s.row[l]
    BY <1>1, <1>2
  <1> HIDE DEF t
  <1>4. /\ s.prev = row[j] /\ s.row[0] = i /\ s.row[k] = row[k]
        /\ \A l \in 1..j : s.row[l] = Min({row[l] + 1, s.row[l - 1] + 1, row[l - 1] + Cost(x, b[l])})
        /\ \A l \in (j + 1)..n : s.row[l] = row[l]
    BY <1>1 DEF Overwritten
  <1>5. least = Min({row[k] + 1, t.row[k - 1] + 1, row[k - 1] + Cost(x, b[k])})
    <2>1. t.row[k - 1] = s.row[k - 1]
      BY <1>1, <1>3
    <2> QED BY <1>1, <1>4, <2>1 DEF least
  <1>6. ASSUME NEW l \in 1..k
        PROVE  t.row[l] = Min({row[l] + 1, t.row[l - 1] + 1, row[l - 1] + Cost(x, b[l])})
    <2>1. CASE l = k
      BY <1>3, <1>5, <2>1
    <2>2. CASE l # k
      <3>1. l \in 1..j /\ l \in 0..n /\ l - 1 \in 0..n /\ l - 1 # k
        BY <1>1, <2>2
      <3>2. t.row[l] = s.row[l] /\ t.row[l - 1] = s.row[l - 1]
        BY <1>3, <2>2, <3>1
      <3> QED BY <1>4, <3>1, <3>2
    <2> QED BY <2>1, <2>2
  <1>7. ASSUME NEW l \in (k + 1)..n PROVE t.row[l] = row[l]
    <2>1. l \in (j + 1)..n /\ l \in 0..n /\ l # k
      BY <1>1
    <2> QED BY <1>3, <1>4, <2>1
  <1>8. t.prev = row[k] /\ t.row[0] = i
    BY <1>1, <1>3, <1>4
  <1> QED BY <1>6, <1>7, <1>8 DEF Overwritten, t

(* A row that is overwritten from left to right becomes the next one.      *)
LEMMA NextRowIs ==
    ASSUME NEW b, Len(b) \in Nat, NEW row \in [0..Len(b) -> Nat], NEW i \in Nat, NEW x,
           NEW new, new = NextRow(row, i, x, b)
    PROVE  IsNextRow(new, row, i, x, b)
  <1> DEFINE n == Len(b)
             States == [row: [0..n -> Nat], prev: Nat]
             first == [row |-> [row EXCEPT ![0] = i], prev |-> row[0]]
             step == [p \in (1..n) \X States |-> Overwrite(p[2], x, b, p[1])]
             Recurrence(f) ==
               f = [j \in 0..n |-> IF j = 0 THEN first ELSE Overwrite(f[j - 1], x, b, j)]
             state == CHOOSE f_ : Recurrence(f_)
  <1>1. n \in Nat /\ first \in States
    OBVIOUS
  <1>2. ASSUME NEW s \in States, NEW j \in 1..n PROVE Overwrite(s, x, b, j) \in States
    <2> DEFINE least == Min({s.row[j] + 1, s.row[j - 1] + 1, s.prev + Cost(x, b[j])})
    <2>1. j \in 0..n /\ j - 1 \in 0..n
      BY <1>1
    <2>2. s.row[j] + 1 \in Nat /\ s.row[j - 1] + 1 \in Nat /\ s.prev + Cost(x, b[j]) \in Nat
      <3>1. s.row \in [0..n -> Nat] /\ s.prev \in Nat
        BY <1>2
      <3>2. Cost(x, b[j]) \in {0, 1}
        BY DEF Cost
      <3> HIDE DEF n
      <3>3. s.row[j] \in Nat /\ s.row[j - 1] \in Nat
        BY <2>1, <3>1
      <3> QED BY <3>1, <3>2, <3>3
    <2>3. least \in Nat
      BY <2>2, LeastOfThree
    <2>4. Overwrite(s, x, b, j) = [row |-> [s.row EXCEPT ![j] = least], prev |-> s.row[j]]
      BY DEF Overwrite, Cost
    <2> HIDE DEF least
    <2> QED BY <2>1, <2>3, <2>4
  <1>3. new = state[n].row
    BY Zenon DEF NextRow, n
  <1>4. Overwritten(first, 0, row, i, x, b)
    <2>1. \A l \in (0 + 1)..n : l \in 0..n /\ l # 0
      BY <1>1
    <2>2. 0 \in 0..n /\ \A l \in 1..0 : FALSE
      BY <1>1
    <2> QED BY <2>1, <2>2 DEF Overwritten
  <1> HIDE DEF n, States, first
  <1>5. \A j \in 1..n : \A s \in States :
          step[<<j, s>>] = Overwrite(s, x, b, j) /\ step[<<j, s>>] \in States
    BY <1>2
  <1> HIDE DEF step
  <1>6. PICK f \in [0..n -> States] : Recurs(f, n, first, step)
    BY <1>1, <1>5, RecursionExists
  <1>7. Recurrence(f)
    <2>1. f = [j \in 0..n |-> IF j = 0 THEN first ELSE step[<<j, f[j - 1]>>]]
      BY <1>6 DEF Recurs
    <2>2. \A j \in 0..n : j # 0 => j \in 1..n /\ f[j - 1] \in States
      BY <1>1
    <2>3. \A j \in 0..n : (IF j = 0 THEN first ELSE step[<<j, f[j - 1]>>])
                          = (IF j = 0 THEN first ELSE Overwrite(f[j - 1], x, b, j))
      BY <1>5, <2>2
    <2> QED BY <2>1, <2>3
  <1>8. Recurrence(state)
    <2> HIDE DEF Recurrence
    <2> QED BY <1>7, Zenon
  <1> HIDE DEF state
  <1>9. \A j \in 0..n : state[j] = IF j = 0 THEN first ELSE Overwrite(state[j - 1], x, b, j)
    BY <1>8, Zenon
  <1>10. state[0] = first /\ \A j \in 1..n : state[j] = Overwrite(state[j - 1], x, b, j)
    <2>1. 0 \in 0..n /\ \A j \in 1..n : j \in 0..n /\ j # 0
      BY <1>1
    <2> QED BY <1>9, <2>1
  <1> DEFINE T == {j \in Nat : j <= n => state[j] \in States /\ Overwritten(state[j], j, row, i, x, b)}
  <1>11. 0 \in T
    BY <1>1, <1>4, <1>10
  <1>12. ASSUME NEW j \in Nat, j \in T PROVE j + 1 \in T
    <2> SUFFICES ASSUME j + 1 <= n
                 PROVE  state[j + 1] \in States /\ Overwritten(state[j + 1], j + 1, row, i, x, b)
      OBVIOUS
    <2>1. /\ state[j] \in States /\ Overwritten(state[j], j, row, i, x, b)
          /\ j + 1 \in 1..n /\ (j + 1) - 1 = j /\ j \in 0..n
      BY <1>1, <1>12
    <2>2. state[j + 1] = Overwrite(state[j], x, b, j + 1)
      BY <1>10, <2>1
    <2>3. state[j + 1] \in States
      BY <1>2, <2>1, <2>2
    <2>4. Overwritten(Overwrite(state[j], x, b, j + 1), j + 1, row, i, x, b)
      BY <1>1, <2>1, OverwriteKeeps DEF n, States
    <2> QED BY <2>2, <2>3, <2>4
  <1>13. state[n] \in States /\ Overwritten(state[n], n, row, i, x, b)
    <2> HIDE DEF T
    <2>1. Nat \subseteq T
      BY <1>11, <1>12, ByInduction
    <2> QED BY <1>1, <2>1 DEF T
  <1> QED BY <1>3, <1>13 DEF IsNextRow, Overwritten, States, n

IsTable(d, a, b) ==
    /\ d \in [0..Len(a) -> [0..Len(b) -> Nat]]
    /\ \A j \in 0..Len(b) : d[0][j] = j
    /\ \A i \in 1..Len(a) : IsNextRow(d[i], d[i - 1], i, a[i], b)

LEMMA DistanceTable ==
    ASSUME NEW a, Len(a) \in Nat, NEW b, Len(b) \in Nat
    PROVE  \E d : IsTable(d, a, b) /\ Distance(a, b) = d[Len(a)][Len(b)]
  <1> DEFINE m == Len(a)
             Rows == [0..Len(b) -> Nat]
             first == [j \in 0..Len(b) |-> j]
             step == [p \in (1..m) \X Rows |-> NextRow(p[2], p[1], a[p[1]], b)]
             Recurrence(f) == f = [i \in 0..m |-> IF i = 0 THEN first ELSE NextRow(f[i - 1], i, a[i], b)]
             d == CHOOSE f : Recurrence(f)
  <1>1. m \in Nat /\ first \in Rows
    OBVIOUS
  <1>2. \A i \in Nat, row \in Rows : \A x : NextRow(row, i, x, b) \in Rows
    BY NextRowIs DEF IsNextRow
  <1>3. Distance(a, b) = d[m][Len(b)]
    BY Zenon DEF Distance
  <1> HIDE DEF m, Rows
  <1>4. \A i \in 1..m : \A row \in Rows : /\ step[<<i, row>>] = NextRow(row, i, a[i], b)
                                          /\ step[<<i, row>>] \in Rows
    <2>1. \A i \in 1..m : i \in Nat
      BY <1>1
    <2> QED BY <1>2, <2>1
  <1> HIDE DEF step, first
  <1>5. PICK f \in [0..m -> Rows] : Recurs(f, m, first, step)
    BY <1>1, <1>4, RecursionExists
  <1>6. Recurrence(f)
    <2>1. f = [i \in 0..m |-> IF i = 0 THEN first ELSE step[<<i, f[i - 1]>>]]
      BY <1>5 DEF Recurs
    <2>2. \A i \in 0..m : i # 0 => i \in 1..m /\ f[i - 1] \in Rows
      BY <1>1
    <2>3. \A i \in 0..m : (IF i = 0 THEN first ELSE step[<<i, f[i - 1]>>])
                          = (IF i = 0 THEN first ELSE NextRow(f[i - 1], i, a[i], b))
      BY <1>4, <2>2
    <2> QED BY <2>1, <2>3
  <1>7. Recurrence(d)
    <2> HIDE DEF Recurrence
    <2> QED BY <1>6, Zenon
  <1>8. \A i \in 0..m : d[i] = IF i = 0 THEN first ELSE NextRow(d[i - 1], i, a[i], b)
    <2> HIDE DEF d
    <2> QED BY <1>7, Zenon
  <1>9. DOMAIN d = 0..m /\ d = [i \in 0..m |-> d[i]]
    <2> HIDE DEF d
    <2> QED BY <1>7
  <1> HIDE DEF d
  <1>10. d[0] = first /\ \A i \in 1..m : d[i] = NextRow(d[i - 1], i, a[i], b)
    <2>1. 0 \in 0..m /\ \A i \in 1..m : i \in 0..m /\ i # 0
      BY <1>1
    <2> QED BY <1>8, <2>1
  <1> DEFINE T == {i \in Nat : i <= m => d[i] \in Rows}
  <1>11. 0 \in T
    BY <1>1, <1>10
  <1>12. ASSUME NEW i \in Nat, i \in T PROVE i + 1 \in T
    <2> SUFFICES ASSUME i + 1 <= m PROVE d[i + 1] \in Rows
      OBVIOUS
    <2>1. d[i] \in Rows /\ i + 1 \in 1..m /\ (i + 1) - 1 = i
      BY <1>1, <1>12
    <2>2. d[i + 1] = NextRow(d[i], i + 1, a[i + 1], b)
      BY <1>10, <2>1
    <2> QED BY <1>2, <2>1, <2>2
  <1>13. \A i \in 0..m : d[i] \in Rows
    <2> HIDE DEF T
    <2>1. Nat \subseteq T
      BY <1>11, <1>12, ByInduction
    <2>2. \A i \in 0..m : i \in Nat /\ i <= m
      BY <1>1
    <2> QED BY <2>1, <2>2 DEF T
  <1>14. d \in [0..m -> Rows]
    BY <1>9, <1>13
  <1>15. \A i \in 1..m : IsNextRow(d[i], d[i - 1], i, a[i], b)
    <2>1. \A i \in 1..m : i - 1 \in 0..m /\ i \in Nat
      BY <1>1
    <2> QED BY <1>10, <1>13, <2>1, NextRowIs DEF Rows
  <1>16. \A j \in 0..Len(b) : d[0][j] = j
    BY <1>10 DEF first
  <1> QED BY <1>3, <1>14, <1>15, <1>16 DEF IsTable, m, Rows

(* What an entry of the table says of those beside it, as far as one edit. *)
Bordered(d, a, b) ==
    /\ \A i \in 0..Len(a), j \in 0..Len(b) : d[i][j] \in Nat
    /\ \A i \in 0..Len(a) : d[i][0] = i
    /\ \A j \in 0..Len(b) : d[0][j] = j

Stepwise(d, a, b) ==
    \A i \in 1..Len(a), j \in 1..Len(b) :
      /\ d[i][j] = 0 <=> d[i - 1][j - 1] = 0 /\ a[i] = b[j]
      /\ d[i][j] <= 1 <=> \/ d[i - 1][j] = 0 \/ d[i][j - 1] = 0 \/ d[i - 1][j - 1] = 0
                          \/ d[i - 1][j - 1] <= 1 /\ a[i] = b[j]

LEMMA TableEntries ==
    ASSUME NEW a, Len(a) \in Nat, NEW b, Len(b) \in Nat, NEW d, IsTable(d, a, b)
    PROVE  Bordered(d, a, b) /\ Stepwise(d, a, b)
  <1> DEFINE m == Len(a)
             n == Len(b)
  <1>1. m \in Nat /\ n \in Nat
    OBVIOUS
  <1>2. \A i \in 0..m, j \in 0..n : d[i][j] \in Nat
    BY DEF IsTable
  <1>4. ASSUME NEW i \in 1..m, NEW j \in 1..n
        PROVE  d[i][j] = Min({d[i - 1][j] + 1, d[i][j - 1] + 1, d[i - 1][j - 1] + Cost(a[i], b[j])})
    BY DEF IsTable, IsNextRow
  <1>5. \A j \in 0..n : d[0][j] = j
    BY DEF IsTable
  <1> HIDE DEF m, n
  <1>8. \A i \in 0..m : d[i][0] = i
    <2>1. \A i \in 1..m : d[i][0] = i
      BY DEF IsTable, IsNextRow, m
    <2>2. \A i \in 0..m : i = 0 \/ i \in 1..m
      BY <1>1
    <2>3. d[0][0] = 0
      BY <1>1, <1>5
    <2> QED BY <2>1, <2>2, <2>3
  <1>9. ASSUME NEW i \in 1..m, NEW j \in 1..n
        PROVE  /\ d[i][j] = 0 <=> d[i - 1][j - 1] = 0 /\ a[i] = b[j]
               /\ d[i][j] <= 1 <=> \/ d[i - 1][j] = 0 \/ d[i][j - 1] = 0 \/ d[i - 1][j - 1] = 0
                                   \/ d[i - 1][j - 1] <= 1 /\ a[i] = b[j]
    <2> DEFINE u == d[i - 1][j]  v == d[i][j - 1]  w == d[i - 1][j - 1]  c == Cost(a[i], b[j])
    <2>1. i \in 0..m /\ i - 1 \in 0..m /\ j \in 0..n /\ j - 1 \in 0..n
      BY <1>1
    <2>2. u \in Nat /\ v \in Nat /\ w \in Nat
      BY <1>2, <2>1
    <2>3. c = IF a[i] = b[j] THEN 0 ELSE 1
      BY DEF Cost
    <2>4. d[i][j] = Min({u + 1, v + 1, w + c})
      BY <1>4
    <2> HIDE DEF u, v, w, c
    <2>5. u + 1 \in Nat /\ v + 1 \in Nat /\ w + c \in Nat
      BY <2>2, <2>3
    <2>6. /\ d[i][j] \in {u + 1, v + 1, w + c}
          /\ d[i][j] <= u + 1 /\ d[i][j] <= v + 1 /\ d[i][j] <= w + c
      BY <2>4, <2>5, LeastOfThree
    <2>7. /\ d[i][j] = 0 <=> w = 0 /\ a[i] = b[j]
          /\ d[i][j] <= 1 <=> u = 0 \/ v = 0 \/ w = 0 \/ (w <= 1 /\ a[i] = b[j])
      BY <2>2, <2>3, <2>6
    <2> QED BY <2>7 DEF u, v, w
  <1>10. Bordered(d, a, b)
    BY <1>2, <1>5, <1>8 DEF Bordered, m, n
  <1>11. Stepwise(d, a, b)
    BY <1>9 DEF Stepwise, m, n
  <1> QED BY <1>10, <1>11

(* The first i letters of a and the first j of b are the same, or one edit *)
(* apart: one letter exchanged, or one that the shorter of them skips.     *)
SameTo(a, b, i, j) == i = j /\ \A k \in 1..i : a[k] = b[k]
Exchanges(a, b, i) == \E p \in 0..i : \A k \in 1..i : k # p => a[k] = b[k]
Skips(a, b, j) == \E p \in 1..(j + 1) : \A k \in 1..j : b[k] = IF k < p THEN a[k] ELSE a[k + 1]
Near(a, b, i, j) ==
    \/ i = j /\ Exchanges(a, b, i)
    \/ i = j + 1 /\ Skips(a, b, j)
    \/ j = i + 1 /\ Skips(b, a, i)

LEMMA ExchangesNext ==
    ASSUME NEW a, NEW b, NEW i \in Nat
    PROVE  Exchanges(a, b, i + 1) <=>
             SameTo(a, b, i, i) \/ (Exchanges(a, b, i) /\ a[i + 1] = b[i + 1])
  <1>1. \A k \in 1..(i + 1) : k \in 1..i \/ k = i + 1
    OBVIOUS
  <1>2. i + 1 \in 1..(i + 1) /\ i + 1 \in 0..(i + 1) /\ \A k \in 1..i : k \in 1..(i + 1) /\ k # i + 1
    OBVIOUS
  <1>3. ASSUME Exchanges(a, b, i + 1)
        PROVE  SameTo(a, b, i, i) \/ (Exchanges(a, b, i) /\ a[i + 1] = b[i + 1])
    <2>1. PICK p \in 0..(i + 1) : \A k \in 1..(i + 1) : k # p => a[k] = b[k]
      BY <1>3 DEF Exchanges
    <2>2. CASE p = i + 1
      BY <1>2, <2>1, <2>2 DEF SameTo
    <2>3. CASE p # i + 1
      <3>1. p \in 0..i
        BY <2>3
      <3> QED BY <1>2, <2>1, <2>3, <3>1 DEF Exchanges
    <2> QED BY <2>2, <2>3
  <1>4. ASSUME SameTo(a, b, i, i) PROVE Exchanges(a, b, i + 1)
    BY <1>1, <1>2, <1>4 DEF SameTo, Exchanges
  <1>5. ASSUME Exchanges(a, b, i), a[i + 1] = b[i + 1] PROVE Exchanges(a, b, i + 1)
    <2>1. PICK p \in 0..i : \A k \in 1..i : k # p => a[k] = b[k]
      BY <1>5 DEF Exchanges
    <2>2. p \in 0..(i + 1) /\ \A k \in 1..(i + 1) : k # p => a[k] = b[k]
      BY <1>1, <1>5, <2>1
    <2> QED BY <2>2 DEF Exchanges
  <1> QED BY <1>3, <1>4, <1>5

LEMMA SkipsNext ==
    ASSUME NEW a, NEW b, NEW j \in Nat
    PROVE  Skips(a, b, j + 1) <=>
             SameTo(a, b, j + 1, j + 1) \/ (Skips(a, b, j) /\ a[j + 2] = b[j + 1])
  <1>1. \A k \in 1..(j + 1) : k \in 1..j \/ k = j + 1
    OBVIOUS
  <1>2. /\ j + 1 \in 1..(j + 1) /\ j + 2 \in 1..((j + 1) + 1) /\ (j + 1) + 1 = j + 2
        /\ \A k \in 1..j : k \in 1..(j + 1)
        /\ \A k \in 1..(j + 1) : k < j + 2
    OBVIOUS
  <1>3. ASSUME Skips(a, b, j + 1)
        PROVE  SameTo(a, b, j + 1, j + 1) \/ (Skips(a, b, j) /\ a[j + 2] = b[j + 1])
    <2>1. PICK p \in 1..((j + 1) + 1) : \A k \in 1..(j + 1) : b[k] = IF k < p THEN a[k] ELSE a[k + 1]
      BY <1>3 DEF Skips
    <2>2. CASE p = j + 2
      BY <1>2, <2>1, <2>2 DEF SameTo
    <2>3. CASE p # j + 2
      <3>1. p \in 1..(j + 1) /\ ~(j + 1 < p)
        BY <2>3
      <3>2. \A k \in 1..j : b[k] = IF k < p THEN a[k] ELSE a[k + 1]
        BY <1>2, <2>1
      <3>3. b[j + 1] = a[(j + 1) + 1]
        BY <1>2, <2>1, <3>1
      <3> QED BY <1>2, <3>1, <3>2, <3>3 DEF Skips
    <2> QED BY <2>2, <2>3
  <1>4. ASSUME SameTo(a, b, j + 1, j + 1) PROVE Skips(a, b, j + 1)
    <2>1. \A k \in 1..(j + 1) : b[k] = IF k < j + 2 THEN a[k] ELSE a[k + 1]
      BY <1>2, <1>4 DEF SameTo
    <2> QED BY <1>2, <2>1 DEF Skips
  <1>5. ASSUME Skips(a, b, j), a[j + 2] = b[j + 1] PROVE Skips(a, b, j + 1)
    <2>1. PICK p \in 1..(j + 1) : \A k \in 1..j : b[k] = IF k < p THEN a[k] ELSE a[k + 1]
      BY <1>5 DEF Skips
    <2>2. p \in 1..((j + 1) + 1) /\ ~(j + 1 < p)
      OBVIOUS
    <2>3. \A k \in 1..(j + 1) : b[k] = IF k < p THEN a[k] ELSE a[k + 1]
      BY <1>1, <1>2, <1>5, <2>1, <2>2
    <2> QED BY <2>2, <2>3 DEF Skips
  <1> QED BY <1>3, <1>4, <1>5

NearStepwise(a, b, i, j) ==
    Near(a, b, i, j) <=>
      \/ SameTo(a, b, i - 1, j) \/ SameTo(a, b, i, j - 1) \/ SameTo(a, b, i - 1, j - 1)
      \/ Near(a, b, i - 1, j - 1) /\ a[i] = b[j]

LEMMA NearNext ==
    ASSUME NEW a, NEW b, NEW i \in Nat \ {0}, NEW j \in Nat \ {0}
    PROVE  NearStepwise(a, b, i, j)
  <1>1. /\ i - 1 \in Nat /\ j - 1 \in Nat /\ (i - 1) + 1 = i /\ (j - 1) + 1 = j
        /\ (i - 1) + 2 = i + 1 /\ (j - 1) + 2 = j + 1
    OBVIOUS
  <1>2. CASE i = j
    <2>1. Exchanges(a, b, i) <=> SameTo(a, b, i - 1, i - 1) \/ (Exchanges(a, b, i - 1) /\ a[i] = b[i])
      BY <1>1, ExchangesNext
    <2>2. i - 1 # j /\ i # j - 1 /\ i - 1 = j - 1 /\ i # j + 1 /\ j # i + 1
          /\ i - 1 # (j - 1) + 1 /\ j - 1 # (i - 1) + 1
      BY <1>2
    <2> QED BY <1>2, <2>1, <2>2, Zenon DEF NearStepwise, Near, SameTo
  <1>3. CASE i = j + 1
    <2>1. Skips(a, b, j) <=> SameTo(a, b, j, j) \/ (Skips(a, b, j - 1) /\ a[j + 1] = b[j])
      BY <1>1, SkipsNext
    <2>2. i - 1 = j /\ i # j /\ i # j - 1 /\ i - 1 # j - 1 /\ j # i + 1
          /\ i - 1 = (j - 1) + 1 /\ j - 1 # (i - 1) + 1
      BY <1>3
    <2> QED BY <1>3, <2>1, <2>2, Zenon DEF NearStepwise, Near, SameTo
  <1>4. CASE j = i + 1
    <2>1. Skips(b, a, i) <=> SameTo(b, a, i, i) \/ (Skips(b, a, i - 1) /\ b[i + 1] = a[i])
      BY <1>1, SkipsNext
    <2>2. j - 1 = i /\ i # j /\ i - 1 # j /\ i - 1 # j - 1 /\ i # j + 1
          /\ j - 1 = (i - 1) + 1 /\ i - 1 # (j - 1) + 1
      BY <1>4
    <2> QED BY <1>4, <2>1, <2>2, Zenon DEF NearStepwise, Near, SameTo
  <1>5. CASE i # j /\ i # j + 1 /\ j # i + 1
    <2>1. i - 1 # j /\ i # j - 1 /\ i - 1 # j - 1
          /\ i - 1 # (j - 1) + 1 /\ j - 1 # (i - 1) + 1
      BY <1>5
    <2> QED BY <1>5, <2>1, Zenon DEF NearStepwise, Near, SameTo
  <1> QED BY <1>2, <1>3, <1>4, <1>5

(* Where both words end, the table says whether they are at most one edit  *)
(* apart.                                                                  *)
LEMMA NoEditInTable ==
    ASSUME NEW a, Len(a) \in Nat, NEW b, Len(b) \in Nat,
           NEW d, Bordered(d, a, b), Stepwise(d, a, b)
    PROVE  \A i \in 0..Len(a), j \in 0..Len(b) : d[i][j] = 0 <=> SameTo(a, b, i, j)
  <1> DEFINE m == Len(a)
             n == Len(b)
             T == {i \in Nat : i <= m => \A j \in 0..n : d[i][j] = 0 <=> SameTo(a, b, i, j)}
  <1>1. /\ m \in Nat /\ n \in Nat
        /\ \A i \in 0..m : d[i][0] = i
        /\ \A j \in 0..n : d[0][j] = j
        /\ \A i \in 1..m, j \in 1..n : d[i][j] = 0 <=> d[i - 1][j - 1] = 0 /\ a[i] = b[j]
    BY DEF Bordered, Stepwise
  <1> HIDE DEF m, n
  <1>2. 0 \in T
    BY <1>1 DEF SameTo
  <1>3. ASSUME NEW i \in Nat, i \in T PROVE i + 1 \in T
    <2> SUFFICES ASSUME i + 1 <= m, NEW j \in 0..n
                 PROVE  d[i + 1][j] = 0 <=> SameTo(a, b, i + 1, j)
      OBVIOUS
    <2>1. i + 1 \in 0..m /\ i + 1 \in 1..m /\ (i + 1) - 1 = i /\ i <= m
      BY <1>1
    <2>2. CASE j = 0
      BY <1>1, <2>1, <2>2 DEF SameTo
    <2>3. CASE j # 0
      <3>1. j \in 1..n /\ j - 1 \in 0..n
        BY <1>1, <2>3
      <3>2. d[i + 1][j] = 0 <=> d[i][j - 1] = 0 /\ a[i + 1] = b[j]
        BY <1>1, <2>1, <3>1
      <3>3. d[i][j - 1] = 0 <=> SameTo(a, b, i, j - 1)
        BY <1>3, <2>1, <3>1
      <3>4. i = j - 1 <=> i + 1 = j
        BY <1>1
      <3>5. (\A k \in 1..(i + 1) : a[k] = b[k]) <=> (\A k \in 1..i : a[k] = b[k]) /\ a[i + 1] = b[i + 1]
        <4>1. \A k \in 1..(i + 1) : k \in 1..i \/ k = i + 1
          OBVIOUS
        <4>2. i + 1 \in 1..(i + 1) /\ \A k \in 1..i : k \in 1..(i + 1)
          OBVIOUS
        <4> QED BY <4>1, <4>2
      <3> QED BY <3>2, <3>3, <3>4, <3>5 DEF SameTo
    <2> QED BY <2>2, <2>3
  <1>4. Nat \subseteq T
    <2> HIDE DEF T
    <2> QED BY <1>2, <1>3, ByInduction
  <1>5. \A i \in 0..m : i \in Nat /\ i <= m
    BY <1>1
  <1> QED BY <1>4, <1>5 DEF m, n

LEMMA OneEditInTable ==
    ASSUME NEW a, Len(a) \in Nat, NEW b, Len(b) \in Nat,
           NEW d, Bordered(d, a, b), Stepwise(d, a, b)
    PROVE  \A i \in 0..Len(a), j \in 0..Len(b) : d[i][j] <= 1 <=> Near(a, b, i, j)
  <1> DEFINE m == Len(a)
             n == Len(b)
             T == {i \in Nat : i <= m => \A j \in 0..n : d[i][j] <= 1 <=> Near(a, b, i, j)}
  <1>1. /\ m \in Nat /\ n \in Nat
        /\ \A i \in 0..m : d[i][0] = i
        /\ \A j \in 0..n : d[0][j] = j
        /\ \A i \in 1..m, j \in 1..n :
             d[i][j] <= 1 <=> \/ d[i - 1][j] = 0 \/ d[i][j - 1] = 0 \/ d[i - 1][j - 1] = 0
                              \/ d[i - 1][j - 1] <= 1 /\ a[i] = b[j]
        /\ \A i \in 0..m, j \in 0..n : d[i][j] = 0 <=> SameTo(a, b, i, j)
    BY NoEditInTable DEF Bordered, Stepwise
  <1> HIDE DEF m, n
  <1>2. /\ Exchanges(a, b, 0) /\ Skips(a, b, 0) /\ Skips(b, a, 0)
    BY DEF Exchanges, Skips
  <1>3. 0 \in T
    <2>1. ASSUME NEW j \in 0..n PROVE d[0][j] <= 1 <=> Near(a, b, 0, j)
      <3>1. d[0][j] = j /\ j \in Nat
        BY <1>1
      <3> QED BY <1>2, <3>1 DEF Near
    <2> QED BY <2>1
  <1>4. ASSUME NEW i \in Nat, i \in T PROVE i + 1 \in T
    <2> SUFFICES ASSUME i + 1 <= m, NEW j \in 0..n
                 PROVE  d[i + 1][j] <= 1 <=> Near(a, b, i + 1, j)
      OBVIOUS
    <2>1. i \in 0..m /\ i + 1 \in 0..m /\ i + 1 \in 1..m /\ (i + 1) - 1 = i /\ i <= m
      BY <1>1
    <2>2. CASE j = 0
      <3>1. d[i + 1][j] = i + 1
        BY <1>1, <2>1, <2>2
      <3>2. i + 1 <= 1 <=> i = 0
        OBVIOUS
      <3> QED BY <1>2, <2>2, <3>1, <3>2 DEF Near
    <2>3. CASE j # 0
      <3>1. j \in 1..n /\ j - 1 \in 0..n /\ j \in Nat \ {0} /\ i + 1 \in Nat \ {0}
        BY <1>1, <2>3
      <3>2. d[i + 1][j] <= 1 <=> \/ d[i][j] = 0 \/ d[i + 1][j - 1] = 0 \/ d[i][j - 1] = 0
                                 \/ d[i][j - 1] <= 1 /\ a[i + 1] = b[j]
        BY <1>1, <2>1, <3>1
      <3>3. /\ d[i][j] = 0 <=> SameTo(a, b, i, j)
            /\ d[i + 1][j - 1] = 0 <=> SameTo(a, b, i + 1, j - 1)
            /\ d[i][j - 1] = 0 <=> SameTo(a, b, i, j - 1)
        BY <1>1, <2>1, <3>1
      <3>4. d[i][j - 1] <= 1 <=> Near(a, b, i, j - 1)
        BY <1>4, <2>1, <3>1
      <3>5. Near(a, b, i + 1, j) <=>
              \/ SameTo(a, b, i, j) \/ SameTo(a, b, i + 1, j - 1) \/ SameTo(a, b, i, j - 1)
              \/ Near(a, b, i, j - 1) /\ a[i + 1] = b[j]
        <4> DEFINE e == i + 1
        <4>1. e - 1 = i /\ e \in Nat \ {0}
          BY <2>1, <3>1
        <4> HIDE DEF e
        <4>2. NearStepwise(a, b, e, j)
          BY <3>1, <4>1, NearNext
        <4> QED BY <4>1, <4>2, Zenon DEF NearStepwise, e
      <3> QED BY <3>2, <3>3, <3>4, <3>5, Zenon
    <2> QED BY <2>2, <2>3
  <1>5. Nat \subseteq T
    <2> HIDE DEF T
    <2> QED BY <1>3, <1>4, ByInduction
  <1>6. \A i \in 0..m : i \in Nat /\ i <= m
    BY <1>1
  <1> QED BY <1>5, <1>6 DEF m, n

(* One word skips a letter of the other if that letter removed leaves it.  *)
LEMMA SkipsRemoves ==
    ASSUME NEW S, NEW a \in Seq(S), NEW T, NEW b \in Seq(T)
    PROVE  (Len(a) = Len(b) + 1 /\ Skips(a, b, Len(b))) <=> \E p \in DOMAIN a : RemoveAt(a, p) = b
  <1>1. Len(a) \in Nat /\ Len(b) \in Nat /\ DOMAIN a = 1..Len(a)
    OBVIOUS
  <1>2. ASSUME NEW p \in 1..Len(a), RemoveAt(a, p) = b
        PROVE  Len(a) = Len(b) + 1 /\ Skips(a, b, Len(b))
    <2>1. /\ Len(b) = Len(a) - 1
          /\ \A k \in 1..(Len(a) - 1) : b[k] = IF k < p THEN a[k] ELSE a[k + 1]
      BY <1>2, RemovalIs
    <2>2. Len(a) = Len(b) + 1
      BY <1>1, <2>1
    <2> QED BY <2>1, <2>2 DEF Skips
  <1>3. ASSUME Len(a) = Len(b) + 1, Skips(a, b, Len(b))
        PROVE  \E p \in DOMAIN a : RemoveAt(a, p) = b
    <2>1. PICK p \in 1..Len(a) : \A k \in 1..Len(b) : b[k] = IF k < p THEN a[k] ELSE a[k + 1]
      BY <1>3 DEF Skips
    <2> DEFINE r == RemoveAt(a, p)
    <2>2. Len(a) - 1 = Len(b)
      BY <1>1, <1>3
    <2>3. r \in Seq(S) /\ Len(r) = Len(b) /\ \A k \in 1..Len(b) : r[k] = IF k < p THEN a[k] ELSE a[k + 1]
      BY <2>2, RemovalIs
    <2> HIDE DEF r
    <2>4. r = b
      BY <2>1, <2>3, SameElements
    <2> QED BY <1>1, <2>4 DEF r
  <1> QED BY <1>1, <1>2, <1>3

LEMMA ExchangesRemoves ==
    ASSUME NEW S, NEW a \in Seq(S), NEW T, NEW b \in Seq(T), Len(a) = Len(b)
    PROVE  Exchanges(a, b, Len(a)) <=> a = b \/ \E p \in DOMAIN a : RemoveAt(a, p) = RemoveAt(b, p)
  <1> DEFINE n == Len(a)
  <1>1. n \in Nat /\ DOMAIN a = 1..n
    OBVIOUS
  <1>2. ASSUME NEW p \in 1..n
        PROVE  RemoveAt(a, p) = RemoveAt(b, p) <=> \A k \in 1..n : k # p => a[k] = b[k]
    <2> DEFINE u == RemoveAt(a, p)
               v == RemoveAt(b, p)
    <2>1. /\ u \in Seq(S) /\ Len(u) = n - 1
          /\ \A k \in 1..(n - 1) : u[k] = IF k < p THEN a[k] ELSE a[k + 1]
      BY RemovalIs
    <2>2. /\ v \in Seq(T) /\ Len(v) = n - 1
          /\ \A k \in 1..(n - 1) : v[k] = IF k < p THEN b[k] ELSE b[k + 1]
      BY RemovalIs
    <2> HIDE DEF u, v, n
    <2>3. ASSUME u = v, NEW k \in 1..n, k # p PROVE a[k] = b[k]
      <3>1. CASE k < p
        <4>1. k \in 1..(n - 1)
          BY <1>1, <3>1
        <4> QED BY <2>1, <2>2, <2>3, <3>1, <4>1
      <3>2. CASE ~(k < p)
        <4>1. k - 1 \in 1..(n - 1) /\ ~(k - 1 < p) /\ (k - 1) + 1 = k
          BY <1>1, <2>3, <3>2
        <4> QED BY <2>1, <2>2, <2>3, <4>1
      <3> QED BY <3>1, <3>2
    <2>4. ASSUME \A k \in 1..n : k # p => a[k] = b[k] PROVE u = v
      <3>1. ASSUME NEW k \in 1..(n - 1) PROVE u[k] = v[k]
        <4>1. /\ k \in 1..n /\ k + 1 \in 1..n
              /\ (k < p => k # p) /\ (~(k < p) => k + 1 # p)
          BY <1>1
        <4> QED BY <2>1, <2>2, <2>4, <4>1
      <3> QED BY <2>1, <2>2, <3>1, SameElements
    <2> QED BY <2>3, <2>4 DEF u, v
  <1>3. a = b <=> \A k \in 1..n : a[k] = b[k]
    <2>1. (\A k \in 1..n : a[k] = b[k]) => a = b
      BY SameElements
    <2> QED BY <2>1
  <1>4. Exchanges(a, b, n) <=> \/ \A k \in 1..n : a[k] = b[k]
                               \/ \E p \in 1..n : \A k \in 1..n : k # p => a[k] = b[k]
    <2>1. \A p \in 0..n : p = 0 \/ p \in 1..n
      BY <1>1
    <2>2. 0 \in 0..n /\ \A p \in 1..n : p \in 0..n /\ p # 0
      BY <1>1
    <2> QED BY <2>1, <2>2 DEF Exchanges
  <1> HIDE DEF n
  <1> QED BY <1>1, <1>2, <1>3, <1>4 DEF n

(* What a fuzzy clause asks: that the words are at most one edit apart.    *)
LEMMA DistanceIsOneEdit ==
    ASSUME NEW S, NEW a \in Seq(S), NEW T, NEW b \in Seq(T)
    PROVE  Distance(a, b) <= 1 <=> OneEdit(a, b)
  <1>1. Len(a) \in Nat /\ Len(b) \in Nat
    OBVIOUS
  <1>2. PICK d : IsTable(d, a, b) /\ Distance(a, b) = d[Len(a)][Len(b)]
    BY <1>1, DistanceTable
  <1>3. Bordered(d, a, b) /\ Stepwise(d, a, b)
    BY <1>1, <1>2, TableEntries
  <1>4. \A i \in 0..Len(a), j \in 0..Len(b) : d[i][j] <= 1 <=> Near(a, b, i, j)
    BY <1>1, <1>3, OneEditInTable
  <1>5. Distance(a, b) <= 1 <=> Near(a, b, Len(a), Len(b))
    BY <1>1, <1>2, <1>4
  <1>6. (Len(a) = Len(b) + 1 /\ Skips(a, b, Len(b))) <=> \E p \in DOMAIN a : RemoveAt(a, p) = b
    BY SkipsRemoves
  <1>7. (Len(b) = Len(a) + 1 /\ Skips(b, a, Len(a))) <=> \E p \in DOMAIN b : RemoveAt(b, p) = a
    BY SkipsRemoves
  <1>8. Len(a) = Len(b) => (Exchanges(a, b, Len(a)) <=>
                              a = b \/ \E p \in DOMAIN a : RemoveAt(a, p) = RemoveAt(b, p))
    BY ExchangesRemoves
  <1>9. a = b => Len(a) = Len(b)
    OBVIOUS
  <1> QED BY <1>5, <1>6, <1>7, <1>8, <1>9, Zenon DEF Near, OneEdit

-----------------------------------------------------------------------------
(* What a text clause finds, in terms of the words of the text: each of    *)
(* its own tokens is asked for, and in a phrase the places follow.         *)
Places(kind, word, has) ==
    {j - 1 : j \in {k \in DOMAIN has : \E m \in Means(has[k]) : Asked(kind, word, m)}}

Fits(kind, ask, has) ==
    /\ ask # <<>>
    /\ \A i \in DOMAIN ask : \E j \in DOMAIN has : \E m \in Means(has[j]) : Asked(kind, ask[i].term, m)
    /\ kind = "phrase" => Consecutive([i \in DOMAIN ask |-> Places(kind, ask[i].term, has)])

LEMMA FindsIs ==
    ASSUME NEW value, NEW text, text \in Seq(ToSet(text)), NEW kind,
           NEW ask, ask = Analyze(value), NEW has, has = Words(text)
    PROVE  TextMatch([kind |-> kind, value |-> value], [text |-> text], 1).ok <=> Fits(kind, ask, has)
  <1> DEFINE c == [kind |-> kind, value |-> value]
             doc == [text |-> text]
             tokens == Analyze(text)
             Group(i) == {tokens[n].position : n \in Occurrences(tokens, kind, ask[i].term)}
             found == [i \in DOMAIN ask |-> Occurrences(tokens, kind, ask[i].term)]
             groups == [i \in DOMAIN ask |-> {tokens[n].position : n \in found[i]}]
             score == FoldLeft(+, 0, [i \in DOMAIN ask |-> Weight(Cardinality(found[i]), Len(tokens), 1)])
             matched == [ok |-> TRUE, score |-> score]
  <1>1. c.kind = kind /\ c.value = value /\ doc.text = text
    OBVIOUS
  <1> HIDE DEF c, doc
  <1>2. TextMatch(c, doc, 1) =
          IF ask = <<>> \/ {} \in ToSet(groups) THEN NoMatch
          ELSE IF kind = "phrase" /\ ~Consecutive(groups) THEN NoMatch ELSE matched
    BY <1>1, Zenon DEF TextMatch
  <1>3. groups = [i \in DOMAIN ask |-> Group(i)]
    OBVIOUS
  <1>4. matched.ok = TRUE
    OBVIOUS
  <1> HIDE DEF matched, groups, found
  <1>5. NoMatch.ok = FALSE
    BY DEF NoMatch
  <1>6. TextMatch(c, doc, 1).ok <=> /\ ask # <<>> /\ {} \notin ToSet(groups)
                                    /\ kind = "phrase" => Consecutive(groups)
    BY <1>2, <1>4, <1>5
  <1>7. ASSUME NEW i \in DOMAIN ask PROVE Group(i) = Places(kind, ask[i].term, has)
    <2> DEFINE w == ask[i].term
    <2>1. /\ \A n \in DOMAIN tokens : \E j \in DOMAIN has :
               tokens[n].term \in Means(has[j]) /\ tokens[n].position = j - 1
          /\ \A j \in DOMAIN has : \A m \in Means(has[j]) : \E n \in DOMAIN tokens :
               tokens[n].term = m /\ tokens[n].position = j - 1
      BY TokensAre
    <2> HIDE DEF tokens, w
    <2>2. ASSUME NEW n \in Occurrences(tokens, kind, w)
          PROVE  tokens[n].position \in Places(kind, w, has)
      <3>1. n \in DOMAIN tokens /\ Asked(kind, w, tokens[n].term)
        BY DEF Occurrences
      <3>2. PICK j \in DOMAIN has : tokens[n].term \in Means(has[j]) /\ tokens[n].position = j - 1
        BY <2>1, <3>1
      <3> QED BY <3>1, <3>2 DEF Places
    <2>3. ASSUME NEW p \in Places(kind, w, has)
          PROVE  \E n \in Occurrences(tokens, kind, w) : p = tokens[n].position
      <3>1. PICK j \in DOMAIN has : p = j - 1 /\ \E m \in Means(has[j]) : Asked(kind, w, m)
        BY DEF Places
      <3>2. PICK m \in Means(has[j]) : Asked(kind, w, m)
        BY <3>1
      <3>3. PICK n \in DOMAIN tokens : tokens[n].term = m /\ tokens[n].position = j - 1
        BY <2>1
      <3> QED BY <3>1, <3>2, <3>3 DEF Occurrences
    <2> QED BY <2>2, <2>3 DEF w
  <1> HIDE DEF Group
  <1>8. groups = [i \in DOMAIN ask |-> Places(kind, ask[i].term, has)]
    BY <1>3, <1>7
  <1>9. ASSUME NEW word
        PROVE  Places(kind, word, has) = {} <=>
                 ~\E j \in DOMAIN has : \E m \in Means(has[j]) : Asked(kind, word, m)
    BY DEF Places
  <1>10. {} \in ToSet(groups) <=> \E i \in DOMAIN ask : Places(kind, ask[i].term, has) = {}
    BY <1>8 DEF ToSet
  <1>11. TextMatch(c, doc, 1).ok <=> Fits(kind, ask, has)
    BY <1>6, <1>8, <1>9, <1>10 DEF Fits
  <1> QED BY <1>11 DEF c, doc

(* A phrase of words without synonyms is found where they follow.          *)
Follows(asks, has) ==
    \E k \in 0..(Len(has) - Len(asks)) : \A i \in DOMAIN asks : asks[i] \in Means(has[k + i])

LEMMA PhraseFollows ==
    ASSUME NEW asks, NEW n \in Nat \ {0}, DOMAIN asks = 1..n, Len(asks) = n,
           NEW ask, DOMAIN ask = 1..n, \A i \in 1..n : ask[i].term = asks[i],
           NEW has, Len(has) \in Nat, DOMAIN has = 1..Len(has)
    PROVE  Fits("phrase", ask, has) <=> Follows(asks, has)
  <1> DEFINE l == Len(has)
             G == [i \in DOMAIN ask |-> Places("phrase", ask[i].term, has)]
  <1>1. l \in Nat /\ n \in Nat /\ n >= 1 /\ 1 \in 1..n
    OBVIOUS
  <1>2. \A word, m : Asked("phrase", word, m) <=> m = word
    BY DEF Asked
  <1>3. ASSUME NEW i \in 1..n, NEW p
        PROVE  p \in G[i] <=> \E j \in 1..l : p = j - 1 /\ asks[i] \in Means(has[j])
    <2>1. G[i] = Places("phrase", asks[i], has)
      OBVIOUS
    <2>2. \A j : (\E m \in Means(has[j]) : Asked("phrase", asks[i], m)) <=> asks[i] \in Means(has[j])
      BY <1>2
    <2>3. p \in Places("phrase", asks[i], has) <=>
            \E j \in 1..l : p = j - 1 /\ \E m \in Means(has[j]) : Asked("phrase", asks[i], m)
      BY DEF Places
    <2> HIDE DEF G
    <2> QED BY <2>1, <2>2, <2>3
  <1>4. DOMAIN G = 1..n /\ Len(G) = n
    BY <1>1
  <1>5. Fits("phrase", ask, has) <=>
          /\ \A i \in 1..n : \E j \in 1..l : asks[i] \in Means(has[j])
          /\ Consecutive(G)
    <2>1. \A j : \A i \in 1..n : (\E m \in Means(has[j]) : Asked("phrase", ask[i].term, m))
                             <=> asks[i] \in Means(has[j])
      BY <1>2
    <2> HIDE DEF G
    <2>2. Fits("phrase", ask, has) <=>
            /\ \A i \in 1..n : \E j \in 1..l : \E m \in Means(has[j]) : Asked("phrase", ask[i].term, m)
            /\ Consecutive(G)
      <3>1. ask # <<>>
        BY <1>1
      <3> QED BY <3>1, Zenon DEF Fits, G
    <2> QED BY <2>1, <2>2, Zenon
  <1> HIDE DEF G, l
  <1>6. Consecutive(G) <=> (n >= 2 => \E p \in G[1] : \A i \in 2..n : p + i - 1 \in G[i])
    BY <1>4 DEF Consecutive
  <1>7. ASSUME Fits("phrase", ask, has)
        PROVE  \E k \in 0..(l - n) : \A i \in 1..n : asks[i] \in Means(has[k + i])
    <2>1. CASE n = 1
      <3>1. PICK j \in 1..l : asks[1] \in Means(has[j])
        BY <1>1, <1>5, <1>7
      <3>2. j - 1 \in 0..(l - n) /\ (j - 1) + 1 = j /\ \A i \in 1..n : i = 1
        BY <1>1, <2>1
      <3>3. \A i \in 1..n : asks[i] \in Means(has[(j - 1) + i])
        BY <3>1, <3>2
      <3> QED BY <3>2, <3>3, Zenon
    <2>2. CASE n # 1
      <3>1. n >= 2 /\ n \in 2..n
        BY <1>1, <2>2
      <3>2. PICK p \in G[1] : \A i \in 2..n : p + i - 1 \in G[i]
        BY <1>5, <1>6, <1>7, <3>1
      <3>3. PICK j \in 1..l : p = j - 1 /\ asks[1] \in Means(has[j])
        BY <1>1, <1>3
      <3>4. p \in Nat
        BY <1>1, <3>3
      <3>5. ASSUME NEW i \in 1..n PROVE p + i \in 1..l /\ asks[i] \in Means(has[p + i])
        <4>1. CASE i = 1
          BY <1>1, <3>3, <4>1
        <4>2. CASE i # 1
          <5>1. i \in 2..n
            BY <1>1, <4>2
          <5>2. PICK q \in 1..l : p + i - 1 = q - 1 /\ asks[i] \in Means(has[q])
            BY <1>3, <3>2, <5>1
          <5>3. q = p + i
            BY <1>1, <3>4, <5>2
          <5> QED BY <5>2, <5>3
        <4> QED BY <4>1, <4>2
      <3>6. p + n \in 1..l
        BY <1>1, <3>1, <3>5
      <3>7. p \in 0..(l - n)
        BY <1>1, <3>4, <3>6
      <3> QED BY <3>5, <3>7
    <2> QED BY <2>1, <2>2
  <1>8. ASSUME NEW k \in 0..(l - n), \A i \in 1..n : asks[i] \in Means(has[k + i])
        PROVE  Fits("phrase", ask, has)
    <2>1. \A i \in 1..n : k + i \in 1..l /\ k + i - 1 = (k + i) - 1
      BY <1>1
    <2>2. \A i \in 1..n : k + i - 1 \in G[i]
      BY <1>3, <1>8, <2>1
    <2>3. k + 1 - 1 = k /\ \A i \in 2..n : i \in 1..n
      BY <1>1
    <2>4. k \in G[1]
      BY <1>1, <2>2, <2>3
    <2>5. Consecutive(G)
      BY <1>6, <2>2, <2>3, <2>4
    <2> QED BY <1>5, <1>8, <2>1, <2>5
  <1> QED BY <1>7, <1>8 DEF l, Follows

LEMMA PrefixOfItself ==
    ASSUME NEW S, NEW w \in Seq(S)
    PROVE  IsPrefix(w, w) /\ OneEdit(w, w)
  BY DEF IsPrefix, OneEdit

(* The kinds of text clauses mean what they say, of every text.            *)
LEMMA KindsOfClause ==
    ASSUME NEW value, value \in Seq(ToSet(value)), NEW text, text \in Seq(ToSet(text)),
           NEW ask, ask = Analyze(value), NEW asks, asks = Words(value), NEW has, has = Words(text)
    PROVE  /\ (asks # <<>> /\ \A i \in DOMAIN asks : SynonymsOf(asks[i]) = <<>>)
                => /\ Fits("phrase", ask, has) <=>
                        \E k \in 0..(Len(has) - Len(asks)) :
                          \A i \in DOMAIN asks : asks[i] \in Means(has[k + i])
                   /\ Fits("fuzzy", ask, has) <=>
                        \A i \in DOMAIN asks : \E j \in DOMAIN has :
                          \E w \in Means(has[j]) : OneEdit(w, asks[i])
           /\ Fits("phrase", ask, has) => Fits("match", ask, has)
           /\ Fits("match", ask, has) => Fits("prefix", ask, has) /\ Fits("fuzzy", ask, has)
  <1>1. /\ Len(asks) \in Nat /\ DOMAIN asks = 1..Len(asks)
        /\ \A n \in DOMAIN ask : \E j \in DOMAIN asks : ask[n].term \in Means(asks[j])
        /\ \A j \in DOMAIN asks : \A m \in Means(asks[j]) : m \in Seq(ToSet(m))
        /\ (\A j \in DOMAIN asks : SynonymsOf(asks[j]) = <<>>)
             => DOMAIN ask = DOMAIN asks /\ \A j \in DOMAIN asks : ask[j].term = asks[j]
    BY TokensAre
  <1>2. /\ Len(has) \in Nat /\ DOMAIN has = 1..Len(has)
        /\ \A j \in DOMAIN has : \A m \in Means(has[j]) : m \in Seq(ToSet(m))
    BY TokensAre
  <1>3. \A n \in DOMAIN ask : ask[n].term \in Seq(ToSet(ask[n].term))
    BY <1>1
  <1>4. \A j \in DOMAIN asks : asks[j] \in Seq(ToSet(asks[j]))
    BY <1>1 DEF Means
  <1>5. \A w, m : /\ Asked("phrase", w, m) <=> m = w
                  /\ Asked("match", w, m) <=> m = w
                  /\ Asked("prefix", w, m) <=> IsPrefix(w, m)
                  /\ Asked("fuzzy", w, m) <=> Distance(m, w) <= 1
    BY DEF Asked
  <1>6. ASSUME NEW w, w \in Seq(ToSet(w)), NEW j \in DOMAIN has, NEW m \in Means(has[j])
        PROVE  Asked("fuzzy", w, m) <=> OneEdit(m, w)
    <2>1. m \in Seq(ToSet(m))
      BY <1>2
    <2>2. Distance(m, w) <= 1 <=> OneEdit(m, w)
      BY <1>6, <2>1, DistanceIsOneEdit
    <2> QED BY <1>5, <2>2
  <1>7. ASSUME asks # <<>>, \A i \in DOMAIN asks : SynonymsOf(asks[i]) = <<>>
        PROVE  /\ ask # <<>> /\ DOMAIN ask = DOMAIN asks
               /\ \A j \in DOMAIN asks : ask[j].term = asks[j]
               /\ Len(asks) \in Nat \ {0}
    <2>1. asks = [i \in DOMAIN asks |-> asks[i]]
      BY DEF Words
    <2>2. Len(asks) \in Nat \ {0}
      <3> SUFFICES ASSUME Len(asks) = 0 PROVE FALSE
        BY <1>1
      <3>1. DOMAIN asks = {}
        BY <1>1
      <3>2. asks = <<>>
        BY <2>1, <3>1
      <3> QED BY <1>7, <3>2
    <2>3. DOMAIN ask = DOMAIN asks /\ \A j \in DOMAIN asks : ask[j].term = asks[j]
      BY <1>1, <1>7
    <2>4. 1 \in DOMAIN ask
      BY <1>1, <2>2, <2>3
    <2> QED BY <2>2, <2>3, <2>4
  <1>8. ASSUME asks # <<>>, \A i \in DOMAIN asks : SynonymsOf(asks[i]) = <<>>
        PROVE  Fits("phrase", ask, has) <=>
                 \E k \in 0..(Len(has) - Len(asks)) :
                   \A i \in DOMAIN asks : asks[i] \in Means(has[k + i])
    <2> DEFINE n == Len(asks)
    <2>1. /\ n \in Nat \ {0} /\ DOMAIN asks = 1..n /\ DOMAIN ask = 1..n
          /\ \A i \in 1..n : ask[i].term = asks[i]
      BY <1>1, <1>7, <1>8
    <2>2. n = Len(asks)
      OBVIOUS
    <2> HIDE DEF n
    <2>3. Fits("phrase", ask, has) <=> Follows(asks, has)
      BY <1>2, <2>1, <2>2, PhraseFollows
    <2> QED BY <2>3, Zenon DEF Follows
  <1>9. ASSUME asks # <<>>, \A i \in DOMAIN asks : SynonymsOf(asks[i]) = <<>>
        PROVE  Fits("fuzzy", ask, has) <=>
                 \A i \in DOMAIN asks : \E j \in DOMAIN has :
                   \E w \in Means(has[j]) : OneEdit(w, asks[i])
    <2>1. /\ ask # <<>> /\ DOMAIN ask = DOMAIN asks
          /\ \A i \in DOMAIN asks : ask[i].term = asks[i]
      BY <1>7, <1>9
    <2>2. \A i \in DOMAIN asks, j \in DOMAIN has : \A m \in Means(has[j]) :
            Asked("fuzzy", ask[i].term, m) <=> OneEdit(m, asks[i])
      BY <1>4, <1>6, <2>1
    <2>3. "fuzzy" # "phrase"
      OBVIOUS
    <2> QED BY <2>1, <2>2, <2>3 DEF Fits
  <1>10. Fits("phrase", ask, has) => Fits("match", ask, has)
    <2>1. "match" # "phrase"
      OBVIOUS
    <2>2. \A w, m : Asked("phrase", w, m) <=> Asked("match", w, m)
      BY <1>5, Zenon
    <2> QED BY <2>1, <2>2, Zenon DEF Fits
  <1>11. ASSUME Fits("match", ask, has)
         PROVE  Fits("prefix", ask, has) /\ Fits("fuzzy", ask, has)
    <2>1. ask # <<>> /\ \A i \in DOMAIN ask : \E j \in DOMAIN has : ask[i].term \in Means(has[j])
      BY <1>5, <1>11 DEF Fits
    <2>2. ASSUME NEW i \in DOMAIN ask
          PROVE  \E j \in DOMAIN has : \E m \in Means(has[j]) :
                   Asked("prefix", ask[i].term, m) /\ Asked("fuzzy", ask[i].term, m)
      <3>1. PICK j \in DOMAIN has : ask[i].term \in Means(has[j])
        BY <2>1
      <3>2. IsPrefix(ask[i].term, ask[i].term) /\ OneEdit(ask[i].term, ask[i].term)
        BY <1>3, PrefixOfItself
      <3>3. Asked("prefix", ask[i].term, ask[i].term) /\ Asked("fuzzy", ask[i].term, ask[i].term)
        BY <1>3, <1>5, <1>6, <3>1, <3>2
      <3> QED BY <3>1, <3>3
    <2>3. "prefix" # "phrase" /\ "fuzzy" # "phrase"
      OBVIOUS
    <2> QED BY <2>1, <2>2, <2>3 DEF Fits
  <1> QED BY <1>8, <1>9, <1>10, <1>11

(* For every text and every text clause under way, whatever their length:  *)
(* a phrase without synonyms is found exactly where its words follow each  *)
(* other, a fuzzy clause exactly where words are within one edit, and a    *)
(* match implies a prefix and a fuzzy one (textMatch, consecutive,         *)
(* distance and Pipeline.Analyze).                                         *)
THEOREM ClausesMean == Spec => []KindsMean
  <1>1. TypeOK => KindsMean
    <2> SUFFICES ASSUME TypeOK, NEW c \in {e \in Clauses : e.kind \in TextKinds}, NEW text \in Texts
                 PROVE  LET Finds(kind) == TextMatch([kind |-> kind, value |-> c.value], [text |-> text], 1).ok
                            asks == Words(c.value)
                            has == Words(text)
                            plain == asks # <<>> /\ \A i \in DOMAIN asks : SynonymsOf(asks[i]) = <<>>
                            follow == \E k \in 0..(Len(has) - Len(asks)) :
                                        \A i \in DOMAIN asks : asks[i] \in Means(has[k + i])
                            near == \A i \in DOMAIN asks : \E j \in DOMAIN has :
                                      \E w \in Means(has[j]) : OneEdit(w, asks[i])
                        IN  /\ plain => (Finds("phrase") <=> follow)
                            /\ plain => (Finds("fuzzy") <=> near)
                            /\ Finds("phrase") => Finds("match")
                            /\ Finds("match") => Finds("prefix") /\ Finds("fuzzy")
      BY Zenon DEF KindsMean
    <2> DEFINE Finds(kind) == TextMatch([kind |-> kind, value |-> c.value], [text |-> text], 1).ok
               ask == Analyze(c.value)
               asks == Words(c.value)
               has == Words(text)
    <2>1. text \in Seq(ToSet(text))
      BY TextsAre
    <2>2. c.value \in Seq(ToSet(c.value))
      <3>1. asked # None /\ asked.request \in Requests /\ c.kind \in TextKinds
            /\ c \in {asked.request.query} \cup ToSet(asked.request.filters)
        BY DEF Clauses, TypeOK
      <3> QED BY <3>1, ShardsAssumption DEF ShardsAssumption
    <2>3. \A kind : Finds(kind) <=> Fits(kind, ask, has)
      BY <2>1, FindsIs
    <2> HIDE DEF Finds
    <2>4. /\ (asks # <<>> /\ \A i \in DOMAIN asks : SynonymsOf(asks[i]) = <<>>)
                => /\ Fits("phrase", ask, has) <=>
                        \E k \in 0..(Len(has) - Len(asks)) :
                          \A i \in DOMAIN asks : asks[i] \in Means(has[k + i])
                   /\ Fits("fuzzy", ask, has) <=>
                        \A i \in DOMAIN asks : \E j \in DOMAIN has :
                          \E w \in Means(has[j]) : OneEdit(w, asks[i])
          /\ Fits("phrase", ask, has) => Fits("match", ask, has)
          /\ Fits("match", ask, has) => Fits("prefix", ask, has) /\ Fits("fuzzy", ask, has)
      BY <2>1, <2>2, KindsOfClause
    <2> HIDE DEF ask, asks, has
    <2>5. /\ (asks # <<>> /\ \A i \in DOMAIN asks : SynonymsOf(asks[i]) = <<>>)
                => /\ Finds("phrase") <=>
                        \E k \in 0..(Len(has) - Len(asks)) :
                          \A i \in DOMAIN asks : asks[i] \in Means(has[k + i])
                   /\ Finds("fuzzy") <=>
                        \A i \in DOMAIN asks : \E j \in DOMAIN has :
                          \E w \in Means(has[j]) : OneEdit(w, asks[i])
          /\ Finds("phrase") => Finds("match")
          /\ Finds("match") => Finds("prefix") /\ Finds("fuzzy")
      BY <2>3, <2>4, Zenon
    <2> QED BY <2>5, Zenon DEF Finds, asks, has
  <1> QED BY <1>1, TypeCorrect, PTL
=============================================================================
