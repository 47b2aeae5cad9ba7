---------------------------- MODULE SearchProofs ----------------------------
(* A search answers for one moment, and the pages of a scan fit together,  *)
(* for every set of documents, every buffer limit, every page size and     *)
(* every number of writes and flushes while searches run.                  *)
EXTENDS Search, EngineProofs

(* The copies of the search in progress show what the collection was, and  *)
(* their generation is the number of segments that were copied.            *)
CopiesStand ==
    search # Nothing =>
      /\ search.sealed \in 0..Len(segments)
      /\ search.generation = search.sealed
      /\ Candidates = search.view

SearchInv == Safe /\ CopiesStand

(* What a search considers depends on the copies and on segments that were *)
(* there when they were taken.                                             *)
LEMMA CandidatesKept ==
    ASSUME TypeOK, CopiesStand, search # Nothing, UNCHANGED search,
           Len(segments) <= Len(segments'), segments' \in Seq(Segment),
           \A i \in 1..Len(segments) : segments'[i] = segments[i]
    PROVE  CopiesStand'
  <1> DEFINE H(id) == {i \in Holders(id) : i <= search.sealed}
  <1>1. /\ Len(segments) \in Nat /\ DOMAIN segments = 1..Len(segments)
        /\ Len(segments') \in Nat /\ DOMAIN segments' = 1..Len(segments')
        /\ search.sealed \in 0..Len(segments)
    BY DEF TypeOK, CopiesStand
  <1>2. \A id \in DocIds : H(id)' = H(id)
    BY <1>1 DEF Holders
  <1>3. \A id \in DocIds : \A i \in H(id) : i \in 1..Len(segments)
    BY <1>1 DEF Holders
  <1>4. ASSUME NEW id \in DocIds, H(id) # {}
        PROVE  segments'[Max(H(id))] = segments[Max(H(id))]
    <2>1. Max(H(id)) \in 1..Len(segments)
      <3>1. H(id) \subseteq 1..Len(segments)
        BY <1>3
      <3> HIDE DEF H
      <3> QED BY <1>1, <1>4, <3>1, LargestPosition
    <2> QED BY <2>1
  <1>5. Candidates' = Candidates
    <2>1. \A id \in DocIds : H(id)' # {} =>
            segments'[Max(H(id)')].docs[id] = segments[Max(H(id))].docs[id]
      BY <1>2, <1>4
    <2> QED BY <1>2, <2>1 DEF Candidates
  <1> QED BY <1>1, <1>5 DEF CopiesStand

(* A sequence that another one begins with agrees with it at each place.   *)
LEMMA BeginsWith ==
    ASSUME NEW S, NEW s \in Seq(S), NEW t \in Seq(S),
           Len(t) >= Len(s), SubSeq(t, 1, Len(s)) = s
    PROVE  \A i \in 1..Len(s) : t[i] = s[i]
  OBVIOUS

LEMMA CopyShows ==
    ASSUME Safe, Copy, UNCHANGED vars
    PROVE  CopiesStand'
  <1>1. /\ search'.sealed = Len(segments) /\ search'.buffer = mutable
        /\ search'.generation = generation /\ search'.view = View
    BY DEF Copy
  <1>2. /\ Len(segments) \in Nat /\ DOMAIN segments = 1..Len(segments)
        /\ generation = Len(segments)
    BY DEF Safe, TypeOK, SegmentsNumbered
  <1>3. \A id \in DocIds : {i \in Holders(id) : i <= Len(segments)} = Holders(id)
    BY <1>2 DEF Holders
  <1>4. /\ mutable' = mutable /\ segments' = segments
        /\ \A id \in DocIds : Holders(id)' = Holders(id)
    BY DEF vars, Holders
  <1>5. \A id \in DocIds : {i \in Holders(id)' : i <= search'.sealed} = Holders(id)
    BY <1>1, <1>3, <1>4
  <1>6. Candidates' = [id \in DocIds |->
                         IF mutable[id] # NoDoc THEN mutable[id]
                         ELSE IF Holders(id) = {} THEN NoDoc
                         ELSE segments[Max(Holders(id))].docs[id]]
    BY <1>1, <1>4, <1>5 DEF Candidates
  <1>7. Candidates' = View
    BY <1>6 DEF View, Newest, Sealed
  <1> QED BY <1>1, <1>2, <1>4, <1>7 DEF CopiesStand

LEMMA SearchInvKept ==
    ASSUME EngineAssumption, SearchInv, [SearchNext]_<<vars, searchVars>>
    PROVE  SearchInv'
  <1>1. CASE Write
    <2>1. Safe'
      BY <1>1, NextKeeps DEF SearchInv, Write
    <2>2. /\ Len(segments) <= Len(segments') /\ segments' \in Seq(Segment)
          /\ \A i \in 1..Len(segments) : segments'[i] = segments[i]
      <3>1. segments \in Seq(Segment) /\ segments' \in Seq(Segment)
        BY <2>1 DEF SearchInv, Safe, TypeOK
      <3>2. /\ Len(segments') >= Len(segments)
            /\ SubSeq(segments', 1, Len(segments)) = segments
        BY <1>1, StepsExtend DEF SearchInv, Safe, Write
      <3> QED BY <3>1, <3>2, BeginsWith
    <2>3. UNCHANGED search
      BY <1>1 DEF Write, searchVars
    <2>4. CopiesStand'
      BY <2>2, <2>3, CandidatesKept DEF SearchInv, Safe, CopiesStand
    <2> QED BY <2>1, <2>4 DEF SearchInv
  <1>2. ASSUME UNCHANGED vars PROVE Safe'
    BY <1>2 DEF SearchInv, Safe, TypeOK, SegmentsNumbered, LiveBufferBounded, Live,
                Present, vars
  <1>3. CASE Begin \/ Continue
    BY <1>2, <1>3, CopyShows DEF Begin, Continue, SearchInv
  <1>4. CASE Page \/ Refuse \/ Cancelled
    BY <1>2, <1>4 DEF Page, Refuse, Cancelled, Abandon, SearchInv, CopiesStand
  <1>5. CASE Expire \/ UNCHANGED <<vars, searchVars>>
    <2>1. UNCHANGED <<vars, search>>
      BY <1>5 DEF Expire, searchVars
    <2>2. CopiesStand'
      BY <2>1 DEF SearchInv, CopiesStand, Candidates, Holders, vars
    <2> QED BY <1>2, <2>1, <2>2 DEF SearchInv
  <1> QED BY <1>1, <1>3, <1>4, <1>5 DEF SearchNext

(* A search works with what the collection was when it held the lock, long *)
(* after it released it (Engine.Search).                                   *)
THEOREM SearchesAnswerForOneMoment == SearchSpec => []SearchesOneMoment
  <1>1. SearchInit => SearchInv
    BY SafeAtStart, EngineAssumption DEF SearchInit, SearchInv, CopiesStand
  <1>2. SearchInv /\ [SearchNext]_<<vars, searchVars>> => SearchInv'
    BY SearchInvKept, EngineAssumption
  <1>3. SearchInv => SearchesOneMoment
    BY DEF SearchInv, CopiesStand, SearchesOneMoment
  <1> QED BY <1>1, <1>2, <1>3, PTL DEF SearchSpec
-----------------------------------------------------------------------------
(* A scan has not begun, or its cursor, if there is one, comes from the    *)
(* last of its pages and from the one generation of all of them.           *)
CursorContinues ==
    /\ cursor = Nothing /\ search # Nothing =>
         scan.given = <<>> /\ scan.views = {} /\ scan.generations = {}
    /\ cursor # Nothing =>
         /\ scan.generations = {cursor.generation}
         /\ scan.views # {} /\ ~scan.done
         /\ scan.given # <<>> /\ Last(scan.given) = cursor.afterID
    /\ \A g, h \in scan.generations : g = h
    /\ IsFiniteSet(scan.views) /\ IsFiniteSet(scan.generations)

(* Pages that saw one collection add up to a beginning of its hits.        *)
Prefixed(s, t) == Len(s) <= Len(t) /\ \A i \in 1..Len(s) : s[i] = t[i]

PagesAddUp ==
    \A v \in scan.views : scan.views = {v} =>
      /\ Prefixed(scan.given, Hits(v))
      /\ scan.done => Len(scan.given) = Len(Hits(v))

(* Pages that saw several collections, whose hits go into one ranking,     *)
(* give the documents in the order of this ranking.                        *)
Ranking(rank) ==
    /\ rank \in [DocIds -> 1..Cardinality(DocIds)]
    /\ \A v \in scan.views : Ranks(rank, v)

GivenInOrder ==
    \A rank : Ranking(rank) =>
      \A i, j \in 1..Len(scan.given) : i < j => rank[scan.given[i]] < rank[scan.given[j]]

ScanInv ==
    /\ CursorContinues
    /\ PagesAddUp
    /\ scan.restarted \/ GivenInOrder

(* The hits of one view: every matching document once, in order.           *)
LEMMA HitsInOrder ==
    ASSUME NEW v \in DocMap
    PROVE  /\ Hits(v) \in Seq(Matching(v)) /\ DOMAIN Hits(v) = 1..Len(Hits(v))
           /\ \A i, j \in 1..Len(Hits(v)) : i < j => Better(v, Hits(v)[i], Hits(v)[j])
           /\ \A i, j \in 1..Len(Hits(v)) : Hits(v)[i] = Hits(v)[j] => i = j
  <1> DEFINE M == Matching(v)
             R == {p \in M \X M : Better(v, p[1], p[2])}
             n == Cardinality(M)
  <1>1. IsFiniteSet(M) /\ M \subseteq DocIds
    BY EngineAssumption, FS_Subset DEF Matching, EngineAssumption
  <1>2. \A a, b \in M : <<a, b>> \in R <=> Better(v, a, b)
    OBVIOUS
  <1>3. \A a \in M : Scored(v, a) \in Nat /\ a \in DocIds
    <2> DEFINE count == Cardinality({d \in DocIds : v[d] # NoDoc})
    <2>1. count \in 0..Cardinality(DocIds)
      <3>1. {d \in DocIds : v[d] # NoDoc} \subseteq DocIds /\ IsFiniteSet(DocIds)
        BY EngineAssumption DEF EngineAssumption
      <3> QED BY <3>1, FS_Subset, FS_CardinalityType
    <2>2. \A a \in M : a \in DocIds /\ v[a].body \in Bodies
      BY DEF Matching, DocMap, Doc
    <2> HIDE DEF count, M
    <2>3. \A a \in M : Score[count][v[a].body] \in Nat
      BY <2>1, <2>2, SearchAssumption DEF SearchAssumption
    <2> QED BY <2>2, <2>3 DEF Scored, count
  <1>4. Orders(R, M)
    <2> HIDE DEF R, M
    <2>1. \A a \in M : <<a, a>> \notin R
      BY <1>2, <1>3, SearchAssumption DEF SearchAssumption, Better
    <2>2. \A a, b, c \in M : <<a, b>> \in R /\ <<b, c>> \in R => <<a, c>> \in R
      <3>1. \A a, b, c \in M : Better(v, a, b) /\ Better(v, b, c) => Better(v, a, c)
        BY <1>3, SearchAssumption DEF SearchAssumption, Better
      <3> QED BY <1>2, <3>1
    <2>3. \A a, b \in M : a = b \/ <<a, b>> \in R \/ <<b, a>> \in R
      <3>1. \A a, b \in M : a = b \/ Better(v, a, b) \/ Better(v, b, a)
        BY <1>3, SearchAssumption DEF SearchAssumption, Better
      <3> QED BY <1>2, <3>1, Zenon
    <2> QED BY <2>1, <2>2, <2>3 DEF Orders
  <1> HIDE DEF R, M, n
  <1>5. \E s \in [1..n -> M] : \A i, j \in 1..n : i < j => Better(v, s[i], s[j])
    <2>1. PICK s \in [1..n -> M] : \A i, j \in 1..n : i < j => <<s[i], s[j]>> \in R
      BY <1>1, <1>4, OrderedListExists DEF n
    <2> QED BY <1>2, <2>1
  <1>6. /\ Hits(v) \in [1..n -> M]
        /\ \A i, j \in 1..n : i < j => Better(v, Hits(v)[i], Hits(v)[j])
    <2>1. Hits(v) = CHOOSE s \in [1..n -> M] :
                      \A i, j \in 1..n : i < j => Better(v, s[i], s[j])
      BY DEF Hits, InOrder, n, M
    <2> HIDE DEF Hits
    <2> QED BY <1>5, <2>1
  <1>7. \A i, j \in 1..n : i < j => <<Hits(v)[i], Hits(v)[j]>> \in R
    BY <1>2, <1>6
  <1>8. /\ Hits(v) \in Seq(M) /\ Len(Hits(v)) = n /\ DOMAIN Hits(v) = 1..Len(Hits(v))
        /\ \A i, j \in 1..Len(Hits(v)) : Hits(v)[i] = Hits(v)[j] => i = j
    BY <1>1, <1>4, <1>6, <1>7, OrderedListComplete DEF n
  <1> QED BY <1>6, <1>8 DEF M

(* What a page and its cursor are: hits k+1 to k+m, where hit k is the one *)
(* the cursor named, or k is 0.                                            *)
PageIs(k, m, page) ==
    LET hits == Hits(search.view)
    IN  /\ k + m <= Len(hits) /\ Len(page) = m
        /\ \A i \in 1..m : page[i] = hits[k + i]
        /\ cursor = Nothing => k = 0
        /\ cursor # Nothing /\ ~scan'.restarted => k > 0 /\ hits[k] = cursor.afterID
        /\ cursor # Nothing => \A i \in 1..Len(hits) : hits[i] = cursor.afterID => i = k
        /\ scan.restarted => scan'.restarted
        /\ scan' = [scan EXCEPT !.given = @ \o page,
                      !.views = @ \cup {search.view},
                      !.generations = @ \cup {search.generation},
                      !.done = (m < Size),
                      !.restarted = scan'.restarted]
        /\ m < Size => k + m = Len(hits) /\ cursor' = Nothing
        /\ m >= Size => /\ m > 0
                        /\ cursor' = [afterID |-> hits[k + m],
                                      generation |-> search.generation, expired |-> FALSE]

LEMMA PageShape ==
    ASSUME SearchTypeOK, CopiesStand, Page
    PROVE  \E k, m \in Nat : \E page \in Seq(DocIds) : PageIs(k, m, page)
  <1> DEFINE hits == Hits(search.view)
             at == {i \in DOMAIN hits : cursor # Nothing /\ hits[i] = cursor.afterID}
             rest == After(hits, cursor)
             m == Min({Size, Len(rest)})
             page == SubSeq(rest, 1, m)
  <1>1. /\ hits \in Seq(DocIds) /\ Len(hits) \in Nat /\ DOMAIN hits = 1..Len(hits)
        /\ \A i, j \in 1..Len(hits) : hits[i] = hits[j] => i = j
    <2>1. search.view \in DocMap
      BY DEF Page, SearchTypeOK
    <2>2. Matching(search.view) \subseteq DocIds
      BY DEF Matching
    <2> QED BY <2>1, <2>2, HitsInOrder
  <1>2. Size \in Nat \ {0} /\ Candidates = search.view
    BY SearchAssumption DEF SearchAssumption, CopiesStand, Page
  <1>3. /\ cursor' = IF Len(page) = Size
                     THEN [afterID |-> Last(page), generation |-> search.generation,
                           expired |-> FALSE]
                     ELSE Nothing
        /\ scan' = [scan EXCEPT !.given = @ \o page,
                      !.views = @ \cup {search.view},
                      !.generations = @ \cup {search.generation},
                      !.done = Len(page) # Size,
                      !.restarted = @ \/ (cursor # Nothing /\ cursor.afterID \notin ToSet(hits))]
    BY <1>2 DEF Page
  <1>4. PICK k \in 0..Len(hits) :
          /\ rest = SubSeq(hits, k + 1, Len(hits))
          /\ at = {} => k = 0
          /\ at # {} => k > 0 /\ k \in at
    <2>1. CASE at = {}
      <3>1. rest = SubSeq(hits, 1, Len(hits))
        BY <1>1, <2>1 DEF After
      <3> WITNESS 0 \in 0..Len(hits)
      <3> QED BY <2>1, <3>1
    <2>2. CASE at # {}
      <3>1. PICK i : i \in at
        BY <2>2
      <3>2. at = {i} /\ i \in 1..Len(hits)
        BY <1>1, <3>1
      <3>3. Min(at) = i
        BY <3>2 DEF Min
      <3>4. rest = SubSeq(hits, i + 1, Len(hits))
        BY <2>2, <3>3 DEF After
      <3> WITNESS i \in 0..Len(hits)
      <3> QED BY <2>2, <3>1, <3>2, <3>4
    <2> QED BY <2>1, <2>2
  <1> HIDE DEF hits, rest, at
  <1>5. /\ rest \in Seq(DocIds) /\ Len(rest) = Len(hits) - k
        /\ \A i \in 1..Len(rest) : rest[i] = hits[k + i]
    BY <1>1, <1>4
  <1>6. m \in Nat /\ m <= Size /\ m <= Len(rest) /\ (m = Size \/ m = Len(rest))
    <2>1. Size \in Int /\ Len(rest) \in Nat
      BY <1>2, <1>5
    <2> QED BY <1>2, <2>1, LesserOfTwo
  <1> HIDE DEF m
  <1>7. page \in Seq(DocIds) /\ Len(page) = m /\ \A i \in 1..m : page[i] = hits[k + i]
    BY <1>5, <1>6
  <1> HIDE DEF page
  <1>8. /\ Len(page) = Size <=> m >= Size
        /\ k + m <= Len(hits) /\ (m < Size => k + m = Len(hits))
        /\ m >= Size => m > 0 /\ Last(page) = hits[k + m]
    <2>1. /\ k \in Nat /\ Len(hits) \in Nat /\ Size \in Nat \ {0}
          /\ Len(rest) = Len(hits) - k
      BY <1>1, <1>2, <1>5
    <2>2. m > 0 => Last(page) = hits[k + m]
      BY <1>6, <1>7 DEF Last
    <2> QED BY <1>6, <1>7, <2>1, <2>2
  <1>9. /\ cursor = Nothing => k = 0
        /\ cursor # Nothing /\ cursor.afterID \in ToSet(hits) => k > 0 /\ hits[k] = cursor.afterID
        /\ cursor # Nothing => \A i \in 1..Len(hits) : hits[i] = cursor.afterID => i = k
    BY <1>1, <1>4 DEF at, ToSet
  <1>10. /\ scan'.restarted = (scan.restarted \/ (cursor # Nothing /\ cursor.afterID \notin ToSet(hits)))
         /\ scan' = [scan EXCEPT !.given = @ \o page,
                       !.views = @ \cup {search.view},
                       !.generations = @ \cup {search.generation},
                       !.done = (m < Size),
                       !.restarted = scan'.restarted]
    <2>1. (Len(page) # Size) = (m < Size)
      BY <1>2, <1>6, <1>7
    <2>2. scan \in Scan
      BY DEF SearchTypeOK
    <2> QED BY <1>3, <2>1, <2>2 DEF Scan
  <1>11. m < Size => cursor' = Nothing
    BY <1>2, <1>3, <1>6, <1>7
  <1>12. m >= Size => cursor' = [afterID |-> hits[k + m], generation |-> search.generation,
                                 expired |-> FALSE]
    BY <1>3, <1>8
  <1>13. PageIs(k, m, page)
    BY <1>7, <1>8, <1>9, <1>10, <1>11, <1>12 DEF PageIs, hits
  <1> QED BY <1>6, <1>7, <1>13

(* The record of a scan after a page.                                      *)
LEMMA PageAdds ==
    ASSUME scan \in Scan, NEW k \in Nat, NEW m \in Nat, NEW page \in Seq(DocIds),
           PageIs(k, m, page)
    PROVE  /\ scan' = [given |-> scan.given \o page,
                    views |-> scan.views \cup {search.view},
                    generations |-> scan.generations \cup {search.generation},
                    pages |-> scan.pages, done |-> m < Size,
                    restarted |-> scan'.restarted]
           /\ scan'.given = scan.given \o page
           /\ scan'.views = scan.views \cup {search.view}
           /\ scan'.generations = scan.generations \cup {search.generation}
           /\ scan'.done = (m < Size)
  <1> DEFINE r == scan'.restarted
             d == m < Size
             g == scan.given \o page
             v == scan.views \cup {search.view}
             n == scan.generations \cup {search.generation}
  <1>1. scan' = [scan EXCEPT !.given = g, !.views = v, !.generations = n, !.done = d,
                             !.restarted = r]
    BY DEF PageIs
  <1>2. scan = [given |-> scan.given, views |-> scan.views, generations |-> scan.generations,
                pages |-> scan.pages, done |-> scan.done, restarted |-> scan.restarted]
    BY DEF Scan
  <1> HIDE DEF r, d, g, v, n
  <1>3. scan' = [given |-> g, views |-> v, generations |-> n, pages |-> scan.pages,
                 done |-> d, restarted |-> r]
    BY <1>1, <1>2
  <1>4. scan'.given = g /\ scan'.views = v /\ scan'.generations = n /\ scan'.done = d
    BY <1>3
  <1> QED BY <1>3, <1>4 DEF r, d, g, v, n

(* What the copies of a search are made of.                                *)
LEMMA CopyTyped ==
    ASSUME Safe, Copy
    PROVE  /\ search'.sealed \in 0..Len(segments) /\ search'.buffer \in DocMap
           /\ search'.view \in DocMap /\ search'.generation \in 0..generation
  <1>1. Len(segments) \in Nat /\ generation \in Nat /\ mutable \in DocMap
    BY DEF Safe, TypeOK
  <1>2. View \in DocMap
    BY NewestType DEF Safe, View, DocMap
  <1> QED BY <1>1, <1>2 DEF Copy

LEMMA SearchTypeKept ==
    ASSUME EngineAssumption, SearchInv, SearchTypeOK, [SearchNext]_<<vars, searchVars>>
    PROVE  SearchTypeOK'
  <1>1. SearchInv' /\ TypeOK'
    BY SearchInvKept DEF SearchInv, Safe
  <1>2. /\ Len(segments) \in Nat /\ Len(segments') \in Nat
        /\ generation = Len(segments) /\ generation' = Len(segments')
    BY <1>1 DEF SearchInv, Safe, TypeOK, SegmentsNumbered
  <1>3. NoPages \in Scan
    BY DEF NoPages, Scan
  <1>4. CASE Write \/ UNCHANGED <<vars, searchVars>>
    <2>1. Len(segments') >= Len(segments)
      BY <1>2, <1>4, StepsExtend DEF SearchInv, Safe, Write, vars
    <2>2. UNCHANGED searchVars
      BY <1>4 DEF Write
    <2> QED BY <1>1, <1>2, <2>1, <2>2 DEF SearchTypeOK, searchVars, Cursor
  <1>5. CASE Begin
    <2>1. [NoPages EXCEPT !.pages = 1] \in Scan
      BY <1>3 DEF Scan
    <2> QED BY <1>1, <1>5, <2>1, CopyTyped DEF Begin, SearchTypeOK, SearchInv, vars
  <1>6. CASE Continue
    <2>1. scan' \in Scan
      BY <1>6 DEF Continue, SearchTypeOK, Scan
    <2> QED BY <1>1, <1>6, <2>1, CopyTyped DEF Continue, SearchTypeOK, SearchInv, vars
  <1>7. CASE Page
    <2>1. PICK k, m \in Nat : \E page \in Seq(DocIds) : PageIs(k, m, page)
      BY <1>7, PageShape DEF SearchInv
    <2>2. PICK page \in Seq(DocIds) : PageIs(k, m, page)
      BY <2>1
    <2>3. search.view \in DocMap /\ search.generation \in Nat /\ search.generation <= generation
      BY <1>2, <1>7 DEF Page, SearchTypeOK
    <2>4. scan'.restarted \in BOOLEAN
      BY <1>7 DEF Page, SearchTypeOK, Scan
    <2>5. scan' \in Scan
      <3> DEFINE r == scan'.restarted
                 d == m < Size
      <3>1. scan \in Scan /\ d \in BOOLEAN
        BY DEF SearchTypeOK
      <3>2. scan' = [given |-> scan.given \o page, views |-> scan.views \cup {search.view},
                     generations |-> scan.generations \cup {search.generation},
                     pages |-> scan.pages, done |-> d, restarted |-> r]
        BY <2>2, <3>1, PageAdds
      <3>3. /\ scan.given \o page \in Seq(DocIds)
            /\ scan.views \cup {search.view} \in SUBSET DocMap
            /\ scan.generations \cup {search.generation} \in SUBSET Nat
            /\ scan.pages \in Nat /\ r \in BOOLEAN
        BY <2>3, <2>4, <3>1 DEF Scan
      <3> HIDE DEF d, r
      <3> QED BY <3>1, <3>2, <3>3 DEF Scan
    <2>6. \/ cursor' = Nothing
          \/ cursor' \in Cursor /\ cursor'.generation <= generation
      <3>1. Hits(search.view) \in Seq(DocIds)
        <4>1. Matching(search.view) \subseteq DocIds
          BY DEF Matching
        <4> QED BY <2>3, <4>1, HitsInOrder
      <3>2. m >= Size => Hits(search.view)[k + m] \in DocIds
        <4>1. Len(Hits(search.view)) \in Nat /\ Size \in Nat \ {0}
          BY <3>1, SearchAssumption DEF SearchAssumption
        <4>2. m >= Size => k + m \in 1..Len(Hits(search.view))
          BY <2>2, <4>1 DEF PageIs
        <4> QED BY <3>1, <4>2
      <3>3. Size \in Nat
        BY SearchAssumption DEF SearchAssumption
      <3>4. m < Size \/ m >= Size
        BY <3>3
      <3>5. m < Size => cursor' = Nothing
        BY <2>2 DEF PageIs
      <3>6. m >= Size => cursor' = [afterID |-> Hits(search.view)[k + m],
                                    generation |-> search.generation, expired |-> FALSE]
        BY <2>2 DEF PageIs
      <3> DEFINE last == Hits(search.view)[k + m]
      <3>7. CASE m >= Size
        <4>1. /\ last \in DocIds
              /\ cursor' = [afterID |-> last, generation |-> search.generation, expired |-> FALSE]
          BY <3>2, <3>6, <3>7
        <4> HIDE DEF last
        <4> QED BY <2>3, <4>1 DEF Cursor
      <3> QED BY <3>4, <3>5, <3>7
    <2>7. UNCHANGED vars /\ search' = Nothing
      BY <1>7 DEF Page
    <2> QED BY <1>1, <2>5, <2>6, <2>7 DEF SearchTypeOK, vars
  <1>8. CASE Refuse \/ Cancelled
    BY <1>1, <1>3, <1>8 DEF Refuse, Cancelled, Abandon, SearchTypeOK
  <1>9. CASE Expire
    BY <1>1, <1>9 DEF Expire, SearchTypeOK, Cursor, vars
  <1> QED BY <1>4, <1>5, <1>6, <1>7, <1>8, <1>9 DEF SearchNext

LEMMA LastOfBoth ==
    ASSUME NEW S, NEW s \in Seq(S), NEW t \in Seq(S)
    PROVE  /\ s \o t \in Seq(S) /\ Len(s \o t) = Len(s) + Len(t)
           /\ \A i \in 1..Len(s) : (s \o t)[i] = s[i]
           /\ \A i \in 1..Len(t) : (s \o t)[Len(s) + i] = t[i]
           /\ Len(t) > 0 => s \o t # <<>> /\ Last(s \o t) = t[Len(t)]
  <1>1. /\ s \o t \in Seq(S) /\ Len(s \o t) = Len(s) + Len(t)
        /\ \A i \in 1..Len(s) : (s \o t)[i] = s[i]
        /\ \A i \in 1..Len(t) : (s \o t)[Len(s) + i] = t[i]
    OBVIOUS
  <1>2. Len(t) > 0 => s \o t # <<>> /\ Last(s \o t) = t[Len(t)]
    <2>1. Len(s) \in Nat /\ Len(t) \in Nat
      OBVIOUS
    <2> QED BY <1>1, <2>1 DEF Last
  <1> QED BY <1>1, <1>2

LEMMA CursorContinuesKept ==
    ASSUME SearchInv, SearchTypeOK, CursorContinues, [SearchNext]_<<vars, searchVars>>
    PROVE  CursorContinues'
  <1>1. CASE Write \/ UNCHANGED <<vars, searchVars>>
    BY <1>1 DEF Write, searchVars, CursorContinues
  <1>2. CASE Begin
    BY <1>2, FS_EmptySet DEF Begin, NoPages, CursorContinues
  <1>3. CASE Continue
    BY <1>3 DEF Continue, CursorContinues, SearchTypeOK, Scan
  <1>4. CASE Page
    <2>1. PICK k, m \in Nat : \E page \in Seq(DocIds) : PageIs(k, m, page)
      BY <1>4, PageShape DEF SearchInv
    <2>2. PICK page \in Seq(DocIds) : PageIs(k, m, page)
      BY <2>1
    <2>3. /\ scan'.given = scan.given \o page
          /\ scan'.views = scan.views \cup {search.view}
          /\ scan'.generations = scan.generations \cup {search.generation}
          /\ scan'.done = (m < Size)
      BY <2>2, PageAdds DEF SearchTypeOK
    <2>4. scan'.generations = {search.generation}
      <3>1. CASE cursor = Nothing
        BY <1>4, <2>3, <3>1 DEF CursorContinues, Page
      <3>2. CASE cursor # Nothing
        BY <1>4, <2>3, <3>2 DEF CursorContinues, Page, Accepted
      <3> QED BY <3>1, <3>2
    <2>5. IsFiniteSet(scan'.views) /\ IsFiniteSet(scan'.generations)
      <3>1. IsFiniteSet(scan.views) /\ IsFiniteSet(scan.generations)
        BY DEF CursorContinues
      <3>2. /\ IsFiniteSet(scan.views \cup {search.view})
            /\ IsFiniteSet(scan.generations \cup {search.generation})
        BY <3>1, FS_AddElement, Zenon
      <3> QED BY <2>3, <3>2
    <2>6. CASE m < Size
      <3>1. cursor' = Nothing /\ search' = Nothing
        BY <1>4, <2>2, <2>6 DEF PageIs, Page
      <3> QED BY <2>4, <2>5, <3>1 DEF CursorContinues
    <2>7. CASE m >= Size
      <3> DEFINE last == Hits(search.view)[k + m]
      <3>1. /\ cursor' = [afterID |-> last, generation |-> search.generation, expired |-> FALSE]
            /\ Len(page) = m /\ m > 0 /\ page[m] = last
        BY <2>2, <2>7 DEF PageIs
      <3>2. scan.given \in Seq(DocIds)
        BY DEF SearchTypeOK, Scan
      <3>3. scan'.given # <<>> /\ Last(scan'.given) = last
        BY <2>3, <3>1, <3>2, LastOfBoth
      <3>4. ~scan'.done /\ scan'.views # {} /\ search' = Nothing
        <4>1. Size \in Nat
          BY SearchAssumption DEF SearchAssumption
        <4>2. search' = Nothing
          BY <1>4 DEF Page
        <4>3. ~(m < Size)
          BY <2>7, <4>1
        <4>4. search.view \in scan'.views
          BY <2>3
        <4> QED BY <2>3, <4>2, <4>3, <4>4, Zenon
      <3> HIDE DEF last
      <3> QED BY <2>4, <2>5, <3>1, <3>3, <3>4 DEF CursorContinues
    <2>8. Size \in Nat
      BY SearchAssumption DEF SearchAssumption
    <2> QED BY <2>6, <2>7, <2>8
  <1>5. CASE Refuse \/ Cancelled
    <2>1. search' = Nothing /\ cursor' = Nothing /\ scan' = NoPages
      BY <1>5 DEF Refuse, Cancelled, Abandon
    <2>2. IsFiniteSet(scan'.views) /\ IsFiniteSet(scan'.generations)
      BY <2>1, FS_EmptySet DEF NoPages
    <2> QED BY <2>1, <2>2 DEF NoPages, CursorContinues
  <1>6. CASE Expire
    <2>1. cursor' \in Cursor /\ cursor' # Nothing /\ cursor'.generation = cursor.generation
          /\ cursor'.afterID = cursor.afterID
      BY <1>6, SearchAssumption DEF Expire, SearchTypeOK, Cursor, SearchAssumption
    <2> QED BY <1>6, <2>1 DEF Expire, CursorContinues
  <1> QED BY <1>1, <1>2, <1>3, <1>4, <1>5, <1>6 DEF SearchNext

(* The pages of a scan go on adding up when each begins behind the last.   *)
LEMMA PagesAddUpKept ==
    ASSUME SearchInv, SearchTypeOK, CursorContinues, PagesAddUp,
           [SearchNext]_<<vars, searchVars>>
    PROVE  PagesAddUp'
  <1>1. CASE UNCHANGED scan
    BY <1>1 DEF PagesAddUp
  <1>2. CASE /\ scan'.views = scan.views /\ scan'.given = scan.given
             /\ scan'.done = scan.done
    BY <1>2 DEF PagesAddUp
  <1>3. CASE scan'.views = {}
    BY <1>3 DEF PagesAddUp
  <1>4. CASE Page
    <2>1. PICK k, m \in Nat : \E page \in Seq(DocIds) : PageIs(k, m, page)
      BY <1>4, PageShape DEF SearchInv
    <2>2. PICK page \in Seq(DocIds) : PageIs(k, m, page)
      BY <2>1
    <2>3. /\ scan'.given = scan.given \o page
          /\ scan'.views = scan.views \cup {search.view}
          /\ scan'.done = (m < Size)
      BY <2>2, PageAdds DEF SearchTypeOK
    <2> DEFINE hits == Hits(search.view)
               given == scan.given
    <2>4. /\ hits \in Seq(DocIds) /\ given \in Seq(DocIds)
          /\ Len(hits) \in Nat /\ Len(given) \in Nat /\ Size \in Nat
      <3>1. search.view \in DocMap /\ given \in Seq(DocIds) /\ Size \in Nat
        BY <1>4, SearchAssumption DEF Page, SearchTypeOK, Scan, SearchAssumption
      <3>2. Matching(search.view) \subseteq DocIds
        BY DEF Matching
      <3>3. hits \in Seq(DocIds)
        BY <3>1, <3>2, HitsInOrder
      <3> HIDE DEF hits, given
      <3> QED BY <3>1, <3>3
    <2>5. ASSUME scan'.views = {search.view}
          PROVE  Len(given) = k /\ Prefixed(given, hits)
      <3>1. CASE cursor = Nothing
        BY <1>4, <2>2, <2>4, <3>1 DEF CursorContinues, Page, PageIs, Prefixed
      <3>2. CASE cursor # Nothing
        <4>1. scan.views = {search.view} /\ given # <<>> /\ Last(given) = cursor.afterID
          BY <2>3, <2>5, <3>2 DEF CursorContinues
        <4>2. Prefixed(given, hits)
          BY <4>1 DEF PagesAddUp
        <4>3. Len(given) \in 1..Len(hits) /\ hits[Len(given)] = cursor.afterID
          BY <2>4, <4>1, <4>2 DEF Prefixed, Last
        <4>4. \A i \in 1..Len(hits) : hits[i] = cursor.afterID => i = k
          BY <2>2, <3>2 DEF PageIs
        <4> QED BY <4>2, <4>3, <4>4
      <3> QED BY <3>1, <3>2
    <2>6. /\ k + m <= Len(hits) /\ Len(page) = m /\ \A i \in 1..m : page[i] = hits[k + i]
          /\ m < Size => k + m = Len(hits)
      BY <2>2 DEF PageIs
    <2> HIDE DEF hits, given
    <2>7. ASSUME scan'.views = {search.view}
          PROVE  /\ Prefixed(scan'.given, hits)
                 /\ scan'.done => Len(scan'.given) = Len(hits)
      <3>1. Len(given) = k /\ \A i \in 1..k : given[i] = hits[i]
        BY <2>5, <2>7 DEF Prefixed
      <3>2. Len(given \o page) = k + m /\ \A i \in 1..(k + m) : (given \o page)[i] = hits[i]
        <4>1. /\ Len(given \o page) = k + m
              /\ \A i \in 1..k : (given \o page)[i] = hits[i]
              /\ \A i \in 1..m : (given \o page)[k + i] = hits[k + i]
          <5>1. /\ Len(given \o page) = Len(given) + Len(page)
                /\ \A i \in 1..Len(given) : (given \o page)[i] = given[i]
                /\ \A i \in 1..Len(page) : (given \o page)[Len(given) + i] = page[i]
            BY <2>4, LastOfBoth
          <5> QED BY <2>6, <3>1, <5>1
        <4>2. ASSUME NEW i \in 1..(k + m), i > k PROVE (given \o page)[i] = hits[i]
          <5>1. i - k \in 1..m /\ k + (i - k) = i
            BY <4>2
          <5> QED BY <4>1, <5>1
        <4> QED BY <4>1, <4>2
      <3> QED BY <2>3, <2>6, <3>2 DEF Prefixed, given
    <2>8. ASSUME NEW v \in scan'.views, scan'.views = {v}
          PROVE  v = search.view
      BY <2>3, <2>8
    <2> QED BY <2>7, <2>8 DEF PagesAddUp, hits
  <1>5. CASE Write \/ Expire
    BY <1>1, <1>5 DEF Write, Expire, searchVars
  <1>6. CASE Begin \/ Refuse \/ Cancelled
    BY <1>3, <1>6 DEF Begin, Refuse, Cancelled, Abandon, NoPages
  <1>7. CASE Continue
    BY <1>2, <1>7 DEF Continue, SearchTypeOK, Scan
  <1> QED BY <1>1, <1>4, <1>5, <1>6, <1>7 DEF SearchNext, searchVars

(* A page continues behind the cursor's document in any ranking of what    *)
(* the pages saw, and the page itself is in this order.                    *)
LEMMA GivenInOrderKept ==
    ASSUME SearchInv, SearchTypeOK, CursorContinues, scan.restarted \/ GivenInOrder,
           [SearchNext]_<<vars, searchVars>>
    PROVE  (scan.restarted \/ GivenInOrder)'
  <1>1. CASE UNCHANGED <<scan.given, scan.views, scan.restarted>>
    BY <1>1 DEF GivenInOrder, Ranking
  <1>2. CASE scan'.given = <<>>
    BY <1>2 DEF GivenInOrder
  <1>3. CASE Page
    <2>1. PICK k, m \in Nat : \E page \in Seq(DocIds) : PageIs(k, m, page)
      BY <1>3, PageShape DEF SearchInv
    <2>2. PICK page \in Seq(DocIds) : PageIs(k, m, page)
      BY <2>1
    <2>3. /\ scan'.given = scan.given \o page
          /\ scan'.views = scan.views \cup {search.view}
      BY <2>2, PageAdds DEF SearchTypeOK
    <2> DEFINE here == search.view
               hits == Hits(here)
               given == scan.given
    <2>4. here \in DocMap /\ given \in Seq(DocIds) /\ Len(given) \in Nat
      BY <1>3 DEF Page, SearchTypeOK, Scan
    <2>5. /\ Len(hits) \in Nat
          /\ \A i \in 1..Len(hits) : hits[i] \in Matching(here)
          /\ \A i, j \in 1..Len(hits) : i < j => Better(here, hits[i], hits[j])
      BY <2>4, HitsInOrder
    <2>6. /\ k + m <= Len(hits) /\ Len(page) = m /\ \A i \in 1..m : page[i] = hits[k + i]
          /\ scan.restarted => scan'.restarted
          /\ cursor # Nothing /\ ~scan'.restarted => k > 0 /\ hits[k] = cursor.afterID
      BY <2>2 DEF PageIs
    <2> HIDE DEF hits, here, given
    <2>7. /\ Len(given \o page) = Len(given) + m
          /\ \A i \in 1..Len(given) : (given \o page)[i] = given[i]
          /\ \A i \in 1..m : (given \o page)[Len(given) + i] = hits[k + i]
          /\ \A i \in 1..m : k + i \in 1..Len(hits)
      <3>1. /\ Len(given \o page) = Len(given) + Len(page)
            /\ \A i \in 1..Len(given) : (given \o page)[i] = given[i]
            /\ \A i \in 1..Len(page) : (given \o page)[Len(given) + i] = page[i]
        BY <2>4, LastOfBoth
      <3> QED BY <2>5, <2>6, <3>1
    <2>8. ASSUME ~scan'.restarted, NEW rank, Ranking(rank)',
                 NEW i \in 1..Len(given \o page), NEW j \in 1..Len(given \o page), i < j
          PROVE  rank[(given \o page)[i]] < rank[(given \o page)[j]]
      <3>1. rank \in [DocIds -> 1..Cardinality(DocIds)] /\ Ranking(rank)
        BY <2>3, <2>8 DEF Ranking
      <3>2. \A a, b \in 1..Len(given) : a < b => rank[given[a]] < rank[given[b]]
        BY <2>6, <2>8, <3>1 DEF GivenInOrder, given
      <3>3. \A a, b \in 1..Len(hits) : a < b => rank[hits[a]] < rank[hits[b]]
        <4>1. Ranks(rank, here)
          BY <2>3, <2>8 DEF Ranking, here
        <4> QED BY <2>5, <4>1 DEF Ranks
      <3>4. \A id \in DocIds : rank[id] \in Int
        <4>1. Cardinality(DocIds) \in Nat
          BY EngineAssumption, FS_CardinalityType DEF EngineAssumption
        <4> QED BY <3>1, <4>1
      <3>5. CASE j <= Len(given)
        BY <2>4, <2>7, <2>8, <3>2, <3>5
      <3>6. CASE i > Len(given)
        <4>1. i - Len(given) \in 1..m /\ j - Len(given) \in 1..m
          BY <2>4, <2>7, <2>8, <3>6
        <4>2. PICK a \in 1..m, b \in 1..m : i = Len(given) + a /\ j = Len(given) + b
          <5>1. i = Len(given) + (i - Len(given)) /\ j = Len(given) + (j - Len(given))
            BY <2>4
          <5> QED BY <4>1, <5>1
        <4>3. k + a < k + b /\ k + a \in 1..Len(hits) /\ k + b \in 1..Len(hits)
          <5>1. a < b
            BY <2>4, <2>8, <4>2
          <5>2. k + a \in 1..Len(hits) /\ k + b \in 1..Len(hits)
            BY <2>7
          <5>3. k + a < k + b
            BY <5>1
          <5> QED BY <5>2, <5>3
        <4>4. rank[hits[k + a]] < rank[hits[k + b]]
          BY <3>3, <4>3
        <4> QED BY <2>7, <4>2, <4>4
      <3>7. CASE i <= Len(given) /\ j > Len(given)
        <4>1. PICK b \in 1..m : j = Len(given) + b
          <5>1. j - Len(given) \in 1..m /\ j = Len(given) + (j - Len(given))
            BY <2>4, <2>7, <2>8, <3>7
          <5> QED BY <5>1
        <4>2. k > 0 /\ hits[k] = given[Len(given)] /\ Len(given) \in 1..Len(given)
          <5>1. given # <<>>
            BY <2>4, <3>7
          <5>2. cursor # Nothing /\ given[Len(given)] = cursor.afterID
            BY <1>3, <5>1 DEF CursorContinues, Page, given, Last
          <5> QED BY <2>4, <2>6, <2>8, <3>7, <5>2
        <4>3. rank[hits[k]] < rank[hits[k + b]]
          <5>1. k \in 1..Len(hits) /\ k + b \in 1..Len(hits) /\ k < k + b
            BY <2>5, <2>6, <2>7, <4>2
          <5> QED BY <3>3, <5>1
        <4>4. rank[given[i]] <= rank[given[Len(given)]]
          <5>1. given[i] \in DocIds /\ i \in 1..Len(given)
            BY <2>4, <2>8, <3>7
          <5>2. i = Len(given) \/ i < Len(given)
            BY <2>4, <3>7
          <5>3. rank[given[i]] \in Int
            BY <3>4, <5>1
          <5>4. CASE i = Len(given)
            BY <5>3, <5>4
          <5>5. CASE i < Len(given)
            <6>1. rank[given[i]] < rank[given[Len(given)]]
              BY <3>2, <4>2, <5>1, <5>5
            <6>2. given[Len(given)] \in DocIds
              BY <2>4, <4>2
            <6>3. rank[given[Len(given)]] \in Int
              BY <3>4, <6>2
            <6> QED BY <5>3, <6>1, <6>3
          <5> QED BY <5>2, <5>4, <5>5
        <4>5. rank[given[i]] \in Int /\ rank[hits[k]] \in Int /\ rank[hits[k + b]] \in Int
          <5>1. hits[k + b] \in DocIds
            BY <2>5, <2>7 DEF Matching
          <5>2. given[i] \in DocIds /\ given[Len(given)] \in DocIds
            BY <2>4, <2>8, <3>7, <4>2
          <5> QED BY <3>4, <4>2, <5>1, <5>2
        <4>6. (given \o page)[i] = given[i] /\ (given \o page)[j] = hits[k + b]
          BY <2>4, <2>7, <2>8, <3>7, <4>1
        <4> QED BY <4>2, <4>3, <4>4, <4>5, <4>6
      <3> QED BY <2>4, <2>7, <2>8, <3>5, <3>6, <3>7
    <2> QED BY <2>3, <2>8 DEF GivenInOrder, given
  <1>4. CASE Write \/ Expire \/ UNCHANGED <<vars, searchVars>>
    BY <1>1, <1>4 DEF Write, Expire, searchVars
  <1>5. CASE Begin \/ Refuse \/ Cancelled
    BY <1>2, <1>5 DEF Begin, Refuse, Cancelled, Abandon, NoPages
  <1>6. CASE Continue
    BY <1>1, <1>6 DEF Continue, SearchTypeOK, Scan
  <1> QED BY <1>3, <1>4, <1>5, <1>6 DEF SearchNext

ScanSafe == SearchInv /\ SearchTypeOK /\ ScanInv

LEMMA ScanSafeAlways == SearchSpec => []ScanSafe
  <1>1. SearchInit => ScanSafe
    <2> SUFFICES ASSUME SearchInit PROVE ScanSafe
      OBVIOUS
    <2>1. SearchInv
      BY SafeAtStart, EngineAssumption DEF SearchInit, SearchInv, CopiesStand
    <2>2. NoPages \in Scan
      BY DEF NoPages, Scan
    <2>3. SearchTypeOK
      BY <2>1, <2>2 DEF SearchInit, SearchTypeOK, SearchInv, Safe
    <2>4. CursorContinues
      BY FS_EmptySet DEF SearchInit, CursorContinues, NoPages
    <2>5. PagesAddUp /\ GivenInOrder
      BY DEF SearchInit, PagesAddUp, GivenInOrder, NoPages
    <2> QED BY <2>1, <2>3, <2>4, <2>5 DEF ScanSafe, ScanInv
  <1>2. ScanSafe /\ [SearchNext]_<<vars, searchVars>> => ScanSafe'
    <2> SUFFICES ASSUME ScanSafe, [SearchNext]_<<vars, searchVars>> PROVE ScanSafe'
      OBVIOUS
    <2>1. SearchInv' /\ SearchTypeOK'
      BY SearchInvKept, SearchTypeKept, EngineAssumption DEF ScanSafe
    <2>2. CursorContinues'
      BY CursorContinuesKept DEF ScanSafe, ScanInv
    <2>3. PagesAddUp'
      BY PagesAddUpKept DEF ScanSafe, ScanInv
    <2>4. (scan.restarted \/ GivenInOrder)'
      BY GivenInOrderKept DEF ScanSafe, ScanInv
    <2> QED BY <2>1, <2>2, <2>3, <2>4 DEF ScanSafe, ScanInv
  <1> QED BY <1>1, <1>2, PTL DEF SearchSpec

(* A copy never names more segments or a later generation than there are,  *)
(* nor does a cursor (Engine.Search, CursorCodec).                         *)
THEOREM SearchTypeCorrect == SearchSpec => []SearchTypeOK
  BY ScanSafeAlways, PTL DEF ScanSafe

(* The pages that cursors lead to come from one generation, because a      *)
(* search refuses the cursor of another one (Engine.Search).               *)
THEOREM PagesOfOneGeneration == SearchSpec => []OneGenerationPerScan
  <1>1. ScanSafe => OneGenerationPerScan
    <2> SUFFICES ASSUME CursorContinues PROVE OneGenerationPerScan
      BY DEF ScanSafe, ScanInv
    <2>1. CASE scan.generations = {}
      BY <2>1, FS_EmptySet DEF OneGenerationPerScan
    <2>2. CASE scan.generations # {}
      <3>1. PICK g : scan.generations = {g}
        BY <2>2 DEF CursorContinues
      <3> QED BY <3>1, FS_Singleton DEF OneGenerationPerScan
    <2> QED BY <2>1, <2>2
  <1> QED BY <1>1, ScanSafeAlways, PTL

(* A client that asks for page after page until there is no cursor has all *)
(* the hits and each once, when all pages saw the same collection.         *)
THEOREM ScansComplete == SearchSpec => []ScanComplete
  <1>1. ScanSafe => ScanComplete
    <2> SUFFICES ASSUME ScanSafe, scan.done, Cardinality(scan.views) = 1,
                        NEW v \in scan.views
                 PROVE  scan.given = Hits(v)
      BY DEF ScanComplete
    <2>1. scan.views = {v}
      <3>1. IsFiniteSet(scan.views)
        BY DEF ScanSafe, ScanInv, CursorContinues
      <3>2. \E w : scan.views = {w}
        BY <3>1, FS_Singleton
      <3> QED BY <3>2
    <2>2. Prefixed(scan.given, Hits(v)) /\ Len(scan.given) = Len(Hits(v))
      BY <2>1 DEF ScanSafe, ScanInv, PagesAddUp
    <2>3. scan.given \in Seq(DocIds) /\ Hits(v) \in Seq(DocIds)
      <3>1. scan.given \in Seq(DocIds) /\ v \in DocMap
        BY DEF ScanSafe, SearchTypeOK, Scan
      <3>2. Matching(v) \subseteq DocIds
        BY DEF Matching
      <3> QED BY <3>1, <3>2, HitsInOrder
    <2> DEFINE given == scan.given
               hits == Hits(v)
    <2>4. /\ Len(given) = Len(hits) /\ \A i \in 1..Len(given) : given[i] = hits[i]
          /\ given \in Seq(DocIds) /\ hits \in Seq(DocIds)
      BY <2>2, <2>3 DEF Prefixed
    <2> HIDE DEF given, hits
    <2>5. given = hits
      BY <2>4
    <2> QED BY <2>5 DEF given, hits
  <1> QED BY <1>1, ScanSafeAlways, PTL

(* Writes between the pages do not make a scan repeat a hit, as long as    *)
(* they leave the document that each cursor names, and what the pages saw  *)
(* goes into one ranking.                                                  *)
THEOREM HitsNotRepeated == SearchSpec => []NoHitTwice
  <1>1. ScanSafe => NoHitTwice
    <2> SUFFICES ASSUME ScanSafe, ~scan.restarted, NEW rank, Ranking(rank)
                 PROVE  IsInjective(scan.given)
      BY DEF NoHitTwice, Ranking
    <2>1. GivenInOrder /\ scan.given \in Seq(DocIds)
      BY DEF ScanSafe, ScanInv, SearchTypeOK, Scan
    <2>2. \A id \in DocIds : rank[id] \in Int
      <3>1. Cardinality(DocIds) \in Nat
        BY EngineAssumption, FS_CardinalityType DEF EngineAssumption
      <3> QED BY <3>1 DEF Ranking
    <2>3. \A i, j \in 1..Len(scan.given) : i < j => scan.given[i] # scan.given[j]
      BY <2>1, <2>2 DEF GivenInOrder
    <2>4. \A i, j \in DOMAIN scan.given : scan.given[i] = scan.given[j] => i = j
      <3>1. DOMAIN scan.given = 1..Len(scan.given) /\ Len(scan.given) \in Nat
        BY <2>1
      <3>2. \A i, j \in 1..Len(scan.given) : i = j \/ i < j \/ j < i
        BY <3>1
      <3> QED BY <2>3, <3>1, <3>2
    <2> QED BY <2>4 DEF IsInjective
  <1> QED BY <1>1, ScanSafeAlways, PTL
=============================================================================
