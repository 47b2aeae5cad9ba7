------------------------------- MODULE Shards -------------------------------
(***************************************************************************)
(* The coordinator over engines whose queries are those of module Text,    *)
(* and what a query finds in their documents.                              *)
(***************************************************************************)
EXTENDS Coordinator, Text

CONSTANT Numbers    \* what a number may be

(* Whole numbers of up to 15 digits are those that a float64 holds, and    *)
(* prints, as they are.  The clauses are those that a caller who validates *)
(* a request lets through.                                                 *)
Printable(n) == n \in Nat /\ Len(Digits[n]) <= 15

ASSUME ShardsAssumption ==
    /\ \A n \in Numbers : Printable(n)
    /\ Missing \notin Nat
    /\ \A id \in DocIds : \A content \in Contents[id] : content.text \in Seq(ToSet(content.text))
    /\ \A request \in Requests : \A c \in {request.query} \cup ToSet(request.filters) :
         /\ ClauseAccepted(c)
         /\ c.kind \in TextKinds => c.value \in Seq(ToSet(c.value))
         /\ c.kind = "range" => \A b \in {c.from, c.to} \ {Missing} : Printable(b)

Texts ==
    UNION {{docs[s][id].text : id \in {i \in DocIds : docs[s][i] # None}} : s \in ShardIds}

(* The postings of a document are its words in order, each at its place    *)
(* among the words that are not stopwords, and synonyms at their word's.   *)
PostingsFollowWords ==
    \A text \in Texts :
      {<<t.term, t.position + 1>> : t \in ToSet(Analyze(text))}
      = UNION {Means(Words(text)[i]) \X {i} : i \in DOMAIN Words(text)}

Clauses == IF asked = None THEN {}
           ELSE {asked.request.query} \cup ToSet(asked.request.filters)

(* A text clause finds what its kind says: a phrase of words without       *)
(* synonyms that follow each other, stopwords apart; a fuzzy word within   *)
(* one edit; and what a match finds, a prefix and a fuzzy clause find too. *)
KindsMean ==
    \A c \in {d \in Clauses : d.kind \in TextKinds}, text \in Texts :
      LET Finds(kind) == TextMatch([kind |-> kind, value |-> c.value], [text |-> text], 1).ok
          asks == Words(c.value)
          has == Words(text)
          plain == asks # <<>> /\ \A i \in DOMAIN asks : SynonymsOf(asks[i]) = <<>>
          follow == \E k \in 0..(Len(has) - Len(asks)) :
                      \A i \in DOMAIN asks : asks[i] \in Means(has[k + i])
          near == \A i \in DOMAIN asks : \E j \in DOMAIN has :
                    \E w \in Means(has[j]) : OneEdit(w, asks[i])
      IN  /\ plain => (Finds("phrase") <=> follow)
          /\ plain => (Finds("fuzzy") <=> near)
          /\ Finds("phrase") => Finds("match")
          /\ Finds("match") => Finds("prefix") /\ Finds("fuzzy")

(* Bounds are compared as text, which is the order of numbers only among   *)
(* numbers that have as many digits, and are written in as many characters *)
(* (from 10^6 on: have as many significant digits; 1e+06 is found above    *)
(* 1.25e+06).  A document without the number is below no bound and above   *)
(* every one.                                                              *)
Alike(n, m) == /\ Len(Digits[n]) = Len(Digits[m])
               /\ Len(Sprint(n)) = Len(Sprint(m))
RangeWithinWidth ==
    \A c \in {d \in Clauses : d.kind = "range"} :
      LET Finds(number) == RangeMatch(c, [number |-> number]).ok
          Within(n) == /\ c.from # Missing => c.from <= n
                       /\ c.to # Missing => n <= c.to
      IN  /\ Finds(Missing) <=> c.to = Missing
          /\ \A n \in Numbers :
               (\A b \in {c.from, c.to} \ {Missing} : Alike(b, n))
               => (Finds(n) <=> Within(n))
=============================================================================
