-------------------------------- MODULE Text --------------------------------
(***************************************************************************)
(* What a query makes of a document: Pipeline.Analyze                      *)
(* (internal/analyzer/analyzer.go), the postings of a document, and        *)
(* evaluate with textMatch, rangeMatch, consecutive and distance           *)
(* (internal/index/index.go), as operators.                                *)
(*                                                                         *)
(* A text is a sequence of characters, a document a text in one field and  *)
(* a number, or none, in another.  Weight stands for BM25.                 *)
(***************************************************************************)
EXTENDS Integers, Sequences, FiniteSets, SequencesExt, FiniteSetsExt, Sorting

CONSTANTS
    Letters,    \* characters that words are made of
    Ideographs, \* CJK characters and emoji: each is a word
    Blanks,     \* white space
    Lower,      \* letter -> letter, the identity without Pipeline.Lowercase
    Stopwords,  \* words that are left out
    Synonyms,   \* word -> sequence of words
    Weight(_, _, _), \* occurrences, length and candidates -> score
    Missing     \* no number in the document; no bound in a clause

ASSUME TextAssumption ==
    /\ Letters \cap Ideographs = {}
    /\ Lower \in [Letters -> Letters]
    /\ \A word \in DOMAIN Synonyms :
         /\ Synonyms[word] \in Seq(ToSet(Synonyms[word]))
         /\ \A s \in ToSet(Synonyms[word]) : s \in Seq(ToSet(s))

TextKinds == {"match", "phrase", "prefix", "fuzzy"}

(* Underscored names are the code with a plausible mistake in it; no       *)
(* specification uses them.  They measure what the properties notice.      *)

(* The clauses at each depth of nesting in a clause.                       *)
Children(c) == IF c.kind = "bool" THEN ToSet(c.must \o c.should \o c.mustNot) ELSE {}
Levels(c) ==
    LET level[depth \in 0..11] ==
          IF depth = 0 THEN {c} ELSE UNION {Children(d) : d \in level[depth - 1]}
    IN  level

(* validateClause: nesting is limited, so that evaluate's is.              *)
ClauseAccepted(c) ==
    /\ Levels(c)[11] = {}
    /\ \A depth \in 0..10 : \A d \in Levels(c)[depth] :
         \/ d.kind \in TextKinds /\ ~(ToSet(d.value) \subseteq Blanks)
         \/ d.kind = "range" /\ {d.from, d.to} # {Missing}
         \/ d.kind = "bool" /\ Children(d) # {}

Normalize(word) ==
    [i \in DOMAIN word |-> IF word[i] \in Letters THEN Lower[word[i]] ELSE word[i]]

(* flush for a word text[start .. end-1]: it and its synonyms share a      *)
(* position, and a stopword takes none.                                    *)
Emit(s, word, synonyms) ==
    IF \E stop \in Stopwords : Normalize(stop) = word THEN s
    ELSE [tokens |-> Append(s.tokens, [term |-> word, position |-> s.next])
                     \o [i \in DOMAIN synonyms |->
                           [term |-> Normalize(synonyms[i]), position |-> s.next]],
          next |-> s.next + 1, start |-> s.start]

Flush(s, text, end) ==
    LET word == Normalize(SubSeq(text, s.start, end - 1))
    IN  IF s.start = 0 THEN s
        ELSE [Emit(s, word, IF word \in DOMAIN Synonyms THEN Synonyms[word] ELSE <<>>)
                EXCEPT !.start = 0]

ReadRune(s, text, i) ==
    IF text[i] \in Letters THEN IF s.start = 0 THEN [s EXCEPT !.start = i] ELSE s
    ELSE LET flushed == Flush(s, text, i)
         IN  IF text[i] \in Ideographs THEN Emit(flushed, <<text[i]>>, <<>>) ELSE flushed

Scan(text) ==
    LET after[i \in 0..Len(text)] ==
          IF i = 0 THEN [tokens |-> <<>>, next |-> 0, start |-> 0]
          ELSE ReadRune(after[i - 1], text, i)
    IN  after[Len(text)]

Analyze_OpenEnd(text) == Scan(text).tokens

Analyze(text) == Flush(Scan(text), text, Len(text) + 1).tokens

(* One entry of the row of distance is overwritten; prev is what stood to  *)
(* the left of it before, which the row no longer holds.                   *)
Overwrite_PrevLost(s, x, b, j) ==
    [row |-> [s.row EXCEPT ![j] = Min({s.row[j] + 1, s.row[j - 1] + 1,
                                       s.row[j - 1] + (IF x = b[j] THEN 0 ELSE 1)})],
     prev |-> s.row[j]]

Overwrite(s, x, b, j) ==
    [row |-> [s.row EXCEPT ![j] = Min({s.row[j] + 1, s.row[j - 1] + 1,
                                       s.prev + (IF x = b[j] THEN 0 ELSE 1)})],
     prev |-> s.row[j]]

NextRow(row, i, x, b) ==
    LET state[j \in 0..Len(b)] ==
          IF j = 0 THEN [row |-> [row EXCEPT ![0] = i], prev |-> row[0]]
          ELSE Overwrite(state[j - 1], x, b, j)
    IN  state[Len(b)].row

Distance(a, b) ==
    LET row[i \in 0..Len(a)] ==
          IF i = 0 THEN [j \in 0..Len(b) |-> j] ELSE NextRow(row[i - 1], i, a[i], b)
    IN  row[Len(a)][Len(b)]

(* Whether a term of a document is what a word of a clause asks for, and   *)
(* which of the document's tokens (indexDocument) are.                     *)
Asked(kind, word, term) ==
    CASE kind = "prefix" -> IsPrefix(word, term)
      [] kind = "fuzzy"  -> Distance(term, word) <= 1
      [] OTHER           -> term = word

Occurrences(tokens, kind, word) ==
    {n \in DOMAIN tokens : Asked(kind, word, tokens[n].term)}

Consecutive_AnyOrder(groups) ==
    Len(groups) >= 2 => \E start \in groups[1] :
        \A i \in 2..Len(groups) : {start + i - 1, start - i + 1} \cap groups[i] # {}

Consecutive(groups) ==
    Len(groups) >= 2 =>
      \E start \in groups[1] : \A i \in 2..Len(groups) : start + i - 1 \in groups[i]

NoMatch == [ok |-> FALSE, score |-> 0]

TextMatch(c, doc, total) ==
    LET asked == Analyze(c.value)
        tokens == Analyze(doc.text)
        found == [i \in DOMAIN asked |-> Occurrences(tokens, c.kind, asked[i].term)]
        groups == [i \in DOMAIN asked |-> {tokens[n].position : n \in found[i]}]
        weights == [i \in DOMAIN asked |-> Weight(Cardinality(found[i]), Len(tokens), total)]
    IN  IF asked = <<>> \/ {} \in ToSet(groups) THEN NoMatch
        ELSE IF c.kind = "phrase" /\ ~Consecutive(groups) THEN NoMatch
        ELSE [ok |-> TRUE, score |-> FoldLeft(+, 0, weights)]

(* fmt.Sprint of a float64, which a JSON number is.  A character is its    *)
(* distance from "0": digits are themselves.  More than six digits are     *)
(* written with an exponent, as 1.25e+06, those that are significant only. *)
(* "<nil>" begins with a character behind all digits.                      *)
Nil == <<12>>
Point == -2
Exponent == <<53, -5>>      \* "e+"
Digits[n \in Nat] == IF n < 10 THEN <<n>> ELSE Append(Digits[n \div 10], n % 10)

Significant(d) == Max({1} \cup {i \in DOMAIN d : d[i] # 0})

Scientific(d) ==
    LET k == Significant(d)
        fraction == IF k = 1 THEN <<>> ELSE <<Point>> \o SubSeq(d, 2, k)
    IN  <<d[1]>> \o fraction \o Exponent \o <<(Len(d) - 1) \div 10, (Len(d) - 1) % 10>>

Sprint(value) ==
    IF value = Missing THEN Nil
    ELSE IF Len(Digits[value]) <= 6 THEN Digits[value] ELSE Scientific(Digits[value])

AtMost(s, t) ==
    \/ IsPrefix(s, t)
    \/ \E i \in (DOMAIN s) \cap (DOMAIN t) :
         s[i] < t[i] /\ \A j \in 1..(i - 1) : s[j] = t[j]

RangeMatch_Exclusive(c, doc) ==
    LET ok == /\ c.from # Missing => AtMost(Sprint(c.from), Sprint(doc.number))
              /\ c.to # Missing => ~AtMost(Sprint(c.to), Sprint(doc.number))
    IN  [ok |-> ok, score |-> IF ok THEN 1 ELSE 0]

RangeMatch(c, doc) ==
    LET ok == /\ c.from # Missing => AtMost(Sprint(c.from), Sprint(doc.number))
              /\ c.to # Missing => AtMost(Sprint(doc.number), Sprint(c.to))
    IN  [ok |-> ok, score |-> IF ok THEN 1 ELSE 0]

(* evaluate, for a clause and the clauses nested in it.                    *)
Evaluate(c, doc, total) ==
    LET Accepted(results) == SelectSeq(results, LAMBDA r : r.ok)
        Scores(results) == FoldLeft(LAMBDA sum, r : sum + r.score, 0, results)
        Combine(must, should, mustNot) ==
          IF \/ Accepted(must) # must
             \/ Accepted(mustNot) # <<>>
             \/ Accepted(should) = <<>> /\ should # <<>>
          THEN NoMatch
          ELSE [ok |-> TRUE, score |-> Scores(must) + Scores(Accepted(should))]
        value[d \in UNION {Levels(c)[depth] : depth \in 0..10}] ==
          CASE d.kind \in TextKinds -> TextMatch(d, doc, total)
            [] d.kind = "range"    -> RangeMatch(d, doc)
            [] d.kind = "bool"     ->
                 Combine([i \in DOMAIN d.must |-> value[d.must[i]]],
                         [i \in DOMAIN d.should |-> value[d.should[i]]],
                         [i \in DOMAIN d.mustNot |-> value[d.mustNot[i]]])
    IN  value[c]
-----------------------------------------------------------------------------
(* What a text and a clause mean, without the loops: words are the longest *)
(* runs of letters, and the single ideographs.                             *)
Spans(text) ==
    LET Run(i, j) == \A n \in i..j : text[n] \in Letters
        Maximal(i, j) == /\ i = 1 \/ text[i - 1] \notin Letters
                         /\ j = Len(text) \/ text[j + 1] \notin Letters
    IN  {s \in (DOMAIN text) \X (DOMAIN text) :
           \/ s[1] = s[2] /\ text[s[1]] \in Ideographs
           \/ s[1] <= s[2] /\ Run(s[1], s[2]) /\ Maximal(s[1], s[2])}

Word(text, span) == Normalize(SubSeq(text, span[1], span[2]))

Words(text) ==
    LET kept == {s \in Spans(text) : Word(text, s) \notin {Normalize(w) : w \in Stopwords}}
        order == InOrder(kept, LAMBDA s, t : s[1] < t[1])
    IN  [i \in DOMAIN order |-> Word(text, order[i])]

(* A word and its synonyms, which ideographs do not have.                  *)
SynonymsOf(word) ==
    IF word \in (DOMAIN Synonyms) \ {<<c>> : c \in Ideographs} THEN Synonyms[word] ELSE <<>>
Means(word) == {word} \cup {Normalize(s) : s \in ToSet(SynonymsOf(word))}

(* One letter inserted, dropped or exchanged, or none.                     *)
OneEdit(a, b) ==
    \/ a = b
    \/ \E i \in DOMAIN a : RemoveAt(a, i) = b
    \/ \E i \in DOMAIN b : RemoveAt(b, i) = a
    \/ Len(a) = Len(b) /\ \E i \in DOMAIN a : RemoveAt(a, i) = RemoveAt(b, i)
=============================================================================
