------------------------------ MODULE MCShards ------------------------------
(* Two shards with two documents on one and one on the other, and pages of *)
(* one hit.  Document 1 takes every text of at most three characters (a    *)
(* capital, a letter that is a stopword by itself, an ideograph and a      *)
(* blank), the others a few.                                               *)
EXTENDS Shards

MCLower == ("A" :> "a") @@ ("a" :> "a") @@ ("B" :> "b") @@ ("b" :> "b")
MCSynonyms == <<"a", "b">> :> << <<"A">>, <<"b", "a">> >>
MCStopwords == {<<"B">>}
MCWeight(n, length, total) == (12 * n * total) \div (length + 1)

Chars == {"A", "b", "Z", " "}
AllTexts == UNION {[1..n -> Chars] : n \in 0..3}
MCContents ==
    <<{[text |-> t, number |-> Missing] : t \in AllTexts},
      {[text |-> <<"a", " ", "Z">>, number |-> 9], [text |-> <<"Z">>, number |-> 10]},
      {[text |-> <<"a", "b", " ", "a">>, number |-> 10]}>>
MCHash == <<3, 4, 5>>

C(kind, value) == [kind |-> kind, value |-> value]
R(from, to) == [kind |-> "range", from |-> from, to |-> to]
B(must, should, mustNot) ==
    [kind |-> "bool", must |-> must, should |-> should, mustNot |-> mustNot]
Ask(q, fs) == [query |-> q, filters |-> fs]
Nested[n \in 0..11] ==
    IF n = 0 THEN C("match", <<"a">>) ELSE B(<<Nested[n - 1]>>, <<>>, <<>>)
MCRequests ==
    {Ask(C("match", <<"a">>), <<>>), Ask(C("phrase", <<"a", " ", "b", " ", "Z">>), <<>>),
     Ask(C("fuzzy", <<"a", "a">>), <<>>), Ask(C("prefix", <<"a">>), <<R(Missing, 10)>>),
     Ask(R(9, Missing), <<>>), Ask(R(1250000, 2000000), <<>>),
     Ask(B(<<C("prefix", <<"a">>)>>, <<C("match", <<"Z">>), R(10, 99)>>,
           <<C("phrase", <<"b", "a">>)>>), <<>>),
     Ask(Nested[10], <<>>)}

(* Clauses that no validated request has: of no known kind, blank, without *)
(* a bound, without a child, nested too deep.                              *)
ASSUME MCRefused ==
    \A c \in {C("near", <<"a">>), C("match", <<" ">>), R(Missing, Missing),
              B(<<>>, <<>>, <<>>), Nested[11]} : ~ClauseAccepted(c)
=============================================================================
