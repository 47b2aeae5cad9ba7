---------------------------- MODULE Coordinator ----------------------------
(***************************************************************************)
(* A query over several engines: Coordinator (internal/shard/coordinator.  *)
(* go) and Merge (internal/shard/merge_results.go).  No program of the     *)
(* repository uses them: that a document is written to the shard that      *)
(* Route names, and that a result is merged, is how they are meant.        *)
(*                                                                         *)
(* Register takes any id, and puts a new engine in the place of the one    *)
(* that had it: the caller gives each id an empty engine of its own.       *)
(* Query holds the coordinator's read lock over its whole fan-out and asks *)
(* the shards one after another, in the random order of a Go map.  An      *)
(* engine answers for one moment (module Search) and is written to between *)
(* these moments.  What a clause finds in a document is left open here and *)
(* computed by module Text in Shards.  The context of the fan-out can end  *)
(* before any shard, but one without documents does not notice.  Only      *)
(* first pages are asked for: Merge drops the cursors.  Nothing here       *)
(* validates a request; that its size is positive, without which Search    *)
(* panics at the end of an empty page, is left to the caller.              *)
(***************************************************************************)
EXTENDS Integers, Sequences, FiniteSets, SequencesExt, FiniteSetsExt, Sorting

CONSTANTS
    DocIds,     \* numbers, in the order of the ids they stand for
    Contents,   \* document -> what may be written to it
    Requests,   \* [query, filters]
    Match(_, _, _), \* clause, content, candidates -> [ok, score]
    Size,       \* Request.Size
    ShardIds,   \* the ids that engines are registered with
    Hash,       \* fnv of a document id
    ShardCount, \* the argument of NewCoordinator
    None        \* no document, no query under way, no answer

ASSUME CoordinatorAssumption ==
    /\ IsFiniteSet(DocIds) /\ DocIds \subseteq Int
    /\ Hash \in [DocIds -> Nat]
    /\ ShardCount \in Int /\ ShardIds \subseteq Int
    /\ Size \in Nat \ {0}
    /\ \A request \in Requests, id \in DocIds, candidates \in 1..Cardinality(DocIds) :
         \A content \in Contents[id] :
           Match(request.query, content, candidates).score \in Int

VARIABLES
    shards,     \* Coordinator.shards: the ids registered, each with its engine
    docs,       \* shard -> document -> content
    asked,      \* the fan-out under way
    answer      \* history: what the last step answered

vars == <<shards, docs, asked, answer>>

count == IF ShardCount < 1 THEN 1 ELSE ShardCount
Route(id) == Hash[id] % count
Empty == [id \in DocIds |-> None]

Init ==
    /\ shards = {}
    /\ docs = [s \in ShardIds |-> Empty]
    /\ asked = None
    /\ answer = None
-----------------------------------------------------------------------------
(* Engine.Search on one shard; `found` is what the page was cut from.      *)
Better(a, b) == a.score > b.score \/ (a.score = b.score /\ a.id < b.id)

Found(s, request) ==
    LET live == {id \in DocIds : docs[s][id] # None}
        matches(c, id) == Match(c, docs[s][id], Cardinality(live))
        accepted == {id \in live : /\ matches(request.query, id).ok
                                   /\ \A i \in DOMAIN request.filters :
                                        matches(request.filters[i], id).ok}
    IN  {[id |-> id, score |-> matches(request.query, id).score] : id \in accepted}

Cut(hits, size) == SubSeq(hits, 1, Min({size, Len(hits)}))

Result(found) ==
    [hits |-> Cut(InOrder(found, Better), Size), total |-> Cardinality(found)]

(* Merge's loop over the results.                                          *)
Gather(results) ==
    LET after[n \in 0..Len(results)] ==
          IF n = 0 THEN [hits |-> <<>>, total |-> 0]
          ELSE [hits |-> after[n - 1].hits \o results[n].hits,
                total |-> after[n - 1].total + results[n].total]
    IN  after[Len(results)]

(* sort.SliceStable: what is equal keeps its order.                        *)
Sorted(hits) ==
    LET order == InOrder(DOMAIN hits, LAMBDA i, j :
                           \/ Better(hits[i], hits[j])
                           \/ ~Better(hits[j], hits[i]) /\ i < j)
    IN  [i \in DOMAIN hits |-> hits[order[i]]]

Merge_Concatenates(results, size) ==
    [hits |-> Cut(Gather(results).hits, size), total |-> Gather(results).total]

Merge(results, size) ==
    [hits |-> Cut(Sorted(Gather(results).hits), size), total |-> Gather(results).total]
-----------------------------------------------------------------------------
Register_Unlocked(s) ==
    /\ shards' = shards \cup {s}
    /\ docs' = [docs EXCEPT ![s] = Empty]
    /\ answer' = None /\ UNCHANGED asked

(* The write lock waits for the fan-out under way.                         *)
Register(s) ==
    /\ asked = None
    /\ shards' = shards \cup {s}
    /\ docs' = [docs EXCEPT ![s] = Empty]
    /\ answer' = None /\ UNCHANGED asked

Write_AnyRegistered(id) ==
    /\ shards # {}
    /\ \E content \in Contents[id], s \in ShardIds :
         /\ s \in shards /\ Route(id) \in shards => s = Route(id)
         /\ docs' = [docs EXCEPT ![s][id] = content]
    /\ answer' = None /\ UNCHANGED <<shards, asked>>

(* A document is written to its shard.                                     *)
Write(id) ==
    /\ Route(id) \in shards
    /\ \E content \in Contents[id] :
         docs' = [docs EXCEPT ![Route(id)][id] = content]
    /\ answer' = None /\ UNCHANGED <<shards, asked>>

(* "no shards registered"                                                  *)
Refuse ==
    /\ asked = None /\ shards = {}
    /\ UNCHANGED vars

Query(request) ==
    /\ asked = None /\ shards # {}
    /\ asked' = [request |-> request, ranged |-> shards, done |-> {},
                  results |-> <<>>, found |-> {}]
    /\ answer' = None
    /\ UNCHANGED <<shards, docs>>

SearchShard(s) ==
    /\ asked # None /\ s \in asked.ranged \ asked.done
    /\ LET found == Found(s, asked.request)
       IN  asked' = [asked EXCEPT !.done = @ \cup {s},
                                  !.results = Append(@, Result(found)),
                                  !.found = @ \cup found]
    /\ answer' = None /\ UNCHANGED <<shards, docs>>

Return(complete) ==
    /\ answer' = [complete |-> complete, of |-> asked.done, found |-> asked.found,
                  merged |-> Merge(asked.results, Size)]
    /\ asked' = None
    /\ UNCHANGED <<shards, docs>>

(* The context ended: the results so far, and the error.                   *)
SearchFails(s) ==
    /\ asked # None /\ s \in asked.ranged \ asked.done
    /\ \E id \in DocIds : docs[s][id] # None
    /\ Return(FALSE)

AllSearched == asked # None /\ asked.done = asked.ranged /\ Return(TRUE)

Next ==
    \/ \E s \in ShardIds : Register(s)
    \/ \E id \in DocIds : Write(id)
    \/ Refuse
    \/ \E request \in Requests : Query(request)
    \/ \E s \in ShardIds : SearchShard(s)
    \/ \E s \in ShardIds : SearchFails(s)
    \/ AllSearched

Spec == Init /\ [][Next]_vars
-----------------------------------------------------------------------------
(* What the coordinator and its shards hold; documents stay where Route    *)
(* sends them.                                                             *)
TypeOK ==
    /\ shards \subseteq ShardIds
    /\ docs \in [ShardIds -> [DocIds -> (UNION {Contents[id] : id \in DocIds}) \cup {None}]]
    /\ \A s \in ShardIds, id \in DocIds :
         docs[s][id] # None => s = Route(id) /\ docs[s][id] \in Contents[id]
    /\ asked # None => asked.request \in Requests /\ asked.done \subseteq shards

(* The pages of the shards, cut before they are merged, are enough: the    *)
(* merged page is the best of everything that any shard found, no document *)
(* is in it twice, and the total counts what was cut.                      *)
MergedIsTopOfAll ==
    answer # None =>
      /\ answer.merged.hits = Cut(InOrder(answer.found, Better), Size)
      /\ \A h, g \in answer.found : h.id = g.id => h = g
      /\ answer.merged.total = Cardinality(answer.found)

(* A fan-out that returns without an error has asked every shard there was *)
(* when it returned: none is registered behind its back.                   *)
CompleteAsksAll == answer # None /\ answer.complete => answer.of = shards
=============================================================================
