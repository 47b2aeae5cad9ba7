------------------------------- MODULE Search -------------------------------
(***************************************************************************)
(* Engine.Search (internal/index/index.go) and the cursors that continue a *)
(* result (internal/query/query.go, CursorCodec), while writers go on.     *)
(*                                                                         *)
(* A search copies the buffer, the list of segments and the generation     *)
(* under the read lock, and does everything else without it: it is two     *)
(* steps here.  Segments are shared with the engine, the buffer is a copy. *)
(* One client asks one query over and over, first without a cursor and     *)
(* then with the one it was given.  Whether the query matches a document   *)
(* depends on its contents, its score on these and on how many candidates  *)
(* there are: a term weighs more among more documents and a range always 1,*)
(* so that a document written elsewhere can exchange two hits.  A cursor   *)
(* is opaque, so it is genuine or not used.  Searches do not disturb each  *)
(* other: one at a time is enough.                                         *)
(***************************************************************************)
EXTENDS Engine, Sorting, SequencesExt

CONSTANTS
    Matched,    \* the contents that the query matches
    Score,      \* number of candidates -> contents -> score of the match
    Before(_, _), \* the order of document ids
    Size,       \* Request.Size
    Nothing,    \* no search in progress; no cursor
    MaxPages    \* bound: pages asked for in one scan

Cursor == [afterID: DocIds, generation: Nat, expired: BOOLEAN]
Scan == [given: Seq(DocIds), views: SUBSET DocMap, generations: SUBSET Nat, pages: Nat,
         done: BOOLEAN, restarted: BOOLEAN]

ASSUME SearchAssumption ==
    /\ Matched \subseteq Bodies
    /\ Score \in [0..Cardinality(DocIds) -> [Bodies -> Nat]]
    /\ Nothing \notin Cursor
    /\ Size \in Nat \ {0}
    /\ MaxPages \in Nat
    /\ \A a \in DocIds : ~Before(a, a)
    /\ \A a, b, c \in DocIds : Before(a, b) /\ Before(b, c) => Before(a, c)
    /\ \A a, b \in DocIds : a = b \/ Before(a, b) \/ Before(b, a)

VARIABLES
    search,     \* the copies that the search in progress has taken
    cursor,     \* the client's next_cursor, its next search_after
    scan        \* history: the pages of the client's current scan

searchVars == <<search, cursor, scan>>

(* Underscored names are plausible mistakes, as in the other modules.      *)

View == [id \in DocIds |-> Newest(id)]

(* The documents a search considers: the newest segment's version among    *)
(* the copied ones, overridden by the copy of the buffer.                  *)
Candidates_LiveBuffer ==
    [id \in DocIds |->
       LET holders == {i \in Holders(id) : i <= search.sealed}
       IN  IF mutable[id] # NoDoc THEN mutable[id]
           ELSE IF holders = {} THEN NoDoc ELSE segments[Max(holders)].docs[id]]

Candidates ==
    [id \in DocIds |->
       LET holders == {i \in Holders(id) : i <= search.sealed}
       IN  IF search.buffer[id] # NoDoc THEN search.buffer[id]
           ELSE IF holders = {} THEN NoDoc ELSE segments[Max(holders)].docs[id]]

(* The live documents that the query matches.                              *)
Matching(docs) == {id \in DocIds : /\ docs[id] # NoDoc /\ ~docs[id].deleted
                                   /\ docs[id].body \in Matched}

(* The score of a document: tombstones count as candidates.                *)
Scored(docs, id) == Score[Cardinality({d \in DocIds : docs[d] # NoDoc})][docs[id].body]

Better(docs, a, b) ==
    \/ Scored(docs, a) > Scored(docs, b)
    \/ /\ Scored(docs, a) = Scored(docs, b)
       /\ Before(a, b)

(* All of them, best first, ties in the order of ids.                      *)
Hits(docs) == InOrder(Matching(docs), LAMBDA a, b : Better(docs, a, b))

After_OneTooFar(hits, c) ==
    LET at == {i \in DOMAIN hits : c # Nothing /\ hits[i] = c.afterID}
    IN  IF at = {} THEN hits ELSE SubSeq(hits, Min(at) + 2, Len(hits))

After_FromIt(hits, c) ==
    LET at == {i \in DOMAIN hits : c # Nothing /\ hits[i] = c.afterID}
    IN  IF at = {} THEN hits ELSE SubSeq(hits, Min(at), Len(hits))

(* The hits behind the document a cursor names: all of them when it is not *)
(* among the hits.                                                         *)
After(hits, c) ==
    LET at == {i \in DOMAIN hits : c # Nothing /\ hits[i] = c.afterID}
    IN  IF at = {} THEN hits ELSE SubSeq(hits, Min(at) + 1, Len(hits))

NoPages == [given |-> <<>>, views |-> {}, generations |-> {}, pages |-> 0, done |-> FALSE,
            restarted |-> FALSE]

SearchInit ==
    /\ Init
    /\ search = Nothing
    /\ cursor = Nothing
    /\ scan = NoPages
-----------------------------------------------------------------------------
(* A writer's or maintenance's call on the engine.                         *)
Write == Next /\ UNCHANGED searchVars

Copy_NextGeneration ==
    search' = [sealed |-> Len(segments), buffer |-> mutable,
               generation |-> IF Present(mutable) = {} THEN generation ELSE generation + 1,
               view |-> View]

(* The copies are taken under the read lock.                               *)
Copy ==
    search' = [sealed |-> Len(segments), buffer |-> mutable,
               generation |-> generation, view |-> View]

(* A first page is asked for, whatever became of the last scan.            *)
Begin ==
    /\ search = Nothing /\ MaxPages > 0
    /\ Copy
    /\ cursor' = Nothing
    /\ scan' = [NoPages EXCEPT !.pages = 1]
    /\ UNCHANGED vars

(* The next page is asked for with the cursor of the last.                 *)
Continue ==
    /\ search = Nothing /\ cursor # Nothing /\ scan.pages < MaxPages
    /\ Copy
    /\ scan' = [scan EXCEPT !.pages = @ + 1]
    /\ UNCHANGED <<vars, cursor>>

Accepted_AnyGeneration ==
    cursor # Nothing => ~cursor.expired

(* A cursor is accepted while it has not expired and no buffer was sealed  *)
(* since it was made.                                                      *)
Accepted ==
    cursor # Nothing =>
      ~cursor.expired /\ cursor.generation = search.generation

(* The rest of Search: a page, and a cursor if the page is full.           *)
Page ==
    /\ search # Nothing /\ Accepted
    /\ LET hits == After(Hits(Candidates), cursor)
           page == SubSeq(hits, 1, Min({Size, Len(hits)}))
           full == Len(page) = Size
       IN  /\ cursor' = IF full THEN [afterID |-> Last(page),
                                      generation |-> search.generation, expired |-> FALSE]
                        ELSE Nothing
           /\ scan' = [scan EXCEPT !.given = @ \o page,
                                   !.views = @ \cup {search.view},
                                   !.generations = @ \cup {search.generation},
                                   !.done = ~full,
                                   !.restarted = @ \/ (cursor # Nothing /\
                                     cursor.afterID \notin ToSet(Hits(Candidates)))]
    /\ search' = Nothing
    /\ UNCHANGED vars

(* "generation is no longer available", "cursor expired", or the context   *)
(* ended: the client gives up the scan.                                    *)
Abandon ==
    /\ search' = Nothing /\ cursor' = Nothing
    /\ scan' = NoPages
    /\ UNCHANGED vars

Refuse == search # Nothing /\ ~Accepted /\ Abandon
Cancelled == search # Nothing /\ Candidates # [id \in DocIds |-> NoDoc] /\ Abandon

(* 15 minutes pass.                                                        *)
Expire ==
    /\ cursor # Nothing
    /\ cursor' = [cursor EXCEPT !.expired = TRUE]
    /\ UNCHANGED <<vars, search, scan>>

SearchNext ==
    \/ Write
    \/ Begin
    \/ Continue
    \/ Page
    \/ Refuse
    \/ Cancelled
    \/ Expire

SearchSpec == SearchInit /\ [][SearchNext]_<<vars, searchVars>>
-----------------------------------------------------------------------------
(* The engine, the search in progress, the cursor and the history.         *)
SearchTypeOK ==
    /\ TypeOK
    /\ search = Nothing \/ /\ search.sealed \in 0..Len(segments)
                           /\ search.buffer \in DocMap /\ search.view \in DocMap
                           /\ search.generation \in 0..generation
    /\ cursor = Nothing \/ /\ cursor \in Cursor
                           /\ cursor.generation <= generation
    /\ scan \in Scan

(* What a search works with, long after it released the lock, is what the  *)
(* collection was when it held it, and the generation it reports is that   *)
(* of the copy: writes and flushes in between do not show.                 *)
SearchesOneMoment ==
    search # Nothing =>
      /\ Candidates = search.view
      /\ search.sealed = search.generation

(* A scan to its end, during which no page saw another collection than     *)
(* the first, has given every hit once, in order.                          *)
ScanComplete ==
    scan.done /\ Cardinality(scan.views) = 1 =>
      \A view \in scan.views : scan.given = Hits(view)

(* "refused when the index generation differs": the pages of one scan all  *)
(* come from one generation.                                               *)
OneGenerationPerScan == Cardinality(scan.generations) <= 1

(* While every page finds its cursor's document among the hits, and the    *)
(* hits that the pages saw go into one ranking, a scan gives no hit twice, *)
(* whatever is written between the pages.  (When the document is gone, the *)
(* page starts over from the first hit; when an update of a document, or   *)
(* the number of candidates, exchanges hits, a page may repeat one.)       *)
Ranks(rank, v) ==
    \A a, b \in Matching(v) : Better(v, a, b) => rank[a] < rank[b]

NoHitTwice ==
    \/ IsInjective(scan.given)
    \/ scan.restarted
    \/ ~\E rank \in [DocIds -> 1..Cardinality(DocIds)] : \A v \in scan.views : Ranks(rank, v)
=============================================================================
