# A TLA+ model of the distributed search service

This directory holds a formal model of the service under `src/`: TLA+ modules for its components, TLC configurations that
check them on small instances, and proofs that TLAPS checks for every instance. All paths below are relative to `src/`.

## 1. The system and its hard parts

| Component | Code | State | Operations | Interacts with |
|---|---|---|---|---|
| Index engine | `internal/index/index.go` | `mutable`, `segments`, `generation` under `Engine.mu` | Upsert, Delete, Flush, Search, Stats, Segments | called by ingest, maintenance, HTTP |
| Write-ahead log | `internal/storage/wal.go` | file, `sequence` under `WAL.mu` | OpenWAL, Append, Replay, Close | called by ingest, recovery, main |
| Ingest service | `internal/ingest/service.go` | `engines` under `enginesMu` | Upsert, Delete, Bulk, RegisterEngine | repository, log, engine |
| Recovery | `internal/storage/recovery.go`, `cmd/indexer` | none | ReplayInto | log, a target |
| Collections | `internal/repository/memory.go`, `internal/search/domain/types.go` | `items`, idempotency `records` | Create, Get, List, Update, Reserve | called by HTTP and ingest |
| Schemas, documents | `internal/search/domain/types.go` | none | Field.Validate, NewSchema, Document.Validate | called by HTTP and ingest |
| HTTP server | `internal/transport/httpapi/server.go` | `searchSlots`, `ready` | one handler per route | everything |
| Maintenance | `internal/maintenance/service.go` | `tasks`, `paused` | ScheduleCompact, runCompact, Get, Pause, Resume | engine |
| Configuration | `internal/config/config.go` | none | Default, Load, Validate | called by main |
| searchd | `cmd/searchd/main.go` | process | start, shutdown | configuration, log, server |
| Analyzers | `internal/analyzer` | registry of pipelines | Put, Get, List, Analyze | engine, HTTP |
| Queries, cursors | `internal/query` | none | Defaults, Validate, Encode, Decode | engine, HTTP |
| Scoring | `internal/scoring` | none | BM25 | engine |
| Shards | `internal/shard` | engines of the shards | Route, Query, Merge | no caller |
| Object store | `internal/storage/wal.go` | files | Put, Get, Delete | no caller |
| Others | observability, gRPC, audit, watermark, segment merge and codec, SQL | – | – | no influence on the above |

What is hard: every HTTP request runs in its own goroutine, and each store has a lock of its own, so a handler is a sequence
of steps between which others run. A write is *log, then index* with no lock over both. The log can fail after part of a
write or in the fsync, and the process can stop anywhere. Readers work on a copy of the segment list. A creation is *reserve
the key, store, register the engine*. A schema replacement is *read, compare, compare-and-swap*. Searches wait for one of a
few slots while their clients come and go, compactions overlap, and a fan-out asks shards that are written to meanwhile.
The text side is loops over positions, where the last word, a stopword or a synonym is easily one off.

What makes each part correct:

* engine: it behaves as a map from ids to newest versions, whatever was flushed; sealed segments never change;
* log: acknowledged records are never missed silently; sequence numbers increase;
* ingest: nothing is visible that is not logged, nothing confirmed is lost, every request is answered;
* recovery: a finished replay brings back what was confirmed;
* search: an answer describes one moment; a scan gives every hit once; its pages come from one generation;
* collections: no lost replacement, one request per key, complete listings, every collection gets its engine, an indexed
  document fits the schema it is stamped with;
* server: slots are neither lost nor made, every search is answered, a task that succeeded has sealed what it was asked to;
* configuration: a setting is what the environment or the last readable line that names it says;
* text and queries: postings are the words of a text, a clause matches what its kind means;
* shards: a merged page is the best of all that was found, and complete unless it says otherwise.

The list of hazards with their lines is in `PROJECT.json`.

## 2. Modules

| Module | Models | Built on |
|---|---|---|
| `DocumentStore` | what one collection promises: a map, and the ids whose version is guarded | – |
| `Engine` | the index engine's writes and the order in which readers look a document up | – |
| `WAL` | the log file, its handle and its failures | – |
| `Ingest` | handlers over log and index; creation of the collection, compaction, shutdown, crash, start | instances of `WAL`, `Engine` |
| `Recovery` | `ReplayInto` after any execution of `Ingest` | extends `Ingest` |
| `Sorting` | the order a sort of the code's gives to the elements of a finite set | – |
| `Search` | searches on copies, cursors and page-by-page scans between writes | extends `Engine`, `Sorting` |
| `Schemas` | which schemas and documents are accepted | – |
| `Collections` | creation under a key, schema replacement, documents, listing | extends `Sorting` (its TLC instance takes `Valid` and `Fits` from `Schemas`) |
| `Config` | how a file and the environment become settings | – |
| `Server` | configuration, start, search slots, compaction tasks, shutdown, exit | extends `Config` |
| `Text` | analysis of a text, postings, evaluation of clauses, edit distance | extends `Sorting` |
| `Coordinator` | routing, fan-out and merge over several engines; what a clause finds is open | extends `Sorting` |
| `Shards` | the coordinator with the clauses of `Text`, and what they mean | extends `Coordinator`, `Text` |
| `MC…` | the model values and bounds of the TLC runs | its module |
| `Positions` | lemmas the proofs share: largest positions, induction over naturals, recursion step by step, a letter removed from a word, and that a finite set can be listed in order, in one way | – |
| `EngineProofs`, `WALProofs`, `SearchProofs`, `ServerProofs`, `CollectionsProofs`, `ShardsProofs` | the theorems | their module, `Positions` |
| `IngestProofs` | the theorems of `Ingest` and `Recovery` | `Recovery`, instances of `WALProofs` and `EngineProofs` |

Definitions whose name has an underscore (`Upsert_OffByOne`, …) are the code with a plausible mistake in it. No
specification uses them; substituted for the definition they are named after, they show that a property would notice.

### Engine
`mutable`, `segments`, `generation` are the fields of `Engine`. Every method holds the lock from entry to return and is one
action. `SealBuffer` is `flushLocked`, part of `Upsert` when the buffer reaches `maxMutable` and of `Flush`. `Newest(id)` is
what `Search` puts into its candidates: the buffered version, or else the one of the newest segment that has the id.
Contents are members of `Bodies`; postings are derived from them and left out.

The version rules are those of the code: `Delete` compares with the newest version anywhere, `Upsert` only with the buffered
one. `DocumentStore` states the promise that is left: `guarded` is the set of ids for which an upsert must raise the version,
and sealing empties it. The refinement maps `view` to `Newest` and `guarded` to the ids in the buffer.

### WAL
The file is a sequence of terminated `lines` and a `tail` without newline. A line keeps its sequence number, its operation
and its form: `valid`, `refused` (does not decode or validate) or `overlong` (beyond the scanner's 16 MiB). `Append` is two
steps under one lock (`writing`): the write, and the fsync with the return. A short write leaves a tail that is lost, broken,
or complete but for its newline; the next line is *glued* to it, and the two together cannot be decoded or are too long for
the scanner, each short enough or not. A crash keeps the synced lines, any number of later ones,
and possibly a part of the next. A successful fsync makes everything before it durable. `acked` is a history variable.
`Replay` is the operators `Delivered` and `ReplayCompletes`: it reads from offset 0, as all its callers ask it to.

### Ingest
One collection. A handler goes `idle → admitted → appending → logged → idle`; the look-ups and the validation before the
append touch no shared state that could change (engines are never removed) and are part of `Admit`. Cancellation is noticed
only before the write. `Bulk` calls `Upsert` item by item and is a handler that admits again. A compaction's one effect on
the index is `Flush`. `Close` may come while handlers work, because `Shutdown` gives up at its timeout. After `Crash` the
index is empty and the collection `lost`: searchd does not replay, and ids are random.

### Recovery
The engine variables, empty after the crash, hold the target. `ReplayRecord` hands over one record, `ReplayFails` is the
first bad line or the first error of the target, `Interrupted` ends the recovering process too. This is the library function
`ReplayInto`; no program calls it with an engine (`cmd/indexer` only counts records, searchd does not replay).

### Search
`Copy` is what `Search` does under the read lock: it clones the buffer, copies the list of segments (the segments stay
shared, so the model keeps how many there were) and the generation. `Page` is all the rest, any number of writes later: the
candidates, the hits in order, the cursor, the page and the next cursor. `Hits` is the listing of the matching documents in
the order of the comparison that `sort.SliceStable` is given; it is total, because ids differ, so there is only one. A query
is the contents it matches (`Matched`) and the score of each among a number of candidates (`Score`): BM25's inverse document
frequency depends on `len(candidates)`, tombstones included, while a range always scores 1, so a write elsewhere can exchange
two hits of a query that has both. The client asks the same query each time and passes back the cursor of the page before. A
cursor cannot be forged, so its signature is no part of the model. `Cancelled` needs a candidate, because the context is
looked at once per candidate.

When the document a cursor names is no longer among the hits, `Search` keeps its first position at 0 and the page is the
first one again; and when two hits are exchanged between two pages, the second page may repeat one. `NoHitTwice` therefore
speaks of scans in which no page started over (`scan.restarted` records that one did) and for whose pages one ranking of the
documents exists that each page's hits follow. Documents may come and go between the pages, and be given other contents and
scores, as long as no two hits change places.

### Schemas and Collections
`Schemas` gives the verdicts of `NewSchema` and `Document.Validate` on sequences of fields and on the JSON kinds of values;
`Collections` leaves them open (`Valid`, `Fits`) and its TLC instance uses the ones of `Schemas`. `records`, `stored`,
`served` and `indexed` are the maps of `IdempotencyStore`, `MemoryCollections`, `ingest.Service` and the engines, each call
one step. `Reserve*` are the three outcomes of `Reserve`. `Replay` looks the reserved collection up, and goes on to create
one when it is not there. `CreateStored` and `RegisterEngine` are the two steps of the creation, `ReplaceSchema` and `Update`
those of a replacement (`replaced` keeps the schema that each replaced), `AdmitDocument` and `IndexDocument` those of a
document (the log between them is `Ingest`'s). The document carries the schema version of the copy it was validated against.
`ListPage` is `List`, called by a client that passes `next` back. Request bodies are `Contents`; `Valid` are those the
constructors accept. `Expire` lets a key's 24 hours pass when no request has it open (requests end within the server's
timeouts). `answers` and `replaced` are histories. `createCollection` answers with an error when the analyzer `standard` is
missing, after the collection was stored; searchd always has that analyzer, so `RegisterEngine` leaves this path out.

### Config and Server
`Config` is `Load`: the defaults, then the file line by line, then the environment, then `Validate`. A line whose value is
missing is a section, whatever it was meant to be. `Intended` says the same without the loop: the environment, or the last
readable line that names the setting in its section, or the default. Values are opaque but for what `Validate` asks: `Junk`
says for each setting that is parsed which values do not parse as what it wants.

`Server` starts with a configuration (`Configure`, `Start`) and gives the channel `searchSlots` the capacity configured.
A request to `/search` or `/explain` goes `arrived → searching`, or `arrived → waiting → searching`, and its client may leave
before the slot is there. `Finish` is the deferred receive: it frees the slot or hands it to the first that waits, which is
how Go's channels work. `/msearch` and `/count` take no slot (`SearchBeside`). `ScheduleCompact` stores a task before its
goroutine runs `Running`, `FlushBuffer`, `Succeeded`. Of the index the model keeps how many documents are in the buffer and
how many in segments only: `Write` upserts a new, a sealed or a buffered document and seals a full buffer, `Delete` puts the
tombstone of a sealed one into the buffer, full or not. `owed`
is a history: the tasks accepted while documents were buffered that are not sealed yet. `Signal` is the start of the
shutdown, `Exit` its end, at the timeout or in a crash.

### Text, Coordinator and Shards
`Text` translates `Analyze` (words, ideographs, stopwords, synonyms, positions), the postings of a document, `textMatch` with
its four kinds, `consecutive`, `distance`, `rangeMatch` on formatted values, and `evaluate` of nested clauses. A number of a
JSON body is a float64, and `fmt.Sprint` prints it with an exponent from 10^6 on (`Scientific`): 1250000 is `1.25e+06`. The
model has whole numbers of up to 15 digits, which a float64 holds and prints exactly. The recursion of
`evaluate` is a function on the clauses nested in a clause, that of `validateClause` a statement about the levels of nesting,
of which there are at most ten below the first. `distance` has one row and overwrites it
from left to right, keeping the entry it needs in `prev`: `Overwrite` is that assignment, `NextRow` one pass over the row, and
`Distance` the passes for all letters. `Weight` stands for BM25. `Spans`, `Words`, `Means` and `OneEdit`
say what the loops compute, without the loops.

`KindsMean` speaks of phrases and fuzzy clauses whose own words have no synonyms (`plain`). The analyzer gives each synonym of
a word a token of its own at the word's position, in clauses too, and a phrase asks for its tokens one after the other: a
clause's word with a synonym takes two places of the phrase, even a word that is its own synonym. So such a
phrase is found only where the text has the word and, at the next place, a word that means the synonym. The words of the
text may have synonyms.

`Coordinator` leaves open what a clause finds in a document (`Match`); `Shards` gives it from `Text` in its TLC instance and
adds the properties of the text side. `Register` takes any id, and again an id that has an engine: a new, empty one takes its
place. `Coordinator.Query` validates nothing and refuses only when no shard is registered (`Refuse`); that a page has room
for a hit, and that clauses are those `validateClause` accepts, is assumed of its callers. `Query` holds the read lock, so no
`Register` happens during a fan-out, but documents are written between the shards' turns. The order of the turns is any.
`SearchFails` is the end of the context; the results so far are merged and returned with the error. `Gather` is Merge's loop,
`Sorted` its stable sort: equal hits keep their order. That a document is written to the shard `Route` names is how the
coordinator is meant; no program of the repository uses it.

## 3. What the runs show

Passing runs (TLC explores the complete state space of each):

| Run | Instance | Shows |
|---|---|---|
| `engine` | 2 ids, versions 0..2, 2 bodies, limit 2, 2 segments | generations name non-empty segments without gaps; live documents in the buffer stay below the limit; sealed segments never change; `Engine` implements `DocumentStore` |
| `wal` | an ordinary, an overlong and an unreadable record; 3 lines, 3 numbers | a replay without error has delivered every acknowledged record; sequence numbers increase up to the first overlong line |
| `ingest` | 2 handlers, 2 ids, versions 1..2, 3 requests | visible implies logged and synced; confirmed implies replayable; the highest confirmed version wins until the first seal; only an answer of success changes what readers see; every admitted request is answered |
| `recovery` | the same | a finished replay that sealed nothing has brought back every confirmed write or a later version |
| `search` | 3 ids, versions 1..2, 3 bodies of which 2 match and exchange their scores among 3 candidates, limit 2, one seal, pages of 1, at most 3 pages | a search answers for the moment it held the lock; a scan whose pages saw one collection gives every hit once, in order; no scan spans two generations; no hit comes twice unless hits changed places or a cursor's document went away |
| `collections` | 2 handlers, 1 key, 4 bodies (2 accepted, a repeated name, no field), 6 documents, 3 ids, pages of 1 | acknowledged replacements form the versions 1, 2, … of a collection; a live key answers for one request and one replayed collection; answered means served; indexed documents fit the schema their stamp names, present or replaced; listings are complete and ordered; a stored collection gets its engine |
| `server` | all files of at most 3 lines out of 8, 3 environments, 3 searches, 1 or 2 slots, 2 compactions, limit 2, 2 documents | settings come from where they should; slots are exactly the searches under way; every search is answered and every task ends; a task that succeeded sealed what it was accepted for |
| `shards` | 2 shards, 3 documents, 8 requests; one document takes all texts of at most 3 characters out of 4 | a merged page is the best of all hits, each once, with the total; a complete answer asked every shard; positions count the words that are kept; each kind of clause matches what it means; ranges follow the order of numbers that have as many digits and print in as many characters |

Runs that show where the code departs from what is said of it (each listed under `findings`):

| Run | Shows |
|---|---|
| `engine_stale` | insert version 1 or 2, flush, insert a lower version: accepted, and readers see the version fall |
| `wal_torn` | a short write, then a successful append: its record can never be read back |
| `recovery_abort` | a delete of an unknown document is refused but logged; replaying the undamaged log stops there |
| `collections_key` | two requests with one key overlap; each gets a collection of its own |

### Bounds
`MaxGeneration`, `MaxLines`, `MaxSequence`, `MaxRequests`, `MaxPages` and the finite `Ids` cap what would grow for ever. Two
segments give a lookup an older and a newer holder; three versions allow a version above, equal and below the present one,
with 0 as the edge. Three lines are a damaged line, the one glued to it and one after that. Three requests of two handlers
are a race and one that meets its outcome. In `search` two pages of one hit see two documents before the third comes and
exchanges them, or comes between them; the third page is room for one too many. Three ids let collections appear before and
behind a listing's position. In `server` three searches for one or two slots let two wait for one, so that the head of the
queue can leave; two tasks overlap in every way; two documents can be sealed and then deleted, so that tombstones alone reach
the limit; three lines are a section, a setting, and one that spoils or repeats it. In `shards` a document on each shard and
a second on one of them make pages that are cut before they are merged; a text of three characters has a word at its end, a
stopword between words and a synonym before another word. `engine` uses symmetry over ids and bodies; its properties are
safety properties and do not tell either apart. Deadlock is checked everywhere: refusals are steps, so a state without
successor would be a modelling error.

### Fairness
`Ingest` and `Collections` assume weak fairness of each handler's steps (`Handle(w)`), and nothing about clients, crashes,
compactions or restarts. Go schedules every runnable goroutine, and `sync.Mutex` hands over to a waiter that starves, so the
handler that waits for the log's lock gets it; `Write` of another handler is enabled only while nobody is in `Append`, and
requests are finite in the instance. `fsync` is assumed to return, with or without an error. `Server` assumes weak fairness
of each request's and each task's steps: a search comes to its end, and a blocked send is served in order, as the Go runtime
does it; nothing is assumed about clients, signals or crashes. `Search`, `Shards`, `Engine`, `WAL` and `Recovery` are checked
for safety only and assume none.

## 4. What is proved

TLAPS checks these for all values of the constants that satisfy the assumptions named in the modules (`EngineAssumption`:
finitely many ids, versions are naturals, the absent entry is no document, a positive limit. `WALAssumption`: the two
exceptional sets consist of operations, the missing tail is no line; the others are below). The operators that are recursive
functions (`ReadFile`, `Gather`, `Digits`, `Scan`, `Distance`, and `NextRow` with its passes of `Overwrite`) are not taken on
trust: a proof first shows, by induction with `Positions!ByInduction` (for the edit distance by way of
`Positions!RecursionExists`), that a function with the recursive equation exists, and so that the one chosen satisfies it.
The same holds for `InOrder`, which chooses a listing of a set: `Positions!OrderedListExists` makes one by putting each
element at the place given by the number of its predecessors.

* `EngineProofs!EngineInvariant`: `Safe`, the conjunction of `TypeOK`, `SegmentsNumbered` and `LiveBufferBounded`, is
  inductive as it stands. The bound needs a counting argument: an upsert that does not seal leaves fewer documents than the
  limit, tombstones included, and a delete can only shrink the set of live ones, which is a subset of the finite `DocIds`.
  `TypeCorrect`, `GenerationsNameSegments` and `LiveBufferStaysBounded` follow.
* `EngineProofs!EngineImplementsStore`: the initial state maps to the initial state; upsert, delete and flush map to `Put`,
  `Remove` and `Unguard`, refusals to stuttering. The heart is that appending the sealed buffer as the newest segment leaves
  `Newest` of every id what it was; `Positions!LargestPosition` says what `Max` of a set of positions is.
* `EngineProofs!SealedNeverChange`: every step extends the list of segments or leaves it alone.
* `WALProofs!WALInvariant`: neither property of the log is inductive. `Inv` adds `CounterAhead` (the counter of a running
  process is at least every number a scan would find), `AckedInFile` (every acknowledged record has its line, readable or
  not, among the synced lines) and `WritingIsLast` (during the fsync the record's line is the end of the file).
  `SequencesAlwaysIncrease` and `ReplayNeverLosesSilently` follow: a torn tail or a glued line can hide records, but never
  without an error.

* `SearchProofs!SearchesAnswerForOneMoment`: the copies of a search in progress keep showing what the collection was when
  they were taken, because a search reads only segments up to the one that was newest then, and those never change
  (`SealedNeverChange`'s lemma `StepsExtend`). The invariant ties the number of copied segments to the generation reported.
* `SearchProofs!ScanSafeAlways`: `ScanSafe` adds to that what a scan knows. `CursorContinues`: the cursor is the last hit
  given, of the one generation of all pages so far. `PagesAddUp`: as long as the pages saw one collection, what was given is
  a beginning of its hits, and all of them when the scan is done. `GivenInOrder`: while no page started over, the hits given
  go up *in every ranking that the hits of all pages seen so far follow*; where such a ranking exists, nothing comes twice
  although documents and scores change between the pages. `ScansComplete`, `PagesOfOneGeneration`, `HitsNotRepeated` and
  `SearchTypeCorrect` follow.
* `IngestProofs!IngestInvariant`: every step of `Ingest` is a step of the log and one of the index, or leaves them alone, or
  is the crash; so the invariants of `WALProofs` and `EngineProofs` hold in the composition. To them `Inv` adds `Handlers`
  (an operation from admission to answer), `OneAppends` (the one handler inside `Append` is the one whose line was written),
  `Accounted` (a handler between log and index, and every confirmed operation, has its acknowledged record) and `Unused`
  (nothing is confirmed before the collection is served). `LogPrecedesIndex` follows because the record is acknowledged
  before the index step and acknowledgements are never taken back; `ConfirmedSurvive` from `AckedInFile`;
  `HighestVersionWins` because an unsealed buffer is all there is and compares versions; `OnlySuccessIsVisible` because of
  all steps only `Apply` changes `Newest`.
* `IngestProofs!RecoveryInvariant`: while a replay runs the log stands still and the engine accounts for the entries handed
  over so far (`Rebuilt`): if nothing was sealed it has their versions or higher ones, and nothing else. `RecoversConfirmed`
  follows at the end of the log, where the acknowledged records are.
* `ServerProofs`: `SlotsAreHeld` with `Holds` (a queue without repetition over a set of requests) under every way to join,
  leave and be served; `SucceededTaskSealed` from the fact that a task owed its seal has not flushed yet; `SettingsComeFrom`
  by induction over the lines of the file (`FileReads`: after each line the section is the last one named and every setting
  is the last readable value under it), which `ConfigInv` carries to the loaded configuration; `TypeOK` with `BoundsInv`,
  which needs `RoomForASearch`: a configuration that `Validate` accepts has at least one slot, because the last value kept is
  a number and is compared with one. Of the documents it needs that every write and delete keeps their number within
  `Documents`; nothing bounds the buffer.
* `CollectionsProofs`: one invariant, `Stores /\ CollectionSound /\ HandlerSound /\ AnswerSound /\ OwnIds`. Its core is that
  ids drawn by `newID` belong to one creation (`OwnIds`) and that a replacement in flight started from a version that is not
  newer than the stored one. Of the schemas replaced it says that there is one for each version before the present
  (`Numbered`), and that the documents indexed or on their way fit the schema their stamp names (`FieldsOf`): a replacement
  moves the present schema to the end of that list, so the stamp keeps naming it. `TypeOK`, `NoReplacementLost`,
  `KeyNamesOneRequest`, `AnsweredAreServed` and `DocumentsFitTheirSchema` follow. `ListingComplete` has an invariant of its
  own, `ListingSound`: every collection that was there at the start and is not behind the listing's position has been seen,
  and positions only grow; collections are never removed.
* `ShardsProofs!CoordinatorInvariant`: `FanOut` says of a fan-out under way that the shards asked are registered, their hits
  are about different documents (a document is on the shard that `Route` names, whoever writes meanwhile), and each result is
  the page cut from what its shard found. `Leading(S, n)` are the hits of `S` that fewer than `n` others precede. The page of
  a set lists its leading hits; a leading hit of the union is a leading hit of its shard; so sorting the pages and cutting
  again gives the leading hits of everything found. Nothing is assumed of the clauses but that a match has a score that is a
  number. `TypeCorrect`, `CompleteAnswersAskAll` and `MergedPageIsTopOfAll` follow.
* `ShardsProofs!RangesWithinWidth`: for numbers with as many digits the order of their digits is the order of the numbers
  (`DigitsInOrder`, by induction on the tenth part, since the last digit decides only when all others agree). From 10^6 on
  the zeros at the end are dropped and an exponent is added, the same one for as many digits; `ScientificInOrder` says that
  this keeps the order where as many digits are left (`1e+06` sorts behind `1.25e+06`). A missing number sorts behind all of
  them.
* `ShardsProofs!PostingsAreWords`: what a text means is said by spans, the longest runs of letters and the single ideographs,
  which never overlap (`SpansApart`). `ScanInv` says of the scan after each character that its tokens are the postings of the
  kept spans that ended there, and that the letters since `start` are the beginning of the next one; flushing and reading a
  character keep it (`FlushReads`, `StepReads`). A span's position is the number of kept spans before it, which is its place
  in their order (`OrderedListPlaces`). A scan without synonyms numbers its tokens one by one, which `KindsMean` needs.
* `ShardsProofs!ClausesMean`: `TokensAre` turns the tokens of clause and text into their words, and `FindsIs` turns
  `TextMatch` into a statement about words and places (`Fits`), without the weights, which decide nothing. A phrase fits
  where a start in the first group is followed in each other group, and `PhraseFollows` shifts that start to the place before
  the phrase. For fuzzy clauses `DistanceTable` says that the rows are a table in which each entry is the least of three,
  `NoEditInTable` that an entry is 0 exactly for equal beginnings, and `OneEditInTable` that it is at most 1 exactly for
  beginnings that are `Near`: one letter exchanged at one place, or one that the shorter beginning skips. `NearNext` is the
  step of that induction: an entry is at most 1 if one beside it is 0, or the letters agree and the entry before both is at
  most 1. Nothing is said about distances above 1: the code compares with 1 only. `DistanceIsOneEdit` is the result for whole
  words.

Further assumptions: `IngestAssumption` (those of log and index, an idle handler's operation is none, and bounds that stop no
admitted request), `SearchAssumption` (scores by number of candidates and contents are naturals, ids are totally ordered, a
page holds at least one hit, and the missing cursor is no cursor), `ConfigAssumption` (the defaults are values, the settings
that `Validate` compares are parsed and their readable values are numbers, and no setting the environment can give is
parsed), `ServerAssumption` (finitely many requests, files of lines, a positive buffer limit), `CollectionsAssumption`
(finitely many ids which are positive numbers, a positive page size, no key is the missing one) and `AbsentAssumption`,
`CoordinatorAssumption` (finitely many documents, a hash, ids of shards that are integers, a positive page size, scores that
are numbers), `TextAssumption` (letters and ideographs are apart, lower case of a letter is a letter, a word's synonyms are a
sequence of words, which are sequences), `ShardsAssumption` (the clauses of requests are validated; texts and the values of
text clauses are sequences of characters, numbers and bounds of ranges are whole and have at most 15 digits, or are missing).
They say what the constants are, and every run evaluates the ones of its modules.

Only model-checked: liveness (`EveryRequestAnswered`, `EveryCollectionServed`, `SearchAnswered`, `TaskEnds`), because it
rests on fairness and so on ENABLED, about which the provers cannot reason. Every other property of a passing run is a
theorem.

## 5. What is not modelled, and why

* Object store and snapshots, segment merge and codec, watermark, audit list, the versioned analyzer registry, `cost.go`,
  `Pause` and `Resume`: no program of the repository calls them in a way that changes anything modelled; engines take the
  pipeline `standard` when they are made and keep it.
* The gRPC contracts answer `unimplemented`; no code opens the database of the SQL migration.
* Logging, metrics, tracing and the HTTP middleware: nothing reads them back.
* Floating-point arithmetic of scores: a score by contents and number of candidates in `Search`, a weight in `Text`. Numbers
  in documents are whole and have at most 15 digits; fractions, signs and longer numbers are left out.
* The bytes of JSON, SHA-256 and HMAC: a line is valid or not, a cursor genuine or not used.
* Several collections over one log: replay hands ids without tenant or collection to its target, and no program has such a
  target.
* Cursors taken from one collection to another: they are accepted if the generations agree, and then name a document that is
  among the hits or not, which is a case of `Search`.

## 6. Running

    tlc -config engine.cfg MCEngine.tla      # one run; the pairs are listed in PROJECT.json
    tlapm EngineProofs.tla                   # the proofs of one module
