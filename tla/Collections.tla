---------------------------- MODULE Collections ----------------------------
(***************************************************************************)
(* The collections of one tenant: the handlers that create them, replace   *)
(* their schema, list them and write documents into them                   *)
(* (internal/transport/httpapi/server.go) over MemoryCollections and       *)
(* IdempotencyStore (internal/repository/memory.go) and the engines of     *)
(* ingest.Service.  The log between the two steps of a document's way is   *)
(* the concern of module Ingest.                                           *)
(*                                                                         *)
(* Each call into one of the three stores holds that store's lock and is   *)
(* one step; handlers interleave between the calls.  Every map is keyed by *)
(* tenant first, so tenants never meet.  All of it is memory: a restart is *)
(* a new behaviour from Init.                                              *)
(***************************************************************************)
EXTENDS Naturals, Sequences, FiniteSets, SequencesExt, Sorting

CONSTANTS
    Workers,        \* handler goroutines
    Keys, NoKey,    \* Idempotency-Key values; no such header
    Contents,       \* decoded bodies of the creations that clients send
    Valid,          \* bodies NewSchema and NewCollection accept
    Documents,      \* fields of a document
    Fits(_, _),     \* which of them Document.Validate accepts under a schema
    Ids,            \* collection ids; bound: ids newID hands out
    Absent,         \* no record, no collection, no call
    PageSize,       \* limit of a listing
    MaxRequests     \* bound: creations and replacements started

ASSUME CollectionsAssumption ==
    /\ Ids \subseteq Nat \ {0} /\ IsFiniteSet(Ids)
    /\ NoKey \notin Keys
    /\ PageSize \in Nat \ {0}
    /\ MaxRequests \in Nat

VARIABLES
    records,    \* IdempotencyStore.records: key -> request hash and resource
    stored,     \* MemoryCollections.items: id -> collection
    served,     \* ids in Service.engines
    indexed,    \* id -> documents in its engine, with their SchemaVersion
    pc,         \* where each handler is
    call,       \* its locals
    page,       \* a client's listing: where it is and what it has been given
    issued,     \* requests started
    answers,    \* history: creations answered with success under a live key
    replaced    \* history: replacements answered with success, id -> their If-Match
                \* and the schema that each replaced

vars == <<records, stored, served, indexed, pc, call, page, issued, answers, replaced>>

Collection == [version: Nat, schema: Nat, fields: Valid]
IdempotencyRecord == [content: Contents, resource: Ids]
Creation == [key: Keys \cup {NoKey}, content: Contents, id: Ids, resource: Ids]
Replacement == [id: Ids, expected: Nat, next: Collection]
Document == [fields: Documents, schema: Nat]
Replaced == [expected: Nat, fields: Valid]

ASSUME AbsentAssumption == Absent \notin Collection \cup IdempotencyRecord \cup Creation

(* Underscored names are the code with a plausible mistake in it; no       *)
(* specification uses them.  They measure what the properties notice.      *)

Existing == {id \in Ids : stored[id] # Absent}

Init ==
    /\ records = [k \in Keys |-> Absent]
    /\ stored = [id \in Ids |-> Absent]
    /\ served = {}
    /\ indexed = [id \in Ids |-> {}]
    /\ pc = [w \in Workers |-> "idle"]
    /\ call = [w \in Workers |-> Absent]
    /\ page = [after |-> 0, seen |-> <<>>, owed |-> {}, done |-> TRUE]
    /\ issued = 0
    /\ answers = {}
    /\ replaced = [id \in Ids |-> <<>>]
-----------------------------------------------------------------------------
Begin(w, step, locals) ==
    /\ pc[w] = "idle" /\ issued < MaxRequests
    /\ issued' = issued + 1
    /\ pc' = [pc EXCEPT ![w] = step]
    /\ call' = [call EXCEPT ![w] = locals]

Proceed(w, step) == pc' = [pc EXCEPT ![w] = step] /\ UNCHANGED call

Answer(w) ==
    /\ pc' = [pc EXCEPT ![w] = "idle"]
    /\ call' = [call EXCEPT ![w] = Absent]

Success(w, id, replayed) ==
    LET c == call[w]
    IN  answers' = answers \cup
            (IF c.key = NoKey THEN {}
             ELSE {[key |-> c.key, content |-> c.content, id |-> id, replayed |-> replayed]})

(* newID: 16 random bytes that nothing else is named by.                   *)
NewId ==
    Ids \ (Existing
           \cup {records[k].resource : k \in {j \in Keys : records[j] # Absent}}
           \cup {call[w].id : w \in {v \in Workers : call[v] # Absent}})

CreateUnkeyed(w) ==
    /\ \E content \in Contents, id \in NewId :
         Begin(w, "creating",
               [key |-> NoKey, content |-> content, id |-> id, resource |-> id])
    /\ UNCHANGED <<indexed, records, stored, served, page, answers, replaced>>

(* Reserve: a new or expired key is taken for the request.                 *)
Reserve(w, key) ==
    /\ records[key] = Absent
    /\ \E content \in Contents, id \in NewId :
         /\ Begin(w, "creating",
                  [key |-> key, content |-> content, id |-> id, resource |-> id])
         /\ records' = [records EXCEPT ![key] = [content |-> content, resource |-> id]]
    /\ UNCHANGED <<indexed, stored, served, page, answers, replaced>>

ReserveReplayed_AnyContent(w, key) ==
    /\ records[key] # Absent
    /\ \E content \in Contents, id \in NewId :
         Begin(w, "replaying", [key |-> key, content |-> content, id |-> id,
                                resource |-> records[key].resource])
    /\ UNCHANGED <<indexed, records, stored, served, page, answers, replaced>>

(* The same request under a live key: the reserved resource is looked up.  *)
ReserveReplayed(w, key) ==
    /\ records[key] # Absent
    /\ \E id \in NewId :
         Begin(w, "replaying", [key |-> key, content |-> records[key].content,
                                id |-> id, resource |-> records[key].resource])
    /\ UNCHANGED <<indexed, records, stored, served, page, answers, replaced>>

(* Another request under a live key is refused ("idempotency_conflict").   *)
ReserveConflict(w, key) ==
    /\ pc[w] = "idle" /\ records[key] # Absent
    /\ \E content \in Contents : content # records[key].content
    /\ UNCHANGED vars

(* The resource exists and is the answer; otherwise the handler goes on    *)
(* and creates a collection under the id it drew itself.                   *)
Replay(w) ==
    /\ pc[w] = "replaying"
    /\ IF call[w].resource \in Existing
       THEN Success(w, call[w].resource, TRUE) /\ Answer(w)
       ELSE Proceed(w, "creating") /\ UNCHANGED answers
    /\ UNCHANGED <<indexed, records, stored, served, page, issued, replaced>>

Store(w) ==
    stored' = [stored EXCEPT ![call[w].id] =
                 [version |-> 1, schema |-> 1, fields |-> call[w].content]]

CreateInvalid_Continues(w) ==
    /\ pc[w] = "creating" /\ call[w].content \notin Valid
    /\ Store(w)
    /\ Proceed(w, "registering")
    /\ UNCHANGED <<indexed, records, served, page, issued, answers, replaced>>

(* "invalid_schema", "invalid_collection": the key stays reserved.         *)
CreateInvalid(w) ==
    /\ pc[w] = "creating" /\ call[w].content \notin Valid
    /\ Answer(w)
    /\ UNCHANGED <<indexed, records, stored, served, page, issued, answers, replaced>>

CreateStored_AnswersEarly(w) ==
    /\ pc[w] = "creating" /\ call[w].content \in Valid
    /\ Store(w)
    /\ Success(w, call[w].id, FALSE)
    /\ Answer(w)
    /\ UNCHANGED <<indexed, records, served, page, issued, replaced>>

CreateStored(w) ==
    /\ pc[w] = "creating" /\ call[w].content \in Valid
    /\ Store(w)
    /\ Proceed(w, "registering")
    /\ UNCHANGED <<indexed, records, served, page, issued, answers, replaced>>

RegisterEngine(w) ==
    /\ pc[w] = "registering"
    /\ served' = served \cup {call[w].id}
    /\ Success(w, call[w].id, FALSE)
    /\ Answer(w)
    /\ UNCHANGED <<indexed, records, stored, page, issued, replaced>>
-----------------------------------------------------------------------------
(* replaceSchema: a copy is read, If-Match is compared with the copy, and  *)
(* the copy is given the next schema.                                      *)
ReplaceSchema(w, id) ==
    /\ id \in Existing
    /\ LET copy == stored[id]
       IN  \E content \in Valid :
             Begin(w, "replacing",
                   [id |-> id, expected |-> copy.version,
                    next |-> [version |-> copy.version + 1,
                              schema |-> copy.schema + 1, fields |-> content]])
    /\ UNCHANGED <<indexed, records, stored, served, page, answers, replaced>>

(* Not found, a bad body, a bad schema, or another version than expected.  *)
ReplaceRefused(w) ==
    /\ pc[w] = "idle"
    /\ UNCHANGED vars

Update_Unchecked(w) ==
    /\ pc[w] = "replacing"
    /\ stored' = [stored EXCEPT ![call[w].id] = call[w].next]
    /\ replaced' = [replaced EXCEPT ![call[w].id] =
                      Append(@, [expected |-> call[w].expected,
                                 fields |-> stored[call[w].id].fields])]
    /\ Answer(w)
    /\ UNCHANGED <<indexed, records, served, page, issued, answers>>

(* Update stores the copy if the collection still has the copy's version.  *)
Update(w) ==
    /\ pc[w] = "replacing"
    /\ LET id == call[w].id
       IN  IF stored[id].version = call[w].expected
           THEN /\ stored' = [stored EXCEPT ![id] = call[w].next]
                /\ replaced' = [replaced EXCEPT ![id] =
                                  Append(@, [expected |-> call[w].expected,
                                             fields |-> stored[id].fields])]
           ELSE UNCHANGED <<stored, replaced>>
    /\ Answer(w)
    /\ UNCHANGED <<indexed, records, served, page, issued, answers>>
-----------------------------------------------------------------------------
(* Service.Upsert: a copy of the collection is read, and the document is   *)
(* validated against the copy's schema and stamped with its version.       *)
AdmitDocument(w, id) ==
    /\ id \in Existing \cap served
    /\ \E fields \in {f \in Documents : Fits(f, stored[id].fields)} :
         Begin(w, "documenting",
               [id |-> id, document |-> [fields |-> fields, schema |-> stored[id].schema]])
    /\ UNCHANGED <<records, stored, served, indexed, page, answers, replaced>>

IndexDocument_StampsLate(w) ==
    /\ pc[w] = "documenting"
    /\ LET id == call[w].id
           document == [call[w].document EXCEPT !.schema = stored[id].schema]
       IN  indexed' = [indexed EXCEPT ![id] = @ \cup {document}]
    /\ Answer(w)
    /\ UNCHANGED <<records, stored, served, page, issued, answers, replaced>>

IndexDocument(w) ==
    /\ pc[w] = "documenting"
    /\ indexed' = [indexed EXCEPT ![call[w].id] = @ \cup {call[w].document}]
    /\ Answer(w)
    /\ UNCHANGED <<records, stored, served, page, issued, answers, replaced>>
-----------------------------------------------------------------------------
(* A client lists the collections page by page, passing back `next`.  List *)
(* runs under the lock, but collections appear between the pages.          *)
ListStart ==
    /\ page.done
    /\ page' = [after |-> 0, seen |-> <<>>, owed |-> Existing, done |-> FALSE]
    /\ UNCHANGED <<indexed, records, stored, served, pc, call, issued, answers, replaced>>

ListPage_NextUnseen ==
    /\ ~page.done
    /\ LET items == InOrder({id \in Existing : id > page.after}, <)
           more == Len(items) > PageSize
       IN  page' = [page EXCEPT
                !.seen = @ \o (IF more THEN SubSeq(items, 1, PageSize) ELSE items),
                !.after = IF more THEN items[PageSize + 1] ELSE @,
                !.done = ~more]
    /\ UNCHANGED <<indexed, records, stored, served, pc, call, issued, answers, replaced>>

ListPage ==
    /\ ~page.done
    /\ LET items == InOrder({id \in Existing : id > page.after}, <)
           more == Len(items) > PageSize
       IN  page' = [page EXCEPT
                !.seen = @ \o (IF more THEN SubSeq(items, 1, PageSize) ELSE items),
                !.after = IF more THEN items[PageSize] ELSE @,
                !.done = ~more]
    /\ UNCHANGED <<indexed, records, stored, served, pc, call, issued, answers, replaced>>

(* 24 hours pass: Reserve takes an expired record for none.  No request    *)
(* is open that long.                                                      *)
Expire(key) ==
    /\ records[key] # Absent
    /\ \A w \in Workers : pc[w] \in {"creating", "replaying", "registering"} =>
                            call[w].key # key
    /\ records' = [records EXCEPT ![key] = Absent]
    /\ answers' = {a \in answers : a.key # key}
    /\ UNCHANGED <<indexed, stored, served, pc, call, page, issued, replaced>>

Handle(w) ==
    \/ Replay(w) \/ CreateInvalid(w) \/ CreateStored(w) \/ RegisterEngine(w)
    \/ Update(w) \/ IndexDocument(w)

Next ==
    \/ \E w \in Workers : CreateUnkeyed(w)
    \/ \E w \in Workers, key \in Keys : Reserve(w, key)
    \/ \E w \in Workers, key \in Keys : ReserveReplayed(w, key)
    \/ \E w \in Workers, key \in Keys : ReserveConflict(w, key)
    \/ \E w \in Workers, id \in Ids : ReplaceSchema(w, id)
    \/ \E w \in Workers : ReplaceRefused(w)
    \/ \E w \in Workers, id \in Ids : AdmitDocument(w, id)
    \/ \E w \in Workers : Handle(w)
    \/ ListStart
    \/ ListPage
    \/ \E key \in Keys : Expire(key)

(* Go schedules every goroutine, and no handler step waits for another's.  *)
Fairness == \A w \in Workers : WF_vars(Handle(w))

Spec == Init /\ [][Next]_vars /\ Fairness
-----------------------------------------------------------------------------
(* Stores, handlers and histories have the declared form; a handler at     *)
(* work has the locals of its request.                                     *)
TypeOK ==
    /\ records \in [Keys -> IdempotencyRecord \cup {Absent}]
    /\ stored \in [Ids -> Collection \cup {Absent}]
    /\ served \subseteq Ids
    /\ indexed \in [Ids -> SUBSET Document]
    /\ pc \in [Workers -> {"idle", "replaying", "creating", "registering", "replacing",
                          "documenting"}]
    /\ \A w \in Workers :
         CASE pc[w] = "idle" -> call[w] = Absent
           [] pc[w] = "replacing" -> call[w] \in Replacement
           [] pc[w] = "documenting" -> call[w] \in [id: Ids, document: Document]
           [] OTHER -> call[w] \in Creation
    /\ issued \in 0..MaxRequests
    /\ replaced \in [Ids -> Seq(Replaced)]

(* The replacements of a schema that were answered with success started    *)
(* from the versions 1, 2, ..., each exactly once, and brought the         *)
(* collection to its version: none overwrites another, however the reads   *)
(* and the updates of several handlers interleave.                         *)
NoReplacementLost ==
    \A id \in Existing :
      /\ Len(replaced[id]) = stored[id].version - 1
      /\ \A n \in DOMAIN replaced[id] : replaced[id][n].expected = n
      /\ stored[id].schema = stored[id].version

(* While a key is live it answers for one request, and all answers that    *)
(* say they are replayed name the collection reserved for the key.         *)
KeyNamesOneRequest ==
    \A a \in answers :
      /\ records[a.key] # Absent
      /\ a.content = records[a.key].content
      /\ a.replayed => a.id = records[a.key].resource

(* An engine is registered only for a collection that exists, and an       *)
(* answer of success to its creator comes after it can take documents.     *)
AnsweredAreServed ==
    /\ served \subseteq Existing
    /\ \A a \in answers : ~a.replayed => a.id \in served

(* The version stamped on an indexed document names a schema that the      *)
(* collection has or had, and the document fits that schema, however often *)
(* it was replaced between validation and indexing, and since.             *)
SchemaOf(id, version) ==
    IF version = stored[id].schema THEN stored[id].fields ELSE replaced[id][version].fields
DocumentsFitTheirSchema ==
    \A id \in Ids : \A d \in indexed[id] :
      /\ d.schema \in 1..stored[id].schema
      /\ Fits(d.fields, SchemaOf(id, d.schema))

(* A complete listing has every collection that existed when it began,     *)
(* each once and in order, while others are created before and after the   *)
(* position it has reached.                                                *)
ListingComplete ==
    page.done =>
      /\ page.owed \subseteq ToSet(page.seen)
      /\ \A i, j \in 1..Len(page.seen) : i < j => page.seen[i] < page.seen[j]

(* A collection that is stored gets its engine.                            *)
EveryCollectionServed == \A id \in Ids : id \in Existing ~> id \in served

(* "Writes support Idempotency-Key": all answers to one key name the same  *)
(* collection.                                                             *)
IdempotentCreate ==
    \A a, b \in answers : a.key = b.key => a.id = b.id
=============================================================================
