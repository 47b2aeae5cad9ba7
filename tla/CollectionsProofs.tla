-------------------------- MODULE CollectionsProofs --------------------------
(* What the collection handlers promise, for any number of handlers, keys, *)
(* bodies and collections.                                                 *)
EXTENDS Collections, Positions, SequenceTheorems, TLAPS

Creating(w) == pc[w] \in {"replaying", "creating", "registering"}

(* The replacements of the versions 1, ..., n.                             *)
Numbered(past, n) ==
    past \in Seq(Replaced) /\ Len(past) = n /\ \A i \in 1..n : past[i].expected = i

(* A document against the collection it is, or is about to be, indexed in, *)
(* and what that was before.                                               *)
FieldsOf(version, collection, past) ==
    IF version = collection.schema THEN collection.fields ELSE past[version].fields

DocumentSound(d, collection, past) ==
    /\ d.schema \in 1..collection.schema
    /\ Fits(d.fields, FieldsOf(d.schema, collection, past))

CollectionSound(id) ==
    IF stored[id] = Absent
    THEN replaced[id] = <<>> /\ indexed[id] = {} /\ id \notin served
    ELSE /\ stored[id].version \in Nat \ {0}
         /\ stored[id].schema = stored[id].version
         /\ Numbered(replaced[id], stored[id].version - 1)
         /\ \A d \in indexed[id] : DocumentSound(d, stored[id], replaced[id])

(* A creation owns the id it drew until it stores it, and holds its key.   *)
CreationSound(w) ==
    /\ call[w] \in Creation
    /\ (stored[call[w].id] # Absent) <=> pc[w] = "registering"
    /\ call[w].key # NoKey =>
         /\ records[call[w].key] # Absent
         /\ records[call[w].key].content = call[w].content
         /\ pc[w] = "replaying" => call[w].resource = records[call[w].key].resource

ReplacementSound(w) ==
    /\ call[w] \in Replacement
    /\ stored[call[w].id] # Absent
    /\ call[w].next.version = call[w].expected + 1
    /\ call[w].next.schema = call[w].next.version

DocumentingSound(w) ==
    /\ call[w] \in [id: Ids, document: Document]
    /\ stored[call[w].id] # Absent
    /\ DocumentSound(call[w].document, stored[call[w].id], replaced[call[w].id])

HandlerSound(w) ==
    /\ pc[w] = "idle" => call[w] = Absent
    /\ Creating(w) => CreationSound(w)
    /\ pc[w] = "replacing" => ReplacementSound(w)
    /\ pc[w] = "documenting" => DocumentingSound(w)

AnswerSound(a) ==
    /\ a.key \in Keys /\ a.id \in Ids /\ a.replayed \in BOOLEAN
    /\ records[a.key] # Absent
    /\ a.content = records[a.key].content
    /\ IF a.replayed THEN a.id = records[a.key].resource ELSE a.id \in served

Stores ==
    /\ records \in [Keys -> IdempotencyRecord \cup {Absent}]
    /\ stored \in [Ids -> Collection \cup {Absent}]
    /\ served \subseteq Ids
    /\ indexed \in [Ids -> SUBSET Document]
    /\ pc \in [Workers -> {"idle", "replaying", "creating", "registering", "replacing",
                          "documenting"}]
    /\ DOMAIN call = Workers
    /\ call = [w \in Workers |-> call[w]]
    /\ replaced = [id \in Ids |-> replaced[id]]
    /\ issued \in 0..MaxRequests

OwnIds ==
    \A v, w \in Workers : v # w /\ Creating(v) /\ Creating(w) => call[v].id # call[w].id

(* The inductive invariant.                                                *)
Inv ==
    /\ Stores
    /\ \A id \in Ids : CollectionSound(id)
    /\ \A w \in Workers : HandlerSound(w)
    /\ \A a \in answers : AnswerSound(a)
    /\ OwnIds

LEMMA InvHoldsInitially == Init => Inv
  <1> SUFFICES ASSUME Init PROVE Inv
    OBVIOUS
  <1>1. Stores
    BY CollectionsAssumption DEF Init, Stores
  <1>2. ASSUME NEW id \in Ids PROVE CollectionSound(id)
    BY DEF Init, CollectionSound
  <1>3. ASSUME NEW w \in Workers PROVE HandlerSound(w) /\ ~Creating(w)
    BY DEF Init, HandlerSound, Creating
  <1>4. \A a \in answers : AnswerSound(a)
    BY DEF Init
  <1> QED BY <1>1, <1>2, <1>3, <1>4 DEF Inv, OwnIds

-----------------------------------------------------------------------------
(* The invariant implies what the runs check.                              *)
LEMMA InvSuffices ==
    ASSUME Inv
    PROVE  /\ TypeOK
           /\ NoReplacementLost
           /\ KeyNamesOneRequest
           /\ AnsweredAreServed
           /\ DocumentsFitTheirSchema
  <1>1. TypeOK
    <2>1. ASSUME NEW w \in Workers
          PROVE  CASE pc[w] = "idle" -> call[w] = Absent
                   [] pc[w] = "replacing" -> call[w] \in Replacement
                   [] pc[w] = "documenting" -> call[w] \in [id: Ids, document: Document]
                   [] OTHER -> call[w] \in Creation
      <3>1. HandlerSound(w) /\ pc[w] \in {"idle", "replaying", "creating", "registering",
                                          "replacing", "documenting"}
        BY DEF Inv, Stores
      <3> QED BY <3>1 DEF HandlerSound, Creating, CreationSound, ReplacementSound, DocumentingSound
    <2>2. ASSUME NEW id \in Ids PROVE replaced[id] \in Seq(Replaced)
      <3>1. replaced[id] = <<>> \/ Numbered(replaced[id], stored[id].version - 1)
        BY DEF Inv, CollectionSound
      <3>2. <<>> \in Seq(Replaced)
        OBVIOUS
      <3> QED BY <3>1, <3>2, Zenon DEF Numbered
    <2> QED BY <2>1, <2>2 DEF Inv, Stores, TypeOK
  <1>2. NoReplacementLost
    BY DEF Inv, Stores, NoReplacementLost, CollectionSound, Numbered, Existing
  <1>3. KeyNamesOneRequest
    BY DEF Inv, KeyNamesOneRequest, AnswerSound
  <1>4. AnsweredAreServed
    BY DEF Inv, Stores, AnsweredAreServed, AnswerSound, CollectionSound, Existing
  <1>5. DocumentsFitTheirSchema
    BY DEF Inv, DocumentsFitTheirSchema, CollectionSound, DocumentSound, SchemaOf, FieldsOf
  <1> QED BY <1>1, <1>2, <1>3, <1>4, <1>5
-----------------------------------------------------------------------------
(* Steps that leave the stores and the handlers alone.                     *)
LEMMA StoresAlone ==
    ASSUME Inv,
           UNCHANGED <<records, stored, served, indexed, pc, call, issued, answers, replaced>>
    PROVE  Inv'
  <1>1. Stores'
    BY DEF Inv, Stores
  <1>2. \A id \in Ids : CollectionSound(id)'
    BY DEF Inv, CollectionSound, DocumentSound
  <1>3. \A w \in Workers : HandlerSound(w)'
    BY DEF Inv, HandlerSound, Creating, CreationSound, ReplacementSound, DocumentingSound,
           DocumentSound
  <1>4. \A a \in answers' : AnswerSound(a)'
    BY DEF Inv, AnswerSound
  <1>5. OwnIds'
    BY DEF Inv, OwnIds, Creating
  <1> QED BY <1>1, <1>2, <1>3, <1>4, <1>5 DEF Inv

(* What the steps of one handler do not touch of the others'.              *)
LEMMA OthersUntouched ==
    ASSUME Inv, NEW v \in Workers,
           pc'[v] = pc[v], call'[v] = call[v],
           \A key \in Keys : records[key] # Absent => records'[key] = records[key],
           \A id \in Ids : stored'[id] = stored[id] /\ replaced'[id] = replaced[id]
    PROVE  HandlerSound(v)'
  <1>1. HandlerSound(v)
    BY DEF Inv
  <1>2. pc[v] = "idle" => call'[v] = Absent
    BY <1>1 DEF HandlerSound
  <1>3. ASSUME Creating(v) PROVE CreationSound(v)'
    <2>1. CreationSound(v)
      BY <1>1, <1>3 DEF HandlerSound
    <2>2. call[v].id \in Ids /\ call[v].key \in Keys \cup {NoKey}
      BY <2>1 DEF CreationSound, Creation
    <2> QED BY <2>1, <2>2 DEF CreationSound
  <1>4. ASSUME pc[v] = "replacing" PROVE ReplacementSound(v)'
    <2>1. ReplacementSound(v)
      BY <1>1, <1>4 DEF HandlerSound
    <2>2. call[v].id \in Ids
      BY <2>1 DEF ReplacementSound, Replacement
    <2> QED BY <2>1, <2>2 DEF ReplacementSound
  <1>5. ASSUME pc[v] = "documenting" PROVE DocumentingSound(v)'
    <2>1. DocumentingSound(v)
      BY <1>1, <1>5 DEF HandlerSound
    <2>2. call[v].id \in Ids
      BY <2>1 DEF DocumentingSound
    <2> QED BY <2>1, <2>2 DEF DocumentingSound, DocumentSound
  <1> QED BY <1>2, <1>3, <1>4, <1>5 DEF HandlerSound, Creating

(* A handler takes a request and draws an id that nothing is named by.     *)
LEMMA CreationBegins ==
    ASSUME Inv, NEW w \in Workers, NEW key \in Keys \cup {NoKey},
           NEW step \in {"creating", "replaying"},
           NEW content \in Contents, NEW id \in NewId, NEW resource \in Ids,
           Begin(w, step, [key |-> key, content |-> content, id |-> id, resource |-> resource]),
           records' \in [Keys -> IdempotencyRecord \cup {Absent}],
           \A k \in Keys : records[k] # Absent => records'[k] = records[k],
           key # NoKey => /\ records'[key] # Absent
                          /\ records'[key].content = content
                          /\ step = "replaying" => resource = records'[key].resource,
           UNCHANGED <<indexed, stored, served, answers, replaced>>
    PROVE  Inv'
  <1> DEFINE locals == [key |-> key, content |-> content, id |-> id, resource |-> resource]
  <1>1. /\ id \in Ids /\ stored[id] = Absent
        /\ \A v \in Workers : call[v] # Absent => call[v].id # id
    BY DEF NewId, Existing
  <1>2. locals \in Creation
    BY <1>1 DEF Creation
  <1>3. /\ pc[w] = "idle" /\ pc'[w] = step /\ call'[w] = locals
        /\ \A v \in Workers \ {w} : pc'[v] = pc[v] /\ call'[v] = call[v]
    BY DEF Begin, Inv, Stores
  <1>4. Stores'
    <2>1. issued' \in 0..MaxRequests
      BY CollectionsAssumption DEF Inv, Stores, Begin
    <2>2. step \in {"idle", "replaying", "creating", "registering", "replacing", "documenting"}
      OBVIOUS
    <2>3. /\ pc' \in [Workers -> {"idle", "replaying", "creating", "registering",
                                  "replacing", "documenting"}]
          /\ DOMAIN call' = Workers /\ call' = [v \in Workers |-> call'[v]]
      BY <2>2 DEF Inv, Stores, Begin
    <2> QED BY <2>1, <2>3 DEF Inv, Stores
  <1>5. ASSUME NEW i \in Ids PROVE CollectionSound(i)'
    BY DEF Inv, CollectionSound, DocumentSound
  <1>6. ASSUME NEW v \in Workers PROVE HandlerSound(v)'
    <2>1. CASE v # w
      BY <2>1, <1>3, OthersUntouched
    <2>2. CASE v = w
      <3>1. CreationSound(w)'
        BY <1>1, <1>2, <1>3 DEF CreationSound
      <3> QED BY <3>1, <2>2, <1>3 DEF HandlerSound, Creating
    <2> QED BY <2>1, <2>2
  <1>7. ASSUME NEW a \in answers' PROVE AnswerSound(a)'
    <2>1. AnswerSound(a)
      BY <1>7 DEF Inv
    <2> QED BY <2>1 DEF AnswerSound
  <1>8. OwnIds'
    <2>1. \A v \in Workers : Creating(v) => call[v].id # id
      <3> SUFFICES ASSUME NEW v \in Workers, Creating(v) PROVE call[v].id # id
        OBVIOUS
      <3>1. call[v] \in Creation
        BY DEF Inv, HandlerSound, CreationSound
      <3> QED BY <3>1, <1>1, AbsentAssumption
    <2>2. \A v \in Workers \ {w} : Creating(v)' = Creating(v)
      BY <1>3 DEF Creating
    <2>3. call'[w].id = id
      BY <1>3
    <2> QED BY <2>1, <2>2, <2>3, <1>3 DEF Inv, OwnIds
  <1> QED BY <1>4, <1>5, <1>6, <1>7, <1>8 DEF Inv

LEMMA CreateUnkeyedKeeps ==
    ASSUME Inv, NEW w \in Workers, CreateUnkeyed(w)
    PROVE  Inv'
  <1>1. PICK content \in Contents, id \in NewId :
          Begin(w, "creating", [key |-> NoKey, content |-> content, id |-> id, resource |-> id])
    BY DEF CreateUnkeyed
  <1>2. UNCHANGED <<indexed, records, stored, served, answers, replaced>> /\ id \in Ids
    BY DEF CreateUnkeyed, NewId
  <1>3. records' \in [Keys -> IdempotencyRecord \cup {Absent}]
    BY <1>2 DEF Inv, Stores
  <1> QED BY <1>1, <1>2, <1>3, CreationBegins

LEMMA ReserveKeeps ==
    ASSUME Inv, NEW w \in Workers, NEW key \in Keys, Reserve(w, key)
    PROVE  Inv'
  <1>1. PICK content \in Contents, id \in NewId :
          /\ Begin(w, "creating", [key |-> key, content |-> content, id |-> id, resource |-> id])
          /\ records' = [records EXCEPT ![key] = [content |-> content, resource |-> id]]
    BY DEF Reserve
  <1>2. /\ records[key] = Absent /\ id \in Ids
        /\ UNCHANGED <<indexed, stored, served, answers, replaced>>
    BY DEF Reserve, NewId
  <1>3. [content |-> content, resource |-> id] \in IdempotencyRecord
    BY <1>2 DEF IdempotencyRecord
  <1>4. /\ records' \in [Keys -> IdempotencyRecord \cup {Absent}]
        /\ \A k \in Keys : records[k] # Absent => records'[k] = records[k]
        /\ records'[key] = [content |-> content, resource |-> id]
    BY <1>1, <1>2, <1>3 DEF Inv, Stores
  <1>5. records'[key] # Absent
    BY <1>3, <1>4, AbsentAssumption
  <1> QED BY <1>1, <1>2, <1>4, <1>5, CreationBegins

LEMMA ReserveReplayedKeeps ==
    ASSUME Inv, NEW w \in Workers, NEW key \in Keys, ReserveReplayed(w, key)
    PROVE  Inv'
  <1>1. /\ records[key] # Absent
        /\ UNCHANGED <<indexed, records, stored, served, answers, replaced>>
    BY DEF ReserveReplayed
  <1>2. PICK id \in NewId :
          Begin(w, "replaying", [key |-> key, content |-> records[key].content,
                                 id |-> id, resource |-> records[key].resource])
    BY DEF ReserveReplayed
  <1>3. records[key].content \in Contents /\ records[key].resource \in Ids
    BY <1>1 DEF Inv, Stores, IdempotencyRecord
  <1>4. records' \in [Keys -> IdempotencyRecord \cup {Absent}]
    BY <1>1 DEF Inv, Stores
  <1> QED BY <1>1, <1>2, <1>3, <1>4, CreationBegins

-----------------------------------------------------------------------------
(* A handler that goes on or answers touches no other handler.             *)
LEMMA OneHandlerMoves ==
    ASSUME Inv, NEW w \in Workers,
           Answer(w) \/ \E step \in {"creating", "registering"} : Proceed(w, step)
    PROVE  /\ pc' \in [Workers -> {"idle", "replaying", "creating", "registering",
                                   "replacing", "documenting"}]
           /\ DOMAIN call' = Workers /\ call' = [v \in Workers |-> call'[v]]
           /\ \A v \in Workers \ {w} : pc'[v] = pc[v] /\ call'[v] = call[v]
           /\ Answer(w) => pc'[w] = "idle" /\ call'[w] = Absent
           /\ \A step : Proceed(w, step) => pc'[w] = step /\ call'[w] = call[w]
  <1>1. CASE Answer(w)
    BY <1>1 DEF Answer, Proceed, Inv, Stores
  <1>2. CASE \E step \in {"creating", "registering"} : Proceed(w, step)
    BY <1>2 DEF Answer, Proceed, Inv, Stores
  <1> QED BY <1>1, <1>2

(* An answer does not make anybody a creator.                              *)
LEMMA OwnIdsKept ==
    ASSUME Inv, NEW w \in Workers,
           \A v \in Workers \ {w} : pc'[v] = pc[v] /\ call'[v] = call[v],
           Creating(w)' => Creating(w) /\ call'[w] = call[w]
    PROVE  OwnIds'
  <1>1. \A v \in Workers : Creating(v)' => Creating(v) /\ call'[v] = call[v]
    BY DEF Creating
  <1> QED BY <1>1 DEF Inv, OwnIds

(* Success as the histories see it.                                        *)
LEMMA AnswersKept ==
    ASSUME Inv, NEW w \in Workers, CreationSound(w), NEW id \in Ids, NEW replayed \in BOOLEAN,
           Success(w, id, replayed),
           UNCHANGED records,
           served \subseteq served',
           call[w].key # NoKey => IF replayed THEN id = records[call[w].key].resource
                                  ELSE id \in served'
    PROVE  \A a \in answers' : AnswerSound(a)'
  <1> SUFFICES ASSUME NEW a \in answers' PROVE AnswerSound(a)'
    OBVIOUS
  <1>1. CASE a \in answers
    <2>1. AnswerSound(a)
      BY <1>1 DEF Inv
    <2> QED BY <2>1 DEF AnswerSound
  <1>2. CASE a \notin answers
    <2>1. /\ call[w].key # NoKey
          /\ a = [key |-> call[w].key, content |-> call[w].content, id |-> id,
                  replayed |-> replayed]
      BY <1>2 DEF Success
    <2>2. call[w].key \in Keys
      BY <2>1 DEF CreationSound, Creation
    <2> QED BY <2>1, <2>2 DEF AnswerSound, CreationSound
  <1> QED BY <1>1, <1>2

LEMMA ReplayKeeps ==
    ASSUME Inv, NEW w \in Workers, Replay(w)
    PROVE  Inv'
  <1>1. /\ pc[w] = "replaying" /\ CreationSound(w) /\ HandlerSound(w)
        /\ UNCHANGED <<indexed, records, stored, served, issued, replaced>>
    BY DEF Replay, Inv, HandlerSound, Creating
  <1>2. Answer(w) \/ Proceed(w, "creating")
    BY DEF Replay
  <1>3. /\ \A v \in Workers \ {w} : pc'[v] = pc[v] /\ call'[v] = call[v]
        /\ Answer(w) => pc'[w] = "idle" /\ call'[w] = Absent
        /\ Proceed(w, "creating") => pc'[w] = "creating" /\ call'[w] = call[w]
        /\ Stores'
    BY <1>1, <1>2, OneHandlerMoves DEF Inv, Stores
  <1>4. ASSUME NEW i \in Ids PROVE CollectionSound(i)'
    BY <1>1 DEF Inv, CollectionSound, DocumentSound
  <1>5. ASSUME NEW v \in Workers PROVE HandlerSound(v)'
    <2>1. CASE v # w
      BY <2>1, <1>1, <1>3, OthersUntouched
    <2>2. CASE v = w /\ Answer(w)
      BY <2>2, <1>3 DEF HandlerSound, Creating
    <2>3. CASE v = w /\ Proceed(w, "creating")
      BY <2>3, <1>1, <1>3 DEF HandlerSound, Creating, CreationSound
    <2> QED BY <2>1, <2>2, <2>3, <1>2
  <1>6. \A a \in answers' : AnswerSound(a)'
    <2>1. CASE call[w].resource \in Existing
      <3>1. Success(w, call[w].resource, TRUE) /\ call[w].resource \in Ids
        BY <2>1 DEF Replay, Existing
      <3> QED BY <3>1, <1>1, AnswersKept DEF CreationSound
    <2>2. CASE call[w].resource \notin Existing
      BY <2>2, <1>1 DEF Replay, Inv, AnswerSound
    <2> QED BY <2>1, <2>2
  <1>7. OwnIds'
    BY <1>1, <1>2, <1>3, OwnIdsKept DEF Creating
  <1> QED BY <1>3, <1>4, <1>5, <1>6, <1>7 DEF Inv

LEMMA CreateInvalidKeeps ==
    ASSUME Inv, NEW w \in Workers, CreateInvalid(w)
    PROVE  Inv'
  <1>1. /\ Answer(w)
        /\ UNCHANGED <<indexed, records, stored, served, issued, answers, replaced>>
    BY DEF CreateInvalid
  <1>2. /\ \A v \in Workers \ {w} : pc'[v] = pc[v] /\ call'[v] = call[v]
        /\ pc'[w] = "idle" /\ call'[w] = Absent
        /\ Stores'
    BY <1>1, OneHandlerMoves DEF Inv, Stores
  <1>3. ASSUME NEW i \in Ids PROVE CollectionSound(i)'
    BY <1>1 DEF Inv, CollectionSound, DocumentSound
  <1>4. ASSUME NEW v \in Workers PROVE HandlerSound(v)'
    <2>1. CASE v # w
      BY <2>1, <1>1, <1>2, OthersUntouched
    <2>2. CASE v = w
      BY <2>2, <1>2 DEF HandlerSound, Creating
    <2> QED BY <2>1, <2>2
  <1>5. \A a \in answers' : AnswerSound(a)'
    BY <1>1 DEF Inv, AnswerSound
  <1>6. OwnIds'
    BY <1>2, OwnIdsKept DEF Creating
  <1> QED BY <1>2, <1>3, <1>4, <1>5, <1>6 DEF Inv

LEMMA CreateStoredKeeps ==
    ASSUME Inv, NEW w \in Workers, CreateStored(w)
    PROVE  Inv'
  <1> DEFINE id == call[w].id
             new == [version |-> 1, schema |-> 1, fields |-> call[w].content]
  <1>1. /\ pc[w] = "creating" /\ CreationSound(w) /\ Proceed(w, "registering")
        /\ UNCHANGED <<indexed, records, served, issued, answers, replaced>>
    BY DEF CreateStored, Inv, HandlerSound, Creating
  <1>2. id \in Ids /\ stored[id] = Absent
    BY <1>1 DEF CreationSound, Creation
  <1>3. new \in Collection /\ new # Absent
    BY AbsentAssumption DEF CreateStored, Collection
  <1>4. /\ stored' \in [Ids -> Collection \cup {Absent}]
        /\ stored'[id] = new
        /\ \A i \in Ids \ {id} : stored'[i] = stored[i]
    BY <1>2, <1>3 DEF CreateStored, Store, Inv, Stores
  <1>5. /\ \A v \in Workers \ {w} : pc'[v] = pc[v] /\ call'[v] = call[v]
        /\ pc'[w] = "registering" /\ call'[w] = call[w]
        /\ Stores'
    BY <1>1, <1>4, OneHandlerMoves DEF Inv, Stores
  <1>6. ASSUME NEW i \in Ids PROVE CollectionSound(i)'
    <2>1. CASE i # id
      BY <2>1, <1>1, <1>4 DEF Inv, CollectionSound, DocumentSound
    <2>2. CASE i = id
      <3>1. replaced'[id] = <<>> /\ indexed'[id] = {}
        BY <1>1, <1>2 DEF Inv, CollectionSound
      <3>2. Numbered(<<>>, 0)
        BY DEF Numbered
      <3>3. /\ stored'[id] # Absent /\ stored'[id].version = 1 /\ stored'[id].schema = 1
        BY <1>3, <1>4
      <3> QED BY <2>2, <3>1, <3>2, <3>3 DEF CollectionSound
    <2> QED BY <2>1, <2>2
  <1>7. ASSUME NEW v \in Workers PROVE HandlerSound(v)'
    <2>1. CASE v = w
      BY <2>1, <1>1, <1>3, <1>4, <1>5 DEF HandlerSound, Creating, CreationSound
    <2>2. CASE v # w
      <3>1. HandlerSound(v) /\ pc'[v] = pc[v] /\ call'[v] = call[v]
        BY <2>2, <1>5 DEF Inv
      <3>2. ASSUME Creating(v) PROVE CreationSound(v)'
        <4>1. CreationSound(v) /\ call[v].id # id
          BY <3>1, <3>2, <2>2, <1>1 DEF HandlerSound, Creating, Inv, OwnIds
        <4>2. call[v].id \in Ids
          BY <4>1 DEF CreationSound, Creation
        <4> QED BY <4>1, <4>2, <3>1, <1>1, <1>4 DEF CreationSound
      <3>3. ASSUME pc[v] = "replacing" PROVE ReplacementSound(v)'
        <4>1. ReplacementSound(v) /\ call[v].id \in Ids /\ call[v].id # id
          BY <3>1, <3>3, <1>2 DEF HandlerSound, ReplacementSound, Replacement
        <4> QED BY <4>1, <3>1, <1>4 DEF ReplacementSound
      <3>4. ASSUME pc[v] = "documenting" PROVE DocumentingSound(v)'
        <4>1. DocumentingSound(v) /\ call[v].id \in Ids /\ call[v].id # id
          BY <3>1, <3>4, <1>2 DEF HandlerSound, DocumentingSound
        <4> QED BY <4>1, <3>1, <1>1, <1>4 DEF DocumentingSound
      <3> QED BY <3>1, <3>2, <3>3, <3>4 DEF HandlerSound, Creating
    <2> QED BY <2>1, <2>2
  <1>8. \A a \in answers' : AnswerSound(a)'
    BY <1>1 DEF Inv, AnswerSound
  <1>9. OwnIds'
    BY <1>1, <1>5, OwnIdsKept DEF Creating
  <1> QED BY <1>5, <1>6, <1>7, <1>8, <1>9 DEF Inv

LEMMA RegisterEngineKeeps ==
    ASSUME Inv, NEW w \in Workers, RegisterEngine(w)
    PROVE  Inv'
  <1> DEFINE id == call[w].id
  <1>1. /\ pc[w] = "registering" /\ CreationSound(w) /\ Answer(w)
        /\ served' = served \cup {id}
        /\ Success(w, id, FALSE)
        /\ UNCHANGED <<indexed, records, stored, issued, replaced>>
    BY DEF RegisterEngine, Inv, HandlerSound, Creating
  <1>2. id \in Ids /\ stored[id] # Absent
    BY <1>1 DEF CreationSound, Creation
  <1>3. /\ \A v \in Workers \ {w} : pc'[v] = pc[v] /\ call'[v] = call[v]
        /\ pc'[w] = "idle" /\ call'[w] = Absent
        /\ Stores'
    BY <1>1, <1>2, OneHandlerMoves DEF Inv, Stores
  <1>4. ASSUME NEW i \in Ids PROVE CollectionSound(i)'
    BY <1>1, <1>2 DEF Inv, CollectionSound, DocumentSound
  <1>5. ASSUME NEW v \in Workers PROVE HandlerSound(v)'
    <2>1. CASE v # w
      BY <2>1, <1>1, <1>3, OthersUntouched
    <2>2. CASE v = w
      BY <2>2, <1>3 DEF HandlerSound, Creating
    <2> QED BY <2>1, <2>2
  <1>6. \A a \in answers' : AnswerSound(a)'
    BY <1>1, <1>2, AnswersKept
  <1>7. OwnIds'
    BY <1>3, OwnIdsKept DEF Creating
  <1> QED BY <1>3, <1>4, <1>5, <1>6, <1>7 DEF Inv

-----------------------------------------------------------------------------
(* A handler takes a request for a collection that exists.                 *)
LEMMA RequestBegins ==
    ASSUME Inv, NEW w \in Workers,
           NEW step \in {"replacing", "documenting"}, NEW locals,
           Begin(w, step, locals),
           step = "replacing" => ReplacementSound(w)',
           step = "documenting" => DocumentingSound(w)',
           UNCHANGED <<indexed, records, stored, served, answers, replaced>>
    PROVE  Inv'
  <1>1. /\ pc'[w] = step
        /\ \A v \in Workers \ {w} : pc'[v] = pc[v] /\ call'[v] = call[v]
    BY DEF Begin, Inv, Stores
  <1>2. Stores'
    <2>1. issued' \in 0..MaxRequests
      BY CollectionsAssumption DEF Inv, Stores, Begin
    <2>2. step \in {"idle", "replaying", "creating", "registering", "replacing", "documenting"}
      OBVIOUS
    <2>3. /\ pc' \in [Workers -> {"idle", "replaying", "creating", "registering",
                                  "replacing", "documenting"}]
          /\ DOMAIN call' = Workers /\ call' = [v \in Workers |-> call'[v]]
      BY <2>2 DEF Inv, Stores, Begin
    <2> QED BY <2>1, <2>3 DEF Inv, Stores
  <1>3. ASSUME NEW i \in Ids PROVE CollectionSound(i)'
    BY DEF Inv, CollectionSound, DocumentSound
  <1>4. ASSUME NEW v \in Workers PROVE HandlerSound(v)'
    <2>1. CASE v # w
      BY <2>1, <1>1, OthersUntouched
    <2>2. CASE v = w
      BY <2>2, <1>1 DEF HandlerSound, Creating
    <2> QED BY <2>1, <2>2
  <1>5. \A a \in answers' : AnswerSound(a)'
    BY DEF Inv, AnswerSound
  <1>6. OwnIds'
    BY <1>1, OwnIdsKept DEF Creating
  <1> QED BY <1>2, <1>3, <1>4, <1>5, <1>6 DEF Inv

LEMMA ReplaceSchemaKeeps ==
    ASSUME Inv, NEW w \in Workers, NEW id \in Ids, ReplaceSchema(w, id)
    PROVE  Inv'
  <1> DEFINE locals(content) ==
               [id |-> id, expected |-> stored[id].version,
                next |-> [version |-> stored[id].version + 1,
                          schema |-> stored[id].schema + 1, fields |-> content]]
  <1>1. /\ stored[id] # Absent
        /\ UNCHANGED <<indexed, records, stored, served, answers, replaced>>
    BY DEF ReplaceSchema, Existing
  <1>2. PICK content \in Valid : Begin(w, "replacing", locals(content))
    BY DEF ReplaceSchema
  <1>3. /\ stored[id].version \in Nat
        /\ stored[id].schema = stored[id].version
    BY <1>1 DEF Inv, CollectionSound
  <1>4. locals(content) \in Replacement
    BY <1>3 DEF Replacement, Collection
  <1>5. call'[w] = locals(content)
    BY <1>2 DEF Begin, Inv, Stores
  <1>6. ReplacementSound(w)'
    BY <1>1, <1>3, <1>4, <1>5 DEF ReplacementSound
  <1> QED BY <1>1, <1>2, <1>6, RequestBegins

LEMMA AdmitDocumentKeeps ==
    ASSUME Inv, NEW w \in Workers, NEW id \in Ids, AdmitDocument(w, id)
    PROVE  Inv'
  <1> DEFINE locals(fields) ==
               [id |-> id, document |-> [fields |-> fields, schema |-> stored[id].schema]]
  <1>1. /\ stored[id] # Absent
        /\ UNCHANGED <<indexed, records, stored, served, answers, replaced>>
    BY DEF AdmitDocument, Existing
  <1>2. PICK fields \in Documents :
          Fits(fields, stored[id].fields) /\ Begin(w, "documenting", locals(fields))
    BY DEF AdmitDocument
  <1>3. stored[id].schema \in Nat \ {0}
    BY <1>1 DEF Inv, CollectionSound
  <1>4. locals(fields) \in [id: Ids, document: Document]
    BY <1>3 DEF Document
  <1>5. call'[w] = locals(fields)
    BY <1>2 DEF Begin, Inv, Stores
  <1>6. DocumentSound([fields |-> fields, schema |-> stored[id].schema], stored[id], replaced[id])
    BY <1>2, <1>3 DEF DocumentSound, FieldsOf
  <1>7. DocumentingSound(w)'
    BY <1>1, <1>4, <1>5, <1>6 DEF DocumentingSound, DocumentSound
  <1> QED BY <1>1, <1>2, <1>7, RequestBegins

LEMMA IndexDocumentKeeps ==
    ASSUME Inv, NEW w \in Workers, IndexDocument(w)
    PROVE  Inv'
  <1> DEFINE id == call[w].id
             d == call[w].document
  <1>1. /\ pc[w] = "documenting" /\ DocumentingSound(w) /\ Answer(w)
        /\ indexed' = [indexed EXCEPT ![id] = @ \cup {d}]
        /\ UNCHANGED <<records, stored, served, issued, answers, replaced>>
    BY DEF IndexDocument, Inv, HandlerSound
  <1>2. /\ id \in Ids /\ stored[id] # Absent
        /\ d \in Document /\ DocumentSound(d, stored[id], replaced[id])
    BY <1>1 DEF DocumentingSound
  <1>3. /\ indexed' \in [Ids -> SUBSET Document]
        /\ indexed'[id] = indexed[id] \cup {d}
        /\ \A i \in Ids \ {id} : indexed'[i] = indexed[i]
    BY <1>1, <1>2 DEF Inv, Stores
  <1>4. /\ \A v \in Workers \ {w} : pc'[v] = pc[v] /\ call'[v] = call[v]
        /\ pc'[w] = "idle" /\ call'[w] = Absent
        /\ Stores'
    BY <1>1, <1>3, OneHandlerMoves DEF Inv, Stores
  <1>5. ASSUME NEW i \in Ids PROVE CollectionSound(i)'
    <2>1. CASE i # id
      BY <2>1, <1>1, <1>3 DEF Inv, CollectionSound, DocumentSound
    <2>2. CASE i = id
      BY <2>2, <1>1, <1>2, <1>3 DEF Inv, CollectionSound, DocumentSound
    <2> QED BY <2>1, <2>2
  <1>6. ASSUME NEW v \in Workers PROVE HandlerSound(v)'
    <2>1. CASE v # w
      BY <2>1, <1>1, <1>4, OthersUntouched
    <2>2. CASE v = w
      BY <2>2, <1>4 DEF HandlerSound, Creating
    <2> QED BY <2>1, <2>2
  <1>7. \A a \in answers' : AnswerSound(a)'
    BY <1>1 DEF Inv, AnswerSound
  <1>8. OwnIds'
    BY <1>4, OwnIdsKept DEF Creating
  <1> QED BY <1>4, <1>5, <1>6, <1>7, <1>8 DEF Inv

(* The update that finds the version its copy had: the next one follows    *)
(* on all that were answered, and leaves every stamped document behind.    *)
LEMMA UpdateKeeps ==
    ASSUME Inv, NEW w \in Workers, Update(w)
    PROVE  Inv'
  <1> DEFINE id == call[w].id
             next == call[w].next
             expected == call[w].expected
             past == replaced[id]
             last == [expected |-> expected, fields |-> stored[id].fields]
  <1>1. /\ pc[w] = "replacing" /\ ReplacementSound(w) /\ Answer(w)
        /\ UNCHANGED <<indexed, records, served, issued, answers>>
    BY DEF Update, Inv, HandlerSound
  <1>2. /\ id \in Ids /\ stored[id] # Absent /\ next \in Collection /\ expected \in Nat
        /\ next.version = expected + 1 /\ next.schema = expected + 1
    BY <1>1 DEF ReplacementSound, Replacement
  <1>3. /\ \A v \in Workers \ {w} : pc'[v] = pc[v] /\ call'[v] = call[v]
        /\ pc'[w] = "idle" /\ call'[w] = Absent
    BY <1>1, OneHandlerMoves
  <1>4. OwnIds'
    BY <1>3, OwnIdsKept DEF Creating
  <1>5. \A a \in answers' : AnswerSound(a)'
    BY <1>1 DEF Inv, AnswerSound
  <1>6. CASE stored[id].version # expected
    <2>1. UNCHANGED <<stored, replaced>>
      BY <1>6 DEF Update
    <2>2. Stores'
      BY <2>1, <1>1, OneHandlerMoves DEF Inv, Stores
    <2>3. ASSUME NEW i \in Ids PROVE CollectionSound(i)'
      BY <2>1, <1>1 DEF Inv, CollectionSound, DocumentSound
    <2>4. ASSUME NEW v \in Workers PROVE HandlerSound(v)'
      <3>1. CASE v # w
        BY <3>1, <2>1, <1>1, <1>3, OthersUntouched
      <3>2. CASE v = w
        BY <3>2, <1>3 DEF HandlerSound, Creating
      <3> QED BY <3>1, <3>2
    <2> QED BY <2>2, <2>3, <2>4, <1>4, <1>5 DEF Inv
  <1>7. CASE stored[id].version = expected
    <2>1. /\ stored' = [stored EXCEPT ![id] = next]
          /\ replaced' = [replaced EXCEPT ![id] = Append(@, last)]
      BY <1>7 DEF Update
    <2>2. /\ stored' \in [Ids -> Collection \cup {Absent}]
          /\ stored'[id] = next /\ next # Absent
          /\ \A i \in Ids \ {id} : stored'[i] = stored[i]
      BY <2>1, <1>2, AbsentAssumption DEF Inv, Stores
    <2>3. /\ replaced' = [i \in Ids |-> replaced'[i]]
          /\ replaced'[id] = Append(past, last)
          /\ \A i \in Ids \ {id} : replaced'[i] = replaced[i]
      BY <2>1, <1>2 DEF Inv, Stores
    <2>4. Stores'
      BY <2>2, <2>3, <1>1, OneHandlerMoves DEF Inv, Stores
    <2>5. /\ expected \in Nat \ {0} /\ stored[id].schema = expected
          /\ Numbered(past, expected - 1)
          /\ \A d \in indexed[id] : DocumentSound(d, stored[id], past)
      BY <1>2, <1>7 DEF Inv, CollectionSound
    <2>6. /\ last \in Replaced /\ last.expected = expected /\ last.fields = stored[id].fields
      BY <1>2 DEF Inv, Stores, Collection, Replaced
    <2> HIDE DEF past, last
    <2>7. /\ Numbered(Append(past, last), expected)
          /\ \A n \in 1..(expected - 1) : Append(past, last)[n] = past[n]
          /\ Append(past, last)[expected] = last
      BY <2>5, <2>6, AppendProperties DEF Numbered
    <2>8. ASSUME NEW d \in Document, DocumentSound(d, stored[id], past)
          PROVE  DocumentSound(d, next, replaced'[id])
      <3>1. d.schema \in 1..expected /\ Fits(d.fields, FieldsOf(d.schema, stored[id], past))
        BY <2>5, <2>8 DEF DocumentSound
      <3>2. FieldsOf(d.schema, next, replaced'[id]) = FieldsOf(d.schema, stored[id], past)
        <4>1. next.schema = expected + 1 /\ d.schema # expected + 1
          BY <3>1, <2>5, <1>2
        <4>2. CASE d.schema = expected
          BY <4>1, <4>2, <2>3, <2>5, <2>6, <2>7 DEF FieldsOf
        <4>3. CASE d.schema # expected
          <5>1. d.schema \in 1..(expected - 1)
            BY <4>3, <3>1, <2>5
          <5>2. Append(past, last)[d.schema] = past[d.schema]
            BY <5>1, <2>7
          <5> QED BY <4>1, <4>3, <5>2, <2>3, <2>5 DEF FieldsOf
        <4> QED BY <4>2, <4>3
      <3> QED BY <3>1, <3>2, <2>5, <1>2 DEF DocumentSound
    <2>9. ASSUME NEW i \in Ids PROVE CollectionSound(i)'
      <3>1. CASE i # id
        BY <3>1, <2>2, <2>3, <1>1 DEF Inv, CollectionSound, DocumentSound
      <3>2. CASE i = id
        <4>1. stored'[id] # Absent
          BY <2>2
        <4>2. /\ stored'[id].version = expected + 1 /\ stored'[id].schema = expected + 1
              /\ expected + 1 \in Nat \ {0} /\ (expected + 1) - 1 = expected
          BY <2>2, <2>5, <1>2
        <4>3. Numbered(replaced'[id], expected)
          BY <2>3, <2>7
        <4>4. \A d \in indexed'[id] : DocumentSound(d, stored'[id], replaced'[id])
          BY <2>2, <2>5, <2>8, <1>1, <1>2 DEF Inv, Stores
        <4> QED BY <3>2, <4>1, <4>2, <4>3, <4>4 DEF CollectionSound, DocumentSound
      <3> QED BY <3>1, <3>2
    <2>10. ASSUME NEW v \in Workers PROVE HandlerSound(v)'
      <3>1. CASE v = w
        BY <3>1, <1>3 DEF HandlerSound, Creating
      <3>2. CASE v # w
        <4>1. HandlerSound(v) /\ pc'[v] = pc[v] /\ call'[v] = call[v]
          BY <3>2, <1>3 DEF Inv
        <4>2. \A i \in Ids : stored'[i] # Absent <=> stored[i] # Absent
          BY <2>2, <1>2
        <4>3. ASSUME Creating(v) PROVE CreationSound(v)'
          BY <4>1, <4>2, <4>3, <1>1 DEF HandlerSound, CreationSound, Creation
        <4>4. ASSUME pc[v] = "replacing" PROVE ReplacementSound(v)'
          BY <4>1, <4>2, <4>4 DEF HandlerSound, ReplacementSound, Replacement
        <4>5. ASSUME pc[v] = "documenting" PROVE DocumentingSound(v)'
          <5>1. /\ DocumentingSound(v) /\ call[v].id \in Ids /\ call[v].document \in Document
            BY <4>1, <4>5 DEF HandlerSound, DocumentingSound
          <5>2. DocumentSound(call[v].document, stored'[call[v].id], replaced'[call[v].id])
            BY <5>1, <2>2, <2>3, <2>8 DEF DocumentingSound, past
          <5> QED BY <5>1, <5>2, <4>1, <4>2 DEF DocumentingSound, DocumentSound
        <4> QED BY <4>1, <4>3, <4>4, <4>5 DEF HandlerSound, Creating
      <3> QED BY <3>1, <3>2
    <2> QED BY <2>4, <2>9, <2>10, <1>4, <1>5 DEF Inv
  <1> QED BY <1>6, <1>7

(* A record that expires has no request in flight and takes its answers    *)
(* along.                                                                  *)
LEMMA ExpireKeeps ==
    ASSUME Inv, NEW key \in Keys, Expire(key)
    PROVE  Inv'
  <1>1. /\ records' = [records EXCEPT ![key] = Absent]
        /\ answers' = {a \in answers : a.key # key}
        /\ \A w \in Workers : Creating(w) => call[w].key # key
        /\ UNCHANGED <<indexed, stored, served, pc, call, issued, replaced>>
    BY DEF Expire, Creating
  <1>2. /\ records' \in [Keys -> IdempotencyRecord \cup {Absent}]
        /\ \A k \in Keys \ {key} : records'[k] = records[k]
    BY <1>1 DEF Inv, Stores
  <1>3. Stores'
    BY <1>1, <1>2 DEF Inv, Stores
  <1>4. ASSUME NEW i \in Ids PROVE CollectionSound(i)'
    BY <1>1 DEF Inv, CollectionSound, DocumentSound
  <1>5. ASSUME NEW v \in Workers PROVE HandlerSound(v)'
    <2>1. HandlerSound(v)
      BY DEF Inv
    <2>2. ASSUME Creating(v) PROVE CreationSound(v)'
      <3>1. CreationSound(v) /\ call[v].key # key /\ call[v].key \in Keys \cup {NoKey}
        BY <2>1, <2>2, <1>1 DEF HandlerSound, CreationSound, Creation
      <3> QED BY <3>1, <1>1, <1>2 DEF CreationSound
    <2> QED BY <2>1, <2>2, <1>1 DEF HandlerSound, Creating, ReplacementSound, DocumentingSound,
                                    DocumentSound
  <1>6. ASSUME NEW a \in answers' PROVE AnswerSound(a)'
    BY <1>6, <1>1, <1>2 DEF Inv, AnswerSound
  <1>7. OwnIds'
    BY <1>1 DEF Inv, OwnIds, Creating
  <1> QED BY <1>3, <1>4, <1>5, <1>6, <1>7 DEF Inv

-----------------------------------------------------------------------------
LEMMA InvIsInductive ==
    ASSUME Inv, [Next]_vars
    PROVE  Inv'
  <1>1. CASE UNCHANGED vars
    BY <1>1, StoresAlone DEF vars
  <1>2. CASE \E w \in Workers : CreateUnkeyed(w)
    BY <1>2, CreateUnkeyedKeeps
  <1>3. CASE \E w \in Workers, key \in Keys : Reserve(w, key)
    BY <1>3, ReserveKeeps
  <1>4. CASE \E w \in Workers, key \in Keys : ReserveReplayed(w, key)
    BY <1>4, ReserveReplayedKeeps
  <1>5. CASE \E w \in Workers, key \in Keys : ReserveConflict(w, key)
    BY <1>5, StoresAlone DEF ReserveConflict, vars
  <1>6. CASE \E w \in Workers, id \in Ids : ReplaceSchema(w, id)
    BY <1>6, ReplaceSchemaKeeps
  <1>7. CASE \E w \in Workers : ReplaceRefused(w)
    BY <1>7, StoresAlone DEF ReplaceRefused, vars
  <1>8. CASE \E w \in Workers, id \in Ids : AdmitDocument(w, id)
    BY <1>8, AdmitDocumentKeeps
  <1>9. CASE \E w \in Workers : Handle(w)
    <2>1. PICK w \in Workers : Handle(w)
      BY <1>9
    <2> QED BY <2>1, ReplayKeeps, CreateInvalidKeeps, CreateStoredKeeps, RegisterEngineKeeps,
               UpdateKeeps, IndexDocumentKeeps DEF Handle
  <1>10. CASE ListStart \/ ListPage
    <2>1. UNCHANGED <<records, stored, served, indexed, pc, call, issued, answers, replaced>>
      BY <1>10 DEF ListStart, ListPage
    <2> QED BY <2>1, StoresAlone
  <1>11. CASE \E key \in Keys : Expire(key)
    BY <1>11, ExpireKeeps
  <1> QED BY <1>1, <1>2, <1>3, <1>4, <1>5, <1>6, <1>7, <1>8, <1>9, <1>10, <1>11 DEF Next

LEMMA InvHolds == Spec => []Inv
  <1>1. Init => Inv
    BY InvHoldsInitially
  <1>2. Inv /\ [Next]_vars => Inv'
    BY InvIsInductive
  <1> QED BY <1>1, <1>2, PTL DEF Spec

(* Stores, handlers and histories keep their form.                         *)
THEOREM TypeCorrect == Spec => []TypeOK
  <1>1. Inv => TypeOK
    BY InvSuffices
  <1> QED BY <1>1, InvHolds, PTL

(* Of all the replacements that read a version, one is answered with       *)
(* success, and the versions have no gap: handlers read and update in two  *)
(* steps (server.go replaceSchema, memory.go Update).                      *)
THEOREM ReplacementsNeverLost == Spec => []NoReplacementLost
  <1>1. Inv => NoReplacementLost
    BY InvSuffices
  <1> QED BY <1>1, InvHolds, PTL

(* A live key answers for the request it was reserved for                  *)
(* (memory.go Reserve, server.go createCollection).                        *)
THEOREM KeysNameOneRequest == Spec => []KeyNamesOneRequest
  <1>1. Inv => KeyNamesOneRequest
    BY InvSuffices
  <1> QED BY <1>1, InvHolds, PTL

(* Engines are registered for collections that exist, and before their     *)
(* creators are answered (server.go createCollection).                     *)
THEOREM AnsweredCollectionsAreServed == Spec => []AnsweredAreServed
  <1>1. Inv => AnsweredAreServed
    BY InvSuffices
  <1> QED BY <1>1, InvHolds, PTL

(* What is indexed fits the schema that its stamp names, the present or a  *)
(* replaced one, however replacements overlap (ingest Upsert, memory.go    *)
(* Update).                                                                *)
THEOREM IndexedDocumentsFit == Spec => []DocumentsFitTheirSchema
  <1>1. Inv => DocumentsFitTheirSchema
    BY InvSuffices
  <1> QED BY <1>1, InvHolds, PTL
-----------------------------------------------------------------------------
(* Where a listing is: it has what it owes up to its position, in order.   *)
ListingSound ==
    /\ page.owed \subseteq Existing
    /\ page.after \in Nat /\ page.seen \in Seq(Ids)
    /\ page = [after |-> page.after, seen |-> page.seen, owed |-> page.owed, done |-> page.done]
    /\ \A i, j \in 1..Len(page.seen) : i < j => page.seen[i] < page.seen[j]
    /\ ~page.done => /\ \A i \in 1..Len(page.seen) : page.seen[i] <= page.after
                     /\ \A id \in page.owed : id <= page.after => id \in ToSet(page.seen)
    /\ page.done => page.owed \subseteq ToSet(page.seen)

(* Collections are replaced but not removed.                               *)
LEMMA ExistingGrows ==
    ASSUME Inv, [Next]_vars
    PROVE  Existing \subseteq Existing'
  <1>1. CASE UNCHANGED stored
    BY <1>1 DEF Existing
  <1>2. ASSUME NEW w \in Workers, CreateStored(w)
        PROVE  Existing \subseteq Existing'
    <2> DEFINE collection == [version |-> 1, schema |-> 1, fields |-> call[w].content]
    <2>1. collection \in Collection
      BY <1>2 DEF CreateStored, Collection
    <2>2. collection # Absent
      BY <2>1, AbsentAssumption
    <2>3. stored' = [stored EXCEPT ![call[w].id] = collection]
      BY <1>2 DEF CreateStored, Store
    <2> HIDE DEF collection
    <2> QED BY <2>2, <2>3 DEF Inv, Stores, Existing
  <1>3. ASSUME NEW w \in Workers, Update(w)
        PROVE  Existing \subseteq Existing'
    <2>1. call[w].next \in Collection
      BY <1>3 DEF Update, Inv, HandlerSound, ReplacementSound, Replacement
    <2>2. call[w].next # Absent
      BY <2>1, AbsentAssumption
    <2>3. UNCHANGED stored \/ stored' = [stored EXCEPT ![call[w].id] = call[w].next]
      BY <1>3 DEF Update
    <2> QED BY <2>2, <2>3 DEF Inv, Stores, Existing
  <1>4. CASE \E w \in Workers : CreateUnkeyed(w)
    BY <1>1, <1>4 DEF CreateUnkeyed
  <1>5. CASE \E w \in Workers, key \in Keys :
               Reserve(w, key) \/ ReserveReplayed(w, key) \/ ReserveConflict(w, key)
    BY <1>1, <1>5 DEF Reserve, ReserveReplayed, ReserveConflict, vars
  <1>6. CASE \E w \in Workers, id \in Ids : ReplaceSchema(w, id) \/ AdmitDocument(w, id)
    BY <1>1, <1>6 DEF ReplaceSchema, AdmitDocument
  <1>7. CASE \E w \in Workers : ReplaceRefused(w) \/ Replay(w) \/ CreateInvalid(w)
                                 \/ RegisterEngine(w) \/ IndexDocument(w)
    BY <1>1, <1>7 DEF ReplaceRefused, Replay, CreateInvalid, RegisterEngine, IndexDocument, vars
  <1>8. CASE ListStart \/ ListPage \/ (\E key \in Keys : Expire(key)) \/ UNCHANGED vars
    BY <1>1, <1>8 DEF ListStart, ListPage, Expire, vars
  <1> QED BY <1>2, <1>3, <1>4, <1>5, <1>6, <1>7, <1>8 DEF Next, Handle

(* Sorting a finite set of numbers lists each of them once.                *)
LEMMA NumbersInOrder ==
    ASSUME NEW S, S \subseteq Nat, IsFiniteSet(S),
           NEW s, s = CHOOSE t \in [1..Cardinality(S) -> S] :
                        \A i, j \in 1..Cardinality(S) : i < j => t[i] < t[j]
    PROVE  /\ s \in Seq(S) /\ Len(s) \in Nat /\ DOMAIN s = 1..Len(s)
           /\ \A i, j \in 1..Len(s) : i < j => s[i] < s[j]
           /\ \A a \in S : \E i \in 1..Len(s) : s[i] = a
  <1> DEFINE R == {p \in S \X S : p[1] < p[2]}
             n == Cardinality(S)
  <1>1. \A a, b \in S : <<a, b>> \in R <=> a < b
    OBVIOUS
  <1> HIDE DEF R, n
  <1>2. Orders(R, S)
    BY <1>1 DEF Orders
  <1>3. \E t \in [1..n -> S] : \A i, j \in 1..n : i < j => t[i] < t[j]
    <2>1. PICK t \in [1..n -> S] : \A i, j \in 1..n : i < j => <<t[i], t[j]>> \in R
      BY <1>2, OrderedListExists DEF n
    <2> QED BY <1>1, <2>1
  <1>4. s \in [1..n -> S] /\ \A i, j \in 1..n : i < j => s[i] < s[j]
    <2>1. s = CHOOSE t \in [1..n -> S] : \A i, j \in 1..n : i < j => t[i] < t[j]
      BY DEF n
    <2> QED BY <1>3, <2>1
  <1>5. \A i, j \in 1..n : i < j => <<s[i], s[j]>> \in R
    BY <1>1, <1>4
  <1>6. /\ s \in Seq(S) /\ Len(s) = n /\ DOMAIN s = 1..Len(s)
        /\ \A a \in S : \E i \in 1..Len(s) : s[i] = a
    <2>1. /\ s \in Seq(S) /\ Len(s) = Cardinality(S) /\ DOMAIN s = 1..Len(s)
          /\ s \in Surjection(1..Len(s), S)
      BY <1>2, <1>4, <1>5, OrderedListComplete DEF n
    <2> QED BY <2>1 DEF n, Surjection
  <1>7. n \in Nat
    BY FS_CardinalityType DEF n
  <1> QED BY <1>4, <1>6, <1>7

(* List sorts the collections behind the position.                         *)
Behind == {id \in Existing : id > page.after}
Items == InOrder(Behind, <)

LEMMA ItemsInOrder ==
    /\ Items \in Seq(Behind) /\ Len(Items) \in Nat /\ DOMAIN Items = 1..Len(Items)
    /\ \A i, j \in 1..Len(Items) : i < j => Items[i] < Items[j]
    /\ \A id \in Behind : \E i \in 1..Len(Items) : Items[i] = id
  <1>1. Behind \subseteq Nat /\ IsFiniteSet(Behind)
    <2>1. Behind \in SUBSET Ids
      BY DEF Behind, Existing
    <2> QED BY <2>1, CollectionsAssumption, FS_Subset DEF CollectionsAssumption
  <1>2. Items = CHOOSE t \in [1..Cardinality(Behind) -> Behind] :
                  \A i, j \in 1..Cardinality(Behind) : i < j => t[i] < t[j]
    BY DEF Items, InOrder
  <1> QED BY <1>1, <1>2, NumbersInOrder

(* A page continues the ascending sequence, and leaves nothing out that is *)
(* owed up to the id it ends with.                                         *)
LEMMA ListPageKeeps ==
    ASSUME ListingSound, ListPage
    PROVE  ListingSound'
  <1> DEFINE more == Len(Items) > PageSize
             batch == IF more THEN SubSeq(Items, 1, PageSize) ELSE Items
             end == IF more THEN Items[PageSize] ELSE page.after
             seen == page.seen
             both == seen \o batch
  <1>1. /\ ~page.done /\ PageSize \in Nat \ {0}
        /\ page' = [page EXCEPT !.seen = @ \o (IF more THEN SubSeq(Items, 1, PageSize) ELSE Items),
                                !.after = IF more THEN Items[PageSize] ELSE @,
                                !.done = ~more]
        /\ UNCHANGED stored
    BY CollectionsAssumption DEF ListPage, Items, Behind, CollectionsAssumption
  <1> DEFINE fin == ~more
  <1>2. /\ page'.after = end /\ page'.seen = both /\ page'.owed = page.owed
        /\ page'.done = fin
        /\ page' = [after |-> end, seen |-> both, owed |-> page.owed, done |-> page'.done]
    <2>1. page = [after |-> page.after, seen |-> page.seen, owed |-> page.owed,
                  done |-> page.done]
      BY DEF ListingSound
    <2>2. page' = [page EXCEPT !.seen = both, !.after = end, !.done = fin]
      BY <1>1, <2>1
    <2> HIDE DEF more, batch, end, seen, both, fin
    <2> QED BY <2>1, <2>2
  <1>3. Behind \subseteq Ids /\ \A id \in Behind : id \in Nat /\ id > page.after
    BY CollectionsAssumption DEF Behind, Existing, CollectionsAssumption
  <1>4. /\ Items \in Seq(Ids) /\ Len(Items) \in Nat
        /\ \A i \in 1..Len(Items) : Items[i] \in Nat /\ Items[i] > page.after
    BY <1>3, ItemsInOrder
  <1>5. /\ batch \in Seq(Ids) /\ Len(batch) \in Nat /\ Len(batch) <= Len(Items)
        /\ \A i \in 1..Len(batch) : batch[i] = Items[i]
        /\ more => Len(batch) = PageSize
        /\ ~more => Len(batch) = Len(Items)
    <2>1. CASE more
      BY <1>1, <1>4, <2>1
    <2>2. CASE ~more
      BY <1>1, <1>4, <2>2
    <2> QED BY <2>1, <2>2
  <1>6. /\ more => end = Items[PageSize] /\ PageSize \in 1..Len(Items)
        /\ ~more => end = page.after
    BY <1>1, <1>4
  <1>7. /\ seen \in Seq(Ids) /\ Len(seen) \in Nat
        /\ \A i \in 1..Len(seen) : seen[i] \in Nat /\ seen[i] <= page.after
        /\ \A i, j \in 1..Len(seen) : i < j => seen[i] < seen[j]
    BY <1>1, CollectionsAssumption DEF ListingSound, CollectionsAssumption
  <1>8. \A id \in page.owed : id > page.after /\ (more => id <= end) =>
          \E i \in 1..Len(batch) : batch[i] = id
    <2> SUFFICES ASSUME NEW id \in page.owed, id > page.after, more => id <= end
                 PROVE  \E i \in 1..Len(batch) : batch[i] = id
      OBVIOUS
    <2>1. id \in Behind
      BY DEF ListingSound, Behind
    <2>2. PICK i \in 1..Len(Items) : Items[i] = id
      BY <2>1, ItemsInOrder
    <2> HIDE DEF more, end
    <2>3. ASSUME more PROVE i <= PageSize
      <3> SUFFICES ASSUME i > PageSize PROVE FALSE
        BY <1>1
      <3>1. PageSize \in 1..Len(Items) /\ end = Items[PageSize]
        BY <1>6, <2>3
      <3>2. Items[PageSize] < Items[i]
        BY <1>1, <3>1, ItemsInOrder
      <3> QED BY <1>4, <2>2, <2>3, <3>1, <3>2
    <2>4. i \in 1..Len(batch)
      BY <1>1, <1>4, <1>5, <2>3
    <2> QED BY <1>5, <2>2, <2>4
  <1>15. page'.done <=> ~more
    BY <1>2
  <1> HIDE DEF more, batch, end, seen, fin
  <1>9. /\ both \in Seq(Ids) /\ Len(both) = Len(seen) + Len(batch)
        /\ \A i \in 1..Len(seen) : both[i] = seen[i]
        /\ \A i \in 1..Len(batch) : both[Len(seen) + i] = batch[i]
    BY <1>5, <1>7
  <1> HIDE DEF both
  <1>10. \A i \in 1..Len(both) :
           i \in 1..Len(seen) \/ (i - Len(seen) \in 1..Len(batch) /\ both[i] = batch[i - Len(seen)])
    BY <1>5, <1>7, <1>9
  <1>11. \A i, j \in 1..Len(both) : i < j => both[i] < both[j]
    <2> SUFFICES ASSUME NEW i \in 1..Len(both), NEW j \in 1..Len(both), i < j
                 PROVE  both[i] < both[j]
      OBVIOUS
    <2>1. CASE i \in 1..Len(seen) /\ j \in 1..Len(seen)
      BY <1>7, <1>9, <2>1
    <2>2. CASE i \in 1..Len(seen) /\ j \notin 1..Len(seen)
      <3>1. /\ both[i] \in Nat /\ both[i] <= page.after
            /\ j - Len(seen) \in 1..Len(batch) /\ both[j] = batch[j - Len(seen)]
        BY <1>7, <1>9, <1>10, <2>2
      <3>2. both[j] \in Nat /\ both[j] > page.after
        <4>1. j - Len(seen) \in 1..Len(Items)
          BY <1>4, <1>5, <3>1
        <4> QED BY <1>4, <1>5, <3>1, <4>1
      <3>3. page.after \in Nat
        BY DEF ListingSound
      <3> QED BY <3>1, <3>2, <3>3
    <2>3. CASE i \notin 1..Len(seen)
      <3>1. /\ i - Len(seen) \in 1..Len(batch) /\ both[i] = batch[i - Len(seen)]
            /\ j - Len(seen) \in 1..Len(batch) /\ both[j] = batch[j - Len(seen)]
            /\ i - Len(seen) < j - Len(seen)
        <4>1. j \notin 1..Len(seen) /\ i - Len(seen) < j - Len(seen)
          BY <1>7, <1>9, <1>5, <2>3
        <4> QED BY <1>10, <2>3, <4>1
      <3> DEFINE a == i - Len(seen)
                 b == j - Len(seen)
      <3>2. a \in 1..Len(batch) /\ b \in 1..Len(batch) /\ a < b
            /\ both[i] = batch[a] /\ both[j] = batch[b]
        BY <3>1
      <3> HIDE DEF a, b
      <3>3. a \in 1..Len(Items) /\ b \in 1..Len(Items) /\ batch[a] = Items[a] /\ batch[b] = Items[b]
        BY <1>4, <1>5, <3>2
      <3> QED BY <3>2, <3>3, ItemsInOrder
    <2> QED BY <2>1, <2>2, <2>3
  <1>12. end \in Nat /\ (more => \A i \in 1..Len(both) : both[i] <= end)
    <2>1. page.after \in Nat
      BY DEF ListingSound
    <2>2. end \in Nat /\ end >= page.after
      BY <1>4, <1>6, <2>1
    <2>3. ASSUME more, NEW i \in 1..Len(batch) PROVE batch[i] <= end
      <3>1. /\ PageSize \in 1..Len(Items) /\ i \in 1..Len(Items) /\ batch[i] = Items[i]
            /\ end = Items[PageSize] /\ i <= PageSize
        BY <1>4, <1>5, <1>6, <2>3
      <3>2. i = PageSize \/ Items[i] < Items[PageSize]
        BY <3>1, ItemsInOrder
      <3> QED BY <1>4, <3>1, <3>2
    <2>4. ASSUME more, NEW i \in 1..Len(both) PROVE both[i] <= end
      <3>1. CASE i \in 1..Len(seen)
        BY <1>7, <1>9, <2>1, <2>2, <3>1
      <3>2. CASE i - Len(seen) \in 1..Len(batch) /\ both[i] = batch[i - Len(seen)]
        BY <2>3, <2>4, <3>2
      <3> QED BY <1>10, <3>1, <3>2
    <2> QED BY <2>2, <2>4
  <1>13. \A id \in page.owed : (more => id <= end) => id \in ToSet(both)
    <2> SUFFICES ASSUME NEW id \in page.owed, more => id <= end
                 PROVE  \E i \in 1..Len(both) : both[i] = id
      BY <1>9 DEF ToSet
    <2>1. id \in Nat /\ page.after \in Nat
      BY CollectionsAssumption DEF ListingSound, Existing, CollectionsAssumption
    <2>2. CASE id <= page.after
      <3>1. id \in ToSet(seen)
        BY <1>1, <2>2 DEF ListingSound, seen
      <3>2. PICK i \in 1..Len(seen) : seen[i] = id
        BY <1>7, <3>1 DEF ToSet
      <3>3. i \in 1..Len(both)
        BY <1>5, <1>7, <1>9
      <3> QED BY <1>9, <3>2, <3>3
    <2>3. CASE id > page.after
      <3>1. PICK i \in 1..Len(batch) : batch[i] = id
        BY <1>8, <2>3
      <3>2. Len(seen) + i \in 1..Len(both)
        BY <1>5, <1>7, <1>9
      <3> QED BY <1>9, <3>1, <3>2
    <2> QED BY <2>1, <2>2, <2>3
  <1>14. Existing' = Existing
    BY <1>1 DEF Existing
  <1>16. page.owed \subseteq Existing' /\ page'.owed = page.owed
    BY <1>2, <1>14 DEF ListingSound
  <1>17. ~page'.done => /\ \A i \in 1..Len(both) : both[i] <= end
                        /\ \A id \in page.owed : id <= end => id \in ToSet(both)
    BY <1>12, <1>13, <1>15
  <1>18. page'.done => page.owed \subseteq ToSet(both)
    BY <1>13, <1>15
  <1> QED BY <1>2, <1>9, <1>11, <1>12, <1>16, <1>17, <1>18 DEF ListingSound

LEMMA ListingSoundKept ==
    ASSUME Inv, ListingSound, [Next]_vars
    PROVE  ListingSound'
  <1>1. Existing \subseteq Existing'
    BY ExistingGrows
  <1>2. CASE UNCHANGED page
    BY <1>1, <1>2 DEF ListingSound
  <1>3. CASE ListStart
    <2>1. page' = [after |-> 0, seen |-> <<>>, owed |-> Existing, done |-> FALSE]
      BY <1>3 DEF ListStart
    <2>2. \A id \in Existing : id \in Nat \ {0}
      BY CollectionsAssumption DEF Existing, CollectionsAssumption
    <2> QED BY <1>1, <2>1, <2>2 DEF ListingSound
  <1>4. CASE ListPage
    BY <1>4, ListPageKeeps
  <1>5. CASE \E w \in Workers : Handle(w)
    BY <1>2, <1>5 DEF Handle, Replay, CreateInvalid, CreateStored, RegisterEngine, Update,
                      IndexDocument
  <1>6. CASE \E w \in Workers, key \in Keys :
               Reserve(w, key) \/ ReserveReplayed(w, key) \/ ReserveConflict(w, key)
    BY <1>2, <1>6 DEF Reserve, ReserveReplayed, ReserveConflict, vars
  <1>7. CASE \E w \in Workers : CreateUnkeyed(w) \/ ReplaceRefused(w)
    BY <1>2, <1>7 DEF CreateUnkeyed, ReplaceRefused, vars
  <1>8. CASE \E w \in Workers, id \in Ids : ReplaceSchema(w, id) \/ AdmitDocument(w, id)
    BY <1>2, <1>8 DEF ReplaceSchema, AdmitDocument
  <1>9. CASE (\E key \in Keys : Expire(key)) \/ UNCHANGED vars
    BY <1>2, <1>9 DEF Expire, vars
  <1> QED BY <1>3, <1>4, <1>5, <1>6, <1>7, <1>8, <1>9 DEF Next

(* Whatever is created while a client lists page by page, it gets every    *)
(* collection there was when it began, once and in order                   *)
(* (memory.go List, server.go listCollections).                            *)
THEOREM ListingsComplete == Spec => []ListingComplete
  <1>1. Init => ListingSound
    BY DEF Init, ListingSound
  <1>2. Inv /\ ListingSound /\ [Next]_vars => ListingSound'
    BY ListingSoundKept
  <1>3. ListingSound => ListingComplete
    BY DEF ListingSound, ListingComplete
  <1> QED BY <1>1, <1>2, <1>3, InvHolds, PTL DEF Spec
=============================================================================
