------------------------------- MODULE Engine -------------------------------
(***************************************************************************)
(* The in-memory index of one collection (internal/index/index.go, Engine).*)
(* Writes go to a mutable buffer under Engine.mu; a full buffer is sealed  *)
(* into a new immutable segment with the next generation.  Readers and     *)
(* Delete look a document up in the buffer first and then in the segments, *)
(* newest first.                                                           *)
(*                                                                         *)
(* Every method holds Engine.mu from entry to return, so each is one       *)
(* action here.  Contents (fields, schema version, timestamps, postings)   *)
(* are an opaque member of Bodies.                                         *)
(***************************************************************************)
EXTENDS Naturals, Sequences, FiniteSets, FiniteSetsExt

CONSTANTS
    DocIds,         \* document identifiers
    Versions,       \* external versions a caller may send (uint64)
    Bodies,         \* document contents
    NoDoc,          \* the absent map entry
    maxMutable,     \* buffer size at which Upsert seals the buffer
    MaxGeneration   \* bound: segments sealed in one behaviour

ASSUME EngineAssumption ==
    /\ IsFiniteSet(DocIds)
    /\ Versions \subseteq Nat
    /\ NoDoc \notin [version: Versions, body: Bodies, deleted: BOOLEAN]
    /\ maxMutable \in Nat \ {0}
    /\ MaxGeneration \in Nat

VARIABLES
    mutable,        \* Engine.mutable: id -> buffered document, or NoDoc
    segments,       \* Engine.segments, oldest first
    generation      \* Engine.generation: number of the newest segment

vars == <<mutable, segments, generation>>

Doc == [version: Versions, body: Bodies, deleted: BOOLEAN]
DocMap == [DocIds -> Doc \cup {NoDoc}]
Segment == [generation: Nat, docs: DocMap]

Present(docs) == {id \in DocIds : docs[id] # NoDoc}

(* Definitions whose name has an underscore are the code with a plausible  *)
(* mistake in it; no specification uses them.  They measure whether the    *)
(* properties below would notice.                                          *)

(* The segments that hold a version of id, the newest of these versions,   *)
(* and the version a reader sees.                                          *)
Holders(id) == {i \in DOMAIN segments : segments[i].docs[id] # NoDoc}

Sealed_OldestFirst(id) ==
    IF Holders(id) = {} THEN NoDoc ELSE segments[Min(Holders(id))].docs[id]

Sealed(id) ==
    IF Holders(id) = {} THEN NoDoc ELSE segments[Max(Holders(id))].docs[id]

Newest(id) == IF mutable[id] # NoDoc THEN mutable[id] ELSE Sealed(id)

Init ==
    /\ mutable = [id \in DocIds |-> NoDoc]
    /\ segments = <<>>
    /\ generation = 0

(* A new segment with the next generation behind the ones in target.       *)
SealInto(target, docs) ==
    /\ generation < MaxGeneration
    /\ generation' = generation + 1
    /\ segments' = Append(target, [generation |-> generation + 1, docs |-> docs])

SealBuffer_NilMap(buffer) ==
    Present(buffer) # {} /\ SealInto(segments, buffer) /\ mutable' = <<>>

SealBuffer_Empty(buffer) ==
    SealInto(segments, buffer) /\ mutable' = [id \in DocIds |-> NoDoc]

SealBuffer_IntoNewest(buffer) ==
    /\ SealInto(IF segments = <<>> THEN <<>> ELSE SubSeq(segments, 1, Len(segments) - 1),
                [id \in DocIds |-> IF buffer[id] # NoDoc THEN buffer[id] ELSE Sealed(id)])
    /\ mutable' = [id \in DocIds |-> NoDoc]

SealBuffer_DropsTombstones(buffer) ==
    /\ Present(buffer) # {}
    /\ SealInto(segments, [id \in DocIds |->
                   IF buffer[id] # NoDoc /\ buffer[id].deleted THEN NoDoc ELSE buffer[id]])
    /\ mutable' = [id \in DocIds |-> NoDoc]

(* flushLocked on a buffer: nothing when it is empty.                      *)
SealBuffer(buffer) ==
    \/ /\ Present(buffer) = {}
       /\ mutable' = buffer
       /\ UNCHANGED <<segments, generation>>
    \/ /\ Present(buffer) # {}
       /\ SealInto(segments, buffer)
       /\ mutable' = [id \in DocIds |-> NoDoc]

AcceptsUpsert_Unchecked(id, version) == TRUE

(* Upsert compares versions with the buffered entry only.                  *)
AcceptsUpsert(id, version) ==
    mutable[id] # NoDoc => version > mutable[id].version

Upsert_OffByOne(id, version, body) ==
    /\ AcceptsUpsert(id, version)
    /\ LET buffer == [mutable EXCEPT ![id] =
                        [version |-> version, body |-> body, deleted |-> FALSE]]
       IN  IF Cardinality(Present(buffer)) > maxMutable
           THEN SealBuffer(buffer)
           ELSE mutable' = buffer /\ UNCHANGED <<segments, generation>>

Upsert(id, version, body) ==
    /\ AcceptsUpsert(id, version)
    /\ LET buffer == [mutable EXCEPT ![id] =
                        [version |-> version, body |-> body, deleted |-> FALSE]]
       IN  IF Cardinality(Present(buffer)) >= maxMutable
           THEN SealBuffer(buffer)
           ELSE mutable' = buffer /\ UNCHANGED <<segments, generation>>

(* Delete compares with the version a reader sees, wherever it is.         *)
AcceptsDelete(id, version) ==
    /\ Newest(id) # NoDoc
    /\ version > Newest(id).version

(* The tombstone goes to the buffer, whose size is not checked here.       *)
Delete(id, version) ==
    /\ AcceptsDelete(id, version)
    /\ mutable' = [mutable EXCEPT ![id] =
                     [version |-> version, body |-> Newest(id).body, deleted |-> TRUE]]
    /\ UNCHANGED <<segments, generation>>

Flush == SealBuffer(mutable)

(* "external version conflict" and "document not found".                   *)
RefuseUpsert(id, version) == ~AcceptsUpsert(id, version) /\ UNCHANGED vars
RefuseDelete(id, version) == ~AcceptsDelete(id, version) /\ UNCHANGED vars

Next ==
    \/ \E id \in DocIds, version \in Versions, body \in Bodies : Upsert(id, version, body)
    \/ \E id \in DocIds, version \in Versions : Delete(id, version)
    \/ \E id \in DocIds, version \in Versions : RefuseUpsert(id, version)
    \/ \E id \in DocIds, version \in Versions : RefuseDelete(id, version)
    \/ Flush

Spec == Init /\ [][Next]_vars
-----------------------------------------------------------------------------
(* The buffer and every segment map ids to documents of the declared form. *)
TypeOK ==
    /\ mutable \in DocMap
    /\ segments \in Seq(Segment)
    /\ generation \in Nat

(* Segments carry the generations 1, 2, ... without gap or repetition and  *)
(* none is empty: a generation names one snapshot (search cursors compare  *)
(* it), so flushing an empty buffer must not consume one.                  *)
SegmentsNumbered ==
    /\ Len(segments) = generation
    /\ \A i \in 1..Len(segments) :
         segments[i].generation = i /\ Present(segments[i].docs) # {}

(* The buffer may exceed maxMutable, because Delete never seals it; what   *)
(* stays below the limit is the number of live documents in it, whatever   *)
(* the order of upserts, deletes, re-insertions and flushes.               *)
Live == {id \in Present(mutable) : ~mutable[id].deleted}
LiveBufferBounded == Cardinality(Live) < maxMutable

(* Segments are never changed or dropped once sealed: a Search that copied *)
(* the segment list keeps reading the snapshot it took after it unlocks.   *)
SealedSegmentsImmutable ==
    [][/\ Len(segments') >= Len(segments)
       /\ SubSeq(segments', 1, Len(segments)) = segments]_vars

(* Buffer, segments and lookup order together implement a plain map: one   *)
(* write changes what readers see of one id, sealing changes nothing they  *)
(* see, and a version can fall only when its id is not buffered.           *)
Store == INSTANCE DocumentStore WITH
            view <- [id \in DocIds |-> Newest(id)],
            guarded <- Present(mutable)
ImplementsDocumentStore == Store!Spec

(* "external version conflict" read as a promise to readers: the version   *)
(* of a document never falls.                                              *)
VersionsNeverRegress ==
    [][\A id \in DocIds :
         Newest(id) # NoDoc => Newest(id)'.version >= Newest(id).version]_vars
=============================================================================
