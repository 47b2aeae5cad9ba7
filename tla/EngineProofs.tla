---------------------------- MODULE EngineProofs ----------------------------
(* Theorems about Engine for every set of documents, versions and contents *)
(* and every buffer limit.  The invariant that carries them is TypeOK with *)
(* SegmentsNumbered and LiveBufferBounded; each is preserved step by step. *)
EXTENDS Engine, Positions, FiniteSetTheorems, SequenceTheorems

Safe == TypeOK /\ SegmentsNumbered /\ LiveBufferBounded

(* The version a reader sees is a document, or there is none.              *)
LEMMA NewestType ==
    ASSUME TypeOK, NEW id \in DocIds
    PROVE  Newest(id) \in Doc \cup {NoDoc}
  <1>1. CASE mutable[id] # NoDoc
    BY <1>1 DEF TypeOK, Newest, DocMap
  <1>2. CASE mutable[id] = NoDoc /\ Holders(id) = {}
    BY <1>2 DEF Newest, Sealed
  <1>3. CASE mutable[id] = NoDoc /\ Holders(id) # {}
    <2>1. Len(segments) \in Nat /\ Holders(id) \subseteq 1..Len(segments)
      BY DEF TypeOK, Holders
    <2>2. Max(Holders(id)) \in 1..Len(segments)
      BY <1>3, <2>1, LargestPosition
    <2>3. segments[Max(Holders(id))] \in Segment
      BY <2>2 DEF TypeOK
    <2> QED BY <1>3, <2>3 DEF Newest, Sealed, Segment, DocMap
  <1> QED BY <1>1, <1>2, <1>3

(* Upsert puts a map of documents into the buffer.                         *)
LEMMA UpsertBuffer ==
    ASSUME TypeOK, NEW id \in DocIds, NEW version \in Versions, NEW body \in Bodies
    PROVE  [mutable EXCEPT ![id] =
              [version |-> version, body |-> body, deleted |-> FALSE]] \in DocMap
  BY DEF TypeOK, DocMap, Doc

(* Sealing a buffer keeps types and segment numbers and empties the buffer *)
(* unless there was nothing in it.                                         *)
LEMMA SealKeeps ==
    ASSUME TypeOK, SegmentsNumbered, NEW buffer \in DocMap, SealBuffer(buffer)
    PROVE  TypeOK' /\ SegmentsNumbered' /\ Present(mutable') = {}
  <1>1. CASE Present(buffer) = {} /\ mutable' = buffer /\ UNCHANGED <<segments, generation>>
    BY <1>1 DEF TypeOK, SegmentsNumbered, Present
  <1>2. CASE /\ Present(buffer) # {}
             /\ generation' = generation + 1
             /\ segments' = Append(segments, [generation |-> generation + 1, docs |-> buffer])
             /\ mutable' = [id \in DocIds |-> NoDoc]
    <2> DEFINE s == [generation |-> generation + 1, docs |-> buffer]
    <2>1. s \in Segment /\ s.generation = generation + 1 /\ s.docs = buffer
      BY DEF Segment, TypeOK
    <2>2. mutable' \in DocMap /\ Present(mutable') = {}
      BY <1>2 DEF DocMap, Present
    <2>3. /\ segments' \in Seq(Segment)
          /\ Len(segments') = Len(segments) + 1
          /\ \A i \in 1..Len(segments) : segments'[i] = segments[i]
          /\ segments'[Len(segments) + 1] = s
      <3> HIDE DEF s
      <3> QED BY <1>2, <2>1, AppendProperties DEF TypeOK, s
    <2>4. TypeOK'
      BY <1>2, <2>2, <2>3 DEF TypeOK
    <2>5. SegmentsNumbered'
      <3>1. Len(segments') = generation'
        BY <1>2, <2>3 DEF SegmentsNumbered
      <3>2. ASSUME NEW i \in 1..Len(segments')
            PROVE  segments'[i].generation = i /\ Present(segments'[i].docs) # {}
        <4>1. CASE i \in 1..Len(segments)
          BY <4>1, <2>3 DEF SegmentsNumbered
        <4>2. CASE i = Len(segments) + 1
          <5> HIDE DEF s
          <5> QED BY <4>2, <2>1, <2>3, <1>2 DEF SegmentsNumbered
        <4>3. Len(segments) \in Nat
          BY DEF TypeOK
        <4> QED BY <4>1, <4>2, <4>3, <2>3
      <3> QED BY <3>1, <3>2 DEF SegmentsNumbered, Present
    <2> QED BY <2>2, <2>4, <2>5
  <1> QED BY <1>1, <1>2 DEF SealBuffer, SealInto

LEMMA UpsertKeeps ==
    ASSUME EngineAssumption, Safe,
           NEW id \in DocIds, NEW version \in Versions, NEW body \in Bodies,
           Upsert(id, version, body)
    PROVE  Safe'
  <1> DEFINE buffer == [mutable EXCEPT ![id] =
                          [version |-> version, body |-> body, deleted |-> FALSE]]
  <1>1. buffer \in DocMap
    BY UpsertBuffer DEF Safe
  <1>2. CASE Cardinality(Present(buffer)) >= maxMutable
    <2>1. SealBuffer(buffer)
      BY <1>2 DEF Upsert
    <2>2. TypeOK' /\ SegmentsNumbered' /\ Present(mutable') = {}
      <3> HIDE DEF buffer
      <3> QED BY <1>1, <2>1, SealKeeps DEF Safe
    <2>3. Live' = {}
      BY <2>2 DEF Live
    <2> QED BY <2>2, <2>3, FS_EmptySet DEF Safe, LiveBufferBounded, EngineAssumption
  <1>3. CASE ~(Cardinality(Present(buffer)) >= maxMutable)
    <2>1. mutable' = buffer /\ UNCHANGED <<segments, generation>>
      BY <1>3 DEF Upsert
    <2>2. TypeOK' /\ SegmentsNumbered'
      BY <1>1, <2>1 DEF Safe, TypeOK, SegmentsNumbered, Present
    <2>3. Present(mutable)' = Present(buffer)
      BY <2>1 DEF Present
    <2>4. (/\ Cardinality(Present(mutable)) \in Nat
           /\ Cardinality(Live) \in Nat
           /\ Cardinality(Live) <= Cardinality(Present(mutable)))'
      <3>1. Live' \subseteq Present(mutable)' /\ Present(mutable)' \subseteq DocIds
        BY DEF Live, Present
      <3>2. IsFiniteSet(Present(mutable)') /\ IsFiniteSet(Live')
        BY <3>1, FS_Subset DEF EngineAssumption
      <3> QED BY <3>1, <3>2, FS_Subset, FS_CardinalityType
    <2> QED BY <1>3, <2>2, <2>3, <2>4 DEF Safe, LiveBufferBounded, EngineAssumption
  <1> QED BY <1>2, <1>3

LEMMA DeleteKeeps ==
    ASSUME EngineAssumption, Safe, NEW id \in DocIds, NEW version \in Versions,
           Delete(id, version)
    PROVE  Safe'
  <1> DEFINE tombstone == [version |-> version, body |-> Newest(id).body, deleted |-> TRUE]
  <1>1. Newest(id) \in Doc
    BY NewestType DEF Safe, Delete, AcceptsDelete
  <1>2. tombstone \in Doc /\ tombstone.deleted
    BY <1>1 DEF Doc
  <1>3. /\ mutable' = [mutable EXCEPT ![id] = tombstone]
        /\ UNCHANGED <<segments, generation>>
    BY DEF Delete
  <1> HIDE DEF tombstone
  <1>4. TypeOK' /\ SegmentsNumbered'
    BY <1>2, <1>3 DEF Safe, TypeOK, SegmentsNumbered, DocMap, Present
  <1>5. Live' \subseteq Live
    BY <1>2, <1>3 DEF Safe, TypeOK, DocMap, Live, Present
  <1>6. IsFiniteSet(Live) /\ Live' \in SUBSET Live
    BY <1>5, FS_Subset DEF EngineAssumption, Live, Present
  <1>7. /\ Cardinality(Live') <= Cardinality(Live)
        /\ Cardinality(Live) \in Nat /\ Cardinality(Live') \in Nat
    BY <1>6, FS_Subset, FS_CardinalityType
  <1> QED BY <1>4, <1>7 DEF Safe, LiveBufferBounded, EngineAssumption

LEMMA FlushKeeps ==
    ASSUME EngineAssumption, Safe, Flush
    PROVE  Safe'
  <1>1. TypeOK' /\ SegmentsNumbered' /\ Present(mutable') = {}
    BY SealKeeps DEF Safe, TypeOK, Flush
  <1>2. Live' = {}
    BY <1>1 DEF Live
  <1> QED BY <1>1, <1>2, FS_EmptySet DEF Safe, LiveBufferBounded, EngineAssumption

LEMMA NextKeeps ==
    ASSUME EngineAssumption, Safe, [Next]_vars
    PROVE  Safe'
  <1>1. CASE UNCHANGED vars
    BY <1>1 DEF vars, Safe, TypeOK, SegmentsNumbered, LiveBufferBounded, Live, Present
  <1>2. ASSUME NEW id \in DocIds, NEW version \in Versions, NEW body \in Bodies,
               Upsert(id, version, body)
        PROVE  Safe'
    BY <1>2, UpsertKeeps
  <1>3. ASSUME NEW id \in DocIds, NEW version \in Versions, Delete(id, version)
        PROVE  Safe'
    BY <1>3, DeleteKeeps
  <1>4. CASE Flush
    BY <1>4, FlushKeeps
  <1> QED BY <1>1, <1>2, <1>3, <1>4 DEF Next, RefuseUpsert, RefuseDelete

LEMMA SafeAtStart ==
    ASSUME EngineAssumption, Init
    PROVE  Safe
  <1>1. TypeOK /\ SegmentsNumbered
    BY DEF Init, TypeOK, SegmentsNumbered, DocMap
  <1>2. Live = {}
    BY DEF Init, Live, Present
  <1> QED BY <1>1, <1>2, FS_EmptySet DEF Safe, LiveBufferBounded, EngineAssumption

(* The initial engine satisfies the invariant and every step keeps it.     *)
THEOREM EngineInvariant == Spec => []Safe
  <1>1. Init => Safe
    BY SafeAtStart, EngineAssumption
  <1>2. Safe /\ [Next]_vars => Safe'
    BY NextKeeps, EngineAssumption
  <1> QED BY <1>1, <1>2, PTL DEF Spec

(* Buffer and segments hold documents, tombstones included, in every       *)
(* reachable state (Engine.mutable, Engine.segments).                      *)
THEOREM TypeCorrect == Spec => []TypeOK
  BY EngineInvariant, PTL DEF Safe

(* A generation number names exactly one segment (flushLocked).            *)
THEOREM GenerationsNameSegments == Spec => []SegmentsNumbered
  BY EngineInvariant, PTL DEF Safe

(* Upsert alone decides on sealing, and still the live part of the buffer  *)
(* is below maxMutable after every Upsert, Delete and Flush.               *)
THEOREM LiveBufferStaysBounded == Spec => []LiveBufferBounded
  BY EngineInvariant, PTL DEF Safe
-----------------------------------------------------------------------------
(* The front of a sequence, of its own and of the sequence it grew into.   *)
LEMMA PrefixItself ==
    ASSUME NEW S, NEW seq \in Seq(S)
    PROVE  Len(seq) >= Len(seq) /\ SubSeq(seq, 1, Len(seq)) = seq
  OBVIOUS

LEMMA PrefixOfAppend ==
    ASSUME NEW S, NEW seq \in Seq(S), NEW x \in S
    PROVE  /\ Len(Append(seq, x)) >= Len(seq)
           /\ SubSeq(Append(seq, x), 1, Len(seq)) = seq
  OBVIOUS

(* A sealed buffer goes behind the segments there are.                     *)
LEMMA SealAppends ==
    ASSUME TypeOK, NEW buffer \in DocMap, SealBuffer(buffer)
    PROVE  /\ Len(segments') >= Len(segments)
           /\ SubSeq(segments', 1, Len(segments)) = segments
  <1>1. CASE UNCHANGED segments
    BY <1>1, PrefixItself DEF TypeOK
  <1>2. CASE segments' = Append(segments, [generation |-> generation + 1, docs |-> buffer])
    <2> DEFINE s == [generation |-> generation + 1, docs |-> buffer]
    <2>1. s \in Segment
      BY DEF Segment, TypeOK
    <2> HIDE DEF s
    <2> QED BY <1>2, <2>1, PrefixOfAppend DEF TypeOK, s
  <1> QED BY <1>1, <1>2 DEF SealBuffer, SealInto

LEMMA StepsExtend ==
    ASSUME TypeOK, [Next]_vars
    PROVE  /\ Len(segments') >= Len(segments)
           /\ SubSeq(segments', 1, Len(segments)) = segments
  <1>1. CASE UNCHANGED segments
    BY <1>1, PrefixItself DEF TypeOK
  <1>2. ASSUME NEW id \in DocIds, NEW version \in Versions, NEW body \in Bodies,
               Upsert(id, version, body), ~UNCHANGED segments
        PROVE  \E buffer \in DocMap : SealBuffer(buffer)
    BY <1>2, UpsertBuffer DEF Upsert
  <1>3. ASSUME Flush
        PROVE  \E buffer \in DocMap : SealBuffer(buffer)
    BY <1>3 DEF Flush, TypeOK
  <1> QED BY <1>1, <1>2, <1>3, SealAppends
          DEF Next, Delete, RefuseUpsert, RefuseDelete, vars

(* No operation changes or drops a sealed segment, so the list Search has  *)
(* copied stays what the engine has (Engine.Search after RUnlock).         *)
THEOREM SealedNeverChange == Spec => SealedSegmentsImmutable
  <1>1. TypeOK /\ [Next]_vars =>
          [/\ Len(segments') >= Len(segments)
           /\ SubSeq(segments', 1, Len(segments)) = segments]_vars
    BY StepsExtend
  <1> QED BY <1>1, TypeCorrect, PTL DEF Spec, SealedSegmentsImmutable
-----------------------------------------------------------------------------
(* What readers see after sealing a buffer is the buffer laid over what    *)
(* the segments held before.                                               *)
LEMMA SealSees ==
    ASSUME TypeOK, NEW buffer \in DocMap, SealBuffer(buffer), NEW id \in DocIds
    PROVE  Newest(id)' = IF buffer[id] # NoDoc THEN buffer[id] ELSE Sealed(id)
  <1>1. CASE Present(buffer) = {} /\ mutable' = buffer /\ UNCHANGED <<segments, generation>>
    BY <1>1 DEF Newest, Sealed, Holders
  <1>2. CASE /\ segments' = Append(segments, [generation |-> generation + 1, docs |-> buffer])
             /\ mutable' = [i \in DocIds |-> NoDoc]
    <2> DEFINE s == [generation |-> generation + 1, docs |-> buffer]
    <2>1. s \in Segment /\ s.docs = buffer
      BY DEF Segment, TypeOK
    <2> HIDE DEF s
    <2>2. /\ Len(segments) \in Nat
          /\ Len(segments') = Len(segments) + 1
          /\ \A i \in 1..Len(segments) : segments'[i] = segments[i]
          /\ segments'[Len(segments) + 1] = s
          /\ DOMAIN segments = 1..Len(segments)
          /\ DOMAIN segments' = 1..Len(segments')
      BY <1>2, <2>1, AppendProperties, LenProperties DEF TypeOK, s
    <2>3. Newest(id)' = Sealed(id)'
      BY <1>2 DEF Newest
    <2>4. CASE buffer[id] = NoDoc
      <3>1. Holders(id)' = Holders(id)
        BY <2>1, <2>2, <2>4 DEF Holders
      <3>2. CASE Holders(id) = {}
        BY <2>3, <2>4, <3>1, <3>2 DEF Sealed
      <3>3. CASE Holders(id) # {}
        <4>1. Holders(id) \subseteq 1..Len(segments)
          BY <2>2 DEF Holders
        <4>2. Max(Holders(id)) \in 1..Len(segments)
          BY <2>2, <3>3, <4>1, LargestPosition
        <4> QED BY <2>2, <2>3, <2>4, <3>1, <3>3, <4>2 DEF Sealed
      <3> QED BY <3>2, <3>3
    <2>5. CASE buffer[id] # NoDoc
      <3>1. Len(segments) + 1 \in Holders(id)' /\ Holders(id)' \subseteq 1..(Len(segments) + 1)
        BY <2>1, <2>2, <2>5 DEF Holders
      <3>2. /\ Max(Holders(id)') \in Holders(id)'
            /\ Max(Holders(id)') >= Len(segments) + 1
        BY <2>2, <3>1, LargestPosition
      <3>3. Max(Holders(id)') = Len(segments) + 1
        BY <2>2, <3>1, <3>2
      <3> QED BY <2>1, <2>2, <2>3, <2>5, <3>1, <3>3 DEF Sealed
    <2> QED BY <2>4, <2>5
  <1> QED BY <1>1, <1>2 DEF SealBuffer, SealInto

(* Sealing leaves the buffer empty or as it was.                           *)
LEMMA SealUnguards ==
    ASSUME NEW buffer \in DocMap, SealBuffer(buffer)
    PROVE  Present(mutable)' = {}
  BY DEF SealBuffer, Present

LEMMA UpsertPuts ==
    ASSUME EngineAssumption, TypeOK,
           NEW id \in DocIds, NEW version \in Versions, NEW body \in Bodies,
           Upsert(id, version, body)
    PROVE  Store!Put(id, version, body)
  <1> DEFINE doc == [version |-> version, body |-> body, deleted |-> FALSE]
             buffer == [mutable EXCEPT ![id] = doc]
  <1>1. doc # NoDoc
    <2>1. doc \in Doc
      BY DEF Doc
    <2> HIDE DEF doc
    <2> QED BY <2>1 DEF EngineAssumption, Doc
  <1>2. buffer \in DocMap /\ \A j \in DocIds : buffer[j] = IF j = id THEN doc ELSE mutable[j]
    BY UpsertBuffer DEF TypeOK, DocMap
  <1>3. id \in Present(mutable) => version > Newest(id).version
    BY DEF Upsert, AcceptsUpsert, Present, Newest
  <1>4. CASE Cardinality(Present(buffer)) >= maxMutable
    <2>1. SealBuffer(buffer)
      BY <1>4 DEF Upsert
    <2> HIDE DEF buffer, doc
    <2>2. Present(mutable)' = {}
      BY <1>2, <2>1, SealUnguards
    <2>3. \A j \in DocIds : Newest(j)' = IF j = id THEN doc ELSE Newest(j)
      <3> TAKE j \in DocIds
      <3>1. Newest(j)' = IF buffer[j] # NoDoc THEN buffer[j] ELSE Sealed(j)
        BY <1>2, <2>1, SealSees
      <3> QED BY <1>1, <1>2, <3>1 DEF Newest
    <2> QED BY <1>3, <2>2, <2>3 DEF Store!Put, doc
  <1>5. CASE ~(Cardinality(Present(buffer)) >= maxMutable)
    <2>1. mutable' = buffer /\ UNCHANGED segments
      BY <1>5 DEF Upsert
    <2> HIDE DEF buffer, doc
    <2>2. Present(mutable)' = Present(mutable) \cup {id}
      BY <1>1, <1>2, <2>1 DEF Present
    <2>3. \A j \in DocIds : Newest(j)' = IF j = id THEN doc ELSE Newest(j)
      BY <1>1, <1>2, <2>1 DEF Newest, Sealed, Holders
    <2> QED BY <1>3, <2>2, <2>3 DEF Store!Put, doc
  <1> QED BY <1>4, <1>5

LEMMA DeleteRemoves ==
    ASSUME EngineAssumption, TypeOK, NEW id \in DocIds, NEW version \in Versions,
           Delete(id, version)
    PROVE  Store!Remove(id, version)
  <1> DEFINE tombstone == [version |-> version, body |-> Newest(id).body, deleted |-> TRUE]
  <1>1. Newest(id) \in Doc /\ version > Newest(id).version /\ Newest(id) # NoDoc
    BY NewestType DEF Delete, AcceptsDelete
  <1>2. tombstone # NoDoc
    <2>1. tombstone \in Doc
      BY <1>1 DEF Doc
    <2> HIDE DEF tombstone
    <2> QED BY <2>1 DEF EngineAssumption, Doc
  <1>3. mutable' = [mutable EXCEPT ![id] = tombstone] /\ UNCHANGED segments
    BY DEF Delete
  <1> HIDE DEF tombstone
  <1>4. \A j \in DocIds : mutable'[j] = IF j = id THEN tombstone ELSE mutable[j]
    BY <1>3 DEF TypeOK, DocMap
  <1>5. Present(mutable)' = Present(mutable) \cup {id}
    BY <1>2, <1>4 DEF Present
  <1>6. \A j \in DocIds : Newest(j)' = IF j = id THEN tombstone ELSE Newest(j)
    BY <1>2, <1>3, <1>4 DEF Newest, Sealed, Holders
  <1> QED BY <1>1, <1>5, <1>6 DEF Store!Remove, tombstone

LEMMA FlushUnguards ==
    ASSUME TypeOK, Flush
    PROVE  Store!Unguard
  <1>1. Present(mutable)' = {}
    BY SealUnguards DEF TypeOK, Flush
  <1>2. \A j \in DocIds : Newest(j)' = Newest(j)
    BY SealSees DEF TypeOK, Flush, Newest
  <1> QED BY <1>1, <1>2 DEF Store!Unguard

(* What a step of the map means for one document.                          *)
LEMMA PutSees ==
    ASSUME NEW id \in DocIds, NEW version, NEW body, Store!Put(id, version, body)
    PROVE  \A j \in DocIds :
             Newest(j)' = IF j = id
                          THEN [version |-> version, body |-> body, deleted |-> FALSE]
                          ELSE Newest(j)
  <1> DEFINE doc == [version |-> version, body |-> body, deleted |-> FALSE]
  <1>1. [j \in DocIds |-> Newest(j)'] = [[j \in DocIds |-> Newest(j)] EXCEPT ![id] = doc]
    BY DEF Store!Put
  <1> HIDE DEF doc
  <1>2. \A j \in DocIds : [i \in DocIds |-> Newest(i)'][j] = IF j = id THEN doc ELSE Newest(j)
    BY <1>1
  <1> QED BY <1>2 DEF doc

LEMMA RemoveSees ==
    ASSUME NEW id \in DocIds, NEW version, Store!Remove(id, version)
    PROVE  \A j \in DocIds :
             Newest(j)' = IF j = id
                          THEN [version |-> version, body |-> Newest(id).body, deleted |-> TRUE]
                          ELSE Newest(j)
  <1> DEFINE tombstone == [version |-> version, body |-> Newest(id).body, deleted |-> TRUE]
  <1>1. [j \in DocIds |-> Newest(j)']
          = [[j \in DocIds |-> Newest(j)] EXCEPT ![id] = tombstone]
    BY DEF Store!Remove
  <1> HIDE DEF tombstone
  <1>2. \A j \in DocIds :
          [i \in DocIds |-> Newest(i)'][j] = IF j = id THEN tombstone ELSE Newest(j)
    BY <1>1
  <1> QED BY <1>2 DEF tombstone

LEMMA UnguardSees ==
    ASSUME Store!Unguard
    PROVE  \A j \in DocIds : Newest(j)' = Newest(j)
  <1>1. [j \in DocIds |-> Newest(j)'] = [j \in DocIds |-> Newest(j)]
    BY DEF Store!Unguard
  <1>2. \A j \in DocIds : [i \in DocIds |-> Newest(i)'][j] = [i \in DocIds |-> Newest(i)][j]
    BY <1>1
  <1> QED BY <1>2

(* Every call on the engine is one call on the map a reader has in mind,   *)
(* whichever of buffer and segments holds a document (Engine.Upsert,       *)
(* Delete, Flush and the lookup of Search).                                *)
THEOREM EngineImplementsStore == Spec => ImplementsDocumentStore
  <1>1. Init => Store!Init
    BY DEF Init, Store!Init, Newest, Sealed, Holders, Present
  <1>2. TypeOK /\ [Next]_vars => [Store!Next]_Store!vars
    <2> SUFFICES ASSUME TypeOK, [Next]_vars PROVE [Store!Next]_Store!vars
      OBVIOUS
    <2>1. CASE UNCHANGED vars
      BY <2>1 DEF vars, Store!vars, Newest, Sealed, Holders, Present
    <2>2. ASSUME NEW id \in DocIds, NEW version \in Versions, NEW body \in Bodies,
                 Upsert(id, version, body)
          PROVE  Store!Next
      BY <2>2, UpsertPuts, EngineAssumption DEF Store!Next
    <2>3. ASSUME NEW id \in DocIds, NEW version \in Versions, Delete(id, version)
          PROVE  Store!Next
      BY <2>3, DeleteRemoves, EngineAssumption DEF Store!Next
    <2>4. CASE Flush
      BY <2>4, FlushUnguards DEF Store!Next
    <2> QED BY <2>1, <2>2, <2>3, <2>4 DEF Next, RefuseUpsert, RefuseDelete
  <1> QED BY <1>1, <1>2, TypeCorrect, PTL DEF Spec, Store!Spec, ImplementsDocumentStore
=============================================================================
