---------------------------- MODULE IngestProofs ----------------------------
(***************************************************************************)
(* Ingest for every number of handlers, documents, versions and requests.  *)
(* The log and the index are proved by themselves in WALProofs and         *)
(* EngineProofs; here every step of Ingest is shown to be a step of each   *)
(* of them (or none, or the crash), and their invariants are used.         *)
(*                                                                         *)
(* Then recovery, for every log a service can leave behind.  While the     *)
(* service runs the invariant is the one of ingest; while a replay runs    *)
(* the log stands still and the engine accounts for the entries handed to  *)
(* it.                                                                     *)
(***************************************************************************)
EXTENDS Recovery, FiniteSetTheorems, TLAPS

WP == INSTANCE WALProofs WITH Oversized <- {}, Unreadable <- {}
EP == INSTANCE EngineProofs

(* What the parts assume of their constants, in their own words.           *)
LEMMA Parts ==
    /\ EP!IsFiniteSet(DocIds)
    /\ Versions \subseteq Nat
    /\ NoDoc \notin [version: Versions, body: Bodies, deleted: BOOLEAN]
    /\ maxMutable \in Nat \ {0}
    /\ MaxGeneration \in Nat
  BY IngestAssumption DEF IngestAssumption, IsFiniteSet, EP!IsFiniteSet

(* The parts of Ingest and the modules proved about are the same.          *)
LEMMA SameNewest ==
    ASSUME NEW id
    PROVE  E!Newest(id) = EP!Newest(id) /\ E!Newest(id)' = EP!Newest(id)'
  <1>1. ASSUME NEW S PROVE E!Max(S) = EP!Max(S)
    BY DEF E!Max, EP!Max
  <1>2. E!Holders(id) = EP!Holders(id) /\ E!Holders(id)' = EP!Holders(id)'
    BY DEF E!Holders, EP!Holders
  <1>3. E!Max(E!Holders(id)) = EP!Max(EP!Holders(id))
    BY <1>1, <1>2
  <1>4. E!Max(E!Holders(id))' = EP!Max(EP!Holders(id))'
    BY <1>2 DEF E!Max, EP!Max
  <1>5. E!Sealed(id) = EP!Sealed(id) /\ E!Sealed(id)' = EP!Sealed(id)'
    BY <1>2, <1>3, <1>4 DEF E!Sealed, EP!Sealed
  <1> QED BY <1>5 DEF E!Newest, EP!Newest

LEMMA SameSeal ==
    ASSUME NEW buffer
    PROVE  /\ E!SealBuffer(buffer) <=> EP!SealBuffer(buffer)
           /\ E!Present(buffer) = EP!Present(buffer)
  BY DEF E!SealBuffer, EP!SealBuffer, E!SealInto, EP!SealInto, E!Present, EP!Present

LEMMA SameUpsert ==
    ASSUME NEW id \in DocIds, NEW version \in Versions, NEW body \in Bodies,
           E!Upsert(id, version, body)
    PROVE  EP!Upsert(id, version, body)
  <1>1. EP!AcceptsUpsert(id, version)
    BY DEF E!Upsert, E!AcceptsUpsert, EP!AcceptsUpsert
  <1>2. ASSUME NEW S PROVE E!Cardinality(S) = EP!Cardinality(S)
    BY DEF E!Cardinality, EP!Cardinality
  <1> QED BY <1>1, <1>2, SameSeal DEF E!Upsert, EP!Upsert

LEMMA SameDelete ==
    ASSUME NEW id \in DocIds, NEW version \in Versions, E!Delete(id, version)
    PROVE  EP!Delete(id, version)
  BY SameNewest DEF E!Delete, EP!Delete, E!AcceptsDelete, EP!AcceptsDelete

LEMMA SameFlush == E!Flush => EP!Flush
  BY SameSeal DEF E!Flush, EP!Flush

LEMMA SameLog ==
    /\ W!Entries = WP!Entries
    /\ W!Scanned = WP!Scanned
    /\ W!Openable <=> WP!Openable
  <1>1. W!Entries = WP!Entries
    BY DEF W!Entries, WP!Entries
  <1>2. W!Scanned = WP!Scanned
    BY <1>1 DEF W!Scanned, WP!Scanned, W!Reached, WP!Reached
  <1> QED BY <1>1, <1>2 DEF W!Openable, WP!Openable

LEMMA SameLines ==
    ASSUME NEW line, NEW n, NEW o
    PROVE  /\ W!Glued(line) = WP!Glued(line)
           /\ W!Torn(line) = WP!Torn(line)
           /\ W!Sealed(n, o) = WP!Sealed(n, o)
  BY DEF W!Glued, WP!Glued, W!Torn, WP!Torn, W!Sealed, WP!Sealed

LEMMA SameLogSteps ==
    /\ W!Open => WP!Open
    /\ W!OpenRefused => UNCHANGED walVars
    /\ \A o \in Op : W!AppendWrite(o) => WP!AppendWrite(o)
    /\ \A o \in Op : W!AppendShort(o) => WP!AppendShort(o)
    /\ W!AppendSynced => WP!AppendSynced
    /\ W!AppendUnsynced => WP!AppendUnsynced
    /\ W!AppendClosed => WP!AppendClosed
    /\ W!Close => WP!Close
    /\ W!Crash => WP!Crash
  <1>1. W!Open => WP!Open
    <2>1. ASSUME NEW S PROVE W!Max(S) = WP!Max(S)
      BY DEF W!Max, WP!Max
    <2> QED BY <2>1, SameLog DEF W!Open, WP!Open
  <1>2. W!OpenRefused => UNCHANGED walVars
    BY DEF W!OpenRefused, W!vars, walVars
  <1>3. ASSUME NEW o \in Op, W!AppendWrite(o) PROVE WP!AppendWrite(o)
    BY <1>3, SameLines DEF W!AppendWrite, WP!AppendWrite
  <1>4. ASSUME NEW o \in Op, W!AppendShort(o) PROVE WP!AppendShort(o)
    BY <1>4, SameLines DEF W!AppendShort, WP!AppendShort
  <1>5. /\ W!AppendSynced => WP!AppendSynced
        /\ W!AppendUnsynced => WP!AppendUnsynced
        /\ W!AppendClosed => WP!AppendClosed
        /\ W!Close => WP!Close
    BY DEF W!AppendSynced, WP!AppendSynced, W!AppendUnsynced, WP!AppendUnsynced,
           W!AppendClosed, WP!AppendClosed, W!Close, WP!Close
  <1>6. W!Crash => WP!Crash
    BY SameLog, SameLines DEF W!Crash, WP!Crash
  <1> QED BY <1>1, <1>2, <1>3, <1>4, <1>5, <1>6
-----------------------------------------------------------------------------
(* Handlers have an operation from admission to answer.                    *)
Handlers ==
    /\ collection \in {"absent", "created", "served", "lost"}
    /\ pc \in [Workers -> {"idle", "admitted", "appending", "logged"}]
    /\ op \in [Workers -> Op \cup {NoOp}]
    /\ \A w \in Workers : op[w] = NoOp <=> pc[w] = "idle"
    /\ issued \in 0..MaxRequests
    /\ confirmed \subseteq Op

(* WAL.mu: the handler inside Append is the one whose line is written.     *)
OneAppends ==
    /\ \A v, w \in Workers : pc[v] = "appending" /\ pc[w] = "appending" => v = w
    /\ writing <=> \E w \in Workers : pc[w] = "appending"
    /\ \A w \in Workers : pc[w] = "appending" => lines[Len(lines)].op = op[w]

Recorded(o) == \E record \in acked : record.op = o

(* Between log and index, and ever after success, there is the record.     *)
Accounted ==
    /\ \A w \in Workers : pc[w] = "logged" => Recorded(op[w])
    /\ \A o \in confirmed : Recorded(o)

(* Before it is served a collection is not used, and until its buffer is   *)
(* first sealed the highest confirmed version is the one readers see.      *)
Unused ==
    collection \in {"absent", "created"} =>
      confirmed = {} /\ \A w \in Workers : pc[w] = "idle"

Inv ==
    /\ WP!Inv
    /\ EP!Safe
    /\ Handlers
    /\ OneAppends
    /\ Accounted
    /\ LogPrecedesIndex
    /\ Unused
    /\ HighestVersionWins
-----------------------------------------------------------------------------
(* A handler that is not idle has an operation of the expected form.       *)
LEMMA Operation ==
    ASSUME Handlers, NEW w \in Workers, pc[w] # "idle"
    PROVE  /\ op[w] \in Op
           /\ op[w].id \in DocIds /\ op[w].version \in Versions
           /\ op[w].kind \in {"upsert", "delete"}
           /\ op[w].kind = "upsert" => op[w].body \in Bodies
  <1>1. op[w] \in Op
    BY DEF Handlers
  <1> QED BY <1>1 DEF Op

(* What every step does to the log is a step of the log.                   *)
LEMMA StepsOfTheLog ==
    ASSUME Handlers, [Next]_vars
    PROVE  [WP!Next]_(WP!vars)
  <1>1. ASSUME UNCHANGED walVars PROVE [WP!Next]_(WP!vars)
    BY <1>1 DEF walVars, WP!vars
  <1>2. ASSUME NEW w \in Workers, Handle(w) PROVE [WP!Next]_(WP!vars)
    <2>1. CASE Cancelled(w) \/ Apply(w) \/ Conflict(w)
      BY <1>1, <2>1 DEF Cancelled, Apply, Conflict
    <2>2. CASE WriteFails(w)
      <3>1. op[w] \in Op
        BY <2>2, Operation DEF WriteFails
      <3> QED BY <2>2, <3>1, SameLogSteps DEF WriteFails, WP!Next
    <2>3. CASE Write(w)
      <3>1. op[w] \in Op
        BY <2>3, Operation DEF Write
      <3> QED BY <2>3, <3>1, SameLogSteps DEF Write, WP!Next
    <2>4. CASE SyncFails(w) \/ Sync(w)
      BY <2>4, SameLogSteps DEF SyncFails, Sync, WP!Next
    <2> QED BY <1>2, <2>1, <2>2, <2>3, <2>4 DEF Handle
  <1>3. CASE \/ Create \/ RegisterEngine \/ Compact \/ UNCHANGED vars
             \/ \E w \in Workers : Admit(w) \/ RefuseUnserved(w)
    BY <1>1, <1>3 DEF Create, RegisterEngine, Compact, Admit, RefuseUnserved, vars
  <1>4. CASE Close \/ Crash
    BY <1>4, SameLogSteps DEF Close, Crash, WP!Next
  <1>5. CASE Start
    BY <1>1, <1>5, SameLogSteps DEF Start, WP!Next
  <1> QED BY <1>2, <1>3, <1>4, <1>5 DEF Next

(* A document is what an operation makes of it.                            *)
Holds(doc, o) ==
    /\ doc # NoDoc /\ doc.version = o.version
    /\ doc.deleted <=> o.kind = "delete"
    /\ o.kind = "upsert" => doc.body = o.body

(* The engine's part of an operation.                                      *)
Performs(o) ==
    \/ o.kind = "upsert" /\ E!Upsert(o.id, o.version, o.body)
    \/ o.kind = "delete" /\ E!Delete(o.id, o.version)

(* It changes one document; while no buffer was sealed, to a higher        *)
(* version.                                                                *)
LEMMA PerformsDoes ==
    ASSUME EP!Safe, NEW o \in Op, Performs(o)
    PROVE  /\ EP!Safe'
           /\ \A id \in DocIds : id = o.id => Holds(EP!Newest(id)', o)
           /\ \A id \in DocIds : id # o.id => EP!Newest(id)' = EP!Newest(id)
           /\ generation' = 0 =>
                /\ generation = 0
                /\ EP!Newest(o.id) # NoDoc => EP!Newest(o.id).version < o.version
  <1> DEFINE doc == [version |-> o.version, body |-> o.body, deleted |-> FALSE]
             tombstone == [version |-> o.version, body |-> EP!Newest(o.id).body,
                           deleted |-> TRUE]
  <1>1. /\ o.id \in DocIds /\ o.version \in Versions
        /\ o.kind = "upsert" => o.body \in Bodies
        /\ EP!TypeOK /\ EP!SegmentsNumbered
    BY DEF Op, EP!Safe
  <1>2. EP!Newest(o.id) \in EP!Doc \cup {NoDoc}
    BY <1>1, Parts, EP!NewestType
  <1>3. doc # NoDoc \/ o.kind # "upsert"
    <2>1. o.kind = "upsert" => doc \in EP!Doc
      BY <1>1 DEF EP!Doc
    <2> HIDE DEF doc
    <2> QED BY <2>1, Parts DEF EP!Doc
  <1>4. CASE o.kind = "upsert" /\ E!Upsert(o.id, o.version, o.body)
    <2>1. EP!Upsert(o.id, o.version, o.body)
      BY <1>1, <1>4, SameUpsert
    <2>2. EP!Store!Put(o.id, o.version, o.body)
      BY <1>1, <1>4, <2>1, Parts, EP!UpsertPuts
    <2>3. \A id \in DocIds : EP!Newest(id)' = IF id = o.id THEN doc ELSE EP!Newest(id)
      BY <1>1, <2>2, Parts, EP!PutSees
    <2>4. [EP!Next]_(EP!vars)
      BY <1>1, <1>4, <2>1 DEF EP!Next
    <2>5. EP!Safe'
      BY <2>4, Parts, EP!NextKeeps
    <2>6. generation' \in {generation, generation + 1}
      BY <2>1 DEF EP!Upsert, EP!SealBuffer, EP!SealInto
    <2>7. ASSUME generation' = 0
          PROVE  /\ generation = 0
                 /\ EP!Newest(o.id) # NoDoc => EP!Newest(o.id).version < o.version
      <3>1. generation = 0 /\ DOMAIN segments = {}
        BY <1>1, <2>6, <2>7 DEF EP!TypeOK, EP!SegmentsNumbered
      <3>2. EP!Newest(o.id) = mutable[o.id]
        BY <3>1 DEF EP!Newest, EP!Sealed, EP!Holders
      <3> QED BY <3>1, <3>2, <2>1 DEF EP!Upsert, EP!AcceptsUpsert
    <2> QED BY <1>1, <1>3, <1>4, <2>3, <2>5, <2>7 DEF Holds
  <1>5. CASE o.kind = "delete" /\ E!Delete(o.id, o.version)
    <2>1. EP!Delete(o.id, o.version)
      BY <1>1, <1>5, SameDelete
    <2>2. EP!Store!Remove(o.id, o.version)
      BY <1>1, <2>1, Parts, EP!DeleteRemoves
    <2>3. \A id \in DocIds :
            EP!Newest(id)' = IF id = o.id THEN tombstone ELSE EP!Newest(id)
      BY <1>1, <2>2, Parts, EP!RemoveSees
    <2>4. [EP!Next]_(EP!vars)
      BY <1>1, <2>1 DEF EP!Next
    <2>5. EP!Safe'
      BY <2>4, Parts, EP!NextKeeps
    <2>6. /\ generation' = generation /\ EP!Newest(o.id) # NoDoc
          /\ EP!Newest(o.id).version < o.version
      BY <2>1 DEF EP!Delete, EP!AcceptsDelete
    <2>7. tombstone # NoDoc
      <3>1. tombstone \in EP!Doc
        BY <1>1, <1>2, <2>6 DEF EP!Doc
      <3> HIDE DEF tombstone
      <3> QED BY <3>1, Parts DEF EP!Doc
    <2> QED BY <1>1, <1>5, <2>3, <2>5, <2>6, <2>7 DEF Holds
  <1> QED BY <1>4, <1>5 DEF Performs

LEMMA ApplyDoes ==
    ASSUME Inv, NEW w \in Workers, Apply(w)
    PROVE  LET o == op[w]
           IN  /\ EP!Safe'
               /\ \A id \in DocIds : id = o.id => Holds(EP!Newest(id)', o)
               /\ \A id \in DocIds : id # o.id => EP!Newest(id)' = EP!Newest(id)
               /\ generation' = 0 =>
                    /\ generation = 0
                    /\ EP!Newest(o.id) # NoDoc => EP!Newest(o.id).version < o.version
  <1>1. op[w] \in Op /\ Performs(op[w]) /\ EP!Safe
    BY Operation DEF Apply, Performs, Inv
  <1> QED BY <1>1, PerformsDoes

(* Everything but success and the end of the process keeps what readers    *)
(* see.                                                                    *)
LEMMA OthersKeepTheView ==
    ASSUME Inv, [Next]_vars, ~Crash, \A w \in Workers : ~Apply(w)
    PROVE  EP!Safe' /\ \A id \in DocIds : EP!Newest(id)' = EP!Newest(id)
  <1>1. CASE UNCHANGED engineVars
    <2>1. \A id \in DocIds : EP!Newest(id)' = EP!Newest(id)
      BY <1>1 DEF engineVars, EP!Newest, EP!Sealed, EP!Holders
    <2>2. [EP!Next]_(EP!vars)
      BY <1>1 DEF engineVars, EP!vars
    <2> QED BY <2>1, <2>2, Parts, EP!NextKeeps DEF Inv
  <1>2. CASE Compact
    <2>1. EP!Flush /\ EP!TypeOK
      BY <1>2, SameFlush DEF Compact, Inv, EP!Safe
    <2>2. EP!Store!Unguard
      BY <2>1, Parts, EP!FlushUnguards
    <2>3. \A id \in DocIds : EP!Newest(id)' = EP!Newest(id)
      BY <2>2, Parts, EP!UnguardSees
    <2>4. [EP!Next]_(EP!vars)
      BY <2>1 DEF EP!Next
    <2> QED BY <2>3, <2>4, Parts, EP!NextKeeps DEF Inv
  <1>3. ASSUME NEW w \in Workers, Handle(w) PROVE UNCHANGED engineVars
    BY <1>3 DEF Handle, Cancelled, WriteFails, Write, SyncFails, Sync, Conflict,
                E!RefuseUpsert, E!RefuseDelete, E!vars, engineVars
  <1>4. CASE \/ Create \/ RegisterEngine \/ Close \/ Start \/ UNCHANGED vars
             \/ \E w \in Workers : Admit(w) \/ RefuseUnserved(w)
    BY <1>4, <1>1 DEF Create, RegisterEngine, Close, Start, Admit, RefuseUnserved, vars
  <1> QED BY <1>1, <1>2, <1>3, <1>4 DEF Next
-----------------------------------------------------------------------------
(* Records are acknowledged for good.                                      *)
LEMMA AckedGrows ==
    ASSUME Handlers, [Next]_vars
    PROVE  acked \subseteq acked'
  <1>1. [WP!Next]_(WP!vars)
    BY StepsOfTheLog
  <1> QED BY <1>1 DEF WP!Next, WP!vars, WP!Open, WP!OpenRefused, WP!AppendWrite,
                      WP!AppendShort, WP!AppendSynced, WP!AppendUnsynced,
                      WP!AppendClosed, WP!Close, WP!Crash

LEMMA HandlersKept ==
    ASSUME Handlers, [Next]_vars
    PROVE  Handlers'
  <1>1. MaxRequests \in Nat /\ NoOp \notin Op
    BY IngestAssumption DEF IngestAssumption
  <1>2. ASSUME NEW w \in Workers, Admit(w) PROVE Handlers'
    BY <1>1, <1>2 DEF Handlers, Admit
  <1>3. ASSUME NEW w \in Workers, Answer(w), pc[w] # "idle",
               UNCHANGED <<collection, issued>>, confirmed' \subseteq confirmed \cup {op[w]}
        PROVE  Handlers'
    <2>1. op[w] \in Op
      BY <1>3, Operation
    <2> QED BY <1>3, <2>1 DEF Handlers, Answer
  <1>4. ASSUME NEW w \in Workers, Write(w) \/ Sync(w) PROVE Handlers'
    BY <1>4 DEF Handlers, Write, Sync
  <1>5. ASSUME NEW w \in Workers, Handle(w) PROVE Handlers'
    <2>1. CASE Cancelled(w) \/ WriteFails(w) \/ SyncFails(w) \/ Apply(w) \/ Conflict(w)
      <3>1. /\ Answer(w) /\ pc[w] # "idle" /\ UNCHANGED <<collection, issued>>
            /\ confirmed' \subseteq confirmed \cup {op[w]}
        BY <2>1 DEF Cancelled, WriteFails, SyncFails, Apply, Conflict
      <3> QED BY <1>3, <3>1
    <2> QED BY <1>4, <1>5, <2>1 DEF Handle
  <1>6. CASE Create \/ RegisterEngine \/ Compact \/ Close \/ Start \/ UNCHANGED vars
             \/ \E w \in Workers : RefuseUnserved(w)
    <2>1. UNCHANGED <<pc, op, issued, confirmed>>
          /\ collection' \in {collection, "created", "served"}
      BY <1>6 DEF Create, RegisterEngine, Compact, Close, Start, RefuseUnserved, vars
    <2> QED BY <2>1 DEF Handlers
  <1>7. CASE Crash
    BY <1>7 DEF Crash, Handlers
  <1> QED BY <1>2, <1>5, <1>6, <1>7 DEF Next

(* The line an Append writes carries the operation it was called with.     *)
LEMMA WrittenLine ==
    ASSUME WP!TypeOK, NEW o \in Op, WP!AppendWrite(o)
    PROVE  lines'[Len(lines')].op = o
  <1>1. sequence + 1 \in Nat /\ lines \in Seq(WP!Line)
    BY DEF WP!TypeOK
  <1>2. PICK line \in WP!Glued(WP!Sealed(sequence + 1, o)) : lines' = Append(lines, line)
    BY DEF WP!AppendWrite
  <1>3. line \in WP!Line /\ line.op = o
    BY <1>1, IngestAssumption, WP!LineTypes DEF IngestAssumption
  <1> QED BY <1>1, <1>2, <1>3

LEMMA OneAppendsKept ==
    ASSUME Inv, [Next]_vars
    PROVE  OneAppends'
  <1>1. CASE UNCHANGED <<pc, op, writing, lines>>
    BY <1>1 DEF Inv, OneAppends
  <1>2. ASSUME NEW w \in Workers, Admit(w) PROVE OneAppends'
    <2>1. /\ UNCHANGED <<writing, lines>> /\ pc[w] = "idle"
          /\ pc' = [pc EXCEPT ![w] = "admitted"]
          /\ \A v \in Workers : v # w => op'[v] = op[v]
      BY <1>2 DEF Admit, walVars, Inv, Handlers
    <2>2. \A v \in Workers : pc'[v] = "appending" <=> pc[v] = "appending"
      BY <2>1 DEF Inv, Handlers
    <2>3. \A v \in Workers : pc[v] = "appending" => op'[v] = op[v]
      BY <2>1
    <2> QED BY <2>1, <2>2, <2>3 DEF Inv, OneAppends
  <1>3. ASSUME NEW w \in Workers, Answer(w), pc[w] # "appending", UNCHANGED <<writing, lines>>
        PROVE  OneAppends'
    <2>1. \A v \in Workers : /\ pc'[v] = "appending" <=> pc[v] = "appending"
                             /\ pc[v] = "appending" => op'[v] = op[v]
      BY <1>3 DEF Answer, Inv, Handlers
    <2> QED BY <1>3, <2>1 DEF Inv, OneAppends
  <1>4. ASSUME NEW w \in Workers, Write(w) PROVE OneAppends'
    <2>1. op[w] \in Op /\ W!AppendWrite(op[w])
      BY <1>4, Operation DEF Write, Inv
    <2>2. lines'[Len(lines')].op = op[w]
      BY <2>1, SameLogSteps, WrittenLine DEF Inv, WP!Inv
    <2>3. \A v \in Workers : pc'[v] = "appending" <=> v = w
      BY <1>4 DEF Write, W!AppendWrite, Inv, Handlers, OneAppends
    <2>4. writing' /\ op' = op
      BY <1>4 DEF Write, W!AppendWrite
    <2> QED BY <2>2, <2>3, <2>4 DEF OneAppends
  <1>5. ASSUME NEW w \in Workers, Sync(w) \/ SyncFails(w) PROVE OneAppends'
    <2>1. pc[w] = "appending" /\ writing' = FALSE
          /\ \A v \in Workers : pc'[v] = "appending" => pc[v] = "appending" /\ v # w
      BY <1>5 DEF Sync, SyncFails, Answer, W!AppendSynced, W!AppendUnsynced, Inv, Handlers
    <2>2. \A v \in Workers : pc'[v] # "appending"
      BY <2>1 DEF Inv, OneAppends
    <2> QED BY <2>1, <2>2 DEF OneAppends
  <1>6. ASSUME NEW w \in Workers, Handle(w) PROVE OneAppends'
    <2>1. CASE Cancelled(w) \/ WriteFails(w) \/ Apply(w) \/ Conflict(w)
      <3>1. Answer(w) /\ pc[w] # "appending" /\ UNCHANGED <<writing, lines>>
        BY <2>1 DEF Cancelled, WriteFails, Apply, Conflict, walVars,
                    W!AppendShort, W!AppendClosed
      <3> QED BY <1>3, <3>1
    <2> QED BY <1>4, <1>5, <1>6, <2>1 DEF Handle
  <1>7. CASE Create \/ RegisterEngine \/ Compact \/ Close \/ Start \/ UNCHANGED vars
             \/ \E w \in Workers : RefuseUnserved(w)
    BY <1>1, <1>7 DEF Create, RegisterEngine, Compact, Close, Start, RefuseUnserved, vars,
                      walVars, W!Close, W!Open, W!OpenRefused, W!vars
  <1>8. CASE Crash
    BY <1>8 DEF Crash, W!Crash, OneAppends
  <1> QED BY <1>2, <1>6, <1>7, <1>8 DEF Next

LEMMA AccountedKept ==
    ASSUME Inv, [Next]_vars
    PROVE  Accounted'
  <1>1. \A o : Recorded(o) => Recorded(o)'
    BY AckedGrows DEF Recorded, Inv
  <1>2. CASE /\ confirmed' = confirmed
             /\ \A v \in Workers : pc'[v] = "logged" => pc[v] = "logged" /\ op'[v] = op[v]
    BY <1>1, <1>2 DEF Inv, Accounted, Recorded
  <1>3. ASSUME NEW w \in Workers, Sync(w) PROVE Accounted'
    <2> DEFINE line == lines[Len(lines)]
               record == [sequence |-> line.sequence, op |-> line.op]
    <2>1. record \in acked' /\ record.op = op[w] /\ op' = op /\ confirmed' = confirmed
      BY <1>3 DEF Sync, W!AppendSynced, Inv, OneAppends
    <2>2. \A v \in Workers : pc'[v] = "logged" => v = w \/ pc[v] = "logged"
      BY <1>3 DEF Sync, Inv, Handlers
    <2> QED BY <1>1, <2>1, <2>2 DEF Inv, Accounted, Recorded
  <1>4. ASSUME NEW w \in Workers, Apply(w) PROVE Accounted'
    <2>1. /\ Recorded(op[w]) /\ confirmed' = confirmed \cup {op[w]} /\ acked' = acked
          /\ \A v \in Workers : pc'[v] = "logged" => pc[v] = "logged" /\ op'[v] = op[v]
      BY <1>4 DEF Apply, Answer, walVars, Inv, Accounted, Handlers
    <2> QED BY <2>1 DEF Inv, Accounted, Recorded
  <1>5. ASSUME NEW w \in Workers, Handle(w) PROVE Accounted'
    <2>1. CASE Cancelled(w) \/ WriteFails(w) \/ Write(w) \/ SyncFails(w) \/ Conflict(w)
      BY <1>2, <2>1 DEF Cancelled, WriteFails, Write, SyncFails, Conflict, Answer,
                        Inv, Handlers
    <2> QED BY <1>3, <1>4, <1>5, <2>1 DEF Handle
  <1>6. ASSUME NEW w \in Workers, Admit(w) PROVE Accounted'
    BY <1>2, <1>6 DEF Admit, Inv, Handlers
  <1>7. CASE Create \/ RegisterEngine \/ Compact \/ Close \/ Start \/ UNCHANGED vars
             \/ \E w \in Workers : RefuseUnserved(w)
    BY <1>2, <1>7 DEF Create, RegisterEngine, Compact, Close, Start, RefuseUnserved, vars
  <1>8. CASE Crash
    BY <1>2, <1>8 DEF Crash
  <1> QED BY <1>5, <1>6, <1>7, <1>8 DEF Next

(* A version readers see stays explained while records only grow.          *)
LEMMA LogPrecedesIndexKept ==
    ASSUME Inv, [Next]_vars
    PROVE  LogPrecedesIndex'
  <1>1. acked \subseteq acked'
    BY AckedGrows DEF Inv
  <1>2. ASSUME NEW id \in DocIds, E!Newest(id)' = E!Newest(id), E!Newest(id)' # NoDoc
        PROVE  \E record \in acked' : Explains(record, id)'
    <2>1. PICK record \in acked : Explains(record, id)
      BY <1>2 DEF Inv, LogPrecedesIndex
    <2> QED BY <1>1, <1>2, <2>1 DEF Explains
  <1>3. CASE Crash
    BY <1>3 DEF Crash, LogPrecedesIndex, E!Newest, E!Sealed, E!Holders
  <1>4. ASSUME NEW w \in Workers, Apply(w) PROVE LogPrecedesIndex'
    <2>1. PICK record \in acked : record.op = op[w]
      BY <1>4 DEF Apply, Inv, Accounted, Recorded
    <2>2. ASSUME NEW id \in DocIds, id = op[w].id PROVE Explains(record, id)'
      <3>1. Holds(E!Newest(id)', op[w])
        BY <1>4, <2>2, ApplyDoes, SameNewest
      <3>2. op[w].kind \in {"upsert", "delete"}
        BY <1>4, Operation DEF Apply, Inv
      <3> QED BY <2>1, <2>2, <3>1, <3>2 DEF Holds, Explains
    <2>3. ASSUME NEW id \in DocIds, id # op[w].id PROVE E!Newest(id)' = E!Newest(id)
      BY <1>4, <2>3, ApplyDoes, SameNewest
    <2> QED BY <1>1, <1>2, <2>1, <2>2, <2>3 DEF LogPrecedesIndex
  <1>5. CASE ~Crash /\ \A w \in Workers : ~Apply(w)
    <2>1. \A id \in DocIds : E!Newest(id)' = E!Newest(id)
      BY <1>5, OthersKeepTheView, SameNewest
    <2> QED BY <1>2, <2>1 DEF LogPrecedesIndex
  <1> QED BY <1>3, <1>4, <1>5

LEMMA UnusedKept ==
    ASSUME Inv, [Next]_vars
    PROVE  Unused'
  <1>1. CASE Crash
    BY <1>1 DEF Crash, Inv, Handlers, Unused
  <1>2. ASSUME NEW w \in Workers, Handle(w) PROVE Unused'
    <2>1. collection' = collection /\ pc[w] # "idle"
      BY <1>2 DEF Handle, Cancelled, WriteFails, Write, SyncFails, Sync, Apply, Conflict
    <2> QED BY <2>1 DEF Inv, Unused
  <1>3. ASSUME NEW w \in Workers, Admit(w) PROVE Unused'
    BY <1>3 DEF Admit, Unused
  <1>4. CASE Create \/ RegisterEngine \/ Compact \/ Close \/ Start \/ UNCHANGED vars
             \/ \E w \in Workers : RefuseUnserved(w)
    BY <1>4 DEF Create, RegisterEngine, Compact, Close, Start, RefuseUnserved, vars,
                Inv, Unused
  <1> QED BY <1>1, <1>2, <1>3, <1>4 DEF Next

(* Sealing only ever raises the generation.                                *)
LEMMA GenerationGrows ==
    ASSUME Inv, [Next]_vars, ~Crash, generation' = 0
    PROVE  generation = 0
  <1>1. generation \in Nat
    BY DEF Inv, EP!Safe, EP!TypeOK
  <1>2. ASSUME NEW w \in Workers, Apply(w) PROVE generation = 0
    BY <1>2, ApplyDoes
  <1>3. CASE Compact
    <2>1. generation' \in {generation, generation + 1}
      BY <1>3 DEF Compact, E!Flush, E!SealBuffer, E!SealInto
    <2> QED BY <1>1, <2>1
  <1>4. CASE UNCHANGED engineVars
    BY <1>4 DEF engineVars
  <1>5. ASSUME NEW w \in Workers, Handle(w), ~Apply(w) PROVE UNCHANGED engineVars
    BY <1>5 DEF Handle, Cancelled, WriteFails, Write, SyncFails, Sync, Conflict,
                E!RefuseUpsert, E!RefuseDelete, E!vars, engineVars
  <1>6. CASE \/ Create \/ RegisterEngine \/ Close \/ Start \/ UNCHANGED vars
             \/ \E w \in Workers : Admit(w) \/ RefuseUnserved(w)
    BY <1>4, <1>6 DEF Create, RegisterEngine, Close, Start, Admit, RefuseUnserved, vars
  <1> QED BY <1>2, <1>3, <1>4, <1>5, <1>6 DEF Next

LEMMA HighestVersionWinsKept ==
    ASSUME Inv, [Next]_vars
    PROVE  HighestVersionWins'
  <1>1. CASE Crash
    BY <1>1 DEF Crash, HighestVersionWins
  <1>2. SUFFICES ASSUME ~Crash, collection' = "served", generation' = 0,
                        NEW o \in confirmed'
                 PROVE  /\ E!Newest(o.id)' # NoDoc
                        /\ E!Newest(o.id)'.version >= o.version
    BY <1>1 DEF HighestVersionWins
  <1>3. generation = 0
    BY <1>2, GenerationGrows
  <1>4. o \in Op /\ o.id \in DocIds /\ o.version \in Nat
    <2>1. o \in Op
      BY HandlersKept DEF Inv, Handlers
    <2> QED BY <2>1, Parts DEF Op
  <1>5. ASSUME NEW w \in Workers, Apply(w)
        PROVE  /\ E!Newest(o.id)' # NoDoc
               /\ E!Newest(o.id)'.version >= o.version
    <2>1. op[w].version \in Nat /\ op[w].id \in DocIds /\ collection = "served"
      BY <1>2, <1>5, Operation, Parts DEF Apply, Inv
    <2>2. o \in confirmed \/ o = op[w]
      BY <1>5 DEF Apply
    <2>3. CASE o = op[w]
      <3>1. Holds(EP!Newest(o.id)', op[w])
        BY <1>4, <1>5, <2>3, ApplyDoes
      <3> QED BY <1>4, <2>3, <3>1, SameNewest DEF Holds
    <2>4. CASE o \in confirmed
      <3>1. /\ E!Newest(o.id) # NoDoc /\ E!Newest(o.id).version >= o.version
        BY <1>3, <2>1, <2>4 DEF Inv, HighestVersionWins
      <3>2. CASE o.id # op[w].id
        BY <1>4, <1>5, <3>1, <3>2, ApplyDoes, SameNewest
      <3>3. CASE o.id = op[w].id
        <4>1. Holds(EP!Newest(o.id)', op[w]) /\ EP!Newest(o.id).version < op[w].version
          BY <1>2, <1>4, <1>5, <3>1, <3>3, ApplyDoes, SameNewest
        <4>2. EP!Newest(o.id).version \in Nat
          <5>1. EP!Newest(o.id) \in EP!Doc
            BY <1>4, <3>1, SameNewest, Parts, EP!NewestType DEF Inv, EP!Safe
          <5> QED BY <5>1, Parts DEF EP!Doc
        <4> QED BY <1>4, <2>1, <3>1, <4>1, <4>2, SameNewest DEF Holds
      <3> QED BY <3>2, <3>3
    <2> QED BY <2>2, <2>3, <2>4
  <1>6. CASE \A w \in Workers : ~Apply(w)
    <2>1. confirmed' = confirmed
      BY <1>2, <1>6 DEF Next, Handle, Cancelled, WriteFails, Write, SyncFails, Sync,
               Conflict, Create, RegisterEngine, Compact, Close, Start, Admit,
               RefuseUnserved, vars
    <2>2. E!Newest(o.id)' = E!Newest(o.id)
      BY <1>2, <1>4, <1>6, OthersKeepTheView, SameNewest
    <2>3. collection = "served"
      <3>1. CASE RegisterEngine
        BY <2>1, <3>1, <1>2 DEF RegisterEngine, Inv, Unused
      <3>2. CASE ~RegisterEngine
        BY <1>2, <3>2 DEF Next, Handle, Cancelled, WriteFails, Write, SyncFails, Sync,
               Apply, Conflict, Create, Compact, Close, Start, Admit,
               RefuseUnserved, vars
      <3> QED BY <3>1, <3>2
    <2> QED BY <1>3, <2>1, <2>2, <2>3 DEF Inv, HighestVersionWins
  <1> QED BY <1>5, <1>6
-----------------------------------------------------------------------------
(* A crash leaves an engine as a new one.                                  *)
LEMMA SafeAfterRestart == EP!Init' => EP!Safe'
  <1>1. EP!Init => EP!Safe
    BY Parts, EP!SafeAtStart
  <1> QED BY <1>1, PTL

LEMMA NextKeeps ==
    ASSUME Inv, [Next]_vars
    PROVE  Inv'
  <1>1. WP!Inv'
    <2>1. [WP!Next]_(WP!vars)
      BY StepsOfTheLog DEF Inv
    <2> QED BY <2>1, IngestAssumption, WP!NextKeeps DEF Inv, IngestAssumption
  <1>2. EP!Safe'
    <2>1. CASE Crash
      <3>1. EP!Init'
        BY <2>1 DEF Crash, EP!Init
      <3> QED BY <3>1, SafeAfterRestart
    <2>2. CASE ~Crash
      BY <2>2, ApplyDoes, OthersKeepTheView
    <2> QED BY <2>1, <2>2
  <1> QED BY <1>1, <1>2, HandlersKept, OneAppendsKept, AccountedKept,
             LogPrecedesIndexKept, UnusedKept, HighestVersionWinsKept DEF Inv

LEMMA InvAtStart ==
    ASSUME Init
    PROVE  Inv
  <1>1. WP!Inv
    <2>1. WP!Init
      BY DEF Init, W!Init, WP!Init
    <2> QED BY <2>1, IngestAssumption, WP!InitHolds DEF IngestAssumption
  <1>2. EP!Safe
    <2>1. EP!Init
      BY DEF Init, E!Init, EP!Init
    <2> QED BY <2>1, Parts, EP!SafeAtStart
  <1>3. Handlers /\ OneAppends /\ Accounted /\ Unused
    <2>1. MaxRequests \in Nat
      BY IngestAssumption DEF IngestAssumption
    <2> QED BY <2>1 DEF Init, W!Init, Handlers, OneAppends, Accounted, Unused
  <1>4. LogPrecedesIndex
    BY DEF Init, E!Init, LogPrecedesIndex, E!Newest, E!Sealed, E!Holders
  <1>5. HighestVersionWins
    BY DEF Init, HighestVersionWins
  <1> QED BY <1>1, <1>2, <1>3, <1>4, <1>5 DEF Inv

(* The invariant of the write path: no request, failure, compaction,       *)
(* shutdown or crash breaks it.                                            *)
THEOREM IngestInvariant == Spec => []Inv
  BY InvAtStart, NextKeeps, PTL DEF Spec

(* The parts of the invariant that make the types.                         *)
LEMMA TypesHold ==
    ASSUME WP!Inv, EP!Safe, Handlers, OneAppends
    PROVE  TypeOK
  <1>1. W!TypeOK
    BY DEF WP!Inv, WP!TypeOK, W!TypeOK, WP!Line, W!Line, WP!Form, W!Form,
           WP!Record, W!Record
  <1>2. E!TypeOK
    BY DEF EP!Safe, EP!TypeOK, E!TypeOK, EP!DocMap, E!DocMap, EP!Doc, E!Doc,
           EP!Segment, E!Segment
  <1>3. Cardinality({w \in Workers : pc[w] = "appending"}) = IF writing THEN 1 ELSE 0
    <2>1. CASE ~writing
      <3>1. {w \in Workers : pc[w] = "appending"} = {}
        BY <2>1 DEF OneAppends
      <3> QED BY <2>1, <3>1, FS_EmptySet
    <2>2. CASE writing
      <3>1. PICK w \in Workers : pc[w] = "appending"
        BY <2>2 DEF OneAppends
      <3>2. {v \in Workers : pc[v] = "appending"} = {w}
        BY <3>1 DEF OneAppends
      <3> QED BY <2>2, <3>2, FS_Singleton
    <2>3. writing \in BOOLEAN
      BY DEF WP!Inv, WP!TypeOK
    <2> QED BY <2>1, <2>2, <2>3
  <1> QED BY <1>1, <1>2, <1>3 DEF Handlers, TypeOK

(* Handlers, log and index keep their types, and exactly one handler is    *)
(* inside Append while a line awaits its fsync (WAL.mu).                   *)
THEOREM TypeCorrect == Spec => []TypeOK
  <1>1. Inv => TypeOK
    BY TypesHold DEF Inv
  <1> QED BY <1>1, IngestInvariant, PTL

(* Nothing is visible that was not logged and fsynced before               *)
(* (ingest.Service.Upsert and Delete: Append, then the engine).            *)
THEOREM LogAlwaysPrecedesIndex == Spec => []LogPrecedesIndex
  BY IngestInvariant, PTL DEF Inv

(* What a client was told succeeded is in the part of the log no crash     *)
(* takes away, so a replay that completes delivers it.                     *)
THEOREM ConfirmedAlwaysSurvive == Spec => []ConfirmedSurvive
  <1>1. Inv => ConfirmedSurvive
    <2> SUFFICES ASSUME Inv, W!ReplayCompletes, NEW o \in confirmed
                 PROVE  \E i \in W!Delivered : W!Entries[i].op = o
      BY DEF ConfirmedSurvive
    <2>1. PICK record \in acked : record.op = o
      BY DEF Inv, Accounted, Recorded
    <2>2. PICK i \in 1..synced : WP!Matches(lines[i], record)
      BY DEF Inv, WP!Inv, WP!AckedInFile
    <2>3. i \in 1..Len(lines) /\ lines[i].op = o
      BY <2>1, <2>2 DEF WP!Matches, Inv, WP!Inv, WP!TypeOK
    <2>4. WP!TypeOK
      BY DEF Inv, WP!Inv
    <2>5. WP!Entries[i] = lines[i] /\ i \in 1..Len(WP!Entries)
      BY <2>3, <2>4, IngestAssumption, WP!EntriesAre DEF IngestAssumption
    <2> QED BY <2>3, <2>5, SameLog DEF W!ReplayCompletes
  <1> QED BY <1>1, IngestInvariant, PTL

(* Late and early versions race for log and index in any order, and the    *)
(* highest one confirmed is the one read, until the buffer is sealed       *)
(* (Engine.Upsert's conflict check).                                       *)
THEOREM HighestVersionAlwaysWins == Spec => []HighestVersionWins
  BY IngestInvariant, PTL DEF Inv

(* Readers notice a request only if it succeeds, and a compaction never    *)
(* (Service.Upsert, Delete and runCompact).                                *)
THEOREM OnlySuccessIsEverVisible == Spec => OnlySuccessIsVisible
  <1>1. Inv /\ [Next]_vars =>
          [handle' # "down" =>
             \A id \in DocIds :
               E!Newest(id)' # E!Newest(id) =>
                 \E w \in Workers : /\ pc[w] = "logged" /\ pc'[w] = "idle"
                                    /\ op[w].id = id /\ op[w] \in confirmed']_vars
    <2> SUFFICES ASSUME Inv, [Next]_vars, handle' # "down", NEW id \in DocIds,
                        E!Newest(id)' # E!Newest(id)
                 PROVE  \E w \in Workers : /\ pc[w] = "logged" /\ pc'[w] = "idle"
                                           /\ op[w].id = id /\ op[w] \in confirmed'
      OBVIOUS
    <2>1. ~Crash
      BY DEF Crash, W!Crash
    <2>2. PICK w \in Workers : Apply(w)
      BY <2>1, OthersKeepTheView, SameNewest
    <2>3. op[w].id = id
      BY <2>2, ApplyDoes, SameNewest
    <2> QED BY <2>2, <2>3 DEF Apply, Answer, Inv, Handlers
  <1> QED BY <1>1, IngestInvariant, PTL DEF Spec, OnlySuccessIsVisible
-----------------------------------------------------------------------------
(* What has become of the process's memory, once it was lost.              *)
Emptied ==
    /\ \A w \in Workers : pc[w] = "idle"
    /\ replay = "idle" => \A id \in DocIds : E!Newest(id) = NoDoc

(* The engine holds the newest version among the entries handed over (or   *)
(* a later one), and nothing but what they say.                            *)
Rebuilt ==
    /\ position \in 0..Len(W!Entries)
    /\ \A i \in 1..position : i \in W!Delivered
    /\ generation = 0 =>
         \A i \in 1..position :
           LET o == W!Entries[i].op
           IN  E!Newest(o.id) # NoDoc /\ E!Newest(o.id).version >= o.version
    /\ \A id \in DocIds :
         E!Newest(id) # NoDoc => \E i \in 1..position : Explains(W!Entries[i], id)

(* The parts of Inv a replay keeps.                           *)
Durable ==
    /\ WP!Inv /\ EP!Safe
    /\ Handlers /\ OneAppends /\ Accounted /\ Unused /\ HighestVersionWins

RInv ==
    /\ Durable
    /\ replay \in {"idle", "running", "done", "failed"}
    /\ collection = "lost" => Emptied
    /\ replay = "idle" => position = 0 /\ LogPrecedesIndex
    /\ replay # "idle" => collection = "lost" /\ Rebuilt
    /\ replay = "done" => position = Len(W!Entries)
-----------------------------------------------------------------------------
(* Entries of the log are lines, each with an operation.                   *)
LEMMA EntryOperations ==
    ASSUME WP!TypeOK
    PROVE  /\ Len(W!Entries) \in Nat
           /\ \A i \in 1..Len(W!Entries) : W!Entries[i].op \in Op
           /\ \A i \in 1..Len(lines) : i \in 1..Len(W!Entries) /\ W!Entries[i] = lines[i]
  <1>1. /\ Len(lines) \in Nat
        /\ WP!Entries \in Seq(WP!Line)
        /\ \A i \in 1..Len(lines) : WP!Entries[i] = lines[i] /\ lines[i] \in WP!Line
        /\ tail = NoTail => Len(WP!Entries) = Len(lines)
        /\ tail # NoTail => /\ Len(WP!Entries) = Len(lines) + 1
                            /\ WP!Entries[Len(lines) + 1] = tail
                            /\ tail \in WP!Line
    BY IngestAssumption, WP!EntriesAre DEF IngestAssumption
  <1>2. \A i \in 1..Len(WP!Entries) : WP!Entries[i].op \in Op
    BY <1>1 DEF WP!Line
  <1> QED BY <1>1, <1>2, SameLog

(* A service that is gone stays gone, with nothing in memory.              *)
LEMMA LostStaysEmpty ==
    ASSUME Inv, collection = "lost" => Emptied, replay = "idle", Serve
    PROVE  collection' = "lost" => Emptied'
  <1>1. CASE Crash
    BY <1>1 DEF Crash, Emptied, E!Newest, E!Sealed, E!Holders
  <1>2. SUFFICES ASSUME ~Crash, collection' = "lost" PROVE Emptied'
    BY <1>1
  <1>3. collection = "lost"
    BY <1>2 DEF Serve, Next, Create, RegisterEngine, Admit, RefuseUnserved, Handle,
                Cancelled, WriteFails, Write, SyncFails, Sync, Apply, Conflict,
                Compact, Close, Start, vars
  <1>4. \A w \in Workers : pc[w] = "idle"
    BY <1>3 DEF Emptied
  <1>5. \A w \in Workers : ~Handle(w)
    BY <1>4 DEF Handle, Cancelled, WriteFails, Write, SyncFails, Sync, Apply, Conflict
  <1>6. UNCHANGED <<pc, engineVars, replay>>
    BY <1>2, <1>3, <1>5 DEF Serve, Next, Create, RegisterEngine, Admit, RefuseUnserved,
                            Compact, Close, Start, vars
  <1> QED BY <1>3, <1>6 DEF Emptied, engineVars, E!Newest, E!Sealed, E!Holders

LEMMA ServeKeeps ==
    ASSUME RInv, Serve
    PROVE  RInv'
  <1>1. Inv /\ replay = "idle" /\ position = 0
    BY DEF RInv, Durable, Inv, Serve
  <1>2. Inv'
    BY <1>1, NextKeeps DEF Serve
  <1>3. collection' = "lost" => Emptied'
    BY <1>1, LostStaysEmpty DEF RInv
  <1> QED BY <1>1, <1>2, <1>3 DEF RInv, Durable, Inv, Serve

(* Starting, ending and failing leave log and engine alone.                *)
LEMMA ControlKeeps ==
    ASSUME RInv, ReplayInto \/ ReplayFails \/ ReplayDone
    PROVE  RInv'
  <1>1. UNCHANGED vars /\ UNCHANGED <<walVars, engineVars, collection, pc, op, issued, confirmed>>
    BY DEF ReplayInto, ReplayFails, ReplayDone, vars
  <1>2. Durable'
    <2>1. WP!Inv' /\ EP!Safe'
      <3>1. [WP!Next]_(WP!vars) /\ [EP!Next]_(EP!vars)
        BY <1>1 DEF walVars, engineVars, WP!vars, EP!vars
      <3> QED BY <3>1, IngestAssumption, Parts, WP!NextKeeps, EP!NextKeeps
              DEF RInv, Durable, IngestAssumption
    <2>2. Handlers' /\ OneAppends' /\ Accounted' /\ Unused'
      BY <1>1 DEF RInv, Durable, walVars, Handlers, OneAppends, Accounted, Recorded, Unused
    <2>3. HighestVersionWins'
      BY <1>1 DEF RInv, Durable, engineVars, HighestVersionWins,
                  E!Newest, E!Sealed, E!Holders
    <2> QED BY <2>1, <2>2, <2>3 DEF Durable
  <1>3. /\ W!Entries' = W!Entries /\ W!Delivered' = W!Delivered
        /\ \A id : E!Newest(id)' = E!Newest(id)
    BY <1>1 DEF walVars, engineVars, W!Entries, W!Delivered, E!Newest, E!Sealed, E!Holders
  <1>4. CASE ReplayInto
    <2>1. /\ replay = "idle" /\ collection = "lost" /\ position' = 0 /\ replay' = "running"
      BY <1>4 DEF ReplayInto
    <2>2. \A id \in DocIds : E!Newest(id)' = NoDoc
      BY <1>3, <2>1 DEF RInv, Emptied
    <2>3. Len(W!Entries') \in Nat
      BY <1>3, EntryOperations DEF RInv, Durable, WP!Inv
    <2>4. Rebuilt'
      BY <2>1, <2>2, <2>3 DEF Rebuilt
    <2>5. collection' = "lost" /\ Emptied'
      BY <1>1, <2>1 DEF RInv, Emptied
    <2> QED BY <1>2, <2>1, <2>4, <2>5 DEF RInv
  <1>5. CASE ReplayFails \/ ReplayDone
    <2>1. /\ replay = "running" /\ position' = position /\ replay' \in {"failed", "done"}
          /\ replay' = "done" => position = Len(W!Entries)
      BY <1>5 DEF ReplayFails, ReplayDone
    <2>2. Rebuilt'
      <3>1. generation' = generation
        BY <1>1 DEF engineVars
      <3> QED BY <1>3, <2>1, <3>1 DEF RInv, Rebuilt, Explains
    <2>3. collection' = "lost" /\ Emptied'
      BY <1>1, <2>1 DEF RInv, Emptied
    <2> QED BY <1>2, <1>3, <2>1, <2>2, <2>3 DEF RInv
  <1> QED BY <1>4, <1>5

(* One more entry is accounted for.                                        *)
LEMMA RecordKeeps ==
    ASSUME RInv, ReplayRecord
    PROVE  RInv'
  <1> DEFINE o == W!Entries[position + 1].op
  <1>1. /\ replay = "running" /\ position + 1 \in W!Delivered /\ position' = position + 1
        /\ Performs(o)
        /\ UNCHANGED <<walVars, collection, pc, op, issued, confirmed, replay>>
    BY DEF ReplayRecord, Performs
  <1>2. /\ Rebuilt /\ Durable /\ collection = "lost"
        /\ position \in Nat /\ position + 1 \in 1..Len(W!Entries) /\ o \in Op
    <2>1. Rebuilt /\ Durable /\ collection = "lost"
      BY <1>1 DEF RInv
    <2>2. position \in Nat /\ position + 1 \in 1..Len(W!Entries)
      BY <1>1, <2>1 DEF Rebuilt, W!Delivered
    <2> QED BY <2>1, <2>2, EntryOperations DEF Durable, WP!Inv
  <1>3. W!Entries' = W!Entries /\ W!Delivered' = W!Delivered
    BY <1>1 DEF walVars, W!Entries, W!Delivered
  <1> HIDE DEF o
  <1>4. /\ EP!Safe'
        /\ \A id \in DocIds : id = o.id => Holds(E!Newest(id)', o)
        /\ \A id \in DocIds : id # o.id => E!Newest(id)' = E!Newest(id)
        /\ generation' = 0 =>
             /\ generation = 0
             /\ E!Newest(o.id) # NoDoc => E!Newest(o.id).version < o.version
    BY <1>1, <1>2, PerformsDoes, SameNewest DEF Durable
  <1>5. o.id \in DocIds /\ o.version \in Nat /\ o.kind \in {"upsert", "delete"}
    BY <1>2, Parts DEF Op
  <1>6. Durable'
    <2>1. WP!Inv'
      <3>1. [WP!Next]_(WP!vars)
        BY <1>1 DEF walVars, WP!vars
      <3> QED BY <1>2, <3>1, IngestAssumption, WP!NextKeeps DEF Durable, IngestAssumption
    <2>2. Handlers' /\ OneAppends' /\ Accounted' /\ Unused' /\ HighestVersionWins'
      BY <1>1, <1>2 DEF Durable, walVars, Handlers, OneAppends, Accounted, Recorded, Unused,
                        HighestVersionWins
    <2> QED BY <1>4, <2>1, <2>2 DEF Durable
  <1>7. ASSUME generation' = 0, NEW i \in 1..position', NEW e, e = W!Entries[i].op
        PROVE  /\ e.id \in DocIds
               /\ \A id \in DocIds : id = e.id =>
                    E!Newest(id)' # NoDoc /\ E!Newest(id)'.version >= e.version
    <2>1. i \in 1..(position + 1) /\ i \in 1..Len(W!Entries)
      BY <1>1, <1>2
    <2>2. e \in Op /\ e.id \in DocIds /\ e.version \in Nat
      <3>1. e \in Op
        BY <1>2, <1>7, <2>1, EntryOperations DEF Durable, WP!Inv
      <3> QED BY <3>1, Parts DEF Op
    <2>3. SUFFICES ASSUME NEW id \in DocIds, id = e.id
                   PROVE  E!Newest(id)' # NoDoc /\ E!Newest(id)'.version >= e.version
      BY <2>2
    <2>4. CASE i = position + 1
      <3>1. e = o
        BY <1>7, <2>4 DEF o
      <3>2. Holds(E!Newest(id)', o)
        BY <1>4, <2>3, <3>1
      <3> QED BY <1>5, <3>1, <3>2 DEF Holds
    <2>5. CASE i \in 1..position
      <3>1. E!Newest(id) # NoDoc /\ E!Newest(id).version >= e.version
        BY <1>2, <1>4, <1>7, <2>3, <2>5 DEF Rebuilt
      <3>2. E!Newest(id).version \in Nat
        <4>1. EP!Newest(id) \in EP!Doc
          BY <1>2, <2>3, <3>1, SameNewest, Parts, EP!NewestType DEF Durable, EP!Safe
        <4> QED BY <4>1, Parts, SameNewest DEF EP!Doc
      <3>3. CASE id = o.id
        <4>1. E!Newest(id).version < o.version /\ Holds(E!Newest(id)', o)
          BY <1>4, <1>7, <3>1, <3>3
        <4> QED BY <1>5, <2>2, <3>1, <3>2, <4>1 DEF Holds
      <3>4. CASE id # o.id
        BY <1>4, <3>1, <3>4
      <3> QED BY <3>3, <3>4
    <2> QED BY <1>2, <2>1, <2>4, <2>5
  <1>8. ASSUME NEW id \in DocIds, E!Newest(id)' # NoDoc
        PROVE  \E i \in 1..position' : Explains(W!Entries[i], id)'
    <2>1. CASE id = o.id
      <3>1. Holds(E!Newest(id)', o)
        BY <1>4, <2>1
      <3>2. ASSUME NEW i, i = position + 1 PROVE Explains(W!Entries[i], id)'
        <4>1. W!Entries'[i].op = o
          BY <1>3, <3>2 DEF o
        <4> QED BY <1>5, <2>1, <3>1, <4>1 DEF Holds, Explains
      <3> QED BY <1>1, <1>2, <3>2
    <2>2. CASE id # o.id
      <3>1. E!Newest(id)' = E!Newest(id)
        BY <1>4, <2>2
      <3>2. PICK i \in 1..position : Explains(W!Entries[i], id)
        BY <1>2, <1>8, <3>1 DEF Rebuilt
      <3>3. Explains(W!Entries[i], id)'
        BY <1>3, <3>1, <3>2 DEF Explains
      <3> QED BY <1>1, <1>2, <3>2, <3>3
    <2> QED BY <2>1, <2>2
  <1>9. Rebuilt'
    <2>1. position' \in 0..Len(W!Entries') /\ \A i \in 1..position' : i \in W!Delivered'
      BY <1>1, <1>2, <1>3 DEF Rebuilt
    <2>2. ASSUME generation' = 0, NEW i \in 1..position'
          PROVE  LET e == W!Entries[i].op
                 IN  (E!Newest(e.id) # NoDoc /\ E!Newest(e.id).version >= e.version)'
      <3>1. PICK e : e = W!Entries[i].op
        OBVIOUS
      <3>2. W!Entries'[i].op = e
        BY <1>3, <3>1
      <3> QED BY <1>7, <2>2, <3>1, <3>2
    <2> QED BY <1>8, <2>1, <2>2 DEF Rebuilt
  <1> QED BY <1>1, <1>2, <1>6, <1>9 DEF RInv, Emptied

(* The recovering process dies as the service does.                        *)
LEMMA InterruptedKeeps ==
    ASSUME RInv, Interrupted
    PROVE  RInv'
  <1>1. /\ Crash /\ replay' = "idle" /\ position' = 0 /\ collection = "lost"
        /\ Durable
    BY DEF RInv, Interrupted
  <1>2. WP!Inv' /\ Handlers'
    <2>1. [Next]_vars /\ Handlers
      BY <1>1 DEF Next, Durable
    <2> QED BY <1>1, <2>1, StepsOfTheLog, HandlersKept, IngestAssumption, WP!NextKeeps
            DEF Durable, IngestAssumption
  <1>3. EP!Safe'
    <2>1. EP!Init'
      BY <1>1 DEF Crash, EP!Init
    <2> QED BY <2>1, SafeAfterRestart
  <1>4. OneAppends' /\ Accounted'
    BY <1>1 DEF Crash, W!Crash, OneAppends, Accounted, Recorded, Durable
  <1>5. collection' = "lost" /\ Unused' /\ HighestVersionWins'
    BY <1>1 DEF Crash, Unused, HighestVersionWins
  <1>6. \A id \in DocIds : E!Newest(id)' = NoDoc
    BY <1>1 DEF Crash, E!Newest, E!Sealed, E!Holders
  <1>7. Emptied' /\ LogPrecedesIndex'
    BY <1>1, <1>6 DEF Crash, Emptied, LogPrecedesIndex
  <1> QED BY <1>1, <1>2, <1>3, <1>4, <1>5, <1>7 DEF RInv, Durable

LEMMA RNextKeeps ==
    ASSUME RInv, [RNext]_recoveryVars
    PROVE  RInv'
  <1>1. CASE UNCHANGED recoveryVars
    <2>1. UNCHANGED <<walVars, engineVars, collection, pc, op, issued, confirmed,
                      replay, position>>
      BY <1>1 DEF recoveryVars, vars
    <2>2. WP!Inv' /\ EP!Safe'
      <3>1. [WP!Next]_(WP!vars) /\ [EP!Next]_(EP!vars)
        BY <2>1 DEF walVars, engineVars, WP!vars, EP!vars
      <3> QED BY <3>1, IngestAssumption, Parts, WP!NextKeeps, EP!NextKeeps
              DEF RInv, Durable, IngestAssumption
    <2>3. /\ W!Entries' = W!Entries /\ W!Delivered' = W!Delivered
          /\ \A id : E!Newest(id)' = E!Newest(id)
          /\ generation' = generation /\ acked' = acked
      BY <2>1 DEF walVars, engineVars, W!Entries, W!Delivered,
                  E!Newest, E!Sealed, E!Holders
    <2>4. Handlers' /\ OneAppends' /\ Accounted' /\ Unused' /\ HighestVersionWins'
      BY <2>1, <2>3 DEF RInv, Durable, walVars, Handlers, OneAppends, Accounted, Recorded,
                        Unused, HighestVersionWins
    <2>5. /\ Rebuilt => Rebuilt'
          /\ LogPrecedesIndex => LogPrecedesIndex'
          /\ Emptied => Emptied'
      BY <2>1, <2>3 DEF Rebuilt, LogPrecedesIndex, Emptied, Explains
    <2> QED BY <2>1, <2>2, <2>3, <2>4, <2>5 DEF RInv, Durable
  <1> QED BY <1>1, ServeKeeps, ControlKeeps, RecordKeeps, InterruptedKeeps DEF RNext

LEMMA RInvAtStart ==
    ASSUME RInit
    PROVE  RInv
  <1>1. Inv /\ collection = "absent"
    BY InvAtStart DEF RInit, Init
  <1> QED BY <1>1 DEF RInit, RInv, Durable, Inv

(* The invariant of service and recovery together.                         *)
THEOREM RecoveryInvariant == RSpec => []RInv
  BY RInvAtStart, RNextKeeps, PTL DEF RSpec

(* A replay that finished without sealing the buffer has brought back      *)
(* every confirmed write or a later version, and nothing that is not in    *)
(* the log (ReplayInto over WAL.Replay), for any service before it.        *)
THEOREM RecoveryBringsBackConfirmed == RSpec => []RecoversConfirmed
  <1>1. RInv => RecoversConfirmed
    <2> SUFFICES ASSUME RInv, replay = "done", generation = 0
                 PROVE  /\ \A o \in confirmed : /\ E!Newest(o.id) # NoDoc
                                                /\ E!Newest(o.id).version >= o.version
                        /\ \A id \in DocIds : E!Newest(id) # NoDoc =>
                             \E i \in W!Delivered : Explains(W!Entries[i], id)
      BY DEF RecoversConfirmed
    <2>1. Rebuilt /\ Durable /\ position = Len(W!Entries)
      BY DEF RInv
    <2>2. ASSUME NEW o \in confirmed
          PROVE  E!Newest(o.id) # NoDoc /\ E!Newest(o.id).version >= o.version
      <3>1. PICK record \in acked : record.op = o
        BY <2>1 DEF Durable, Accounted, Recorded
      <3>2. PICK i \in 1..synced : WP!Matches(lines[i], record)
        BY <2>1 DEF Durable, WP!Inv, WP!AckedInFile
      <3>3. i \in 1..Len(lines) /\ lines[i].op = o /\ WP!TypeOK
        BY <2>1, <3>1, <3>2 DEF WP!Matches, Durable, WP!Inv, WP!TypeOK
      <3>4. i \in 1..position /\ W!Entries[i].op = o
        BY <2>1, <3>3, EntryOperations
      <3> QED BY <2>1, <3>4 DEF Rebuilt
    <2>3. ASSUME NEW id \in DocIds, E!Newest(id) # NoDoc
          PROVE  \E i \in W!Delivered : Explains(W!Entries[i], id)
      BY <2>1, <2>3 DEF Rebuilt
    <2> QED BY <2>2, <2>3
  <1> QED BY <1>1, RecoveryInvariant, PTL

(* The replay stands at an entry of the log, and log, engine and handlers  *)
(* keep their types through it.                                            *)
THEOREM RecoveryTypeCorrect == RSpec => []RTypeOK
  <1>1. RInv => RTypeOK
    <2> SUFFICES ASSUME RInv PROVE RTypeOK
      OBVIOUS
    <2>1. TypeOK
      BY TypesHold DEF RInv, Durable
    <2>2. position \in 0..Len(W!Entries)
      <3>1. Len(W!Entries) \in Nat
        BY EntryOperations DEF RInv, Durable, WP!Inv
      <3> QED BY <3>1 DEF RInv, Rebuilt
    <2> QED BY <2>1, <2>2 DEF RInv, RTypeOK
  <1> QED BY <1>1, RecoveryInvariant, PTL
=============================================================================
