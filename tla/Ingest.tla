------------------------------- MODULE Ingest -------------------------------
(***************************************************************************)
(* The write path of one collection: ingest.Service over the log (WAL) and *)
(* the collection's index (Engine), called by concurrent HTTP handlers.    *)
(*                                                                         *)
(* A handler validates its document, appends it to the log under WAL.mu    *)
(* and then applies it to the index under Engine.mu; no lock spans the two *)
(* steps, so several handlers can be between them, and the order in which  *)
(* records enter the log is not the order in which they reach the index.   *)
(* Bulk runs its items one after another through Upsert: it is a handler   *)
(* that admits the next operation when the previous one is answered.       *)
(*                                                                         *)
(* The log is on disk; everything else is lost when the process ends, and  *)
(* searchd does not replay the log.  Collection ids are random, so a       *)
(* collection lost this way never comes back under its id.                 *)
(***************************************************************************)
EXTENDS Naturals, Sequences, FiniteSets

CONSTANTS
    Workers,            \* handler goroutines
    DocIds, Versions,
    Bodies,             \* contents that passed Document.Validate, schema version included
    NoDoc, maxMutable, MaxGeneration,           \* see Engine
    NoTail, MaxLines, MaxSequence,              \* see WAL
    NoOp,               \* an idle handler has no operation
    MaxRequests         \* bound: requests admitted

Op == [kind: {"upsert"}, id: DocIds, version: Versions, body: Bodies]
        \cup [kind: {"delete"}, id: DocIds, version: Versions]

ASSUME IngestAssumption ==
    /\ NoOp \notin Op
    /\ MaxRequests \in Nat
    \* What the parts assume of their constants.
    /\ IsFiniteSet(DocIds) /\ Versions \subseteq Nat
    /\ NoDoc \notin [version: Versions, body: Bodies, deleted: BOOLEAN]
    /\ NoTail \notin [sequence: Nat, op: Op, form: {"valid", "refused", "overlong"}]
    /\ maxMutable \in Nat \ {0}
    /\ MaxGeneration \in Nat /\ MaxLines \in Nat /\ MaxSequence \in Nat
    \* The bounds of the parts never stop a request that was admitted.
    /\ MaxRequests <= MaxLines /\ MaxRequests <= MaxSequence
    /\ MaxRequests <= MaxGeneration

VARIABLES
    lines, tail, synced, sequence, handle, writing, acked,      \* WAL
    mutable, segments, generation,                              \* Engine
    collection, \* "absent", "created", "served" (engine registered), "lost"
    pc,         \* where each handler is
    op,         \* the operation it was called with
    issued,     \* requests admitted so far
    confirmed   \* history: operations answered with success

W == INSTANCE WAL WITH Oversized <- {}, Unreadable <- {}
E == INSTANCE Engine

walVars == <<lines, tail, synced, sequence, handle, writing, acked>>
engineVars == <<mutable, segments, generation>>
vars == <<walVars, engineVars, collection, pc, op, issued, confirmed>>

Init ==
    /\ W!Init
    /\ E!Init
    /\ collection = "absent"
    /\ pc = [w \in Workers |-> "idle"]
    /\ op = [w \in Workers |-> NoOp]
    /\ issued = 0
    /\ confirmed = {}
-----------------------------------------------------------------------------
(* Definitions whose name has an underscore are the code with a plausible  *)
(* mistake in it; no specification uses them.  They measure whether the    *)
(* properties below would notice.                                          *)

(* createCollection: Create, and then RegisterEngine with a new engine.    *)
Create ==
    /\ handle = "open" /\ collection = "absent"
    /\ collection' = "created"
    /\ UNCHANGED <<walVars, engineVars, pc, op, issued, confirmed>>

RegisterEngine ==
    /\ collection = "created"
    /\ collection' = "served"
    /\ UNCHANGED <<walVars, engineVars, pc, op, issued, confirmed>>

(* Upsert and Delete up to the log: the collection and its engine are      *)
(* looked up and the document is validated, all before the append.         *)
Admit(w) ==
    /\ pc[w] = "idle"
    /\ collection = "served"
    /\ issued < MaxRequests
    /\ issued' = issued + 1
    /\ \E o \in Op : op' = [op EXCEPT ![w] = o]
    /\ pc' = [pc EXCEPT ![w] = "admitted"]
    /\ UNCHANGED <<walVars, engineVars, collection, confirmed>>

(* "collection not found" and "collection engine unavailable".             *)
RefuseUnserved(w) ==
    /\ pc[w] = "idle" /\ handle # "down"
    /\ collection # "served"
    /\ UNCHANGED vars

Answer(w) ==
    /\ pc' = [pc EXCEPT ![w] = "idle"]
    /\ op' = [op EXCEPT ![w] = NoOp]

(* The error paths of Append end the request without an index update:      *)
(* a cancelled context is noticed after WAL.mu is taken and before the     *)
(* write, not later; what a failed Write left, or a Sync did not cover,    *)
(* stays in the file.                                                      *)
Cancelled(w) ==
    /\ pc[w] = "admitted" /\ ~writing
    /\ Answer(w)
    /\ UNCHANGED <<walVars, engineVars, collection, issued, confirmed>>

WriteFails(w) ==
    /\ pc[w] = "admitted"
    /\ W!AppendShort(op[w]) \/ W!AppendClosed
    /\ Answer(w)
    /\ UNCHANGED <<engineVars, collection, issued, confirmed>>

SyncFails_KeepsLock(w) ==
    /\ pc[w] = "appending" /\ writing
    /\ Answer(w)
    /\ UNCHANGED <<walVars, engineVars, collection, issued, confirmed>>

SyncFails_Ignored(w) ==
    /\ pc[w] = "appending"
    /\ W!AppendUnsynced
    /\ pc' = [pc EXCEPT ![w] = "logged"]
    /\ UNCHANGED <<engineVars, collection, op, issued, confirmed>>

SyncFails(w) ==
    /\ pc[w] = "appending"
    /\ W!AppendUnsynced
    /\ Answer(w)
    /\ UNCHANGED <<engineVars, collection, issued, confirmed>>

Write(w) ==
    /\ pc[w] = "admitted"
    /\ W!AppendWrite(op[w])
    /\ pc' = [pc EXCEPT ![w] = "appending"]
    /\ UNCHANGED <<engineVars, collection, op, issued, confirmed>>

Sync(w) ==
    /\ pc[w] = "appending"
    /\ W!AppendSynced
    /\ pc' = [pc EXCEPT ![w] = "logged"]
    /\ UNCHANGED <<engineVars, collection, op, issued, confirmed>>

(* engine.Upsert or engine.Delete: success, or a conflict that leaves the  *)
(* record in the log.                                                      *)
Apply(w) ==
    /\ pc[w] = "logged"
    /\ \/ op[w].kind = "upsert" /\ E!Upsert(op[w].id, op[w].version, op[w].body)
       \/ op[w].kind = "delete" /\ E!Delete(op[w].id, op[w].version)
    /\ confirmed' = confirmed \cup {op[w]}
    /\ Answer(w)
    /\ UNCHANGED <<walVars, collection, issued>>

Conflict(w) ==
    /\ pc[w] = "logged"
    /\ \/ op[w].kind = "upsert" /\ E!RefuseUpsert(op[w].id, op[w].version)
       \/ op[w].kind = "delete" /\ E!RefuseDelete(op[w].id, op[w].version)
    /\ Answer(w)
    /\ UNCHANGED <<walVars, collection, issued, confirmed>>

(* A maintenance task's only effect on the index (runCompact).             *)
Compact ==
    /\ collection = "served"
    /\ E!Flush
    /\ UNCHANGED <<walVars, collection, pc, op, issued, confirmed>>

(* main's deferred wal.Close runs when Shutdown returns, which a timeout   *)
(* makes it do while handlers are still at work.                           *)
Close ==
    /\ W!Close
    /\ UNCHANGED <<engineVars, collection, pc, op, issued, confirmed>>

(* The process ends at any moment; only the file is left.                  *)
Crash ==
    /\ W!Crash
    /\ mutable' = [id \in DocIds |-> NoDoc] /\ segments' = <<>> /\ generation' = 0
    /\ collection' = IF collection = "absent" THEN "absent" ELSE "lost"
    /\ pc' = [w \in Workers |-> "idle"]
    /\ op' = [w \in Workers |-> NoOp]
    /\ UNCHANGED <<issued, confirmed>>

(* run: OpenWAL, without a replay.                                         *)
Start ==
    /\ W!Open \/ W!OpenRefused
    /\ UNCHANGED <<engineVars, collection, pc, op, issued, confirmed>>

Handle(w) ==
    \/ Cancelled(w) \/ WriteFails(w) \/ Write(w)
    \/ SyncFails(w) \/ Sync(w)
    \/ Apply(w) \/ Conflict(w)

Next ==
    \/ Create
    \/ RegisterEngine
    \/ \E w \in Workers : Admit(w)
    \/ \E w \in Workers : RefuseUnserved(w)
    \/ \E w \in Workers : Handle(w)
    \/ Compact
    \/ Close
    \/ Crash
    \/ Start

(* A handler that can run is run: Go schedules every goroutine, and a      *)
(* sync.Mutex hands over to the waiter that starves.                       *)
Fairness == \A w \in Workers : WF_vars(Handle(w))

Spec == Init /\ [][Next]_vars /\ Fairness
-----------------------------------------------------------------------------
(* Handlers have an operation from admission to answer, and at most one of *)
(* them is inside Append, as WAL.mu demands.                               *)
TypeOK ==
    /\ W!TypeOK /\ E!TypeOK
    /\ collection \in {"absent", "created", "served", "lost"}
    /\ pc \in [Workers -> {"idle", "admitted", "appending", "logged"}]
    /\ op \in [Workers -> Op \cup {NoOp}]
    /\ \A w \in Workers : op[w] = NoOp <=> pc[w] = "idle"
    /\ Cardinality({w \in Workers : pc[w] = "appending"}) = IF writing THEN 1 ELSE 0
    /\ issued \in 0..MaxRequests
    /\ confirmed \subseteq Op

(* The record that accounts for what readers see of a document.            *)
Explains(record, id) ==
    LET doc == E!Newest(id)
    IN  /\ record.op.id = id /\ record.op.version = doc.version
        /\ IF doc.deleted THEN record.op.kind = "delete"
           ELSE record.op.kind = "upsert" /\ record.op.body = doc.body

(* "A write is accepted only after ... a durable WAL append": whatever a   *)
(* reader sees comes from a record whose append and fsync succeeded, with  *)
(* handlers interleaved and appends failing or cancelled at any step.      *)
LogPrecedesIndex ==
    \A id \in DocIds :
      E!Newest(id) # NoDoc => \E record \in acked : Explains(record, id)

(* A write answered with success is in the log for good: after any crash,  *)
(* shutdown or restart, a replay that completes delivers it.               *)
ConfirmedSurvive ==
    W!ReplayCompletes =>
      \A o \in confirmed : \E i \in W!Delivered : W!Entries[i].op = o

(* Until the buffer is first sealed, the highest confirmed version of a    *)
(* document wins whatever order the handlers reached log and index in.     *)
HighestVersionWins ==
    collection = "served" /\ generation = 0 =>
      \A o \in confirmed :
        /\ E!Newest(o.id) # NoDoc
        /\ E!Newest(o.id).version >= o.version

(* A refused, cancelled or failed request changes nothing readers see, and *)
(* neither does a compaction: the index changes with an answer of success, *)
(* and only in the document the request named.                             *)
OnlySuccessIsVisible ==
    [][handle' # "down" =>
         \A id \in DocIds :
           E!Newest(id)' # E!Newest(id) =>
             \E w \in Workers : /\ pc[w] = "logged" /\ pc'[w] = "idle"
                                /\ op[w].id = id /\ op[w] \in confirmed']_vars

(* Every admitted request is answered unless the process ends.             *)
EveryRequestAnswered ==
    \A w \in Workers :
      pc[w] = "admitted" ~> (pc[w] = "idle" \/ handle = "down")
=============================================================================
