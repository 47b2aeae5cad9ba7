------------------------------ MODULE Recovery ------------------------------
(***************************************************************************)
(* Rebuilding an index from the log a service left behind:                 *)
(* storage.ReplayInto (recovery.go) on top of WAL.Replay, after the        *)
(* executions of Ingest.  The target is a fresh engine, so the engine      *)
(* variables, empty after a crash, hold what the replay has rebuilt.       *)
(*                                                                         *)
(* ReplayInto is the repository's recovery entry point; searchd does not   *)
(* call it, and cmd/indexer runs WAL.Replay with a callback that counts.   *)
(* Replay holds WAL.mu throughout and nothing else touches the fresh       *)
(* engine, but the process may end between two records.                    *)
(***************************************************************************)
EXTENDS Ingest

VARIABLES
    replay,     \* "idle", "running", "done" or "failed"
    position    \* entries of the log handed to the target so far

recoveryVars == <<vars, replay, position>>

RInit ==
    /\ Init
    /\ replay = "idle" /\ position = 0

(* The service runs; the log is recovered only after the process ended.    *)
Serve ==
    /\ replay = "idle"
    /\ Next
    /\ UNCHANGED <<replay, position>>

(* Underscored names are plausible mistakes, as in the other modules.      *)
ReplayInto_SkipsFirst ==
    /\ replay = "idle" /\ collection = "lost" /\ handle = "open" /\ ~writing
    /\ lines # <<>>
    /\ replay' = "running" /\ position' = 1
    /\ UNCHANGED vars

ReplayInto ==
    /\ replay = "idle" /\ collection = "lost" /\ handle = "open" /\ ~writing
    /\ replay' = "running" /\ position' = 0
    /\ UNCHANGED vars

(* apply on the next entry: Target.Delete or Target.Upsert.                *)
ReplayRecord ==
    /\ replay = "running" /\ position + 1 \in W!Delivered
    /\ LET o == W!Entries[position + 1].op
       IN  \/ o.kind = "upsert" /\ E!Upsert(o.id, o.version, o.body)
           \/ o.kind = "delete" /\ E!Delete(o.id, o.version)
    /\ position' = position + 1
    /\ UNCHANGED <<walVars, collection, pc, op, issued, confirmed, replay>>

(* The first error of the target, or the first bad line, ends the replay.  *)
ReplayFails ==
    /\ replay = "running" /\ position < Len(W!Entries)
    /\ position + 1 \in W!Delivered =>
         LET o == W!Entries[position + 1].op
         IN  IF o.kind = "upsert" THEN ~E!AcceptsUpsert(o.id, o.version)
             ELSE ~E!AcceptsDelete(o.id, o.version)
    /\ replay' = "failed"
    /\ UNCHANGED <<vars, position>>

ReplayDone_CountsTheEnd ==
    /\ replay = "running" /\ position = Len(W!Entries)
    /\ replay' = "done" /\ position' = position + 1
    /\ UNCHANGED vars

ReplayDone ==
    /\ replay = "running" /\ position = Len(W!Entries)
    /\ replay' = "done"
    /\ UNCHANGED <<vars, position>>

(* The recovering process ends as well, and recovery starts over.          *)
Interrupted ==
    /\ replay # "idle"
    /\ Crash
    /\ replay' = "idle" /\ position' = 0

RNext ==
    \/ Serve
    \/ ReplayInto
    \/ ReplayRecord
    \/ ReplayFails
    \/ ReplayDone
    \/ Interrupted

RSpec == RInit /\ [][RNext]_recoveryVars
-----------------------------------------------------------------------------
(* The replay is in one of its states, at an entry of the log.             *)
RTypeOK ==
    /\ TypeOK
    /\ replay \in {"idle", "running", "done", "failed"}
    /\ position \in 0..Len(W!Entries)

(* A finished replay that did not seal its buffer has brought back every   *)
(* write the service confirmed, or a later version of that document, and   *)
(* shows nothing that is not in the log: whatever order the handlers       *)
(* reached log and index in, and wherever the service was cut off.         *)
RecoversConfirmed ==
    replay = "done" /\ generation = 0 =>
      /\ \A o \in confirmed : /\ E!Newest(o.id) # NoDoc
                              /\ E!Newest(o.id).version >= o.version
      /\ \A id \in DocIds : E!Newest(id) # NoDoc =>
           \E i \in W!Delivered : Explains(W!Entries[i], id)

(* "WAL replay on restart": a log without a bad line can be replayed.      *)
IntactLogReplays == replay = "failed" => ~W!ReplayCompletes
=============================================================================
