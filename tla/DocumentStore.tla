--------------------------- MODULE DocumentStore ---------------------------
(***************************************************************************)
(* What one collection promises its callers, without buffers or segments: *)
(* a map from document ids to their newest version.  Readers see `view`;   *)
(* `guarded` is the part of the promise a caller cannot see, the ids whose *)
(* version an upsert is checked against.                                   *)
(*                                                                         *)
(* The promise is weaker than the phrase "external version conflict" makes *)
(* one expect: an upsert of an unguarded id may lower its version, and     *)
(* sealing the buffer unguards every id.  Engine implements this module;   *)
(* it does not implement the stronger store in which guarded is always     *)
(* all of DocIds (Engine!VersionsNeverRegress).                            *)
(***************************************************************************)
EXTENDS Naturals

CONSTANTS
    DocIds,     \* document identifiers
    Versions,   \* external versions a caller may send
    Bodies,     \* document contents
    NoDoc       \* "no document"

VARIABLES
    view,       \* the newest document of every id, a tombstone included
    guarded     \* ids for which an upsert must raise the version

vars == <<view, guarded>>

Doc == [version: Versions, body: Bodies, deleted: BOOLEAN]

Init ==
    /\ view = [id \in DocIds |-> NoDoc]
    /\ guarded = {}

(* A document is written; the write either stays guarded or seals all.     *)
Put(id, version, body) ==
    /\ id \in guarded => version > view[id].version
    /\ view' = [view EXCEPT ![id] =
                  [version |-> version, body |-> body, deleted |-> FALSE]]
    /\ guarded' \in {guarded \cup {id}, {}}

(* A known document is hidden behind a tombstone of a higher version.      *)
Remove(id, version) ==
    /\ view[id] # NoDoc
    /\ version > view[id].version
    /\ view' = [view EXCEPT ![id] =
                  [version |-> version, body |-> view[id].body, deleted |-> TRUE]]
    /\ guarded' = guarded \cup {id}

(* Versions are no longer guarded; readers notice nothing.                 *)
Unguard ==
    /\ guarded' = {}
    /\ UNCHANGED view

Next ==
    \/ \E id \in DocIds, version \in Versions, body \in Bodies : Put(id, version, body)
    \/ \E id \in DocIds, version \in Versions : Remove(id, version)
    \/ Unguard

Spec == Init /\ [][Next]_vars
=============================================================================
