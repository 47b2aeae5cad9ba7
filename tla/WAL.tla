-------------------------------- MODULE WAL --------------------------------
(***************************************************************************)
(* The write-ahead log of internal/storage/wal.go: one file, one JSON      *)
(* record per line, every Append followed by an fsync, under WAL.mu.       *)
(*                                                                         *)
(* The file is the sequence `lines` of newline-terminated lines and the    *)
(* `tail`, the bytes after the last newline.  Of a line's text the model   *)
(* keeps its sequence number, its operation and the line's form, which is  *)
(* what a scan makes of it:                                                *)
(*   valid     decodes, and Record.Validate accepts it                     *)
(*   refused   does not decode, or fails Record.Validate                   *)
(*   overlong  does not fit the scanner's 16 MiB buffer: Scan returns      *)
(*             false and only Err() tells                                  *)
(* The disk keeps what an fsync covered and any prefix of what came after. *)
(***************************************************************************)
EXTENDS Naturals, Sequences, FiniteSets, FiniteSetsExt

CONSTANTS
    Op,             \* what a record asks for: operation, document, version, payload
    Oversized,      \* those whose line exceeds the scanner's buffer
    Unreadable,     \* those whose line fails the checksum when it is read back
    NoTail,         \* the file ends in a newline, or is empty
    MaxLines,       \* bound: lines in the file
    MaxSequence     \* bound: sequence numbers handed out

ASSUME WALAssumption ==
    /\ Oversized \subseteq Op
    /\ Unreadable \subseteq Op
    /\ NoTail \notin [sequence: Nat, op: Op, form: {"valid", "refused", "overlong"}]
    /\ MaxLines \in Nat
    /\ MaxSequence \in Nat

VARIABLES
    lines,      \* the terminated lines of the file
    tail,       \* the unterminated rest of the file
    synced,     \* number of lines an fsync has made durable
    sequence,   \* WAL.sequence, in memory
    handle,     \* "open", "closed" (WAL.file = nil) or "down" (no process)
    writing,    \* Append has written lines[Len(lines)] and is in Sync
    acked       \* history: the records whose Append returned no error

vars == <<lines, tail, synced, sequence, handle, writing, acked>>

Form == {"valid", "refused", "overlong"}
Line == [sequence: Nat, op: Op, form: Form]
Record == [sequence: Nat, op: Op]

Init ==
    /\ lines = <<>> /\ tail = NoTail /\ synced = 0
    /\ sequence = 0 /\ handle = "down" /\ writing = FALSE
    /\ acked = {}
-----------------------------------------------------------------------------
(* The line Append marshals for an operation.                              *)
Sealed(n, op) ==
    [sequence |-> n, op |-> op,
     form |-> IF op \in Oversized THEN "overlong"
              ELSE IF op \in Unreadable THEN "refused" ELSE "valid"]

(* What may be left of a line whose newline did not reach the file.        *)
Torn(line) ==
    {line, [line EXCEPT !.form = "refused"]}

(* What a line becomes behind a tail: two short pieces can together be     *)
(* too long for the scanner.                                               *)
Glued(line) ==
    IF tail = NoTail THEN {line}
    ELSE IF "overlong" \in {tail.form, line.form} THEN {[line EXCEPT !.form = "overlong"]}
    ELSE {[line EXCEPT !.form = form] : form \in {"refused", "overlong"}}

(* What a scanner returns one by one: the rest of the file counts as a     *)
(* line.  Reached are the positions up to the first overlong line, Scanned *)
(* those before it.                                                        *)
Entries == IF tail = NoTail THEN lines ELSE Append(lines, tail)

Reached ==
    {i \in 1..Len(Entries) : \A j \in 1..(i - 1) : Entries[j].form # "overlong"}
Scanned == {i \in Reached : Entries[i].form # "overlong"}

(* Replay hands these positions to apply, and returns no error if they are *)
(* all there is.                                                           *)
Delivered ==
    {i \in 1..Len(Entries) : \A j \in 1..i : Entries[j].form = "valid"}

ReplayCompletes == Delivered = 1..Len(Entries)

Matches(line, record) == line.sequence = record.sequence /\ line.op = record.op
-----------------------------------------------------------------------------
(* Definitions whose name has an underscore are the code with a plausible  *)
(* mistake in it; no specification uses them.  They measure whether the    *)
(* properties below would notice.                                          *)

(* OpenWAL: scanSequence refuses a bad line, but ignores the scanner's     *)
(* error and so takes an overlong line for the end of the file.            *)
Openable == \A i \in Scanned : Entries[i].form = "valid"

Open_Truncates ==
    /\ handle = "down"
    /\ lines' = <<>> /\ tail' = NoTail /\ sequence' = 0 /\ handle' = "open"
    /\ UNCHANGED <<synced, writing, acked>>

Open_CountsLines ==
    /\ handle = "down"
    /\ Openable
    /\ sequence' = Cardinality(Scanned)
    /\ handle' = "open"
    /\ UNCHANGED <<lines, tail, synced, writing, acked>>

Open ==
    /\ handle = "down"
    /\ Openable
    /\ sequence' = Max({0} \cup {Entries[i].sequence : i \in Scanned})
    /\ handle' = "open"
    /\ UNCHANGED <<lines, tail, synced, writing, acked>>

OpenRefused ==
    /\ handle = "down"
    /\ ~Openable
    /\ UNCHANGED vars

(* Append up to Write: the sequence number is taken before anything can    *)
(* fail, and stays taken.                                                  *)
AppendWrite(op) ==
    /\ handle = "open" /\ ~writing
    /\ Len(lines) < MaxLines /\ sequence < MaxSequence
    /\ sequence' = sequence + 1
    /\ \E line \in Glued(Sealed(sequence + 1, op)) : lines' = Append(lines, line)
    /\ tail' = NoTail
    /\ writing' = TRUE
    /\ UNCHANGED <<synced, handle, acked>>

(* Write fails after some of the bytes; they are not taken back.           *)
AppendShort(op) ==
    /\ handle = "open" /\ ~writing
    /\ sequence < MaxSequence
    /\ sequence' = sequence + 1
    /\ tail' \in {tail} \cup UNION {Glued(l) : l \in Torn(Sealed(sequence + 1, op))}
    /\ UNCHANGED <<lines, synced, handle, writing, acked>>

(* Sync succeeds and Append returns the sequence number.                   *)
AppendSynced ==
    /\ writing
    /\ synced' = Len(lines)
    /\ LET line == lines[Len(lines)]
       IN  acked' = acked \cup {[sequence |-> line.sequence, op |-> line.op]}
    /\ writing' = FALSE
    /\ UNCHANGED <<lines, tail, sequence, handle>>

AppendUnsynced_Ignored ==
    /\ writing
    /\ LET line == lines[Len(lines)]
       IN  acked' = acked \cup {[sequence |-> line.sequence, op |-> line.op]}
    /\ writing' = FALSE
    /\ UNCHANGED <<lines, tail, synced, sequence, handle>>

(* Sync fails: Append returns the error, the line stays in the file.       *)
AppendUnsynced ==
    /\ writing
    /\ writing' = FALSE
    /\ UNCHANGED <<lines, tail, synced, sequence, handle, acked>>

(* Append after Close: Write on the nil file fails.                        *)
AppendClosed ==
    /\ handle = "closed"
    /\ sequence < MaxSequence
    /\ sequence' = sequence + 1
    /\ UNCHANGED <<lines, tail, synced, handle, writing, acked>>

Close ==
    /\ handle = "open" /\ ~writing
    /\ handle' = "closed"
    /\ UNCHANGED <<lines, tail, synced, sequence, writing, acked>>

(* The process ends, with or without the machine, between any two steps.   *)
Crash ==
    /\ handle # "down"
    /\ \E k \in synced..Len(lines) :
         /\ lines' = SubSeq(lines, 1, k)
         /\ tail' \in {NoTail} \cup
                      (IF k < Len(Entries) THEN Torn(Entries[k + 1]) ELSE {})
    /\ sequence' = 0 /\ handle' = "down" /\ writing' = FALSE
    /\ UNCHANGED <<synced, acked>>

Next ==
    \/ Open
    \/ OpenRefused
    \/ \E op \in Op : AppendWrite(op)
    \/ \E op \in Op : AppendShort(op)
    \/ AppendSynced
    \/ AppendUnsynced
    \/ AppendClosed
    \/ Close
    \/ Crash

Spec == Init /\ [][Next]_vars
-----------------------------------------------------------------------------
(* The file holds lines and the counters are natural numbers.              *)
TypeOK ==
    /\ lines \in Seq(Line)
    /\ tail \in Line \cup {NoTail}
    /\ synced \in 0..Len(lines)
    /\ sequence \in Nat
    /\ handle \in {"open", "closed", "down"}
    /\ writing \in BOOLEAN
    /\ acked \subseteq Record

(* A replay that reports success has delivered every acknowledged record,  *)
(* whatever writes, syncs and processes failed before: records can become  *)
(* unreachable behind a bad line, but Replay then says so.                 *)
NoSilentLoss ==
    ReplayCompletes =>
      \A record \in acked : \E i \in Delivered : Matches(Entries[i], record)

(* Up to the first overlong line the file is in order of sequence number   *)
(* and no number occurs twice, over failed appends, torn tails and         *)
(* restarts: applying records in file order is applying them in order.     *)
SequencesIncrease ==
    \A i, j \in Reached : i < j => Entries[i].sequence < Entries[j].sequence

(* "Acknowledged writes are not lost": at any moment a replay delivers     *)
(* every record whose Append succeeded.                                    *)
AckedAlwaysReplayable ==
    \A record \in acked : \E i \in Delivered : Matches(Entries[i], record)
=============================================================================
