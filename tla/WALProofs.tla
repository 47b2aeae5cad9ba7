----------------------------- MODULE WALProofs -----------------------------
(* Theorems about WAL for every set of operations, whichever of them are   *)
(* too long or unreadable, and every history of failed writes, failed      *)
(* syncs, restarts and crashes.                                            *)
EXTENDS WAL, Positions, SequenceTheorems

(* The counter of a running process is at least every number a scan would  *)
(* find, so the next number is new.                                        *)
CounterAhead ==
    handle # "down" => \A i \in Scanned : Entries[i].sequence <= sequence

(* Every acknowledged record has its line, readable or not, in the part of *)
(* the file no crash takes away.                                           *)
AckedInFile ==
    \A record \in acked : \E i \in 1..synced : Matches(lines[i], record)

(* While Append is in Sync its line is the last thing in the file.         *)
WritingIsLast ==
    writing => handle = "open" /\ Len(lines) > 0 /\ tail = NoTail

Inv ==
    /\ TypeOK
    /\ SequencesIncrease
    /\ CounterAhead
    /\ AckedInFile
    /\ WritingIsLast
-----------------------------------------------------------------------------
(* The entries are the lines, with the tail behind them if there is one.   *)
LEMMA EntriesAre ==
    ASSUME TypeOK
    PROVE  /\ Len(lines) \in Nat
           /\ Entries \in Seq(Line)
           /\ \A i \in 1..Len(lines) : Entries[i] = lines[i] /\ lines[i] \in Line
           /\ tail = NoTail => Len(Entries) = Len(lines)
           /\ tail # NoTail => /\ Len(Entries) = Len(lines) + 1
                               /\ Entries[Len(lines) + 1] = tail
                               /\ tail \in Line
  <1>1. CASE tail = NoTail
    BY <1>1 DEF TypeOK, Entries
  <1>2. CASE tail # NoTail
    BY <1>2, AppendProperties DEF TypeOK, Entries
  <1> QED BY <1>1, <1>2

LEMMA LineTypes ==
    ASSUME TypeOK, NEW n \in Nat, NEW op \in Op
    PROVE  /\ Sealed(n, op) \in Line
           /\ \A line \in Torn(Sealed(n, op)) \cup {Sealed(n, op)} :
                /\ line \in Line /\ line.sequence = n /\ line.op = op
                /\ \A l \in Glued(line) : l \in Line /\ l.sequence = n /\ l.op = op
  <1>1. /\ Sealed(n, op) \in Line
        /\ Sealed(n, op).sequence = n /\ Sealed(n, op).op = op
    BY DEF Sealed, Line, Form
  <1>2. ASSUME NEW line \in Line
        PROVE  /\ [line EXCEPT !.form = "refused"] \in Line
               /\ [line EXCEPT !.form = "refused"].sequence = line.sequence
               /\ [line EXCEPT !.form = "refused"].op = line.op
    BY DEF Line, Form
  <1>3. ASSUME NEW line \in Line
        PROVE  \A l \in Glued(line) :
                 l \in Line /\ l.sequence = line.sequence /\ l.op = line.op
    BY DEF Glued, Line, Form
  <1> QED BY <1>1, <1>2, <1>3 DEF Torn

LEMMA TornKeeps ==
    ASSUME NEW line \in Line, NEW t \in Torn(line)
    PROVE  t \in Line /\ t.sequence = line.sequence
  BY DEF Torn, Line, Form

(* An append that gets as far as the file puts its new number on the last  *)
(* entry: behind the lines, in place of a tail.                            *)
LEMMA NewLastEntry ==
    ASSUME TypeOK, TypeOK', SequencesIncrease, CounterAhead,
           handle # "down", sequence' = sequence + 1,
           Len(Entries') = Len(lines) + 1,
           \A i \in 1..Len(lines) : Entries'[i] = lines[i],
           Entries'[Len(lines) + 1].sequence = sequence + 1
    PROVE  SequencesIncrease' /\ CounterAhead'
  <1> DEFINE n == Len(lines)
  <1>1. /\ n \in Nat /\ Len(Entries) \in n..(n + 1) /\ Len(Entries') = n + 1
        /\ \A i \in 1..n : Entries'[i] = Entries[i] /\ Entries[i].sequence \in Nat
        /\ Entries'[n + 1].sequence = sequence + 1
        /\ sequence \in Nat
    <2>1. n \in Nat /\ Len(Entries) \in n..(n + 1)
      BY EntriesAre
    <2>2. \A i \in 1..n : Entries[i] = lines[i] /\ lines[i] \in Line
      BY EntriesAre
    <2>3. \A i \in 1..n : Entries'[i] = Entries[i] /\ Entries[i].sequence \in Nat
      BY <2>2 DEF Line
    <2>4. sequence \in Nat
      BY DEF TypeOK
    <2> QED BY <2>1, <2>3, <2>4
  <1> HIDE DEF n
  <1>2. \A i \in Reached' : i \in 1..n => i \in Reached
    <2> SUFFICES ASSUME NEW i \in Reached', i \in 1..n PROVE i \in Reached
      OBVIOUS
    <2>1. \A k \in 1..(i - 1) : Entries'[k].form # "overlong"
      BY DEF Reached
    <2>2. \A k \in 1..(i - 1) : k \in 1..n
      BY <1>1
    <2>3. i \in 1..Len(Entries)
      BY <1>1
    <2> QED BY <1>1, <2>1, <2>2, <2>3 DEF Reached
  <1>3. \A i \in Reached' : \A j \in 1..n : j < i => j \in Scanned
    <2> TAKE i \in Reached'
    <2> TAKE j \in 1..n
    <2> SUFFICES ASSUME j < i PROVE j \in Scanned
      OBVIOUS
    <2>1. i \in 1..(n + 1) /\ \A k \in 1..(i - 1) : Entries'[k].form # "overlong"
      BY <1>1 DEF Reached
    <2>2. \A k \in 1..j : Entries[k].form # "overlong"
      BY <1>1, <2>1
    <2> QED BY <1>1, <2>2 DEF Reached, Scanned
  <1>4. SequencesIncrease'
    <2> SUFFICES ASSUME NEW i \in Reached', NEW j \in Reached', i < j
                 PROVE  Entries'[i].sequence < Entries'[j].sequence
      BY DEF SequencesIncrease
    <2>1. i \in 1..n /\ j \in 1..(n + 1) /\ i \in Scanned
      BY <1>1, <1>3 DEF Reached
    <2>2. CASE j \in 1..n
      BY <1>1, <1>2, <2>1, <2>2 DEF SequencesIncrease
    <2>3. CASE j = n + 1
      BY <1>1, <2>1, <2>3 DEF CounterAhead
    <2> QED BY <1>1, <2>1, <2>2, <2>3
  <1>5. CounterAhead'
    <2> SUFFICES ASSUME NEW i \in Scanned' PROVE Entries'[i].sequence <= sequence'
      BY DEF CounterAhead
    <2>1. i \in 1..(n + 1) /\ i \in Reached'
      BY <1>1 DEF Scanned, Reached
    <2>2. CASE i \in 1..n
      <3>1. i \in Scanned
        BY <1>1, <1>2, <2>1, <2>2 DEF Scanned
      <3> QED BY <1>1, <2>2, <3>1 DEF CounterAhead
    <2>3. CASE i = n + 1
      BY <1>1, <2>3
    <2> QED BY <1>1, <2>1, <2>2, <2>3
  <1> QED BY <1>4, <1>5

(* Without a change to the file the facts about the file stay.             *)
LEMMA SameFile ==
    ASSUME SequencesIncrease, UNCHANGED <<lines, tail>>
    PROVE  /\ SequencesIncrease'
           /\ Entries' = Entries /\ Scanned' = Scanned
  BY DEF SequencesIncrease, Entries, Reached, Scanned

LEMMA AppendWriteKeeps ==
    ASSUME Inv, NEW op \in Op, AppendWrite(op)
    PROVE  Inv'
  <1>1. PICK line \in Glued(Sealed(sequence + 1, op)) :
          lines' = Append(lines, line) /\ tail' = NoTail
    BY DEF AppendWrite
  <1>2. line \in Line /\ line.sequence = sequence + 1
    BY LineTypes DEF Inv, TypeOK
  <1>3. /\ lines' \in Seq(Line) /\ Len(lines') = Len(lines) + 1
        /\ \A i \in 1..Len(lines) : lines'[i] = lines[i]
        /\ lines'[Len(lines) + 1] = line
    BY <1>1, <1>2, AppendProperties DEF Inv, TypeOK
  <1>4. TypeOK'
    BY <1>1, <1>3 DEF Inv, TypeOK, AppendWrite
  <1>5. Entries' = lines'
    BY <1>1 DEF Entries
  <1>6. SequencesIncrease' /\ CounterAhead'
    BY <1>2, <1>3, <1>4, <1>5, NewLastEntry DEF Inv, AppendWrite
  <1>7. AckedInFile'
    BY <1>3 DEF Inv, TypeOK, AckedInFile, AppendWrite, Matches
  <1>8. WritingIsLast'
    BY <1>3 DEF Inv, TypeOK, WritingIsLast, AppendWrite
  <1> QED BY <1>4, <1>6, <1>7, <1>8 DEF Inv

LEMMA AppendShortKeeps ==
    ASSUME Inv, NEW op \in Op, AppendShort(op)
    PROVE  Inv'
  <1>1. /\ tail' \in {tail} \cup UNION {Glued(l) : l \in Torn(Sealed(sequence + 1, op))}
        /\ sequence' = sequence + 1 /\ lines' = lines /\ handle = "open"
        /\ UNCHANGED <<synced, handle, writing, acked>>
    BY DEF AppendShort
  <1>2. AckedInFile' /\ WritingIsLast'
    BY <1>1 DEF Inv, AckedInFile, WritingIsLast, AppendShort, Matches
  <1>3. CASE tail' = tail
    <2>1. TypeOK'
      BY <1>1, <1>3 DEF Inv, TypeOK
    <2>2. SequencesIncrease' /\ Entries' = Entries /\ Scanned' = Scanned
      BY <1>1, <1>3, SameFile DEF Inv
    <2>3. \A i \in Scanned : Entries[i].sequence \in Nat
      <3>1. \A i \in Scanned : i \in 1..Len(Entries)
        BY DEF Scanned, Reached
      <3> QED BY <3>1, EntriesAre DEF Inv, Line
    <2>4. CounterAhead'
      BY <1>1, <2>2, <2>3 DEF Inv, TypeOK, CounterAhead
    <2> QED BY <1>2, <2>1, <2>2, <2>4 DEF Inv
  <1>4. CASE tail' # tail
    <2>1. PICK l \in Torn(Sealed(sequence + 1, op)) : tail' \in Glued(l)
      BY <1>1, <1>4
    <2>2. tail' \in Line /\ tail'.sequence = sequence + 1
      BY <2>1, LineTypes DEF Inv, TypeOK
    <2>3. TypeOK'
      BY <1>1, <2>2 DEF Inv, TypeOK
    <2>4. tail' # NoTail
      BY <2>2, WALAssumption DEF WALAssumption, Line, Form
    <2>5. /\ Len(Entries') = Len(lines) + 1
          /\ \A i \in 1..Len(lines) : Entries'[i] = lines[i]
          /\ Entries'[Len(lines) + 1] = tail'
      BY <1>1, <2>2, <2>4, AppendProperties DEF Inv, TypeOK, Entries
    <2>6. SequencesIncrease' /\ CounterAhead'
      BY <1>1, <2>2, <2>3, <2>5, NewLastEntry DEF Inv
    <2> QED BY <1>2, <2>3, <2>6 DEF Inv
  <1> QED BY <1>3, <1>4

(* Steps that leave the file and the counter alone, or let it rise.        *)
LEMMA CounterRises ==
    ASSUME Inv, UNCHANGED <<lines, tail>>,
           sequence' \in Nat, sequence' >= sequence, handle # "down"
    PROVE  SequencesIncrease' /\ CounterAhead'
  <1>1. SequencesIncrease' /\ Entries' = Entries /\ Scanned' = Scanned
    BY SameFile DEF Inv
  <1>2. \A i \in Scanned : Entries[i].sequence \in Nat
    <2>1. \A i \in Scanned : i \in 1..Len(Entries)
      BY DEF Scanned, Reached
    <2> QED BY <2>1, EntriesAre DEF Inv, Line
  <1> QED BY <1>1, <1>2 DEF Inv, TypeOK, CounterAhead

LEMMA AppendSyncedKeeps ==
    ASSUME Inv, AppendSynced
    PROVE  Inv'
  <1> DEFINE line == lines[Len(lines)]
             record == [sequence |-> line.sequence, op |-> line.op]
  <1>1. Len(lines) \in 1..Len(lines) /\ line \in Line
    BY EntriesAre DEF Inv, WritingIsLast, AppendSynced
  <1>2. record \in Record /\ Matches(line, record)
    BY <1>1 DEF Line, Record, Matches
  <1>3. /\ acked' = acked \cup {record} /\ synced' = Len(lines) /\ writing' = FALSE
        /\ UNCHANGED <<lines, tail, sequence, handle>>
    BY DEF AppendSynced
  <1> HIDE DEF record, line
  <1>4. TypeOK'
    <2>1. Len(lines') \in Nat /\ synced' \in 0..Len(lines')
      BY <1>3, EntriesAre DEF Inv
    <2>2. acked' \subseteq Record
      BY <1>2, <1>3 DEF Inv, TypeOK
    <2> QED BY <1>3, <2>1, <2>2 DEF Inv, TypeOK
  <1>5. SequencesIncrease' /\ CounterAhead'
    BY <1>3, CounterRises DEF Inv, TypeOK, WritingIsLast, AppendSynced
  <1>6. AckedInFile'
    <2> SUFFICES ASSUME NEW r \in acked' PROVE \E i \in 1..synced' : Matches(lines'[i], r)
      BY DEF AckedInFile, Matches
    <2>1. CASE r \in acked
      <3>1. PICK i \in 1..synced : Matches(lines[i], r)
        BY <2>1 DEF Inv, AckedInFile
      <3>2. i \in 1..synced'
        BY <1>3 DEF Inv, TypeOK
      <3> QED BY <1>3, <3>1, <3>2
    <2>2. CASE r = record
      BY <1>1, <1>2, <1>3, <2>2 DEF line
    <2> QED BY <1>3, <2>1, <2>2
  <1>7. WritingIsLast'
    BY <1>3 DEF WritingIsLast
  <1> QED BY <1>4, <1>5, <1>6, <1>7 DEF Inv

(* The number OpenWAL finds is the largest before the first overlong line. *)
LEMMA LargestScanned ==
    ASSUME Inv
    PROVE  LET S == {0} \cup {Entries[i].sequence : i \in Scanned}
           IN  /\ Max(S) \in Nat
               /\ \A i \in Scanned : Entries[i].sequence <= Max(S)
  <1> DEFINE S == {0} \cup {Entries[i].sequence : i \in Scanned}
  <1>1. Scanned \subseteq 1..Len(Entries) /\ Scanned \subseteq Reached
    BY DEF Scanned, Reached
  <1>2. \A i \in Scanned : Entries[i].sequence \in Nat
    BY <1>1, EntriesAre DEF Inv, Line
  <1>3. \E m \in S : \A x \in S : m >= x
    <2>1. CASE Scanned = {}
      BY <2>1
    <2>2. CASE Scanned # {}
      <3> DEFINE last == Max(Scanned)
      <3>1. Len(Entries) \in Nat
        BY EntriesAre, LenProperties DEF Inv
      <3>2. last \in Scanned /\ \A i \in Scanned : last >= i
        BY <1>1, <2>2, <3>1, LargestPosition
      <3> HIDE DEF last
      <3>3. \A i \in Scanned : Entries[last].sequence >= Entries[i].sequence
        <4> TAKE i \in Scanned
        <4>1. i = last \/ i < last
          BY <1>1, <3>1, <3>2
        <4> QED BY <1>1, <1>2, <3>2, <4>1 DEF Inv, SequencesIncrease
      <3>4. \A x \in S : Entries[last].sequence >= x
        BY <1>2, <3>2, <3>3
      <3> QED BY <3>2, <3>4
    <2> QED BY <2>1, <2>2
  <1>4. Max(S) \in S /\ \A x \in S : Max(S) >= x
    BY <1>3 DEF Max
  <1> QED BY <1>2, <1>4

LEMMA OpenKeeps ==
    ASSUME Inv, Open
    PROVE  Inv'
  <1>1. /\ sequence' = Max({0} \cup {Entries[i].sequence : i \in Scanned})
        /\ handle' = "open" /\ UNCHANGED <<lines, tail, synced, writing, acked>>
    BY DEF Open
  <1>2. sequence' \in Nat /\ \A i \in Scanned : Entries[i].sequence <= sequence'
    BY <1>1, LargestScanned
  <1>3. SequencesIncrease' /\ Entries' = Entries /\ Scanned' = Scanned
    BY <1>1, SameFile DEF Inv
  <1>4. TypeOK' /\ CounterAhead' /\ AckedInFile' /\ WritingIsLast'
    BY <1>1, <1>2, <1>3
       DEF Inv, TypeOK, CounterAhead, AckedInFile, Matches, WritingIsLast, Open
  <1> QED BY <1>3, <1>4 DEF Inv

(* A crash leaves a prefix of the entries, the last of them perhaps torn.  *)
LEMMA CrashCuts ==
    ASSUME Inv, Crash
    PROVE  /\ TypeOK'
           /\ Len(Entries') \in Nat /\ Len(Entries') <= Len(Entries)
           /\ \A i \in 1..Len(Entries') : Entries'[i].sequence = Entries[i].sequence
           /\ \A i \in 1..Len(Entries') : i < Len(Entries') => Entries'[i] = Entries[i]
           /\ synced <= Len(lines') /\ \A i \in 1..synced : lines'[i] = lines[i]
  <1>1. PICK k \in synced..Len(lines) :
          /\ lines' = SubSeq(lines, 1, k)
          /\ tail' \in {NoTail} \cup
                       (IF k < Len(Entries) THEN Torn(Entries[k + 1]) ELSE {})
    BY DEF Crash
  <1>2. /\ Len(lines) \in Nat /\ k \in 0..Len(lines) /\ synced \in Nat /\ synced <= k
        /\ lines \in Seq(Line)
    BY EntriesAre DEF Inv, TypeOK
  <1>3. /\ lines' \in Seq(Line) /\ Len(lines') = k
        /\ \A i \in 1..k : lines'[i] = lines[i]
    BY <1>1, <1>2
  <1>4. /\ Entries \in Seq(Line) /\ Len(Entries) \in Nat /\ k <= Len(Entries)
        /\ \A i \in 1..k : lines'[i] = Entries[i]
    BY <1>2, <1>3, EntriesAre, LenProperties DEF Inv
  <1> DEFINE Rest == /\ sequence' = 0 /\ handle' = "down" /\ writing' = FALSE
                     /\ synced' = synced /\ acked' = acked
  <1>5. Rest
    BY DEF Crash
  <1>6. ASSUME tail' \in Line \cup {NoTail}
        PROVE  TypeOK'
    <2>1. synced' \in 0..Len(lines') /\ acked' \subseteq Record
      BY <1>5, <1>2, <1>3 DEF Inv, TypeOK
    <2> QED BY <1>5, <1>3, <1>6, <2>1 DEF TypeOK
  <1> HIDE DEF Rest
  <1>7. CASE tail' = NoTail
    <2>1. Entries' = lines'
      BY <1>7 DEF Entries
    <2>2. TypeOK'
      BY <1>7, <1>6
    <2> QED BY <1>2, <1>3, <1>4, <2>1, <2>2
  <1>8. CASE tail' # NoTail
    <2>1. k < Len(Entries) /\ tail' \in Torn(Entries[k + 1])
      BY <1>1, <1>8
    <2>2. tail' \in Line /\ tail'.sequence = Entries[k + 1].sequence
      <3>1. k + 1 \in 1..Len(Entries)
        BY <1>2, <1>4, <2>1
      <3>2. Entries[k + 1] \in Line
        BY <1>4, <3>1
      <3> QED BY <2>1, <3>2, TornKeeps
    <2>3. TypeOK'
      BY <2>2, <1>6
    <2>4. /\ Len(Entries') = k + 1
          /\ \A i \in 1..k : Entries'[i] = lines'[i]
          /\ Entries'[k + 1] = tail'
      BY <1>3, <1>8, <2>2, AppendProperties DEF Entries
    <2>5. ASSUME NEW i \in 1..(k + 1)
          PROVE  Entries'[i].sequence = Entries[i].sequence
      <3>1. CASE i \in 1..k
        BY <1>4, <2>4, <3>1
      <3>2. CASE i = k + 1
        BY <2>2, <2>4, <3>2
      <3> QED BY <1>2, <3>1, <3>2
    <2>6. \A i \in 1..(k + 1) : i < k + 1 => Entries'[i] = Entries[i]
      BY <1>2, <1>4, <2>4
    <2> QED BY <1>2, <1>3, <1>4, <2>1, <2>3, <2>4, <2>5, <2>6
  <1> QED BY <1>7, <1>8

LEMMA CrashKeeps ==
    ASSUME Inv, Crash
    PROVE  Inv'
  <1>1. Len(Entries) \in Nat
    BY EntriesAre, LenProperties DEF Inv
  <1>2. Reached' \subseteq Reached
    <2> SUFFICES ASSUME NEW i \in Reached' PROVE i \in Reached
      OBVIOUS
    <2>1. i \in 1..Len(Entries') /\ \A j \in 1..(i - 1) : Entries'[j].form # "overlong"
      BY DEF Reached
    <2>2. \A j \in 1..(i - 1) : Entries'[j] = Entries[j]
      BY <2>1, CrashCuts
    <2>3. i \in 1..Len(Entries)
      BY <1>1, <2>1, CrashCuts
    <2> QED BY <2>1, <2>2, <2>3 DEF Reached
  <1>3. SequencesIncrease'
    <2> SUFFICES ASSUME NEW i \in Reached', NEW j \in Reached', i < j
                 PROVE  Entries'[i].sequence < Entries'[j].sequence
      BY DEF SequencesIncrease
    <2>1. i \in 1..Len(Entries') /\ j \in 1..Len(Entries')
      BY DEF Reached
    <2> QED BY <1>2, <2>1, CrashCuts DEF Inv, SequencesIncrease
  <1>4. AckedInFile'
    <2>1. acked' = acked /\ synced' = synced /\ \A i \in 1..synced : lines'[i] = lines[i]
      BY CrashCuts DEF Crash
    <2> QED BY <2>1 DEF Inv, AckedInFile, Matches
  <1>5. CounterAhead' /\ WritingIsLast'
    BY DEF CounterAhead, WritingIsLast, Crash
  <1> QED BY <1>3, <1>4, <1>5, CrashCuts DEF Inv

LEMMA OtherStepsKeep ==
    ASSUME Inv, AppendUnsynced \/ AppendClosed \/ Close \/ UNCHANGED vars
    PROVE  Inv'
  <1>1. /\ UNCHANGED <<lines, tail, synced, acked>>
        /\ sequence' \in Nat /\ sequence' >= sequence
        /\ handle' # "down" => handle # "down"
        /\ handle' \in {"open", "closed", "down"} /\ writing' \in BOOLEAN
        /\ writing' => handle' = "open" /\ writing
    <2>1. sequence \in Nat /\ handle \in {"open", "closed", "down"} /\ writing \in BOOLEAN
      BY DEF Inv, TypeOK
    <2>2. writing => handle = "open"
      BY DEF Inv, WritingIsLast
    <2>3. CASE AppendUnsynced
      <3>1. /\ UNCHANGED <<lines, tail, synced, acked, sequence, handle>>
            /\ writing' = FALSE
        BY <2>3, Zenon DEF AppendUnsynced
      <3>2. ~writing' /\ writing' \in BOOLEAN
        BY <3>1
      <3> QED BY <2>1, <3>1, <3>2
    <2>4. CASE AppendClosed
      BY <2>1, <2>2, <2>4 DEF AppendClosed
    <2>5. CASE Close
      BY <2>1, <2>2, <2>5 DEF Close
    <2>6. CASE UNCHANGED vars
      BY <2>1, <2>2, <2>6 DEF vars
    <2> QED BY <2>3, <2>4, <2>5, <2>6
  <1>2. TypeOK' /\ AckedInFile' /\ WritingIsLast'
    BY <1>1 DEF Inv, TypeOK, AckedInFile, Matches, WritingIsLast
  <1>3. SequencesIncrease'
    BY <1>1, SameFile DEF Inv
  <1>4. CounterAhead'
    <2>1. CASE handle = "down"
      BY <1>1, <2>1 DEF CounterAhead
    <2>2. CASE handle # "down"
      BY <1>1, <2>2, CounterRises
    <2> QED BY <2>1, <2>2
  <1> QED BY <1>2, <1>3, <1>4 DEF Inv
-----------------------------------------------------------------------------
LEMMA InitHolds == Init => Inv
  <1> SUFFICES ASSUME Init PROVE Inv
    OBVIOUS
  <1>1. lines = <<>> /\ tail = NoTail /\ Entries = <<>> /\ Len(lines) = 0
    BY DEF Init, Entries
  <1>2. TypeOK
    <2>1. lines \in Seq(Line) /\ synced \in 0..Len(lines)
      BY <1>1 DEF Init
    <2> QED BY <2>1 DEF Init, TypeOK
  <1>3. Reached = {}
    BY <1>1 DEF Reached
  <1> QED BY <1>1, <1>2, <1>3
          DEF Init, Inv, SequencesIncrease, CounterAhead, AckedInFile, WritingIsLast

LEMMA NextKeeps ==
    ASSUME Inv, [Next]_vars
    PROVE  Inv'
  <1>1. ASSUME NEW op \in Op, AppendWrite(op) PROVE Inv'
    BY <1>1, AppendWriteKeeps
  <1>2. ASSUME NEW op \in Op, AppendShort(op) PROVE Inv'
    BY <1>2, AppendShortKeeps
  <1>3. CASE AppendSynced
    BY <1>3, AppendSyncedKeeps
  <1>4. CASE Open
    BY <1>4, OpenKeeps
  <1>5. CASE Crash
    BY <1>5, CrashKeeps
  <1>6. CASE AppendUnsynced \/ AppendClosed \/ Close \/ UNCHANGED vars
    BY <1>6, OtherStepsKeep
  <1>7. CASE OpenRefused
    BY <1>7, OtherStepsKeep DEF OpenRefused
  <1> QED BY <1>1, <1>2, <1>3, <1>4, <1>5, <1>6, <1>7 DEF Next

(* The strengthened invariant holds in every reachable state.              *)
THEOREM WALInvariant == Spec => []Inv
  BY InitHolds, NextKeeps, PTL DEF Spec

(* The file and the counters keep their types (wal.go, WAL and Record).    *)
THEOREM TypeCorrect == Spec => []TypeOK
  BY WALInvariant, PTL DEF Inv

(* Append numbers records so that the readable file is in strictly         *)
(* increasing order, across failures and restarts (WAL.sequence).          *)
THEOREM SequencesAlwaysIncrease == Spec => []SequencesIncrease
  BY WALInvariant, PTL DEF Inv

(* No acknowledged record is missing from a replay that reports success    *)
(* (Append's fsync before it returns, Replay's refusal of bad lines).      *)
THEOREM ReplayNeverLosesSilently == Spec => []NoSilentLoss
  <1>1. Inv => NoSilentLoss
    <2> SUFFICES ASSUME Inv, ReplayCompletes, NEW record \in acked
                 PROVE  \E i \in Delivered : Matches(Entries[i], record)
      BY DEF NoSilentLoss
    <2>1. PICK i \in 1..synced : Matches(lines[i], record)
      BY DEF Inv, AckedInFile
    <2>2. i \in 1..Len(lines) /\ Entries[i] = lines[i] /\ i \in 1..Len(Entries)
      BY EntriesAre DEF Inv, TypeOK
    <2> QED BY <2>1, <2>2 DEF ReplayCompletes
  <1> QED BY <1>1, WALInvariant, PTL
=============================================================================
