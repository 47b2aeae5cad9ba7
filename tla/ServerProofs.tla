---------------------------- MODULE ServerProofs ----------------------------
(* The slots of the searches and the promise of a compaction, for any      *)
(* number of requests, slots and tasks.                                    *)
EXTENDS Server, Positions, SequenceTheorems

Searching == {r \in Searches : pc[r] = "searching"}
Waiting == {r \in Searches : pc[r] = "waiting"}

(* A queue without repetition, and what is in it.                          *)
Holds(q, S) == q \in Seq(Searches) /\ IsInjective(q) /\ ToSet(q) = S

LEMMA HoldsNothing ==
    ASSUME NEW q, Holds(q, {})
    PROVE  q = <<>>
  <1>1. q \in Seq(Searches) /\ DOMAIN q = 1..Len(q) /\ Len(q) \in Nat
    BY DEF Holds
  <1>2. DOMAIN q = {}
    BY DEF Holds, ToSet
  <1>3. Len(q) = 0
    BY <1>1, <1>2
  <1> QED BY <1>1, <1>3, EmptySeq

LEMMA HoldsAppended ==
    ASSUME NEW q, NEW S, Holds(q, S), NEW r \in Searches, r \notin S
    PROVE  Holds(Append(q, r), S \cup {r})
  <1> DEFINE t == Append(q, r)
  <1>1. /\ q \in Seq(Searches) /\ Len(q) \in Nat /\ DOMAIN q = 1..Len(q)
        /\ \A i, j \in DOMAIN q : q[i] = q[j] => i = j
        /\ S = {q[i] : i \in DOMAIN q}
    BY DEF Holds, IsInjective, ToSet
  <1>2. /\ t \in Seq(Searches) /\ DOMAIN t = 1..(Len(q) + 1)
        /\ \A i \in DOMAIN q : t[i] = q[i]
        /\ t[Len(q) + 1] = r
    BY <1>1
  <1> HIDE DEF t
  <1>3. \A i \in DOMAIN t : i \in DOMAIN q \/ i = Len(q) + 1
    BY <1>1, <1>2
  <1>4. IsInjective(t)
    BY <1>1, <1>2, <1>3 DEF IsInjective
  <1>5. ToSet(t) = S \cup {r}
    BY <1>1, <1>2, <1>3 DEF ToSet
  <1> QED BY <1>2, <1>4, <1>5 DEF Holds, t

LEMMA HoldsRemoved ==
    ASSUME NEW q, NEW S, Holds(q, S), NEW i \in DOMAIN q
    PROVE  Holds(RemoveAt(q, i), S \ {q[i]})
  <1> DEFINE t == RemoveAt(q, i)
  <1>1. /\ q \in Seq(Searches) /\ Len(q) \in Nat /\ DOMAIN q = 1..Len(q)
        /\ \A j, k \in DOMAIN q : q[j] = q[k] => j = k
        /\ S = {q[j] : j \in DOMAIN q}
    BY DEF Holds, IsInjective, ToSet
  <1>2. /\ t \in Seq(Searches) /\ Len(t) = Len(q) - 1
        /\ \A j \in 1..Len(t) : t[j] = IF j < i THEN q[j] ELSE q[j + 1]
    <2> DEFINE front == SubSeq(q, 1, i - 1)
               back == SubSeq(q, i + 1, Len(q))
    <2>1. /\ front \in Seq(Searches) /\ Len(front) = i - 1
          /\ \A j \in 1..(i - 1) : front[j] = q[j]
      BY <1>1
    <2>2. /\ back \in Seq(Searches) /\ Len(back) = Len(q) - i
          /\ \A j \in 1..(Len(q) - i) : back[j] = q[i + j]
      BY <1>1
    <2>3. t = front \o back
      BY DEF RemoveAt
    <2> HIDE DEF front, back, t
    <2>4. /\ t \in Seq(Searches) /\ Len(t) = Len(front) + Len(back)
          /\ \A j \in 1..Len(t) : t[j] = IF j <= Len(front) THEN front[j]
                                       ELSE back[j - Len(front)]
      <3>1. front \in Seq(Searches) /\ back \in Seq(Searches)
        BY <2>1, <2>2
      <3>2. /\ front \o back \in Seq(Searches)
            /\ Len(front \o back) = Len(front) + Len(back)
            /\ \A j \in 1..(Len(front) + Len(back)) :
                 (front \o back)[j] = IF j <= Len(front) THEN front[j]
                                      ELSE back[j - Len(front)]
        BY <3>1, ConcatProperties, Zenon
      <3> QED BY <3>2, <2>3
    <2>5. ASSUME NEW j \in 1..Len(t), j >= i PROVE t[j] = q[j + 1]
      <3>1. j - (i - 1) \in 1..(Len(q) - i)
        BY <1>1, <2>1, <2>2, <2>4, <2>5
      <3>2. back[j - (i - 1)] = q[j + 1]
        BY <3>1, <2>2, <1>1
      <3> QED BY <3>2, <1>1, <2>1, <2>4, <2>5
    <2>6. ASSUME NEW j \in 1..Len(t), j < i PROVE t[j] = q[j]
      BY <1>1, <2>1, <2>4, <2>6
    <2> QED BY <1>1, <2>1, <2>2, <2>4, <2>5, <2>6
  <1>3. /\ t \in Seq(Searches) /\ DOMAIN t = 1..(Len(q) - 1)
        /\ \A j \in DOMAIN t : t[j] = IF j < i THEN q[j] ELSE q[j + 1]
    BY <1>2
  <1> HIDE DEF t
  <1>4. IsInjective(t)
    BY <1>1, <1>3 DEF IsInjective
  <1>5. ToSet(t) = S \ {q[i]}
    <2>1. ASSUME NEW j \in DOMAIN t PROVE t[j] \in S \ {q[i]}
      BY <2>1, <1>1, <1>3
    <2>2. ASSUME NEW x \in S \ {q[i]} PROVE \E j \in DOMAIN t : t[j] = x
      <3>1. PICK k \in DOMAIN q : q[k] = x /\ k # i
        BY <1>1
      <3>2. CASE k < i
        BY <3>1, <3>2, <1>1, <1>3
      <3>3. CASE k > i
        <4>1. k - 1 \in DOMAIN t /\ t[k - 1] = q[k]
          BY <3>3, <1>1, <1>3
        <4> QED BY <4>1, <3>1
      <3> QED BY <3>1, <3>2, <3>3, <1>1
    <2> QED BY <2>1, <2>2 DEF ToSet
  <1> QED BY <1>3, <1>4, <1>5 DEF Holds, t

LEMMA HoldsTail ==
    ASSUME NEW q, NEW S, Holds(q, S), q # <<>>
    PROVE  /\ Head(q) \in S
           /\ Holds(Tail(q), S \ {Head(q)})
  <1>1. /\ q \in Seq(Searches) /\ Len(q) \in Nat \ {0} /\ DOMAIN q = 1..Len(q)
        /\ \A j, k \in DOMAIN q : q[j] = q[k] => j = k
        /\ S = {q[j] : j \in DOMAIN q} /\ Head(q) = q[1]
    BY DEF Holds, IsInjective, ToSet
  <1> DEFINE t == Tail(q)
  <1>2. /\ t \in Seq(Searches) /\ DOMAIN t = 1..(Len(q) - 1)
        /\ \A j \in DOMAIN t : t[j] = q[j + 1]
    BY <1>1
  <1> HIDE DEF t
  <1>3. IsInjective(t)
    BY <1>1, <1>2 DEF IsInjective
  <1>4. ToSet(t) = S \ {Head(q)}
    <2>1. ASSUME NEW j \in DOMAIN t PROVE t[j] \in S \ {Head(q)}
      BY <2>1, <1>1, <1>2
    <2>2. ASSUME NEW x \in S \ {Head(q)} PROVE \E j \in DOMAIN t : t[j] = x
      <3>1. PICK k \in DOMAIN q : q[k] = x /\ k # 1
        BY <1>1
      <3>2. k - 1 \in DOMAIN t /\ t[k - 1] = q[k]
        BY <3>1, <1>1, <1>2
      <3> QED BY <3>1, <3>2
    <2> QED BY <2>1, <2>2 DEF ToSet
  <1> QED BY <1>1, <1>2, <1>3, <1>4 DEF Holds, t
-----------------------------------------------------------------------------
(* No request is anywhere while no server is up, which is when the number  *)
(* of slots is set.                                                        *)
SlotsInv ==
    /\ pc \in [Searches -> {"idle", "arrived", "waiting", "searching"}]
    /\ Holds(queue, Waiting)
    /\ slots = Cardinality(Searching)
    /\ queue # <<>> => slots = capacity
    /\ life \notin {"up", "draining"} => \A r \in Searches : pc[r] = "idle"

LEMMA SlotsCount ==
    ASSUME ServerAssumption, SlotsInv
    PROVE  /\ IsFiniteSet(Searching) /\ slots \in Nat
           /\ \A r \in Searching : Cardinality(Searching \ {r}) = slots - 1
           /\ \A r \in Searches \ Searching : Cardinality(Searching \cup {r}) = slots + 1
  <1>1. IsFiniteSet(Searching)
    BY FS_Subset DEF ServerAssumption, Searching
  <1> QED BY <1>1, FS_CardinalityType, FS_AddElement, FS_RemoveElement DEF SlotsInv

LEMMA HandleKeeps ==
    ASSUME ServerAssumption, SlotsInv, NEW r \in Searches, Handle(r)
    PROVE  SlotsInv'
  <1>1. CASE Take(r)
    <2>1. /\ pc' = [pc EXCEPT ![r] = "searching"] /\ pc[r] = "arrived"
          /\ slots < capacity /\ slots' = slots + 1
          /\ UNCHANGED <<queue, life, capacity>>
      BY <1>1 DEF Take, processVars
    <2>2. Searching' = Searching \cup {r} /\ Waiting' = Waiting /\ r \notin Searching
      BY <2>1 DEF SlotsInv, Searching, Waiting
    <2>3. slots \in Nat /\ slots' = Cardinality(Searching')
      BY <2>1, <2>2, SlotsCount
    <2>4. queue = <<>>
      BY <2>1, <2>3 DEF SlotsInv
    <2> QED BY <2>1, <2>2, <2>3, <2>4 DEF SlotsInv
  <1>2. CASE Wait(r)
    <2>1. /\ pc' = [pc EXCEPT ![r] = "waiting"] /\ pc[r] = "arrived"
          /\ slots = capacity /\ queue' = Append(queue, r)
          /\ UNCHANGED <<slots, life, capacity>>
      BY <1>2 DEF Wait, processVars
    <2>2. Searching' = Searching /\ Waiting' = Waiting \cup {r} /\ r \notin Waiting
      BY <2>1 DEF SlotsInv, Searching, Waiting
    <2>3. Holds(queue, Waiting)' 
      BY <2>1, <2>2, HoldsAppended DEF SlotsInv
    <2> QED BY <2>1, <2>2, <2>3 DEF SlotsInv
  <1>3. CASE Cancelled(r)
    <2>1. /\ pc' = [pc EXCEPT ![r] = "idle"] /\ UNCHANGED <<slots, life, capacity>>
          /\ Dequeue(r)
      BY <1>3 DEF Cancelled, Answered, processVars
    <2>2. CASE pc[r] = "arrived" /\ UNCHANGED queue
      <3>1. Searching' = Searching /\ Waiting' = Waiting
        BY <2>1, <2>2 DEF SlotsInv, Searching, Waiting
      <3> QED BY <2>1, <2>2, <3>1 DEF SlotsInv
    <2>3. ASSUME pc[r] = "waiting", NEW i \in DOMAIN queue,
                 queue[i] = r, queue' = RemoveAt(queue, i)
          PROVE  SlotsInv'
      <3>1. Searching' = Searching /\ Waiting' = Waiting \ {r}
        BY <2>1, <2>3 DEF SlotsInv, Searching, Waiting
      <3>2. Holds(queue, Waiting)'
        BY <2>3, <3>1, HoldsRemoved DEF SlotsInv
      <3>3. queue # <<>>
        BY <2>3
      <3> QED BY <2>1, <3>1, <3>2, <3>3 DEF SlotsInv
    <2> QED BY <2>1, <2>2, <2>3 DEF Dequeue
  <1>4. CASE Finish(r)
    <2>1. pc[r] = "searching" /\ UNCHANGED <<life, capacity>>
      BY <1>4 DEF Finish, Answered, processVars
    <2>2. r \in Searching
      BY <2>1 DEF Searching
    <2>3. CASE /\ queue = <<>> /\ pc' = [pc EXCEPT ![r] = "idle"]
               /\ slots' = slots - 1 /\ UNCHANGED queue
      <3>1. Searching' = Searching \ {r} /\ Waiting' = Waiting
        BY <2>1, <2>3 DEF SlotsInv, Searching, Waiting
      <3>2. slots' = Cardinality(Searching')
        BY <2>2, <2>3, <3>1, SlotsCount
      <3> QED BY <2>1, <2>3, <3>1, <3>2 DEF SlotsInv
    <2>4. CASE /\ queue # <<>>
               /\ pc' = [pc EXCEPT ![r] = "idle", ![Head(queue)] = "searching"]
               /\ queue' = Tail(queue) /\ UNCHANGED slots
      <3> DEFINE h == Head(queue)
      <3>1. h \in Waiting /\ Holds(queue', Waiting \ {h})
        BY <2>4, HoldsTail DEF SlotsInv
      <3>2. h \in Searches /\ pc[h] = "waiting" /\ h # r /\ h \notin Searching
        BY <2>1, <3>1 DEF Waiting, Searching
      <3>3. pc' = [[pc EXCEPT ![r] = "idle"] EXCEPT ![h] = "searching"]
        BY <2>4
      <3> HIDE DEF h
      <3>4. Searching' = (Searching \ {r}) \cup {h} /\ Waiting' = Waiting \ {h}
        BY <2>1, <3>2, <3>3 DEF SlotsInv, Searching, Waiting
      <3>5. Cardinality(Searching') = slots
        <4>1. IsFiniteSet(Searching \ {r}) /\ Cardinality(Searching \ {r}) = slots - 1
          BY <2>2, SlotsCount, FS_RemoveElement
        <4>2. Cardinality((Searching \ {r}) \cup {h}) = slots - 1 + 1
          BY <4>1, <3>2, FS_AddElement
        <4> QED BY <4>2, <3>4, SlotsCount
      <3>6. pc' \in [Searches -> {"idle", "arrived", "waiting", "searching"}]
        BY <3>2, <3>3 DEF SlotsInv
      <3>7. slots' = capacity'
        BY <2>1, <2>4 DEF SlotsInv
      <3>8. life' \in {"up", "draining"}
        BY <2>1 DEF SlotsInv
      <3> QED BY <2>4, <3>1, <3>4, <3>5, <3>6, <3>7, <3>8 DEF SlotsInv
    <2> QED BY <1>4, <2>3, <2>4 DEF Finish
  <1> QED BY <1>1, <1>2, <1>3, <1>4 DEF Handle

LEMMA SlotsInvKept ==
    ASSUME ServerAssumption, SlotsInv, [Next]_vars
    PROVE  SlotsInv'
  <1>1. CASE UNCHANGED <<life, capacity, searchVars>>
    BY <1>1 DEF SlotsInv, searchVars, Searching, Waiting
  <1>2. ASSUME NEW file \in Files, NEW env \in Envs, life = "down", Configure(file, env)
        PROVE  SlotsInv'
    BY <1>2 DEF Configure, SlotsInv, searchVars, Searching, Waiting
  <1>3. CASE Start
    <2>1. Waiting = {}
      BY <1>3 DEF Start, SlotsInv, Waiting
    <2>2. queue = <<>>
      BY <2>1, HoldsNothing DEF SlotsInv
    <2> QED BY <1>3, <2>2 DEF Start, SlotsInv, searchVars, Searching, Waiting
  <1>4. CASE Signal
    BY <1>4 DEF Signal, SlotsInv, searchVars, Searching, Waiting
  <1>5. CASE Exit
    <2>1. Searching' = {} /\ Waiting' = {}
      BY <1>5 DEF Exit, Searching, Waiting
    <2>2. Holds(queue, Waiting)'
      BY <1>5, <2>1 DEF Exit, Holds, IsInjective, ToSet
    <2> QED BY <1>5, <2>1, <2>2, FS_EmptySet DEF Exit, SlotsInv
  <1>6. ASSUME NEW r \in Searches, Arrive(r) PROVE SlotsInv'
    <2>1. Searching' = Searching /\ Waiting' = Waiting
      BY <1>6 DEF Arrive, SlotsInv, Searching, Waiting
    <2> QED BY <1>6, <2>1 DEF Arrive, SlotsInv, processVars
  <1>7. ASSUME NEW r \in Searches, Leave(r) PROVE SlotsInv'
    BY <1>7 DEF Leave, SlotsInv, processVars, Searching, Waiting
  <1>8. CASE Write \/ Delete \/ (\E t \in TaskIds : ScheduleCompact(t) \/ RunCompact(t))
    BY <1>1, <1>8 DEF Write, Delete, ScheduleCompact, RunCompact, Running, FlushBuffer, Succeeded,
                      Task, processVars
  <1>9. CASE SearchBeside \/ UNCHANGED vars
    BY <1>1, <1>9 DEF SearchBeside, vars, processVars
  <1> QED BY <1>2, <1>3, <1>4, <1>5, <1>6, <1>7, <1>8, <1>9, HandleKeeps DEF Next

(* However searches arrive, wait, end and are given up, slots are neither  *)
(* lost nor made (Server.search, searchSlots).                             *)
THEOREM SlotsAreNeverLost == Spec => []SlotsAreHeld
  <1>1. Init => SlotsInv
    <2> SUFFICES ASSUME Init PROVE SlotsInv
      OBVIOUS
    <2>1. Searching = {} /\ Waiting = {} /\ Holds(queue, Waiting)
      BY DEF Init, Searching, Waiting, Holds, IsInjective, ToSet
    <2> QED BY <2>1, FS_EmptySet DEF Init, SlotsInv
  <1>2. SlotsInv /\ [Next]_vars => SlotsInv'
    BY SlotsInvKept, ServerAssumption
  <1>3. SlotsInv => SlotsAreHeld
    BY DEF SlotsInv, SlotsAreHeld, Holds, Searching, Waiting
  <1> QED BY <1>1, <1>2, <1>3, PTL DEF Spec
-----------------------------------------------------------------------------
(* A task's state follows its goroutine, and nothing is owed to a task     *)
(* that has not started or has flushed.                                    *)
TasksInv ==
    /\ runner \in [TaskIds -> {"none", "started", "running", "flushed", "ended"}]
    /\ tasks \in [TaskIds -> {"none", "pending", "running", "succeeded"}]
    /\ \A t \in TaskIds :
         /\ tasks[t] = "succeeded" => runner[t] = "ended"
         /\ t \in owed => runner[t] \in {"started", "running"}

LEMMA TasksInvKept ==
    ASSUME TasksInv, [Next]_vars
    PROVE  TasksInv'
  <1>1. CASE UNCHANGED taskVars
    BY <1>1 DEF TasksInv, taskVars
  <1>2. CASE Exit
    BY <1>2 DEF Exit, TasksInv
  <1>3. CASE Write \/ Delete
    BY <1>3 DEF Write, Delete, Fill, Seal, Keep, TasksInv
  <1>4. ASSUME NEW t \in TaskIds, ScheduleCompact(t) PROVE TasksInv'
    BY <1>4 DEF ScheduleCompact, Task, TasksInv
  <1>5. ASSUME NEW t \in TaskIds, Running(t) PROVE TasksInv'
    BY <1>5 DEF Running, Task, TasksInv
  <1>6. ASSUME NEW t \in TaskIds, FlushBuffer(t) PROVE TasksInv'
    <2>1. tasks' = tasks
      BY <1>6 DEF FlushBuffer, Task, TasksInv
    <2>2. tasks[t] # "succeeded"
      BY <1>6 DEF FlushBuffer, TasksInv
    <2> QED BY <1>6, <2>1, <2>2 DEF FlushBuffer, Seal, Task, TasksInv
  <1>7. ASSUME NEW t \in TaskIds, Succeeded(t) PROVE TasksInv'
    BY <1>7 DEF Succeeded, Task, TasksInv
  <1>8. CASE \/ \E file \in Files, env \in Envs : Configure(file, env)
             \/ Start \/ Signal
             \/ \E r \in Searches : Arrive(r) \/ Leave(r) \/ Handle(r)
             \/ SearchBeside \/ UNCHANGED vars
    <2>1. UNCHANGED taskVars
      BY <1>8 DEF Configure, Start, Signal, Arrive, Leave, Handle, Take, Wait, Cancelled,
                  Finish, Answered, SearchBeside, vars
    <2> QED BY <1>1, <2>1
  <1> QED BY <1>2, <1>3, <1>4, <1>5, <1>6, <1>7, <1>8 DEF Next, RunCompact

(* A task that says it has succeeded has sealed what was written before    *)
(* it, however many compactions overlap (Service.runCompact).              *)
THEOREM SuccessMeansSealed == Spec => []SucceededTaskSealed
  <1>1. Init => TasksInv
    BY DEF Init, TasksInv
  <1>2. TasksInv /\ [Next]_vars => TasksInv'
    BY TasksInvKept
  <1>3. TasksInv => SucceededTaskSealed
    BY DEF TasksInv, SucceededTaskSealed
  <1> QED BY <1>1, <1>2, <1>3, PTL DEF Spec
-----------------------------------------------------------------------------
(* The states of Load's loop over the first n lines.                       *)
Fresh == [ok |-> TRUE, section |-> "", config |-> Default]

IsRun(file, n, g) ==
    g = [k \in 0..n |-> IF k = 0 THEN Fresh ELSE ReadLine(g[k - 1], file[k])]

LEMMA RunExtends ==
    ASSUME NEW file, NEW n \in Nat, NEW g, IsRun(file, n, g)
    PROVE  \E h : IsRun(file, n + 1, h)
  <1> DEFINE last == ReadLine(g[n], file[n + 1])
             h == [k \in 0..(n + 1) |-> IF k = n + 1 THEN last ELSE g[k]]
  <1>1. \A k \in 0..n : g[k] = IF k = 0 THEN Fresh ELSE ReadLine(g[k - 1], file[k])
    <2>1. g = [k \in 0..n |-> IF k = 0 THEN Fresh ELSE ReadLine(g[k - 1], file[k])]
      BY DEF IsRun
    <2> QED BY <2>1, Zenon
  <1>2. ASSUME NEW k \in 0..(n + 1)
        PROVE  h[k] = IF k = 0 THEN Fresh ELSE ReadLine(h[k - 1], file[k])
    <2>1. CASE k = n + 1
      <3>1. k # 0 /\ k - 1 = n /\ n \in 0..(n + 1) /\ n # n + 1
        BY <2>1
      <3>2. h[n] = g[n] /\ h[k] = last
        BY <2>1, <3>1
      <3> HIDE DEF h
      <3> QED BY <2>1, <3>1, <3>2
    <2>2. CASE k # n + 1 /\ k # 0
      <3>1. k \in 0..n /\ k - 1 \in 0..n /\ k - 1 \in 0..(n + 1) /\ k - 1 # n + 1
        BY <2>2
      <3>2. h[k] = g[k] /\ h[k - 1] = g[k - 1]
        BY <2>2, <3>1
      <3> HIDE DEF h
      <3> QED BY <1>1, <2>2, <3>1, <3>2
    <2>3. CASE k = 0
      <3>1. 0 \in 0..n /\ 0 # n + 1
        OBVIOUS
      <3> QED BY <1>1, <2>3, <3>1
    <2> QED BY <2>1, <2>2, <2>3
  <1>3. h = [k \in 0..(n + 1) |-> h[k]]
    OBVIOUS
  <1> HIDE DEF h
  <1>4. h = [k \in 0..(n + 1) |-> IF k = 0 THEN Fresh ELSE ReadLine(h[k - 1], file[k])]
    BY <1>2, <1>3
  <1> QED BY <1>4 DEF IsRun

LEMMA ReadFileRuns ==
    ASSUME NEW file, Len(file) \in Nat
    PROVE  \E g : IsRun(file, Len(file), g) /\ ReadFile(file) = g[Len(file)]
  <1> DEFINE T == {n \in Nat : \E g : IsRun(file, n, g)}
  <1>1. 0 \in T
    <2> DEFINE g == [k \in 0..0 |-> Fresh]
    <2>1. g = [k \in 0..0 |-> IF k = 0 THEN Fresh ELSE ReadLine(g[k - 1], file[k])]
      OBVIOUS
    <2>2. IsRun(file, 0, g)
      BY <2>1 DEF IsRun
    <2> QED BY <2>2
  <1>2. \A n \in Nat : n \in T => n + 1 \in T
    BY RunExtends
  <1>3. PICK g : IsRun(file, Len(file), g)
    <2> HIDE DEF T
    <2>1. Len(file) \in T
      BY <1>1, <1>2, ByInduction
    <2> QED BY <2>1 DEF T
  <1> DEFINE h == CHOOSE f : f = [k \in 0..Len(file) |->
                                   IF k = 0 THEN Fresh ELSE ReadLine(f[k - 1], file[k])]
  <1>4. IsRun(file, Len(file), h)
    BY <1>3, Zenon DEF IsRun
  <1>5. ReadFile(file) = h[Len(file)]
    BY DEF ReadFile, Fresh
  <1> QED BY <1>4, <1>5

(* What the first n lines of a file say.                                   *)
Naming(file, n, s) ==
    {i \in 1..n : /\ <<Section(file, i), file[i].name>> = s
                  /\ file[i].value # Empty
                  /\ s \in Parsed => file[i].value \notin Junk[s]}

SaidBy(file, n) ==
    [s \in Settings |-> IF Naming(file, n, s) = {} THEN Default[s]
                        ELSE file[Max(Naming(file, n, s))].value]

Reads(file, n, state) ==
    IF \A i \in 1..n : file[i] # Garbled
    THEN state = [ok |-> TRUE, section |-> Section(file, n + 1), config |-> SaidBy(file, n)]
    ELSE ~state.ok

LEMMA SectionNext ==
    ASSUME NEW file, NEW n \in Nat
    PROVE  Section(file, n + 2) = IF file[n + 1].value = Empty THEN file[n + 1].name
                                  ELSE Section(file, n + 1)
  <1> DEFINE H(i) == {j \in 1..(i - 1) : file[j].value = Empty}
  <1>1. H(n + 1) = {j \in 1..n : file[j].value = Empty} /\ H(n + 1) \subseteq 1..n
    OBVIOUS
  <1>2. CASE file[n + 1].value = Empty
    <2>1. H(n + 2) = H(n + 1) \cup {n + 1}
      BY <1>2
    <2>2. Max(H(n + 1) \cup {n + 1}) = n + 1
      <3> HIDE DEF H
      <3> QED BY <1>1, NewLargestPosition
    <2>3. H(n + 2) # {} /\ Max(H(n + 2)) = n + 1
      BY <2>1, <2>2, Zenon
    <2>4. Section(file, n + 2) = IF H(n + 2) = {} THEN "" ELSE file[Max(H(n + 2))].name
      BY DEF Section
    <2> HIDE DEF H
    <2> QED BY <1>2, <2>3, <2>4
  <1>3. CASE file[n + 1].value # Empty
    <2>1. H(n + 2) = H(n + 1)
      BY <1>3
    <2>2. Section(file, n + 2) = IF H(n + 2) = {} THEN "" ELSE file[Max(H(n + 2))].name
      BY DEF Section
    <2>3. Section(file, n + 1) = IF H(n + 1) = {} THEN "" ELSE file[Max(H(n + 1))].name
      BY DEF Section
    <2> HIDE DEF H
    <2> QED BY <1>3, <2>1, <2>2, <2>3
  <1> QED BY <1>2, <1>3

LEMMA SaidNext ==
    ASSUME NEW file, NEW n \in Nat, ConfigAssumption
    PROVE  SaidBy(file, n + 1) =
             IF file[n + 1].value = Empty THEN SaidBy(file, n)
             ELSE Apply(SaidBy(file, n), <<Section(file, n + 1), file[n + 1].name>>,
                        file[n + 1].value)
  <1> DEFINE setting == <<Section(file, n + 1), file[n + 1].name>>
             value == file[n + 1].value
             counts(s) == /\ setting = s /\ value # Empty
                          /\ s \in Parsed => value \notin Junk[s]
             said(m, s) == IF Naming(file, m, s) = {} THEN Default[s]
                           ELSE file[Max(Naming(file, m, s))].value
  <1>1. ASSUME NEW s \in Settings
        PROVE  said(n + 1, s) = IF counts(s) THEN value ELSE said(n, s)
    <2>1. Naming(file, n, s) \subseteq 1..n
      BY DEF Naming
    <2>2. n + 1 \in 1..(n + 1) /\ \A i \in 1..(n + 1) : i \in 1..n \/ i = n + 1
      OBVIOUS
    <2>3. CASE counts(s)
      <3>1. Naming(file, n + 1, s) = Naming(file, n, s) \cup {n + 1}
        BY <2>2, <2>3 DEF Naming
      <3>2. Max(Naming(file, n + 1, s)) = n + 1
        BY <2>1, <3>1, NewLargestPosition
      <3>3. Naming(file, n + 1, s) # {}
        BY <3>1
      <3> QED BY <2>3, <3>2, <3>3
    <2>4. CASE ~counts(s)
      <3>1. Naming(file, n + 1, s) = Naming(file, n, s)
        BY <2>2, <2>4 DEF Naming
      <3> QED BY <2>4, <3>1
    <2> QED BY <2>3, <2>4
  <1>2. /\ SaidBy(file, n + 1) = [s \in Settings |-> said(n + 1, s)]
        /\ SaidBy(file, n) = [s \in Settings |-> said(n, s)]
    BY DEF SaidBy
  <1> HIDE DEF said
  <1>3. SaidBy(file, n + 1) = [s \in Settings |-> IF counts(s) THEN value ELSE said(n, s)]
    BY <1>1, <1>2
  <1> HIDE DEF setting, value
  <1>4. CASE value = Empty
    BY <1>2, <1>3, <1>4 DEF value
  <1>5. CASE value # Empty
    <2>1. SaidBy(file, n + 1) = Apply(SaidBy(file, n), setting, value)
      BY <1>2, <1>3, <1>5 DEF Apply
    <2> QED BY <1>5, <2>1 DEF setting, value
  <1> QED BY <1>4, <1>5

LEMMA LineReads ==
    ASSUME NEW file, NEW n \in Nat, NEW state, Reads(file, n, state), ConfigAssumption
    PROVE  Reads(file, n + 1, ReadLine(state, file[n + 1]))
  <1> DEFINE line == file[n + 1]
  <1>1. \A i : i \in 1..(n + 1) <=> i \in 1..n \/ i = n + 1
    OBVIOUS
  <1>2. CASE \E i \in 1..n : file[i] = Garbled
    BY <1>1, <1>2 DEF Reads, ReadLine
  <1>3. CASE (\A i \in 1..n : file[i] # Garbled) /\ line = Garbled
    BY <1>1, <1>3 DEF Reads, ReadLine
  <1>4. CASE (\A i \in 1..n : file[i] # Garbled) /\ line # Garbled
    <2>1. state = [ok |-> TRUE, section |-> Section(file, n + 1), config |-> SaidBy(file, n)]
      BY <1>4 DEF Reads
    <2>2. n + 1 + 1 = n + 2
      OBVIOUS
    <2>3. ReadLine(state, line) = [ok |-> TRUE, section |-> Section(file, n + 2),
                                   config |-> SaidBy(file, n + 1)]
      BY <1>4, <2>1, SectionNext, SaidNext DEF ReadLine
    <2> QED BY <1>1, <1>4, <2>2, <2>3 DEF Reads
  <1> QED BY <1>2, <1>3, <1>4

LEMMA FileReads ==
    ASSUME NEW file, Len(file) \in Nat, ConfigAssumption
    PROVE  Reads(file, Len(file), ReadFile(file))
  <1>1. PICK g : IsRun(file, Len(file), g) /\ ReadFile(file) = g[Len(file)]
    BY ReadFileRuns
  <1>2. \A k \in 0..Len(file) : g[k] = IF k = 0 THEN Fresh ELSE ReadLine(g[k - 1], file[k])
    <2>1. g = [k \in 0..Len(file) |-> IF k = 0 THEN Fresh ELSE ReadLine(g[k - 1], file[k])]
      BY <1>1 DEF IsRun
    <2> QED BY <2>1, Zenon
  <1> DEFINE T == {n \in Nat : n <= Len(file) => Reads(file, n, g[n])}
  <1>3. 0 \in T
    <2>1. g[0] = Fresh
      BY <1>2
    <2>2. \A s : Naming(file, 0, s) = {}
      BY DEF Naming
    <2>3. SaidBy(file, 0) = Default
      BY <2>2 DEF SaidBy, ConfigAssumption, Settings
    <2>4. Section(file, 0 + 1) = ""
      BY DEF Section
    <2>5. \A i \in 1..0 : file[i] # Garbled
      OBVIOUS
    <2>6. Fresh = [ok |-> TRUE, section |-> Section(file, 0 + 1), config |-> SaidBy(file, 0)]
      BY <2>3, <2>4, Zenon DEF Fresh
    <2>7. Reads(file, 0, Fresh)
      BY <2>5, <2>6, Zenon DEF Reads
    <2> QED BY <2>1, <2>7
  <1>4. ASSUME NEW n \in Nat, n \in T PROVE n + 1 \in T
    <2> SUFFICES ASSUME n + 1 <= Len(file) PROVE Reads(file, n + 1, g[n + 1])
      OBVIOUS
    <2>1. Reads(file, n, g[n])
      BY <1>4
    <2>2. n + 1 \in 0..Len(file) /\ n + 1 # 0 /\ (n + 1) - 1 = n
      OBVIOUS
    <2>3. g[n + 1] = ReadLine(g[n], file[n + 1])
      BY <1>2, <2>2
    <2> QED BY <2>1, <2>3, LineReads
  <1>5. Len(file) \in T
    <2> HIDE DEF T
    <2> QED BY <1>3, <1>4, ByInduction
  <1> QED BY <1>1, <1>5

(* A file that Load accepts is read as its reader intends.                 *)
LEMMA LoadsWhatIsIntended ==
    ASSUME ConfigAssumption, NEW file, NEW env, Len(file) \in Nat, DOMAIN file = 1..Len(file),
           Load(file, env) # Refused
    PROVE  /\ Load(file, env) = Intended(file, env) /\ Validate(Load(file, env))
           /\ \A i \in 1..Len(file) : file[i] # Garbled
  <1> DEFINE read == ReadFile(file)
             config0 == ApplyEnv(read.config, env)
  <1>1. read.ok /\ Validate(config0) /\ Load(file, env) = config0
    BY DEF Load
  <1>2. /\ read.config = SaidBy(file, Len(file))
        /\ \A i \in 1..Len(file) : file[i] # Garbled
    BY <1>1, FileReads DEF Reads
  <1>3. config0 = [s \in Settings |-> IF s \in FromEnv /\ env[s] # Unset THEN env[s]
                                      ELSE SaidBy(file, Len(file))[s]]
    BY <1>2 DEF ApplyEnv
  <1>4. config0 = [s \in Settings |->
                     IF s \in FromEnv /\ env[s] # Unset THEN env[s]
                     ELSE IF Naming(file, Len(file), s) = {} THEN Default[s]
                     ELSE file[Max(Naming(file, Len(file), s))].value]
    BY <1>3 DEF SaidBy
  <1>5. config0 = Intended(file, env)
    BY <1>4 DEF Intended, Naming
  <1> QED BY <1>1, <1>2, <1>5

Concurrency == <<"limits", "search_concurrency">>

(* Whatever was accepted, the channel made from it has room for a search:  *)
(* a limit is never a value that did not parse.                            *)
LEMMA RoomForASearch ==
    ASSUME ConfigAssumption, NEW file \in Seq(Line), NEW env, Load(file, env) # Refused
    PROVE  Load(file, env)[Concurrency] \in Nat \ {0}
  <1>1. DOMAIN file = 1..Len(file) /\ Len(file) \in Nat /\ \A i \in 1..Len(file) : file[i] \in Line
    OBVIOUS
  <1>2. /\ Load(file, env) = Intended(file, env) /\ Validate(Load(file, env))
        /\ \A i \in 1..Len(file) : file[i] # Garbled
    BY <1>1, LoadsWhatIsIntended
  <1> DEFINE named == Naming(file, Len(file), Concurrency)
  <1>3. /\ Concurrency \in Limits /\ Concurrency \in Settings /\ Concurrency \in Parsed
        /\ Concurrency \notin FromEnv
    BY DEF Concurrency, Limits, ConfigAssumption
  <1>4. Intended(file, env)[Concurrency] =
          IF named = {} THEN Default[Concurrency] ELSE file[Max(named)].value
    BY <1>1, <1>3 DEF Intended, Naming
  <1>5. Intended(file, env)[Concurrency] \in Int
    <2>1. CASE named = {}
      BY <1>3, <1>4, <2>1 DEF ConfigAssumption
    <2>2. CASE named # {}
      <3>1. named \subseteq 1..Len(file)
        BY DEF Naming
      <3> DEFINE last == Max(named)
      <3>2. last \in named
        <4> HIDE DEF named
        <4> QED BY <1>1, <2>2, <3>1, LargestPosition
      <3>3. last \in 1..Len(file)
        BY <3>1, <3>2
      <3>4. file[last].value # Empty /\ file[last].value \notin Junk[Concurrency]
        BY <1>3, <3>2 DEF Naming
      <3> HIDE DEF last
      <3>5. file[last] \in [name: Names, value: Values \cup {Empty}]
        BY <1>1, <1>2, <3>3 DEF Line
      <3>6. file[last].value \in Values \ Junk[Concurrency]
        BY <3>4, <3>5
      <3>7. Values \ Junk[Concurrency] \subseteq Int
        BY <1>3 DEF ConfigAssumption
      <3> QED BY <1>4, <2>2, <3>6, <3>7 DEF last
    <2> QED BY <2>1, <2>2
  <1>6. Load(file, env)[Concurrency] >= 1
    BY <1>2, <1>3 DEF Validate
  <1> QED BY <1>2, <1>5, <1>6

(* What is loaded is there until the server is built from it, and only a   *)
(* server that was built has slots.                                        *)
ConfigInv ==
    /\ life \in {"down", "loaded", "up", "draining"}
    /\ life # "loaded" => config = Refused
    /\ life = "loaded" => /\ source[1] \in Files /\ source[2] \in Envs
                          /\ config = Load(source[1], source[2]) /\ config # Refused
    /\ capacity \in Nat
    /\ life \in {"up", "draining"} <=> capacity > 0

LEMMA ConfigInvKept ==
    ASSUME ConfigAssumption, ServerAssumption, ConfigInv, [Next]_vars
    PROVE  ConfigInv'
  <1>1. CASE UNCHANGED processVars
    BY <1>1 DEF ConfigInv, processVars
  <1>2. ASSUME NEW file \in Files, NEW env \in Envs, life = "down", Configure(file, env)
        PROVE  ConfigInv'
    BY <1>2 DEF Configure, ConfigInv
  <1>3. CASE Start
    <2>1. /\ source[1] \in Seq(Line) /\ Load(source[1], source[2]) # Refused
          /\ capacity' = Load(source[1], source[2])[Concurrency]
      BY <1>3 DEF Start, ConfigInv, ServerAssumption, Concurrency
    <2>2. capacity' \in Nat \ {0}
      BY <2>1, RoomForASearch
    <2> QED BY <1>3, <2>2 DEF Start, ConfigInv
  <1>4. CASE Signal
    BY <1>4 DEF Signal, ConfigInv
  <1>5. CASE Exit
    BY <1>5 DEF Exit, ConfigInv
  <1>6. CASE \/ \E r \in Searches : Arrive(r) \/ Leave(r) \/ Handle(r)
             \/ SearchBeside \/ Write \/ Delete
             \/ \E t \in TaskIds : ScheduleCompact(t) \/ RunCompact(t)
             \/ UNCHANGED vars
    <2>1. UNCHANGED processVars
      BY <1>6 DEF Arrive, Leave, Handle, Take, Wait, Cancelled, Finish, Answered,
                  SearchBeside, Write, Delete, ScheduleCompact, RunCompact, Running,
                  FlushBuffer, Succeeded, Task, vars
    <2> QED BY <1>1, <2>1
  <1> QED BY <1>2, <1>3, <1>4, <1>5, <1>6 DEF Next

(* A configuration that searchd accepts is the one its file and its        *)
(* environment ask for, setting by setting (config.Load).                  *)
THEOREM SettingsAreThoseIntended == Spec => []SettingsComeFrom
  <1>1. Init => ConfigInv
    BY DEF Init, ConfigInv
  <1>2. ConfigInv /\ [Next]_vars => ConfigInv'
    BY ConfigInvKept, ConfigAssumption, ServerAssumption
  <1>3. ConfigInv => SettingsComeFrom
    <2> SUFFICES ASSUME ConfigInv, life = "loaded"
                 PROVE  config = Intended(source[1], source[2])
      BY DEF SettingsComeFrom
    <2>1. /\ source[1] \in Seq(Line) /\ Load(source[1], source[2]) # Refused
          /\ config = Load(source[1], source[2])
      BY ServerAssumption DEF ConfigInv, ServerAssumption
    <2>2. DOMAIN source[1] = 1..Len(source[1]) /\ Len(source[1]) \in Nat
      BY <2>1
    <2> QED BY <2>1, <2>2, LoadsWhatIsIntended, ConfigAssumption
  <1> QED BY <1>1, <1>2, <1>3, PTL DEF Spec
-----------------------------------------------------------------------------
(* A channel never holds more than its capacity, a client leaves only what *)
(* it asked, and a document is buffered or sealed, once.                   *)
BoundsInv ==
    /\ slots \in 0..capacity /\ gone \subseteq Searches
    /\ buffered \in Nat /\ sealed \in Nat /\ buffered + sealed <= Documents
    /\ owed \subseteq TaskIds

LEMMA BoundsInvKept ==
    ASSUME ServerAssumption, SlotsInv, ConfigInv, ConfigInv', BoundsInv, [Next]_vars
    PROVE  BoundsInv'
  <1> USE DEF BoundsInv
  <1>1. CASE UNCHANGED <<capacity, slots, gone, buffered, sealed, owed>>
    BY <1>1
  <1>2. ASSUME NEW file \in Files, NEW env \in Envs, life = "down", Configure(file, env)
        PROVE  BoundsInv'
    BY <1>1, <1>2 DEF Configure, searchVars, taskVars
  <1>3. CASE Start
    <2>1. Searching = {} /\ slots = 0
      BY <1>3, FS_EmptySet DEF Start, SlotsInv, Searching
    <2> QED BY <1>3, <2>1 DEF Start, ConfigInv, searchVars, taskVars
  <1>4. CASE Signal
    BY <1>4 DEF Signal, searchVars, taskVars
  <1>5. CASE Exit
    BY <1>5 DEF Exit, ServerAssumption
  <1>6. ASSUME NEW r \in Searches, Arrive(r) \/ Leave(r) PROVE BoundsInv'
    BY <1>6 DEF Arrive, Leave, processVars, taskVars
  <1>7. ASSUME NEW r \in Searches, Take(r) \/ Wait(r) \/ Cancelled(r) PROVE BoundsInv'
    BY <1>7 DEF Take, Wait, Cancelled, Answered, ConfigInv, processVars, taskVars
  <1>8. ASSUME NEW r \in Searches, Finish(r) PROVE BoundsInv'
    <2>1. r \in Searching
      BY <1>8 DEF Finish, Searching
    <2>2. slots - 1 \in 0..capacity
      <3>1. Searching # {} /\ slots = Cardinality(Searching) /\ IsFiniteSet(Searching)
        BY <2>1, SlotsCount DEF SlotsInv
      <3>2. slots # 0
        BY <3>1, FS_EmptySet
      <3> QED BY <3>2 DEF ConfigInv
    <2> QED BY <1>8, <2>2 DEF Finish, Answered, processVars, taskVars
  <1>9. CASE Write \/ Delete
    BY <1>9 DEF Write, Delete, Fill, Seal, Keep, ServerAssumption, processVars, searchVars
  <1>10. ASSUME NEW t \in TaskIds, ScheduleCompact(t) \/ RunCompact(t) PROVE BoundsInv'
    BY <1>10 DEF ScheduleCompact, RunCompact, Running, FlushBuffer, Succeeded, Seal, Task,
                 ServerAssumption, processVars, searchVars
  <1>11. CASE SearchBeside \/ UNCHANGED vars
    BY <1>11 DEF SearchBeside, vars, processVars, searchVars, taskVars
  <1> QED BY <1>2, <1>3, <1>4, <1>5, <1>6, <1>7, <1>8, <1>9, <1>10, <1>11 DEF Next, Handle

(* Under every configuration that is accepted a server that is up has room *)
(* for a search and never gives out more than that (Validate, the channel  *)
(* searchSlots).  The buffer is not bounded by the size at which an upsert *)
(* seals it: deletes may fill it further (Engine.Delete).                  *)
THEOREM TypeCorrect == Spec => []TypeOK
  <1> DEFINE Inv == SlotsInv /\ TasksInv /\ ConfigInv /\ BoundsInv
  <1>1. Init => Inv
    <2> SUFFICES ASSUME Init PROVE Inv
      OBVIOUS
    <2>1. Searching = {} /\ Waiting = {} /\ Holds(queue, Waiting)
      BY DEF Init, Searching, Waiting, Holds, IsInjective, ToSet
    <2>2. SlotsInv
      BY <2>1, FS_EmptySet DEF Init, SlotsInv
    <2> QED BY <2>2, ServerAssumption
            DEF Init, TasksInv, ConfigInv, BoundsInv, ServerAssumption
  <1>2. Inv /\ [Next]_vars => Inv'
    BY SlotsInvKept, TasksInvKept, ConfigInvKept, BoundsInvKept, ConfigAssumption,
       ServerAssumption
  <1>3. Inv => TypeOK
    BY DEF SlotsInv, TasksInv, ConfigInv, BoundsInv, Holds, TypeOK
  <1> QED BY <1>1, <1>2, <1>3, PTL DEF Spec
=============================================================================
