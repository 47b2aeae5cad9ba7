------------------------------- MODULE Server -------------------------------
(***************************************************************************)
(* searchd as a process (cmd/searchd/main.go): it is configured, serves,   *)
(* and is shut down.  While it serves, search requests share the slots of  *)
(* the channel searchSlots (internal/transport/httpapi/server.go), msearch *)
(* and count search beside them, and compactions run as tasks              *)
(* (internal/maintenance/service.go) while documents are written.          *)
(*                                                                         *)
(* A blocked send on a channel waits in a queue, and a receive hands over  *)
(* to its head: that is the Go runtime's.  The context of a request ends   *)
(* when its client leaves.  The timeout of a search starts with its slot   *)
(* and only makes the search return sooner, so it is part of Finish.       *)
(* Everything here is memory: the end of the process is the initial state. *)
(***************************************************************************)
EXTENDS Config, FiniteSets

CONSTANTS
    Searches,   \* requests to /search or /explain that may be open at once
    TaskIds,    \* ids newID hands out for compactions
    Files, Envs,    \* what searchd may be started with
    maxMutable, \* documents an engine buffers (the 100 of createCollection)
    Documents   \* bound: documents there may be

ASSUME ServerAssumption ==
    /\ IsFiniteSet(Searches)
    /\ Files \subseteq Seq(Line)
    /\ Envs \subseteq [FromEnv -> Values \cup {Unset}]
    /\ maxMutable \in Nat \ {0} /\ Documents \in Nat

VARIABLES
    life,       \* "down", "loaded", "up" or "draining"
    config,     \* the settings loaded, until the parts are built from them
    source,     \* history: where they were loaded from
    capacity,   \* of the channel searchSlots
    pc,         \* where each request is
    slots,      \* elements in searchSlots
    queue,      \* requests whose send blocks
    gone,       \* requests whose client left
    runner,     \* where each task's goroutine is
    tasks,      \* state of each task in Service.tasks
    buffered,   \* documents in the engine's buffer
    sealed,     \* documents that only segments hold
    owed        \* history: tasks accepted while what is still buffered was there

processVars == <<life, config, source, capacity>>
searchVars == <<pc, slots, queue, gone>>
taskVars == <<runner, tasks, buffered, sealed, owed>>
vars == <<processVars, searchVars, taskVars>>

Init ==
    /\ life = "down" /\ config = Refused /\ source = <<>> /\ capacity = 0
    /\ pc = [r \in Searches |-> "idle"]
    /\ slots = 0 /\ queue = <<>> /\ gone = {}
    /\ runner = [t \in TaskIds |-> "none"]
    /\ tasks = [t \in TaskIds |-> "none"]
    /\ buffered = 0 /\ sealed = 0 /\ owed = {}
-----------------------------------------------------------------------------
(* run: config.Load, whose error ends the process, and then the server.    *)
Configure(file, env) ==
    /\ Load(file, env) # Refused
    /\ life' = "loaded" /\ config' = Load(file, env) /\ source' = <<file, env>>
    /\ UNCHANGED <<capacity, searchVars, taskVars>>

Start ==
    /\ life = "loaded"
    /\ life' = "up" /\ config' = Refused /\ source' = <<>>
    /\ capacity' = config[<<"limits", "search_concurrency">>]
    /\ UNCHANGED <<searchVars, taskVars>>

(* A signal: not ready, and Shutdown closes the listener.                  *)
Signal ==
    /\ life = "up"
    /\ life' = "draining"
    /\ UNCHANGED <<config, source, capacity, searchVars, taskVars>>

(* Shutdown returns when no request is open or its timeout has passed; a   *)
(* crash asks for neither.  Goroutines of tasks are not waited for.        *)
Exit ==
    /\ life \in {"up", "draining"}
    /\ life' = "down" /\ capacity' = 0 /\ UNCHANGED <<config, source>>
    /\ pc' = [r \in Searches |-> "idle"]
    /\ slots' = 0 /\ queue' = <<>> /\ gone' = {}
    /\ runner' = [t \in TaskIds |-> "none"]
    /\ tasks' = [t \in TaskIds |-> "none"]
    /\ buffered' = 0 /\ sealed' = 0 /\ owed' = {}
-----------------------------------------------------------------------------
(* A valid request for an existing collection.                             *)
Arrive(r) ==
    /\ life = "up" /\ pc[r] = "idle"
    /\ pc' = [pc EXCEPT ![r] = "arrived"]
    /\ UNCHANGED <<slots, queue, gone, processVars, taskVars>>

(* While its search runs, a client's leaving is another reason to Finish.  *)
Leave(r) ==
    /\ pc[r] \in {"arrived", "waiting"} /\ r \notin gone
    /\ gone' = gone \cup {r}
    /\ UNCHANGED <<pc, slots, queue, processVars, taskVars>>

Take_Unlimited(r) ==
    /\ pc[r] = "arrived"
    /\ slots' = slots + 1
    /\ pc' = [pc EXCEPT ![r] = "searching"]
    /\ UNCHANGED <<queue, gone, processVars, taskVars>>

(* The select of search: the send succeeds, blocks, or loses against the   *)
(* end of the context.                                                     *)
Take(r) ==
    /\ pc[r] = "arrived" /\ slots < capacity
    /\ slots' = slots + 1
    /\ pc' = [pc EXCEPT ![r] = "searching"]
    /\ UNCHANGED <<queue, gone, processVars, taskVars>>

Wait(r) ==
    /\ pc[r] = "arrived" /\ slots = capacity
    /\ queue' = Append(queue, r)
    /\ pc' = [pc EXCEPT ![r] = "waiting"]
    /\ UNCHANGED <<slots, gone, processVars, taskVars>>

Answered(r) == gone' = gone \ {r} /\ UNCHANGED <<processVars, taskVars>>

(* The request's place in the queue, if it has one, is given up.           *)
Dequeue(r) ==
    \/ pc[r] = "arrived" /\ UNCHANGED queue
    \/ pc[r] = "waiting" /\ \E i \in DOMAIN queue :
                             queue[i] = r /\ queue' = RemoveAt(queue, i)

Cancelled_FreesSlot(r) ==
    /\ r \in gone /\ slots > 0
    /\ Dequeue(r)
    /\ pc' = [pc EXCEPT ![r] = "idle"]
    /\ slots' = slots - 1
    /\ Answered(r)

Cancelled(r) ==
    /\ r \in gone
    /\ Dequeue(r)
    /\ pc' = [pc EXCEPT ![r] = "idle"]
    /\ UNCHANGED slots
    /\ Answered(r)

Finish_ErrorKeepsSlot(r) ==
    /\ pc[r] = "searching"
    /\ pc' = [pc EXCEPT ![r] = "idle"]
    /\ slots' \in {slots, slots - 1} /\ UNCHANGED queue
    /\ Answered(r)

(* Search returns, with a result or because the context ended (200, 206 or *)
(* 422), and the deferred receive gives the slot back or to the next.      *)
Finish(r) ==
    /\ pc[r] = "searching"
    /\ IF queue = <<>>
       THEN /\ pc' = [pc EXCEPT ![r] = "idle"]
            /\ slots' = slots - 1 /\ UNCHANGED queue
       ELSE /\ pc' = [pc EXCEPT ![r] = "idle", ![Head(queue)] = "searching"]
            /\ queue' = Tail(queue) /\ UNCHANGED slots
    /\ Answered(r)

(* msearch and count call Engine.Search, one query after another, without  *)
(* a slot: as many of them run as there are requests.                      *)
SearchBeside ==
    /\ life \in {"up", "draining"}
    /\ UNCHANGED vars
-----------------------------------------------------------------------------
(* The buffer holds b documents, segments alone hold s others.             *)
Seal(b, s) == buffered' = 0 /\ sealed' = s + b /\ owed' = {}
Keep(b, s) == buffered' = b /\ sealed' = s /\ UNCHANGED owed
Fill(b, s) == IF b >= maxMutable THEN Seal(b, s) ELSE Keep(b, s)

(* A document that is new, sealed or buffered is upserted; a buffer that   *)
(* is full then is sealed.                                                 *)
Write ==
    /\ life \in {"up", "draining"}
    /\ \/ buffered + sealed < Documents /\ Fill(buffered + 1, sealed)
       \/ sealed > 0 /\ Fill(buffered + 1, sealed - 1)
       \/ buffered > 0 /\ Fill(buffered, sealed)
    /\ UNCHANGED <<runner, tasks, processVars, searchVars>>

(* The tombstone of a sealed document goes to the buffer, full or not.     *)
(* (That of a buffered one takes its place.)                               *)
Delete ==
    /\ life \in {"up", "draining"}
    /\ sealed > 0
    /\ Keep(buffered + 1, sealed - 1)
    /\ UNCHANGED <<runner, tasks, processVars, searchVars>>

Task(t, step, state) ==
    /\ runner' = [runner EXCEPT ![t] = step]
    /\ tasks' = [tasks EXCEPT ![t] = state]
    /\ UNCHANGED <<processVars, searchVars>>

(* ScheduleCompact: the task is stored before its goroutine starts.        *)
ScheduleCompact(t) ==
    /\ life \in {"up", "draining"} /\ runner[t] = "none"
    /\ Task(t, "started", "pending")
    /\ owed' = IF buffered > 0 THEN owed \cup {t} ELSE owed
    /\ UNCHANGED <<buffered, sealed>>

(* runCompact.  Its context is context.Background() and Flush returns nil, *)
(* so its two ways to fail are never taken.                                *)
Running(t) ==
    /\ runner[t] = "started"
    /\ Task(t, "running", "running")
    /\ UNCHANGED <<buffered, sealed, owed>>

FlushBuffer_LeftToOther(t) ==
    /\ runner[t] = "running"
    /\ IF \E u \in TaskIds \ {t} : tasks[u] = "running" THEN UNCHANGED <<buffered, sealed, owed>>
       ELSE Seal(buffered, sealed)
    /\ Task(t, "flushed", tasks[t])

FlushBuffer(t) ==
    /\ runner[t] = "running"
    /\ Seal(buffered, sealed)
    /\ Task(t, "flushed", tasks[t])

Succeeded_Resets(t) ==
    /\ runner[t] = "flushed"
    /\ Task(t, "ended", "pending")
    /\ UNCHANGED <<buffered, sealed, owed>>

Succeeded(t) ==
    /\ runner[t] = "flushed"
    /\ Task(t, "ended", "succeeded")
    /\ UNCHANGED <<buffered, sealed, owed>>

Handle(r) == Take(r) \/ Wait(r) \/ Cancelled(r) \/ Finish(r)

RunCompact(t) == Running(t) \/ FlushBuffer(t) \/ Succeeded(t)

Next ==
    \/ life = "down" /\ \E file \in Files, env \in Envs : Configure(file, env)
    \/ Start
    \/ Signal
    \/ Exit
    \/ \E r \in Searches : Arrive(r)
    \/ \E r \in Searches : Leave(r)
    \/ \E r \in Searches : Handle(r)
    \/ SearchBeside
    \/ Write
    \/ Delete
    \/ \E t \in TaskIds : ScheduleCompact(t)
    \/ \E t \in TaskIds : RunCompact(t)

(* Go runs every goroutine that can run; Engine.Search comes to its end.   *)
Fairness ==
    /\ \A r \in Searches : WF_vars(Handle(r))
    /\ \A t \in TaskIds : WF_vars(RunCompact(t))

Spec == Init /\ [][Next]_vars /\ Fairness
-----------------------------------------------------------------------------
(* A process that is up has a channel with room for a search, whatever     *)
(* configuration was accepted; the rest has the declared form.             *)
TypeOK ==
    /\ life \in {"down", "loaded", "up", "draining"}
    /\ life = "loaded" <=> config # Refused
    /\ pc \in [Searches -> {"idle", "arrived", "waiting", "searching"}]
    /\ capacity \in Nat
    /\ life \in {"up", "draining"} <=> capacity > 0
    /\ slots \in 0..capacity
    /\ queue \in Seq(Searches) /\ gone \subseteq Searches
    /\ runner \in [TaskIds -> {"none", "started", "running", "flushed", "ended"}]
    /\ tasks \in [TaskIds -> {"none", "pending", "running", "succeeded"}]
    /\ buffered \in Nat /\ sealed \in Nat /\ buffered + sealed <= Documents
    /\ owed \subseteq TaskIds

(* A slot is out for every search under way and for nothing else, and      *)
(* requests wait, each once, only while all slots are out: cancelled       *)
(* waiters and failed searches neither lose a slot nor make one.           *)
SlotsAreHeld ==
    /\ slots = Cardinality({r \in Searches : pc[r] = "searching"})
    /\ ToSet(queue) = {r \in Searches : pc[r] = "waiting"} /\ IsInjective(queue)
    /\ queue # <<>> => slots = capacity

(* A loaded configuration is what its file and environment say.            *)
SettingsComeFrom ==
    life = "loaded" => config = Intended(source[1], source[2])

(* Every search is answered, whatever others arrive, wait and leave, under *)
(* every configuration that Validate accepts.                              *)
SearchAnswered == \A r \in Searches : pc[r] = "arrived" ~> pc[r] = "idle"

(* A task that is reported as succeeded has sealed everything that was     *)
(* written before it was accepted.                                         *)
SucceededTaskSealed ==
    \A t \in TaskIds : tasks[t] = "succeeded" => t \notin owed

(* An accepted task is reported as succeeded unless the process ends.      *)
TaskEnds ==
    \A t \in TaskIds : tasks[t] = "pending" ~> (tasks[t] = "succeeded" \/ life = "down")
=============================================================================
