----------------------------- MODULE ScriptTasks ------------------------------
(***************************************************************************)
(* The task namespace of the embedded language: AsyncScriptHost            *)
(* (script/async_host.cpp), which numbers the requests and remembers the   *)
(* service behind each, and GuileAsyncBridge (guile_async_bridge.cpp),     *)
(* which holds the callbacks Scheme or a native provider passed, with the  *)
(* rollback of a failed extension load and the teardown of both.           *)
(*                                                                         *)
(* The services below show what other modules say of them: a worker task   *)
(* or a process (AsyncTasks, AsyncProcesses) answers from drain(), once; a *)
(* request of an LspSession may also end inside the call that makes it, or *)
(* cancels it. Callbacks are next steps: the record is gone when they run. *)
(***************************************************************************)
EXTENDS Integers, FiniteSets

CONSTANTS
    Kinds,        \* kinds of requests, among those below
    MaxTasks,     \* bound: requests that get an id
    MaxLoads      \* bound: extension loads

WorkerKinds == {"file-read", "file-write", "directory-list", "directory-list-many",
                "clang-format-style", "project-discovery", "rg-result-parse"}

ASSUME ScriptAssumption ==
    /\ Kinds \subseteq WorkerKinds \cup {"process", "lsp-navigation"}
    /\ {MaxTasks, MaxLoads} \subseteq Nat

VARIABLES
    nextId, tasks, hostActive,             \* AsyncScriptHost::State
    callbacks, nativeCallbacks, bridgeActive,
    phase, checkpoint, loads,              \* the extension being loaded, if any
    kind, service, asked,                  \* what is behind each id
    session,                               \* the LSP session takes requests
    fate,                                  \* what the owner of each id has been told
    corrupt                                \* memory was used after its release

hostVars    == <<nextId, tasks, hostActive>>
bridgeVars  == <<callbacks, nativeCallbacks, bridgeActive>>
loadVars    == <<phase, checkpoint, loads>>
serviceVars == <<kind, service, asked, session>>
vars == <<hostVars, bridgeVars, loadVars, serviceVars, fate, corrupt>>

Id   == 1..MaxTasks
Held == callbacks \cup nativeCallbacks
External(id) == kind[id] = "lsp-navigation"

Init ==
    /\ nextId = 1 /\ tasks = {} /\ hostActive = TRUE
    /\ callbacks = {} /\ nativeCallbacks = {} /\ bridgeActive = TRUE
    /\ phase = "idle" /\ checkpoint = {} /\ loads = 0
    /\ kind = [id \in Id |-> "none"] /\ service = [id \in Id |-> "none"]
    /\ asked = [id \in Id |-> FALSE] /\ session = TRUE
    /\ fate = [id \in Id |-> "none"]
    /\ corrupt = FALSE

-----------------------------------------------------------------------------
(* Services.                                                               *)

\* What the work of a request may come to. Listing many directories passes over
\* the ones it cannot read, and looking for a style finds one or falls back.
Outcomes(k) ==
    {"completed", "cancelled"} \cup
    (IF k \in {"directory-list-many", "clang-format-style"} THEN {} ELSE {"failed"})

\* Work and children are cancelled when they were asked to be, a request of a
\* session also when the session stops.
MayEnd(id, f) ==
    /\ f \in Outcomes(kind[id])
    /\ f = "cancelled" => asked[id] \/ External(id)

\* LspSession::fail(): the requests it had pending hear of it one by one.
Break == /\ session' = FALSE
         /\ service' = [id \in Id |-> IF External(id) /\ service[id] = "running"
                                      THEN "failing" ELSE service[id]]

Owed == {id \in Id : service[id] = "failing"}

\* Mutant: finish_task() leaves the record of a cancelled task.
FinishKeepsCancelled(id, f) ==
    /\ tasks' = IF hostActive /\ f # "cancelled" THEN tasks \ {id} ELSE tasks
    /\ IF hostActive /\ id \in tasks /\ bridgeActive
       THEN /\ callbacks' = callbacks \ {id}
            /\ nativeCallbacks' = nativeCallbacks \ {id}
            /\ fate' = [fate EXCEPT ![id] = IF id \in Held THEN f ELSE @]
       ELSE UNCHANGED <<callbacks, nativeCallbacks, fate>>
    /\ UNCHANGED <<nextId, hostActive, bridgeActive>>

\* Mutant: a delivery for which the bridge holds no callbacks is made all the same.
FinishWithoutTaking(id, f) ==
    /\ tasks' = IF hostActive THEN tasks \ {id} ELSE tasks
    /\ IF hostActive /\ id \in tasks /\ bridgeActive
       THEN /\ callbacks' = callbacks \ {id}
            /\ nativeCallbacks' = nativeCallbacks \ {id}
            /\ fate' = [fate EXCEPT ![id] = f]
       ELSE UNCHANGED <<callbacks, nativeCallbacks, fate>>
    /\ UNCHANGED <<nextId, hostActive, bridgeActive>>

\* A service says that a task came to f: finish_task() forgets the record, if there
\* is one, before the bridge takes the callbacks out and calls the one for f.
Finish(id, f) ==
    /\ tasks' = IF hostActive THEN tasks \ {id} ELSE tasks
    /\ IF hostActive /\ id \in tasks /\ bridgeActive
       THEN /\ callbacks' = callbacks \ {id}
            /\ nativeCallbacks' = nativeCallbacks \ {id}
            /\ fate' = [fate EXCEPT ![id] = IF id \in Held THEN f ELSE @]
       ELSE UNCHANGED <<callbacks, nativeCallbacks, fate>>
    /\ UNCHANGED <<nextId, hostActive, bridgeActive>>

-----------------------------------------------------------------------------
(* Requests of Scheme and of native providers.                             *)

Calm == ~corrupt /\ Owed = {}
\* The editor thread runs Scheme: a command, a callback or a loading extension.
SchemeRuns == Calm /\ bridgeActive /\ phase \in {"idle", "loading"}

\* The host keeps the record, the bridge the callbacks of the caller.
Record(id, caller) ==
    /\ tasks' = tasks \cup {id}
    /\ callbacks' = IF caller = "scheme" THEN callbacks \cup {id} ELSE callbacks
    /\ nativeCallbacks' = IF caller = "native" THEN nativeCallbacks \cup {id} ELSE nativeCallbacks
    /\ fate' = [fate EXCEPT ![id] = "open"]

\* The service refuses, takes the request, or, a session that cannot write, fails it
\* with all of its others before it returns, which finds no record of it to remove.
Start(caller, k) ==
    LET id == nextId IN
    /\ SchemeRuns /\ hostActive
    /\ nextId <= MaxTasks
    /\ nextId' = nextId + 1
    /\ kind' = [kind EXCEPT ![id] = k]
    /\ \/ /\ fate' = [fate EXCEPT ![id] = "rejected"]
          /\ \/ UNCHANGED <<service, session>>
             \/ k = "lsp-navigation" /\ session /\ Break
          /\ UNCHANGED <<tasks, callbacks, nativeCallbacks>>
       \/ /\ k = "lsp-navigation" => session
          /\ service' = [service EXCEPT ![id] = "running"]
          /\ Record(id, caller)
          /\ UNCHANGED session
       \/ /\ k = "lsp-navigation" /\ session
          /\ Break
          /\ Record(id, caller)
    /\ UNCHANGED <<hostActive, bridgeActive, asked, loadVars, corrupt>>

\* cancel(): the runtime is asked; a session that has the request forgets it and
\* says so at once, and may break on telling the server.
CancelRunning(id) ==
    IF External(id) /\ service[id] = "running"
    THEN /\ Finish(id, "cancelled")
         /\ \/ service' = [service EXCEPT ![id] = "gone"] /\ UNCHANGED session
            \/ /\ session' = FALSE
               /\ service' = [i \in Id |-> IF i = id THEN "gone"
                                           ELSE IF External(i) /\ service[i] = "running"
                                           THEN "failing" ELSE service[i]]
         /\ UNCHANGED asked
    ELSE /\ asked' = IF External(id) THEN asked ELSE [asked EXCEPT ![id] = TRUE]
         /\ UNCHANGED <<service, session, hostVars, bridgeVars, fate>>

Cancel(id) ==
    /\ SchemeRuns /\ hostActive
    /\ id \in tasks
    /\ CancelRunning(id)
    /\ UNCHANGED <<kind, loadVars, corrupt>>

\* drain() delivers an end, or a session reads or makes one.
Deliver(id, f) ==
    /\ Calm /\ phase = "idle"
    /\ service[id] = "running" /\ MayEnd(id, f)
    /\ service' = [service EXCEPT ![id] = "gone"]
    /\ Finish(id, f)
    /\ UNCHANGED <<kind, asked, session, loadVars, corrupt>>

\* A session breaks by itself: its process ends, or sends what cannot be read.
SessionBreaks ==
    /\ Calm /\ phase = "idle"
    /\ session /\ Break
    /\ UNCHANGED <<hostVars, bridgeVars, loadVars, kind, asked, fate, corrupt>>

DeliverOwed(id) ==
    /\ ~corrupt /\ id \in Owed
    /\ service' = [service EXCEPT ![id] = "gone"]
    /\ Finish(id, "failed")
    /\ UNCHANGED <<kind, asked, session, loadVars, corrupt>>

-----------------------------------------------------------------------------
(* Loading the extension, rolling it back, and the end.                     *)

BeginLoad ==
    /\ Calm /\ phase = "idle" /\ bridgeActive
    /\ loads < MaxLoads /\ loads' = loads + 1
    /\ phase' = "loading"
    /\ checkpoint' = Held
    /\ UNCHANGED <<hostVars, bridgeVars, serviceVars, fate, corrupt>>

EndLoad(ok) ==
    /\ Calm /\ phase = "loading"
    /\ phase' = IF ok THEN "idle" ELSE "rollback"
    /\ UNCHANGED <<hostVars, bridgeVars, serviceVars, checkpoint, loads, fate, corrupt>>

\* Mutant: the callbacks go and the work is left to run.
RollbackWithoutCancel(id) ==
    /\ Calm /\ phase = "rollback"
    /\ id \in Held \ checkpoint
    /\ callbacks' = callbacks \ {id}
    /\ nativeCallbacks' = nativeCallbacks \ {id}
    /\ fate' = [fate EXCEPT ![id] = "dropped"]
    /\ UNCHANGED <<hostVars, bridgeActive, loadVars, serviceVars, corrupt>>

\* rollback_to() cancels a task and erases its callbacks. A cancellation that runs
\* at once has already taken out the element the iterator is at, and what follows
\* reads and erases it again.
RollbackOne(id) ==
    /\ Calm /\ phase = "rollback"
    /\ id \in Held \ checkpoint
    /\ IF External(id) /\ service[id] = "running"
       THEN CancelRunning(id) /\ corrupt' = TRUE
       ELSE /\ asked' = IF External(id) THEN asked ELSE [asked EXCEPT ![id] = TRUE]
            /\ callbacks' = callbacks \ {id}
            /\ nativeCallbacks' = nativeCallbacks \ {id}
            /\ fate' = [fate EXCEPT ![id] = "dropped"]
            /\ UNCHANGED <<hostVars, bridgeActive, service, session, corrupt>>
    /\ UNCHANGED <<kind, loadVars>>

RollbackDone ==
    /\ Calm /\ phase = "rollback"
    /\ Held \subseteq checkpoint
    /\ phase' = "idle" /\ checkpoint' = {}
    /\ UNCHANGED <<hostVars, bridgeVars, loads, serviceVars, fate, corrupt>>

\* shutdown(): no callback runs from here on, and every task is cancelled. Requests
\* of the session end at once, and the host forgets them.
Shutdown ==
    LET external == {id \in Held : External(id) /\ service[id] = "running"} IN
    /\ Calm /\ phase = "idle" /\ bridgeActive
    /\ bridgeActive' = FALSE
    /\ callbacks' = {} /\ nativeCallbacks' = {}
    /\ fate' = [id \in Id |-> IF id \in Held THEN "dropped" ELSE fate[id]]
    /\ service' = [id \in Id |-> IF id \in external THEN "gone" ELSE service[id]]
    /\ asked' = [id \in Id |-> asked[id] \/ (id \in Held /\ ~External(id))]
    /\ tasks' = tasks \ external
    /\ session' \in IF external = {} THEN {session} ELSE {session, FALSE}
    /\ UNCHANGED <<nextId, hostActive, kind, loadVars, corrupt>>

\* ~AsyncScriptHost: it cancels again what it still has a record of.
DestroyHost ==
    /\ Calm /\ ~bridgeActive /\ hostActive
    /\ hostActive' = FALSE
    /\ asked' = [id \in Id |-> asked[id] \/ (id \in tasks /\ ~External(id))]
    /\ tasks' = {}
    /\ UNCHANGED <<nextId, bridgeVars, loadVars, kind, service, session, fate, corrupt>>

Next ==
    \/ \E caller \in {"scheme", "native"}, k \in Kinds : Start(caller, k)
    \/ \E id \in Id : \/ Cancel(id) \/ RollbackOne(id) \/ DeliverOwed(id)
                      \/ \E f \in {"completed", "cancelled", "failed"} : Deliver(id, f)
    \/ SessionBreaks
    \/ BeginLoad \/ RollbackDone
    \/ \E ok \in BOOLEAN : EndLoad(ok)
    \/ Shutdown \/ DestroyHost

Spec == Init /\ [][Next]_vars

-----------------------------------------------------------------------------
(* Properties.                                                             *)

Fates == {"none", "rejected", "open", "completed", "cancelled", "failed", "dropped"}

\* Types of the variables (proved; see ScriptTasksProofs).
TypeOK ==
    /\ nextId \in 1..(MaxTasks + 1)
    /\ tasks \subseteq Id /\ hostActive \in BOOLEAN
    /\ callbacks \subseteq Id /\ nativeCallbacks \subseteq Id /\ bridgeActive \in BOOLEAN
    /\ phase \in {"idle", "loading", "rollback"}
    /\ checkpoint \subseteq Id /\ loads \in 0..MaxLoads
    /\ kind \in [Id -> Kinds \cup {"none"}]
    /\ service \in [Id -> {"none", "running", "failing", "gone"}]
    /\ asked \in [Id -> BOOLEAN]
    /\ session \in BOOLEAN /\ corrupt \in BOOLEAN
    /\ fate \in [Id -> Fates]

\* As long as the bridge is in use, it holds the callbacks of a task exactly while
\* its owner waits, the host has a record of every one of them, and a record that
\* has no callbacks left is of a task the rollback dropped: one on its way out, or
\* a request of a session that had ended in the call that made it (take_callbacks(),
\* finish_task() and rollback_to() keep two tables in step across three objects).
TablesAgree ==
    /\ Held = {id \in Id : fate[id] = "open"}
    /\ bridgeActive /\ ~corrupt =>
         /\ Held \subseteq tasks
         /\ \A id \in tasks \ Held : fate[id] = "dropped" /\ (asked[id] \/ External(id))

\* A record the host keeps for ever, because nothing is left that would end its
\* task, can only be of a request that an LspSession failed inside the call that
\* made it (async_host.cpp adds the record after the service has started); work
\* still under way, conversely, always has its record until the host is destroyed.
RecordsAreBacked ==
    hostActive /\ ~corrupt =>
        \A id \in Id : /\ id \in tasks /\ service[id] \notin {"running", "failing"}
                            => External(id) /\ ~session
                       /\ service[id] \in {"running", "failing"} => id \in tasks

\* What the owner of a task sees is an accepted request that ends once, however
\* cancellations, the rollback of a load, a broken session and the shutdown fall
\* together. A task refused by start() never was one, and one dropped by a rollback
\* or the shutdown counts as cancelled.
Seen(f) == IF f = "rejected" THEN "none" ELSE IF f = "dropped" THEN "cancelled" ELSE f

Abstract == INSTANCE RequestLifecycle WITH
    Requests <- Id, fate <- [id \in Id |-> Seen(fate[id])],
    broken <- FALSE, closed <- ~bridgeActive

Implements == Abstract!Spec

=============================================================================
