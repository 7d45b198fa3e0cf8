---------------------------- MODULE ProjectIndex ----------------------------
(***************************************************************************)
(* How the file index of one project follows the disk: ProjectService      *)
(* (editor/project_service.cpp) on the editor thread, composed with the    *)
(* directory watches of AsyncRuntime (async/runtime.cpp) on the loop       *)
(* thread, the scan that runs on the worker pool, and the disk itself.     *)
(*                                                                         *)
(* External code modelled from its use: a libuv fs-event handle follows    *)
(* the directory it was started on, not a later one with the same path.    *)
(* A drained batch is a prefix of the ready queue and a record is checked  *)
(* when its callback is due, so the two are one queue here. The scan task  *)
(* is never cancelled while the runtime lives; AsyncTasks has the rest of  *)
(* its life, and the shutdown.                                             *)
(***************************************************************************)
EXTENDS Integers, Sequences, FiniteSets

CONSTANTS
    Dirs,          \* bound: directories are 1..Dirs in path order; 1 is the root
    MaxWatches,    \* maximum_watches
    MaxIds,        \* bound: watches ever requested
    MaxChanges,    \* bound: changes to the disk
    MaxRequests    \* bound: requests from Scheme policy

ASSUME BoundAssumption ==
    /\ {Dirs, MaxWatches, MaxIds} \subseteq Nat \ {0}
    /\ {MaxChanges, MaxRequests} \subseteq Nat

Dir  == 1..Dirs
Root == 1
Id   == 1..MaxIds
None == 0

VARIABLES
    disk,            \* per directory: when it was made (0: absent) and last changed
    clock,           \* changes so far
    \* AsyncRuntime
    watch,           \* each Watch with its native handle
    commands, ready,
    \* the scan on the worker pool
    scan,
    \* ProjectService::State
    indexTask,       \* index_task.valid()
    generation, refreshPending,
    retained,        \* watches: the id held for each directory
    nextId,
    \* ProjectRegistry
    index,           \* what the published index knows of each directory
    indexing, indexError, revised,
    requests

diskVars     == <<disk, clock>>
queueVars    == <<commands, ready>>
serviceVars  == <<indexTask, generation, refreshPending, retained, nextId>>
registryVars == <<index, indexing, indexError, revised>>
vars == <<diskVars, watch, queueVars, scan, serviceVars, registryVars, requests>>

\* In the runtime's map; the handle is initialized, or being closed.
Known == {"new", "active", "closing", "failing"}
WatchState == Known \cup {"unused", "closed", "failed"}
IndexRecord(ok) == [kind |-> IF ok THEN "Indexed" ELSE "IndexFailed", id |-> None]

Idle == [phase |-> "idle", generation |-> 0, todo |-> {}, found |-> {},
         seen |-> [d \in Dir |-> 0]]

Init ==
    /\ disk \in {[d \in Dir |-> [born |-> b[d], changed |-> b[d]]] :
                    b \in {f \in [Dir -> {0, 1}] : f[Root] = 1}}
    /\ clock = 1
    /\ watch = [i \in Id |-> [dir |-> Root, state |-> "unused", stopped |-> FALSE,
                              born |-> 0, event |-> FALSE]]
    /\ commands = <<>> /\ ready = <<>>
    /\ scan = Idle
    /\ indexTask = FALSE /\ generation = 0 /\ refreshPending = FALSE
    /\ retained = [d \in Dir |-> None] /\ nextId = 1
    /\ index = [d \in Dir |-> 0]
    /\ indexing = FALSE /\ indexError = FALSE /\ revised = FALSE
    /\ requests = 0

-----------------------------------------------------------------------------
(* The disk. A change wakes the handles that follow the changed directory. *)

Exists(d) == disk[d].born # 0
Follows(i, d) == watch[i].state = "active" /\ watch[i].dir = d /\ watch[i].born = disk[d].born

Disturb(S) == watch' = [i \in Id |-> [watch[i] EXCEPT !.event = @ \/ \E d \in S : Follows(i, d)]]

Tick == clock <= MaxChanges /\ clock' = clock + 1

ChangeFile(d) ==
    /\ Tick /\ Exists(d)
    /\ disk' = [disk EXCEPT ![d].changed = clock']
    /\ Disturb({d})
    /\ UNCHANGED <<queueVars, scan, serviceVars, registryVars, requests>>

MakeDirectory(d) ==
    /\ Tick /\ ~Exists(d)
    /\ disk' = [disk EXCEPT ![d] = [born |-> clock', changed |-> clock'],
                            ![Root].changed = clock']
    /\ Disturb({Root})
    /\ UNCHANGED <<queueVars, scan, serviceVars, registryVars, requests>>

RemoveDirectory(d) ==
    /\ Tick /\ d # Root /\ Exists(d)
    /\ disk' = [disk EXCEPT ![d] = [born |-> 0, changed |-> 0], ![Root].changed = clock']
    /\ Disturb({Root, d})
    /\ UNCHANGED <<queueVars, scan, serviceVars, registryVars, requests>>

-----------------------------------------------------------------------------
(* The scan: scan_project_files() lists the root, then reads what it found. *)

ScanRoot ==
    /\ scan.phase = "submitted"
    /\ LET subs == {d \in Dir \ {Root} : Exists(d)} IN
       scan' = [scan EXCEPT !.phase = "reading", !.todo = subs, !.found = {Root} \cup subs,
                            !.seen[Root] = disk[Root].changed]
    /\ UNCHANGED <<diskVars, watch, queueVars, serviceVars, registryVars, requests>>

\* A directory that is gone by now ends the iteration early and silently.
ScanDirectory(d) ==
    /\ scan.phase = "reading" /\ d \in scan.todo
    /\ scan' = IF Exists(d)
               THEN [scan EXCEPT !.todo = @ \ {d}, !.seen[d] = disk[d].changed]
               ELSE [scan EXCEPT !.todo = {}, !.found = @ \ (scan.todo \ {d})]
    /\ UNCHANGED <<diskVars, watch, queueVars, serviceVars, registryVars, requests>>

ScanDone ==
    /\ scan.phase = "reading" /\ scan.todo = {}
    /\ scan' = [scan EXCEPT !.phase = "done"]
    /\ ready' = Append(ready, IndexRecord(TRUE))
    /\ UNCHANGED <<diskVars, watch, commands, serviceVars, registryVars, requests>>

\* The root cannot be read, or there are more than 200,000 files.
ScanFails ==
    /\ scan.phase \in {"submitted", "reading"}
    /\ scan' = [scan EXCEPT !.phase = "done"]
    /\ ready' = Append(ready, IndexRecord(FALSE))
    /\ UNCHANGED <<diskVars, watch, commands, serviceVars, registryVars, requests>>

-----------------------------------------------------------------------------
(* ProjectService on the editor thread.                                    *)

\* request_index() with the index task and pending flag the caller leaves.
Request(task, refresh) ==
    IF task
    THEN /\ refreshPending' = TRUE /\ indexTask' = TRUE
         /\ UNCHANGED <<generation, indexing, indexError, scan>>
    ELSE /\ refreshPending' = refresh /\ indexTask' = TRUE
         /\ generation' = generation + 1
         /\ indexing' = TRUE /\ indexError' = FALSE
         /\ scan' = [Idle EXCEPT !.phase = "submitted", !.generation = generation + 1]

\* Mutant: the refresh is requested while index_task is still set.
SettleInOrder(error) ==
    IF refreshPending
    THEN Request(indexTask, FALSE)
    ELSE /\ indexTask' = FALSE /\ indexing' = FALSE /\ indexError' = error
         /\ scan' = Idle
         /\ UNCHANGED <<generation, refreshPending>>

\* Mutant: a refresh requested during the scan is taken for served by it.
SettleForgets(error) ==
    /\ refreshPending' = FALSE
    /\ indexTask' = FALSE /\ indexing' = FALSE /\ indexError' = error
    /\ scan' = Idle
    /\ UNCHANGED generation

\* The tail of finish_index() and fail_index(): run a refresh asked for meanwhile.
Settle(error) ==
    IF refreshPending
    THEN Request(FALSE, FALSE)
    ELSE /\ indexTask' = FALSE /\ indexing' = FALSE /\ indexError' = error
         /\ scan' = Idle
         /\ UNCHANGED <<generation, refreshPending>>

\* ensure-project-index! asks for a first index unless a scan is under way.
RequestIndex ==
    /\ requests < MaxRequests /\ requests' = requests + 1
    /\ ~revised /\ ~indexing
    /\ Request(indexTask, refreshPending)
    /\ UNCHANGED <<diskVars, watch, queueVars, retained, nextId, index, revised>>

\* replace_watches(): unwatch() what is no longer desired, watch_directory()
\* for what is new; a directory that has a watch keeps it.
Desired == {d \in scan.found : Cardinality({e \in scan.found : e <= d}) <= MaxWatches}
Added   == {d \in Desired : retained[d] = None}
Dropped == {d \in Dir \ Desired : retained[d] # None}

\* Directories are taken in path order.
Rank(S, d) == Cardinality({e \in S : e <= d})
Nth(S, k)  == CHOOSE d \in S : Rank(S, d) = k
FreshId(d) == nextId - 1 + Rank(Added, d)

\* The id that directory d is left with.
Retain(d) == CASE d \in Added -> FreshId(d)
               [] d \in Dropped -> None
               [] OTHER -> retained[d]

ReplaceWatches ==
    LET count    == Cardinality(Added)
        stopping == {d \in Dropped : LET w == watch[retained[d]] IN w.state \in Known /\ ~w.stopped}
    IN /\ nextId + count <= MaxIds + 1
       /\ retained' = [d \in Dir |-> Retain(d)]
       /\ nextId' = nextId + count
       /\ watch' = [i \in Id |->
             IF i \in nextId..(nextId' - 1)
             THEN [watch[i] EXCEPT !.state = "new", !.dir = Nth(Added, i - nextId + 1)]
             ELSE [watch[i] EXCEPT !.stopped = @ \/ \E d \in stopping : retained[d] = i]]
       /\ commands' = commands
             \o [k \in 1..Cardinality(stopping) |-> [kind |-> "Stop", id |-> retained[Nth(stopping, k)]]]
             \o [k \in 1..count |-> [kind |-> "Start", id |-> nextId - 1 + k]]

FinishIndex ==
    /\ index' = scan.seen /\ revised' = TRUE
    /\ ReplaceWatches
    /\ Settle(FALSE)

FailIndex ==
    /\ Settle(TRUE)
    /\ UNCHANGED <<index, revised, watch, commands, retained, nextId>>

\* Mutant: only a change asks for an index, not the start of the watch.
WatchCallbackOnChange(record) ==
    /\ IF record.kind # "Changed" \/ watch[record.id].stopped
       THEN UNCHANGED <<indexTask, generation, refreshPending, indexing, indexError, scan>>
       ELSE Request(indexTask, refreshPending)
    /\ UNCHANGED <<index, revised, watch, commands, retained, nextId>>

\* The started and changed callbacks of a watch ask for an index; failed is empty.
WatchCallback(record) ==
    /\ IF record.kind = "Failed" \/ watch[record.id].stopped
       THEN UNCHANGED <<indexTask, generation, refreshPending, indexing, indexError, scan>>
       ELSE Request(indexTask, refreshPending)
    /\ UNCHANGED <<index, revised, watch, commands, retained, nextId>>

Deliver ==
    /\ ready # <<>>
    /\ ready' = Tail(ready)
    /\ LET record == Head(ready) IN
       \/ record.kind = "Indexed" /\ scan.generation = generation /\ FinishIndex
       \/ record.kind = "IndexFailed" /\ scan.generation = generation /\ FailIndex
       \/ record.id # None /\ WatchCallback(record)
    /\ UNCHANGED <<diskVars, requests>>

-----------------------------------------------------------------------------
(* Watches on the loop thread.                                             *)

Post(kind, i) == ready' = Append(ready, [kind |-> kind, id |-> i])

StartWatch(i) ==
    \/ /\ watch[i].stopped
       /\ watch' = [watch EXCEPT ![i].state = "closed"]
       /\ UNCHANGED ready
    \/ /\ ~watch[i].stopped                     \* uv_fs_event_init fails
       /\ watch' = [watch EXCEPT ![i].state = "failed"]
       /\ Post("Failed", i)
    \/ /\ ~watch[i].stopped                     \* uv_fs_event_start fails
       /\ watch' = [watch EXCEPT ![i].state = "failing"]
       /\ Post("Failed", i)
    \/ /\ ~watch[i].stopped /\ Exists(watch[i].dir)
       /\ watch' = [watch EXCEPT ![i].state = "active", ![i].born = disk[watch[i].dir].born]
       /\ Post("Started", i)

\* Mutant: stop_watch() leaves an initialized handle to its next event.
StopWatchLater(i) ==
    /\ watch' = [watch EXCEPT ![i].state = IF @ = "new" THEN "closed" ELSE @]
    /\ UNCHANGED ready

StopWatch(i) ==
    /\ watch' = [watch EXCEPT ![i].state = CASE @ = "new" -> "closed"
                                             [] @ = "active" -> "closing"
                                             [] OTHER -> @]
    /\ UNCHANGED ready

DrainCommand ==
    /\ commands # <<>>
    /\ commands' = Tail(commands)
    /\ LET i == Head(commands).id IN
       \/ Head(commands).kind = "Start" /\ StartWatch(i)
       \/ Head(commands).kind = "Stop" /\ StopWatch(i)
    /\ UNCHANGED <<diskVars, scan, serviceVars, registryVars, requests>>

OnFsEvent(i) ==
    /\ watch[i].state = "active" /\ watch[i].event
    /\ \/ /\ watch[i].stopped
          /\ watch' = [watch EXCEPT ![i].event = FALSE]
          /\ UNCHANGED ready
       \/ /\ ~watch[i].stopped
          /\ watch' = [watch EXCEPT ![i].event = FALSE]
          /\ Post("Changed", i)
       \/ /\ ~watch[i].stopped                  \* the event reports an error
          /\ watch' = [watch EXCEPT ![i].event = FALSE, ![i].state = "failing"]
          /\ Post("Failed", i)
    /\ UNCHANGED <<diskVars, commands, scan, serviceVars, registryVars, requests>>

OnWatchClosed(i) ==
    /\ watch[i].state \in {"closing", "failing"}
    /\ watch' = [watch EXCEPT ![i].state = IF @ = "closing" THEN "closed" ELSE "failed"]
    /\ UNCHANGED <<diskVars, queueVars, scan, serviceVars, registryVars, requests>>

-----------------------------------------------------------------------------
Disk == \E d \in Dir : ChangeFile(d) \/ MakeDirectory(d) \/ RemoveDirectory(d)

Worker == ScanRoot \/ ScanDone \/ \E d \in Dir : ScanDirectory(d)

LoopThread == DrainCommand \/ \E i \in Id : OnFsEvent(i) \/ OnWatchClosed(i)

Next == Disk \/ Worker \/ ScanFails \/ RequestIndex \/ Deliver \/ LoopThread

Spec == Init /\ [][Next]_vars

\* Scans end, the loop thread serves its handles and the editor drains.
Fairness == WF_vars(Worker) /\ WF_vars(LoopThread) /\ WF_vars(Deliver)

FairSpec == Spec /\ Fairness

-----------------------------------------------------------------------------
(* Properties.                                                             *)

Stamp == 0..(MaxChanges + 1)

Handles == [dir : Dir, state : WatchState, stopped : BOOLEAN, born : Stamp, event : BOOLEAN]

Commands == [kind : {"Start", "Stop"}, id : Id]

Records == [kind : {"Indexed", "IndexFailed"}, id : {None}]
           \cup [kind : {"Started", "Changed", "Failed"}, id : Id]

Scans == [phase : {"idle", "submitted", "reading", "done"}, generation : Nat,
          todo : SUBSET Dir, found : SUBSET Dir, seen : [Dir -> Stamp]]

\* Types of the variables (proved; see ProjectIndexProofs).
TypeOK ==
    /\ disk \in [Dir -> [born : Stamp, changed : Stamp]] /\ clock \in 1..(MaxChanges + 1)
    /\ watch \in [Id -> Handles]
    /\ commands \in Seq(Commands) /\ ready \in Seq(Records)
    /\ scan \in Scans
    /\ indexTask \in BOOLEAN /\ refreshPending \in BOOLEAN /\ generation \in Nat
    /\ retained \in [Dir -> Id \cup {None}] /\ nextId \in 1..(MaxIds + 1)
    /\ index \in [Dir -> Stamp]
    /\ indexing \in BOOLEAN /\ indexError \in BOOLEAN /\ revised \in BOOLEAN
    /\ requests \in 0..MaxRequests

\* Coalescing loses nothing and leaks nothing: a refresh is pending only behind
\* a scan that will run it, the registry says "indexing" exactly then, one scan
\* runs at a time, and its one result carries the current generation.
RefreshHasAScan ==
    /\ refreshPending => indexTask
    /\ indexTask <=> indexing
    /\ indexTask <=> scan.phase # "idle"
    /\ indexTask => scan.generation = generation
    /\ Cardinality({k \in DOMAIN ready : ready[k].id = None})
          = IF scan.phase = "done" THEN 1 ELSE 0

\* A scan that has not read directory d yet is going to.
WillRead(d) == \/ refreshPending \/ scan.phase = "submitted" \/ d \in scan.todo
               \/ (scan.phase # "idle" /\ scan.seen[d] = disk[d].changed)
\* A scan that has not found it, or was cut short, is going to drop its watch.
WillDrop(d) == scan.phase \in {"reading", "done"} /\ d \notin scan.found
ScanFailed == indexError \/ \E k \in DOMAIN ready : ready[k].kind = "IndexFailed"
Reports(i) == \/ watch[i].event
              \/ \E k \in DOMAIN ready : ready[k].id = i /\ ready[k].kind # "Failed"

\* "Starting a new watch requests a verification scan, closing the event gap
\* between the preceding snapshot and native watcher activation"
\* (docs/projects.md): once a watch follows its directory, a published index that
\* differs from the directory always has a report or another scan on the way, or a
\* scan that will end the watch, wherever the change fell between scan, publication,
\* start and coalescing.
NoEventGap ==
    \A d \in Dir : LET i == retained[d] IN
        /\ i # None
        /\ Follows(i, d) /\ ~ScanFailed /\ index[d] # disk[d].changed
        => WillRead(d) \/ Reports(i) \/ WillDrop(d)

\* A watch that replace_watches() dropped is told to stop and goes away, and one
\* it retains was never stopped.
RetainedAreNotStopped ==
    \A i \in Id : watch[i].state # "unused" =>
        (watch[i].stopped => i \notin {retained[d] : d \in Dir})

\* Every handle of a dropped watch is eventually closed and forgotten.
DroppedWatchesClose == \A i \in Id : watch[i].stopped ~> watch[i].state \notin Known

\* A watch that has ended in failure, or whose directory was replaced under it.
Blind(d) == LET i == retained[d] IN
            /\ i # None
            /\ \/ watch[i].state = "failed"
               \/ watch[i].state = "active" /\ watch[i].born # disk[d].born

\* When the disk is left alone the index comes to agree with it wherever the
\* service has a watch that can see, unless the last scan failed.
IndexConverges ==
    \A d \in Dir : <>[](indexError \/ ~revised \/ retained[d] = None \/ Blind(d)
                        \/ index[d] = disk[d].changed)
=============================================================================
