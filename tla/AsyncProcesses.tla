--------------------------- MODULE AsyncProcesses ---------------------------
(***************************************************************************)
(* The child-process half of AsyncRuntime (async/runtime.cpp): the loop    *)
(* thread's view of one libuv process handle and three pipes per child,    *)
(* the editor thread that spawns, writes, closes, terminates and drains,   *)
(* and the children themselves.                                            *)
(*                                                                         *)
(* External code modelled from its use: libuv defers every close callback  *)
(* to the end of the loop iteration and runs the closed handles last in,   *)
(* first out; closing a pipe first fails its unwritten requests; uv_run    *)
(* returns when every handle is closed. The signalling of the command      *)
(* queue and the wakeup are AsyncTasks' subject and left out here.         *)
(***************************************************************************)
EXTENDS Integers, Sequences, SequencesExt, FiniteSets

CONSTANTS
    Proc,        \* the children that may be spawned, each at most once
    Streaming,   \* the output pipes whose chunks have a callback
    MaxWrites,   \* bound: writes per child
    MaxChunks    \* bound: reads per child

Output == {"out", "err"}
Pipe   == {"in"} \cup Output

ASSUME StreamAssumption == Streaming \subseteq Output
ASSUME BoundAssumption  == MaxWrites \in Nat /\ MaxChunks \in Nat
ASSUME ProcAssumption   == IsFiniteSet(Proc)

VARIABLES
    \* the editor thread
    pending,         \* the batch drain() took and has not finished
    calling,         \* the head of the batch is running its callback
    writes,          \* write() calls per child (a bound)
    told,            \* the callbacks each child's owner has had, in order
    \* shared
    processes,       \* the map of known processes
    outstanding,     \* the counter behind has_work()
    stopped,         \* Process::stopped
    commands, ready, shuttingDown,
    \* the loop thread
    looper,          \* "poll", "drain" (commands), "shutdown" or "exit"
    proc,            \* the plain fields of Process
    pipe,            \* ProcessPipe: initialized and closing
    handle,          \* the uv_process_t
    requests,        \* the uv_write_t's libuv holds, oldest first
    closing,         \* handles closed in this iteration, newest first
    closeBatch,      \* those whose close callbacks are running
    shutdownStarted,
    toStop,          \* what is left of begin_shutdown's list of processes
    \* the operating system
    child,           \* each child, and whether it has had SIGKILL
    reads,           \* chunks read so far (a bound)
    \* for the properties only
    fate             \* what the owner has been told

editorVars == <<pending, calling, writes, told>>
sharedVars == <<processes, outstanding, stopped, commands, ready, shuttingDown>>
handleVars == <<pipe, handle, requests, closing>>
loopVars   == <<looper, closeBatch, shutdownStarted, toStop>>
osVars     == <<child, reads>>
vars == <<editorVars, sharedVars, proc, handleVars, loopVars, osVars, fate>>

Terminal == {"Completed", "Cancelled", "Failed"}
FateOf   == [Completed |-> "completed", Cancelled |-> "cancelled", Failed |-> "failed"]
Fields   == {"started", "exited", "handleClosed", "finished", "suppress", "exception"}
Record(k, p) == [kind |-> k, process |-> p]

Init ==
    /\ pending = <<>> /\ calling = FALSE
    /\ writes = [p \in Proc |-> 0] /\ told = [p \in Proc |-> <<>>]
    /\ processes = {} /\ outstanding = 0
    /\ stopped = [p \in Proc |-> FALSE]
    /\ commands = <<>> /\ ready = <<>> /\ shuttingDown = FALSE
    /\ looper = "poll" /\ closeBatch = <<>> /\ shutdownStarted = FALSE
    /\ toStop = {}
    /\ proc = [p \in Proc |-> [f \in Fields |-> FALSE]]
    /\ pipe = [p \in Proc |-> [s \in Pipe |-> "none"]]
    /\ handle = [p \in Proc |-> "none"]
    /\ requests = [p \in Proc |-> <<>>]
    /\ closing = <<>>
    /\ child = [p \in Proc |-> "none"] /\ reads = [p \in Proc |-> 0]
    /\ fate = [p \in Proc |-> "new"]

-----------------------------------------------------------------------------
(* The editor thread.                                                      *)

InEditor == ~shuttingDown
Post(k, p) == commands' = Append(commands, Record(k, p))

\* A spawn() or write() whose command cannot be allocated leaves nothing behind.
Spawn(p) ==
    /\ InEditor /\ fate[p] = "new"
    /\ processes' = processes \cup {p}
    /\ outstanding' = outstanding + 1
    /\ fate' = [fate EXCEPT ![p] = "open"]
    /\ Post("Start", p)
    /\ UNCHANGED <<editorVars, stopped, ready, shuttingDown, proc, handleVars, loopVars,
                   osVars>>

Write(p) ==
    /\ InEditor /\ p \in processes /\ ~stopped[p]
    /\ writes[p] < MaxWrites /\ writes' = [writes EXCEPT ![p] = @ + 1]
    /\ Post("Write", p)
    /\ UNCHANGED <<pending, calling, told, processes, outstanding, stopped, ready,
                   shuttingDown, proc, handleVars, loopVars, osVars, fate>>

\* Repeated calls find the pipe closing and change nothing.
CloseInput(p) ==
    /\ InEditor /\ p \in processes
    /\ Record("CloseInput", p) \notin Range(commands) /\ pipe[p]["in"] \in {"none", "open"}
    /\ Post("CloseInput", p)
    /\ UNCHANGED <<editorVars, processes, outstanding, stopped, ready, shuttingDown,
                   proc, handleVars, loopVars, osVars, fate>>

\* A command that cannot be allocated is swallowed, and no later call sends it.
Terminate(p) ==
    /\ InEditor /\ p \in processes /\ ~stopped[p]
    /\ stopped' = [stopped EXCEPT ![p] = TRUE]
    /\ Post("Terminate", p) \/ UNCHANGED commands
    /\ UNCHANGED <<editorVars, processes, outstanding, ready, shuttingDown, proc,
                   handleVars, loopVars, osVars, fate>>

Drain ==
    /\ InEditor /\ pending = <<>> /\ ready # <<>>
    /\ pending' = ready /\ ready' = <<>>
    /\ UNCHANGED <<calling, writes, told, processes, outstanding, stopped, commands,
                   shuttingDown, proc, handleVars, loopVars, osVars, fate>>

RunCallback ==
    /\ InEditor /\ ~calling /\ pending # <<>>
    /\ calling' = TRUE
    /\ LET r == Head(pending) IN
          /\ told' = [told EXCEPT ![r.process] = Append(@, r.kind)]
          /\ fate' = IF r.kind \in Terminal
                     THEN [fate EXCEPT ![r.process] = FateOf[r.kind]] ELSE fate
    /\ UNCHANGED <<pending, writes, sharedVars, proc, handleVars, loopVars, osVars>>

CallbackReturns ==
    /\ InEditor /\ calling
    /\ calling' = FALSE
    /\ pending' = Tail(pending)
    /\ outstanding' = outstanding - (IF Head(pending).kind \in Terminal THEN 1 ELSE 0)
    /\ UNCHANGED <<writes, told, processes, stopped, commands, ready, shuttingDown,
                   proc, handleVars, loopVars, osVars, fate>>

Destroy ==
    /\ InEditor /\ ~calling /\ pending = <<>>
    /\ shuttingDown' = TRUE
    /\ UNCHANGED <<editorVars, processes, outstanding, stopped, commands, ready, proc,
                   handleVars, loopVars, osVars, fate>>

\* Mutant: undrained chunks and starts are uncounted as well.
JoinedMiscounts ==
    /\ looper = "exit" /\ ready # <<>>
    /\ outstanding' = outstanding - Len(ready)
    /\ fate' = [p \in Proc |-> IF \E r \in Range(ready) : r.process = p /\ r.kind \in Terminal
                               THEN "discarded" ELSE fate[p]]
    /\ ready' = <<>>
    /\ UNCHANGED <<editorVars, processes, stopped, commands, shuttingDown, proc,
                   handleVars, loopVars, osVars>>

\* After join() the undrained records are dropped, the terminal ones uncounted.
Joined ==
    /\ looper = "exit" /\ ready # <<>>
    /\ outstanding' = outstanding - Cardinality({i \in DOMAIN ready : ready[i].kind \in Terminal})
    /\ fate' = [p \in Proc |-> IF \E r \in Range(ready) : r.process = p /\ r.kind \in Terminal
                               THEN "discarded" ELSE fate[p]]
    /\ ready' = <<>>
    /\ UNCHANGED <<editorVars, processes, stopped, commands, shuttingDown, proc,
                   handleVars, loopVars, osVars>>

-----------------------------------------------------------------------------
(* The children.                                                           *)

\* A child ends by itself, or because of a signal; SIGKILL leaves no choice.
ChildDies(p) ==
    /\ child[p] \in {"alive", "killed"}
    /\ child' = [child EXCEPT ![p] = "dead"]
    /\ UNCHANGED <<editorVars, sharedVars, proc, handleVars, loopVars, reads, fate>>

\* The pipe takes the rest of the oldest unwritten request.
ChildReads(p) ==
    /\ pipe[p]["in"] = "open"
    /\ \E i \in DOMAIN requests[p] :
          /\ requests[p][i] = "queued"
          /\ \A j \in 1..(i - 1) : requests[p][j] = "written"
          /\ requests' = [requests EXCEPT ![p][i] = "written"]
    /\ UNCHANGED <<editorVars, sharedVars, proc, pipe, handle, closing, loopVars,
                   osVars, fate>>

-----------------------------------------------------------------------------
(* The loop thread: closing and finishing.                                 *)

\* What close_process_pipe() closes; uv_close() puts it in front of the others.
Closed(p, pp, s)    == IF pp[s] = "open" THEN <<<<p, s>>>> ELSE <<>>
AfterClose(pp, closed) == [s \in Pipe |-> IF s \in closed /\ pp[s] = "open"
                                          THEN "closing" ELSE pp[s]]

ClosePipe(p, s) ==
    /\ pipe' = [pipe EXCEPT ![p] = AfterClose(@, {s})]
    /\ closing' = Closed(p, pipe[p], s) \o closing

\* All three in some order, the last one foremost; the process handle is closed at most once.
AllPipes == <<"in", "out", "err">>
ClosedInOrder(p, pp, order) ==
    Closed(p, pp, order[3]) \o Closed(p, pp, order[2]) \o Closed(p, pp, order[1])
ClosedChild(p) == <<<<p, "child">>>>

With(q, fields) == [f \in Fields |-> f \in fields \/ q[f]]

\* The handler ends with Process fields q and pipes pp and no longer looks.
Store(p, q) ==
    /\ proc' = [proc EXCEPT ![p] = q]
    /\ UNCHANGED <<processes, outstanding, ready, fate>>

\* Mutant: the pipes are not waited for.
CanFinishOnExit(q, pp) == ~q.finished /\ q.exited /\ q.handleClosed

CanFinish(q, pp) == /\ ~q.finished /\ q.exited /\ q.handleClosed
                    /\ \A s \in Pipe : pp[s] \in {"none", "closed"}

\* Mutant: a stop request hides an exception.
EndStopFirst(p, q) == CASE stopped[p] -> "Cancelled"
                        [] ~stopped[p] /\ q.exception -> "Failed"
                        [] OTHER -> "Completed"

End(p, q) == CASE q.exception -> "Failed"
               [] ~q.exception /\ stopped[p] -> "Cancelled"
               [] OTHER -> "Completed"

\* Its owner is told, unless the runtime is shutting down.
Report(p, q) ==
    /\ processes' = processes \ {p}
    /\ IF q.suppress \/ shuttingDown
       THEN /\ outstanding' = outstanding - 1
            /\ fate' = [fate EXCEPT ![p] = "discarded"]
            /\ UNCHANGED ready
       ELSE /\ ready' = Append(ready, Record(End(p, q), p))
            /\ UNCHANGED <<outstanding, fate>>

\* Mutant: nothing remembers that the process has finished.
MaybeFinishAgain(p, q, pp) ==
    IF CanFinish(q, pp) THEN proc' = [proc EXCEPT ![p] = q] /\ Report(p, q) ELSE Store(p, q)

\* maybe_finish_process(), the last call of the handlers that use it.
MaybeFinish(p, q, pp) ==
    IF CanFinish(q, pp)
    THEN proc' = [proc EXCEPT ![p] = With(q, {"finished"})] /\ Report(p, q)
    ELSE Store(p, q)

-----------------------------------------------------------------------------
(* The loop thread: commands.                                              *)

Unspawned == UNCHANGED <<handle, child>>

StartProcess(p) ==
    LET q == proc[p] IN
    /\ UNCHANGED <<requests, reads>>
    /\ \/ /\ q.finished
          /\ Store(p, q) /\ UNCHANGED <<pipe, closing>> /\ Unspawned
       \/ /\ ~q.finished /\ (shuttingDown \/ stopped[p])
          /\ MaybeFinish(p, With(q, {"exited", "handleClosed"}
                                    \cup (IF shuttingDown THEN {"suppress"} ELSE {})), pipe[p])
          /\ UNCHANGED <<pipe, closing>> /\ Unspawned
       \/ \* uv_pipe_init fails, or an allocation before uv_spawn throws, with the
          \* first n pipes initialized
          /\ ~q.finished /\ ~shuttingDown /\ ~stopped[p]
          /\ \E n \in 0..3 :
                LET pp == [s \in Pipe |-> IF s \in Range(SubSeq(AllPipes, 1, n))
                                          THEN "open" ELSE "none"] IN
                /\ pipe' = [pipe EXCEPT ![p] = AfterClose(pp, Pipe)]
                /\ closing' = ClosedInOrder(p, pp, AllPipes) \o closing
                /\ MaybeFinish(p, With(q, {"exited", "handleClosed", "exception"}),
                               AfterClose(pp, Pipe))
          /\ Unspawned
       \/ \* uv_spawn fails, after initializing the process handle
          /\ ~q.finished /\ ~shuttingDown /\ ~stopped[p]
          /\ pipe' = [pipe EXCEPT ![p] = [s \in Pipe |-> "closing"]]
          /\ closing' = ClosedInOrder(p, [s \in Pipe |-> "open"], AllPipes) \o ClosedChild(p) \o closing
          /\ MaybeFinish(p, With(q, {"exited", "exception"}), [s \in Pipe |-> "closing"])
          /\ handle' = [handle EXCEPT ![p] = "closing"]
          /\ UNCHANGED child
       \/ \* uv_spawn succeeds and both outputs are being read
          /\ ~q.finished /\ ~shuttingDown /\ ~stopped[p]
          /\ pipe' = [pipe EXCEPT ![p] = [s \in Pipe |-> "open"]]
          /\ handle' = [handle EXCEPT ![p] = "open"]
          /\ child' = [child EXCEPT ![p] = "alive"]
          /\ proc' = [proc EXCEPT ![p] = With(q, {"started"})]
          /\ ready' = Append(ready, Record("Started", p))
          /\ UNCHANGED <<closing, processes, outstanding, fate>>
       \/ \* uv_spawn succeeds and uv_read_start fails: SIGTERM and an exception
          /\ ~q.finished /\ ~shuttingDown /\ ~stopped[p]
          /\ pipe' = [pipe EXCEPT ![p] = [s \in Pipe |-> "closing"]]
          /\ \E order \in {<<"out", "in", "err">>, <<"err", "in", "out">>} :
                closing' = ClosedInOrder(p, [s \in Pipe |-> "open"], order) \o closing
          /\ handle' = [handle EXCEPT ![p] = "open"]
          /\ child' = [child EXCEPT ![p] = "alive"]
          /\ Store(p, With(q, {"started", "exception"}))

\* uv_write takes the request, having written all of it or part of it, or
\* refuses it, which closes stdin.
WriteProcess(p) ==
    LET q == proc[p] IN
    /\ UNCHANGED <<handle, child, reads>>
    /\ \/ /\ q.finished \/ pipe[p]["in"] # "open"
          /\ Store(p, q) /\ UNCHANGED <<pipe, closing, requests>>
       \/ /\ ~q.finished /\ pipe[p]["in"] = "open"
          /\ \E r \in {"queued"} \cup (IF "queued" \in Range(requests[p]) THEN {} ELSE {"written"}) :
                requests' = [requests EXCEPT ![p] = Append(@, r)]
          /\ Store(p, q) /\ UNCHANGED <<pipe, closing>>
       \/ /\ ~q.finished /\ pipe[p]["in"] = "open"
          /\ ClosePipe(p, "in")
          /\ Store(p, With(q, {"exception"})) /\ UNCHANGED requests

CloseProcessInput(p) ==
    /\ ClosePipe(p, "in")
    /\ Store(p, proc[p]) /\ UNCHANGED <<handle, child, requests, reads>>

\* SIGTERM may or may not end the child; uv_process_kill itself may fail.
TerminateProcess(p, signal) ==
    LET q == [proc[p] EXCEPT !.suppress = @ \/ signal = "SIGKILL"] IN
    /\ UNCHANGED <<pipe, handle, closing, requests, reads>>
    /\ \/ /\ q.finished
          /\ Store(p, q) /\ UNCHANGED child
       \/ /\ ~q.finished /\ ~q.started
          /\ MaybeFinish(p, With(q, {"exited", "handleClosed"}), pipe[p])
          /\ UNCHANGED child
       \/ /\ ~q.finished /\ q.started /\ q.exited
          /\ Store(p, q) /\ UNCHANGED child
       \/ /\ ~q.finished /\ q.started /\ ~q.exited
          /\ child' = [child EXCEPT ![p] = IF signal = "SIGKILL" /\ @ = "alive"
                                           THEN "killed" ELSE @]
          /\ Store(p, q)
       \/ /\ ~q.finished /\ q.started /\ ~q.exited /\ signal # "SIGKILL"
          /\ Store(p, With(q, {"exception"})) /\ UNCHANGED child

DrainCommands ==
    /\ looper = "poll" /\ closeBatch = <<>> /\ commands # <<>> /\ ~shutdownStarted
    /\ looper' = "drain"
    /\ UNCHANGED <<editorVars, sharedVars, proc, handleVars, closeBatch,
                   shutdownStarted, toStop, osVars, fate>>

DrainCommand ==
    /\ looper = "drain" /\ commands # <<>>
    /\ commands' = Tail(commands)
    /\ LET p == Head(commands).process
           k == Head(commands).kind IN
       \/ k = "Start" /\ StartProcess(p)
       \/ k = "Write" /\ WriteProcess(p)
       \/ k = "CloseInput" /\ CloseProcessInput(p)
       \/ k = "Terminate" /\ TerminateProcess(p, "SIGTERM")
    /\ UNCHANGED <<editorVars, stopped, shuttingDown, loopVars>>

\* begin_shutdown() copies the map and then works through the copy.
BeginShutdown ==
    /\ ~shutdownStarted /\ shuttingDown
    /\ \/ looper = "drain" /\ commands = <<>>
       \/ looper = "poll" /\ closeBatch = <<>>
    /\ shutdownStarted' = TRUE
    /\ toStop' = processes
    /\ looper' = "shutdown"
    /\ UNCHANGED <<editorVars, sharedVars, proc, handleVars, closeBatch, osVars, fate>>

DrainDone ==
    /\ looper = "drain" /\ commands = <<>> /\ ~shuttingDown
    /\ looper' = "poll"
    /\ UNCHANGED <<editorVars, sharedVars, proc, handleVars, closeBatch,
                   shutdownStarted, toStop, osVars, fate>>

\* Mutant: the shutdown asks where it should kill.
ShutdownProcessAsks(p) ==
    /\ looper = "shutdown" /\ p \in toStop
    /\ toStop' = toStop \ {p}
    /\ stopped' = [stopped EXCEPT ![p] = TRUE]
    /\ TerminateProcess(p, "SIGTERM")
    /\ UNCHANGED <<editorVars, commands, shuttingDown, looper, closeBatch,
                   shutdownStarted>>

ShutdownProcess(p) ==
    /\ looper = "shutdown" /\ p \in toStop
    /\ toStop' = toStop \ {p}
    /\ stopped' = [stopped EXCEPT ![p] = TRUE]
    /\ TerminateProcess(p, "SIGKILL")
    /\ UNCHANGED <<editorVars, commands, shuttingDown, looper, closeBatch,
                   shutdownStarted>>

ShutdownDone ==
    /\ looper = "shutdown" /\ toStop = {}
    /\ looper' = "poll"
    /\ UNCHANGED <<editorVars, sharedVars, proc, handleVars, closeBatch,
                   shutdownStarted, toStop, osVars, fate>>

-----------------------------------------------------------------------------
(* The loop thread: libuv callbacks.                                       *)

Polling == looper = "poll" /\ closeBatch = <<>>

\* on_process_read with data: a chunk for the stream's callback, or captured,
\* or (past 64 MiB) an exception that closes the pipe.
OnRead(p, s) ==
    /\ Polling /\ pipe[p][s] = "open" /\ reads[p] < MaxChunks
    /\ reads' = [reads EXCEPT ![p] = @ + 1]
    /\ \/ /\ s \in Streaming
          /\ ready' = Append(ready, Record("Chunk", p))
          /\ UNCHANGED <<proc, processes, outstanding, fate, pipe, closing>>
       \/ /\ s \notin Streaming
          /\ Store(p, proc[p]) /\ UNCHANGED <<pipe, closing>>
       \/ /\ s \notin Streaming
          /\ Store(p, With(proc[p], {"exception"})) /\ ClosePipe(p, s)
    /\ UNCHANGED <<editorVars, stopped, commands, shuttingDown, handle, requests,
                   loopVars, child>>

\* on_process_read with end of file or an error.
OnReadEnd(p, s) ==
    /\ Polling /\ pipe[p][s] = "open"
    /\ \/ Store(p, proc[p])
       \/ Store(p, With(proc[p], {"exception"}))
    /\ ClosePipe(p, s)
    /\ UNCHANGED <<editorVars, stopped, commands, shuttingDown, handle, requests,
                   loopVars, osVars>>

\* on_process_write: a finished request is freed, a failed one closes stdin.
OnWrite(p) ==
    /\ Polling /\ requests[p] # <<>> /\ pipe[p]["in"] = "open"
    /\ requests' = [requests EXCEPT ![p] = Tail(@)]
    /\ \/ /\ Head(requests[p]) = "written"
          /\ Store(p, proc[p]) /\ UNCHANGED <<pipe, closing>>
       \/ /\ Head(requests[p]) = "queued"
          /\ Store(p, With(proc[p], {"exception"})) /\ ClosePipe(p, "in")
    /\ UNCHANGED <<editorVars, stopped, commands, shuttingDown, handle, loopVars,
                   osVars>>

\* Mutant: the exit closes the pipes and forgets the process handle.
OnExitKeepsHandle(p) ==
    /\ Polling /\ child[p] = "dead" /\ handle[p] = "open" /\ ~proc[p].exited
    /\ IF p \in processes
       THEN /\ Store(p, With(proc[p], {"exited"}))
            /\ pipe' = [pipe EXCEPT ![p] = AfterClose(@, Pipe)]
            /\ closing' = ClosedInOrder(p, pipe[p], AllPipes) \o closing
       ELSE Store(p, proc[p]) /\ UNCHANGED <<pipe, closing>>
    /\ UNCHANGED <<editorVars, stopped, commands, shuttingDown, handle, requests, loopVars,
                   osVars>>

OnExit(p) ==
    /\ Polling /\ child[p] = "dead" /\ handle[p] = "open"
    /\ IF p \in processes
       THEN /\ Store(p, With(proc[p], {"exited"}))
            /\ pipe' = [pipe EXCEPT ![p] = AfterClose(@, Pipe)]
            /\ closing' = ClosedChild(p) \o ClosedInOrder(p, pipe[p], AllPipes) \o closing
            /\ handle' = [handle EXCEPT ![p] = "closing"]
       ELSE Store(p, proc[p]) /\ UNCHANGED <<pipe, handle, closing>>
    /\ UNCHANGED <<editorVars, stopped, commands, shuttingDown, requests, loopVars,
                   osVars>>

\* The end of an iteration: the handles closed so far get their callbacks.
RunClosing ==
    /\ Polling /\ closing # <<>>
    /\ closeBatch' = closing /\ closing' = <<>>
    /\ UNCHANGED <<editorVars, sharedVars, proc, pipe, handle, requests, looper,
                   shutdownStarted, toStop, osVars, fate>>

\* Closing stdin first gives its unwritten requests UV_ECANCELED, which
\* fail_process_write() turns into an exception and SIGTERM.
OnClosed ==
    /\ looper = "poll" /\ closeBatch # <<>>
    /\ closeBatch' = Tail(closeBatch)
    /\ LET p == Head(closeBatch)[1]
           s == Head(closeBatch)[2] IN
       IF s = "child"
       THEN \* of a process that has ended already this is what intact memory gives
            /\ handle' = [handle EXCEPT ![p] = "closed"]
            /\ IF p \in processes
               THEN MaybeFinish(p, With(proc[p], {"handleClosed"}), pipe[p])
               ELSE Store(p, proc[p])
            /\ UNCHANGED <<pipe, requests>>
       ELSE LET pp == [pipe[p] EXCEPT ![s] = "closed"]
                failed == s = "in" /\ "queued" \in Range(requests[p]) IN
            /\ pipe' = [pipe EXCEPT ![p] = pp]
            /\ requests' = IF s = "in" THEN [requests EXCEPT ![p] = <<>>] ELSE requests
            /\ MaybeFinish(p, With(proc[p], IF failed THEN {"exception"} ELSE {}), pp)
            /\ UNCHANGED handle
    /\ UNCHANGED <<editorVars, stopped, commands, shuttingDown, closing, looper,
                   shutdownStarted, toStop, osVars>>

LoopExit ==
    /\ Polling /\ shutdownStarted /\ closing = <<>>
    /\ \A p \in Proc : handle[p] \in {"none", "closed"}
                       /\ \A s \in Pipe : pipe[p][s] \in {"none", "closed"}
    /\ looper' = "exit"
    /\ UNCHANGED <<editorVars, sharedVars, proc, handleVars, closeBatch,
                   shutdownStarted, toStop, osVars, fate>>

-----------------------------------------------------------------------------
LoopThread == DrainCommands \/ DrainCommand \/ DrainDone \/ BeginShutdown \/ ShutdownDone
              \/ RunClosing \/ OnClosed \/ LoopExit
              \/ \E p \in Proc : OnExit(p) \/ ShutdownProcess(p)

Next ==
    \/ \E p \in Proc : \/ Spawn(p) \/ Write(p) \/ CloseInput(p) \/ Terminate(p)
                       \/ ChildDies(p) \/ ChildReads(p) \/ OnWrite(p)
                       \/ \E s \in Output : OnRead(p, s) \/ OnReadEnd(p, s)
    \/ Drain \/ RunCallback \/ CallbackReturns \/ Destroy \/ Joined
    \/ LoopThread

Spec == Init /\ [][Next]_vars

\* The loop thread and the editor's event loop keep running, and SIGKILL works;
\* nothing makes a child that was asked to terminate do so.
Fairness ==
    /\ WF_vars(LoopThread) /\ WF_vars(Joined)
    /\ WF_vars(Drain) /\ WF_vars(RunCallback) /\ WF_vars(CallbackReturns)
    /\ \A p \in Proc : WF_vars(child[p] = "killed" /\ ChildDies(p))

FairSpec == Spec /\ Fairness

-----------------------------------------------------------------------------
(* Properties.                                                             *)

Kinds   == {"Started", "Chunk"} \cup Terminal
Records == [kind : Kinds, process : Proc]
Orders  == [kind : {"Start", "Write", "CloseInput", "Terminate"}, process : Proc]
Fates   == {"new", "open", "completed", "cancelled", "failed", "discarded"}

\* Types of the variables (proved; see AsyncProcessesProofs).
TypeOK ==
    /\ pending \in Seq(Records) /\ ready \in Seq(Records)
    /\ calling \in BOOLEAN /\ (calling => pending # <<>>)
    /\ writes \in [Proc -> Nat] /\ reads \in [Proc -> Nat]
    /\ told \in [Proc -> Seq(Kinds)] /\ fate \in [Proc -> Fates]
    /\ processes \subseteq Proc /\ toStop \subseteq Proc
    /\ outstanding \in Nat /\ stopped \in [Proc -> BOOLEAN]
    /\ commands \in Seq(Orders)
    /\ shuttingDown \in BOOLEAN /\ shutdownStarted \in BOOLEAN
    /\ looper \in {"poll", "drain", "shutdown", "exit"}
    /\ proc \in [Proc -> [Fields -> BOOLEAN]]
    /\ pipe \in [Proc -> [Pipe -> {"none", "open", "closing", "closed"}]]
    /\ handle \in [Proc -> {"none", "open", "closing", "closed"}]
    /\ requests \in [Proc -> Seq({"queued", "written"})]
    /\ closing \in Seq(Proc \X (Pipe \cup {"child"}))
    /\ closeBatch \in Seq(Proc \X (Pipe \cup {"child"}))
    /\ child \in [Proc -> {"none", "alive", "killed", "dead"}]

\* has_work() is exact for children too, whichever of the ways to end they take.
OutstandingIsExact ==
    outstanding = Cardinality({p \in Proc : fate[p] = "open"})
                  + (IF calling /\ Head(pending).kind \in Terminal THEN 1 ELSE 0)

\* An owner hears of the start first and of the end last and once, whatever the
\* order in which exit, end of file, writes, commands and close callbacks ran.
CallbacksInOrder ==
    \A p \in Proc : \A i \in DOMAIN told[p] :
        /\ told[p][i] = "Started" => i = 1
        /\ told[p][i] \in Terminal => i = Len(told[p])
        /\ told[p][i] = "Chunk" => told[p][1] = "Started"

\* A callback finds its process: on_process_read puts the result of find_process()
\* into a record unchecked, an exit that is not found would leave the handle, and so
\* the loop, open for ever, and the close callbacks read the Process they are about.
\* One callback need not: after a failed uv_spawn and a stop, on_process_closed meets a
\* process that terminate_process let finish without waiting for its handle.
LiveHandlesAreKnown ==
    \A p \in Proc :
        /\ handle[p] = "open" \/ (\E s \in Pipe : pipe[p][s] \in {"open", "closing"})
              => p \in processes
        /\ handle[p] = "closing" => p \in processes \/ (~proc[p].started /\ stopped[p])

\* A child that was neither stopped nor failed completes, and one that failed is
\* never reported as completed or merely cancelled.
EndIsTruthful ==
    \A r \in Range(ready) : LET p == r.process IN
        /\ r.kind = "Completed" => ~proc[p].exception /\ child[p] = "dead"
        /\ r.kind = "Cancelled" => stopped[p] /\ ~proc[p].exception
        /\ r.kind = "Failed" => proc[p].exception

\* Once its child is dead a process ends in a callback or with the runtime.
ExitIsTold == \A p \in Proc : child[p] = "dead" ~> fate[p] # "open"

\* The destructor returns: SIGKILL and the close callbacks empty the loop.
DestroyReturns == shuttingDown ~> looper = "exit"
=============================================================================
