----------------------------- MODULE AsyncTasks -----------------------------
(***************************************************************************)
(* The worker-task half of AsyncRuntime (async/runtime.cpp) and its        *)
(* shutdown: the editor thread, the libuv loop thread and the worker pool, *)
(* one action for each step another thread can see.                        *)
(*                                                                         *)
(* External code modelled from its use: libuv's async handles (several     *)
(* uv_async_send calls may become one callback), its worker pool           *)
(* (uv_queue_work, uv_cancel) and uv_run, which returns when no handle or  *)
(* request is active; and the frontend's wakeup channel, which coalesces.  *)
(***************************************************************************)
EXTENDS Integers, Sequences, FiniteSets

CONSTANTS
    Task,         \* the tasks that may be submitted, each at most once
    NoTask,       \* not a task
    Handles,      \* watches and children already running on the loop
    PoolSize,     \* threads of libuv's worker pool
    MaxCancels    \* bound: how often cancel() may find a task

ASSUME TaskAssumption  == IsFiniteSet(Task) /\ NoTask \notin Task
ASSUME BoundAssumption == PoolSize \in Nat \ {0} /\ MaxCancels \in Nat

VARIABLES
    \* the editor thread
    editor,          \* where it is: a call under way, or its own event loop
    arg,             \* the task that call is about
    pending,         \* the batch drain() took and has not finished
    calling,         \* the head of the batch is running its callback
    cancels,         \* cancel() calls so far (a bound, not in the code)
    \* shared with the loop thread
    tasks,           \* the tasks still known to the runtime
    outstanding,     \* the counter behind has_work()
    stop,            \* each task's stop source
    commands,        \* the command queue
    signalled,       \* submit_async has been sent and not yet served
    ready,           \* the ready queue
    wakeup,          \* the frontend has been told to drain
    shuttingDown,    \* ~Impl has begun
    shutdownSignal,  \* shutdown_async has been sent
    \* the loop thread and the worker pool
    looper,          \* "poll", "drain" (commands), "worked" (after_work) or "exit"
    notify,          \* it has published a record and owes the wakeup
    finished,        \* tasks whose outcome has been decided
    work,            \* each task's libuv request
    result,          \* what run_work made of each task
    activeRequests,
    shutdownStarted,
    asyncClosed,     \* both async handles have been closed
    handles,         \* watches and children that are still running
    \* what the owner of each task has seen (not in the code)
    fate

editorVars == <<editor, arg, cancels>>
batchVars  == <<pending, calling>>
queueVars  == <<commands, signalled>>
loopVars   == <<looper, notify, finished, activeRequests, shutdownStarted, asyncClosed,
                handles>>
downVars   == <<shuttingDown, shutdownSignal>>
vars == <<editorVars, batchVars, queueVars, loopVars, downVars, tasks, outstanding,
          stop, ready, wakeup, work, result, fate>>

Lifecycle == INSTANCE TaskLifecycle WITH closing <- shuttingDown

Command == [kind : {"Submit", "Cancel"}, task : Task]
Ready   == [kind : {"Completed", "Cancelled", "Failed"}, task : Task]
FateOf  == [Completed |-> "completed", Cancelled |-> "cancelled", Failed |-> "failed"]

\* "queued" is waiting for a thread; "done" and "cancelled" wait for after_work.
WorkState == {"none", "queued", "running", "done", "cancelled"}
Queued(t) == work[t] # "none"

Init ==
    /\ editor = "loop" /\ arg = NoTask /\ cancels = 0
    /\ pending = <<>> /\ calling = FALSE
    /\ tasks = {} /\ outstanding = 0
    /\ stop = [t \in Task |-> FALSE]
    /\ commands = <<>> /\ signalled = FALSE
    /\ ready = <<>> /\ wakeup = FALSE
    /\ shuttingDown = FALSE /\ shutdownSignal = FALSE
    /\ looper = "poll" /\ notify = FALSE
    /\ finished = {}
    /\ work = [t \in Task |-> "none"]
    /\ result = [t \in Task |-> "none"]
    /\ activeRequests = 0
    /\ shutdownStarted = FALSE /\ asyncClosed = FALSE
    /\ handles = Handles
    /\ fate = [t \in Task |-> "new"]

-----------------------------------------------------------------------------
(* The editor thread: submit() and cancel(), from its event loop or from   *)
(* inside a callback that drain() is running.                              *)

Submit(t) ==
    /\ editor = "loop" /\ ~shuttingDown /\ fate[t] = "new"
    /\ tasks' = tasks \cup {t}
    /\ outstanding' = outstanding + 1
    /\ fate' = [fate EXCEPT ![t] = "open"]
    /\ editor' = "submit" /\ arg' = t
    /\ UNCHANGED <<cancels, batchVars, queueVars, loopVars, downVars, stop, ready,
                   wakeup, work, result>>

\* cancel() finds the task under tasks_mutex and lets go of the lock.
CancelFind(t) ==
    /\ editor = "loop" /\ t \in tasks
    /\ cancels < MaxCancels /\ cancels' = cancels + 1
    /\ editor' = "cancel" /\ arg' = t
    /\ UNCHANGED <<batchVars, queueVars, loopVars, downVars, tasks, outstanding, stop,
                   ready, wakeup, work, result, fate>>

CancelStop ==
    /\ editor = "cancel"
    /\ stop' = [stop EXCEPT ![arg] = TRUE]
    /\ editor' = "stopped"
    /\ UNCHANGED <<arg, cancels, batchVars, queueVars, loopVars, downVars, tasks,
                   outstanding, ready, wakeup, work, result, fate>>

\* enqueue(): the push under command_mutex, then uv_async_send.
Enqueue ==
    /\ editor \in {"submit", "stopped"}
    /\ LET kind == IF editor = "submit" THEN "Submit" ELSE "Cancel" IN
       commands' = Append(commands, [kind |-> kind, task |-> arg])
    /\ editor' = "send"
    /\ UNCHANGED <<arg, cancels, batchVars, signalled, loopVars, downVars, tasks,
                   outstanding, stop, ready, wakeup, work, result, fate>>

\* The push may fail to allocate: submit() takes the task back and rethrows,
\* cancel() leaves the stop request standing and returns true.
EnqueueThrows ==
    /\ editor \in {"submit", "stopped"}
    /\ IF editor = "submit"
       THEN /\ tasks' = tasks \ {arg}
            /\ outstanding' = outstanding - 1
            /\ fate' = [fate EXCEPT ![arg] = "rejected"]
       ELSE UNCHANGED <<tasks, outstanding, fate>>
    /\ editor' = "loop" /\ arg' = NoTask
    /\ UNCHANGED <<cancels, batchVars, queueVars, loopVars, downVars, stop, ready,
                   wakeup, work, result>>

Send ==
    /\ editor = "send"
    /\ signalled' = TRUE
    /\ editor' = "loop" /\ arg' = NoTask
    /\ UNCHANGED <<cancels, batchVars, commands, loopVars, downVars, tasks, outstanding,
                   stop, ready, wakeup, work, result, fate>>

-----------------------------------------------------------------------------
(* The editor thread: the frontend's event loop and drain().               *)

\* The frontend consumes its notification first and drains afterwards.
Woken ==
    /\ editor = "loop" /\ ~calling /\ pending = <<>> /\ wakeup
    /\ wakeup' = FALSE
    /\ editor' = "drain"
    /\ UNCHANGED <<arg, cancels, batchVars, queueVars, loopVars, downVars, tasks,
                   outstanding, stop, ready, work, result, fate>>

\* Mutant: the ready queue is copied and not emptied.
DrainCopies ==
    /\ editor = "drain"
    /\ pending' = ready
    /\ editor' = "loop"
    /\ UNCHANGED <<arg, cancels, calling, queueVars, loopVars, downVars, tasks,
                   outstanding, stop, ready, wakeup, work, result, fate>>

\* Mutant: one record is taken for each wakeup.
DrainOne ==
    /\ editor = "drain"
    /\ pending' = SubSeq(ready, 1, 1)
    /\ ready' = SubSeq(ready, 2, Len(ready))
    /\ editor' = "loop"
    /\ UNCHANGED <<arg, cancels, calling, queueVars, loopVars, downVars, tasks,
                   outstanding, stop, wakeup, work, result, fate>>

Drain ==
    /\ editor = "drain"
    /\ pending' = ready /\ ready' = <<>>
    /\ editor' = "loop"
    /\ UNCHANGED <<arg, cancels, calling, queueVars, loopVars, downVars, tasks,
                   outstanding, stop, wakeup, work, result, fate>>

RunCallback ==
    /\ editor = "loop" /\ ~calling /\ pending # <<>>
    /\ calling' = TRUE
    /\ fate' = [fate EXCEPT ![Head(pending).task] = FateOf[Head(pending).kind]]
    /\ UNCHANGED <<editorVars, pending, queueVars, loopVars, downVars, tasks,
                   outstanding, stop, ready, wakeup, work, result>>

\* The callback returns or throws; either way the record is accounted for.
CallbackReturns ==
    /\ editor = "loop" /\ calling
    /\ calling' = FALSE
    /\ pending' = Tail(pending)
    /\ outstanding' = outstanding - 1
    /\ UNCHANGED <<editorVars, queueVars, loopVars, downVars, tasks, stop, ready,
                   wakeup, work, result, fate>>

\* ~Impl: the store, then uv_async_send, then join.
Destroy ==
    /\ editor = "loop" /\ ~calling /\ pending = <<>>
    /\ shuttingDown' = TRUE
    /\ editor' = "destroy"
    /\ UNCHANGED <<arg, cancels, batchVars, queueVars, loopVars, shutdownSignal, tasks,
                   outstanding, stop, ready, wakeup, work, result, fate>>

SendShutdown ==
    /\ editor = "destroy"
    /\ shutdownSignal' = TRUE
    /\ editor' = "join"
    /\ UNCHANGED <<arg, cancels, batchVars, queueVars, loopVars, shuttingDown, tasks,
                   outstanding, stop, ready, wakeup, work, result, fate>>

\* Mutant: the discarded records stay counted.
JoinedUncounted ==
    /\ editor = "join" /\ looper = "exit"
    /\ fate' = [t \in Task |-> IF \E i \in DOMAIN ready : ready[i].task = t
                               THEN "discarded" ELSE fate[t]]
    /\ ready' = <<>>
    /\ editor' = "gone"
    /\ UNCHANGED <<arg, cancels, batchVars, queueVars, loopVars, downVars, tasks, stop,
                   outstanding, wakeup, work, result>>

\* Undrained records are discarded once the loop thread is gone.
Joined ==
    /\ editor = "join" /\ looper = "exit"
    /\ outstanding' = outstanding - Len(ready)
    /\ fate' = [t \in Task |-> IF \E i \in DOMAIN ready : ready[i].task = t
                               THEN "discarded" ELSE fate[t]]
    /\ ready' = <<>>
    /\ editor' = "gone"
    /\ UNCHANGED <<arg, cancels, batchVars, queueVars, loopVars, downVars, tasks, stop,
                   wakeup, work, result>>

-----------------------------------------------------------------------------
(* The worker pool.                                                        *)

WorkerStart(t) ==
    /\ work[t] = "queued"
    /\ Cardinality({u \in Task : work[u] = "running"}) < PoolSize
    /\ work' = [work EXCEPT ![t] = "running"]
    /\ UNCHANGED <<editorVars, batchVars, queueVars, loopVars, downVars, tasks,
                   outstanding, stop, ready, wakeup, result, fate>>

\* run_work: a completion, an acknowledged stop request, or an exception.
WorkerFinish(t) ==
    /\ work[t] = "running"
    /\ work' = [work EXCEPT ![t] = "done"]
    /\ \E r \in {"completion", "exception"} \cup (IF stop[t] THEN {"acknowledged"} ELSE {}) :
          result' = [result EXCEPT ![t] = r]
    /\ UNCHANGED <<editorVars, batchVars, queueVars, loopVars, downVars, tasks,
                   outstanding, stop, ready, wakeup, fate>>

-----------------------------------------------------------------------------
(* The loop thread.                                                        *)

\* Mutant: the record is published and the frontend is not told.
PublishSilently(t, kind) ==
    IF t \in finished
    THEN UNCHANGED <<finished, tasks, ready, notify>>
    ELSE /\ finished' = finished \cup {t}
         /\ tasks' = tasks \ {t}
         /\ ready' = Append(ready, [kind |-> kind, task |-> t])
         /\ UNCHANGED notify

\* publish() makes the record visible here; its wakeup is the step Notify.
Publish(t, kind) ==
    IF t \in finished
    THEN UNCHANGED <<finished, tasks, ready, notify>>
    ELSE /\ finished' = finished \cup {t}
         /\ tasks' = tasks \ {t}
         /\ ready' = Append(ready, [kind |-> kind, task |-> t])
         /\ notify' = TRUE

Notify ==
    /\ notify
    /\ notify' = FALSE
    /\ wakeup' = TRUE
    /\ UNCHANGED <<editorVars, batchVars, queueVars, downVars, tasks, outstanding, stop,
                   looper, finished, activeRequests, shutdownStarted, asyncClosed,
                   handles, ready, work, result, fate>>

\* finish_without_delivery() for each task of S.
FinishSilently(S) ==
    LET gone == S \ finished IN
    /\ finished' = finished \cup gone
    /\ tasks' = tasks \ gone
    /\ outstanding' = outstanding - Cardinality(gone)
    /\ fate' = [t \in Task |-> IF t \in gone THEN "discarded" ELSE fate[t]]

\* close_async_if_idle().
CloseAsyncIfIdle == asyncClosed' = (asyncClosed \/ (shuttingDown /\ activeRequests = 0))

\* One pass over every known task. The editor thread waits in join() and the
\* workers touch one task each, so the pass is one step.
BeginShutdown ==
    IF shutdownStarted
    THEN UNCHANGED <<notify, finished, activeRequests, shutdownStarted, asyncClosed, handles,
                     tasks, outstanding, stop, work, fate>>
    ELSE /\ shutdownStarted' = TRUE
         /\ stop' = [t \in Task |-> stop[t] \/ t \in tasks]
         /\ work' = [t \in Task |-> IF t \in tasks /\ work[t] = "queued"
                                    THEN "cancelled" ELSE work[t]]
         /\ FinishSilently({t \in tasks : ~Queued(t)})
         /\ handles' = {}
         /\ CloseAsyncIfIdle
         /\ UNCHANGED <<notify, activeRequests>>

\* libuv clears the pending flag and then calls on_async.
OnAsync ==
    /\ looper = "poll" /\ ~notify /\ signalled /\ ~asyncClosed
    /\ signalled' = FALSE
    /\ looper' = "drain"
    /\ UNCHANGED <<editorVars, batchVars, commands, downVars, notify, finished,
                   activeRequests, shutdownStarted, asyncClosed, handles, tasks,
                   outstanding, stop, ready, wakeup, work, result, fate>>

QueueTask(t) ==
    \/ /\ t \in finished
       /\ UNCHANGED <<finished, tasks, outstanding, fate, ready, notify, work, result,
                      activeRequests>>
    \/ /\ t \notin finished /\ shuttingDown
       /\ FinishSilently({t})
       /\ UNCHANGED <<ready, notify, work, result, activeRequests>>
    \/ /\ t \notin finished /\ ~shuttingDown /\ stop[t]
       /\ Publish(t, "Cancelled")
       /\ UNCHANGED <<outstanding, fate, work, result, activeRequests>>
    \/ /\ t \notin finished /\ ~shuttingDown /\ ~stop[t]
       /\ work' = [work EXCEPT ![t] = "queued"]
       /\ activeRequests' = activeRequests + 1
       /\ UNCHANGED <<finished, tasks, outstanding, fate, ready, notify, result>>
    \/ /\ t \notin finished /\ ~shuttingDown /\ ~stop[t]   \* uv_queue_work fails
       /\ result' = [result EXCEPT ![t] = "exception"]
       /\ Publish(t, "Failed")
       /\ UNCHANGED <<outstanding, fate, work, activeRequests>>

\* uv_cancel succeeds only while no thread has picked the request up.
CancelTask(t) ==
    /\ work' = [work EXCEPT ![t] = IF t \notin finished /\ @ = "queued"
                                  THEN "cancelled" ELSE @]
    /\ UNCHANGED <<finished, tasks, outstanding, fate, ready, notify, result,
                   activeRequests>>

\* drain_commands() takes commands one at a time until the queue is empty ...
DrainCommand ==
    /\ looper = "drain" /\ ~notify /\ commands # <<>>
    /\ commands' = Tail(commands)
    /\ \/ Head(commands).kind = "Submit" /\ QueueTask(Head(commands).task)
       \/ Head(commands).kind = "Cancel" /\ CancelTask(Head(commands).task)
    /\ UNCHANGED <<editorVars, batchVars, signalled, downVars, looper, shutdownStarted,
                   asyncClosed, handles, stop, wakeup>>

\* Mutant: on_async goes back to libuv after any one command.
DrainDoneEarly ==
    /\ looper = "drain" /\ ~notify
    /\ looper' = "poll"
    /\ IF shuttingDown
       THEN BeginShutdown
       ELSE UNCHANGED <<notify, finished, activeRequests, shutdownStarted, asyncClosed,
                        handles, tasks, outstanding, stop, work, fate>>
    /\ UNCHANGED <<editorVars, batchVars, queueVars, downVars, ready, wakeup, result>>

\* ... and then starts the shutdown if the destructor has run.
DrainDone ==
    /\ looper = "drain" /\ ~notify /\ commands = <<>>
    /\ looper' = "poll"
    /\ IF shuttingDown
       THEN BeginShutdown
       ELSE UNCHANGED <<notify, finished, activeRequests, shutdownStarted, asyncClosed,
                        handles, tasks, outstanding, stop, work, fate>>
    /\ UNCHANGED <<editorVars, batchVars, queueVars, downVars, ready, wakeup, result>>

OnShutdown ==
    /\ looper = "poll" /\ ~notify /\ shutdownSignal /\ ~asyncClosed
    /\ shutdownSignal' = FALSE
    /\ looper' = looper
    /\ BeginShutdown
    /\ UNCHANGED <<editorVars, batchVars, queueVars, shuttingDown, ready, wakeup,
                   result>>

\* Mutant: a stop request is taken for a cancellation, whatever the work did.
OutcomeOfRequest(t) ==
    CASE stop[t] -> "Cancelled"
      [] ~stop[t] /\ result[t] = "exception" -> "Failed"
      [] OTHER -> "Completed"

\* after_work() looks for the cancellation first and the exception next.
Outcome(t) ==
    CASE work[t] = "cancelled" \/ result[t] = "acknowledged" -> "Cancelled"
      [] result[t] = "exception" -> "Failed"
      [] OTHER -> "Completed"

\* The flag decides what becomes of the record ...
AfterWork(t) ==
    /\ looper = "poll" /\ ~notify
    /\ looper' = "worked"
    /\ work[t] \in {"done", "cancelled"}
    /\ work' = [work EXCEPT ![t] = "none"]
    /\ activeRequests' = activeRequests - 1
    /\ IF shuttingDown
       THEN FinishSilently({t} \cap tasks) /\ UNCHANGED <<ready, notify>>
       ELSE /\ Publish(t, Outcome(t))
            /\ UNCHANGED <<outstanding, fate>>
    /\ UNCHANGED <<editorVars, batchVars, queueVars, downVars, shutdownStarted, asyncClosed,
                   handles, stop, wakeup, result>>

\* Mutant: only begin_shutdown() looks for idleness.
AfterWorkReturns ==
    /\ looper = "worked" /\ ~notify
    /\ looper' = "poll"
    /\ UNCHANGED <<editorVars, batchVars, queueVars, downVars, notify, finished,
                   activeRequests, shutdownStarted, asyncClosed, handles, tasks,
                   outstanding, stop, ready, wakeup, work, result, fate>>

\* ... and is read again, when the record's wakeup has been posted.
AfterWorkDone ==
    /\ looper = "worked" /\ ~notify
    /\ looper' = "poll"
    /\ CloseAsyncIfIdle
    /\ UNCHANGED <<editorVars, batchVars, queueVars, downVars, notify, finished,
                   activeRequests, shutdownStarted, handles, tasks, outstanding, stop,
                   ready, wakeup, work, result, fate>>

\* uv_run returns when nothing it waits for is left.
LoopExit ==
    /\ looper = "poll" /\ ~notify
    /\ asyncClosed /\ activeRequests = 0 /\ handles = {}
    /\ looper' = "exit"
    /\ UNCHANGED <<editorVars, batchVars, queueVars, downVars, notify, finished,
                   activeRequests, shutdownStarted, asyncClosed, handles, tasks,
                   outstanding, stop, ready, wakeup, work, result, fate>>

-----------------------------------------------------------------------------
EditorCall == CancelStop \/ Enqueue \/ EnqueueThrows \/ Send
EditorLoop == Woken \/ Drain \/ RunCallback \/ CallbackReturns
Teardown   == SendShutdown \/ Joined

Next ==
    \/ \E t \in Task : Submit(t) \/ CancelFind(t)
    \/ EditorCall \/ EditorLoop \/ Destroy \/ Teardown
    \/ \E t \in Task : WorkerStart(t) \/ WorkerFinish(t) \/ AfterWork(t)
    \/ AfterWorkDone
    \/ Notify \/ OnAsync \/ DrainCommand \/ DrainDone \/ OnShutdown \/ LoopExit

Spec == Init /\ [][Next]_vars

LoopThread == \/ \E t \in Task : AfterWork(t)
              \/ AfterWorkDone
              \/ Notify \/ OnAsync \/ DrainCommand \/ DrainDone \/ OnShutdown \/ LoopExit

\* Every thread keeps running: a call under way returns, callbacks return, the
\* frontend goes back to its event loop and serves its wakeup, work functions
\* end, and uv_run serves what is ready. Calls are finitely many (Task is
\* finite, MaxCancels bounds the rest), so no thread keeps another from its turn.
Fairness ==
    /\ WF_vars(EditorCall) /\ WF_vars(EditorLoop) /\ WF_vars(Teardown)
    /\ \A t \in Task : WF_vars(WorkerStart(t)) /\ WF_vars(WorkerFinish(t))
    /\ WF_vars(LoopThread)

FairSpec == Spec /\ Fairness

-----------------------------------------------------------------------------
(* Properties.                                                             *)

\* Types of the variables (proved; see AsyncTasksProofs).
TypeOK ==
    /\ editor \in {"loop", "submit", "cancel", "stopped", "send", "drain", "destroy",
                   "join", "gone"}
    /\ arg \in Task \cup {NoTask} /\ cancels \in Nat
    /\ pending \in Seq(Ready) /\ ready \in Seq(Ready) /\ commands \in Seq(Command)
    /\ calling \in BOOLEAN /\ signalled \in BOOLEAN /\ wakeup \in BOOLEAN
    /\ shuttingDown \in BOOLEAN /\ shutdownSignal \in BOOLEAN
    /\ tasks \subseteq Task /\ finished \subseteq Task /\ handles \subseteq Handles
    /\ outstanding \in Nat /\ activeRequests \in Nat
    /\ stop \in [Task -> BOOLEAN]
    /\ work \in [Task -> WorkState]
    /\ result \in [Task -> {"none", "completion", "acknowledged", "exception"}]
    /\ looper \in {"poll", "drain", "worked", "exit"}
    /\ notify \in BOOLEAN /\ shutdownStarted \in BOOLEAN /\ asyncClosed \in BOOLEAN
    /\ fate \in [Task -> {"new", "open", "rejected", "completed", "cancelled", "failed",
                          "discarded"}]

\* has_work() is exact: outstanding counts the tasks whose owner has not been
\* told their fate, and the record whose callback is still running, through
\* failed submissions, cancellation, delivery and every order of the shutdown.
OutstandingIsExact ==
    outstanding = Cardinality({t \in Task : fate[t] = "open"}) + (IF calling THEN 1 ELSE 0)

\* Every open task is in exactly one place that will lead to its callback: its
\* Submit command or its caller, libuv, the ready queue, or the drained batch.
\* A task in two places would be called back twice, a task in none never.
Places(t) ==
    (IF editor = "submit" /\ arg = t THEN 1 ELSE 0)
    + Cardinality({i \in DOMAIN commands : commands[i] = [kind |-> "Submit", task |-> t]
                                           /\ t \notin finished})
    + (IF Queued(t) THEN 1 ELSE 0)
    + Cardinality({i \in DOMAIN ready : ready[i].task = t})
    + Cardinality({i \in DOMAIN pending : pending[i].task = t /\ ~(calling /\ i = 1)})

OneWayToTheCallback ==
    \A t \in Task : Places(t) = IF fate[t] = "open" THEN 1 ELSE 0

\* A record always finds the frontend awake: while something is ready, the
\* notification is posted, owed by the loop thread, or being served. A headless
\* frontend that blocks on its wakeup while has_work() holds is never stuck.
NoLostWakeup ==
    ready # <<>> => wakeup \/ notify \/ editor \in {"drain", "destroy", "join"}

\* A queued command always has a signal on the way, however uv_async_send
\* coalesces, unless the handle has been closed under it by the shutdown.
NoLostCommand ==
    commands # <<>> => signalled \/ editor = "send" \/ looper = "drain" \/ asyncClosed

\* The loop thread never leaves a libuv request behind for uv_loop_close, and
\* never closes its handles outside a shutdown.
LoopExitIsClean ==
    /\ asyncClosed => shuttingDown
    /\ looper = "exit" => activeRequests = 0 /\ \A t \in Task : ~Queued(t)
    /\ activeRequests = Cardinality({t \in Task : Queued(t)})

\* A submitted task ends in exactly one callback, or with the runtime.
EveryTaskSettles ==
    \A t \in Task : fate[t] = "open" ~> fate[t] # "open" \/ editor = "gone"

\* The destructor returns once running work has ended.
DestroyReturns == shuttingDown ~> editor = "gone"

\* "Destroying the runtime [...] stops directory watches, terminates child
\* processes and joins the loop thread" (docs/async-runtime.md).
DestroyStopsHandles == shuttingDown ~> handles = {}

\* The runtime implements the abstract life of a task: one callback at most,
\* with the outcome the worker committed to, cancelled only after a request,
\* and no callback once the destructor has begun.
Implements == Lifecycle!Spec
=============================================================================
