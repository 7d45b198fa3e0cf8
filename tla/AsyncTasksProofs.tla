-------------------------- MODULE AsyncTasksProofs --------------------------
(***************************************************************************)
(* Proofs about AsyncTasks, for every finite set of tasks, every size of   *)
(* the worker pool and every set of handles: the inductive invariant, the  *)
(* safety properties that follow from it, and the refinement of            *)
(* TaskLifecycle.                                                          *)
(***************************************************************************)
EXTENDS AsyncTasks, TLAPS, FiniteSetTheorems, SequenceTheorems, FunctionTheorems

-----------------------------------------------------------------------------
(* The inductive invariant, part by part.                                  *)

\* Where the editor thread is, and what that says about the batch it drained.
EditorInv ==
    /\ editor \in {"submit", "cancel", "stopped"} => arg \in Task
    /\ editor = "submit" => arg \in tasks /\ work[arg] = "none" /\ result[arg] = "none"
    /\ editor = "stopped" => stop[arg]
    /\ shuttingDown <=> editor \in {"destroy", "join", "gone"}
    /\ shuttingDown \/ editor = "drain" => pending = <<>>
    /\ calling => pending # <<>>
    /\ editor = "gone" => looper = "exit"

\* The shutdown only moves forward, and nothing is queued once it has closed
\* the handles.
ShutdownInv ==
    /\ shutdownSignal \/ shutdownStarted \/ asyncClosed => shuttingDown
    /\ asyncClosed => activeRequests = 0
    /\ looper = "exit" => asyncClosed

\* What a known task, its request and its result say about each other.
TaskInv ==
    \A t \in Task :
        /\ t \in tasks => fate[t] = "open" /\ t \notin finished
        /\ Queued(t) => t \in tasks
        /\ work[t] \in {"queued", "running"} => result[t] = "none"
        /\ work[t] = "done" => result[t] # "none"
        /\ work[t] = "cancelled" => result[t] = "none" /\ stop[t]
        /\ result[t] = "acknowledged" => stop[t]
        /\ fate[t] = "new" => result[t] = "none" /\ t \notin finished

\* A Submit command that is still to be obeyed is about a task that is nowhere
\* else; a Cancel command follows its stop request.
CommandInv ==
    /\ \A i \in DOMAIN commands : LET t == commands[i].task IN
          /\ commands[i].kind = "Cancel" => stop[t]
          /\ commands[i].kind = "Submit" =>
                /\ fate[t] \notin {"new", "rejected"}
                /\ ~(editor = "submit" /\ arg = t)
                /\ t \notin finished => t \in tasks /\ work[t] = "none" /\ result[t] = "none"
    /\ \A i, j \in DOMAIN commands :
          /\ commands[i].kind = "Submit" /\ commands[j].kind = "Submit"
          /\ commands[i].task = commands[j].task
          => i = j

\* A record says what its task's worker did.
Truthful(record) ==
    /\ record.kind = "Completed" => result[record.task] = "completion"
    /\ record.kind = "Failed"    => result[record.task] = "exception"
    /\ record.kind = "Cancelled" => /\ stop[record.task]
                                    /\ result[record.task] \in {"none", "acknowledged"}

\* Each record is its task's only one, and the task has left the runtime.
RecordInv ==
    /\ \A i \in DOMAIN ready :
          /\ ready[i].task \in finished
          /\ fate[ready[i].task] = "open"
          /\ Truthful(ready[i])
    /\ \A i \in DOMAIN pending :
          /\ pending[i].task \in finished
          /\ (calling /\ i = 1) <=> fate[pending[i].task] # "open"
          /\ Truthful(pending[i])
    /\ \A i, j \in DOMAIN ready : ready[i].task = ready[j].task => i = j
    /\ \A i, j \in DOMAIN pending : pending[i].task = pending[j].task => i = j
    /\ \A i \in DOMAIN ready, j \in DOMAIN pending : ready[i].task # pending[j].task

InCommands(t) == \E i \in DOMAIN commands : commands[i] = [kind |-> "Submit", task |-> t]
InReady(t)    == \E i \in DOMAIN ready : ready[i].task = t
InPending(t)  == \E i \in DOMAIN pending : pending[i].task = t

\* No open task is forgotten: it is known to the runtime or has a record, and a
\* known one is with its caller, in a command or with libuv.
PlaceInv ==
    \A t \in Task :
        /\ fate[t] = "open" => t \in tasks \/ InReady(t) \/ InPending(t)
        /\ t \in tasks => (editor = "submit" /\ arg = t) \/ InCommands(t) \/ Queued(t)

CountInv ==
    /\ OutstandingIsExact
    /\ activeRequests = Cardinality({t \in Task : Queued(t)})

IInv ==
    /\ TypeOK /\ EditorInv /\ ShutdownInv /\ TaskInv /\ CommandInv /\ RecordInv
    /\ PlaceInv /\ CountInv /\ NoLostWakeup /\ NoLostCommand

-----------------------------------------------------------------------------
(* Counting.                                                               *)

Open        == {t \in Task : fate[t] = "open"}
QueuedTasks == {t \in Task : Queued(t)}

\* Sets of tasks are finite and have a size.
LEMMA FiniteCount ==
  \A S \in SUBSET Task : IsFiniteSet(S) /\ Cardinality(S) \in Nat
<1> TAKE S \in SUBSET Task
<1>1. IsFiniteSet(S)
  BY TaskAssumption, FS_Subset
<1> QED
  BY <1>1, FS_CardinalityType

\* Taking one task away makes a set smaller by one.
LEMMA RemoveOne ==
  ASSUME NEW S \in SUBSET Task, NEW t \in S
  PROVE  Cardinality(S \ {t}) = Cardinality(S) - 1
BY FiniteCount, FS_RemoveElement

\* One more task makes it larger by one.
LEMMA AddOne ==
  ASSUME NEW S \in SUBSET Task, NEW t \in Task \ S
  PROVE  Cardinality(S \cup {t}) = Cardinality(S) + 1
BY FiniteCount, FS_AddElement

\* Taking a subset away subtracts its size.
LEMMA RemoveAll ==
  ASSUME NEW S \in SUBSET Task, NEW T \in SUBSET S
  PROVE  Cardinality(S \ T) = Cardinality(S) - Cardinality(T)
<1>1. S \cap T = T
  OBVIOUS
<1> QED
  BY <1>1, FiniteCount, FS_Difference

\* A queue of records about different tasks is as long as there are tasks in it.
LEMMA OneTaskEach ==
  ASSUME NEW s \in Seq(Ready),
         \A i, j \in DOMAIN s : s[i].task = s[j].task => i = j
  PROVE  Cardinality({s[i].task : i \in DOMAIN s}) = Len(s)
<1> DEFINE D == {s[i].task : i \in DOMAIN s}
           f == [i \in DOMAIN s |-> s[i].task]
<1>1. DOMAIN s = 1..Len(s) /\ Len(s) \in Nat
  BY LenProperties
<1>2. f \in Bijection(DOMAIN s, D)
  BY Fun_IsBij
<1>3. ExistsBijection(DOMAIN s, D)
  BY <1>2 DEF ExistsBijection
<1>4. IsFiniteSet(DOMAIN s) /\ Cardinality(DOMAIN s) = Len(s)
  BY <1>1, FS_Interval
<1> QED
  BY <1>3, <1>4, FS_Bijection

\* What Append does, index by index.
LEMMA AppendFacts ==
  ASSUME NEW S, NEW s \in Seq(S), NEW e \in S
  PROVE  /\ Append(s, e) \in Seq(S)
         /\ Len(s) \in Nat /\ DOMAIN s = 1..Len(s)
         /\ DOMAIN Append(s, e) = 1..(Len(s) + 1)
         /\ \A i \in DOMAIN s : Append(s, e)[i] = s[i]
         /\ Append(s, e)[Len(s) + 1] = e
OBVIOUS

\* finish_without_delivery() uncounts exactly the tasks it settles.
LEMMA SilentCount ==
  ASSUME IInv, NEW S \in SUBSET tasks, FinishSilently(S), calling' = calling
  PROVE  OutstandingIsExact'
<1> DEFINE gone == S \ finished
<1>1. gone \in SUBSET Open
  BY DEF IInv, TypeOK, TaskInv, Open
<1>2. Open' = Open \ gone
  BY <1>1 DEF IInv, TypeOK, FinishSilently, Open
<1>3. Open \in SUBSET Task
  BY DEF Open
<1>4. Cardinality(Open') = Cardinality(Open) - Cardinality(gone)
  BY <1>1, <1>2, <1>3, RemoveAll
<1>5. outstanding' = outstanding - Cardinality(gone)
  BY DEF FinishSilently
<1>6. Cardinality(Open) \in Nat /\ Cardinality(gone) \in Nat
  BY <1>1, <1>3, FiniteCount
<1> QED
  BY <1>4, <1>5, <1>6 DEF IInv, CountInv, OutstandingIsExact, Open

-----------------------------------------------------------------------------
(* The editor thread and the workers.                                      *)

\* submit() opens a task that was nowhere and hands it to its caller.
LEMMA SubmitStep ==
  ASSUME IInv, NEW t \in Task, Submit(t)
  PROVE  IInv'
<1> USE DEF editorVars, batchVars, queueVars, loopVars, downVars
<1>1. CountInv'
  <2>1. Open' = Open \cup {t} /\ t \in Task \ Open
    BY DEF IInv, TypeOK, Submit, Open
  <2>2. Cardinality(Open') = Cardinality(Open) + 1
    BY <2>1, AddOne DEF Open
  <2> QED
    BY <2>2, FiniteCount
       DEF IInv, CountInv, OutstandingIsExact, Submit, Open, Queued, batchVars,
           loopVars
<1>2. RecordInv'
  <2>1. /\ \A i \in DOMAIN ready : ready[i].task # t
        /\ \A i \in DOMAIN pending : pending[i].task # t
    BY DEF IInv, RecordInv, TaskInv, Submit
  <2>2. /\ \A i \in DOMAIN ready : ready[i] \in Ready
        /\ \A i \in DOMAIN pending : pending[i] \in Ready
    BY DEF IInv, TypeOK
  <2>3. \A u \in Task : u # t => fate'[u] = fate[u]
    BY DEF Submit, IInv, TypeOK
  <2>4. UNCHANGED <<ready, pending, calling, finished, stop, result>>
    BY DEF Submit
  <2> QED
    BY <2>1, <2>2, <2>3, <2>4 DEF IInv, RecordInv, Ready, Truthful
<1>3. TypeOK' /\ EditorInv' /\ ShutdownInv'
  BY DEF IInv, TypeOK, EditorInv, ShutdownInv, Submit, TaskInv, Queued
<1>4. TaskInv' /\ CommandInv'
  BY DEF IInv, TaskInv, CommandInv, Submit, TypeOK, Queued
<1>5. PlaceInv'
  BY DEF IInv, PlaceInv, Submit, TypeOK, Queued, InCommands, InReady, InPending
<1>6. NoLostWakeup' /\ NoLostCommand'
  BY DEF IInv, NoLostWakeup, NoLostCommand, Submit
<1> QED
  BY <1>1, <1>2, <1>3, <1>4, <1>5, <1>6 DEF IInv

\* cancel() takes its copy of the task pointer.
LEMMA CancelFindStep ==
  ASSUME IInv, NEW t \in Task, CancelFind(t)
  PROVE  IInv'
<1> USE DEF editorVars, batchVars, queueVars, loopVars, downVars
<1>1. TypeOK' /\ EditorInv' /\ ShutdownInv'
  BY DEF IInv, TypeOK, EditorInv, ShutdownInv, CancelFind
<1>2. TaskInv' /\ CommandInv'
  BY DEF IInv, TaskInv, CommandInv, CancelFind, Queued
<1>3. RecordInv' /\ PlaceInv'
  BY DEF IInv, RecordInv, PlaceInv, CancelFind, Queued, InCommands, InReady, InPending,
         Truthful
<1>4. CountInv' /\ NoLostWakeup' /\ NoLostCommand'
  BY DEF IInv, CountInv, NoLostWakeup, NoLostCommand, CancelFind, Queued,
         OutstandingIsExact
<1> QED
  BY <1>1, <1>2, <1>3, <1>4 DEF IInv

\* cancel() triggers the stop source before it queues the command.
LEMMA CancelStopStep ==
  ASSUME IInv, CancelStop
  PROVE  IInv'
<1> USE DEF editorVars, batchVars, queueVars, loopVars, downVars
<1>1. TypeOK' /\ EditorInv' /\ ShutdownInv'
  BY DEF IInv, TypeOK, EditorInv, ShutdownInv, CancelStop
<1>2. TaskInv' /\ CommandInv'
  BY DEF IInv, TaskInv, CommandInv, CancelStop, Queued
<1>3. RecordInv' /\ PlaceInv'
  BY DEF IInv, RecordInv, PlaceInv, CancelStop, Queued, InCommands, InReady, InPending,
         Truthful
<1>4. CountInv' /\ NoLostWakeup' /\ NoLostCommand'
  BY DEF IInv, CountInv, NoLostWakeup, NoLostCommand, CancelStop, Queued,
         OutstandingIsExact
<1> QED
  BY <1>1, <1>2, <1>3, <1>4 DEF IInv

\* enqueue() moves the task from its caller into the command queue.
LEMMA EnqueueStep ==
  ASSUME IInv, Enqueue
  PROVE  IInv'
<1> USE DEF editorVars, batchVars, queueVars, loopVars, downVars
<1>1. PlaceInv'
  <2> DEFINE c == [kind |-> IF editor = "submit" THEN "Submit" ELSE "Cancel", task |-> arg]
  <2>1. c \in Command /\ commands \in Seq(Command) /\ commands' = Append(commands, c)
    BY DEF IInv, TypeOK, EditorInv, Enqueue, Command
  <2>2. /\ DOMAIN commands' = 1..(Len(commands) + 1)
        /\ \A i \in DOMAIN commands : i \in DOMAIN commands' /\ commands'[i] = commands[i]
        /\ commands'[Len(commands) + 1] = c
    BY <2>1
  <2>3. \A t \in Task : InCommands(t) => InCommands(t)'
    BY <2>2 DEF InCommands
  <2>4. editor = "submit" => InCommands(arg)'
    <3> SUFFICES ASSUME editor = "submit" PROVE InCommands(arg)'
      OBVIOUS
    <3>1. /\ Len(commands) + 1 \in DOMAIN commands'
            /\ commands'[Len(commands) + 1] = [kind |-> "Submit", task |-> arg]
      BY <2>1, <2>2
    <3> QED
      BY <3>1 DEF InCommands, Enqueue
  <2> QED
    BY <2>3, <2>4
       DEF IInv, PlaceInv, Enqueue, InReady, InPending, Queued, loopVars, batchVars
<1>2. TypeOK' /\ EditorInv' /\ ShutdownInv'
  BY DEF IInv, TypeOK, EditorInv, ShutdownInv, Enqueue, Command
<1>3. TaskInv'
  BY DEF IInv, TaskInv, Enqueue, Queued
<1>4. CommandInv'
  BY DEF IInv, CommandInv, Enqueue, EditorInv, TaskInv, TypeOK, Command
<1>5. RecordInv'
  BY DEF IInv, RecordInv, Enqueue, Truthful
<1>6. CountInv' /\ NoLostWakeup' /\ NoLostCommand'
  BY DEF IInv, CountInv, NoLostWakeup, NoLostCommand, Enqueue, Queued,
         OutstandingIsExact
<1> QED
  BY <1>1, <1>2, <1>3, <1>4, <1>5, <1>6 DEF IInv

\* A push that throws takes the submission back and leaves a cancellation alone.
LEMMA EnqueueThrowsStep ==
  ASSUME IInv, EnqueueThrows
  PROVE  IInv'
<1> USE DEF editorVars, batchVars, queueVars, loopVars, downVars
<1>1. CountInv'
  <2>1. CASE editor = "submit"
    <3>1. Open' = Open \ {arg} /\ arg \in Open
      BY <2>1 DEF IInv, TypeOK, EditorInv, TaskInv, EnqueueThrows, Open
    <3>2. Cardinality(Open') = Cardinality(Open) - 1
      BY <3>1, RemoveOne DEF Open
    <3> QED
      BY <2>1, <3>2, FiniteCount
         DEF IInv, CountInv, OutstandingIsExact, EnqueueThrows, Open, Queued,
             batchVars, loopVars
  <2>2. CASE editor # "submit"
    BY <2>2
       DEF IInv, CountInv, OutstandingIsExact, EnqueueThrows, Queued, batchVars,
           loopVars
  <2> QED
    BY <2>1, <2>2
<1>2. TypeOK'
  <2>1. outstanding' \in Nat
    BY <1>1, FiniteCount DEF CountInv, OutstandingIsExact
  <2> QED
    BY <2>1 DEF IInv, TypeOK, EnqueueThrows
<1>3. EditorInv' /\ ShutdownInv'
  BY DEF IInv, EditorInv, ShutdownInv, EnqueueThrows
<1>4. TaskInv' /\ CommandInv'
  BY DEF IInv, TaskInv, CommandInv, EnqueueThrows, TypeOK, EditorInv, Queued
<1>5. RecordInv'
  BY DEF IInv, RecordInv, EnqueueThrows, TypeOK, EditorInv, TaskInv, Ready, Truthful
<1>6. PlaceInv'
  <2>1. UNCHANGED <<commands, ready, pending, work>>
    BY DEF EnqueueThrows
  <2>2. \A t \in Task : /\ fate'[t] = "open" => fate[t] = "open" /\ (t \in tasks => t \in tasks')
                        /\ t \in tasks' => t \in tasks /\ ~(editor = "submit" /\ arg = t)
    BY DEF IInv, TypeOK, EditorInv, EnqueueThrows
  <2>3. \A t \in Task : /\ (InCommands(t) <=> InCommands(t)') /\ (InReady(t) <=> InReady(t)')
                        /\ (InPending(t) <=> InPending(t)') /\ (Queued(t) <=> Queued(t)')
    BY <2>1 DEF Queued, InCommands, InReady, InPending
  <2>4. PlaceInv
    BY DEF IInv
  <2> QED
    BY <2>2, <2>3, <2>4 DEF PlaceInv
<1>7. NoLostWakeup' /\ NoLostCommand'
  BY DEF IInv, NoLostWakeup, NoLostCommand, EnqueueThrows
<1> QED
  BY <1>1, <1>2, <1>3, <1>4, <1>5, <1>6, <1>7 DEF IInv

\* uv_async_send leaves a signal for the commands queued so far.
LEMMA SendStep ==
  ASSUME IInv, Send
  PROVE  IInv'
<1> USE DEF editorVars, batchVars, queueVars, loopVars, downVars
<1>1. TypeOK' /\ EditorInv' /\ ShutdownInv'
  BY DEF IInv, TypeOK, EditorInv, ShutdownInv, Send
<1>2. TaskInv' /\ CommandInv'
  BY DEF IInv, TaskInv, CommandInv, Send, Queued
<1>3. RecordInv' /\ PlaceInv'
  BY DEF IInv, RecordInv, PlaceInv, Send, Queued, InCommands, InReady, InPending,
         Truthful
<1>4. CountInv' /\ NoLostWakeup' /\ NoLostCommand'
  BY DEF IInv, CountInv, NoLostWakeup, NoLostCommand, Send, Queued, OutstandingIsExact
<1> QED
  BY <1>1, <1>2, <1>3, <1>4 DEF IInv

\* The frontend consumes its notification and is about to drain.
LEMMA WokenStep ==
  ASSUME IInv, Woken
  PROVE  IInv'
<1> USE DEF editorVars, batchVars, queueVars, loopVars, downVars
<1>1. TypeOK' /\ EditorInv' /\ ShutdownInv'
  BY DEF IInv, TypeOK, EditorInv, ShutdownInv, Woken
<1>2. TaskInv' /\ CommandInv'
  BY DEF IInv, TaskInv, CommandInv, Woken, Queued
<1>3. RecordInv' /\ PlaceInv'
  BY DEF IInv, RecordInv, PlaceInv, Woken, Queued, InCommands, InReady, InPending,
         Truthful
<1>4. CountInv' /\ NoLostWakeup' /\ NoLostCommand'
  BY DEF IInv, CountInv, NoLostWakeup, NoLostCommand, Woken, Queued, OutstandingIsExact
<1> QED
  BY <1>1, <1>2, <1>3, <1>4 DEF IInv

\* drain() moves every record from the ready queue to the batch.
LEMMA DrainStep ==
  ASSUME IInv, Drain
  PROVE  IInv'
<1> USE DEF editorVars, batchVars, queueVars, loopVars, downVars
<1>1. TypeOK' /\ EditorInv' /\ ShutdownInv'
  BY DEF IInv, TypeOK, EditorInv, ShutdownInv, Drain
<1>2. TaskInv' /\ CommandInv'
  BY DEF IInv, TaskInv, CommandInv, Drain, Queued
<1>3. RecordInv' /\ PlaceInv'
  BY DEF IInv, RecordInv, PlaceInv, Drain, EditorInv, Queued, InCommands, InReady,
         InPending, Truthful
<1>4. CountInv' /\ NoLostWakeup' /\ NoLostCommand'
  BY DEF IInv, CountInv, NoLostWakeup, NoLostCommand, Drain, Queued, OutstandingIsExact
<1> QED
  BY <1>1, <1>2, <1>3, <1>4 DEF IInv

\* The record whose callback starts settles its task.
LEMMA RunCallbackStep ==
  ASSUME IInv, RunCallback
  PROVE  IInv'
<1> DEFINE t == Head(pending).task
           f == FateOf[Head(pending).kind]
<1>1. /\ pending \in Seq(Ready) /\ 1 \in DOMAIN pending /\ Head(pending) = pending[1]
      /\ pending[1] \in Ready
  BY DEF IInv, TypeOK, RunCallback
<1>2. t \in Task /\ f \in {"completed", "cancelled", "failed"}
  BY <1>1 DEF Ready, FateOf
<1>3. fate[t] = "open" /\ fate' = [fate EXCEPT ![t] = f]
  BY <1>1 DEF IInv, RecordInv, RunCallback
<1>4. TypeOK'
  BY <1>2, <1>3 DEF IInv, TypeOK, RunCallback, editorVars, queueVars, loopVars, downVars
<1>5. TaskInv'
  BY <1>1, <1>2, <1>3
     DEF IInv, TypeOK, TaskInv, RecordInv, RunCallback, Queued, loopVars
<1>6. CommandInv'
  BY <1>2, <1>3
     DEF IInv, TypeOK, CommandInv, RunCallback, Command, editorVars, queueVars,
         loopVars
<1>7. RecordInv'
  BY <1>1, <1>2, <1>3
     DEF IInv, TypeOK, RecordInv, RunCallback, Ready, Truthful, loopVars
<1>8. PlaceInv'
  BY <1>2, <1>3
     DEF IInv, TypeOK, PlaceInv, RunCallback, InReady, InPending, InCommands, Queued,
         editorVars, queueVars
<1>9. CountInv'
  <2>1. Open' = Open \ {t} /\ t \in Open
    BY <1>2, <1>3 DEF IInv, TypeOK, Open
  <2>2. Cardinality(Open') = Cardinality(Open) - 1
    BY <2>1, RemoveOne DEF Open
  <2>3. OutstandingIsExact'
    BY <2>2, FiniteCount DEF IInv, CountInv, OutstandingIsExact, RunCallback, Open
  <2> QED
    BY <2>3 DEF IInv, CountInv, RunCallback, loopVars, Queued
<1>10. EditorInv' /\ ShutdownInv'
  BY DEF IInv, EditorInv, ShutdownInv, RunCallback, editorVars, loopVars, downVars
<1>11. NoLostWakeup' /\ NoLostCommand'
  BY DEF IInv, NoLostWakeup, NoLostCommand, RunCallback, queueVars, loopVars
<1> QED
  BY <1>4, <1>5, <1>6, <1>7, <1>8, <1>9, <1>10, <1>11 DEF IInv

\* The record is uncounted when its callback has returned.
LEMMA CallbackReturnsStep ==
  ASSUME IInv, CallbackReturns
  PROVE  IInv'
<1> USE DEF editorVars, batchVars, queueVars, loopVars, downVars
<1>1. PlaceInv'
  <2>1. pending \in Seq(Ready) /\ pending # <<>> /\ pending' = Tail(pending)
    BY DEF IInv, TypeOK, EditorInv, CallbackReturns
  <2>2. \A i \in DOMAIN pending : i # 1 => i - 1 \in DOMAIN pending' /\ pending'[i - 1] = pending[i]
    BY <2>1
  <2>3. \A t \in Task : fate[t] = "open" /\ InPending(t) => InPending(t)'
    BY <2>2 DEF IInv, RecordInv, InPending, CallbackReturns
  <2> QED
    BY <2>3
       DEF IInv, PlaceInv, CallbackReturns, InReady, InCommands, Queued, editorVars,
           queueVars
<1>2. CountInv'
  <2>1. Cardinality(Open) \in Nat /\ Open' = Open
    BY FiniteCount DEF Open, CallbackReturns
  <2> QED
    BY <2>1 DEF IInv, CountInv, OutstandingIsExact, CallbackReturns, Queued, Open
<1>3. TypeOK'
  <2>1. outstanding' \in Nat
    BY <1>2, FiniteCount DEF CountInv, OutstandingIsExact
  <2>2. pending' \in Seq(Ready)
    BY DEF IInv, TypeOK, EditorInv, CallbackReturns
  <2> QED
    BY <2>1, <2>2 DEF IInv, TypeOK, CallbackReturns
<1>4. EditorInv' /\ ShutdownInv'
  BY DEF IInv, EditorInv, ShutdownInv, CallbackReturns
<1>5. TaskInv' /\ CommandInv'
  BY DEF IInv, TaskInv, CommandInv, CallbackReturns, Queued
<1>6. RecordInv'
  BY DEF IInv, RecordInv, CallbackReturns, TypeOK, EditorInv, Ready, Truthful
<1>7. NoLostWakeup' /\ NoLostCommand'
  BY DEF IInv, NoLostWakeup, NoLostCommand, CallbackReturns
<1> QED
  BY <1>1, <1>2, <1>3, <1>4, <1>5, <1>6, <1>7 DEF IInv

\* The destructor begins with the batch delivered.
LEMMA DestroyStep ==
  ASSUME IInv, Destroy
  PROVE  IInv'
<1> USE DEF editorVars, batchVars, queueVars, loopVars, downVars
<1>1. TypeOK' /\ EditorInv' /\ ShutdownInv'
  BY DEF IInv, TypeOK, EditorInv, ShutdownInv, Destroy
<1>2. TaskInv' /\ CommandInv'
  BY DEF IInv, TaskInv, CommandInv, Destroy, Queued
<1>3. RecordInv' /\ PlaceInv'
  BY DEF IInv, RecordInv, PlaceInv, Destroy, Queued, InCommands, InReady, InPending,
         Truthful
<1>4. CountInv' /\ NoLostWakeup' /\ NoLostCommand'
  BY DEF IInv, CountInv, NoLostWakeup, NoLostCommand, Destroy, Queued,
         OutstandingIsExact
<1> QED
  BY <1>1, <1>2, <1>3, <1>4 DEF IInv

\* The destructor signals the loop thread.
LEMMA SendShutdownStep ==
  ASSUME IInv, SendShutdown
  PROVE  IInv'
<1> USE DEF editorVars, batchVars, queueVars, loopVars, downVars
<1>1. TypeOK' /\ EditorInv' /\ ShutdownInv'
  BY DEF IInv, TypeOK, EditorInv, ShutdownInv, SendShutdown
<1>2. TaskInv' /\ CommandInv'
  BY DEF IInv, TaskInv, CommandInv, SendShutdown, Queued
<1>3. RecordInv' /\ PlaceInv'
  BY DEF IInv, RecordInv, PlaceInv, SendShutdown, Queued, InCommands, InReady,
         InPending, Truthful
<1>4. CountInv' /\ NoLostWakeup' /\ NoLostCommand'
  BY DEF IInv, CountInv, NoLostWakeup, NoLostCommand, SendShutdown, Queued,
         OutstandingIsExact
<1> QED
  BY <1>1, <1>2, <1>3, <1>4 DEF IInv

\* The records nobody drained are discarded and uncounted.
LEMMA JoinedStep ==
  ASSUME IInv, Joined
  PROVE  IInv'
<1> USE DEF editorVars, batchVars, queueVars, loopVars, downVars
<1>1. CountInv'
  <2> DEFINE D == {ready[i].task : i \in DOMAIN ready}
  <2>1. D \in SUBSET Open
    BY DEF IInv, TypeOK, RecordInv, Ready, Open
  <2>2. Open' = Open \ D
    BY DEF IInv, TypeOK, Joined, Open
  <2>3. Cardinality(D) = Len(ready)
    BY OneTaskEach DEF IInv, TypeOK, RecordInv
  <2>4. Cardinality(Open') = Cardinality(Open) - Len(ready)
    BY <2>1, <2>2, <2>3, RemoveAll DEF Open
  <2> QED
    BY <2>4, FiniteCount
       DEF IInv, TypeOK, CountInv, OutstandingIsExact, Joined, Open, Queued, batchVars,
           loopVars
<1>2. TypeOK'
  <2>1. outstanding' \in Nat
    BY <1>1, FiniteCount DEF CountInv, OutstandingIsExact
  <2> QED
    BY <2>1 DEF IInv, TypeOK, Joined
<1>3. EditorInv' /\ ShutdownInv'
  BY DEF IInv, EditorInv, ShutdownInv, Joined
<1>4. TaskInv' /\ CommandInv'
  BY DEF IInv, TaskInv, CommandInv, Joined, TypeOK, RecordInv, Queued
<1>5. RecordInv' /\ PlaceInv'
  BY DEF IInv, RecordInv, PlaceInv, Joined, EditorInv, Queued, InCommands, InReady,
         InPending
<1>6. NoLostWakeup' /\ NoLostCommand'
  BY DEF IInv, NoLostWakeup, NoLostCommand, Joined
<1> QED
  BY <1>1, <1>2, <1>3, <1>4, <1>5, <1>6 DEF IInv

\* A worker thread picks the request up.
LEMMA WorkerStartStep ==
  ASSUME IInv, NEW t \in Task, WorkerStart(t)
  PROVE  IInv'
<1> USE DEF editorVars, batchVars, queueVars, loopVars, downVars
<1>1. \A u \in Task : Queued(u) <=> Queued(u)'
  BY DEF IInv, TypeOK, WorkerStart, Queued
<1>2. CountInv'
  BY <1>1 DEF IInv, CountInv, OutstandingIsExact, WorkerStart
<1>3. PlaceInv'
  BY <1>1 DEF IInv, PlaceInv, WorkerStart, InCommands, InReady, InPending
<1>4. TypeOK' /\ EditorInv' /\ ShutdownInv'
  BY DEF IInv, TypeOK, EditorInv, ShutdownInv, WorkerStart, WorkState
<1>5. TaskInv' /\ CommandInv'
  BY DEF IInv, TaskInv, CommandInv, WorkerStart, Queued
<1>6. RecordInv' /\ NoLostWakeup' /\ NoLostCommand'
  BY DEF IInv, RecordInv, NoLostWakeup, NoLostCommand, WorkerStart, Truthful
<1> QED
  BY <1>1, <1>2, <1>3, <1>4, <1>5, <1>6 DEF IInv

\* A work function ends, and only a stopped one acknowledges a stop.
LEMMA WorkerFinishStep ==
  ASSUME IInv, NEW t \in Task, WorkerFinish(t)
  PROVE  IInv'
<1> USE DEF editorVars, batchVars, queueVars, loopVars, downVars
<1>1. \A u \in Task : Queued(u) <=> Queued(u)'
  BY DEF IInv, TypeOK, WorkerFinish, Queued
<1>2. CountInv'
  BY <1>1 DEF IInv, CountInv, OutstandingIsExact, WorkerFinish
<1>3. PlaceInv'
  BY <1>1 DEF IInv, PlaceInv, WorkerFinish, InCommands, InReady, InPending
<1>4. TypeOK' /\ EditorInv' /\ ShutdownInv'
  BY DEF IInv, TypeOK, EditorInv, ShutdownInv, WorkerFinish, WorkState
<1>5. TaskInv' /\ CommandInv'
  BY DEF IInv, TaskInv, CommandInv, WorkerFinish, TypeOK, Queued
<1>6. RecordInv' /\ NoLostWakeup' /\ NoLostCommand'
  BY DEF IInv, RecordInv, NoLostWakeup, NoLostCommand, WorkerFinish, TaskInv, Queued,
         Truthful
<1> QED
  BY <1>1, <1>2, <1>3, <1>4, <1>5, <1>6 DEF IInv

-----------------------------------------------------------------------------
(* The loop thread.                                                        *)

\* publish() gives a known task its one record.
LEMMA PublishRecord ==
  ASSUME IInv, NEW t \in Task, t \in tasks, NEW r \in Ready, r.task = t,
         Publish(t, r.kind), Truthful(r)',
         UNCHANGED <<fate, pending, calling, stop>>,
         \A u \in Task \ {t} : result'[u] = result[u]
  PROVE  /\ finished' = finished \cup {t} /\ tasks' = tasks \ {t} /\ notify' = TRUE
         /\ ready' \in Seq(Ready) /\ ready' # <<>>
         /\ RecordInv'
         /\ InReady(t)' /\ \A u \in Task : InReady(u) => InReady(u)'
<1>1. /\ t \notin finished /\ fate[t] = "open"
      /\ \A i \in DOMAIN ready : ready[i].task # t
      /\ \A i \in DOMAIN pending : pending[i].task # t
  BY DEF IInv, TaskInv, RecordInv
<1>2. /\ finished' = finished \cup {t} /\ tasks' = tasks \ {t} /\ notify' = TRUE
      /\ ready' = Append(ready, r)
  BY <1>1 DEF Publish, Ready
<1>3. /\ ready' \in Seq(Ready) /\ Len(ready) \in Nat
      /\ DOMAIN ready = 1..Len(ready) /\ DOMAIN ready' = 1..(Len(ready) + 1)
      /\ \A i \in DOMAIN ready : ready'[i] = ready[i]
      /\ ready'[Len(ready) + 1] = r
  BY <1>2, AppendFacts DEF IInv, TypeOK
<1>4. RecordInv'
  <2>1. RecordInv /\ pending \in Seq(Ready)
    BY DEF IInv, TypeOK
  <2>2. /\ \A i \in DOMAIN ready : Truthful(ready[i])'
        /\ \A i \in DOMAIN pending : Truthful(pending[i])'
    <3>1. /\ \A i \in DOMAIN ready : ready[i].task \in Task \ {t} /\ ready'[i] = ready[i]
          /\ \A i \in DOMAIN pending : pending[i].task \in Task \ {t}
      <4>1. /\ \A i \in DOMAIN ready : ready[i] \in Ready
            /\ \A i \in DOMAIN pending : pending[i] \in Ready
        BY DEF IInv, TypeOK
      <4> QED
        BY <1>1, <1>3, <4>1 DEF Ready
    <3> QED
      BY <1>3, <2>1, <3>1 DEF RecordInv, Truthful
  <2> QED
    BY <1>1, <1>2, <1>3, <2>1, <2>2 DEF RecordInv
<1>5. InReady(t)' /\ \A u \in Task : InReady(u) => InReady(u)'
  BY <1>3 DEF InReady
<1> QED
  BY <1>2, <1>3, <1>4, <1>5

\* What drain_commands() knows about the command it takes, and what it leaves.
LEMMA NextCommand ==
  ASSUME IInv, NEW t, commands # <<>>, commands' = Tail(commands), t = Head(commands).task
  PROVE  /\ t \in Task /\ Head(commands) = commands[1] /\ 1 \in DOMAIN commands
         /\ commands' \in Seq(Command)
         /\ \A i \in DOMAIN commands' : i + 1 \in DOMAIN commands /\ commands'[i] = commands[i + 1]
         /\ \A u \in Task : InCommands(u) =>
               InCommands(u)' \/ (u = t /\ Head(commands).kind = "Submit")
         /\ Head(commands).kind = "Submit" =>
               /\ t \notin finished => /\ t \in tasks /\ fate[t] = "open"
                                       /\ work[t] = "none" /\ result[t] = "none"
               /\ ~(editor = "submit" /\ arg = t)
               /\ \A i \in DOMAIN commands' :
                     commands'[i].kind = "Submit" => commands'[i].task # t
<1>1. /\ commands \in Seq(Command) /\ 1 \in DOMAIN commands /\ Head(commands) = commands[1]
      /\ commands[1] \in Command
  BY DEF IInv, TypeOK
<1>2. t \in Task
  BY <1>1 DEF Command
<1>3. /\ commands' \in Seq(Command)
      /\ \A i \in DOMAIN commands' : i + 1 \in DOMAIN commands /\ commands'[i] = commands[i + 1]
      /\ \A i \in DOMAIN commands : i # 1 => i - 1 \in DOMAIN commands' /\ commands'[i - 1] = commands[i]
  BY <1>1
<1>4. \A u \in Task : InCommands(u) =>
               InCommands(u)' \/ (u = t /\ Head(commands).kind = "Submit")
  <2> SUFFICES ASSUME NEW u \in Task, NEW i \in DOMAIN commands,
                      commands[i] = [kind |-> "Submit", task |-> u]
               PROVE  InCommands(u)' \/ (u = t /\ Head(commands).kind = "Submit")
    BY DEF InCommands
  <2>1. CASE i = 1
    BY <1>1, <2>1
  <2>2. CASE i # 1
    <3>1. i - 1 \in DOMAIN commands' /\ commands'[i - 1] = [kind |-> "Submit", task |-> u]
      BY <1>3, <2>2
    <3> QED
      BY <3>1 DEF InCommands
  <2> QED
    BY <2>1, <2>2
<1>5. ASSUME Head(commands).kind = "Submit"
      PROVE  /\ t \notin finished => /\ t \in tasks /\ fate[t] = "open"
                                       /\ work[t] = "none" /\ result[t] = "none"
             /\ ~(editor = "submit" /\ arg = t)
             /\ \A i \in DOMAIN commands' :
                     commands'[i].kind = "Submit" => commands'[i].task # t
  <2>1. CommandInv /\ commands[1].kind = "Submit" /\ commands[1].task = t
    BY <1>1, <1>5 DEF IInv
  <2>2. \A i \in DOMAIN commands' : i + 1 # 1
    BY <1>3
  <2>3. t \in tasks => fate[t] = "open"
    BY <1>2 DEF IInv, TaskInv
  <2> QED
    BY <1>1, <1>3, <2>1, <2>2, <2>3 DEF CommandInv
<1> QED
  BY <1>1, <1>2, <1>3, <1>4, <1>5

\* The wakeup follows the record it announces.
LEMMA NotifyStep ==
  ASSUME IInv, Notify
  PROVE  IInv'
<1> USE DEF editorVars, batchVars, queueVars, loopVars, downVars
<1>1. TypeOK' /\ EditorInv' /\ ShutdownInv'
  BY DEF IInv, TypeOK, EditorInv, ShutdownInv, Notify
<1>2. TaskInv' /\ CommandInv'
  BY DEF IInv, TaskInv, CommandInv, Notify, Queued
<1>3. RecordInv' /\ PlaceInv'
  BY DEF IInv, RecordInv, PlaceInv, Notify, Queued, InCommands, InReady, InPending,
         Truthful
<1>4. CountInv' /\ NoLostWakeup' /\ NoLostCommand'
  BY DEF IInv, CountInv, NoLostWakeup, NoLostCommand, Notify, Queued, OutstandingIsExact
<1> QED
  BY <1>1, <1>2, <1>3, <1>4 DEF IInv

\* The signal is consumed before the queue is read.
LEMMA OnAsyncStep ==
  ASSUME IInv, OnAsync
  PROVE  IInv'
<1> USE DEF editorVars, batchVars, queueVars, loopVars, downVars
<1>1. TypeOK' /\ EditorInv' /\ ShutdownInv'
  BY DEF IInv, TypeOK, EditorInv, ShutdownInv, OnAsync
<1>2. TaskInv' /\ CommandInv'
  BY DEF IInv, TaskInv, CommandInv, OnAsync, Queued
<1>3. RecordInv' /\ PlaceInv'
  BY DEF IInv, RecordInv, PlaceInv, OnAsync, Queued, InCommands, InReady, InPending,
         Truthful
<1>4. CountInv' /\ NoLostWakeup' /\ NoLostCommand'
  BY DEF IInv, CountInv, NoLostWakeup, NoLostCommand, OnAsync, Queued,
         OutstandingIsExact
<1> QED
  BY <1>1, <1>2, <1>3, <1>4 DEF IInv

\* drain_commands() takes one command: it is obsolete, or its task is dropped,
\* published as cancelled or failed, or given to libuv, or its request cancelled.
LEMMA DrainCommandStep ==
  ASSUME IInv, DrainCommand
  PROVE  IInv'
<1> PICK t : t = Head(commands).task
  OBVIOUS
<1> DEFINE submit == Head(commands).kind = "Submit"
<1>1. /\ looper = "drain" /\ commands # <<>> /\ commands' = Tail(commands)
      /\ UNCHANGED <<editor, arg, cancels, pending, calling, signalled, shuttingDown,
                     shutdownSignal, looper, shutdownStarted, asyncClosed, handles, stop, wakeup>>
  BY DEF DrainCommand, editorVars, batchVars, downVars
<1>2. /\ t \in Task /\ commands' \in Seq(Command)
      /\ \A i \in DOMAIN commands' : i + 1 \in DOMAIN commands /\ commands'[i] = commands[i + 1]
      /\ \A u \in Task : InCommands(u) => InCommands(u)' \/ (u = t /\ submit)
      /\ submit => /\ t \notin finished => /\ t \in tasks /\ fate[t] = "open"
                                           /\ work[t] = "none" /\ result[t] = "none"
                   /\ ~(editor = "submit" /\ arg = t)
                   /\ \A i \in DOMAIN commands' :
                         commands'[i].kind = "Submit" => commands'[i].task # t
  BY <1>1, NextCommand
<1>3. NoLostCommand'
  BY <1>1 DEF NoLostCommand
<1>4. CASE submit /\ t \in finished /\ UNCHANGED <<finished, tasks, outstanding, fate, ready,
                                    notify, work, result, activeRequests>>
  <2>1. TypeOK' /\ EditorInv' /\ ShutdownInv' /\ TaskInv'
    BY <1>1, <1>2, <1>4 DEF IInv, TypeOK, EditorInv, ShutdownInv, TaskInv, Queued
  <2>2. CommandInv'
    BY <1>1, <1>2, <1>4 DEF IInv, CommandInv
  <2>3. RecordInv' /\ NoLostWakeup' /\ CountInv'
    BY <1>1, <1>4
       DEF IInv, RecordInv, Truthful, NoLostWakeup, CountInv, OutstandingIsExact,
           Queued
  <2>4. PlaceInv'
    BY <1>1, <1>2, <1>4 DEF IInv, PlaceInv, TaskInv, InReady, InPending, Queued
  <2> QED
    BY <1>3, <2>1, <2>2, <2>3, <2>4 DEF IInv
<1>5. CASE /\ submit /\ t \notin finished /\ shuttingDown /\ FinishSilently({t})
           /\ UNCHANGED <<ready, notify, work, result, activeRequests>>
  <2>1. /\ finished' = finished \cup {t} /\ tasks' = tasks \ {t}
        /\ fate' = [fate EXCEPT ![t] = "discarded"]
    BY <1>5 DEF FinishSilently, IInv, TypeOK
  <2>2. CountInv'
    <3>1. OutstandingIsExact'
      BY <1>1, <1>2, <1>5, SilentCount
    <3> QED
      BY <1>5, <3>1 DEF IInv, CountInv, Queued
  <2>3. TypeOK'
    <3>1. outstanding' \in Nat
      BY <2>2, FiniteCount DEF CountInv, OutstandingIsExact
    <3> QED
      BY <1>1, <1>2, <1>5, <2>1, <3>1 DEF IInv, TypeOK
  <2>4. EditorInv' /\ ShutdownInv' /\ TaskInv' /\ NoLostWakeup'
    BY <1>1, <1>2, <1>5, <2>1
       DEF IInv, TypeOK, EditorInv, ShutdownInv, TaskInv, NoLostWakeup, Queued
  <2>5. CommandInv'
    BY <1>1, <1>2, <1>5, <2>1 DEF IInv, TypeOK, CommandInv, Command
  <2>6. RecordInv'
    <3>1. /\ \A i \in DOMAIN ready : ready[i].task # t
          /\ \A i \in DOMAIN pending : pending[i].task # t
      BY <1>5 DEF IInv, RecordInv
    <3> QED
      BY <1>1, <1>5, <2>1, <3>1 DEF IInv, TypeOK, RecordInv, Ready, Truthful
  <2>7. PlaceInv'
    BY <1>1, <1>2, <1>5, <2>1 DEF IInv, TypeOK, PlaceInv, InReady, InPending, Queued
  <2> QED
    BY <1>3, <2>2, <2>3, <2>4, <2>5, <2>6, <2>7 DEF IInv
<1>6. ASSUME submit, t \notin finished, NEW r \in Ready, r.task = t, Publish(t, r.kind), Truthful(r)',
             result' \in [Task -> {"none", "completion", "acknowledged", "exception"}],
             \A u \in Task \ {t} : result'[u] = result[u], 
             result'[t] # "acknowledged",
             UNCHANGED <<outstanding, fate, work, activeRequests>>
      PROVE  IInv'
  <2>1. /\ finished' = finished \cup {t} /\ tasks' = tasks \ {t} /\ notify' = TRUE
        /\ ready' \in Seq(Ready)
        /\ RecordInv'
        /\ InReady(t)' /\ \A u \in Task : InReady(u) => InReady(u)'
    BY <1>1, <1>2, <1>6, PublishRecord
  <2>2. TypeOK'
    BY <1>1, <1>2, <1>6, <2>1 DEF IInv, TypeOK
  <2>3. EditorInv' /\ ShutdownInv'
    BY <1>1, <1>2, <1>6, <2>1 DEF IInv, TypeOK, EditorInv, ShutdownInv
  <2>4. TaskInv'
    BY <1>1, <1>2, <1>6, <2>1 DEF IInv, TypeOK, TaskInv, Queued
  <2>5. CommandInv'
    BY <1>1, <1>2, <1>6, <2>1 DEF IInv, TypeOK, CommandInv, Command
  <2>6. PlaceInv'
    <3>1. PlaceInv /\ tasks' = tasks \ {t} /\ InReady(t)'
      BY <2>1 DEF IInv
    <3>2. \A u \in Task : (InPending(u) <=> InPending(u)') /\ (Queued(u) <=> Queued(u)')
      BY <1>1, <1>6 DEF InPending, Queued
    <3> QED
      BY <1>1, <1>2, <1>6, <2>1, <3>1, <3>2 DEF PlaceInv
  <2>7. CountInv' /\ NoLostWakeup'
    BY <1>1, <1>6, <2>1 DEF IInv, CountInv, OutstandingIsExact, NoLostWakeup, Queued
  <2> QED
    BY <1>3, <2>1, <2>2, <2>3, <2>4, <2>5, <2>6, <2>7 DEF IInv
<1>7. CASE /\ submit /\ t \notin finished /\ stop[t] /\ Publish(t, "Cancelled")
           /\ UNCHANGED <<outstanding, fate, work, result, activeRequests>>
  <2> DEFINE r == [kind |-> "Cancelled", task |-> t]
  <2>1. r \in Ready /\ r.task = t /\ r.kind = "Cancelled"
    BY <1>2 DEF Ready
  <2>2. result'[t] = "none" /\ stop'[t]
    BY <1>1, <1>2, <1>7
  <2>3. Truthful(r)'
    BY <2>2 DEF Truthful
  <2>4. /\ result' \in [Task -> {"none", "completion", "acknowledged", "exception"}]
        /\ \A u \in Task \ {t} : result'[u] = result[u]
    BY <1>7 DEF IInv, TypeOK
  <2> QED
    BY <1>6, <1>7, <2>1, <2>2, <2>3, <2>4
<1>8. CASE /\ submit /\ t \notin finished /\ Publish(t, "Failed")
           /\ result' = [result EXCEPT ![t] = "exception"]
           /\ UNCHANGED <<outstanding, fate, work, activeRequests>>
  <2> DEFINE r == [kind |-> "Failed", task |-> t]
  <2>1. r \in Ready /\ r.task = t /\ r.kind = "Failed"
    BY <1>2 DEF Ready
  <2>2. /\ result' \in [Task -> {"none", "completion", "acknowledged", "exception"}]
        /\ \A u \in Task \ {t} : result'[u] = result[u]
        /\ result'[t] = "exception"
    BY <1>2, <1>8 DEF IInv, TypeOK
  <2>3. Truthful(r)'
    BY <2>2 DEF Truthful
  <2> QED
    BY <1>6, <1>8, <2>1, <2>2, <2>3
<1>9. CASE /\ submit /\ t \notin finished /\ ~shuttingDown
           /\ work' = [work EXCEPT ![t] = "queued"] /\ activeRequests' = activeRequests + 1
           /\ UNCHANGED <<finished, tasks, outstanding, fate, ready, notify, result>>
  <2>1. t \in tasks /\ work[t] = "none" /\ result[t] = "none"
    BY <1>2, <1>9
  <2>2. \A u \in Task : Queued(u)' <=> Queued(u) \/ u = t
    BY <1>2, <1>9, <2>1 DEF IInv, TypeOK, Queued
  <2>3. CountInv'
    <3>1. QueuedTasks' = QueuedTasks \cup {t} /\ t \in Task \ QueuedTasks
      BY <1>2, <2>1, <2>2 DEF QueuedTasks, Queued
    <3>2. Cardinality(QueuedTasks') = Cardinality(QueuedTasks) + 1
      BY <3>1, AddOne DEF QueuedTasks
    <3> QED
      BY <1>1, <1>9, <3>2 DEF IInv, CountInv, OutstandingIsExact, QueuedTasks
  <2>4. TypeOK' /\ EditorInv' /\ ShutdownInv' /\ NoLostWakeup'
    BY <1>1, <1>2, <1>9
       DEF IInv, TypeOK, WorkState, EditorInv, ShutdownInv, NoLostWakeup
  <2>5. TaskInv'
    BY <1>2, <1>9, <1>1, <2>1 DEF IInv, TypeOK, TaskInv, Queued
  <2>6. CommandInv'
    BY <1>1, <1>2, <1>9 DEF IInv, TypeOK, CommandInv, Command
  <2>7. RecordInv'
    BY <1>1, <1>9 DEF IInv, RecordInv, Truthful
  <2>8. PlaceInv'
    BY <1>1, <1>2, <1>9, <2>2 DEF IInv, PlaceInv, InReady, InPending
  <2> QED
    BY <1>3, <2>3, <2>4, <2>5, <2>6, <2>7, <2>8 DEF IInv
<1>10. CASE ~submit /\ CancelTask(t)
  <2>1. stop[t]
    <3>1. /\ commands[1] \in Command /\ 1 \in DOMAIN commands /\ Head(commands) = commands[1]
      BY <1>1 DEF IInv, TypeOK
    <3>2. commands[1].kind = "Cancel" /\ commands[1].task = t
      BY <1>10, <3>1 DEF Command
    <3> QED
      BY <3>1, <3>2 DEF IInv, CommandInv
  <2>2. /\ work' = [work EXCEPT ![t] = IF t \notin finished /\ @ = "queued" THEN "cancelled" ELSE @]
        /\ UNCHANGED <<finished, tasks, outstanding, fate, ready, notify, result, activeRequests>>
    BY <1>10 DEF CancelTask
  <2>3. \A u \in Task : Queued(u)' <=> Queued(u)
    BY <1>2, <2>2 DEF IInv, TypeOK, Queued
  <2>4. TypeOK' /\ EditorInv' /\ ShutdownInv' /\ NoLostWakeup'
    BY <1>1, <1>2, <2>2
       DEF IInv, TypeOK, WorkState, EditorInv, ShutdownInv, NoLostWakeup
  <2>5. TaskInv'
    BY <1>1, <1>2, <2>1, <2>2 DEF IInv, TypeOK, TaskInv, Queued
  <2>6. CommandInv'
    BY <1>1, <1>2, <2>2 DEF IInv, TypeOK, CommandInv, Command
  <2>7. RecordInv' /\ CountInv'
    BY <1>1, <2>2, <2>3 DEF IInv, RecordInv, Truthful, CountInv, OutstandingIsExact
  <2>8. PlaceInv'
    BY <1>1, <1>2, <1>10, <2>2, <2>3 DEF IInv, PlaceInv, InReady, InPending
  <2> QED
    BY <1>3, <2>4, <2>5, <2>6, <2>7, <2>8 DEF IInv
<1> QED
  BY <1>4, <1>5, <1>7, <1>8, <1>9, <1>10 DEF DrainCommand, QueueTask

\* The end of drain_commands() and on_shutdown() both come to begin_shutdown(),
\* which settles every task that has no request.
LEMMA BeginShutdownStep ==
  ASSUME IInv, DrainDone \/ OnShutdown
  PROVE  IInv'
<1>1. /\ shuttingDown => BeginShutdown
      /\ ~shuttingDown => UNCHANGED <<notify, finished, activeRequests, shutdownStarted, asyncClosed,
                                     handles, tasks, outstanding, stop, work, fate>>
  BY DEF DrainDone, OnShutdown, IInv, ShutdownInv
<1>2. /\ UNCHANGED <<editor, arg, cancels, pending, calling, commands, signalled, shuttingDown,
                     ready, wakeup, result>>
      /\ looper' = "poll" /\ looper \in {"poll", "drain"}
      /\ looper = "drain" => commands = <<>>
      /\ shutdownSignal' \in BOOLEAN /\ (shutdownSignal' => shutdownSignal)
  <2>1. CASE DrainDone
    BY <2>1 DEF DrainDone, IInv, TypeOK, editorVars, batchVars, queueVars, downVars
  <2>2. CASE OnShutdown
    BY <2>2 DEF OnShutdown, editorVars, batchVars, queueVars
  <2> QED
    BY <2>1, <2>2
<1>3. CASE UNCHANGED <<notify, finished, activeRequests, shutdownStarted, asyncClosed, handles,
                       tasks, outstanding, stop, work, fate>>
  <2>1. TypeOK' /\ EditorInv' /\ ShutdownInv' /\ TaskInv' /\ CountInv'
    BY <1>2, <1>3
       DEF IInv, TypeOK, EditorInv, ShutdownInv, TaskInv, CountInv, OutstandingIsExact,
           Queued
  <2>2. CommandInv' /\ RecordInv' /\ PlaceInv'
    BY <1>2, <1>3
       DEF IInv, CommandInv, RecordInv, PlaceInv, InCommands, InReady, InPending,
           Truthful, Queued
  <2>3. NoLostWakeup' /\ NoLostCommand'
    BY <1>2, <1>3 DEF IInv, NoLostWakeup, NoLostCommand
  <2> QED
    BY <2>1, <2>2, <2>3 DEF IInv
<1>4. CASE shuttingDown /\ ~shutdownStarted
  <2> DEFINE gone == {t \in tasks : ~Queued(t)}
  <2>1. /\ shutdownStarted' = TRUE /\ handles' = {}
        /\ stop' = [t \in Task |-> stop[t] \/ t \in tasks]
        /\ work' = [t \in Task |-> IF t \in tasks /\ work[t] = "queued"
                                   THEN "cancelled" ELSE work[t]]
        /\ asyncClosed' = (asyncClosed \/ (shuttingDown /\ activeRequests = 0))
        /\ UNCHANGED <<notify, activeRequests>>
        /\ FinishSilently(gone)
    BY <1>1, <1>4 DEF BeginShutdown, CloseAsyncIfIdle
  <2>2. gone \ finished = gone /\ gone \in SUBSET tasks /\ gone \in SUBSET Task
    BY DEF IInv, TypeOK, TaskInv
  <2>3. /\ finished' = finished \cup gone /\ tasks' = tasks \ gone
        /\ fate' = [t \in Task |-> IF t \in gone THEN "discarded" ELSE fate[t]]
    BY <2>1, <2>2 DEF FinishSilently
  <2>4. \A t \in Task : Queued(t)' <=> Queued(t)
    BY <2>1 DEF IInv, TypeOK, Queued
  <2>5. CountInv'
    <3>1. OutstandingIsExact'
      BY <1>2, <2>1, <2>2, SilentCount
    <3> QED
      BY <2>1, <2>4, <3>1 DEF IInv, CountInv
  <2>6. TypeOK'
    <3>1. outstanding' \in Nat
      BY <2>5, FiniteCount DEF CountInv, OutstandingIsExact
    <3> QED
      BY <1>2, <2>1, <2>2, <2>3, <3>1 DEF IInv, TypeOK, WorkState
  <2>7. EditorInv'
    BY <1>2, <1>4, <2>1, <2>3 DEF IInv, TypeOK, EditorInv
  <2>8. ShutdownInv'
    BY <1>2, <1>4, <2>1 DEF IInv, TypeOK, ShutdownInv
  <2>9. TaskInv'
    BY <1>2, <2>1, <2>3, <2>4 DEF IInv, TypeOK, TaskInv, Queued
  <2>10. CommandInv'
    <3>1. \A i \in DOMAIN commands : commands[i].task \in Task
      <4>1. \A i \in DOMAIN commands : commands[i] \in Command
        BY DEF IInv, TypeOK
      <4> QED
        BY <4>1 DEF Command
    <3>2. \A t \in Task : t \in tasks /\ work[t] = "none" => t \in finished'
      BY <2>3 DEF Queued
    <3>3. \A t \in Task : /\ fate[t] \notin {"new", "rejected"} => fate'[t] \notin {"new", "rejected"}
                          /\ stop[t] => stop'[t]
      BY <2>1, <2>3
    <3>4. finished \subseteq finished'
      BY <2>3
    <3> QED
      BY <1>2, <3>1, <3>2, <3>3, <3>4 DEF IInv, CommandInv
  <2>11. RecordInv'
    BY <1>2, <2>1, <2>3 DEF IInv, TypeOK, RecordInv, TaskInv, Ready, Truthful
  <2>12. PlaceInv'
    BY <1>2, <2>1, <2>3, <2>4 DEF IInv, TypeOK, PlaceInv, InCommands, InReady, InPending
  <2>13. NoLostWakeup' /\ NoLostCommand'
    BY <1>2, <2>1 DEF IInv, NoLostWakeup, NoLostCommand
  <2> QED
    BY <2>5, <2>6, <2>7, <2>8, <2>9, <2>10, <2>11, <2>12, <2>13 DEF IInv
<1> QED
  BY <1>1, <1>3, <1>4 DEF BeginShutdown

\* after_work() leaves the request count exact.
LEMMA AfterWorkQueue ==
  ASSUME IInv, NEW t \in Task, AfterWork(t)
  PROVE  /\ activeRequests' = Cardinality({u \in Task : Queued(u)}')
         /\ activeRequests' \in Nat /\ activeRequests' = activeRequests - 1
         /\ activeRequests' = 0 => \A u \in Task : ~Queued(u)'
         /\ \A u \in Task : Queued(u)' <=> Queued(u) /\ u # t
<1>1. \A u \in Task : Queued(u)' <=> Queued(u) /\ u # t
  BY DEF IInv, TypeOK, AfterWork, Queued
<1>2. QueuedTasks' = QueuedTasks \ {t} /\ t \in QueuedTasks
  BY <1>1 DEF AfterWork, Queued, QueuedTasks
<1>3. Cardinality(QueuedTasks') = activeRequests - 1
  BY <1>2, RemoveOne DEF IInv, CountInv, QueuedTasks
<1>4. activeRequests' = Cardinality(QueuedTasks') /\ activeRequests' \in Nat
                                             /\ activeRequests' = activeRequests - 1
  BY <1>2, <1>3, FiniteCount DEF AfterWork, QueuedTasks
<1>5. activeRequests' = 0 => QueuedTasks' = {}
  BY <1>4, FiniteCount, FS_EmptySet DEF QueuedTasks
<1> QED
  BY <1>1, <1>4, <1>5 DEF QueuedTasks

\* after_work() turns the request into the task's record, or drops the task when
\* the runtime is going down.
LEMMA AfterWorkStep ==
  ASSUME IInv, NEW t \in Task, AfterWork(t)
  PROVE  IInv'
<1>1. t \in tasks /\ t \notin finished /\ fate[t] = "open"
  BY DEF IInv, TaskInv, AfterWork, Queued
<1>2. PICK r \in Ready :
        /\ r.task = t /\ Truthful(r) /\ Truthful(r)'
        /\ ~shuttingDown => Publish(t, r.kind) /\ UNCHANGED <<outstanding, fate>>
  <2> DEFINE kind == Outcome(t)
  <2>1. ~shuttingDown => Publish(t, kind) /\ UNCHANGED <<outstanding, fate>>
    BY DEF AfterWork
  <2>2. kind \in {"Completed", "Cancelled", "Failed"}
    BY DEF Outcome
  <2>3. /\ kind = "Completed" => result[t] = "completion"
        /\ kind = "Failed" => result[t] = "exception"
        /\ kind = "Cancelled" => stop[t] /\ result[t] \in {"none", "acknowledged"}
    BY DEF IInv, TypeOK, TaskInv, AfterWork, Outcome
  <2> DEFINE r == [kind |-> kind, task |-> t]
  <2>4. r \in Ready /\ r.task = t /\ r.kind = kind
    BY <2>2 DEF Ready
  <2> HIDE DEF kind
  <2>5. Truthful(r)
    BY <2>3, <2>4 DEF Truthful
  <2>6. /\ r.kind = "Completed" => result'[r.task] = "completion"
        /\ r.kind = "Failed" => result'[r.task] = "exception"
        /\ r.kind = "Cancelled" => stop'[r.task] /\ result'[r.task] \in {"none", "acknowledged"}
    BY <2>3, <2>4 DEF AfterWork
  <2> QED
    BY <2>1, <2>4, <2>5, <2>6 DEF Truthful
<1>3. \/ /\ shuttingDown
         /\ outstanding' = outstanding - 1
         /\ fate' = [fate EXCEPT ![t] = "discarded"]
         /\ UNCHANGED <<ready, notify>>
      \/ /\ ~shuttingDown
         /\ ready' = Append(ready, r)
         /\ notify' = TRUE
         /\ UNCHANGED <<outstanding, fate>>
  <2>1. ({t} \cap tasks) \ finished = {t}
    BY <1>1
  <2>2. CASE shuttingDown
    <3>1. FinishSilently({t} \cap tasks) /\ UNCHANGED <<ready, notify>>
      BY <2>2 DEF AfterWork
    <3>2. outstanding' = outstanding - 1
      BY <2>1, <3>1, FS_Singleton DEF FinishSilently
    <3>3. fate' = [fate EXCEPT ![t] = "discarded"]
      BY <2>1, <3>1 DEF FinishSilently, IInv, TypeOK
    <3> QED
      BY <2>2, <3>1, <3>2, <3>3
  <2>3. CASE ~shuttingDown
    BY <1>1, <1>2, <2>3 DEF Publish, Ready
  <2> QED
    BY <2>2, <2>3
<1>4. finished' = finished \cup {t} /\ tasks' = tasks \ {t}
  BY <1>1 DEF AfterWork, Publish, FinishSilently
<1>5. /\ looper = "poll" /\ looper' = "worked"
      /\ work[t] \in {"done", "cancelled"}
      /\ work' = [work EXCEPT ![t] = "none"]
      /\ UNCHANGED <<editorVars, batchVars, queueVars, downVars, shutdownStarted, asyncClosed,
                     handles, stop, wakeup, result>>
  BY DEF AfterWork
<1>6. CountInv'
  <2>1. Open \in SUBSET Task /\ t \in Open
    BY <1>1 DEF Open
  <2>2. CASE shuttingDown
    <3>1. Open' = Open \ {t}
      BY <1>3, <2>2 DEF IInv, TypeOK, Open
    <3>2. Cardinality(Open') = Cardinality(Open) - 1
      BY <2>1, <3>1, RemoveOne
    <3> QED
      BY <1>3, <1>5, <2>2, <3>2, FiniteCount, AfterWorkQueue
         DEF IInv, CountInv, OutstandingIsExact, Open, batchVars
  <2>3. CASE ~shuttingDown
    BY <1>3, <1>5, <2>3, AfterWorkQueue
       DEF IInv, CountInv, OutstandingIsExact, batchVars
  <2> QED
    BY <2>2, <2>3
<1>7. TypeOK'
  <2>1. outstanding' \in Nat
    BY <1>6, FiniteCount DEF CountInv, OutstandingIsExact
  <2>2. activeRequests' \in Nat /\ asyncClosed' \in BOOLEAN
    BY AfterWorkQueue DEF IInv, TypeOK, AfterWork
  <2>3. ready \in Seq(Ready) /\ Append(ready, r) \in Seq(Ready)
    BY AppendFacts DEF IInv, TypeOK
  <2>4. /\ ready' \in Seq(Ready) /\ notify' \in BOOLEAN
        /\ fate' \in [Task -> {"new", "open", "rejected", "completed", "cancelled", "failed",
                              "discarded"}]
    BY <1>3, <2>3 DEF IInv, TypeOK
  <2>5. work' \in [Task -> WorkState]
    BY <1>5 DEF IInv, TypeOK, WorkState
  <2>6. tasks' \subseteq Task /\ finished' \subseteq Task
    BY <1>4 DEF IInv, TypeOK
  <2>7. /\ TypeOK
        /\ UNCHANGED <<editor, arg, cancels, pending, calling, commands, signalled, wakeup,
                       shuttingDown, shutdownSignal, shutdownStarted, handles, stop, result>>
        /\ looper' = "worked"
    BY <1>5 DEF IInv, editorVars, batchVars, queueVars, downVars
  <2> QED
    BY <2>1, <2>2, <2>4, <2>5, <2>6, <2>7 DEF TypeOK
<1>8. EditorInv'
  BY <1>1, <1>4, <1>5 DEF IInv, TypeOK, EditorInv, editorVars, batchVars, downVars
<1>9. ShutdownInv'
  <2>0. activeRequests - 1 \in Nat /\ activeRequests \in Nat
    BY AfterWorkQueue DEF IInv, TypeOK
  <2>1. ~asyncClosed
    BY <2>0, AfterWorkQueue DEF IInv, ShutdownInv
  <2>2. /\ ShutdownInv /\ looper' = "worked"
        /\ UNCHANGED <<shutdownSignal, shuttingDown, shutdownStarted, asyncClosed>>
    BY <1>5 DEF IInv, downVars
  <2> QED
    BY <2>1, <2>2 DEF ShutdownInv
<1>10. TaskInv'
  BY <1>1, <1>3, <1>4, <1>5 DEF IInv, TypeOK, TaskInv, Queued
<1>11. CommandInv'
  BY <1>1, <1>3, <1>4, <1>5 DEF IInv, TypeOK, CommandInv, Command, editorVars, queueVars
<1>12. RecordInv'
  <2>1. CASE shuttingDown
    BY <1>1, <1>3, <1>4, <1>5, <2>1
       DEF IInv, TypeOK, RecordInv, Ready, Truthful, batchVars
  <2>2. CASE ~shuttingDown
    <3>1. /\ DOMAIN ready' = 1..(Len(ready) + 1) /\ DOMAIN ready = 1..Len(ready)
          /\ \A i \in DOMAIN ready : ready'[i] = ready[i]
          /\ ready'[Len(ready) + 1] = r
      BY <1>3, <2>2, AppendFacts DEF IInv, TypeOK
    <3>2. /\ \A i \in DOMAIN ready : ready[i].task # t
          /\ \A i \in DOMAIN pending : pending[i].task # t
      BY <1>1 DEF IInv, RecordInv
    <3> QED
      <4>1. RecordInv /\ UNCHANGED <<fate, pending, calling, result, stop>>
        BY <1>3, <1>5, <2>2 DEF IInv, batchVars
      <4> QED
        BY <1>1, <1>2, <1>4, <3>1, <3>2, <4>1 DEF RecordInv, Truthful
  <2> QED
    BY <2>1, <2>2
<1>13. PlaceInv'
  <2>1. \A u \in Task : InReady(u) => InReady(u)'
    <3>1. CASE ready' = ready
      BY <3>1 DEF InReady
    <3>2. CASE ready' = Append(ready, r)
      BY <3>2, AppendFacts DEF IInv, TypeOK, InReady
    <3> QED
      BY <1>3, <3>1, <3>2
  <2>2. ~shuttingDown => InReady(t)'
    <3> SUFFICES ASSUME ~shuttingDown PROVE InReady(t)'
      OBVIOUS
    <3>1. Len(ready) + 1 \in DOMAIN ready' /\ ready'[Len(ready) + 1] = r
      BY <1>3, AppendFacts DEF IInv, TypeOK
    <3> QED
      BY <1>2, <3>1 DEF InReady
  <2> QED
    <3>1. /\ PlaceInv /\ fate \in [Task -> Lifecycle!Fate] /\ tasks' = tasks \ {t}
          /\ UNCHANGED <<editor, arg, commands, pending>>
      BY <1>4, <1>5 DEF IInv, TypeOK, Lifecycle!Fate, editorVars, batchVars, queueVars
    <3>2. \A u \in Task : u # t /\ fate'[u] = "open" => fate[u] = "open"
      BY <1>3, <3>1
    <3>3. fate'[t] = "open" => ~shuttingDown
      BY <1>3, <3>1
    <3> QED
      BY <2>1, <2>2, <3>1, <3>2, <3>3, AfterWorkQueue
         DEF PlaceInv, InCommands, InPending
<1>14. NoLostWakeup' /\ NoLostCommand'
  BY <1>3, <1>5
     DEF IInv, NoLostWakeup, NoLostCommand, EditorInv, TypeOK, AfterWork, editorVars, queueVars
<1> QED
  BY <1>6, <1>7, <1>8, <1>9, <1>10, <1>11, <1>12, <1>13, <1>14 DEF IInv

\* The end of after_work() closes the async handles only in a shutdown and with no
\* request left.
LEMMA AfterWorkDoneStep ==
  ASSUME IInv, AfterWorkDone
  PROVE  IInv'
<1> USE DEF editorVars, batchVars, queueVars, loopVars, downVars
<1>1. TypeOK' /\ EditorInv' /\ ShutdownInv'
  BY DEF IInv, TypeOK, EditorInv, ShutdownInv, AfterWorkDone, CloseAsyncIfIdle
<1>2. TaskInv' /\ CommandInv'
  BY DEF IInv, TaskInv, CommandInv, AfterWorkDone, Queued
<1>3. RecordInv' /\ PlaceInv'
  BY DEF IInv, RecordInv, PlaceInv, AfterWorkDone, Queued, InCommands, InReady, InPending,
         Truthful
<1>4. CountInv' /\ NoLostWakeup' /\ NoLostCommand'
  BY DEF IInv, CountInv, NoLostWakeup, NoLostCommand, AfterWorkDone, CloseAsyncIfIdle, Queued,
         OutstandingIsExact
<1> QED
  BY <1>1, <1>2, <1>3, <1>4 DEF IInv

\* The loop thread returns with no request left.
LEMMA LoopExitStep ==
  ASSUME IInv, LoopExit
  PROVE  IInv'
<1> USE DEF editorVars, batchVars, queueVars, loopVars, downVars
<1>1. TypeOK' /\ EditorInv' /\ ShutdownInv'
  BY DEF IInv, TypeOK, EditorInv, ShutdownInv, LoopExit
<1>2. TaskInv' /\ CommandInv'
  BY DEF IInv, TaskInv, CommandInv, LoopExit, Queued
<1>3. RecordInv' /\ PlaceInv'
  BY DEF IInv, RecordInv, PlaceInv, LoopExit, Queued, InCommands, InReady, InPending,
         Truthful
<1>4. CountInv' /\ NoLostWakeup' /\ NoLostCommand'
  BY DEF IInv, CountInv, NoLostWakeup, NoLostCommand, LoopExit, Queued,
         OutstandingIsExact
<1> QED
  BY <1>1, <1>2, <1>3, <1>4 DEF IInv

-----------------------------------------------------------------------------
(* Theorems.                                                               *)

\* The inductive invariant holds of every behaviour of the runtime.
THEOREM Invariant == Spec => []IInv
<1>1. Init => IInv
  <2> SUFFICES ASSUME Init PROVE IInv
    OBVIOUS
  <2>1. TypeOK
    <3>1. commands \in Seq(Command) /\ ready \in Seq(Ready) /\ pending \in Seq(Ready)
      BY DEF Init
    <3> QED
      BY <3>1 DEF Init, TypeOK, WorkState
  <2>2. EditorInv /\ ShutdownInv /\ TaskInv
    BY DEF Init, EditorInv, ShutdownInv, TaskInv, Queued
  <2>3. CommandInv /\ RecordInv /\ PlaceInv
    BY DEF Init, CommandInv, RecordInv, PlaceInv
  <2>4. CountInv
    <3>1. Cardinality(Open) = 0 /\ Cardinality(QueuedTasks) = 0
      <4>1. Open = {} /\ QueuedTasks = {}
        BY DEF Init, Open, QueuedTasks, Queued
      <4> QED
        BY <4>1, FS_EmptySet
    <3> QED
      BY <3>1 DEF Init, CountInv, OutstandingIsExact, Open, QueuedTasks
  <2>5. NoLostWakeup /\ NoLostCommand
    BY DEF Init, NoLostWakeup, NoLostCommand
  <2> QED
    BY <2>1, <2>2, <2>3, <2>4, <2>5 DEF IInv
<1>2. IInv /\ [Next]_vars => IInv'
  <2> SUFFICES ASSUME IInv, [Next]_vars PROVE IInv'
    OBVIOUS
  <2>1. CASE EditorCall \/ EditorLoop \/ Destroy \/ Teardown
    BY <2>1, CancelStopStep, EnqueueStep, EnqueueThrowsStep, SendStep, WokenStep,
       DrainStep,
       RunCallbackStep, CallbackReturnsStep, DestroyStep, SendShutdownStep, JoinedStep
       DEF EditorCall, EditorLoop, Teardown
  <2>2. ASSUME NEW t \in Task, Submit(t) \/ CancelFind(t) PROVE IInv'
    BY <2>2, SubmitStep, CancelFindStep
  <2>3. ASSUME NEW t \in Task, WorkerStart(t) \/ WorkerFinish(t) \/ AfterWork(t) PROVE IInv'
    BY <2>3, WorkerStartStep, WorkerFinishStep, AfterWorkStep
  <2>4. CASE AfterWorkDone \/ Notify \/ OnAsync \/ DrainCommand \/ DrainDone \/ OnShutdown \/ LoopExit
    BY <2>4, AfterWorkDoneStep, NotifyStep, OnAsyncStep, DrainCommandStep, BeginShutdownStep,
       LoopExitStep
  <2>5. CASE UNCHANGED vars
    <3> USE <2>5 DEF vars, editorVars, batchVars, queueVars, loopVars, downVars
    <3>1. TypeOK' /\ EditorInv' /\ ShutdownInv' /\ TaskInv' /\ CommandInv'
      BY DEF IInv, TypeOK, EditorInv, ShutdownInv, TaskInv, CommandInv, Queued
    <3>2. RecordInv' /\ PlaceInv'
      BY DEF IInv, RecordInv, PlaceInv, Truthful, InCommands, InReady, InPending, Queued
    <3>3. CountInv' /\ NoLostWakeup' /\ NoLostCommand'
      BY DEF IInv, CountInv, OutstandingIsExact, NoLostWakeup, NoLostCommand, Queued
    <3> QED
      BY <3>1, <3>2, <3>3 DEF IInv
  <2> QED
    BY <2>1, <2>2, <2>3, <2>4, <2>5 DEF Next
<1> QED
  BY <1>1, <1>2, PTL DEF Spec

\* Type correctness, the counters included: neither ever goes below zero.
THEOREM TypeCorrect == Spec => []TypeOK
<1>1. IInv => TypeOK
  BY DEF IInv
<1> QED
  BY <1>1, Invariant, PTL

\* has_work() counts exactly the tasks whose owner is still waiting.
THEOREM CountExact == Spec => []OutstandingIsExact
<1>1. IInv => OutstandingIsExact
  BY DEF IInv, CountInv
<1> QED
  BY <1>1, Invariant, PTL

\* No record is left in the ready queue without a wakeup for it.
THEOREM WakeupNotLost == Spec => []NoLostWakeup
<1>1. IInv => NoLostWakeup
  BY DEF IInv
<1> QED
  BY <1>1, Invariant, PTL

\* No command is left in the queue without a signal for it.
THEOREM CommandNotLost == Spec => []NoLostCommand
<1>1. IInv => NoLostCommand
  BY DEF IInv
<1> QED
  BY <1>1, Invariant, PTL

\* The loop thread ends only inside a shutdown, with no request outstanding.
THEOREM ExitClean == Spec => []LoopExitIsClean
<1>1. IInv => LoopExitIsClean
  <2> SUFFICES ASSUME IInv PROVE LoopExitIsClean
    OBVIOUS
  <2>1. activeRequests = Cardinality(QueuedTasks) /\ QueuedTasks \in SUBSET Task
    BY DEF IInv, CountInv, QueuedTasks
  <2>2. activeRequests = 0 => QueuedTasks = {}
    BY <2>1, FiniteCount, FS_EmptySet
  <2> QED
    BY <2>1, <2>2 DEF IInv, ShutdownInv, LoopExitIsClean, QueuedTasks
<1> QED
  BY <1>1, Invariant, PTL

\* A set whose elements are all equal has at most one.
LEMMA AtMostOne ==
  ASSUME NEW S, \A x, y \in S : x = y
  PROVE  Cardinality(S) = IF S = {} THEN 0 ELSE 1
<1>1. CASE S = {}
  BY <1>1, FS_EmptySet
<1>2. CASE S # {}
  <2>1. PICK x : S = {x}
    BY <1>2
  <2> QED
    BY <1>2, <2>1, FS_Singleton
<1> QED
  BY <1>1, <1>2

\* Every open task has exactly one way to its callback, and a settled one none.
THEOREM OneWay == Spec => []OneWayToTheCallback
<1>1. IInv => OneWayToTheCallback
  <2> SUFFICES ASSUME IInv, NEW t \in Task
               PROVE  Places(t) = IF fate[t] = "open" THEN 1 ELSE 0
    BY DEF OneWayToTheCallback
  <2> DEFINE C == {i \in DOMAIN commands : /\ commands[i] = [kind |-> "Submit", task |-> t]
                                           /\ t \notin finished}
             R == {i \in DOMAIN ready : ready[i].task = t}
             P == {i \in DOMAIN pending : pending[i].task = t /\ ~(calling /\ i = 1)}
             caller == editor = "submit" /\ arg = t
             one(b) == IF b THEN 1 ELSE 0
  <2>1. Cardinality(C) = one(C # {})
    <3>1. \A i, j \in C : i = j
      BY DEF IInv, CommandInv
    <3> QED
      BY <3>1, AtMostOne
  <2>2. Cardinality(R) = one(R # {})
    <3>1. \A i, j \in R : i = j
      BY DEF IInv, RecordInv
    <3> QED
      BY <3>1, AtMostOne
  <2>3. Cardinality(P) = one(P # {})
    <3>1. \A i, j \in P : i = j
      BY DEF IInv, RecordInv
    <3> QED
      BY <3>1, AtMostOne
  <2>4. Places(t) = one(caller) + one(C # {}) + one(Queued(t)) + one(R # {}) + one(P # {})
    BY <2>1, <2>2, <2>3 DEF Places
  <2>5. C # {} => t \in tasks /\ work[t] = "none" /\ ~caller
    BY DEF IInv, CommandInv
  <2>6. Queued(t) => t \in tasks /\ ~caller
    BY DEF IInv, TaskInv, EditorInv, Queued
  <2>7. caller => t \in tasks
    BY DEF IInv, EditorInv
  <2>8. R # {} => t \notin tasks /\ fate[t] = "open" /\ P = {}
    BY DEF IInv, RecordInv, TaskInv
  <2>9. P # {} => t \notin tasks /\ fate[t] = "open"
    BY DEF IInv, RecordInv, TaskInv
  <2>10. t \in tasks => fate[t] = "open" /\ (caller \/ C # {} \/ Queued(t))
    BY DEF IInv, PlaceInv, TaskInv, InCommands
  <2>11. fate[t] = "open" => t \in tasks \/ R # {} \/ P # {}
    BY DEF IInv, PlaceInv, RecordInv, InReady, InPending
  <2> HIDE DEF C, R, P, caller
  <2> QED
    BY <2>4, <2>5, <2>6, <2>7, <2>8, <2>9, <2>10, <2>11 DEF Queued
<1> QED
  BY <1>1, Invariant, PTL

-----------------------------------------------------------------------------
(* Refinement.                                                             *)

\* The abstract step that a shutdown step is: tasks without a request are
\* discarded, the others are stopped.
LEMMA ShutdownRefines ==
  ASSUME IInv, DrainDone \/ OnShutdown
  PROVE  Lifecycle!Discard \/ UNCHANGED Lifecycle!lifecycleVars
<1>1. UNCHANGED <<result, shuttingDown>>
  BY DEF DrainDone, OnShutdown, downVars
<1>2. CASE shuttingDown /\ ~shutdownStarted
  <2> DEFINE S == {t \in tasks : ~Queued(t)} \ finished
  <2>1. BeginShutdown
    BY <1>2 DEF DrainDone, OnShutdown
  <2>2. /\ fate' = [t \in Task |-> IF t \in S THEN "discarded" ELSE fate[t]]
        /\ stop' = [t \in Task |-> t \in tasks \/ stop[t]]
    BY <1>2, <2>1 DEF BeginShutdown, FinishSilently, IInv, TypeOK
  <2>3. S \in SUBSET Task /\ tasks \in SUBSET Task /\ \A t \in S : fate[t] = "open"
    BY DEF IInv, TypeOK, TaskInv
  <2> QED
    <3>1. Lifecycle!DiscardAndStop(S, tasks)
      BY <2>2, <2>3 DEF Lifecycle!DiscardAndStop
    <3> QED
      BY <1>1, <1>2, <2>3, <3>1 DEF Lifecycle!Discard
<1>3. CASE ~(shuttingDown /\ ~shutdownStarted)
  <2>1. UNCHANGED <<fate, stop>>
    BY <1>3 DEF DrainDone, OnShutdown, BeginShutdown, IInv, ShutdownInv
  <2> QED
    BY <1>1, <2>1 DEF Lifecycle!lifecycleVars
<1> QED
  BY <1>2, <1>3

\* A step that drops one task is an abstract Discard.
LEMMA SilentRefines ==
  ASSUME IInv, NEW S \in SUBSET tasks, shuttingDown, FinishSilently(S),
         UNCHANGED <<stop, result, shuttingDown>>
  PROVE  Lifecycle!Discard
<1> DEFINE gone == S \ finished
<1>1. /\ fate' = [t \in Task |-> IF t \in gone THEN "discarded" ELSE fate[t]]
      /\ gone \in SUBSET Task /\ \A t \in gone : fate[t] = "open"
  BY DEF FinishSilently, IInv, TypeOK, TaskInv
<1>2. stop' = [t \in Task |-> t \in {} \/ stop[t]]
  BY DEF IInv, TypeOK
<1>3. Lifecycle!DiscardAndStop(gone, {})
  BY <1>1, <1>2 DEF Lifecycle!DiscardAndStop
<1> QED
  BY <1>1, <1>3 DEF Lifecycle!Discard

\* Every step of the runtime is a step of TaskLifecycle or leaves it alone.
LEMMA StepRefines ==
  ASSUME IInv, [Next]_vars
  PROVE  [Lifecycle!Next]_(Lifecycle!lifecycleVars)
<1> USE DEF editorVars, batchVars, queueVars, loopVars, downVars
<1>1. ASSUME NEW t \in Task, Submit(t) PROVE Lifecycle!Submit(t)
  BY <1>1 DEF Submit, Lifecycle!Submit
<1>2. CASE CancelStop
  <2>1. arg \in Task /\ Lifecycle!RequestStop(arg)
    BY <1>2 DEF CancelStop, IInv, EditorInv, Lifecycle!RequestStop
  <2> QED
    BY <2>1 DEF Lifecycle!Next
<1>3. CASE EnqueueThrows
  <2>1. CASE editor = "submit"
    <3>1. arg \in Task /\ fate[arg] = "open" /\ result[arg] = "none" /\ ~shuttingDown
      BY <2>1 DEF IInv, EditorInv, TaskInv
    <3>2. Lifecycle!Reject(arg)
      BY <1>3, <2>1, <3>1 DEF EnqueueThrows, Lifecycle!Reject, Lifecycle!Settle
    <3> QED
      BY <3>1, <3>2 DEF Lifecycle!Next
  <2>2. CASE editor # "submit"
    BY <1>3, <2>2 DEF EnqueueThrows, Lifecycle!lifecycleVars
  <2> QED
    BY <2>1, <2>2
<1>4. CASE RunCallback
  <2> PICK r \in Ready : r = Head(pending) /\ r = pending[1] /\ 1 \in DOMAIN pending
    BY <1>4 DEF RunCallback, IInv, TypeOK
  <2>1. /\ r.task \in Task /\ r.kind \in {"Completed", "Cancelled", "Failed"}
        /\ FateOf[r.kind] \in {"completed", "cancelled", "failed"}
    BY DEF Ready, FateOf
  <2>2. fate[r.task] = "open" /\ Truthful(r) /\ ~shuttingDown
    BY <1>4 DEF RunCallback, IInv, RecordInv, EditorInv
  <2>3. /\ FateOf[r.kind] = "completed" => r.kind = "Completed"
        /\ FateOf[r.kind] = "failed" => r.kind = "Failed"
        /\ FateOf[r.kind] = "cancelled" => r.kind = "Cancelled"
    BY <2>1 DEF FateOf
  <2>4. Lifecycle!Deliver(r.task, FateOf[r.kind])
    BY <1>4, <2>2, <2>3 DEF RunCallback, Truthful, Lifecycle!Deliver, Lifecycle!Settle
  <2> QED
    BY <2>1, <2>4 DEF Lifecycle!Next
<1>5. CASE Destroy
  BY <1>5 DEF Destroy, IInv, EditorInv, Lifecycle!Next, Lifecycle!Close
<1>6. CASE Joined
  <2> DEFINE S == {ready[i].task : i \in DOMAIN ready}
  <2>1. S \in SUBSET Task /\ \A t \in S : fate[t] = "open"
    BY DEF IInv, TypeOK, RecordInv, Ready
  <2>2. /\ fate' = [t \in Task |-> IF t \in S THEN "discarded" ELSE fate[t]]
        /\ stop' = [t \in Task |-> t \in {} \/ stop[t]]
    BY <1>6 DEF Joined, IInv, TypeOK
  <2>3. shuttingDown /\ UNCHANGED <<result, shuttingDown>>
    BY <1>6 DEF Joined, IInv, EditorInv
  <2>4. Lifecycle!Discard
    <3>1. Lifecycle!DiscardAndStop(S, {})
      BY <2>1, <2>2 DEF Lifecycle!DiscardAndStop
    <3> QED
      BY <2>1, <2>3, <3>1 DEF Lifecycle!Discard
  <2> QED
    BY <2>4 DEF Lifecycle!Next
<1>7. ASSUME NEW t \in Task, WorkerFinish(t) PROVE Lifecycle!Next
  <2>1. result[t] = "none"
    BY <1>7 DEF WorkerFinish, IInv, TaskInv
  <2>2. PICK r \in {"completion", "exception", "acknowledged"} :
           (r = "acknowledged" => stop[t]) /\ result' = [result EXCEPT ![t] = r]
    BY <1>7 DEF WorkerFinish
  <2>3. Lifecycle!Work(t, r)
    BY <1>7, <2>1, <2>2 DEF WorkerFinish, Lifecycle!Work
  <2> QED
    BY <2>3 DEF Lifecycle!Next, Lifecycle!Result
<1>8. ASSUME NEW t \in Task, AfterWork(t)
      PROVE  Lifecycle!Next \/ UNCHANGED Lifecycle!lifecycleVars
  <2>1. UNCHANGED <<stop, result, shuttingDown>>
    BY <1>8 DEF AfterWork
  <2>2. CASE shuttingDown
    <3>1. FinishSilently({t} \cap tasks)
      BY <1>8, <2>2 DEF AfterWork
    <3> QED
      BY <2>1, <2>2, <3>1, SilentRefines DEF Lifecycle!Next
  <2>3. CASE ~shuttingDown
    BY <1>8, <2>1, <2>3 DEF AfterWork, Lifecycle!lifecycleVars
  <2> QED
    BY <2>2, <2>3
<1>9. CASE DrainCommand
  <2> PICK t : t = Head(commands).task
    OBVIOUS
  <2>1. UNCHANGED <<stop, shuttingDown>>
    BY <1>9 DEF DrainCommand
  <2>2. CASE Head(commands).kind = "Submit" /\ QueueTask(t)
    <3>1. t \in Task /\ (t \notin finished => t \in tasks /\ result[t] = "none")
      BY <1>9, <2>2, NextCommand DEF DrainCommand
    <3>2. CASE t \notin finished /\ shuttingDown
      <4>1. FinishSilently({t}) /\ UNCHANGED result
        BY <2>2, <3>2 DEF QueueTask
      <4> QED
        BY <2>1, <3>1, <3>2, <4>1, SilentRefines DEF Lifecycle!Next
    <3>3. CASE t \notin finished /\ result' = [result EXCEPT ![t] = "exception"] /\ UNCHANGED fate
      <4>1. Lifecycle!Work(t, "exception")
        BY <2>1, <3>1, <3>3 DEF Lifecycle!Work
      <4> QED
        BY <3>1, <4>1 DEF Lifecycle!Next, Lifecycle!Result
    <3>4. CASE UNCHANGED <<fate, result>>
      BY <2>1, <3>4 DEF Lifecycle!lifecycleVars
    <3> QED
      BY <2>2, <3>2, <3>3, <3>4 DEF QueueTask
  <2>3. CASE CancelTask(t)
    BY <2>1, <2>3 DEF CancelTask, Lifecycle!lifecycleVars
  <2> QED
    BY <1>9, <2>2, <2>3 DEF DrainCommand
<1>10. CASE DrainDone \/ OnShutdown
  BY <1>10, ShutdownRefines DEF Lifecycle!Next
<1>11. CASE \/ \E t \in Task : CancelFind(t) \/ WorkerStart(t)
            \/ Enqueue \/ Send \/ Woken \/ Drain \/ CallbackReturns \/ SendShutdown
            \/ AfterWorkDone \/ Notify \/ OnAsync \/ LoopExit \/ UNCHANGED vars
  BY <1>11 DEF AfterWorkDone, CancelFind, WorkerStart, Enqueue, Send, Woken, Drain, CallbackReturns,
               SendShutdown, Notify, OnAsync, LoopExit, vars, Lifecycle!lifecycleVars
<1> QED
  BY <1>1, <1>2, <1>3, <1>4, <1>5, <1>6, <1>7, <1>8, <1>9, <1>10, <1>11
     DEF Next, EditorCall, EditorLoop, Teardown, Lifecycle!Next

\* The runtime implements TaskLifecycle: one callback at most, with the outcome
\* its worker committed to, cancelled only after a request, and none once the
\* destructor has begun.
THEOREM Refinement == Spec => Implements
<1>1. Init => Lifecycle!Init
  BY DEF Init, Lifecycle!Init
<1>2. IInv /\ [Next]_vars => [Lifecycle!Next]_(Lifecycle!lifecycleVars)
  BY StepRefines
<1> QED
  BY <1>1, <1>2, Invariant, PTL DEF Spec, Implements, Lifecycle!Spec
=============================================================================
