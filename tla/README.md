# cind: a TLA+ development

cind is an editor: a C++ core (`src/src`), policy in Guile Scheme (`src/scheme/cind`), a terminal and a
Skia front end. This directory models the parts of it whose correctness depends on the *order* in which
things happen, checks the models with TLC and proves the central ones with TLAPS. Every definition that
stands for code is listed in `PROJECT.json` under `map` with the lines it translates.

Contents: [1 inventory](#1-inventory), [2 what is modelled](#2-what-is-modelled),
[3 runs](#3-runs), [4 fairness](#4-fairness), [5 proofs](#5-proofs),
[6 disagreements with the documentation](#6-disagreements-with-the-documentation),
[7 what is left out](#7-what-is-left-out), [8 plan](#8-plan).

## 1. Inventory

The editor is single-threaded on purpose: every document, buffer, registry and Scheme object belongs to
the *editor thread*. Everything slow goes through `AsyncRuntime`, which owns one *loop thread* (libuv) and
libuv's worker pool, and hands results back as *ready records* that the editor thread drains. So the
system has two kinds of hard behaviour: threads racing inside and around the runtime, and, on the editor
thread, callbacks that arrive long after the state they were created for.

| component | state | operations | talks to | hard part | correct when |
|---|---|---|---|---|---|
| `AsyncRuntime`, tasks (`async/runtime.cpp`) | task map, command queue, ready queue, `outstanding`, two shutdown flags | `submit`, `cancel`, `drain_ready`, `has_work`, destructor; loop handlers `on_async`, `after_work`, `on_shutdown` | libuv by async handles and requests, the front end by a wakeup callback, clients by callbacks | three threads, two queues, coalescing wakeups, cancellation, teardown at any point | one callback per task with the right outcome; exact count; no lost wakeup; the destructor returns |
| `AsyncRuntime`, children | process map, three pipes, exit/close flags, captured output | `spawn`, `write`, `close_input`, `terminate`; read, write, exit and close callbacks | the operating system; LSP sessions, script tasks | five asynchronous endings in any order, each of which may fail | callbacks in order, truthful end, a known process while libuv may call back (with one exception, section 6) |
| `AsyncRuntime`, watches | watch map, fs-event handles | `watch_directory`, `unwatch`; event and close callbacks | the file system; `ProjectService` | late events, a stop that overtakes its start | a dropped watch goes away; a kept one keeps reporting |
| `ProjectService`, `project_files` | per project: scan task, coalesced refresh, retained watches | `request_index`, `finish_index`, `fail_index`, `replace_watches` | the runtime, `ProjectRegistry`, Scheme | a scan that is not atomic against changes of the disk; coalescing | the index converges; no gap between snapshot and watch |
| `ProjectRegistry` (`editor/project.cpp`) | projects, index, generation, revision | `begin_index`, `replace_index`, `fail_index`, `erase` | service, windows | results for an index that was superseded | only the current generation is published |
| Front-end wakeups (`tui/editor.cpp`, `gui/main.cpp`) | a pipe or a user event, coalescing | wait, drain | runtime | a wakeup consumed too early | no ready record waits for ever |
| `AsyncScriptHost` (`script/async_host.cpp`) | records of script tasks: timers, native tasks, processes, external requests | start, cancel, finish, teardown | runtime, LSP, Guile callbacks | an external request that ends inside its own start; re-entrant cancellation | each id gets one terminal event |
| `LspSession`, registry (`lsp/session.cpp`, `lsp/registry.cpp`) | handshake state, pending requests, published documents, framing | `start`, `request`, `cancel_request`, `synchronize`, `fail`, `stop` | a child process, script tasks | requests before the handshake, server failure, replies to cancelled requests, a destroyed session's callbacks | one callback per request; the server's copy of a document follows the editor's |
| LSP features (`lsp/*.cpp`) | none | conversions between JSON and typed values | session, scripts | revisions that moved while a request was out | stale answers are rejected |
| `Document` (`document/*.cpp`) | text, revision, undo tree, anchors, editable boundary | transactions, `undo`, `redo`, `undo_to`, anchors | buffers | tree-shaped history; positions moved by every edit | undo is the inverse of the edit; anchors stay on their text |
| Transaction groups, workspace edits (`editor/transaction_group.cpp`, `workspace_edit.cpp`) | groups of (buffer, before, after) | apply, undo and redo of a group | documents, LSP refactorings | failure in the middle; buffers edited in between | all or nothing; a group's undo touches only buffers still at its position |
| Interaction (`editor/interaction.cpp`, `scheme/cind/minibuffer.scm`) | input, history, candidates, generation, the task to cancel, an origin | start, refresh, move in history or candidates, submit, cancel, late results | providers (Scheme, runtime), command loop, windows | results of an earlier generation; an origin that changes while the user types | what Enter takes belongs to the shown input; the command runs where it was asked for |
| Completion (`editor/completion.cpp`, `scheme/cind/completion.scm`) | session, generation, sources, requests, resolves, a waiting acceptance | start, update, request, resolve, accept, cancel | providers (Scheme, LSP), buffer, view | edits under requests and resolves, answers inside the call | an item replaces exactly the query; an acceptance that waits is served or dropped |
| Command loop, keymaps, input states (`editor/command_loop.cpp`, ...) | pending key sequence, prefix, input-state stack | key dispatch, repeat, cancel | commands, Scheme | nested input states, a command that is invoked on a target of earlier | no key is lost or served twice |
| Buffers, views, windows, workbenches (`editor/buffer.cpp`, ...) | generational slots, window tree, jump graph and walks, location lists, anchors | create, split, close, focus, display, jump | everything | reused slots; places that outlive their buffer, and attach again when it is opened | every live id refers to its object; every anchor has one holder |
| `EditorApplication` (`editor/editor_application.cpp`) with `scheme/cind/core.scm` | composition root; pending opens, search and saves | open, search, save, kill, commands | everything | answers for windows and buffers that are gone; save against later edits | the modified flag tells the truth |
| File commands (`commands/*.cpp`) | none | atomic file replacement, editing commands | disk | failure between write and rename | never a half-written file |
| Guile runtime, Scheme policy (`script/guile_runtime.cpp`, `src/scheme`) | protected callbacks | host functions | everything | object lifetime | - |
| Modes, languages, settings, policies | registries filled at start | lookups | - | - | - |
| C++ lexer, parser, indentation, formatting | the tokens and line states of the last text, spliced after an edit | `lex`, `relex_apply`, the incremental parse; the rest are pure functions of text | views | where a rescan may start and where it may stop | the incremental result is that of a scan of the whole text |
| Project search results | none | a parser of ripgrep output | Scheme | - | - |
| GUI, UI scenes, TUI rendering | scenes, retained pixels, scroll timeline, glide | layout, damage, shift, present | windows | damage that misses a change; a buffer that animations leave stale | the retained pixels are those of the scene |
| Command-line tools | none | batch drivers | pure parts | - | - |

`PROJECT.json` lists the same components with their files, and, under `hazards`, each place in the code
where such an order matters, with the properties that would notice it going wrong.

## 2. What is modelled

The runtime is modelled first because every other component relies on what it promises.

### `TaskLifecycle` (abstract)

What the runtime promises the owner of a worker task, with no queue or thread in it: a task is open from
`submit()` until its owner is told one fate; that fate says what the worker did; a stop request alone
decides nothing; once the destructor has begun nobody is called. The state is a task's `fate`, whether a
`stop` was requested, the `result` of its work function and whether the runtime is `closing`. It
translates no code (it is not in `map`): it is what `AsyncTasks` is shown to implement.

### `AsyncTasks`

Tasks and shutdown. One action per step another thread can observe, so a function that takes a lock and
then signals is two actions:

| code | actions |
|---|---|
| `submit` | `Submit` (publish in `tasks`, count), `Enqueue` or `EnqueueThrows`, `Send` |
| `cancel` | `CancelFind` (under the mutex), `CancelStop` (after it), `Enqueue` or `EnqueueThrows`, `Send` |
| `drain_ready` | `Woken`/`Drain` (swap the queue), then per record `RunCallback`, `CallbackReturns`; a callback may call `submit` and `cancel` |
| `on_async`, `drain_commands` | `OnAsync`, `DrainCommand` (one command), `DrainDone` |
| `run_work`, `after_work`, `publish` | `WorkerStart`, `WorkerFinish`, `AfterWork`, `Notify`, `AfterWorkDone` (the shutdown flag is read again after the wakeup) |
| `~Impl`, `on_shutdown`, `begin_shutdown` | `Destroy`, `SendShutdown`, `OnShutdown`, `Joined` |
| `run_loop` | `LoopExit` |

External: `uv_async_send` coalesces (`signalled` is a flag), the worker pool has `PoolSize` threads and
`uv_cancel` succeeds only on a request no thread has picked up, `uv_run` returns when nothing is active.
`Handles` are watches and children that already run on the loop: only the shutdown can stop them here.
`fate` is what owners have been told; the code does not keep it.

### `AsyncProcesses`

Children. One action per loop-thread callback: `OnRead`, `OnReadEnd`, `OnWrite`, `OnExit`, `OnClosed`.
libuv's close callbacks do not run at once: `uv_close` pushes on `closing`, the end of a loop iteration
takes the list (`RunClosing`) and calls it last-closed-first; the model keeps that order, because
`maybe_finish_process` depends on which callback is the last. `StartProcess` has a branch for each call
that may fail (any pipe's initialization, `uv_spawn`, a read that will not start). A write request is
`queued` or `written`: `ChildReads` (external) moves it on, and closing the pipe cancels what is queued.
`told` and `fate` record what the owner has heard.

### `ProjectIndex`

`ProjectService`, the scan on a worker thread, the registry's index state, and the runtime's directory
watches, composed because the guarantee ("no event gap") is about all of them. A directory is reduced to
two stamps: when it was `born` (0: it does not exist) and when it last `changed`. The scan first sees the
root, then reads each directory at a moment of its own. A watch follows the directory *inode* it was
started on, which is why it keeps the `born` stamp it found.

### `DocumentHistory` (abstract) and `Document`

`DocumentHistory` is what a document promises about its past: a tree of texts that only grows, a position in
it, a revision per change; undo, redo and jumps bring back exactly the text a node had. `Document` is the
code: the text, the transaction with its list of pending edits normalized against the base revision
(`Fold` is the merging of `EditTransaction::apply`), anchors that settle on every edit (`Settled`), the undo
tree whose nodes hold edit lists in both directions, and the editable boundary. `Undo`, `Redo` and `UndoTo`
replay edit lists back to front in a transaction of their own, as the code does, so that the text they reach is
computed from the lists and not looked up in the node: `Take` is one edit of `apply_edit_list`, `TakeAll` a list,
`Replay` the lists on the way (`PathTo`), which goes up one chain of parents (`Chain`) and down the other. The
loops of the code are recursive functions of a position here (`Shifts` is its running sum `delta`).

Texts are sequences of model values; a call that throws changes nothing and is no action; undo nodes count
from 1 (the code's node 0 is 1, and the root's parent is 0). A replay that meets the boundary throws in the
middle: the transaction is aborted by its destructor, which is the guard `~p.refused`. Transactions, anchors
and the boundary are one client's: everything here runs on the editor thread.

### `RequestLifecycle` (abstract) and `LspSession`

`RequestLifecycle` is what a service promises those who send it requests: each accepted request ends once;
a service that breaks fails all of them in that moment and takes no more; one that is closed cancels them.
`LspSession` is the code, between clients on the editor thread and a language server:

| code | actions |
|---|---|
| `request`, `cancel_request` | `Request`, `CancelRequest` |
| `synchronize_document`, `close_document` | `SynchronizeDocument`, `CloseDocument` |
| `stop`, the destructor | `Stop` |
| callbacks of the process: `process_started`, `process_output`, `process_completed`, `process_failed` | `Deliver`, by the kind of the oldest record |
| the runtime and the server | `ProcessStarts`, `ProcessEnds`, `ServerReads`, `ServerAnswers`, `ServerSends` (external) |

The runtime is reduced to what `AsyncProcesses` shows of it: callbacks in order with the end last, and bytes
taken until the process ends or its termination is asked for (`Writable`). Three abstractions need a reason.
A handler is one action, because the session changes its own state before it calls anybody, so that what a
callback does is a later step. A process that dies between two writes of one handler is one that died before
the first: both leave a failed session, and what was written reaches nobody. A chunk of output is a record
per message: the code drops the rest of a chunk once the session has failed and handles later chunks, but a
failed session finds no request and can write nothing, so both change nothing. The server in the model is
lazy, not wrong: it answers what it has read in any order and never twice, but it may die, ask for
something, or send bytes that are no message at any time. `Proper` is what LSP lets a client send it.

### `ScriptTasks`

The task namespace of Scheme: `AsyncScriptHost`, which numbers the requests and remembers the service behind
each, and `GuileAsyncBridge`, which holds the callbacks. It implements `RequestLifecycle` as well.

| code | actions |
|---|---|
| `start`, with the callbacks the bridge keeps | `Start`: the service refuses, takes the request, or, a session that breaks, fails it inside the call |
| `cancel` | `Cancel` |
| `drain_ready` and the callbacks of a session, with `finish_task` and `take_callbacks` | `Deliver`, `SessionBreaks`, `DeliverOwed` |
| loading an extension, `rollback_to` | `BeginLoad`, `EndLoad`, `RollbackOne` per task, `RollbackDone` |
| `shutdown` of the bridge, the host's destructor | `Shutdown`, `DestroyHost` |

A service is what the other modules show of it: a worker task or process answers once, from `drain_ready`; a
request of a language server may also end inside the call that makes it, because a write that fails breaks the
session. `corrupt` marks the states after `rollback_to` has used a dangling iterator (section 6): nothing is
claimed in them.

### `Completion`

One completion session at a time, with the policy of `completion.scm` that closes automatic ones. An item is
named by the generation it came with, and a query is its length: an item *reaches* the queries it matches, so
that what matches a query matches its prefixes. `Dispatch` is the request to the providers: each fails, answers
within the call (Scheme procedures may) or takes the request. A key that types or erases (`Type`) and a command
that leaves the caret alone (`Refresh`) go through `update`; `EditBehind` is an edit by a callback, after which
nothing is refreshed. `Focus` and `Accept` resolve an item; a resolve may end within its call or later
(`Provide`), also for a generation that is gone. `queued` is the acceptance that waits for it.

### `Registry`, `JumpGraph`, `EditorState` and `Editor`

`EditorState` has the methods of `EditorApplication` as operators on one record, because a handler calls several
of them in a row and is one action nevertheless: buffers, windows and workbenches with their slots (`Registry`:
a slot is reused under its next generation), jump graphs with the walks of each window (`JumpGraph`), location
lists, and the navigation anchors that places hold in open buffers. A walk's `lost` names the nodes that were gone
when it recorded them; the code does not keep it. `Editor` adds what goes on by itself:

| code | actions |
|---|---|
| commands (`core.scm`, `lifecycle.scm`, `workbench.scm`) | `OpenFile`, `StartSearch`, `KillBuffer`, `SwitchBuffer`, `Edit`, `GoToLine`, `Save`, `SaveAs`, `SplitWindow`, `DeleteWindow`, `DeleteOtherWindows`, `SelectWindow`, `CreateWorkbench`, `SwitchWorkbench`, `CloseWorkbench`, `LinkJump`, `NavigateJump`, `VisitJump` |
| answers of their tasks | `FinishOpen`, `FailOpen`, `FinishSearch`, `FailSearch`, `FinishSave` |
| `save_file_atomically` on a worker thread | `WriteFile` |
| `InteractionController` on the command loop | `Ask`, `Pick`, `EditInput`, `RefuseInput`, `CancelInteraction`, `SettleLookup`; `SubmitToNowhere` where the context of the command cannot be made |

Every command has a `Context`: the window in use, or, when it is what an interaction was for, the window the
interaction started from. A text is its number of lines and the only edit inserts a line at the top, which moves
every position. A display policy may choose any window of the layout, or split it. A file is read at any time
before its answer, and a write may fail after the file was renamed. Split ratios, pins, roles, buffer names and
the excerpt that may move a detached place to a line nearby are left out.

### `Minibuffer`

The interaction itself, extended by `Editor`: input, history, selection, candidates and the provider's task.
Candidates are named by the input they were asked for, and `Matches` gives the values a provider has for each.
A provider answers at once, later, or fails, on every call; one that answers inside its own start is one that
answers at once. All interactions share one history. The policy tells its own replacement of the input from an
edit by the revision; an edit always makes one, so the model needs none.

### `Frames`

What the graphical front end paints after a batch of events: `GuiFrameController` decides whether the frame
moves (`Paint`), the presenter draws over, shifts or redraws the retained buffer, and the texture follows. The
state has the picture itself: for each half line of the view, which line is drawn there in which version,
whether it is lit as the active row, and where the caret is. The reference is `Picture(scene)`, what a full
render would draw. Heights are in half lines, so that a line may be cut at the top; one view without popups
fills the window, and its footer is left out but taken to be high enough that one more row than is shown gets
composed. Dirty rows are repainted in their whole width, which damages more than the code does. The spring of a
scroll is sampled: a position is any in the hull of its keyframes, so no schedule of frames is left out. The
thresholds of four lines for a scroll and two for a glide are constants, scaled down; `Height >= SmoothDistance`
says that a smooth scroll is never longer than the view, which is what leaves no gap between its layers.

### Mutants

Each property has at least one mutant in its module: an operator that changes one mapped definition the
way a plausible bug would (a dropped guard, a swapped order, a missing reset). The mutated specification
violates the property under the same configuration. They are marked `\* Mutant:` and nothing else refers
to them.

## 3. Runs

| run | configuration | question | result |
|---|---|---|---|
| `tasks` | `AsyncTasks.cfg`: 2 tasks, 1 pool thread, 2 cancellations | is anything lost, counted wrongly, delivered twice; does the destructor return; does it implement `TaskLifecycle` | holds, about 171,000 states |
| `shutdown` | `AsyncShutdown.cfg`: 1 task and 1 running handle | does destroying the runtime stop its watches and children | violated, see 6 |
| `processes` | `AsyncProcesses.cfg`: 1 child, 1 write, 1 chunk, stdout streamed, stderr captured | order and truth of callbacks; a process is known while libuv may call back for its handles, but for the case of section 6; the loop empties | holds, about 386,000 states |
| `project` | `ProjectIndex.cfg`: 2 directories (the root and one below), 2 changes of the disk, 4 watch ids, 1 request from Scheme | coalescing, event gap, dropped watches, convergence | holds, about 206,000 states |
| `document` | `Document.cfg`: text of up to 4 bytes, 2 anchors, 4 calls, 3 revisions | are edit lists true, every undo node reachable, anchors ordered, read-only text kept; does it implement `DocumentHistory` | holds, about 293,000 states |
| `lsp` | `LspSession.cfg`: 1 document, 2 languages, 2 requests, 2 events | is the protocol kept, does the server's copy follow, does every request end once, does none wait for nothing; does it implement `RequestLifecycle` | holds, about 631,000 states |
| `script` | `ScriptTasks.cfg`: 3 requests, 1 load, a kind that fails, one that cannot and one of a language server | do host and bridge agree, does a record outlive its task, does it implement `RequestLifecycle` | holds, about 519,000 states |
| `completion` | `Completion.cfg`: a Scheme provider and a server, queries up to 2, 2 edits, 3 generations | does an item wait for a resolve that is gone, is an acceptance served, do ranges follow the caret | holds, about 760,000 states |
| `editor` | `Editor.cfg`: 2 files of 2 lines, 2 jump nodes, 3 inputs, twelve scopes of commands | are windows, anchors, walks, saves and candidates consistent, whatever answers when | holds, about 726,000 states |
| `origin` | `EditorOrigin.cfg`: one interaction, one open | does a submitted interaction reach its target | violated, see 6 |
| `history` | `EditorHistory.cfg`: two interactions, one command | do the candidates belong to the shown input | violated, see 6 |
| `frames` | `Frames.cfg`: 3 lines, a view of 3, both builds, 3 events | are the retained pixels those of the scene, is there a gap, does the screen settle | holds, about 23,000 states |

**Bounds.** Two tasks and one pool thread give every pairwise race: one task queued behind another (so
`uv_cancel` can win), one being drained while another is submitted, either in flight at the shutdown.
Two cancellations allow a task to be cancelled twice or both tasks once. Tasks share only counters and
queues, and the invariants are proved for every number of tasks, threads and cancellations (section 5).
Children share nothing but the queues and the counter, so one child with one chunk and one write meets
every order of its own five endings; one streamed and one captured output are the two cases of
`on_process_read`. Two changes let a directory vanish and return, or a change fall on each side of a scan;
four watch ids are used up only by behaviours that drop and re-make both watches. `MaxWatches = 2` is never
exceeded in this run (see the plan). `MaxCancels`, `MaxWrites`, `MaxChunks`, `MaxChanges`, `MaxIds` and
`MaxRequests` are bounds of the models and do not exist in the code.

One snippet, the empty text and the initial two bytes give insertions, deletions and replacements that
overlap, touch and cover each other; four edits and three commits or moves give two edits in one transaction
and branches of the undo tree, two anchors an ordered pair or one anchor and a boundary. One document, two
requests and two events (snapshots, requests or noise of the server) let a request wait for the handshake
next to one made after it, a document change its revision or language before, during and after the
handshake, and the session fail under both. `MaxLength`, `MaxAnchors`, `MaxRevision`, `MaxCalls`,
`MaxRequests` and `MaxEvents` do not exist in the code.

Three script tasks are one before a load, one inside it, and one a callback or a rollback makes room for; the
three kinds differ in how they may end. Two generations are enough for a late answer, and the third for one that
comes while another provider's answer of the second is resolved; two letters let a query grow, shrink and be
left. `MaxTasks`, `MaxLoads`, `MaxQuery`, `MaxRevision` and `MaxGeneration` are bounds of the models.

`Editor` has too many commands to run them all in any number, so `Budgets` says how often each kind is taken, and
`MCEditor!Scopes` has twelve of them: each is the smallest set of commands that some hazard needs (an open, an
eviction and a walk; a search that outlives its window; a kill with places in two workbenches; a workbench closed
with windows of its own; interactions whose origin moves or goes; a picker that is typed into, recalled,
refreshed and cancelled; saves, edits and kills; a save under another name next to an open, or one that gives an open buffer the file of a
place, in a graph of linked places, which a jump then visits and evicts). `JumpLimit = 2`
makes every third place evict one; `HistoryLimit = 2` is never exceeded, for no scope submits three inputs.
Files are interchangeable (`SYMMETRY`); no run with symmetry checks a liveness property.

A text of three lines in a view of three can be scrolled by up to two, above and below the threshold of
`SmoothDistance` (a line and a half here), cut at either half. Three events give an event during an animation and
one after it, in either build. `MaxChanges` bounds them.

Deadlock checking is off in every run: the runtime ends with its loop, a project or session at rest does nothing,
and the bounded clients of the others come to an end.

## 4. Fairness

Weak fairness, per thread: a thread that can take its next step eventually does. The editor thread returns
from calls and callbacks and goes back to its event loop (a blocked editor is a dead one, whatever the
runtime does); work functions end (the code can only wait for them); the loop thread is in `uv_run`, which
serves everything that is ready. Nothing is fair that the code does not drive: no fairness on submissions,
cancellations, destroying the runtime, changes of the disk, or requests. In `AsyncProcesses` a child dies
only after `SIGKILL` (`child = "killed"`): a child may ignore `SIGTERM` for ever, and one that lives for
ever is a behaviour of the model. In `LspSession` the server reads what it is sent, but nothing makes it
answer: `RequestsGetThrough` blames every request that waits for ever on the server. In `Frames` the run loop
paints again as long as something moves or is asked for (weak fairness of `Paint`), and the spring and the glide
end, because the code ends them after a time. `Document`, `ScriptTasks`, `Completion` and `Editor` state no
liveness. No strong fairness is needed anywhere.

## 5. Proofs

Theorems of `Spec`, for every value of the constants that satisfies the modules' assumptions, not for the
instances of section 3. `TLAPS` checks every leaf. Each component has one inductive invariant (`IInv`; `StateInv` and
that of the prompt in `Editor`, `Inv` of `Document`, `FramesInv` of `Frames`) from which its properties follow; TLC
checked it on the instance of the run. `ScriptAndFramesProofs` holds the proofs of two components that have nothing
to do with each other; it extends both, which is why `Frames` calls its specification `FramesSpec`.

| module | what is proved | assumed of the constants |
|---|---|---|
| `AsyncTasksProofs` | `TypeCorrect`, `CountExact`, `OneWay`, `WakeupNotLost`, `CommandNotLost`, `ExitClean` (all safety of the run `tasks`), `Refinement`: implements `TaskLifecycle` | `Task` finite, `PoolSize` positive |
| `AsyncProcessesProofs` | `ProcessTypes`, `ProcessCount`, `ProcessOrder`, `ProcessHandles`, `ProcessEnds` (all safety of `processes`) | `Proc` finite, `Streaming` are outputs |
| `ProjectIndexProofs` | `ProjectTypeCorrect`, `RefreshServed`, `RetainedLive`, `GapClosed` (all safety of `project`) | bounds are naturals |
| `ScriptAndFramesProofs` | of `ScriptTasks`: `ScriptTypeCorrect`, `TablesInStep`, `NoOtherLeak`, `ScriptRefinement`: implements `RequestLifecycle` | the bounds are naturals |
| | of `Frames`: `CanvasWhole`, `FramesTrue` (all safety of `frames`) | sizes and thresholds are naturals, no smooth scroll is longer than the view |
| `CompletionProofs` | `CompletionTypeCorrect`, `NoOrphanResolve`, `AcceptanceServed`, `RangesFollow` (all safety of `completion`) | see `CompletionAssumption` |
| `LspSessionProofs` | `SessionTypeCorrect`, `SessionProtocol`, `SessionCopy` (all safety of `lsp`), `SessionRefinement`: implements `RequestLifecycle` | the bounds are naturals, `Uri` finite without the name that says a message is about no document |
| `DocumentProofs` | `TypeHolds`, `EditsExplain`, `NodesReachable`, `PrefixIsReadOnly`, `AnchorsKeepOrder`, `HistoryKept`: implements `DocumentHistory` (all of `document`) | bounds are naturals, texts are sequences, the first one within the bound |
| `EditorProofs` | `CandidatesCurrent`, `WindowsAccounted`, `AnchorsOwned`, `WalksStay`, `SavesTrue` (all safety of `editor`) | see `EditorAssumption`: `JumpLimit` at least 2, files of at least one line |

**AsyncTasks.** None of the invariants is inductive alone. `OutstandingIsExact` does not say *where* an open task
is, so the step that settles a task could settle one that is settled already. `TaskInv` relates a known task to its
libuv request and its result, `CommandInv` says that the Submit command of an unpublished task is its only one and
that libuv does not have the task yet, `RecordInv` that a record is its task's only one, in the ready queue and the
drained batch together, and carries the outcome of its work, `PlaceInv` that no open task is forgotten. `EditorInv`
ties the editor thread's position to its batch, `ShutdownInv` the flags of the teardown to each other, and
`CountInv` holds both counters to the cardinalities they count (`FiniteSetTheorems`). The refinement maps each
action to a step of `TaskLifecycle` or to a stutter, under `IInv` before and after.

**AsyncProcesses.** Two halves that meet at the records. `QueueInv` is about the queue of records whose callbacks
have not been called, the rest of the drained batch and what is ready: of one child only the first is a start and
only the last an end (`OrderInv`), a child that is no longer known has its end there until its owner is told
(`EndInv`), and what was told and what is queued continue each other (`ToldInv`). `LoopInv` is about the loop
thread: `ChildInv` relates the fields of `Process` to its handles, requests and fate, `CommandInv` puts a Start
before every other command for its child, and `FreshInv` says that before its Start is obeyed nothing of a child
exists, even when the shutdown finishes it first. A handler is then described by what it leaves alone (`Framed`)
and what it makes of its child (`Handled`), and three lemmas (`Kept`, `Stored`, `MaybeFinished`) carry the invariant
across every handler, according to how it ends.

**ProjectIndex.** `NoEventGap` compares an index with a directory that changes at any time: `EventGap` says of each
watched directory whose index is old that a scan will still read it, a report of its watch is on its way, or the
watch will be dropped. `ScanGap` is the same for the scan under way, `HandleInv` orders the clock of a handle
against that of the directory, `ResultInv` and `TaskInv` give a scan exactly one result of the current generation,
`WatchInv` keeps ids apart. The step that needs all of them is the delivery of an index that replaces the watches;
a lemma shows that the ids given out there are fresh and distinct, through the rank of a directory among the new ones.

**ScriptTasks, LspSession.** `TablesAgree` and `RecordsAreBacked` are nearly inductive: `FreshInv` (nothing is known
of an id that has not been given out), `PhaseInv` (the order of the teardown) and `SessionInv` (what a broken session
still owes) complete them. For a session `TableInv` ties the table of requests to what each owner was told,
`StartInv` and `EndInv` the state to the life of the process, and `UnsentInv` says that nothing leaves before the
handshake. The refinements then map a whole failure, which completes every request at once, to one abstract step.

`ProtocolKept` says what a server that reads finds; the session decides it when it writes, and between the two the
server may read, answer, ask and die. `WireInv` therefore speaks of the message at each place of the box: `Good`
states that it will be allowed when the server comes to it, and `Has` what the server has of a document by then, which
is its copy unless a message before that place leaves another. A message that is put at the end of the box does not
change what is said of the places before it (`GoodPosted`, `HasPosted`), one that is read shifts them
(`ServerReadsWires`), and the write that ends the handshake, of every document and every request that waited, is
described by what is at each of its places (`HandshakePlace`, `HandshakeGood`). `HandshakeInv` relates how far the
server is to what the session knows of it, `SentInv` what is on the way to the tables of a ready session, `WaitInv`
what waits for the handshake to the documents that will be opened by it, `ChildInv` that a process nobody can write
to has nothing on its wire.

**Document.** Neither the text of a transaction nor the tree can be followed without saying what an edit list
*means*. `Explains(base, edits, t)` does, place by place: the edits are ascending and strictly separated in the base
(`Normal`) and in the new text (`Placed`), the new bytes are where the edits are (`HasNew`), and every base byte that
lies between the i-th edit and the next is found `Shifts[i]` further on (`HasOld`). `Inv` says that the pending edits
explain the pending text (`Stands`), that each node of the tree has two lists, one that explains it from its parent
and one that explains its parent from it (`Tree`), and where the boundary and the anchors are. Then:

* Folding one more edit keeps it (`FoldExplains`). The two branches of `Fold` are one lemma, `Merged`: an edit put in
  the place of the edits f..l, none of them if l = f - 1, that reaches over a range which encloses exactly these in
  both coordinate systems (`Encloses`, `EnclosesBase`), and of which bytes outside the new edit are kept.
* The inverse list explains the way back (`InverseExplains`), and reading the list from the left gives the text
  (`ReadsAs`), which is what `PendingEditsExplainText` says.
* Replaying a list from the back leads from the text it was made on to the one it explains (`TakeAllLeads`), in
  a transaction whose own list, folded anew, explains the whole way; a boundary may end it, never bend it.
* Two chains of parents meet, and below the meeting point they are apart (`ChainsMeet`), so the lists of `PathTo`
  lead from text to text (`PathLeads`), and every move ends in the text of its node (`RouteMoves`).

`ReadOnlyPrefix` and `AnchorsNeverCross` are about one edit each (`ApplyKeeps`: where `Settled` puts two anchors of one
affinity, and that nothing before the boundary is in reach); that a replay is one step of the specification and any
number of edits is why `Stands` carries them along. Sums, chains and replays are recursive functions of a number;
`Induction` below serves them as well.

**Completion.** `Sound` is stated over a session, its sources, its requests and the acceptance that waits, so that
the lemmas about a provider's answer serve all actions that deliver one.

**Editor, the prompt.** The conjuncts of `IInv` say that lookups have generations of their own (`LookupInv`), that
the only one not asked to stop is the one the interaction shows as loading (`PendingInv`), and what candidates belong
to (`InputInv`). Most commands of `Editor` touch the interaction only by submitting it, which is one lemma.

**Editor, the state.** A command is a row of operators of `EditorState`, so the invariant `EditorInv(e, surface)` is
stated over the record `e` and the slots of the minibuffer. The first two thirds of `EditorProofs` say of each
operator what it keeps of it; then there is a lemma per action that walks along its row. `WindowsAreAccounted`, `AnchorsAreOwned`,
`WalksStayInGraph` and `SavesAreTrue` need each other and four things none of them states:

* A handle given out is new (`SlotInv`): every window, buffer and workbench that is kept, and the surface of the
  minibuffer, is the current generation of its slot and its slot is not free. Otherwise a created window could be
  one that is in a layout already, and the answer of an old save could find the buffer that has its slot now:
  `SaveInv` says that a write is for a buffer with a current generation or a past one (`Live`, `Past`), so that it
  finds the buffer it was made of or none.
* A window may be in no layout in the middle of a command. `LayoutInv(e, extra)` names these windows: one that was
  created and not yet put in a layout, and those of a workbench that was erased.
* Positions are in their text (`RangeInv`, `CaretInv`, places whose line may be beyond the end of a file that is
  read again): a captured anchor is where the caret is, and a restored caret where the anchor is.
* A graph has no node its counter has not given out, and `order` has exactly its nodes (`GraphInv`), so that a node
  that is made is new, and what an eviction takes from `order` is what it takes from nodes, edges and walks.

The anchors are the longest part: `OwnedInv` says that exactly one place holds each. What attaches (`AttachPlaces`)
chooses an injection into anchors that are free in every buffer concerned, which exists because places are finitely
many (`ListInv`; a lemma makes the injection from cardinalities); what removes anchors (`DropAnchors`) is only ever
followed by the end of the places that held them, in the graph that evicts or the workbench that closes.

Sequences that lose elements (`Without`) are a recursive function of a length. The induction theorems of the library
cannot be instantiated, so its lemmas look at the set of the lengths at which the claim fails and take its least
element (`Induction`, from `WFMin`); what the function is for a given sequence is thereby proved for every length.
The model says a few things in another form than before for the sake of these proofs: `Put` and `Restrict` in place
of `@@` and `:>`, names for values that are nested in an EXCEPT (`WithPlaces`, `InsertLine`,
`MoveCursor`), one operator (`AttachPlaces`) for the places of nodes and of items, which attach alike.

**Frames.** `CanvasIsWhole` says nothing of the animation under way, so `FramesInv` adds what `update_animation_targets`
keeps: the keyframes of a scroll have positions of their own, each but the last has another at most `SmoothDistance`
above it (`Keyframes`), and the last scene is among them; a glide starts and ends in the view, and, unless the wheel is
direct, ends at the caret of the last scene. `Insert` keeps this since it adds only a scene that is close to one that is
there (`InsertKeeps`), `Retain` since what it drops is not between two that stay (`RetainKeeps`). A sample, and the
position a revealed caret holds the view to (`OffsetIs`), is then between two keyframes, whose rows fill the view
(`RowsFill`; this is where `Height >= SmoothDistance` is needed). For `FramesAreTrue`, `PictureIs` describes the picture of
a scene place by place, by the parity of its position and the row there alone: places whose row has the same signature
in both scenes agree (`PixelsAgree`), where they are (`DamageTrue`) or half a line further (`TranslateTrue`), and an
animation at its target shows its scene alone (`EndTrue`). `Aimed` is a chain of IF as in the code: the arms of a CASE
have no order, and the invariant needs that the first one that applies is taken.

Only model-checked: what is stated under fairness (TLAPS does not reason about `ENABLED`), that is `EveryTaskSettles`,
`DestroyReturns`, `ExitIsTold`, `DroppedWatchesClose`, `IndexConverges`, `RequestsGetThrough` and `ScreenSettles`. Every
other property of the passing runs is a theorem.

## 6. Disagreements with the documentation

Three runs are expected to end in a violation. Each states a sentence of the documentation as a property.

* `shutdown`. "Destroying the runtime [...] stops directory watches, terminates child processes and joins
  the loop thread" (`src/docs/async-runtime.md:56`). The destructor stores `shutting_down` and then signals
  `on_shutdown`. If a worker request finishes in between, `after_work` finds the flag set and no request
  left, and `close_async_if_idle` (`runtime.cpp:1158`) closes both async handles. `on_shutdown` never runs,
  so `begin_shutdown` does not stop the watches and children; they keep `uv_run` going and the destructor
  waits in `join`. With no handle left the same path is harmless, which is why `DestroyReturns` holds in
  the run `tasks`.
* `origin`. On a submission "the command loop switches to that explicit target before invoking the accept
  command" (`src/docs/command-loop.md:300-303`). An open that is answered meanwhile displays its file in the
  window the interaction started from. The command context then finds another view in that window than the
  origin names and throws (`command_loop.cpp:189`), through `handle_key()`, which catches nothing.
* `history`. "Every input change receives a generation" (`src/docs/command-loop.md:312-321`).
  `move-minibuffer-history!` (`minibuffer.scm:278`) replaces the input without asking the provider again, so
  that Enter takes a candidate of the input before. Typing does ask, and `CandidatesAreCurrent` shows that the
  candidates then agree.

What follows was met while modelling and has no run. The properties leave these cases out, each at a place its
comment names.

* After a failed `uv_spawn` that leaves a process handle to close (`runtime.cpp:662-676`), `terminate` or the
  shutdown takes the handle for closed without waiting (`runtime.cpp:878-882`, the child never started). The last
  pipe's close callback then finishes the process and lets go of it, and `on_process_closed`
  (`runtime.cpp:864-866`), which comes last, reads the `Process` it is about. `LiveHandlesAreKnown` excepts this
  handle and no other.
* `visit_jump()` records a node after `restore_jump()` (`editor_application.cpp:1440-1447`). If the node's file is
  open in a buffer the node is not attached to, as after a save under another name, restoring displays the buffer
  and cuts the graph to its limit (`editor_application.cpp:1375`), which may evict the node when persistent links
  protect the others; `workbench-jump-record!` (`workbench.scm:477`) records it all the same. That step of the walk
  leads nowhere from then on: `navigate_jump()` moves back when it cannot restore it. `WalksStayInGraph` allows such
  entries (`lost`) and no other.

* `close_input()` after a write the pipe has not taken closes stdin over it (`runtime.cpp:506`);
  `src/docs/async-runtime.md:71` says that EOF comes after queued writes. Nothing in the editor calls it then.
* A directory removed and made again between two scans keeps the watch on the inode that is gone
  (`project_service.cpp:154` matches by path; `src/docs/projects.md:34`). `IndexConverges` excludes such
  directories (`Blind`).
* `rollback_to` erases from a map while it holds an iterator into it (`guile_async_bridge.cpp:939`): the
  cancellation may end the task inside the call. `ScriptTasks` claims nothing afterwards (`corrupt`).
* A completion request that `update()` withdraws is cancelled for a generation that is over, and its
  `cancelled` is ignored: the provider counts as pending from then on (`src/design/06-completion.md`, 3.4).
  `update()` leaves ranges alone that end beyond the caret (`06-completion.md:95-97`; `RangesFollowTheCaret` is
  about the others). An acceptance whose item a later answer has replaced is lost (`AcceptanceIsServed`).
* `JumpGraph::intern` compares with the line a node remembers, not with the anchor that has moved since
  (`jump.cpp:216`), so that one place can become two nodes (`src/design/05-jump.md`, 3.2.3).
* Saving under another name leaves jump nodes with the old file (`core.scm:977`). While a save is on its way,
  it leaves the buffer visiting the new file and lets the old write's answer mark it unmodified, though the new
  file never got the text; so does a save under another name whose write fails, if the text was unmodified.
* `finish-open!` may release a start-up placeholder that has been saved under a name and is being written; the
  completion of that save then raises. `finish-project-search!` leaves its buffer of results behind when the
  window has gone.
* When a provider fails, `refresh()` leaves the candidates of the query before, not loading, and `submit()` takes
  one of them (`interaction.cpp`; `CandidatesAreCurrent` and `CandidatesFollowInput` exclude the error state).
* A dropped animation leaves the pixels of its last frame until something damages them
  (`frame_controller.cpp:427`; `src/docs/gui-inspector.md:447-465`); on macOS a tick of the wheel that scrolls
  nothing, with a caret that moves during a glide, does the same (`frame_controller.cpp:230`). `FramesAreTrue`
  asks that the frame before was right or that the animation ended by itself, and in builds with a direct wheel
  that it was a scroll. A view lower than four lines may show gaps while it scrolls.
* A group whose undo was partial redoes nothing (`transaction_group.cpp`); `undo_to` on a read-only member of a
  group throws in the middle.

## 7. What is left out

* Allocation failure in `publish_ready` and a wakeup callback that throws: the code logs or terminates.
  (Allocation failure in `enqueue` *is* modelled: the code has a recovery for it.)
* Optional callbacks are taken to be present; a missing one only removes a report.
* `SIGKILL` failing, and a child that libuv reports dead while it lives.
* The 64 MiB bound on captured output, the contents of chunks, exit statuses.
* More than one project. Projects share the runtime's queues only.
* Freed memory: the models say whether a record is still known, not who owns its `shared_ptr`. A close callback
  that comes after its process was let go (section 6) finds nothing and returns, as it does on intact memory.
* `Document`: carriage returns (normalized when a document is made, refused in edits), the piece tree behind
  `Text`, 32-bit offsets (a text over 4 GiB), allocation failure inside `commit`.
* `LspSession`: framing and its limits, JSON, capabilities, the tables of notification and request handlers,
  which session a buffer gets; callbacks called from inside `stop`, and callbacks of a process whose session
  has been destroyed (both listed as hazards). Public `notify` has no caller but the session itself.
* `Editor`: sessions saved to disk, editing commands, what completion and the parser do with a buffer, key
  sequences and the stack of input states (data of one thread), terminals.
* Transaction groups and workspace edits: no command applies one yet. Their two hazards are listed.
* The GUI beyond one view: panes, popups, hit testing, the inspector; and the terminal's front end, which paints
  every frame anew.
* The lexer, parser, indentation and formatting, text storage, settings and modes, the Guile bindings, the
  conversions of LSP features and the command-line tools: functions of data, with no order in them that a state
  machine would add to their tests. The exception is the incremental scan and parse after an edit (section 8).

## 8. Plan

Modules:

1. `WorkspaceEdits`: edits over several documents, their rollback, and undo of the group, over the positions
   of `DocumentHistory`, once a command applies them.
2. The LSP registry with the lifetime of a session's callbacks, composed with `LspSession` and the process
   records of `AsyncProcesses`.
3. `Frames` with two views and a popup; the inspector's requests against the frame they are about.
4. An instance of `ProjectIndex` with fewer watches than directories.
5. Key sequences and input states, with the repeat and the prefix that survive an interaction.
6. `IncrementalLex`: `relex_apply` against `lex` over every small text and edit (`lexer.hpp` promises that the
   two agree), then the incremental parse on top of it. The case to start from is an escaped newline outside a
   directive: the scanner records the default state for the line after it but keeps `line_has_content_`, which
   decides whether a `#` opens a directive, and a scan that starts on that line cannot know it.

Proofs: the inductive invariants of the modules above. Of the modules there are, only liveness is left to TLC.
