-------------------------------- MODULE Editor --------------------------------
(***************************************************************************)
(* The editor as its commands and its asynchronous answers move it:        *)
(* buffers, windows, workbenches and jumps (EditorState), with the opens,  *)
(* the search and the saves under way (scheme/cind/core.scm) and the       *)
(* interaction that may be waiting for input (Minibuffer). A command runs  *)
(* on a context: the window in use, or, when an interaction is submitted,  *)
(* the one it started from (editor/command_loop.cpp).                      *)
(*                                                                         *)
(* The tasks of an open, and those of a search, are joined into one answer *)
(* each, and a file is read at any time before it. A buffer is killed by   *)
(* force, whether modified or not.                                         *)
(***************************************************************************)
EXTENDS EditorState, Minibuffer

CONSTANTS
    Resources,      \* files
    FileLines,      \* lines of a file
    Budgets         \* bound: how often each kind of step is taken, one record or several

ASSUME EditorAssumption ==
    /\ NoResource \notin Resources
    /\ FileLines \in Nat \ {0} /\ JumpLimit \in Nat \ {0, 1}

VARIABLES
    editor,         \* the state of EditorApplication, see EditorState
    opens,          \* the pending opens
    search,         \* the window of the pending project search, or NoHandle
    files,          \* the texts each file has held
    writes,         \* the file-write tasks that have not been answered
    running,        \* FALSE once an exception has left handle_key()
    budget

disk == <<files, writes>>
vars == <<editor, opens, search, disk, prompt, running, budget>>

\* The constructor of EditorApplication, started on a file: it is opened in the window
\* that shows a placeholder meanwhile.
InitialBuffer    == <<1, 1>>
InitialWindow    == <<1, 1>>
InitialWorkbench == <<1, 1>>

Init ==
    /\ editor =
        [buffers |-> Put(<<>>, InitialBuffer, NewBuffer(NoResource, 1)),
         windows |-> Put(<<>>, InitialWindow, InitialBuffer),
         carets |-> Put(<<>>, <<InitialWindow, InitialBuffer>>, 0),
         workbenches |-> Put(<<>>, InitialWorkbench, NewWorkbench(InitialWindow, InitialBuffer)),
         active |-> InitialWorkbench,
         placeholder |-> InitialBuffer,
         saving |-> <<>>, origins |-> <<>>,
         bufferSlots |-> Taken(NoSlots), windowSlots |-> Taken(NoSlots),
         workbenchSlots |-> Taken(NoSlots)]
    /\ opens \in {{[resource |-> r, window |-> InitialWindow, tracked |-> TRUE, line |-> NoLine]} :
                     r \in Resources}
    /\ search = NoHandle /\ running = TRUE /\ MinibufferInit
    /\ files = [r \in Resources |-> {FileLines}] /\ writes = {}
    /\ budget \in Budgets

Spend(kind) == budget[kind] > 0 /\ budget' = [budget EXCEPT ![kind] = @ - 1]

-----------------------------------------------------------------------------
(* Commands and their contexts.                                            *)

\* The minibuffer's window and buffer have slots like any other.
WithSurface(e) == [e EXCEPT !.bufferSlots = Taken(@), !.windowSlots = Taken(@)]

WithoutSurface(e) ==
    IF minibuffer = Closed THEN e
    ELSE [e EXCEPT !.bufferSlots = Freed(@, minibuffer.buffer),
                   !.windowSlots = Freed(@, minibuffer.window)]

\* A command is run by a key, or is what an interaction was for: submit() has then
\* taken its surface down, and the command runs on its origin.
Ready   == WithoutSurface(editor)
Context == IF minibuffer = Closed THEN ActiveWindow(editor) ELSE minibuffer.origin[1]

\* What the constructor of CommandContext wants: the window shows the view of the origin.
OriginIsDisplayed ==
    minibuffer # Closed =>
        LET w == minibuffer.origin[1] IN
        w \in DOMAIN editor.windows /\ editor.windows[w] = minibuffer.origin[2]

Command(kind) ==
    /\ running /\ OriginIsDisplayed
    /\ Spend(kind)
    /\ IF minibuffer = Closed THEN UNCHANGED prompt ELSE Submit
    /\ UNCHANGED running

Becomes(e) == editor' = e /\ UNCHANGED <<opens, search, disk>>

\* The exception leaves CommandLoop::invoke() and handle_key(): nothing below main()
\* catches it.
SubmitToNowhere ==
    /\ running /\ ~OriginIsDisplayed
    /\ running' = FALSE
    /\ editor' = Ready /\ Submit
    /\ UNCHANGED <<opens, search, disk, budget>>

\* start(): an interaction replaces another and keeps its origin. Its surface is the
\* next window and the next buffer.
Start(kind, custom) == \E e \in {Ready} :
    /\ editor' = WithSurface(e)
    /\ Refresh(Opened(kind, custom,
                      IF minibuffer = Closed
                      THEN <<ActiveWindow(editor), editor.windows[ActiveWindow(editor)]>>
                      ELSE minibuffer.origin,
                      [buffer |-> NextHandle(e.bufferSlots), window |-> NextHandle(e.windowSlots)]),
               OriginIsDisplayed)
    /\ UNCHANGED <<opens, search, disk, running>>

\* read-from-minibuffer and completing-read.
Ask  == running /\ Spend("asks") /\ Start("text", TRUE)
Pick == running /\ Spend("picks") /\ \E custom \in BOOLEAN : Start("picker", custom)

\* Keys of the minibuffer, and what asks its provider again: another provider
\* (set-interaction-provider!) or a new index (project-index-updated!).
EditInput ==
    /\ running /\ minibuffer # Closed
    /\ Spend("types")
    /\ \/ \E text \in Inputs \ {minibuffer.input} : TypeInto(minibuffer, text, OriginIsDisplayed)
       \/ minibuffer.kind = "picker" /\ Refresh(minibuffer, OriginIsDisplayed)
       \/ MoveHistory(minibuffer)
       \/ MoveCandidate(minibuffer)
    /\ UNCHANGED <<editor, opens, search, disk, running>>

RefuseInput ==
    /\ running /\ minibuffer # Closed
    /\ RefuseSubmission
    /\ UNCHANGED <<editor, opens, search, disk, running, budget>>

\* cancel().
CancelInteraction ==
    /\ running /\ minibuffer # Closed
    /\ editor' = Ready /\ Dismiss
    /\ UNCHANGED <<opens, search, disk, running, budget>>

\* Callbacks of the provider's task.
SettleLookup ==
    /\ running /\ Settle
    /\ UNCHANGED <<editor, opens, search, disk, running, budget>>

-----------------------------------------------------------------------------
(* Files: opening, searching, closing.                                     *)

Visiting(e, r) == {b \in DOMAIN e.buffers : e.buffers[b].resource = r}

\* The file is read, or the pending open of it is turned to the new window.
AwaitFile(e, w, r, line, tracked) ==
    LET open == [resource |-> r, window |-> w, tracked |-> tracked, line |-> line] IN
    /\ Visiting(e, r) = {}
    /\ editor' = e
    /\ opens' = {o \in opens : o.resource # r} \cup {open}
    /\ UNCHANGED <<search, disk>>

\* open-resource-position-with-intent!: an open file is displayed at once.
OpenResource(e, w, r, line, tracked) ==
    \/ \E b \in Visiting(e, r), plan \in Plans(e, w) :
          Becomes(Display(e, w, b, tracked, line, plan))
    \/ AwaitFile(e, w, r, line, tracked)

OpenFile ==
    /\ Command("opens")
    /\ \E r \in Resources, line \in {NoLine, FileLines - 1} :
          OpenResource(Ready, Context, r, line, TRUE)

\* release-startup-placeholder!: unless it was edited.
WithoutPlaceholder(e, b) == LET p == e.placeholder IN
    IF p # NoHandle /\ p # b /\ ~Modified(e, p) THEN ReleaseBuffer(e, p, b) ELSE e

\* finish-open!: the file is displayed where it was asked for.
FinishOpen == \E o \in opens :
    /\ running
    /\ \E lines \in files[o.resource] :
       \E e \in {IF Visiting(editor, o.resource) # {} THEN editor
                 ELSE CreateBuffer(editor, o.resource, lines)} :
       \E b \in Visiting(e, o.resource), plan \in Plans(e, o.window) :
          editor' = WithoutPlaceholder(Display(e, o.window, b, o.tracked, o.line, plan), b)
    /\ opens' = opens \ {o}
    /\ UNCHANGED <<search, disk, prompt, running, budget>>

\* fail-open! and cancel-open!.
FailOpen == \E o \in opens :
    /\ running
    /\ opens' = opens \ {o}
    /\ UNCHANGED <<editor, search, disk, prompt, running, budget>>

StartSearch ==
    /\ Command("searches")
    /\ editor' = Ready /\ search' = Context
    /\ UNCHANGED <<opens, disk>>

\* publish_location_list(), of one match.
PublishLocations(e, w, resource, line) ==
    LET published == [e EXCEPT !.workbenches[Owner(e, w)].locations =
                          Append(@, Place(NoHandle, resource, 0, line))]
    IN AttachPlaces(published, {p \in Places(published) :
           p[2] = "item" /\ \E b \in DOMAIN e.buffers : WaitsFor(published, p, b)})

\* finish-project-search!: when the window has gone, the buffer of results stays behind.
FinishSearch ==
    /\ running /\ search # NoHandle
    /\ \E b \in {CreatedBuffer(editor)}, e \in {CreateBuffer(editor, NoResource, 1)} :
       IF Owners(e, search) = {}
       THEN editor' = e
       ELSE \E r \in Resources, line \in 0..(FileLines - 1), plan \in Plans(e, search) :
            editor' = Display(PublishLocations(e, search, r, line), search, b, TRUE, NoLine, plan)
    /\ search' = NoHandle
    /\ UNCHANGED <<opens, disk, prompt, running, budget>>

\* fail-project-search! and cancel-project-search!.
FailSearch ==
    /\ running /\ search # NoHandle
    /\ search' = NoHandle
    /\ UNCHANGED <<editor, opens, disk, prompt, running, budget>>

\* buffer-kill: not while the buffer is saved. The last one is replaced by a new one.
KillBuffer ==
    /\ Command("kills")
    /\ \E e \in {Ready} : \E b \in {e.windows[Context]} :
       /\ b \notin DOMAIN e.saving
       /\ IF DOMAIN e.buffers = {b}
          THEN Becomes(ReleaseBuffer(CreateBuffer(e, NoResource, 1), b, CreatedBuffer(e)))
          ELSE \E other \in DOMAIN e.buffers \ {b} : Becomes(ReleaseBuffer(e, b, other))

SwitchBuffer ==
    /\ Command("displays")
    /\ \E e \in {Ready}, w \in {Context} : \E b \in DOMAIN e.buffers, plan \in Plans(e, w) :
          Becomes(Display(e, w, b, TRUE, NoLine, plan))

\* An edit inserts a line at the top, and every position in the buffer moves.
InsertLine(e, b) ==
    [e EXCEPT !.buffers[b].lines = @ + 1,
              !.buffers[b].anchors = [a \in DOMAIN @ |-> @[a] + 1],
              !.carets = [wb \in DOMAIN @ |-> IF wb[2] = b THEN @[wb] + 1 ELSE @[wb]]]

Edit ==
    /\ Command("edits")
    /\ \E e \in {Ready} : \E b \in {e.windows[Context]} : Becomes(InsertLine(e, b))

GoToLine ==
    /\ Command("moves")
    /\ \E e \in {Ready} : \E b \in {e.windows[Context]} :
       \E line \in 0..(e.buffers[b].lines - 1) \ {e.carets[<<Context, b>>]} :
          Becomes(MoveCaret(e, Context, line))

-----------------------------------------------------------------------------
(* Saves.                                                                   *)

\* begin-buffer-save! and the file-write task: it has the text of this moment.
BeginSave(e, b) ==
    /\ b \notin DOMAIN e.saving
    /\ editor' = [e EXCEPT !.saving = Put(@, b, e.buffers[b].lines)]
    /\ writes' = writes \cup {[buffer |-> b, resource |-> e.buffers[b].resource,
                               text |-> e.buffers[b].lines, written |-> FALSE]}
    /\ UNCHANGED <<opens, search, files>>

\* file-save.
Save ==
    /\ Command("saves")
    /\ \E e \in {Ready} : \E b \in {e.windows[Context]} :
       e.buffers[b].resource # NoResource /\ BeginSave(e, b)

\* file-save-as-accept: the buffer visits the file before it is saved, and goes on to
\* do so if it cannot be saved now.
SaveAs ==
    /\ Command("saves")
    /\ \E e \in {Ready}, r \in Resources : \E b \in {e.windows[Context]} :
       /\ Visiting(e, r) \subseteq {b}
       /\ \E visiting \in {[e EXCEPT !.buffers[b].resource = r]} :
          IF b \in DOMAIN e.saving THEN Becomes(visiting) ELSE BeginSave(visiting, b)

\* save_file_atomically(): the file gets the text at once, when it is renamed.
WriteFile == \E w \in writes :
    /\ ~w.written
    /\ files' = [files EXCEPT ![w.resource] = @ \cup {w.text}]
    /\ writes' = (writes \ {w}) \cup {[w EXCEPT !.written = TRUE]}
    /\ UNCHANGED <<editor, opens, search, prompt, running, budget>>

WithoutSave(e, b) == [e EXCEPT !.saving = Restrict(@, DOMAIN @ \ {b})]

\* Mutant: the text of now becomes the save point.
SavedBufferAsItIs(e, b) ==
    IF b \in DOMAIN e.saving
    THEN WithoutSave([e EXCEPT !.buffers[b].saved = e.buffers[b].lines], b)
    ELSE e

\* complete-buffer-save!, which finds no save of a buffer that was released.
SavedBuffer(e, b) ==
    IF b \in DOMAIN e.saving
    THEN WithoutSave([e EXCEPT !.buffers[b].saved = e.saving[b]], b)
    ELSE e

\* file-save-completed, and file-save-failed or file-save-cancelled: a write may fail
\* after the file was renamed.
FinishSave == \E w \in writes :
    /\ running
    /\ \/ w.written /\ editor' = SavedBuffer(editor, w.buffer)
       \/ editor' = WithoutSave(editor, w.buffer)
    /\ writes' = writes \ {w}
    /\ UNCHANGED <<opens, search, files, prompt, running, budget>>

-----------------------------------------------------------------------------
(* Windows and workbenches. Those of windows want theirs in the active one. *)

ActiveLayout(e) == e.workbenches[e.active].layout

\* split_window(): the new window starts a walk where it is.
StartWalk(e, k, w) == RecordJump(Capture(e, k, w), k, w, Captured(e, k, w))

SplitWindow ==
    /\ Command("splits")
    /\ \E e \in {Ready}, w \in {Context} : \E b \in {e.windows[w]}, new \in {CreatedWindow(e)} :
       /\ w \in ToSet(ActiveLayout(e))
       /\ Becomes(StartWalk(SplitLayout(CreateWindow(e, b, e.carets[<<w, b>>]), e.active, w, new),
                            e.active, new))

\* delete_window(): the next window is focused first if this one is in use.
DeleteWindow ==
    /\ Command("deletes")
    /\ \E e \in {Ready}, w \in {Context} : \E layout \in {ActiveLayout(e)} :
       LET next == layout[(IndexIn(layout, w) % Len(layout)) + 1]
       IN /\ w \in ToSet(layout) /\ Len(layout) > 1
          /\ Becomes(DestroyWindows(IF ActiveWindow(e) = w THEN FocusWindow(e, e.active, next)
                                    ELSE e, <<w>>))

DeleteOtherWindows ==
    /\ Command("deletes")
    /\ \E e \in {Ready}, w \in {Context} :
       \E others \in {Without(ActiveLayout(e), {w})} :
       /\ w \in ToSet(ActiveLayout(e)) /\ others # <<>>
       /\ Becomes(DestroyWindows(FocusWindow(e, e.active, w), others))

\* focus_window() by a command or the pointer, which ends no interaction.
SelectWindow ==
    /\ running /\ Spend("moves")
    /\ \E w \in ToSet(ActiveLayout(editor)) \ {ActiveWindow(editor)} :
          Becomes(FocusWindow(editor, editor.active, w))
    /\ UNCHANGED <<prompt, running>>

Activate(e, k) == [FocusWindow(e, k, e.workbenches[k].active) EXCEPT !.active = k]

\* create_workbench(): with a window of its own on the buffer in use, and switched to.
AddWorkbench(e, w, b) ==
    [e EXCEPT !.workbenches = Put(@, NextHandle(e.workbenchSlots), NewWorkbench(w, b)),
              !.workbenchSlots = Taken(@)]

CreateWorkbench ==
    /\ Command("workbenches")
    /\ \E e \in {Ready} : \E from \in {ActiveWindow(e)} : \E b \in {e.windows[from]} :
       Becomes(Activate(AddWorkbench(CreateWindow(e, b, e.carets[<<from, b>>]), CreatedWindow(e), b),
                        NextHandle(e.workbenchSlots)))

\* switch_workbench().
SwitchWorkbench ==
    /\ Command("moves")
    /\ \E e \in {Ready} : \E k \in DOMAIN e.workbenches \ {e.active} : Becomes(Activate(e, k))

\* close_workbench(): another is activated, then anchors, state and windows go.
EraseWorkbench(e, k, next) ==
    [e EXCEPT !.active = next,
              !.workbenches = Restrict(@, DOMAIN @ \ {k}),
              !.workbenchSlots = Freed(@, k)]

CloseWorkbench ==
    /\ Command("deletes")
    /\ \E e \in {Ready} : \E closing \in {e.workbenches[e.active]} :
       \E next \in DOMAIN e.workbenches \ {e.active} :
       LET released == DropAnchors(DropAnchors(e, closing.graph.nodes), closing.locations)
       IN Becomes(Activate(DestroyWindows(EraseWorkbench(released, e.active, next),
                                          closing.layout), next))

-----------------------------------------------------------------------------
(* Jumps.                                                                   *)

Walk(e, w)  == e.workbenches[Owner(e, w)].walks[w]
Graph(e, w) == e.workbenches[Owner(e, w)].graph

\* jump-link: mark_jump(), and the second mark of a window links the two for good.
LinkMarks(e, k, w, n) ==
    LET unset == [e EXCEPT !.origins = Restrict(@, DOMAIN @ \ {w})] IN
    IF w \notin DOMAIN e.origins THEN [e EXCEPT !.origins = Put(@, w, n)]
    ELSE IF e.origins[w] = n THEN unset
    ELSE [unset EXCEPT !.workbenches[k].graph =
             Link(Link(@, e.origins[w], n, TRUE), n, e.origins[w], TRUE)]

LinkJump ==
    /\ Command("links")
    /\ \E e \in {Ready}, w \in {Context} : \E k \in {Owner(e, w)} :
       \E n \in {Captured(e, k, w)} : Becomes(LinkMarks(StartWalk(e, k, w), k, w, n))

TouchJump(e, k, n)      == [e EXCEPT !.workbenches[k].graph = Touch(@, n)]
MoveJump(e, k, n, line) == [e EXCEPT !.workbenches[k].graph.nodes[n].line = line]

\* restore_jump(): an open buffer is shown where the anchor is, and a closed file is
\* opened again. visit says whether the walk records the place then.
ShowPlace(e, k, w, n) ==
    LET node  == e.workbenches[k].graph.nodes[n]
        line  == e.buffers[node.buffer].anchors[node.anchor]
        shown == FocusWindow(ShowBuffer(e, w, node.buffer), k, w)
    IN TouchJump(MoveJump(MoveCaret(shown, w, line), k, n, line), k, n)

\* The walk records the place once it is restored, when a file that is open has been
\* displayed and the graph cut to its limit: nothing asks whether the node is left.
Visited(e, k, w, n, visit) ==
    IF ~visit THEN e
    ELSE [RecordJump(e, k, w, n) EXCEPT
              !.workbenches[k].walks[w].lost = @ \cup ({n} \ DOMAIN e.workbenches[k].graph.nodes)]

RestoreJump(e, k, w, n, visit) ==
    /\ n \in DOMAIN e.workbenches[k].graph.nodes
    /\ \E node \in {e.workbenches[k].graph.nodes[n]}, touched \in {TouchJump(e, k, n)} :
       IF Attached(node)
       THEN Becomes(Visited(ShowPlace(e, k, w, n), k, w, n, visit))
       ELSE /\ node.resource # NoResource
            /\ \/ \E b \in Visiting(e, node.resource), plan \in Plans(e, w) :
                     Becomes(Visited(Display(touched, w, b, FALSE, node.line, plan),
                                     k, w, n, visit))
               \/ AwaitFile(Visited(touched, k, w, n, visit), w, node.resource, node.line, FALSE)

\* navigate_jump(): the walk moves first, and back if the place cannot be restored.
MoveCursor(e, k, w, delta) == [e EXCEPT !.workbenches[k].walks[w].cursor = @ + delta]

NavigateJump ==
    /\ Command("walks")
    /\ \E e \in {Ready}, w \in {Context}, delta \in {-1, 1} : \E k \in {Owner(e, w)} :
       /\ CanMove(Walk(e, w), delta)
       /\ RestoreJump(MoveCursor(e, k, w, delta), k, w,
                      Walk(e, w).entries[Walk(e, w).cursor + delta], FALSE)

\* visit_jump(), from the picker of branches.
VisitJump ==
    /\ Command("walks")
    /\ \E e \in {Ready}, w \in {Context} : \E k \in {Owner(e, w)} :
       /\ Walk(e, w).cursor # 0
       /\ \E edge \in Graph(e, w).edges :
            /\ edge.from = Walk(e, w).entries[Walk(e, w).cursor]
            /\ RestoreJump(e, k, w, edge.to, TRUE)

-----------------------------------------------------------------------------
Next ==
    \/ Ask \/ Pick \/ EditInput \/ RefuseInput \/ CancelInteraction \/ SettleLookup \/ SubmitToNowhere
    \/ OpenFile \/ FinishOpen \/ FailOpen \/ StartSearch \/ FinishSearch \/ FailSearch
    \/ KillBuffer \/ SwitchBuffer \/ Edit \/ GoToLine
    \/ Save \/ SaveAs \/ WriteFile \/ FinishSave
    \/ SplitWindow \/ DeleteWindow \/ DeleteOtherWindows \/ SelectWindow
    \/ CreateWorkbench \/ SwitchWorkbench \/ CloseWorkbench
    \/ LinkJump \/ NavigateJump \/ VisitJump

Spec == Init /\ [][Next]_vars

-----------------------------------------------------------------------------
(* Properties.                                                             *)

\* Every window is in one layout, the workbench policy of Scheme knows the windows of
\* each layout and no other, the window in use is among them, every window shows a
\* view of its own of an open buffer, and no workbench remembers a closed one: neither
\* an erase nor a lookup of the lifecycle meets what it calls inconsistent
\* (release_buffer(), destroy_window(), close_workbench(), workbench-forget-window!).
WindowsAreAccounted ==
    /\ editor.active \in DOMAIN editor.workbenches
    /\ DOMAIN editor.windows = UNION {ToSet(wb.layout) : wb \in Range(editor.workbenches)}
    /\ \A k \in DOMAIN editor.workbenches : LET wb == editor.workbenches[k] IN
        /\ DOMAIN wb.walks = ToSet(wb.layout) /\ IsInjective(wb.layout)
        /\ wb.active \in ToSet(wb.layout)
        /\ wb.recent \subseteq DOMAIN editor.buffers
        /\ \A l \in DOMAIN editor.workbenches \ {k} :
            ToSet(wb.layout) \cap ToSet(editor.workbenches[l].layout) = {}
    /\ \A w \in DOMAIN editor.windows : <<w, editor.windows[w]>> \in DOMAIN editor.carets
    /\ \A wb \in DOMAIN editor.carets : wb[1] \in DOMAIN editor.windows /\ wb[2] \in DOMAIN editor.buffers

\* Each navigation anchor of an open buffer is held by exactly one jump node or item
\* of a location list, and each of them that is attached holds one, in a buffer that
\* is open: captures that find a node, evictions, closed buffers and workbenches, and
\* files that open again leave no anchor behind and none used after its removal.
AnchorsAreOwned ==
    /\ \A b \in DOMAIN editor.buffers :
        /\ {PlaceAt(editor, p).anchor : p \in PlacesIn(editor, b)} = DOMAIN editor.buffers[b].anchors
        /\ \A p, q \in PlacesIn(editor, b) :
            PlaceAt(editor, p).anchor = PlaceAt(editor, q).anchor => p = q
        /\ \A a \in DOMAIN editor.buffers[b].anchors :
            editor.buffers[b].anchors[a] \in 0..(editor.buffers[b].lines - 1)
    /\ \A p \in Places(editor) :
        Attached(PlaceAt(editor, p)) => PlaceAt(editor, p).buffer \in DOMAIN editor.buffers

\* Edges only lead to nodes of their graph, and walks too, whatever was evicted meanwhile
\* (evict_jump_graph() and workbench-jump-forget!), but for a node the graph had dropped
\* when the walk recorded it: visit_jump() records after the display that may evict. The
\* cursor of a walk is on an entry if there is any.
WalksStayInGraph ==
    \A wb \in Range(editor.workbenches) :
        /\ ToSet(wb.graph.order) = DOMAIN wb.graph.nodes
        /\ \A edge \in wb.graph.edges : {edge.from, edge.to} \subseteq DOMAIN wb.graph.nodes
        /\ \A walk \in Range(wb.walks) :
            /\ ToSet(walk.entries) \subseteq DOMAIN wb.graph.nodes \cup walk.lost
            /\ walk.cursor \in (IF walk.entries = <<>> THEN {0} ELSE 1..Len(walk.entries))

\* A buffer is marked as being saved exactly while one write of the text it had then is
\* under way, so that it can be killed again and its next save begin; and the text it
\* is compared with to tell whether it is modified is one a file has held, or that of
\* a buffer made empty: edits made during a save stay modified (core.scm, lifecycle.scm;
\* docs/async-runtime.md:89).
SavesAreTrue ==
    /\ DOMAIN editor.saving \subseteq DOMAIN editor.buffers
    /\ \A b \in DOMAIN editor.buffers :
        /\ LET own == {w \in writes : w.buffer = b} IN
           IF b \in DOMAIN editor.saving
           THEN \E w \in own : own = {w} /\ w.text = editor.saving[b]
           ELSE own = {}
        /\ editor.buffers[b].saved \in {1} \cup UNION Range(files)

\* The candidates of a picker that is not loading and shows no error are those of its
\* input, unless that was recalled from the history; it loads while exactly one task
\* of its own generation is under way, and every other task has been asked to stop
\* (refresh(), cancel_pending() and the ends of tasks in editor/interaction.cpp;
\* docs/command-loop.md: only results for the active generation can update the
\* interaction).
CandidatesAreCurrent ==
    /\ {l.generation : l \in {t \in lookups : ~t.cancelled}} =
       IF minibuffer # Closed /\ minibuffer.loading THEN {minibuffer.generation} ELSE {}
    /\ minibuffer # Closed /\ minibuffer.kind = "picker" =>
        \/ minibuffer.loading \/ minibuffer.error \/ minibuffer.navigation # NotRecalled
        \/ minibuffer.candidates = minibuffer.input

\* Every change of the input asks for candidates: what Enter takes from the list of a
\* picker belongs to the input it shows (docs/command-loop.md: every input change
\* receives a generation).
CandidatesFollowInput ==
    minibuffer # Closed /\ Offers(minibuffer) =>
        minibuffer.error \/ minibuffer.candidates = minibuffer.input

\* The command an interaction was started for gets to run on the window and buffer it
\* was started from (docs/command-loop.md: the command loop switches to that explicit
\* target before invoking the accept command).
SubmissionReachesItsTarget == running

=============================================================================
