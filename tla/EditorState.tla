----------------------------- MODULE EditorState -----------------------------
(***************************************************************************)
(* The state EditorApplication keeps of buffers, windows and workbenches   *)
(* (editor/editor_application.cpp over buffer.cpp, view.cpp, window.cpp,   *)
(* workbench.cpp, location_list.cpp), with the part of it that Scheme      *)
(* holds (scheme/cind/workbench.scm, buffers.scm), and its methods as      *)
(* operators on that state, for handlers call several of them in a row.    *)
(*                                                                         *)
(* A view belongs to one window and one buffer and is named by the two. A  *)
(* text is its number of lines, for edits only ever add a line like any    *)
(* other at the top, and a position is a line. A layout is the sequence of *)
(* its leaves; roles and pins are left to the display policy, which may    *)
(* choose any window of the layout.                                        *)
(***************************************************************************)
EXTENDS JumpGraph, TLC

CONSTANTS
    JumpLimit       \* default_jump_graph_limit

\* saved is the text of the save point.
NewBuffer(resource, lines) ==
    [resource |-> resource, lines |-> lines, saved |-> lines, anchors |-> <<>>]

\* Buffer::modified() compares texts.
Modified(e, b) == e.buffers[b].lines # e.buffers[b].saved

NewWorkbench(window, buffer) ==
    [layout |-> <<window>>, active |-> window, recent |-> {buffer},
     walks |-> Put(<<>>, window, NoWalk), graph |-> EmptyGraph, locations |-> <<>>]

\* The workbench whose layout has a window.
Owners(e, w) == {k \in DOMAIN e.workbenches : w \in ToSet(e.workbenches[k].layout)}
Owner(e, w)  == CHOOSE k \in Owners(e, w) : TRUE

ActiveWindow(e) == e.workbenches[e.active].active

\* Where a window is among the leaves of its layout.
IndexIn(layout, w) == CHOOSE i \in DOMAIN layout : layout[i] = w

NoLine == -1    \* no position is asked for

Least(a, b) == IF a < b THEN a ELSE b

-----------------------------------------------------------------------------
(* Navigation anchors, and what holds them.                                *)

NewAnchor(e, b) ==
    CHOOSE a \in 1..(Cardinality(DOMAIN e.buffers[b].anchors) + 1) :
        a \notin DOMAIN e.buffers[b].anchors

\* capture_jump(): the place a window shows becomes a node; an anchor the graph does
\* not take is removed again.
CapturedPlace(e, w) == LET b == e.windows[w] IN
    Place(b, e.buffers[b].resource, NewAnchor(e, b), e.carets[<<w, b>>])

Captured(e, k, w) == InternedAs(e.workbenches[k].graph, CapturedPlace(e, w))

\* Mutant: the anchor made for a capture stays, whether the graph takes it or not.
CaptureAndKeep(e, k, w) ==
    LET place == CapturedPlace(e, w) IN
    [e EXCEPT !.workbenches[k].graph = Intern(@, place),
              !.buffers[place.buffer].anchors = Put(@, place.anchor, place.line)]

Capture(e, k, w) ==
    LET place == CapturedPlace(e, w)  g == e.workbenches[k].graph IN
    [e EXCEPT !.workbenches[k].graph = Intern(g, place),
              !.buffers[place.buffer].anchors =
                  IF Retains(g, place) THEN Put(@, place.anchor, place.line) ELSE @]

\* The places of all workbenches: their jump nodes and the items of their location lists.
Places(e) == UNION {({k} \X {"node"} \X DOMAIN e.workbenches[k].graph.nodes)
                    \cup ({k} \X {"item"} \X DOMAIN e.workbenches[k].locations) :
                    k \in DOMAIN e.workbenches}

PlaceAt(e, p) == LET wb == e.workbenches[p[1]] IN
    IF p[2] = "node" THEN wb.graph.nodes[p[3]] ELSE wb.locations[p[3]]

PlacesIn(e, b) == {p \in Places(e) : PlaceAt(e, p).buffer = b}

\* A place in a file that a buffer visits, but not yet in the buffer.
WaitsFor(e, p, b) ==
    /\ ~Attached(PlaceAt(e, p))
    /\ e.buffers[b].resource # NoResource /\ PlaceAt(e, p).resource = e.buffers[b].resource

WithPlaces(wb, nodes, items)  == [wb EXCEPT !.graph.nodes = nodes, !.locations = items]
WithAnchors(buffer, anchors) == [buffer EXCEPT !.anchors = anchors]

\* resolve_location_list_items() and resolve_jump_nodes(): each place gets an anchor of
\* its own on its line, or the last if there are fewer now. The excerpt that may move it
\* to a line nearby is left out. A node takes the line as its own, an item does not.
AttachPlaces(e, places) ==
    LET target(p) == CHOOSE b \in DOMAIN e.buffers : WaitsFor(e, p, b)
        line(p)   == Least(PlaceAt(e, p).line, e.buffers[target(p)].lines - 1)
        used      == UNION {DOMAIN e.buffers[target(p)].anchors : p \in places}
        unused    == 1..(Cardinality(used) + Cardinality(places)) \ used
        anchor    == CHOOSE f \in [places -> unused] : IsInjective(f)
        holder(a) == CHOOSE p \in places : anchor[p] = a
        placed(p) ==
            IF p \notin places THEN PlaceAt(e, p)
            ELSE Attach(PlaceAt(e, p), target(p), anchor[p],
                        IF p[2] = "node" THEN line(p) ELSE PlaceAt(e, p).line)
        nodes(k)  == [n \in DOMAIN e.workbenches[k].graph.nodes |-> placed(<<k, "node", n>>)]
        items(k)  == [i \in DOMAIN e.workbenches[k].locations |-> placed(<<k, "item", i>>)]
        anchors(b) == [a \in DOMAIN e.buffers[b].anchors
                             \cup {anchor[p] : p \in {q \in places : target(q) = b}} |->
                          IF a \in DOMAIN e.buffers[b].anchors THEN e.buffers[b].anchors[a]
                          ELSE line(holder(a))]
    IN [e EXCEPT
        !.workbenches = [k \in DOMAIN @ |-> WithPlaces(@[k], nodes(k), items(k))],
        !.buffers = [b \in DOMAIN @ |-> WithAnchors(@[b], anchors(b))]]

\* Places of a buffer that closes keep the lines their anchors had reached.
DetachPlaces(e, b) ==
    LET detach(places) == [i \in DOMAIN places |->
            IF places[i].buffer = b
            THEN Detached([places[i] EXCEPT !.line = e.buffers[b].anchors[places[i].anchor]])
            ELSE places[i]]
    IN [e EXCEPT !.workbenches =
            [k \in DOMAIN @ |-> WithPlaces(@[k], detach(@[k].graph.nodes), detach(@[k].locations))]]

\* The anchors of some places are removed: release_jump_anchors(),
\* release_location_anchors() and those of evicted nodes.
DropAnchors(e, places) ==
    LET left(b) == DOMAIN e.buffers[b].anchors
                   \ {places[i].anchor : i \in {j \in DOMAIN places : places[j].buffer = b}}
    IN [e EXCEPT !.buffers =
           [b \in DOMAIN @ |-> WithAnchors(@[b], Restrict(e.buffers[b].anchors, left(b)))]]

\* evict_jump_graph().
EvictJumps(e, k) ==
    LET g == e.workbenches[k].graph  removed == Evicted(g, JumpLimit) IN
    [DropAnchors(e, Restrict(g.nodes, removed)) EXCEPT
        !.workbenches[k].graph = Evict(g, JumpLimit),
        !.workbenches[k].walks = [w \in DOMAIN @ |-> WalkWithout(@[w], removed)]]

RecordJump(e, k, w, n) == [e EXCEPT !.workbenches[k].walks[w] = Record(@, n)]

-----------------------------------------------------------------------------
(* Buffers, windows and what they show.                                     *)

\* create_buffer(): it is announced, and places that waited for its file attach.
CreatedBuffer(e) == NextHandle(e.bufferSlots)

AddBuffer(e, resource, lines) ==
    [e EXCEPT !.buffers = Put(@, CreatedBuffer(e), NewBuffer(resource, lines)),
              !.bufferSlots = Taken(@)]

CreateBuffer(e, resource, lines) ==
    LET created == AddBuffer(e, resource, lines)
    IN AttachPlaces(created, {p \in Places(created) : WaitsFor(created, p, CreatedBuffer(e))})

\* show_buffer(): the window gets back the view it had of the buffer, or a new one.
ShowBuffer(e, w, b) ==
    [e EXCEPT !.windows[w] = b,
              !.carets = IF <<w, b>> \in DOMAIN @ THEN @ ELSE Put(@, <<w, b>>, 0),
              !.workbenches[Owner(e, w)].recent = @ \cup {b}]

\* focus_window().
FocusWindow(e, k, w) ==
    [e EXCEPT !.workbenches[k].recent = @ \cup {e.windows[w]},
              !.workbenches[k].active = w]

\* apply_position().
MoveCaret(e, w, line) == LET b == e.windows[w] IN
    [e EXCEPT !.carets[<<w, b>>] = Least(line, e.buffers[b].lines - 1)]

\* A window with a view of its own, not yet in a layout.
CreatedWindow(e) == NextHandle(e.windowSlots)

CreateWindow(e, b, line) == LET w == CreatedWindow(e) IN
    [e EXCEPT !.windows = Put(@, w, b), !.windowSlots = Taken(@),
              !.carets = Put(@, <<w, b>>, line)]

\* WindowLayout::split() with register_workbench_window().
SplitLayout(e, k, target, w) ==
    [e EXCEPT !.workbenches[k].layout = InsertAt(@, IndexIn(@, target) + 1, w),
              !.workbenches[k].walks = Put(@, w, NoWalk)]

\* They leave the layout, and the policy of Scheme forgets their walks.
WithoutWindows(wb, gone) ==
    [wb EXCEPT !.walks = Restrict(@, DOMAIN @ \ gone), !.layout = Without(@, gone)]

\* destroy_window(), for windows in turn that leave their layouts: their views go too.
DestroyWindows(e, windows) ==
    LET gone == ToSet(windows) IN
    [e EXCEPT
        !.windowSlots = AllFreed(@, windows),
        !.windows = Restrict(@, DOMAIN @ \ gone),
        !.carets = Restrict(@, {wb \in DOMAIN @ : wb[1] \notin gone}),
        !.workbenches = [k \in DOMAIN @ |-> WithoutWindows(@[k], gone)]]

Remember(wb, b) == [wb EXCEPT !.recent = @ \cup {b}]
Forget(wb, b)   == [wb EXCEPT !.recent = @ \ {b}]

\* Some windows show another buffer.
ShowInstead(e, showing, b) ==
    [e EXCEPT
        !.windows = [w \in DOMAIN @ |-> IF w \in showing THEN b ELSE @[w]],
        !.carets = [wb \in DOMAIN @ \cup (showing \X {b}) |-> IF wb \in DOMAIN @ THEN @[wb] ELSE 0],
        !.workbenches = [k \in DOMAIN @ |->
            IF ToSet(@[k].layout) \cap showing = {} THEN @[k] ELSE Remember(@[k], b)]]

\* What is known of a buffer goes with it.
WithoutBuffer(e, b) ==
    [e EXCEPT !.carets = Restrict(@, {wb \in DOMAIN @ : wb[2] # b}),
              !.buffers = Restrict(@, DOMAIN @ \ {b}),
              !.bufferSlots = Freed(@, b),
              !.saving = Restrict(@, DOMAIN @ \ {b}),
              !.placeholder = IF @ = b THEN NoHandle ELSE @,
              !.workbenches = [k \in DOMAIN @ |-> Forget(@[k], b)]]

Showing(e, b) == {w \in DOMAIN e.windows : e.windows[w] = b}

\* Mutant: only the windows of the workbench in use are turned to the replacement.
ReleaseBufferHere(e, b, replacement) ==
    LET showing == Showing(e, b) \cap ToSet(e.workbenches[e.active].layout) IN
    WithoutBuffer(ShowInstead(DetachPlaces(e, b), showing, replacement), b)

\* release_buffer(): places let go of it, and its windows show the replacement.
ReleaseBuffer(e, b, replacement) ==
    WithoutBuffer(ShowInstead(DetachPlaces(e, b), Showing(e, b), replacement), b)

-----------------------------------------------------------------------------
(* display_buffer(): where the policy says, from and to captured as jumps.  *)

\* An origin that is in no layout stands for the window in use.
DisplayOrigin(e, w) == IF Owners(e, w) = {} THEN ActiveWindow(e) ELSE w

Plans(e, w) == {[target |-> target, split |-> split] :
                   target \in ToSet(e.workbenches[Owner(e, DisplayOrigin(e, w))].layout),
                   split \in BOOLEAN}

\* The window of the plan, or one split from it, shows the buffer and has the focus.
ShowPlanned(e, k, b, plan) ==
    IF plan.split
    THEN LET w == CreatedWindow(e) IN
         FocusWindow(SplitLayout(CreateWindow(e, b, 0), k, plan.target, w), k, w)
    ELSE FocusWindow(ShowBuffer(e, plan.target, b), k, plan.target)

PlaceCaret(e, k, line) ==
    IF line = NoLine THEN e ELSE MoveCaret(e, e.workbenches[k].active, line)

\* Where it arrives is captured, and becomes a step of the walk and an edge.
Arrive(e, k) == Capture(e, k, e.workbenches[k].active)

ArriveFrom(e, k, from) ==
    LET w  == e.workbenches[k].active
        to == Captured(e, k, w)
    IN [RecordJump(RecordJump(Arrive(e, k), k, w, from), k, w, to) EXCEPT
            !.workbenches[k].graph = IF from = to THEN @ ELSE Link(@, from, to, FALSE)]

Display(e, w, b, tracked, line, plan) ==
    LET origin == DisplayOrigin(e, w)
        k      == Owner(e, origin)
        show(left) == PlaceCaret(ShowPlanned(left, k, b, plan), k, line)
    IN EvictJumps(IF tracked THEN ArriveFrom(show(Capture(e, k, origin)), k, Captured(e, k, origin))
                  ELSE Arrive(show(e), k), k)

=============================================================================
