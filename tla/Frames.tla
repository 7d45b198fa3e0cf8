-------------------------------- MODULE Frames --------------------------------
(***************************************************************************)
(* The frames of the graphical editor: what main.cpp paints after a batch  *)
(* of events, as GuiFrameController (gui/frame_controller.cpp) prepares it *)
(* and SkiaPresenter draws it. A pixel buffer and a texture are retained   *)
(* from frame to frame. A frame that moves, because the view scrolls       *)
(* (gui/scroll_timeline.cpp) or the caret glides, is drawn anew; any other *)
(* draws over the buffer what differs between the last two scenes          *)
(* (ui/scene_damage.cpp), or shifts the buffer when only the fraction of a *)
(* line changed that is scrolled away.                                     *)
(*                                                                         *)
(* Heights are in half lines: a scroll position is the number of half      *)
(* lines above the view. Of the width there is the text and the column of  *)
(* the caret. One view without popups fills the window; its footer is left *)
(* out. The spring of a scroll passes no other keyframe than those it has. *)
(***************************************************************************)
EXTENDS Integers, FiniteSets, FiniteSetsExt

CONSTANTS
    LastLine,       \* the lines of the text are 0..LastLine
    Height,         \* of the view, in half lines
    SmoothDistance, \* a longer scroll is not animated: four lines
    GlideDistance,  \* neither is a longer move of the caret: two lines
    PreciseBuilds,  \* of the builds, whether the wheel scrolls at once (macOS) or not
    MaxChanges      \* bound: events

ASSUME FramesAssumption ==
    /\ LastLine \in Nat /\ Height \in Nat /\ MaxChanges \in Nat
    /\ SmoothDistance \in Nat /\ GlideDistance \in Nat
    /\ Height >= SmoothDistance /\ Height >= 2
    /\ PreciseBuilds \in SUBSET BOOLEAN /\ PreciseBuilds # {}

VARIABLES
    precise,    \* the wheel scrolls at once
    text,       \* [version, caret, top, reveal]: the view of the buffer
    events,     \* what was asked of the next frame, a subset of Asked
    last,       \* the scene of the last frame
    motion,     \* the animation under way
    presented,  \* [animated, caret]: the last frame
    pixels,     \* the buffer, see Picture
    texture,    \* the texture shown
    spare,      \* there is a second texture to copy it to
    changes

raster == <<pixels, texture, spare>>
frameVars == <<precise, text, events, last, motion, presented, raster, changes>>

Line == 0..LastLine
Tops == 0..(2 * LastLine)
Rows == 0..(Height \div 2)      \* the text rows composed: one more than are shown
Places == 0..(Height - 1)

\* The window is painted at all, under another identity (a revision, mostly), after a
\* direct scroll, in another size or scale.
Asked == {"repaint", "renewed", "direct", "resized"}

-----------------------------------------------------------------------------
(* Scenes.                                                                  *)

Blank == <<>>
Look(t, l) == IF l \in Line THEN <<l, t.version[l]>> ELSE Blank

\* layout_editor_scene(): the caret is revealed by the shortest scroll.
Revealed(t) ==
    CASE t.reveal /\ 2 * t.caret < t.top -> 2 * t.caret
      [] t.reveal /\ 2 * t.caret + 2 > t.top + Height -> 2 * t.caret + 2 - Height
      [] OTHER -> t.top

\* compose_editor_scene(): a row is active, without a caret if it is cut off.
Scene(t) ==
    [top    |-> t.top,
     cells  |-> [r \in Rows |-> Look(t, t.top \div 2 + r)],
     active |-> {r \in Rows : t.top \div 2 + r = t.caret},
     caret  |-> t.top <= 2 * t.caret /\ 2 * t.caret + 2 <= t.top + Height]

\* Where the active row and the caret are: at most one place, that of its upper half.
ActiveAt(scene) == {2 * r - (scene.top % 2) : r \in scene.active}
CaretAt(scene) == IF scene.caret THEN ActiveAt(scene) ELSE {}

-----------------------------------------------------------------------------
(* Pixels.                                                                  *)

Gap == <<"gap">>
Covers(at, y) == \E a \in at : y \in a..(a + 1)

\* The row of a scene that is at place y when half line v is at the top.
RowAt(scene, v, y) == (v + y) \div 2 - scene.top \div 2

\* layers_at(): the keyframes around v, or the nearest.
Lower(keys, v) == CHOOSE k \in keys :
    LET under == {j \in keys : j.top <= v} IN
    k.top = IF under = {} THEN Min({j.top : j \in keys}) ELSE Max({j.top : j \in under})
Upper(keys, v) == CHOOSE k \in keys :
    LET over == {j \in keys : j.top >= v} IN
    k.top = IF over = {} THEN Max({j.top : j \in keys}) ELSE Min({j.top : j \in over})

\* render_animated(): the layers, of which the upper begins with its first line; the
\* active row where the frame has it, or else where each layer has it; and the caret.
Composite(keys, v, strip, caret) ==
    LET lower == Lower(keys, v)
        upper == Upper(keys, v)
        seam  == 2 * (upper.top \div 2) - v
        Pixel(layer, row, y, lit) ==
            [text   |-> IF row \notin Rows THEN Gap
                        ELSE <<layer.cells[row], layer.cells[row] # Blank /\ (v + y) % 2 = 1, lit>>,
             column |-> IF Covers(caret, y) THEN "caret" ELSE IF lit THEN "active" ELSE "plain"]
        Layered(layer, y) == LET row == RowAt(layer, v, y) IN
            Pixel(layer, row, y, IF strip = {} THEN row \in layer.active ELSE Covers(strip, y))
    IN [y \in Places |-> Layered(IF y >= seam THEN upper ELSE lower, y)]

\* render(): the whole of a scene.
Picture(scene) == Composite({scene}, scene.top, ActiveAt(scene), CaretAt(scene))

-----------------------------------------------------------------------------
(* Events. Each is followed by a paint.                                     *)

Still == [kind |-> "still"]

FramesInit ==
    /\ precise \in PreciseBuilds
    /\ text = [version |-> [l \in Line |-> 0], caret |-> 0, top |-> 0, reveal |-> TRUE]
    /\ events = {"repaint", "resized"}
    /\ last = Scene(text)
    /\ motion = Still
    /\ presented = [animated |-> FALSE, caret |-> {}]
    /\ pixels = Picture(last) /\ texture = pixels /\ spare = FALSE
    /\ changes = 0

Event(t, asked) ==
    /\ changes < MaxChanges /\ changes' = changes + 1
    /\ text' = t
    /\ events' = events \cup {"repaint"} \cup asked
    /\ UNCHANGED <<precise, last, motion, presented, raster>>

\* A key that edits the line of the caret, or moves the caret: request-redraw!.
Type ==
    Event([text EXCEPT !.version[text.caret] = 1 - @, !.reveal = TRUE], {"renewed"})

MoveCaret == \E l \in Line :
    Event([text EXCEPT !.caret = l, !.reveal = TRUE], {})

\* What is seen of a line changes without an edit: a selection, a diagnostic.
Restyle == \E l \in Line :
    Event([text EXCEPT !.version[l] = 1 - @], {})

\* The wheel, which may be at an end of the text already.
Wheel == \E top \in Tops :
    Event([text EXCEPT !.top = top, !.reveal = FALSE], IF precise THEN {"direct"} ELSE {})

\* Another size of the output, or scale; that of the view stays.
Resize == Event(text, {"resized"})

-----------------------------------------------------------------------------
(* Animations.                                                              *)

Scroll(keys) == [kind |-> "scroll", keys |-> keys]
Glide(from, to) == [kind |-> "glide", from |-> from, to |-> to]

Between(a, b) == Min({a, b})..Max({a, b})
Hull(tops) == Min(tops)..Max(tops)
Apart(a, b) == IF a < b THEN b - a ELSE a - b

\* Mutant: a keyframe stays as it was when another scene comes at its position.
InsertOnce(keys, scene) ==
    IF \E k \in keys : k.top = scene.top THEN keys ELSE keys \cup {scene}

\* ScrollSceneTimeline::insert(): a position has one scene, the newest.
Insert(keys, scene) == {k \in keys : k.top # scene.top} \cup {scene}

\* Mutant: the keyframes just outside of the range are dropped.
RetainInside(keys, at, target) == {k \in keys : k.top \in Between(at, target)}

\* retain_motion_range(): the keyframes on the way, and the next on either side.
Retain(keys, at, target) ==
    LET range  == Between(at, target)
        before == {k.top : k \in {j \in keys : j.top < Min(range)}}
        after  == {k.top : k \in {j \in keys : j.top > Max(range)}}
        tops   == range \cup (IF before = {} THEN {} ELSE {Max(before)})
                        \cup (IF after = {} THEN {} ELSE {Min(after)})
    IN IF Cardinality(keys) <= 2 THEN keys ELSE {k \in keys : k.top \in tops}

\* Where the animation under way may be when it is sampled: anywhere, or at rest.
Samples(rest) ==
    CASE motion.kind = "scroll" -> IF rest THEN {last.top} ELSE Hull({k.top : k \in motion.keys})
      [] motion.kind = "glide"  -> IF rest THEN {motion.to} ELSE Between(motion.from, motion.to)
      [] OTHER                  -> {last.top}

\* A new animation starts from the sample of one of its kind, or from the last scene.
ScrollFrom(s) == IF motion.kind = "scroll" THEN s ELSE last.top
GlideFrom(s) == IF motion.kind = "glide" THEN {s} ELSE CaretAt(last)

\* update_animation_targets(), for a single view.
Scrolled(scene, s) ==
    IF Apart(scene.top, last.top) > SmoothDistance THEN Still
    ELSE LET keys == IF motion.kind = "scroll" THEN motion.keys ELSE {} IN
         Scroll(Retain(Insert(Insert(keys, last), scene), ScrollFrom(s), scene.top))

Glided(scene, s) == LET from == Max(GlideFrom(s)) to == Max(CaretAt(scene)) IN
    IF Apart(from, to) <= GlideDistance THEN Glide(from, to) ELSE Still

Aimed(scene, s) ==
    IF events \cap {"resized", "renewed"} # {} THEN Still
    ELSE IF "direct" \in events THEN
        IF motion.kind = "glide" /\ scene.top = last.top THEN motion ELSE Still
    ELSE IF scene.top # last.top THEN Scrolled(scene, s)
    ELSE IF motion.kind = "scroll" THEN
        Scroll(Retain(Insert(motion.keys, scene), s, scene.top))
    ELSE IF ~scene.caret THEN Still
    ELSE IF last.caret /\ CaretAt(scene) # CaretAt(last) THEN Glided(scene, s)
    ELSE motion

\* The sample was of this very animation, at its end.
Ended(rest, aimed, scene) ==
    /\ rest
    /\ \/ motion.kind = "glide" /\ aimed = motion
       \/ motion.kind = "scroll" /\ aimed.kind = "scroll" /\ scene.top = last.top

\* Mutant: the view is not held back for the caret.
OffsetUnheld(scene, at) == scene.top - at

\* animation_presentation(): how far the view is from its target, which a revealed caret
\* limits to where it is seen.
Offset(scene, at) ==
    LET c == Max(CaretAt(scene)) IN
    IF text.reveal /\ scene.caret
    THEN Max({-c, Min({Height - 2 - c, scene.top - at})})
    ELSE scene.top - at

Moved(at, offset) == {a + offset : a \in at}

-----------------------------------------------------------------------------
(* Frames that move, and frames that do not.                                *)

Shown(animated, caret) == presented' = [animated |-> animated, caret |-> caret]
Drawn(canvas) == pixels' = canvas /\ texture' = canvas

AnimatedFrame(scene, aimed, s) ==
    IF aimed.kind = "scroll"
    THEN \E offset \in {Offset(scene, ScrollFrom(s))} :
            LET strip == Moved(ActiveAt(scene), offset)
                caret == Moved(CaretAt(scene), offset)
            IN /\ Drawn(Composite(aimed.keys, scene.top - offset, strip, caret))
               /\ Shown(TRUE, caret)
    ELSE \E caret \in {IF motion.kind = "glide" THEN {s} ELSE {aimed.from}} :
            /\ Drawn(Composite({scene}, scene.top, caret, caret))
            /\ Shown(TRUE, caret)

\* Mutant: the highlight of the active row is no part of its cells.
SignatureWithoutHighlight(scene, r) == scene.cells[r]

\* visual_cells().
Signature(scene, r) == <<scene.cells[r], r \in scene.active>>

DirtyRows(scene) == {r \in Rows : Signature(last, r) # Signature(scene, r)}
Transformed(scene) == last.top % 2 # scene.top % 2
CaretRows(scene) == IF scene.caret THEN scene.active ELSE {}

\* SceneDamageTracker::update(): forced, or half of the cells, few of which may be in a
\* row that is dirty.
FullRepaint(scene) ==
    IF "resized" \in events THEN {TRUE}
    ELSE {FALSE} \cup (IF Transformed(scene) THEN {} ELSE {DirtyRows(scene) # {}})

\* damage_rects(): a row and its neighbours, here in their whole width.
RowDamage(scene) ==
    IF Transformed(scene) THEN Places
    ELSE LET dirty == DirtyRows(scene) IN
         {y \in Places : LET row == RowAt(scene, scene.top, y) IN dirty \cap ((row - 1)..(row + 1)) # {}}

\* And append_cursor_transition_damage(): carets that come or go.
CaretDamage(scene) ==
    LET old  == presented.caret
        new  == CaretAt(scene)
        rows == CaretRows(last) \cup CaretRows(scene)
    IN {y \in Places :
            \/ CaretRows(last) # CaretRows(scene) /\ RowAt(scene, scene.top, y) \in rows
            \/ old # new /\ Covers(old \cup new, y)}

Repainted(canvas, picture, rows, column) ==
    [y \in Places |-> [text   |-> (IF y \in rows THEN picture ELSE canvas)[y].text,
                       column |-> (IF y \in column THEN picture ELSE canvas)[y].column]]

\* render_grid_translation_damage() and translate_texture(): what is on the canvas moves
\* by a half line, and the rest is painted.
Translated(canvas, picture, shift) ==
    [y \in Places |-> IF y - shift \in Places THEN canvas[y - shift] ELSE picture[y]]

CanTranslate(scene) ==
    Transformed(scene) /\ DirtyRows(scene) = {} /\ CaretRows(last) = CaretRows(scene)

\* paint(): the texture gets the rectangles that were damaged; a scrolled one is copied
\* to the spare one, which is given up if that fails.
PaintDamage(scene) ==
    LET rows == RowDamage(scene)  column == rows \cup CaretDamage(scene) IN
    /\ pixels' = Repainted(pixels, Picture(scene), rows, column)
    /\ texture' = Repainted(texture, pixels', rows, column)
    /\ UNCHANGED spare

Translate(scene) ==
    LET shift == (last.top % 2) - (scene.top % 2) IN
    /\ pixels' = Translated(pixels, Picture(scene), shift)
    /\ \/ spare /\ texture' = Translated(texture, pixels', shift) /\ UNCHANGED spare
       \/ texture' = pixels' /\ spare' = FALSE

\* A new size takes new textures, of which the spare one may not be had.
StillFrame(scene) ==
    /\ Shown(FALSE, CaretAt(scene))
    /\ \/ /\ TRUE \in FullRepaint(scene)
          /\ Drawn(Picture(scene))
          /\ IF "resized" \in events THEN spare' \in BOOLEAN ELSE UNCHANGED spare
       \/ FALSE \in FullRepaint(scene) /\ PaintDamage(scene)
       \/ FALSE \in FullRepaint(scene) /\ CanTranslate(scene) /\ Translate(scene)

\* Mutant: did_present() lets go of nothing.
PresentedMotionStays(ended, aimed) == aimed

\* did_present().
PresentedMotion(ended, aimed) == IF ended THEN Still ELSE aimed

\* paint(): layout, composition, build(), drawing and did_present(). The run loop paints
\* after events and as long as something moves.
Paint(rest) ==
    /\ "repaint" \in events \/ motion # Still
    /\ rest => motion # Still
    /\ text' = [text EXCEPT !.top = Revealed(text)]
    /\ \E scene \in {Scene(text')}, s \in Samples(rest) : \E aimed \in {Aimed(scene, s)} :
        /\ IF aimed = Still THEN StillFrame(scene)
           ELSE AnimatedFrame(scene, aimed, s) /\ UNCHANGED spare
        /\ motion' = PresentedMotion(Ended(rest, aimed, scene), aimed)
        /\ last' = scene
    /\ events' = {}
    /\ UNCHANGED <<precise, changes>>

FramesNext ==
    \/ Type \/ MoveCaret \/ Restyle \/ Wheel \/ Resize
    \/ Paint(FALSE) \/ Paint(TRUE)

\* The run loop does not wait while something moves, and time goes on: unless events keep
\* coming, what moves is found at rest.
FramesSpec == FramesInit /\ [][FramesNext]_frameVars /\ WF_frameVars(Paint(motion # Still))

-----------------------------------------------------------------------------
(* Properties.                                                              *)

\* A frame that does not move and follows a buffer that was right leaves it right, and
\* so does one that ends an animation: damage, translation, keyframes and the held view
\* miss no pixel (scene_damage.cpp, skia_presenter.cpp, frame_controller.cpp). A glide is
\* left out where the wheel is direct, see the README.
FramesAreTrue ==
    [][ /\ events' = {}
        /\ \/ ~presented'.animated /\ pixels = Picture(last)
           \/ presented'.animated /\ motion' = Still /\ (precise => motion.kind = "scroll")
        => pixels' = Picture(last')
      ]_frameVars

\* Whatever the frame, the texture holds the buffer, the bands of its layers leave no gap
\* between them, and a caret that is to be seen is in the view (main.cpp translate_texture;
\* frame_controller.cpp animation_presentation; scroll_timeline.cpp).
CanvasIsWhole ==
    /\ texture = pixels
    /\ \A y \in Places : pixels[y].text # Gap
    /\ text.reveal /\ "repaint" \notin events =>
          \E c \in presented.caret : c \in Places /\ c + 1 \in Places

\* When nothing more happens, the animations end and the frame is of the text as it is.
ScreenSettles == <>[](motion = Still /\ last = Scene(text))
=============================================================================
