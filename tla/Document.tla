------------------------------ MODULE Document ------------------------------
(***************************************************************************)
(* A Document and its transaction (document/document.cpp): the text, the   *)
(* list of pending edits kept normalized against the base revision, the    *)
(* anchors that follow every edit, the undo tree whose nodes hold edit     *)
(* lists in both directions, and the editable boundary.                    *)
(*                                                                         *)
(* Offsets count from 0 as in the code; undo nodes count from 1, so the    *)
(* code's node 0, the root, is node 1 here and has the parent 0. A call    *)
(* that throws leaves the document as it was and is no action.             *)
(***************************************************************************)
EXTENDS Integers, Sequences, FiniteSetsExt, SequencesExt

CONSTANTS
    Initial,       \* the text the document is made with
    Snippets,      \* the texts that edits put in
    MaxLength,     \* bound: bytes of text
    MaxAnchors,    \* bound: anchors made, the boundary's included
    MaxRevision,   \* bound: committed changes
    MaxCalls       \* bound: edits and anchor operations of the client

Bytes == UNION {Range(t) : t \in Snippets \cup {Initial}}
Text  == Seq(Bytes)

ASSUME DocumentAssumption ==
    /\ {MaxLength, MaxAnchors, MaxRevision, MaxCalls} \subseteq Nat
    /\ Snippets \cup {Initial} \subseteq Text
    /\ Len(Initial) <= MaxLength

VARIABLES
    text, revision,
    anchors,       \* the anchors, by id
    nextAnchor,
    boundary,      \* the anchor where the editable part begins, or 0
    nodes,         \* the undo tree, in order of creation
    current,       \* the node of the current text
    tx,            \* the client's transaction
    calls          \* client calls so far (a bound, not in the code)

treeVars == <<nodes, current>>
textVars == <<text, revision>>
vars == <<textVars, treeVars, anchors, nextAnchor, boundary, tx, calls>>

History == INSTANCE DocumentHistory WITH
    history  <- [n \in DOMAIN nodes |-> [text |-> nodes[n].text, parent |-> nodes[n].parent]],
    position <- current

AnchorId == 1..MaxAnchors
Affinity == {"BeforeInsertion", "AfterInsertion"}
Dead     == [offset |-> 0, affinity |-> "none"]      \* no such anchor
Live(as) == {a \in AnchorId : as[a] # Dead}

\* A transaction: the text as edited so far, how it differs from the base
\* revision, and the anchors as of now. "refused" marks one that has thrown.
Closed == [active |-> FALSE, refused |-> FALSE, text |-> <<>>, edits |-> <<>>,
           anchors |-> [a \in AnchorId |-> Dead]]
Opened == [active |-> TRUE, refused |-> FALSE, text |-> text, edits |-> <<>>,
           anchors |-> anchors]

Init ==
    /\ text = Initial /\ revision = 0
    /\ anchors = [a \in AnchorId |-> Dead] /\ nextAnchor = 1 /\ boundary = 0
    /\ nodes = <<[text |-> Initial, forward |-> <<>>, inverse |-> <<>>, parent |-> 0]>>
    /\ current = 1
    /\ tx = Closed /\ calls = 0

-----------------------------------------------------------------------------
(* Edits: [start, end, new] replaces the bytes start..end-1.               *)

Edit(s, e, new) == [start |-> s, end |-> e, new |-> new]
Slice(t, s, e)  == SubSeq(t, s + 1, e)
Replace(t, s, e, new) == Slice(t, 0, s) \o new \o Slice(t, e, Len(t))
Growth(edit)    == Len(edit.new) - (edit.end - edit.start)

\* How far the first i edits move the text behind them, and the i-th is moved by
\* those before it.
Shifts(edits) ==
    LET shift[i \in 0..Len(edits)] == IF i = 0 THEN 0 ELSE shift[i - 1] + Growth(edits[i])
    IN shift
Delta(edits, i) == Shifts(edits)[i - 1]
PendingStart(edits, i) == edits[i].start + Delta(edits, i)
PendingEnd(edits, i)   == PendingStart(edits, i) + Len(edits[i].new)

\* Mutant: an anchor inside the range stays where it was.
SettledInPlace(anchor, s, e, n) ==
    LET o == anchor.offset IN
    [anchor EXCEPT !.offset =
        IF o < e \/ (o = e /\ s = e /\ anchor.affinity = "BeforeInsertion")
        THEN o ELSE o - (e - s) + n]

\* Where an anchor settles when s..e-1 gives way to n bytes.
Settled(anchor, s, e, n) ==
    LET o == anchor.offset
        moved == CASE o < s \/ (o = s /\ e > s) -> o
                   [] o > s /\ o >= e -> o - (e - s) + n
                   [] o > s /\ o < e -> s + n
                   [] o = s /\ e = s -> IF anchor.affinity = "AfterInsertion" THEN o + n ELSE o
    IN [anchor EXCEPT !.offset = moved]

\* Mutant: the end of a merged edit is off by the growth of the last one merged.
BaseEndBeforeLast(edits, last, to) ==
    IF to > PendingEnd(edits, last) THEN to - Delta(edits, last) ELSE edits[last].end

\* Where a merged edit ends in base coordinates, and where it starts.
BaseEnd(edits, last, to) ==
    IF to > PendingEnd(edits, last) THEN to - Delta(edits, last + 1) ELSE edits[last].end
BaseStart(edits, first, from) ==
    IF from < PendingStart(edits, first) THEN from - Delta(edits, first) ELSE edits[first].start

\* Folds an edit in pending coordinates into a list in base coordinates: edits
\* it overlaps or touches become one with it.
Fold(t, edits, s, e, new) ==
    LET touched == {i \in DOMAIN edits : PendingEnd(edits, i) >= s
                                         /\ PendingStart(edits, i) <= e}
        later   == {i \in DOMAIN edits : PendingStart(edits, i) > e}
    IN IF touched = {}
       THEN LET at == IF later = {} THEN Len(edits) + 1 ELSE Min(later)
                d  == Delta(edits, at)
            IN SubSeq(edits, 1, at - 1) \o <<Edit(s - d, e - d, new)>>
               \o SubSeq(edits, at, Len(edits))
       ELSE LET first == Min(touched)
                last  == Max(touched)
                from  == Min({s, PendingStart(edits, first)})
                to    == Max({e, PendingEnd(edits, last)})
            IN SubSeq(edits, 1, first - 1)
               \o <<Edit(BaseStart(edits, first, from), BaseEnd(edits, last, to),
                         Slice(t, from, s) \o new \o Slice(t, e, to))>>
               \o SubSeq(edits, last + 1, Len(edits))

\* The range must lie in the text, and begin behind the editable boundary.
Allowed(p, s, e) == /\ s <= e /\ e <= Len(p.text)
                    /\ boundary # 0 => s >= p.anchors[boundary].offset

\* replace(), insert() and erase() on a transaction that takes the edit.
Apply(p, s, e, new) ==
    LET follow(a) == IF p.anchors[a] = Dead THEN Dead ELSE Settled(p.anchors[a], s, e, Len(new))
    IN [p EXCEPT !.text    = Replace(p.text, s, e, new),
                 !.edits   = Fold(p.text, p.edits, s, e, new),
                 !.anchors = [a \in AnchorId |-> follow(a)]]

\* Mutant: the inverse edits keep the coordinates of the base revision.
InverseInBase(t, edits) ==
    [i \in DOMAIN edits |->
        Edit(edits[i].start, edits[i].start + Len(edits[i].new),
             Slice(t, edits[i].start, edits[i].end))]

\* What leads back from the committed text.
InverseEdits(t, edits) ==
    [i \in DOMAIN edits |->
        Edit(PendingStart(edits, i), PendingEnd(edits, i),
             Slice(t, edits[i].start, edits[i].end))]

-----------------------------------------------------------------------------
(* Transactions of the client.                                             *)

Count == calls < MaxCalls /\ calls' = calls + 1

Begin == /\ ~tx.active /\ revision < MaxRevision
         /\ tx' = Opened
         /\ UNCHANGED <<textVars, treeVars, anchors, nextAnchor, boundary, calls>>

ReplaceText == \E s, e \in 0..Len(tx.text), new \in Snippets :
    /\ tx.active /\ Count
    /\ Allowed(tx, s, e)
    /\ Len(tx.text) + Len(new) - (e - s) <= MaxLength
    /\ tx' = Apply(tx, s, e, new)
    /\ UNCHANGED <<textVars, treeVars, anchors, nextAnchor, boundary>>

Abort == /\ tx.active
         /\ tx' = Closed
         /\ UNCHANGED <<textVars, treeVars, anchors, nextAnchor, boundary, calls>>

\* The text, revision and anchors a transaction leaves behind.
Publish(p) == /\ text' = p.text
              /\ revision' = revision + 1
              /\ anchors' = p.anchors

\* Mutant: a commit after an undo drops the branch that was undone.
CommitDropsBranch ==
    /\ tx.active
    /\ IF tx.edits = <<>>
       THEN UNCHANGED <<textVars, treeVars, anchors>>
       ELSE /\ Publish(tx)
            /\ nodes' = Append(SubSeq(nodes, 1, current),
                              [text |-> tx.text, forward |-> tx.edits,
                               inverse |-> InverseEdits(text, tx.edits),
                               parent |-> current])
            /\ current' = Len(nodes')
    /\ tx' = Closed
    /\ UNCHANGED <<nextAnchor, boundary, calls>>

\* A commit of nothing is no change; in particular its affinities are dropped.
Commit ==
    /\ tx.active
    /\ IF tx.edits = <<>>
       THEN UNCHANGED <<textVars, treeVars, anchors>>
       ELSE /\ Publish(tx)
            /\ nodes' = Append(nodes, [text |-> tx.text, forward |-> tx.edits,
                                       inverse |-> InverseEdits(text, tx.edits),
                                       parent |-> current])
            /\ current' = Len(nodes')
    /\ tx' = Closed
    /\ UNCHANGED <<nextAnchor, boundary, calls>>

-----------------------------------------------------------------------------
(* Undo, redo and jumps: edit lists replayed back to front in one          *)
(* transaction that records no node.                                       *)

\* Mutant: replayed edits are not checked against the boundary.
TakeUnchecked(p, edit) == Apply(p, edit.start, edit.end, edit.new)

\* The first edit that is refused ends the replay.
Take(p, edit) ==
    IF p.refused \/ ~Allowed(p, edit.start, edit.end)
    THEN [p EXCEPT !.refused = TRUE]
    ELSE Apply(p, edit.start, edit.end, edit.new)

\* Back to front, so that no edit moves the ones still to come.
TakeAll(p, edits) ==
    LET after[i \in 0..Len(edits)] ==
          IF i = 0 THEN p ELSE Take(after[i - 1], edits[Len(edits) + 1 - i])
    IN after[Len(edits)]

Replay(lists) ==
    LET after[i \in 0..Len(lists)] ==
          IF i = 0 THEN Opened ELSE TakeAll(after[i - 1], lists[i])
    IN after[Len(lists)]

\* The node, its parent and so on, and 0 above the root.
Parent(n) == IF n = 0 THEN 0 ELSE nodes[n].parent
Chain(n)  == LET up[i \in 0..Len(nodes)] == IF i = 0 THEN n ELSE Parent(up[i - 1]) IN up

\* The inverse lists on the way up to where the two chains meet, then the forward
\* lists on the way down.
PathTo(n) ==
    LET here  == Chain(current)
        there == Chain(n)
        up    == Min({i \in DOMAIN here : here[i] \in Range(there)})
        down  == Min({i \in DOMAIN there : there[i] = here[up]})
    IN [i \in 1..up |-> nodes[here[i - 1]].inverse]
       \o [i \in 1..down |-> nodes[there[down - i]].forward]

MoveTo(n, lists) ==
    LET p == Replay(lists) IN
    /\ ~tx.active /\ revision < MaxRevision
    /\ ~p.refused
    /\ IF p.edits = <<>> THEN UNCHANGED <<textVars, anchors>> ELSE Publish(p)
    /\ current' = n
    /\ UNCHANGED <<nodes, nextAnchor, boundary, tx, calls>>

Undo == current # 1 /\ MoveTo(nodes[current].parent, <<nodes[current].inverse>>)

Redo == LET children == {n \in DOMAIN nodes : nodes[n].parent = current} IN
        children # {} /\ MoveTo(Max(children), <<nodes[Max(children)].forward>>)

UndoTo(n) == MoveTo(n, PathTo(n))

-----------------------------------------------------------------------------
(* Anchors and the editable boundary.                                      *)

CreateAnchor(offset, affinity) ==
    /\ ~tx.active /\ Count /\ nextAnchor <= MaxAnchors
    /\ anchors' = [anchors EXCEPT ![nextAnchor] = [offset |-> offset, affinity |-> affinity]]
    /\ nextAnchor' = nextAnchor + 1
    /\ UNCHANGED <<textVars, treeVars, boundary, tx>>

\* The boundary's own id is handed to no client.
RemoveAnchor(a) ==
    /\ ~tx.active /\ Count
    /\ a \in Live(anchors) \ {boundary}
    /\ anchors' = [anchors EXCEPT ![a] = Dead]
    /\ UNCHANGED <<textVars, treeVars, nextAnchor, boundary, tx>>

\* Document::set_anchor_affinity, or the transaction's while one is active.
SetAffinity(a, affinity) ==
    /\ Count /\ a # boundary
    /\ IF tx.active
       THEN /\ a \in Live(tx.anchors)
            /\ tx' = [tx EXCEPT !.anchors[a].affinity = affinity]
            /\ UNCHANGED anchors
       ELSE /\ a \in Live(anchors)
            /\ anchors' = [anchors EXCEPT ![a].affinity = affinity]
            /\ UNCHANGED tx
    /\ UNCHANGED <<textVars, treeVars, nextAnchor, boundary>>

SetEditableStart(offset) ==
    /\ ~tx.active /\ Count /\ nextAnchor <= MaxAnchors
    /\ anchors' = [a \in AnchorId |->
           CASE a = boundary -> Dead
             [] a = nextAnchor -> [offset |-> offset, affinity |-> "BeforeInsertion"]
             [] OTHER -> anchors[a]]
    /\ boundary' = nextAnchor
    /\ nextAnchor' = nextAnchor + 1
    /\ UNCHANGED <<textVars, treeVars, tx>>

ClearEditableStart ==
    /\ ~tx.active /\ Count /\ boundary # 0
    /\ anchors' = [anchors EXCEPT ![boundary] = Dead]
    /\ boundary' = 0
    /\ UNCHANGED <<textVars, treeVars, nextAnchor, tx>>

-----------------------------------------------------------------------------
Next ==
    \/ Begin \/ ReplaceText \/ Commit \/ Abort
    \/ Undo \/ Redo \/ \E n \in DOMAIN nodes : UndoTo(n)
    \/ \E o \in 0..Len(text) : \/ \E f \in Affinity : CreateAnchor(o, f)
                               \/ SetEditableStart(o)
    \/ \E a \in AnchorId : RemoveAnchor(a) \/ \E f \in Affinity : SetAffinity(a, f)
    \/ ClearEditableStart

Spec == Init /\ [][Next]_vars

-----------------------------------------------------------------------------
(* Properties.                                                             *)

Edits == Seq([start : Nat, end : Nat, new : Text])
AnchorsIn(t) == [AnchorId -> [offset : 0..Len(t), affinity : Affinity] \cup {Dead}]

TypeOK ==
    /\ text \in Text /\ revision \in 0..MaxRevision
    /\ anchors \in AnchorsIn(text) /\ nextAnchor \in 1..(MaxAnchors + 1)
    /\ boundary = 0 \/ boundary \in Live(anchors)
    /\ nodes \in Seq([text : Text, forward : Edits, inverse : Edits, parent : Nat])
    /\ current \in DOMAIN nodes
    /\ tx.active => tx.text \in Text /\ tx.edits \in Edits /\ tx.anchors \in AnchorsIn(tx.text)

\* The text that results when a normalized list is read in base coordinates,
\* piece by piece from the left.
ReadFrom(edits, i) == IF i = 1 THEN 0 ELSE edits[i - 1].end
Pieced(base, edits) ==
    LET upTo[i \in 0..Len(edits)] ==
          IF i = 0 THEN <<>>
          ELSE upTo[i - 1] \o Slice(base, ReadFrom(edits, i), edits[i].start) \o edits[i].new
    IN upTo
Explained(base, edits) ==
    Pieced(base, edits)[Len(edits)] \o Slice(base, ReadFrom(edits, Len(edits) + 1), Len(base))

\* "normalized (old-revision coordinates, ascending, non-overlapping)"
\* (document.hpp): however the client's edits overlap and touch, the pending list
\* stays in base coordinates, each edit strictly behind the last, and explains
\* the pending text; syntax trees and LSP servers are updated from it alone.
PendingEditsExplainText ==
    tx.active =>
        /\ \A i \in DOMAIN tx.edits :
              /\ tx.edits[i].start <= tx.edits[i].end /\ tx.edits[i].end <= Len(text)
              /\ i > 1 => tx.edits[i - 1].end < tx.edits[i].start
        /\ Explained(text, tx.edits) = tx.text

\* From wherever the document is, the edit lists on the path to any node lead to
\* exactly that node's text and to a list that explains the jump; without a
\* boundary no jump is ever refused.
EveryNodeIsReachable ==
    ~tx.active => \A n \in DOMAIN nodes : LET p == Replay(PathTo(n)) IN
        /\ boundary = 0 => ~p.refused
        /\ ~p.refused => p.text = nodes[n].text /\ Explained(text, p.edits) = p.text

Boundary == anchors[boundary].offset

\* "text before the editable boundary is read-only" (the code's own message):
\* while a boundary stands, neither edits nor undo, redo and jumps through
\* changes made before it was set move it or touch the text before it.
ReadOnlyPrefix ==
    [][boundary # 0 /\ boundary' = boundary =>
        /\ Boundary' = Boundary
        /\ Slice(text', 0, Boundary) = Slice(text, 0, Boundary)]_vars

ShownAnchors == IF tx.active THEN tx.anchors ELSE anchors

\* Two anchors of one affinity never change sides, as those of a selection or of
\* a link must not, through edits, commits, undo and jumps; an abort goes back to
\* what was before.
AnchorsNeverCross ==
    [][Abort \/ \A a, b \in AnchorId :
        LET before == ShownAnchors
            after  == ShownAnchors' IN
        /\ before[a] # Dead /\ before[b] # Dead /\ after[a] # Dead /\ after[b] # Dead
        /\ before[a].affinity = before[b].affinity /\ before[a].offset <= before[b].offset
        => after[a].offset <= after[b].offset]_vars

\* The document keeps the history it promises: every change is a new revision and
\* every move brings back the very text its node had.
Implements == History!Spec
=============================================================================
