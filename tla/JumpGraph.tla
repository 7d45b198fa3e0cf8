------------------------------ MODULE JumpGraph ------------------------------
(***************************************************************************)
(* The jump graph of a workbench (editor/jump.cpp) and the walks its       *)
(* windows take through it (scheme/cind/workbench.scm), as operators on    *)
(* values. A node is a place: a line, kept by an anchor while its buffer   *)
(* is open and as a number in any case. order has the nodes as they were   *)
(* last visited, oldest first, for the ticks of the clock. Columns,        *)
(* excerpts and the kinds of edges are left out.                           *)
(***************************************************************************)
EXTENDS Integers, FiniteSets, Sequences, SequencesExt, Functions, Registry

CONSTANT NoResource     \* of a buffer that visits no file

\* A place in a file or buffer: a jump node, or an item of a location list.
Place(buffer, resource, anchor, line) ==
    [buffer |-> buffer, resource |-> resource, anchor |-> anchor, line |-> line]

Attached(place)           == place.buffer # NoHandle
Detached(place)           == [place EXCEPT !.buffer = NoHandle, !.anchor = 0]
Attach(place, b, anchor, line) == [place EXCEPT !.buffer = b, !.anchor = anchor, !.line = line]

\* A sequence without some of its elements, as it is left when they are erased.
Without(s, gone) ==
    LET kept[i \in 0..Len(s)] ==
            IF i = 0 THEN <<>>
            ELSE IF s[i] \in gone THEN kept[i - 1] ELSE Append(kept[i - 1], s[i])
    IN kept[Len(s)]

EmptyGraph == [nodes |-> <<>>, order |-> <<>>, edges |-> {}, last |-> 0]

\* touch().
Touch(g, n) == [g EXCEPT !.order = Append(Without(@, {n}), n)]

\* same_location(): the line is the one remembered, not the anchor's.
SameLocation(node, place) ==
    /\ node.line = place.line
    /\ \/ Attached(node) /\ node.buffer = place.buffer
       \/ node.resource # NoResource /\ node.resource = place.resource

Alike(g, place) == {n \in DOMAIN g.nodes : SameLocation(g.nodes[n], place)}

\* The node intern() answers with: the first at this location, or a new one.
InternedAs(g, place) ==
    IF Alike(g, place) = {} THEN g.last + 1
    ELSE CHOOSE n \in Alike(g, place) : \A m \in Alike(g, place) : n <= m

\* Whether that node takes the place as its own, with its anchor.
Retains(g, place) ==
    LET n == InternedAs(g, place) IN n \in DOMAIN g.nodes => ~Attached(g.nodes[n])

\* intern().
Intern(g, place) ==
    LET n == InternedAs(g, place) IN
    Touch([g EXCEPT !.nodes = IF Retains(g, place)
                              THEN [m \in DOMAIN @ \cup {n} |-> IF m = n THEN place ELSE @[m]]
                              ELSE @,
                    !.last = IF n > @ THEN n ELSE @], n)

\* link(): an edge is added, or becomes persistent.
Link(g, from, to, persistent) ==
    IF ~({from, to} \subseteq DOMAIN g.nodes) THEN g
    ELSE LET lasting == persistent \/ [from |-> from, to |-> to, persistent |-> TRUE] \in g.edges
         IN [g EXCEPT !.edges =
                 {edge \in @ : edge.from # from \/ edge.to # to}
                 \cup {[from |-> from, to |-> to, persistent |-> lasting]}]

\* evict(): those that must go, the longest unvisited first, sparing the ends of
\* persistent edges.
Protected(g) == UNION {{edge.from, edge.to} : edge \in {f \in g.edges : f.persistent}}

Evicted(g, limit) ==
    LET candidates == Without(g.order, Protected(g))
        excess == Cardinality(DOMAIN g.nodes) - limit
        count  == IF excess < Len(candidates) THEN excess ELSE Len(candidates)
    IN IF excess <= 0 THEN {} ELSE {candidates[i] : i \in 1..count}

Evict(g, limit) ==
    LET removed == Evicted(g, limit) IN
    [g EXCEPT !.nodes = Restrict(@, DOMAIN @ \ removed),
              !.order = Without(@, removed),
              !.edges = {edge \in @ : {edge.from, edge.to} \cap removed = {}}]

-----------------------------------------------------------------------------
(* Walks. The cursor is 0 where the source has #f. lost has the nodes that  *)
(* had been evicted when the walk recorded them: the code keeps no such set, *)
(* and only properties read it.                                            *)

NoWalk == [entries |-> <<>>, cursor |-> 0, lost |-> {}]

\* workbench-jump-record!.
Record(walk, n) ==
    IF walk.entries # <<>> /\ Last(walk.entries) = n /\ walk.cursor = Len(walk.entries)
    THEN walk
    ELSE [walk EXCEPT !.entries = Append(@, n), !.cursor = Len(walk.entries) + 1]

\* Mutant: the cursor stays at its index.
WalkWithoutMoving(walk, removed) ==
    LET after == Without(walk.entries, removed) IN
    [walk EXCEPT !.entries = after, !.cursor = IF after = <<>> THEN 0 ELSE @]

\* jump-walk-without: the cursor stays with its entry, or with the one before it.
WalkWithout(walk, removed) ==
    LET before == Len(Without(SubSeq(walk.entries, 1, walk.cursor), removed))
        after  == Without(walk.entries, removed)
    IN [walk EXCEPT !.entries = after,
                    !.cursor = IF after = <<>> THEN 0 ELSE IF before = 0 THEN 1 ELSE before]

\* workbench-jump-move!, where it moves.
CanMove(walk, delta) == walk.cursor # 0 /\ walk.cursor + delta \in 1..Len(walk.entries)

=============================================================================
