------------------------------- MODULE MCEditor -------------------------------
EXTENDS Editor

\* Files are interchangeable.
Files == Permutations(Resources)

\* Each scope gives its steps to some commands and none to the others.
Budget(some) ==
    some @@ [kind \in {"opens", "searches", "kills", "displays", "edits", "moves", "splits",
                       "deletes", "workbenches", "links", "walks", "asks", "picks", "types",
                       "saves"} |-> 0]

Scopes == {
    Budget([opens |-> 1, walks |-> 2, kills |-> 1, edits |-> 1, moves |-> 1]),
    Budget([opens |-> 1, displays |-> 1, walks |-> 1, links |-> 2, moves |-> 1]),
    Budget([opens |-> 1, searches |-> 1, kills |-> 1, deletes |-> 1]),
    Budget([opens |-> 1, workbenches |-> 1, kills |-> 1, deletes |-> 2, moves |-> 1]),
    Budget([splits |-> 1, workbenches |-> 1, kills |-> 1, deletes |-> 2, moves |-> 1]),
    Budget([searches |-> 1, workbenches |-> 1, kills |-> 1, deletes |-> 1]),
    Budget([opens |-> 1, asks |-> 2, splits |-> 1, deletes |-> 1]),
    Budget([picks |-> 1, types |-> 3]),
    Budget([picks |-> 2, types |-> 2, kills |-> 1]),
    Budget([saves |-> 2, edits |-> 2, kills |-> 1]),
    Budget([saves |-> 2, opens |-> 1, edits |-> 1]),
    Budget([opens |-> 1, kills |-> 1, links |-> 2, saves |-> 1, walks |-> 1])}

\* What a provider has for each input, one without a match among them.
Completions == "" :> <<"x", "y">> @@ "x" :> <<"x">> @@ "y" :> <<>>

Recalls == {Budget([picks |-> 2, types |-> 2, displays |-> 1])}

Interactions == {Budget([asks |-> 1, opens |-> 1])}
=============================================================================
