-------------------------- MODULE DocumentHistory ---------------------------
(***************************************************************************)
(* What a Document promises about its history, with no edit list in sight: *)
(* a tree of texts that only grows, a position in it, and a revision that  *)
(* names the current text. An edit adds a leaf below the position; undo,   *)
(* redo and jumps go to a node and bring back exactly the text it had.     *)
(***************************************************************************)
EXTENDS Naturals, Sequences

CONSTANT Initial   \* the text the document was made with

VARIABLES text, revision,
          history,    \* the nodes in the order they were made: [text, parent]
          position    \* the node whose text is current

historyVars == <<text, revision, history, position>>

Init == /\ text = Initial
        /\ revision = 0
        /\ history = <<[text |-> Initial, parent |-> 0]>>
        /\ position = 1

Edit == /\ history' = Append(history, [text |-> text', parent |-> position])
        /\ position' = Len(history')
        /\ revision' = revision + 1

Move == /\ position' \in DOMAIN history \ {position}
        /\ text' = history[position'].text
        /\ revision' = revision + 1
        /\ UNCHANGED history

Spec == Init /\ [][Edit \/ Move]_historyVars
=============================================================================
