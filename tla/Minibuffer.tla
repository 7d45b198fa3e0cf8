------------------------------ MODULE Minibuffer ------------------------------
(***************************************************************************)
(* The interaction that waits for input (editor/interaction.cpp) and the   *)
(* policy that owns its history and its selection (scheme/cind/            *)
(* minibuffer.scm): what its input is, which candidates a provider has     *)
(* answered with, and the provider's task that may be under way.           *)
(*                                                                         *)
(* Candidates are named by the input they were asked for. All interactions *)
(* share one history. An edit always makes a revision of its own, so the   *)
(* revision by which the policy knows its replacement from an edit is not  *)
(* needed. A provider may answer at once, later, or fail: one that answers *)
(* inside its own start is one that answers at once.                       *)
(***************************************************************************)
EXTENDS Integers, Sequences, SequencesExt

NoCandidates == "none"      \* the list is empty

CONSTANTS
    Inputs,         \* texts
    NoInput,        \* the empty text
    Matches,        \* the values a provider has for each input
    HistoryLimit    \* entries the history policy keeps

ASSUME MinibufferAssumption ==
    /\ NoInput \in Inputs /\ NoCandidates \notin Inputs
    /\ Matches \in [Inputs -> Seq(Inputs)]
    /\ HistoryLimit \in Nat \ {0}

VARIABLES
    minibuffer,     \* the interaction, or Closed
    lookups,        \* the provider tasks that have not been answered
    generation,     \* next_generation_
    history         \* the values submitted, oldest first

prompt == <<minibuffer, lookups, generation, history>>

NotRecalled  == <<>>        \* no traversal of the history

Closed == [origin |-> <<>>, pending |-> 0]

\* start(). pending is the generation of the task that cancel_pending_task_ is for.
Opened(kind, custom, origin, surface) ==
    [kind |-> kind, custom |-> custom, origin |-> origin,
     window |-> surface.window, buffer |-> surface.buffer,
     input |-> NoInput, navigation |-> NotRecalled,
     candidates |-> NoCandidates, revision |-> 0, selection |-> <<0, 1>>,
     generation |-> 0, loading |-> FALSE, error |-> FALSE, pending |-> 0]

MinibufferInit ==
    minibuffer = Closed /\ lookups = {} /\ generation = 0 /\ history = <<>>

Values(m) == IF m.candidates = NoCandidates THEN <<>> ELSE Matches[m.candidates]

\* Mutant: a task that is no longer wanted is left alone.
NoneCancelled == lookups

\* cancel_pending().
Cancelled ==
    {[generation |-> l.generation, input |-> l.input,
      cancelled |-> l.cancelled \/ l.generation = minibuffer.pending] : l \in lookups}

-----------------------------------------------------------------------------
(* Candidates.                                                              *)

Published(m, input) == [m EXCEPT !.candidates = input, !.revision = @ + 1]

\* refresh(), of an interaction whose input may have changed: an interaction without
\* candidates asks nobody, and a provider that cannot be asked leaves those of before.
Refresh(m, askable) == \E g \in {generation + 1} :
    LET fresh == [m EXCEPT !.generation = g, !.loading = FALSE, !.error = FALSE, !.pending = 0] IN
    /\ generation' = g
    /\ \/ /\ m.kind = "text"
          /\ minibuffer' = Published(fresh, NoCandidates)
          /\ lookups' = Cancelled
       \/ /\ m.kind = "picker" /\ askable
          /\ minibuffer' = Published(fresh, m.input)
          /\ lookups' = Cancelled
       \/ /\ m.kind = "picker" /\ askable
          /\ minibuffer' = [fresh EXCEPT !.loading = TRUE, !.pending = g]
          /\ lookups' = Cancelled \cup {[generation |-> g, input |-> m.input, cancelled |-> FALSE]}
       \/ /\ m.kind = "picker"
          /\ minibuffer' = [fresh EXCEPT !.error = TRUE]
          /\ lookups' = Cancelled
    /\ UNCHANGED history

\* Mutant: whatever comes while an interaction is open is for it.
IsForAnyone(l) == minibuffer # Closed

\* apply_candidates() and the other ends go by the generation.
IsForMinibuffer(l) == minibuffer # Closed /\ minibuffer.generation = l.generation

\* What an answer leaves: one that is too late leaves everything.
Answer(l, settled) ==
    /\ minibuffer' = IF IsForMinibuffer(l) THEN settled ELSE minibuffer
    /\ lookups' = lookups \ {l}
    /\ UNCHANGED <<generation, history>>

Settled == [minibuffer EXCEPT !.loading = FALSE, !.pending = 0]

CandidatesArrive == \E l \in lookups :
    Answer(l, IF minibuffer = Closed THEN Closed
              ELSE [Published(Settled, l.input) EXCEPT !.error = FALSE])

LookupFails == \E l \in lookups :
    Answer(l, IF minibuffer = Closed THEN Closed ELSE [Settled EXCEPT !.error = TRUE])

\* Only tasks that were asked to stop end like this.
LookupCancelled == \E l \in lookups :
    l.cancelled /\ Answer(l, IF minibuffer = Closed THEN Closed ELSE Settled)

Settle == CandidatesArrive \/ LookupFails \/ LookupCancelled

-----------------------------------------------------------------------------
(* Input.                                                                   *)

\* An edit ends the traversal of the history, and the observer of edits refreshes.
TypeInto(m, text, askable) ==
    Refresh([m EXCEPT !.input = text, !.navigation = NotRecalled], askable)

\* move-minibuffer-history!: the input is replaced, and nothing else is told.
Recall(m, text, index, draft) == [m EXCEPT !.input = text, !.navigation = <<index, draft>>]

Index(m) == IF m.navigation = NotRecalled THEN 0 ELSE m.navigation[1]
Draft(m) == IF m.navigation = NotRecalled THEN NoInput ELSE m.navigation[2]

RecallOlder(m) ==
    LET target == IF Index(m) # 0 THEN Index(m) - 1 ELSE Len(history) IN
    /\ target > 0
    /\ minibuffer' = Recall(m, history[target], target, IF Index(m) # 0 THEN Draft(m) ELSE m.input)

RecallNewer(m) ==
    /\ Index(m) # 0
    /\ minibuffer' = IF Index(m) < Len(history)
                     THEN Recall(m, history[Index(m) + 1], Index(m) + 1, Draft(m))
                     ELSE Recall(m, Draft(m), 0, Draft(m))

MoveHistory(m) ==
    /\ RecallOlder(m) \/ RecallNewer(m)
    /\ UNCHANGED <<lookups, generation, history>>

\* interaction-selection-for: a selection is one of the candidates it was made among.
Selected(m) ==
    IF m.selection[1] = m.revision /\ m.selection[2] <= Len(Values(m)) THEN m.selection[2] ELSE 1

\* move-minibuffer-candidate!.
MoveCandidate(m) == \E delta \in {-1, 1} :
    /\ m.kind = "picker" /\ Values(m) # <<>>
    /\ minibuffer' = [m EXCEPT !.selection =
                          <<m.revision, ((Selected(m) - 1 + delta) % Len(Values(m))) + 1>>]
    /\ UNCHANGED <<lookups, generation, history>>

-----------------------------------------------------------------------------
(* Submission.                                                              *)

Offers(m) == m.kind = "picker" /\ ~m.loading /\ Values(m) # <<>>

\* submit() takes the selected candidate, or the input where that is allowed.
Submittable(m) == Offers(m) \/ m.kind = "text" \/ m.custom

Value(m) == IF Offers(m) THEN Values(m)[Selected(m)] ELSE m.input

\* record-minibuffer-history! with make-bounded-history-policy.
Recorded(value) ==
    IF value = NoInput \/ (history # <<>> /\ Last(history) = value) THEN history
    ELSE LET all == Append(history, value) IN
         SubSeq(all, IF Len(all) > HistoryLimit THEN Len(all) - HistoryLimit + 1 ELSE 1, Len(all))

Submit ==
    /\ Submittable(minibuffer)
    /\ history' = Recorded(Value(minibuffer))
    /\ minibuffer' = Closed /\ lookups' = Cancelled
    /\ UNCHANGED generation

RefuseSubmission ==
    /\ ~Submittable(minibuffer)
    /\ minibuffer' = [minibuffer EXCEPT !.error = TRUE]
    /\ UNCHANGED <<lookups, generation, history>>

\* cancel().
Dismiss ==
    /\ minibuffer' = Closed /\ lookups' = Cancelled
    /\ UNCHANGED <<generation, history>>

=============================================================================
