------------------------------ MODULE Completion ------------------------------
(***************************************************************************)
(* The completion pipeline (editor/completion.cpp) with the policy that    *)
(* closes automatic sessions (scheme/cind/completion.scm) and the dispatch *)
(* of its requests (editor_application.cpp): one session at a time, whose  *)
(* generation every edit advances; providers that answer for a generation; *)
(* items resolved on demand, and an acceptance that waits for its resolve. *)
(*                                                                         *)
(* A provider has at most one item, named by the generation it came with.  *)
(* A query is its length, and an item matches the queries it reaches: what *)
(* matches a query matches its prefixes. Buffer, view and window stay      *)
(* alive; to leave them is to leave the query. Error texts are left out.   *)
(***************************************************************************)
EXTENDS Integers, FiniteSets

CONSTANTS
    Providers,
    Servers,         \* those that answer from an LspSession; the others are Scheme
                     \* procedures and answer in the call or from a task
    Wide,            \* providers whose ranges go one byte beyond the caret
    Lazy,            \* providers whose items are to be resolved
    MaxQuery,        \* bound: length of a query
    MaxRevision,     \* bound: edits of the buffer
    MaxGeneration    \* bound: generations

ASSUME CompletionAssumption ==
    /\ Servers \cup Wide \cup Lazy \subseteq Providers
    /\ {MaxQuery, MaxRevision, MaxGeneration} \subseteq Nat

VARIABLES
    revision,        \* of the buffer
    caret,           \* of the view, counted from the anchor; 0 without a session
    generation,      \* next_generation_
    session,         \* the request of state_, or None
    sources,         \* its providers
    requests,        \* what providers are working on
    queued           \* pending_apply_, or None

vars == <<revision, caret, generation, session, sources, requests, queued>>

None == [generation |-> 0]      \* no session, no item, no acceptance
Blank == [item |-> None, pending |-> FALSE, incomplete |-> FALSE]

Init ==
    /\ revision = 0 /\ caret = 0 /\ generation = 0
    /\ session = None /\ sources = [p \in Providers |-> Blank]
    /\ requests = {} /\ queued = None

-----------------------------------------------------------------------------
(* Items, matches and requests.                                            *)

EndFor(p, query) == IF p \in Wide THEN query + 1 ELSE query

\* What a provider may answer, and what its answer to a request makes of its source.
\* A reach of 0 is no item.
Responses == [reach : 0..MaxQuery, more : BOOLEAN]

Item(p, reach, r) ==
    [generation |-> r.generation, reach |-> reach, end |-> EndFor(p, r.query),
     resolved |-> p \notin Lazy, resolving |-> FALSE, refused |-> FALSE]

Answered(p, response, r) ==
    [item |-> IF response.reach = 0 THEN None ELSE Item(p, response.reach, r),
     pending |-> FALSE, incomplete |-> response.more]

Matches(src, query) == {p \in Providers : src[p].item # None /\ query <= src[p].item.reach}

Request(p, item, s) == [item |-> item, provider |-> p, generation |-> s.generation,
                        query |-> s.query, stopped |-> FALSE]
Ask(p, s)     == Request(p, 0, s)
Resolve(p, s) == Request(p, sources[p].item.generation, s)

\* cancel_pending(): a session forgets a request at once, a task may still answer.
Withdrawn(reqs) == {[r EXCEPT !.stopped = TRUE] : r \in {q \in reqs : q.provider \notin Servers}}

\* The session is over: cancel(), and every path that ends in it.
End(reqs) ==
    /\ session' = None /\ caret' = 0
    /\ sources' = [p \in Providers |-> Blank]
    /\ requests' = Withdrawn(reqs)
    /\ queued' = None

\* The policy ends an automatic session with nothing to show and nobody to wait for.
Hopeless(s, src) ==
    s.automatic /\ Matches(src, s.query) = {} /\ \A p \in Providers : ~src[p].pending

\* notify_changed() for session s, with its sources, and the acceptance that waits.
Changed(s, src, reqs, waiting) ==
    IF Hopeless(s, src)
    THEN End(reqs)
    ELSE /\ session' = s /\ caret' = s.query
         /\ sources' = src
         /\ requests' = reqs
         /\ queued' = waiting

\* request_provider() for each of those asked, before anyone is told: some fail, some
\* answer within the call, the others have taken the request.
Dispatch(s, src, asked, reqs) ==
    \E failing \in SUBSET asked : \E answering \in SUBSET (asked \ (failing \cup Servers)) :
    \E response \in [answering -> Responses] :
        LET taking == asked \ (failing \cup answering)
            source(p) == IF p \in answering THEN Answered(p, response[p], s)
                         ELSE [src[p] EXCEPT !.pending = p \in taking]
        IN Changed(s, [p \in Providers |-> IF p \in asked THEN source(p) ELSE src[p]],
                   reqs \cup {Ask(p, s) : p \in taking}, None)

-----------------------------------------------------------------------------
(* The session: start(), update(), cancel() and invalidate_if_stale().      *)

Advance == generation < MaxGeneration /\ generation' = generation + 1

\* A session that is there is cancelled first. An automatic start needs a word, and
\* no session.
Start(query, automatic) ==
    /\ Advance
    /\ automatic => query > 0 /\ session = None
    /\ Dispatch([generation |-> generation + 1, revision |-> revision, query |-> query,
                 automatic |-> automatic],
                [p \in Providers |-> Blank], Providers, Withdrawn(requests))
    /\ UNCHANGED revision

\* Mutant: an item's range stays as the provider gave it.
KeptInPlace(source, query) ==
    [source EXCEPT !.item = IF @ = None THEN None ELSE [@ EXCEPT !.resolving = FALSE]]

\* Mutant: an item whose resolve is withdrawn still counts as being resolved.
KeptResolving(source, query) ==
    [source EXCEPT !.item =
        IF @ = None THEN None
        ELSE [@ EXCEPT !.end = IF @ = session.query THEN query ELSE @]]

\* The items of a source, carried over to a new query: a range that ended at the old
\* caret ends at the new one, and nothing is being resolved any more.
Kept(source, query) ==
    LET i == source.item IN
    [source EXCEPT !.item =
        IF i = None THEN None
        ELSE [i EXCEPT !.end = IF i.end = session.query THEN query ELSE i.end,
                       !.resolving = FALSE]]

\* update(): requests are withdrawn, and only sources that said there is more are
\* asked again.
Update(query) ==
    IF query = 0
    THEN End(requests) /\ UNCHANGED generation
    ELSE /\ Advance
         /\ Dispatch([session EXCEPT !.generation = generation + 1,
                                     !.revision = revision', !.query = query],
                     [p \in Providers |-> Kept(sources[p], query)],
                     {p \in Providers : sources[p].incomplete}, Withdrawn(requests))

Edited == revision < MaxRevision /\ revision' = revision + 1

\* A key that inserts or deletes a byte before the caret; the command loop refreshes
\* the completion when the command returns.
Type(delta) ==
    /\ session # None
    /\ caret + delta \in 0..MaxQuery
    /\ Edited
    /\ Update(caret + delta)

\* A callback edits the buffer behind the caret, and nothing is refreshed.
EditBehind ==
    /\ session # None
    /\ Edited
    /\ UNCHANGED <<caret, generation, session, sources, requests, queued>>

\* A command that leaves text and caret alone.
Refresh ==
    /\ session # None /\ revision # session.revision
    /\ UNCHANGED revision
    /\ Update(caret)

\* cancel(), or a command after which the caret, the view or the buffer is another.
Cancel == session # None /\ End(requests) /\ UNCHANGED <<revision, generation>>

-----------------------------------------------------------------------------
(* Resolving and applying.                                                  *)

Shown(p) == session # None /\ p \in Matches(sources, session.query)

Waiting(p, item) == [provider |-> p, item |-> item, generation |-> session.generation]

\* Mutant: an acceptance survives the failure of its resolve.
UnresolvedStillQueued(p, item, refused, reqs, waiting) ==
    /\ IF sources[p].item # None /\ sources[p].item.generation = item
       THEN Changed(session, [sources EXCEPT ![p].item.resolving = FALSE,
                                             ![p].item.refused = refused], reqs, waiting)
       ELSE requests' = reqs /\ queued' = waiting /\ UNCHANGED <<caret, session, sources>>
    /\ UNCHANGED revision

\* resolve_failed() and resolve_cancelled(): an acceptance that waited is dropped.
Unresolved(p, item, refused, reqs, waiting) ==
    LET left == IF waiting = Waiting(p, item) THEN None ELSE waiting IN
    /\ IF sources[p].item # None /\ sources[p].item.generation = item
       THEN Changed(session, [sources EXCEPT ![p].item.resolving = FALSE,
                                             ![p].item.refused = refused], reqs, left)
       ELSE requests' = reqs /\ queued' = left /\ UNCHANGED <<caret, session, sources>>
    /\ UNCHANGED revision

\* publish_resolved(): the item is replaced in place. If its acceptance waited for
\* it, it is applied now, unless it matches no more or has no edit to apply.
Resolved(p, item, query, reqs, waiting) == \E reach \in 1..MaxQuery :
    LET i   == [sources[p].item EXCEPT !.reach = reach, !.end = EndFor(p, query),
                                       !.resolved = TRUE, !.resolving = FALSE, !.refused = FALSE]
        src == [sources EXCEPT ![p].item = i]
    IN IF waiting # Waiting(p, item) \/ Hopeless(session, src)
       THEN Changed(session, src, reqs, waiting) /\ UNCHANGED revision
       ELSE \/ /\ p \in Matches(src, session.query)
               /\ Edited /\ End(reqs)
            \/ /\ Changed(session, [src EXCEPT ![p].item.refused = TRUE], reqs, None)
               /\ UNCHANGED revision

\* resolve_item(): the server takes the request or fails it at once, and the resolver
\* of another provider answers within the call; a stale buffer fails it.
ResolveItem(p, waiting) ==
    LET item == sources[p].item.generation IN
    \/ /\ p \in Servers /\ revision = session.revision
       /\ Changed(session, [sources EXCEPT ![p].item.resolving = TRUE, ![p].item.refused = FALSE],
                  requests \cup {Resolve(p, session)}, waiting)
       /\ UNCHANGED revision
    \/ /\ p \notin Servers /\ revision = session.revision
       /\ Resolved(p, item, session.query, requests, waiting)
    \/ Unresolved(p, item, TRUE, requests, waiting)

\* focus(), and each item resolve_visible() goes over.
Focus(p) ==
    /\ Shown(p)
    /\ ~sources[p].item.resolved /\ ~sources[p].item.resolving
    /\ ResolveItem(p, queued)
    /\ UNCHANGED generation

\* apply(): a resolved item is applied, or has no edit; one that is not waits for its
\* resolve, unless that has failed before.
Accept(p) ==
    LET i == sources[p].item IN
    /\ Shown(p)
    /\ UNCHANGED generation
    /\ \/ /\ revision # session.revision
          /\ End(requests) /\ UNCHANGED revision
       \/ /\ revision = session.revision /\ i.resolved
          /\ Edited /\ End(requests)
       \/ /\ revision = session.revision /\ ~i.resolved /\ ~i.refused
          /\ IF i.resolving
             THEN /\ queued' = Waiting(p, i.generation)
                  /\ UNCHANGED <<revision, caret, session, sources, requests>>
             ELSE ResolveItem(p, Waiting(p, i.generation))

-----------------------------------------------------------------------------
(* Answers.                                                                 *)

\* publish(): the source is replaced as a whole; an answer for text that has since
\* changed is an error of its provider, as is a failure.
Published(r, outcome, reqs) == LET p == r.provider IN
    \/ /\ outcome = "completed" /\ revision = session.revision
       /\ \E response \in Responses :
            Changed(session, [sources EXCEPT ![p] = Answered(p, response, r)], reqs, queued)
    \/ /\ outcome # "completed" \/ revision # session.revision
       /\ Changed(session, [sources EXCEPT ![p].pending = FALSE], reqs, queued)

ResolveEnds(r, outcome, reqs) == LET p == r.provider  item == r.item IN
    IF outcome = "completed" /\ (sources[p].item = None \/ sources[p].item.generation # item)
    THEN requests' = reqs /\ UNCHANGED <<revision, caret, session, sources, queued>>
    ELSE IF outcome = "completed" /\ revision = session.revision
    THEN Resolved(p, item, r.query, reqs, queued)
    ELSE Unresolved(p, item, outcome # "cancelled", reqs, queued)

\* Mutant: an answer is taken whatever session it was asked for.
HeardAnyway(r) == session # None

\* An answer is heard by the session and generation it was asked for.
Heard(r) == session # None /\ session.generation = r.generation

\* A provider is done: a task's end from drain(), a response of the server or the end
\* of its LspSession.
Deliver(r, outcome) ==
    /\ r \in requests
    /\ UNCHANGED generation
    /\ LET reqs == requests \ {r} IN
       IF ~Heard(r)
       THEN requests' = reqs /\ UNCHANGED <<revision, caret, session, sources, queued>>
       ELSE IF r.item = 0
       THEN Published(r, outcome, reqs) /\ UNCHANGED revision
       ELSE ResolveEnds(r, outcome, reqs)

Outcomes == {"completed", "failed", "cancelled"}
Provide  == \E r \in requests, outcome \in Outcomes : Deliver(r, outcome)

Next ==
    \/ \E query \in 0..MaxQuery, automatic \in BOOLEAN : Start(query, automatic)
    \/ \E delta \in {-1, 1} : Type(delta)
    \/ EditBehind \/ Refresh \/ Cancel
    \/ \E p \in Providers : Focus(p) \/ Accept(p)
    \/ Provide

Spec == Init /\ [][Next]_vars

-----------------------------------------------------------------------------
(* Properties.                                                             *)

Items == [generation : 1..MaxGeneration, reach : 1..MaxQuery, end : 0..(MaxQuery + 1),
          resolved : BOOLEAN, resolving : BOOLEAN, refused : BOOLEAN]

SourceStates == [item : Items \cup {None}, pending : BOOLEAN, incomplete : BOOLEAN]

Sessions == [generation : 1..MaxGeneration, revision : 0..MaxRevision, query : 0..MaxQuery,
             automatic : BOOLEAN]

Requests == [item : 0..MaxGeneration, provider : Providers, generation : 1..MaxGeneration,
             query : 0..MaxQuery, stopped : BOOLEAN]

Acceptances == [provider : Providers, item : 1..MaxGeneration, generation : 1..MaxGeneration]

\* Types of the variables (proved; see CompletionProofs).
TypeOK ==
    /\ revision \in 0..MaxRevision /\ caret \in 0..MaxQuery
    /\ generation \in 0..MaxGeneration
    /\ session \in Sessions \cup {None}
    /\ sources \in [Providers -> SourceStates]
    /\ requests \subseteq Requests
    /\ queued \in Acceptances \cup {None}

\* An item shown as being resolved has a resolve under way for this very generation,
\* so that it will be told: edits, cancellations, answers that replace the item and
\* a resolver that answers within the call never leave it waiting for nothing
\* (resolve_item(), cancel_pending() and the three ends of a resolve).
ResolvingIsBacked ==
    \A p \in Providers :
        sources[p].item # None /\ sources[p].item.resolving =>
            session # None /\ Resolve(p, session) \in requests

\* An acceptance that waits belongs to the session's generation, and to an item that
\* is being resolved; or the provider's later answer has replaced that item, and the
\* acceptance is lost (pending_apply_ against cancel_pending() and publish()).
AcceptanceIsServed ==
    queued # None =>
        LET i == sources[queued.provider].item IN
        /\ session # None /\ queued.generation = session.generation
        /\ i # None /\ i.generation = queued.item => i.resolving

\* While the text is that of the request, every item would replace exactly the query,
\* whichever generation it came with and however it got resolved, if its range ends
\* at the caret (the generation checks, and the ranges update() carries over).
RangesFollowTheCaret ==
    session # None /\ revision = session.revision =>
        \A p \in Providers \ Wide :
            sources[p].item # None => sources[p].item.end = session.query

=============================================================================
