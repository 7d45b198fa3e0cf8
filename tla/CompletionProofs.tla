--------------------------- MODULE CompletionProofs ---------------------------
(***************************************************************************)
(* Proofs about Completion, for every set of providers, servers, wide and  *)
(* lazy providers, and every bound: the inductive invariant and what       *)
(* follows from it.                                                        *)
(*                                                                         *)
(* The invariant is stated about a session, its sources, its requests and  *)
(* the acceptance that waits, so that it can be shown of the ones a call   *)
(* is about to install before it decides whether the session is over.      *)
(***************************************************************************)
EXTENDS Completion, TLAPS

Typed(s, src, reqs, waiting) ==
    /\ s \in Sessions \cup {None}
    /\ src \in [Providers -> SourceStates]
    /\ reqs \subseteq Requests
    /\ waiting \in Acceptances \cup {None}

\* Nothing comes from a generation that has not begun, and the session is of the
\* latest one.
Aged(g, s, src, reqs) ==
    /\ s # None => s.generation = g
    /\ \A r \in reqs : r.generation <= g
    /\ \A p \in Providers : src[p].item.generation <= g

\* A request of the session's own generation is about its query and still wanted, and
\* a provider that has yet to answer in this generation has no item of it.
Asked(s, src, reqs) ==
    s # None =>
        \A r \in reqs : r.generation = s.generation =>
            /\ r.query = s.query /\ ~r.stopped
            /\ r.item = 0 => src[r.provider].item.generation # s.generation

ResolveOf(p, item, s) == Request(p, item.generation, s)

Backed(s, src, reqs) ==
    \A p \in Providers :
        src[p].item # None /\ src[p].item.resolving =>
            s # None /\ ResolveOf(p, src[p].item, s) \in reqs

\* An acceptance of an item of this generation means that the provider has answered.
Served(s, src, reqs, waiting) ==
    waiting # None =>
        /\ s # None /\ waiting.generation = s.generation
        /\ LET i == src[waiting.provider].item IN
           i # None /\ i.generation = waiting.item => i.resolving
        /\ waiting.item = s.generation =>
              \A r \in reqs : r.item = 0 /\ r.provider = waiting.provider
                              => r.generation # s.generation

\* Ranges that end at the caret do so whether or not the text has changed since.
Ranged(s, src) ==
    s # None => \A p \in Providers \ Wide : src[p].item # None => src[p].item.end = s.query

Sound(g, s, src, reqs, waiting) ==
    /\ Typed(s, src, reqs, waiting)
    /\ Aged(g, s, src, reqs) /\ Asked(s, src, reqs) /\ Backed(s, src, reqs)
    /\ Served(s, src, reqs, waiting) /\ Ranged(s, src)

Counters ==
    revision \in 0..MaxRevision /\ caret \in 0..MaxQuery /\ generation \in 0..MaxGeneration

IInv == Counters /\ Sound(generation, session, sources, requests, queued)

-----------------------------------------------------------------------------
(* Small facts.                                                            *)

\* The bounds are numbers and the kinds of providers are providers.
LEMMA Bounds ==
  /\ MaxQuery \in Nat /\ MaxRevision \in Nat /\ MaxGeneration \in Nat
  /\ Servers \subseteq Providers /\ Wide \subseteq Providers /\ Lazy \subseteq Providers
  BY CompletionAssumption

\* What is there is told from what is not by its generation.
LEMMA NoneFacts ==
  /\ None.generation = 0
  /\ \A i \in Items \cup {None} : (i # None <=> i \in Items) /\ (i # None <=> i.generation # 0)
                                 /\ i.generation \in 0..MaxGeneration
  /\ \A s \in Sessions \cup {None} : (s # None <=> s \in Sessions) /\ (s # None <=> s.generation # 0)
  /\ \A w \in Acceptances \cup {None} :
        (w # None <=> w \in Acceptances) /\ (w # None <=> w.generation # 0)
<1>1. None.generation = 0
  BY DEF None
<1>2. ASSUME NEW i \in Items PROVE i.generation \in 1..MaxGeneration /\ i # None
  BY <1>1, Bounds DEF Items
<1>3. ASSUME NEW s \in Sessions PROVE s.generation \in 1..MaxGeneration /\ s # None
  BY <1>1, Bounds DEF Sessions
<1>4. ASSUME NEW w \in Acceptances PROVE w.generation \in 1..MaxGeneration /\ w # None
  BY <1>1, Bounds DEF Acceptances
<1> QED
  BY <1>1, <1>2, <1>3, <1>4, Bounds

\* What the fields of a source are.
LEMMA SourceFacts ==
  ASSUME NEW src \in [Providers -> SourceStates], NEW p \in Providers
  PROVE  /\ src[p].item \in Items \cup {None}
         /\ src[p].pending \in BOOLEAN /\ src[p].incomplete \in BOOLEAN
         /\ src[p] = [item |-> src[p].item, pending |-> src[p].pending,
                      incomplete |-> src[p].incomplete]
  BY DEF SourceStates

\* Resolve looks at the item a provider shows.
LEMMA ResolveIs ==
  ASSUME NEW p, NEW s
  PROVE  Resolve(p, s) = ResolveOf(p, sources[p].item, s)
  BY DEF Resolve, ResolveOf

\* A session begins with sources that show nothing.
LEMMA BlankSources ==
  /\ [p \in Providers |-> Blank] \in [Providers -> SourceStates]
  /\ Blank.item = None
  BY DEF Blank, SourceStates

\* Withdrawing requests changes nothing of them but that they are asked to stop.
LEMMA WithdrawnFacts ==
  ASSUME NEW reqs \in SUBSET Requests
  PROVE  /\ Withdrawn(reqs) \subseteq Requests
         /\ \A r \in Withdrawn(reqs) : \E q \in reqs :
               /\ r.generation = q.generation /\ r.query = q.query
               /\ r.item = q.item /\ r.provider = q.provider
<1> SUFFICES ASSUME NEW q \in reqs
             PROVE  LET r == [q EXCEPT !.stopped = TRUE] IN
                    /\ r \in Requests
                    /\ r.generation = q.generation /\ r.query = q.query
                    /\ r.item = q.item /\ r.provider = q.provider
  BY DEF Withdrawn
<1> QED
  BY DEF Requests

-----------------------------------------------------------------------------
(* Installing a session, or ending one.                                    *)

\* A step that ends the session keeps the invariant.
LEMMA EndStep ==
  ASSUME NEW reqs \in SUBSET Requests, End(reqs), \A r \in reqs : r.generation <= generation',
         revision' \in 0..MaxRevision, generation' \in 0..MaxGeneration
  PROVE  IInv'
<1>1. Typed(session, sources, requests, queued)' /\ Counters'
  BY WithdrawnFacts, BlankSources, Bounds DEF End, Typed, Counters
<1>2. Aged(generation, session, sources, requests)'
  <2>1. \A r \in requests' : r.generation <= generation'
    BY WithdrawnFacts DEF End
  <2>2. \A p \in Providers : sources'[p].item.generation <= generation'
    BY BlankSources, NoneFacts DEF End
  <2> QED
    BY <2>1, <2>2 DEF End, Aged
<1>3. /\ Asked(session, sources, requests)' /\ Backed(session, sources, requests)'
      /\ Served(session, sources, requests, queued)' /\ Ranged(session, sources)'
  BY BlankSources DEF End, Asked, Backed, Served, Ranged
<1> QED
  BY <1>1, <1>2, <1>3 DEF IInv, Sound

\* A step that leaves a sound session keeps the invariant.
LEMMA ChangedStep ==
  ASSUME NEW s, NEW src, NEW reqs, NEW waiting, s # None,
         Changed(s, src, reqs, waiting),
         Sound(generation', s, src, reqs, waiting),
         revision' \in 0..MaxRevision, generation' \in 0..MaxGeneration
  PROVE  IInv'
<1>1. CASE End(reqs)
  BY <1>1, EndStep DEF Sound, Typed, Aged
<1>2. CASE /\ session' = s /\ caret' = s.query
           /\ sources' = src /\ requests' = reqs /\ queued' = waiting
  <2>1. s.query \in 0..MaxQuery
    BY NoneFacts DEF Sound, Typed, Sessions
  <2> QED
    BY <1>2, <2>1 DEF IInv, Sound, Typed, Aged, Asked, Backed, Served, Ranged, Counters
<1> QED
  BY <1>1, <1>2 DEF Changed

\* request_provider() for all that are asked: the items a source keeps must be of an
\* earlier generation, end at the query and not be under way.
LEMMA DispatchStep ==
  ASSUME NEW s \in Sessions, NEW src \in [Providers -> SourceStates],
         NEW asked \in SUBSET Providers, NEW reqs \in SUBSET Requests,
         Dispatch(s, src, asked, reqs),
         revision' \in 0..MaxRevision, generation' \in 0..MaxGeneration,
         s.generation = generation',
         \A r \in reqs : r.generation < s.generation,
         \A p \in Providers : /\ src[p].item.generation < s.generation
                              /\ src[p].item # None => ~src[p].item.resolving,
         Ranged(s, src)
  PROVE  IInv'
<1>0. s # None /\ s.generation \in 1..MaxGeneration /\ s.query \in 0..MaxQuery
  BY NoneFacts DEF Sessions
<1> DEFINE
      New(taking, answering, response) ==
        [p \in Providers |->
           IF p \in asked
           THEN IF p \in answering THEN Answered(p, response[p], s)
                ELSE [src[p] EXCEPT !.pending = p \in taking]
           ELSE src[p]]
      All(taking) == reqs \cup {Ask(p, s) : p \in taking}
<1>a. \E failing \in SUBSET asked : \E answering \in SUBSET (asked \ (failing \cup Servers)) :
      \E response \in [answering -> Responses] :
         LET taking == asked \ (failing \cup answering) IN
         Changed(s, New(taking, answering, response), All(taking), None)
  BY DEF Dispatch
<1> PICK taking \in SUBSET asked, answering \in SUBSET asked :
      \E response \in [answering -> Responses] :
         taking \cap answering = {} /\ Changed(s, New(taking, answering, response), All(taking), None)
  <2> HIDE DEF New, All
  <2> PICK failing \in SUBSET asked : \E answering \in SUBSET (asked \ (failing \cup Servers)) :
      \E response \in [answering -> Responses] :
         LET taking == asked \ (failing \cup answering) IN
         Changed(s, New(taking, answering, response), All(taking), None)
    BY <1>a
  <2> PICK answering \in SUBSET (asked \ (failing \cup Servers)) :
      \E response \in [answering -> Responses] :
         LET taking == asked \ (failing \cup answering) IN
         Changed(s, New(taking, answering, response), All(taking), None)
    OBVIOUS
  <2>1. answering \in SUBSET asked /\ (asked \ (failing \cup answering)) \in SUBSET asked
        /\ (asked \ (failing \cup answering)) \cap answering = {}
    OBVIOUS
  <2> QED
    BY <2>1
<1> PICK response \in [answering -> Responses] :
      taking \cap answering = {} /\ Changed(s, New(taking, answering, response), All(taking), None)
  OBVIOUS
<1> DEFINE new == New(taking, answering, response)
           all == All(taking)
<1>1. ASSUME NEW p \in answering
      PROVE  /\ Answered(p, response[p], s) \in SourceStates
             /\ LET i == Answered(p, response[p], s).item IN
                i # None => /\ i.generation = s.generation /\ ~i.resolving
                            /\ p \notin Wide => i.end = s.query
  <2>1. response[p] \in Responses /\ response[p].reach \in 0..MaxQuery /\ response[p].more \in BOOLEAN
    BY DEF Responses
  <2>2. CASE response[p].reach = 0
    BY <2>1, <2>2 DEF Answered, SourceStates
  <2>3. CASE response[p].reach # 0
    <3>1. Item(p, response[p].reach, s) \in Items
      BY <1>0, <2>1, <2>3, Bounds DEF Item, EndFor, Items
    <3> QED
      BY <2>1, <2>3, <3>1 DEF Answered, SourceStates, Item, EndFor
  <2> QED
    BY <2>2, <2>3
<1>2. \A p \in Providers \ answering : new[p] \in SourceStates /\ new[p].item = src[p].item
  <2> SUFFICES ASSUME NEW p \in Providers, p \notin answering
               PROVE  new[p] \in SourceStates /\ new[p].item = src[p].item
    OBVIOUS
  <2>1. src[p] \in SourceStates /\ (p \in taking) \in BOOLEAN
    OBVIOUS
  <2>2. new[p] = src[p] \/ new[p] = [src[p] EXCEPT !.pending = p \in taking]
    OBVIOUS
  <2> QED
    BY <2>1, <2>2 DEF SourceStates
<1>3. \A p \in answering : new[p] = Answered(p, response[p], s)
  OBVIOUS
<1>4. new \in [Providers -> SourceStates]
  BY <1>1, <1>2, <1>3
<1>5. \A r \in all : \/ r \in reqs
                     \/ \E p \in taking : /\ r = Ask(p, s) /\ r.item = 0 /\ r.provider = p
                                          /\ r.generation = s.generation /\ r.query = s.query
                                          /\ r \in Requests /\ ~r.stopped
  <2>1. ASSUME NEW p \in taking
        PROVE  LET r == Ask(p, s) IN
               /\ r.item = 0 /\ r.provider = p /\ r.generation = s.generation
               /\ r.query = s.query /\ r \in Requests /\ ~r.stopped
    BY <1>0, Bounds DEF Ask, Request, Requests
  <2> QED
    BY <2>1
<1>6. Typed(s, new, all, None)
  BY <1>4, <1>5 DEF Typed
<1>7. Aged(s.generation, s, new, all)
  <2>1. \A r \in all : r.generation <= s.generation
    BY <1>0, <1>5 DEF Requests
  <2>2. \A p \in Providers : new[p].item.generation <= s.generation
    <3> SUFFICES ASSUME NEW p \in Providers PROVE new[p].item.generation <= s.generation
      OBVIOUS
    <3>1. src[p].item.generation \in Int /\ src[p].item.generation < s.generation
      <4>1. src[p].item \in Items \cup {None}
        BY SourceFacts
      <4> QED
        BY <4>1, NoneFacts, Bounds
    <3>2. CASE p \in answering
      BY <1>0, <1>1, <1>3, <3>2, NoneFacts
    <3>3. CASE p \notin answering
      BY <1>0, <1>2, <3>1, <3>3
    <3> QED
      BY <3>2, <3>3
  <2> QED
    BY <2>1, <2>2 DEF Aged
<1>8. Asked(s, new, all)
  <2> SUFFICES ASSUME NEW r \in all, r.generation = s.generation
               PROVE  r.query = s.query /\ ~r.stopped /\ new[r.provider].item.generation # s.generation
    BY DEF Asked
  <2>1. r \notin reqs
    BY <1>0
  <2>2. PICK p \in taking : r.provider = p /\ r.query = s.query /\ ~r.stopped
    BY <1>5, <2>1
  <2>3. p \in Providers \ answering /\ new[p].item.generation < s.generation
    BY <1>2
  <2>4. new[p].item.generation \in Int
    <3>1. src[p].item \in Items \cup {None}
      BY <2>3, SourceFacts
    <3> QED
      BY <1>2, <2>3, <3>1, NoneFacts, Bounds
  <2> QED
    BY <1>0, <2>2, <2>3, <2>4
<1>9. Backed(s, new, all)
  BY <1>1, <1>2, <1>3 DEF Backed
<1>10. Served(s, new, all, None) /\ Ranged(s, new)
  BY <1>1, <1>2, <1>3 DEF Served, Ranged
<1>11. Sound(generation', s, new, all, None)
  BY <1>6, <1>7, <1>8, <1>9, <1>10 DEF Sound
<1> HIDE DEF new, all
<1>12. Changed(s, new, all, None)
  BY DEF new, all
<1> QED
  BY <1>0, <1>11, <1>12, ChangedStep

\* An item that is kept for a new query is of its old generation, no longer being resolved, and
\* replaces exactly the new query unless its range went beyond the caret.
LEMMA KeptFacts ==
  ASSUME IInv, session # None, NEW p \in Providers, NEW query \in 1..MaxQuery
  PROVE  /\ Kept(sources[p], query) \in SourceStates
         /\ Kept(sources[p], query).item.generation = sources[p].item.generation
         /\ Kept(sources[p], query).item # None =>
               /\ ~Kept(sources[p], query).item.resolving
               /\ p \notin Wide => Kept(sources[p], query).item.end = query
<1>1. /\ sources[p] \in SourceStates /\ sources[p].item \in Items \cup {None}
      /\ p \notin Wide /\ sources[p].item # None => sources[p].item.end = session.query
  BY DEF IInv, Sound, Typed, Ranged, SourceStates
<1>2. CASE sources[p].item = None
  <2>1. Kept(sources[p], query) = [sources[p] EXCEPT !.item = None]
    BY <1>2 DEF Kept
  <2> QED
    BY <1>1, <1>2, <2>1 DEF SourceStates
<1>3. CASE sources[p].item # None
  <2> PICK end : end = IF sources[p].item.end = session.query THEN query ELSE sources[p].item.end
    OBVIOUS
  <2> PICK i : i = [sources[p].item EXCEPT !.end = end, !.resolving = FALSE]
    OBVIOUS
  <2>2. sources[p].item \in Items /\ end \in 0..(MaxQuery + 1)
    BY <1>1, <1>3, Bounds DEF Items
  <2>1. Kept(sources[p], query) = [sources[p] EXCEPT !.item = i]
    BY <1>1, <1>3, <2>2 DEF Kept, SourceStates, Items
  <2>3. /\ i \in Items /\ i.generation = sources[p].item.generation /\ ~i.resolving
        /\ p \notin Wide => i.end = query
    BY <1>1, <1>3, <2>2 DEF Items
  <2> QED
    BY <1>1, <2>1, <2>3 DEF SourceStates
<1> QED
  BY <1>2, <1>3

\* No request and no item is younger than the session.
LEMMA Ages ==
  ASSUME IInv
  PROVE  /\ \A r \in requests : r.generation \in Int /\ r.generation <= generation
         /\ \A p \in Providers : /\ sources[p].item.generation \in Int
                                 /\ sources[p].item.generation <= generation
         /\ generation \in 0..MaxGeneration
<1>1. \A p \in Providers : sources[p].item \in Items \cup {None}
  BY SourceFacts DEF IInv, Sound, Typed
<1> QED
  BY <1>1, NoneFacts, Bounds DEF IInv, Sound, Typed, Aged, Requests, Counters

\* The invariant through the editor's own steps,
LEMMA UpdateStep ==
  ASSUME IInv, session # None, NEW query \in 0..MaxQuery, Update(query),
         revision' \in 0..MaxRevision
  PROVE  IInv'
<1>1. CASE query = 0
  BY <1>1, EndStep, Ages DEF Update, IInv, Sound, Typed
<1>2. CASE query # 0
  <2> PICK s : s = [session EXCEPT !.generation = generation + 1,
                                   !.revision = revision', !.query = query]
    OBVIOUS
  <2> DEFINE src == [p \in Providers |-> Kept(sources[p], query)]
             asked == {p \in Providers : sources[p].incomplete}
             reqs == Withdrawn(requests)
  <2>1. /\ generation' = generation + 1 /\ generation' \in 1..MaxGeneration
        /\ generation' \in 0..MaxGeneration
    BY <1>2, Ages, Bounds DEF Update, Advance
  <2>2. s \in Sessions /\ s.generation = generation' /\ s.query = query
    BY <1>2, <2>1, NoneFacts DEF IInv, Sound, Typed, Sessions
  <2>3. query \in 1..MaxQuery
    BY <1>2, Bounds
  <2>4. /\ src \in [Providers -> SourceStates]
        /\ \A p \in Providers : /\ src[p].item.generation < s.generation
                                /\ src[p].item # None => ~src[p].item.resolving
        /\ Ranged(s, src)
    BY <2>1, <2>2, <2>3, KeptFacts, Ages DEF Ranged
  <2>5. reqs \in SUBSET Requests /\ \A r \in reqs : r.generation < s.generation
    BY <2>1, <2>2, Ages, WithdrawnFacts DEF IInv, Sound, Typed
  <2>6. Dispatch(s, src, asked, reqs)
    BY <1>2 DEF Update
  <2> HIDE DEF src, asked, reqs
  <2>7. asked \in SUBSET Providers
    BY DEF asked
  <2> QED
    BY <2>1, <2>2, <2>4, <2>5, <2>6, <2>7, DispatchStep
<1> QED
  BY <1>1, <1>2

LEMMA StartStep ==
  ASSUME IInv, NEW query \in 0..MaxQuery, NEW automatic \in BOOLEAN, Start(query, automatic)
  PROVE  IInv'
<1> PICK s : s = [generation |-> generation + 1, revision |-> revision, query |-> query,
                  automatic |-> automatic]
  OBVIOUS
<1> DEFINE src == [p \in Providers |-> Blank]
           reqs == Withdrawn(requests)
<1>1. /\ generation' = generation + 1 /\ generation' \in 1..MaxGeneration
      /\ revision' \in 0..MaxRevision
  BY Ages, Bounds DEF Start, Advance, IInv, Counters
<1>2. s \in Sessions /\ s.generation = generation'
  BY <1>1 DEF IInv, Counters, Sessions
<1>3. /\ src \in [Providers -> SourceStates]
      /\ \A p \in Providers : src[p].item = None /\ src[p].item.generation < s.generation
  BY <1>1, <1>2, BlankSources, NoneFacts
<1>4. reqs \in SUBSET Requests /\ \A r \in reqs : r.generation < s.generation
  BY <1>1, <1>2, Ages, WithdrawnFacts DEF IInv, Sound, Typed
<1>5. Dispatch(s, src, Providers, reqs)
  BY DEF Start
<1>6. Ranged(s, src)
  BY <1>3 DEF Ranged
<1> HIDE DEF src, reqs
<1> QED
  BY <1>1, <1>2, <1>3, <1>4, <1>5, <1>6, DispatchStep

-----------------------------------------------------------------------------
(* Resolving, applying and answers.                                        *)

\* One item becomes i, and every other resolve that is under way stays so.
LEMMA ItemStep ==
  ASSUME IInv, session # None, NEW p \in Providers, sources[p].item # None,
         NEW i \in Items, i.generation = sources[p].item.generation,
         p \notin Wide => i.end = session.query,
         NEW reqs, reqs \subseteq requests \cup {ResolveOf(p, i, session)},
         \A r \in requests \ reqs : r.provider = p,
         i.resolving => ResolveOf(p, i, session) \in reqs,
         NEW waiting,
         \/ waiting = None
         \/ waiting \in {queued, Waiting(p, i.generation)}
            /\ (waiting = Waiting(p, i.generation) => i.resolving),
         Changed(session, [sources EXCEPT ![p].item = i], reqs, waiting),
         revision' \in 0..MaxRevision, generation' = generation
  PROVE  IInv'
<1> DEFINE src == [sources EXCEPT ![p].item = i]
<1>1. /\ session \in Sessions /\ session.generation \in 1..MaxGeneration
      /\ session.generation = generation
      /\ i.generation \in 1..MaxGeneration /\ i # None
      /\ sources \in [Providers -> SourceStates] /\ requests \subseteq Requests
      /\ queued \in Acceptances \cup {None}
  BY NoneFacts DEF IInv, Sound, Typed, Aged, Sessions, Items
<1>2. /\ src \in [Providers -> SourceStates] /\ src[p].item = i
      /\ \A q \in Providers : q # p => src[q] = sources[q]
      /\ \A q \in Providers : src[q].item.generation = sources[q].item.generation
  BY <1>1 DEF SourceStates
<1>3. LET r == ResolveOf(p, i, session) IN
      /\ r \in Requests /\ r.item = i.generation /\ r.item # 0 /\ r.provider = p
      /\ r.generation = session.generation /\ r.query = session.query /\ ~r.stopped
  BY <1>1 DEF ResolveOf, Request, Requests, Sessions
<1>4. waiting \in Acceptances \cup {None}
  BY <1>1 DEF Waiting, Acceptances
<1>5. Typed(session, src, reqs, waiting)
  BY <1>1, <1>2, <1>3, <1>4 DEF Typed
<1>6. Aged(generation, session, src, reqs)
  BY <1>1, <1>2, <1>3, Ages DEF Aged
<1>7. Asked(session, src, reqs)
  BY <1>1, <1>2, <1>3 DEF Asked, IInv, Sound
<1>8. Backed(session, src, reqs)
  <2> SUFFICES ASSUME NEW q \in Providers, src[q].item # None, src[q].item.resolving
               PROVE  ResolveOf(q, src[q].item, session) \in reqs
    BY DEF Backed
  <2>1. CASE q = p
    BY <1>2, <2>1
  <2>2. CASE q # p
    BY <1>2, <2>2 DEF IInv, Sound, Backed, ResolveOf, Request
  <2> QED
    BY <2>1, <2>2
<1>9. Served(session, src, reqs, waiting)
  <2>1. CASE waiting = None
    BY <2>1 DEF Served
  <2>2. CASE waiting = Waiting(p, i.generation) /\ i.resolving
    <3>1. waiting.provider = p /\ waiting.item = i.generation
          /\ waiting.generation = session.generation
      BY <2>2 DEF Waiting
    <3>2. waiting.item = session.generation =>
             \A r \in requests : r.item = 0 /\ r.provider = p => r.generation # session.generation
      BY <3>1 DEF IInv, Sound, Asked
    <3> QED
      BY <1>2, <1>3, <2>2, <3>1, <3>2 DEF Served
  <2>3. CASE waiting = queued /\ waiting # None /\ waiting # Waiting(p, i.generation)
    <3>1. Served(session, sources, requests, queued)
      BY DEF IInv, Sound
    <3>2. waiting.provider = p => waiting.item # i.generation
      BY <1>1, <2>3, <3>1 DEF Served, Waiting, Acceptances
    <3>3. waiting.provider \in Providers
      BY <1>4, <2>3 DEF Acceptances
    <3> QED
      BY <1>2, <1>3, <2>3, <3>1, <3>2, <3>3 DEF Served
  <2> QED
    BY <2>1, <2>2, <2>3
<1>10. Ranged(session, src)
  BY <1>1, <1>2 DEF Ranged, IInv, Sound
<1>11. Sound(generation', session, src, reqs, waiting)
  BY <1>5, <1>6, <1>7, <1>8, <1>9, <1>10 DEF Sound
<1>12. generation' \in 0..MaxGeneration
  BY DEF IInv, Counters
<1> HIDE DEF src
<1>13. Changed(session, src, reqs, waiting)
  BY DEF src
<1> QED
  BY <1>11, <1>12, <1>13, ChangedStep

\* The parts of the state an action leaves alone, when it only forgets a request that
\* no item waits for, and perhaps the acceptance.
LEMMA ForgetStep ==
  ASSUME IInv, NEW reqs \in SUBSET requests,
         \A r \in requests \ reqs : \A p \in Providers :
            sources[p].item # None /\ session # None => r # ResolveOf(p, sources[p].item, session),
         requests' = reqs, queued' \in {queued, None},
         UNCHANGED <<revision, caret, generation, session, sources>>
  PROVE  IInv'
<1>1. Typed(session, sources, requests, queued)' /\ Counters'
  BY DEF IInv, Sound, Typed, Counters
<1>2. /\ Aged(generation, session, sources, requests)'
      /\ Asked(session, sources, requests)' /\ Ranged(session, sources)'
  BY DEF IInv, Sound, Aged, Asked, Ranged
<1>3. Backed(session, sources, requests)'
  BY DEF IInv, Sound, Backed
<1>4. Served(session, sources, requests, queued)'
  BY DEF IInv, Sound, Served
<1> QED
  BY <1>1, <1>2, <1>3, <1>4 DEF IInv, Sound

\* through what a resolve that was refused or failed leaves,
LEMMA UnresolvedStep ==
  ASSUME IInv, session # None, NEW p \in Providers, NEW item, NEW refused \in BOOLEAN,
         NEW reqs \in SUBSET requests,
         \A r \in requests \ reqs : r.provider = p /\ r.item = item,
         NEW waiting \in {queued, Waiting(p, item)},
         Unresolved(p, item, refused, reqs, waiting), generation' = generation
  PROVE  IInv'
<1> PICK left : left = IF waiting = Waiting(p, item) THEN None ELSE waiting
  OBVIOUS
<1>1. CASE sources[p].item # None /\ sources[p].item.generation = item
  <2> PICK i : i = [sources[p].item EXCEPT !.resolving = FALSE, !.refused = refused]
    OBVIOUS
  <2>1. sources \in [Providers -> SourceStates] /\ sources[p].item \in Items
    BY <1>1, SourceFacts DEF IInv, Sound, Typed
  <2>2. /\ i \in Items /\ i.generation = item /\ ~i.resolving
        /\ i.end = sources[p].item.end
    BY <1>1, <2>1 DEF Items
  <2>3. p \notin Wide => i.end = session.query
    BY <1>1, <2>2 DEF IInv, Sound, Ranged
  <2>4. Changed(session, [sources EXCEPT ![p].item.resolving = FALSE,
                                         ![p].item.refused = refused], reqs, left)
    BY <1>1 DEF Unresolved
  <2>5. [sources EXCEPT ![p].item.resolving = FALSE, ![p].item.refused = refused]
           = [sources EXCEPT ![p].item = i]
    BY <2>1 DEF SourceStates, Items
  <2>6. Changed(session, [sources EXCEPT ![p].item = i], reqs, left)
    BY <2>4, <2>5
  <2>7. revision' \in 0..MaxRevision
    BY DEF Unresolved, IInv, Counters
  <2> QED
    BY <1>1, <2>2, <2>3, <2>6, <2>7, ItemStep
<1>2. CASE ~(sources[p].item # None /\ sources[p].item.generation = item)
  <2>1. /\ requests' = reqs /\ queued' = left
        /\ UNCHANGED <<revision, caret, generation, session, sources>>
    BY <1>2 DEF Unresolved
  <2>2. \A r \in requests \ reqs : \A q \in Providers :
           sources[q].item # None => r # ResolveOf(q, sources[q].item, session)
    BY <1>2 DEF ResolveOf, Request
  <2> QED
    BY <2>1, <2>2, ForgetStep
<1> QED
  BY <1>1, <1>2

\* through one that brought the item,
LEMMA ResolvedStep ==
  ASSUME IInv, session # None, NEW p \in Providers, sources[p].item # None,
         NEW reqs \in SUBSET requests, \A r \in requests \ reqs : r.provider = p,
         NEW query, query = session.query,
         NEW waiting \in {queued, Waiting(p, sources[p].item.generation)},
         Resolved(p, sources[p].item.generation, query, reqs, waiting),
         generation' = generation
  PROVE  IInv'
<1> DEFINE item == sources[p].item.generation
           I(reach) == [sources[p].item EXCEPT !.reach = reach, !.end = EndFor(p, query),
                           !.resolved = TRUE, !.resolving = FALSE, !.refused = FALSE]
           Src(reach) == [sources EXCEPT ![p].item = I(reach)]
<1> PICK reach \in 1..MaxQuery :
      IF waiting # Waiting(p, item) \/ Hopeless(session, Src(reach))
      THEN Changed(session, Src(reach), reqs, waiting) /\ UNCHANGED revision
      ELSE \/ Edited /\ End(reqs)
           \/ /\ Changed(session, [Src(reach) EXCEPT ![p].item.refused = TRUE], reqs, None)
              /\ UNCHANGED revision
  BY DEF Resolved
<1> PICK i : i = I(reach)
  OBVIOUS
<1>1. /\ sources \in [Providers -> SourceStates] /\ sources[p].item \in Items
      /\ session.query \in 0..MaxQuery /\ requests \subseteq Requests
      /\ revision \in 0..MaxRevision /\ generation \in 0..MaxGeneration
  BY SourceFacts, NoneFacts DEF IInv, Sound, Typed, Sessions, Counters
<1>2. /\ i \in Items /\ i.generation = item /\ ~i.resolving
      /\ p \notin Wide => i.end = session.query
  <2>1. EndFor(p, query) \in 0..(MaxQuery + 1) /\ (p \notin Wide => EndFor(p, query) = session.query)
    BY <1>1, Bounds DEF EndFor
  <2> QED
    BY <1>1, <2>1 DEF Items
<1>3. \A r \in reqs : r.generation <= generation'
  BY Ages
<1>4. CASE waiting # Waiting(p, item) /\ UNCHANGED revision
           /\ Changed(session, [sources EXCEPT ![p].item = i], reqs, waiting)
  <2>1. revision' \in 0..MaxRevision
    BY <1>1, <1>4
  <2> QED
    BY <1>2, <1>4, <2>1, ItemStep
<1>5. CASE End(reqs) /\ (UNCHANGED revision \/ Edited)
  <2>1. revision' \in 0..MaxRevision
    BY <1>1, <1>5, Bounds DEF Edited
  <2> QED
    BY <1>1, <1>3, <1>5, <2>1, EndStep
<1>6. CASE UNCHANGED revision
           /\ Changed(session, [Src(reach) EXCEPT ![p].item.refused = TRUE], reqs, None)
  <2> PICK j : j = [i EXCEPT !.refused = TRUE]
    OBVIOUS
  <2>1. /\ j \in Items /\ j.generation = item /\ ~j.resolving
        /\ p \notin Wide => j.end = session.query
    BY <1>2 DEF Items
  <2>2. [Src(reach) EXCEPT ![p].item.refused = TRUE] = [sources EXCEPT ![p].item = j]
    BY <1>1 DEF SourceStates
  <2>3. Changed(session, [sources EXCEPT ![p].item = j], reqs, None)
    BY <1>6, <2>2
  <2>4. revision' \in 0..MaxRevision
    BY <1>1, <1>6
  <2> QED
    BY <2>1, <2>3, <2>4, ItemStep
<1>7. Hopeless(session, Src(reach)) /\ Changed(session, Src(reach), reqs, waiting) => End(reqs)
  BY DEF Changed
<1> QED
  BY <1>4, <1>5, <1>6, <1>7

LEMMA ResolveItemStep ==
  ASSUME IInv, session # None, NEW p \in Providers, sources[p].item # None,
         NEW waiting \in {queued, Waiting(p, sources[p].item.generation)},
         ResolveItem(p, waiting), generation' = generation
  PROVE  IInv'
<1> PICK item : item = sources[p].item.generation
  OBVIOUS
<1>1. CASE /\ Changed(session, [sources EXCEPT ![p].item.resolving = TRUE, ![p].item.refused = FALSE],
                      requests \cup {Resolve(p, session)}, waiting)
           /\ UNCHANGED revision
  <2> PICK i : i = [sources[p].item EXCEPT !.resolving = TRUE, !.refused = FALSE]
    OBVIOUS
  <2>1. sources \in [Providers -> SourceStates] /\ sources[p].item \in Items
    BY SourceFacts, NoneFacts DEF IInv, Sound, Typed
  <2>2. /\ i \in Items /\ i.generation = item /\ i.resolving /\ i.end = sources[p].item.end
    BY <2>1 DEF Items
  <2>3. p \notin Wide => i.end = session.query
    BY <2>2 DEF IInv, Sound, Ranged
  <2>4. [sources EXCEPT ![p].item.resolving = TRUE, ![p].item.refused = FALSE]
           = [sources EXCEPT ![p].item = i]
    BY <2>1 DEF SourceStates, Items
  <2>5. Resolve(p, session) = ResolveOf(p, i, session)
    <3>1. i.generation = sources[p].item.generation
      BY <2>2
    <3> QED
      BY <3>1, ResolveIs DEF ResolveOf, Request
  <2>6. /\ Changed(session, [sources EXCEPT ![p].item = i],
                   requests \cup {ResolveOf(p, i, session)}, waiting)
        /\ revision' \in 0..MaxRevision
    BY <1>1, <2>4, <2>5 DEF IInv, Counters
  <2> QED
    BY <2>2, <2>3, <2>6, ItemStep
<1>2. CASE Resolved(p, item, session.query, requests, waiting)
  BY <1>2, ResolvedStep
<1>3. CASE Unresolved(p, item, TRUE, requests, waiting)
  BY <1>3, UnresolvedStep
<1> QED
  BY <1>1, <1>2, <1>3 DEF ResolveItem

LEMMA FocusStep ==
  ASSUME IInv, NEW p \in Providers, Focus(p)
  PROVE  IInv'
<1>1. session # None /\ sources[p].item # None /\ generation' = generation
      /\ ResolveItem(p, queued)
  BY DEF Focus, Shown, Matches
<1> QED
  BY <1>1, ResolveItemStep

LEMMA AcceptStep ==
  ASSUME IInv, NEW p \in Providers, Accept(p)
  PROVE  IInv'
<1> PICK i : i = sources[p].item
  OBVIOUS
<1>1. session # None /\ i # None /\ generation' = generation
  BY DEF Accept, Shown, Matches
<1>2. CASE End(requests) /\ (UNCHANGED revision \/ Edited)
  <2>1. revision' \in 0..MaxRevision /\ generation' \in 0..MaxGeneration
    BY <1>1, <1>2, Bounds DEF Edited, IInv, Counters
  <2> QED
    BY <1>1, <1>2, <2>1, Ages, EndStep DEF IInv, Sound, Typed
<1>3. CASE /\ i.resolving /\ queued' = Waiting(p, i.generation)
           /\ UNCHANGED <<revision, caret, session, sources, requests>>
  <2>1. sources[p].item \in Items /\ session \in Sessions
    BY <1>1, SourceFacts, NoneFacts DEF IInv, Sound, Typed
  <2>2. /\ queued' \in Acceptances /\ queued'.provider = p /\ queued'.item = i.generation
        /\ queued'.generation = session.generation
    BY <1>3, <2>1 DEF Waiting, Acceptances, Items, Sessions
  <2>3. Served(session, sources, requests, queued)'
    BY <1>1, <1>3, <2>2 DEF IInv, Sound, Served, Asked
  <2>4. Typed(session, sources, requests, queued)' /\ Counters'
    BY <1>1, <1>3, <2>2 DEF IInv, Sound, Typed, Counters
  <2>5. /\ Aged(generation, session, sources, requests)' /\ Asked(session, sources, requests)'
        /\ Backed(session, sources, requests)' /\ Ranged(session, sources)'
    BY <1>1, <1>3 DEF IInv, Sound, Aged, Asked, Backed, Ranged
  <2> QED
    BY <2>3, <2>4, <2>5 DEF IInv, Sound
<1>4. CASE ResolveItem(p, Waiting(p, i.generation))
  BY <1>1, <1>4, ResolveItemStep
<1> QED
  BY <1>2, <1>3, <1>4 DEF Accept

\* through the answers of providers,
LEMMA PublishedStep ==
  ASSUME IInv, NEW r \in requests, Heard(r), r.item = 0, NEW outcome,
         Published(r, outcome, requests \ {r}), UNCHANGED <<revision, generation>>
  PROVE  IInv'
<1> PICK p, reqs : p = r.provider /\ reqs = requests \ {r}
  OBVIOUS
<1>1. /\ session \in Sessions /\ session # None /\ session.generation \in 1..MaxGeneration
      /\ session.generation = generation /\ r.generation = session.generation
      /\ r \in Requests /\ p \in Providers /\ r.query = session.query /\ ~r.stopped
      /\ sources \in [Providers -> SourceStates] /\ requests \subseteq Requests
      /\ revision' \in 0..MaxRevision /\ generation' \in 0..MaxGeneration
  BY NoneFacts DEF Heard, IInv, Sound, Typed, Aged, Asked, Sessions, Requests, Counters
<1>2. \A q \in reqs : q.item = 0 /\ q.provider = p => q.generation # session.generation
  BY <1>1 DEF IInv, Sound, Typed, Asked, Requests
<1>3. \A q \in Providers : ResolveOf(q, sources[q].item, session) \in requests
           /\ sources[q].item # None => ResolveOf(q, sources[q].item, session) \in reqs
  <2> SUFFICES ASSUME NEW q \in Providers, sources[q].item # None
               PROVE  r # ResolveOf(q, sources[q].item, session)
    OBVIOUS
  <2>1. sources[q].item.generation # 0
    BY <1>1, SourceFacts, NoneFacts
  <2> QED
    BY <2>1 DEF ResolveOf, Request
<1>4. ASSUME NEW new \in SourceStates, Changed(session, [sources EXCEPT ![p] = new], reqs, queued),
             \/ new.item = sources[p].item
             \/ new.item = None
             \/ /\ new.item.generation = session.generation /\ ~new.item.resolving
                /\ p \notin Wide => new.item.end = session.query
      PROVE  IInv'
  <2> DEFINE src == [sources EXCEPT ![p] = new]
  <2>1. /\ src \in [Providers -> SourceStates] /\ src[p] = new
        /\ \A q \in Providers : q # p => src[q] = sources[q]
    BY <1>1
  <2>2. Typed(session, src, reqs, queued)
    BY <1>1, <2>1 DEF IInv, Sound, Typed
  <2>3. Aged(generation, session, src, reqs)
    <3>1. new.item.generation <= generation
      BY <1>1, <1>4, Ages, NoneFacts
    <3> QED
      BY <1>1, <2>1, <3>1 DEF IInv, Sound, Aged
  <2>4. Asked(session, src, reqs)
    BY <1>1, <1>2, <2>1 DEF IInv, Sound, Asked
  <2>5. Backed(session, src, reqs)
    <3> SUFFICES ASSUME NEW q \in Providers, src[q].item # None, src[q].item.resolving
                 PROVE  ResolveOf(q, src[q].item, session) \in reqs
      BY <1>1 DEF Backed
    <3>1. src[q].item = sources[q].item
      BY <1>4, <2>1
    <3> QED
      BY <1>3, <3>1 DEF IInv, Sound, Backed
  <2>6. Served(session, src, reqs, queued)
    <3> SUFFICES ASSUME queued # None
                 PROVE  Served(session, src, reqs, queued)
      BY DEF Served
    <3>1. Served(session, sources, requests, queued) /\ queued.provider \in Providers
      BY NoneFacts DEF IInv, Sound, Typed, Acceptances
    <3>2. queued.provider = p => queued.item # session.generation
      BY <1>1, <3>1 DEF Served
    <3> QED
      BY <1>4, <2>1, <3>1, <3>2 DEF Served
  <2>7. Ranged(session, src)
    BY <1>1, <1>4, <2>1 DEF IInv, Sound, Ranged
  <2>8. Sound(generation', session, src, reqs, queued)
    BY <2>2, <2>3, <2>4, <2>5, <2>6, <2>7 DEF Sound
  <2> HIDE DEF src
  <2>9. Changed(session, src, reqs, queued)
    BY <1>4 DEF src
  <2> QED
    BY <1>1, <2>8, <2>9, ChangedStep
<1>5. ASSUME NEW response \in Responses,
             Changed(session, [sources EXCEPT ![p] = Answered(p, response, r)], reqs, queued)
      PROVE  IInv'
  <2>1. response.reach \in 0..MaxQuery /\ response.more \in BOOLEAN /\ r.query \in 0..MaxQuery
    BY <1>1 DEF Responses, Requests
  <2>2. CASE response.reach = 0
    <3>1. Answered(p, response, r) \in SourceStates /\ Answered(p, response, r).item = None
      BY <2>1, <2>2 DEF Answered, SourceStates
    <3> QED
      BY <1>4, <1>5, <3>1
  <2>3. CASE response.reach # 0
    <3>1. /\ Item(p, response.reach, r) \in Items
          /\ Item(p, response.reach, r).generation = session.generation
          /\ ~Item(p, response.reach, r).resolving
          /\ p \notin Wide => Item(p, response.reach, r).end = session.query
      BY <1>1, <2>1, <2>3, Bounds DEF Item, EndFor, Items
    <3>2. /\ Answered(p, response, r) \in SourceStates
          /\ Answered(p, response, r).item = Item(p, response.reach, r)
      BY <2>1, <2>3, <3>1 DEF Answered, SourceStates
    <3> QED
      BY <1>4, <1>5, <3>1, <3>2
  <2> QED
    BY <2>2, <2>3
<1>6. CASE Changed(session, [sources EXCEPT ![p].pending = FALSE], reqs, queued)
  <2> PICK new : new = [sources[p] EXCEPT !.pending = FALSE]
    OBVIOUS
  <2>1. new \in SourceStates /\ new.item = sources[p].item
        /\ [sources EXCEPT ![p].pending = FALSE] = [sources EXCEPT ![p] = new]
    BY <1>1 DEF SourceStates
  <2>2. Changed(session, [sources EXCEPT ![p] = new], reqs, queued)
    BY <1>6, <2>1
  <2> QED
    BY <1>4, <2>1, <2>2
<1> QED
  BY <1>5, <1>6 DEF Published

LEMMA ResolveEndsStep ==
  ASSUME IInv, NEW r \in requests, Heard(r), r.item # 0, NEW outcome,
         ResolveEnds(r, outcome, requests \ {r}), UNCHANGED generation
  PROVE  IInv'
<1> PICK p, reqs : p = r.provider /\ reqs = requests \ {r}
  OBVIOUS
<1>1. /\ session # None /\ r.generation = session.generation
      /\ p \in Providers /\ r.query = session.query
  BY DEF Heard, IInv, Sound, Typed, Asked, Requests
<1>2. CASE /\ sources[p].item = None \/ sources[p].item.generation # r.item
           /\ requests' = reqs /\ UNCHANGED <<revision, caret, session, sources, queued>>
  <2>1. \A q \in Providers : sources[q].item # None => r # ResolveOf(q, sources[q].item, session)
    BY <1>2 DEF ResolveOf, Request
  <2> QED
    BY <1>2, <2>1, ForgetStep
<1>3. CASE /\ sources[p].item # None /\ sources[p].item.generation = r.item
           /\ Resolved(p, r.item, r.query, reqs, queued)
  BY <1>1, <1>3, ResolvedStep
<1>4. CASE Unresolved(p, r.item, outcome # "cancelled", reqs, queued)
  <2> PICK item : item = r.item
    OBVIOUS
  <2>1. /\ reqs \in SUBSET requests
        /\ \A q \in requests \ reqs : q.provider = p /\ q.item = item
    OBVIOUS
  <2>2. CASE Unresolved(p, item, TRUE, reqs, queued)
    BY <1>1, <2>1, <2>2, UnresolvedStep
  <2>3. CASE Unresolved(p, item, FALSE, reqs, queued)
    BY <1>1, <2>1, <2>3, UnresolvedStep
  <2> QED
    BY <1>4, <2>2, <2>3 DEF Unresolved
<1> QED
  BY <1>2, <1>3, <1>4 DEF ResolveEnds

LEMMA DeliverStep ==
  ASSUME IInv, NEW r \in requests, NEW outcome, Deliver(r, outcome)
  PROVE  IInv'
<1>1. CASE ~Heard(r)
  <2>1. \A p \in Providers : session # None => r # ResolveOf(p, sources[p].item, session)
    BY <1>1 DEF Heard, ResolveOf, Request
  <2> QED
    BY <1>1, <2>1, ForgetStep DEF Deliver
<1>2. CASE Heard(r) /\ r.item = 0
  BY <1>2, PublishedStep DEF Deliver
<1>3. CASE Heard(r) /\ r.item # 0
  BY <1>3, ResolveEndsStep DEF Deliver
<1> QED
  BY <1>1, <1>2, <1>3

-----------------------------------------------------------------------------
(* The theorems.                                                           *)

\* The invariant holds at first and is kept by every step.
LEMMA CompletionInit == Init => IInv
<1> SUFFICES ASSUME Init PROVE IInv
  OBVIOUS
<1>1. Counters /\ Typed(session, sources, requests, queued)
  BY Bounds, BlankSources DEF Init, Counters, Typed
<1>2. Aged(generation, session, sources, requests)
  BY BlankSources, NoneFacts DEF Init, Aged
<1>3. /\ Asked(session, sources, requests) /\ Backed(session, sources, requests)
      /\ Served(session, sources, requests, queued) /\ Ranged(session, sources)
  BY BlankSources DEF Init, Asked, Backed, Served, Ranged
<1> QED
  BY <1>1, <1>2, <1>3 DEF IInv, Sound

LEMMA CompletionStep == IInv /\ [Next]_vars => IInv'
<1> SUFFICES ASSUME IInv, [Next]_vars PROVE IInv'
  OBVIOUS
<1>1. ASSUME NEW delta \in {-1, 1}, Type(delta) PROVE IInv'
  BY <1>1, UpdateStep, Bounds DEF Type, Edited, IInv, Counters
<1>2. CASE EditBehind
  BY <1>2, Bounds DEF EditBehind, Edited, IInv, Counters, Sound, Typed, Aged, Asked, Backed,
                      Served, Ranged
<1>3. CASE Refresh
  BY <1>3, UpdateStep DEF Refresh, IInv, Counters
<1>4. CASE Cancel
  BY <1>4, EndStep, Ages DEF Cancel, IInv, Counters, Sound, Typed
<1>5. CASE UNCHANGED vars
  BY <1>5 DEF vars, IInv, Counters, Sound, Typed, Aged, Asked, Backed, Served, Ranged
<1> QED
  BY StartStep, <1>1, <1>2, <1>3, <1>4, FocusStep, AcceptStep, DeliverStep, <1>5
     DEF Next, Provide

\* The inductive invariant: session, sources, requests and the waiting acceptance fit
\* together whatever the providers answer, and whenever.
THEOREM CompletionInvariant == Spec => []IInv
  BY CompletionInit, CompletionStep, PTL DEF Spec

\* Type correctness; no generation, query or revision leaves its bounds.
THEOREM CompletionTypeCorrect == Spec => []TypeOK
<1>1. IInv => TypeOK
  BY DEF IInv, Counters, Sound, Typed, TypeOK
<1> QED
  BY <1>1, CompletionInvariant, PTL

\* No item waits for a resolve nobody works on.
THEOREM NoOrphanResolve == Spec => []ResolvingIsBacked
<1>1. IInv => ResolvingIsBacked
  BY ResolveIs DEF IInv, Sound, Backed, ResolvingIsBacked
<1> QED
  BY <1>1, CompletionInvariant, PTL

\* An acceptance that waits is of this generation, and served by its item's resolve.
THEOREM AcceptanceServed == Spec => []AcceptanceIsServed
<1>1. IInv => AcceptanceIsServed
  BY DEF IInv, Sound, Served, AcceptanceIsServed
<1> QED
  BY <1>1, CompletionInvariant, PTL

\* An item of a provider whose ranges end at the caret always replaces the query.
THEOREM RangesFollow == Spec => []RangesFollowTheCaret
<1>1. IInv => RangesFollowTheCaret
  BY DEF IInv, Sound, Ranged, RangesFollowTheCaret
<1> QED
  BY <1>1, CompletionInvariant, PTL
=============================================================================
