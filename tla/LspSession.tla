----------------------------- MODULE LspSession -----------------------------
(***************************************************************************)
(* One LspSession (lsp/session.cpp) between its clients on the editor      *)
(* thread and a language server: the handshake, the table of pending       *)
(* requests, the documents the server has been told of, and failure.       *)
(*                                                                         *)
(* The runtime below is reduced to what AsyncProcesses shows of it: bytes  *)
(* are taken until the process ends or its termination is asked for, and   *)
(* its callbacks come in order, the end last. A handler is one action: its *)
(* callbacks run after its own changes, so what they call is a next step;  *)
(* and a process that dies between two writes of a handler leaves the      *)
(* session as one that died before the first, failed and deaf.             *)
(***************************************************************************)
EXTENDS Integers, Sequences, FiniteSets, SequencesExt

CONSTANTS
    Uri, Language,
    MaxRevision,   \* bound: revisions of a document
    MaxRequests,   \* bound: requests of the clients
    MaxEvents      \* bound: snapshots synchronized, and requests or noise of the server

\* "none" stands for no document and for no language.
ASSUME SessionAssumption ==
    /\ {MaxRevision, MaxRequests, MaxEvents} \subseteq Nat
    /\ IsFiniteSet(Uri) /\ "none" \notin Uri

VARIABLES
    state, stopping,
    process,             \* process_.valid()
    nextRequest, initializeRequest,
    pending,             \* pending_: by id, the document it is about and whether it was sent
    documents,
    fate,                \* what the owner of each request has been told
    child,               \* the server process, as the runtime sees it
    ready,               \* records for the session, oldest first
    server,              \* the server, with what it has not read yet
    events               \* how many there were (a bound, not in the code)

sessionVars == <<state, stopping, process, nextRequest, initializeRequest,
                 pending, documents, fate>>
vars == <<sessionVars, child, ready, server, events>>

Id      == 1..(MaxRequests + 1)     \* one of them is initialize
None    == [language |-> "none", revision |-> 0, published |-> FALSE]
Closed  == [language |-> "none", version |-> 0]   \* as the server has it

\* inbox: written and not read yet; phase: how far the handshake has come;
\* asked: requests read and not answered yet; confused: something came that the
\* protocol does not allow.
NewServer == [inbox |-> <<>>, phase |-> "new", asked |-> {}, seen |-> {},
              copy |-> [u \in Uri |-> Closed], confused |-> FALSE]

Init ==
    /\ state = "Stopped" /\ stopping = FALSE /\ process = FALSE
    /\ nextRequest = 0 /\ initializeRequest = 0
    /\ pending = <<>> /\ documents = [u \in Uri |-> None]
    /\ fate = [r \in Id |-> "none"]
    /\ child = "none" /\ ready = <<>> /\ server = NewServer
    /\ events = 0

-----------------------------------------------------------------------------
(* Sending and failing.                                                    *)

\* Messages to the server: kind, a request's id, a document and its version.
ToServer(kind, id, u, document) ==
    [kind |-> kind, id |-> id, uri |-> u,
     language |-> document.language, version |-> document.revision]
Plain(kind, id)  == ToServer(kind, id, "none", None)
Notice(kind, u)  == ToServer(kind, 0, u, documents[u])
RequestMessage(id, p) == ToServer("request", id, p.uri, [None EXCEPT !.revision = p.revision])

\* write() takes bytes: the process is known to the runtime and not stopped.
Writable == process /\ child \in {"spawned", "running"}

Send(messages) == server' = [server EXCEPT !.inbox = @ \o messages]

\* What a process that ends, or is made to, has not read is lost.
Lost == server' = [NewServer EXCEPT !.confused = server.confused]

Terminate == child' = (IF Writable THEN "terminated" ELSE child) /\ Lost

\* Mutant: only requests that were sent hear of the failure.
FailWithSent(p, f) ==
    IF state = "Failed"
    THEN pending' = p /\ fate' = f /\ UNCHANGED <<state, child, server>>
    ELSE /\ state' = "Failed"
         /\ pending' = <<>>
         /\ fate' = [r \in Id |-> IF r \in DOMAIN p /\ p[r].sent THEN "failed" ELSE f[r]]
         /\ Terminate

\* fail() with p as the table, when owners have been told f.
FailWith(p, f) ==
    IF state = "Failed"
    THEN pending' = p /\ fate' = f /\ UNCHANGED <<state, child, server>>
    ELSE /\ state' = "Failed"
         /\ pending' = <<>>
         /\ fate' = [r \in Id |-> IF r \in DOMAIN p THEN "failed" ELSE f[r]]
         /\ Terminate
Fail == FailWith(pending, fate)

\* start(): spawn() takes the process, or throws.
StartThrows == state' = "Failed" /\ UNCHANGED <<process, child>>
Start == state' = "Starting" /\ process' = TRUE /\ child' = "spawned"
StartIfStopped == IF state = "Stopped" THEN Start ELSE UNCHANGED <<state, process, child>>

-----------------------------------------------------------------------------
(* What clients call.                                                      *)

Count == events < MaxEvents /\ events' = events + 1

\* A request for document u, which its maker has just synchronized, or for none.
Request(u) ==
    LET id  == nextRequest + 1
        new == [uri |-> u, revision |-> IF u = "none" THEN 0 ELSE documents[u].revision,
                sent |-> state = "Ready"]
        table == [r \in DOMAIN pending \cup {id} |-> IF r = id THEN new ELSE pending[r]]
    IN
    /\ ~stopping /\ state # "Failed"
    /\ u # "none" => documents[u] # None
    /\ Cardinality({r \in Id : fate[r] # "none"}) < MaxRequests
    /\ \/ /\ state = "Stopped" /\ StartThrows
          /\ UNCHANGED <<nextRequest, pending, fate, server>>
       \/ /\ nextRequest' = id
          /\ IF state = "Ready" /\ ~Writable
             THEN FailWith(table, fate) /\ UNCHANGED process
             ELSE /\ fate' = [fate EXCEPT ![id] = "open"]
                  /\ pending' = table
                  /\ Send(IF new.sent THEN <<RequestMessage(id, new)>> ELSE <<>>)
                  /\ StartIfStopped
    /\ UNCHANGED <<stopping, initializeRequest, documents, ready, events>>

CancelRequest(id) ==
    LET f     == [fate EXCEPT ![id] = "cancelled"]
        table == Restrict(pending, DOMAIN pending \ {id})
        told  == pending[id].sent /\ state = "Ready"
    IN
    /\ id \in DOMAIN pending
    /\ IF told /\ ~Writable
       THEN FailWith(table, f)
       ELSE /\ fate' = f /\ pending' = table
            /\ Send(IF told THEN <<Plain("cancel", id)>> ELSE <<>>)
            /\ UNCHANGED <<state, child>>
    /\ UNCHANGED <<stopping, process, nextRequest, initializeRequest, documents,
                   ready, events>>

\* Mutant: every snapshot opens.
PublicationOpens(u, document) == ToServer("open", 0, u, document)

\* publish_document(): the first snapshot opens, the others change.
Publication(u, document) ==
    ToServer(IF document.published THEN "change" ELSE "open", 0, u, document)

\* Mutant: a change of language is a change like any other.
ReopenedNever(old, l) == FALSE

\* The server must close the document, to open it in another language.
Reopened(old, l) == old.published /\ old.language # l

\* synchronize_document() with a snapshot that is neither stale nor known.
SynchronizeDocument(u, v, l) ==
    LET old      == documents[u]
        reopened == Reopened(old, l)
        new      == [language |-> l, revision |-> v, published |-> old.published /\ ~reopened]
    IN
    /\ ~stopping /\ state # "Failed"
    /\ Count
    /\ v >= old.revision /\ <<l, v>> # <<old.language, old.revision>>
    /\ CASE state = "Ready" /\ Writable ->
              /\ Send((IF reopened THEN <<Notice("close", u)>> ELSE <<>>) \o <<Publication(u, new)>>)
              /\ documents' = [documents EXCEPT ![u] = [new EXCEPT !.published = TRUE]]
              /\ UNCHANGED <<state, process, pending, fate, child>>
         [] state = "Ready" /\ ~Writable ->
              /\ documents' = [documents EXCEPT ![u] = IF reopened THEN old ELSE new]
              /\ Fail /\ UNCHANGED process
         [] OTHER ->
              /\ documents' = [documents EXCEPT ![u] = new]
              /\ StartIfStopped \/ (state = "Stopped" /\ StartThrows)
              /\ UNCHANGED <<pending, fate, server>>
    /\ UNCHANGED <<stopping, nextRequest, initializeRequest, ready>>

CloseDocument(u) ==
    LET told  == documents[u].published /\ state = "Ready"
        \* what the requests still ask about: no document of the server's
        table == [r \in DOMAIN pending |-> IF pending[r].uri = u /\ ~pending[r].sent
                                           THEN [pending[r] EXCEPT !.uri = "none"] ELSE pending[r]]
    IN
    /\ ~stopping /\ documents[u] # None
    /\ documents' = [documents EXCEPT ![u] = None]
    /\ IF told /\ ~Writable
       THEN Fail
       ELSE /\ Send(IF told THEN <<Notice("close", u)>> ELSE <<>>)
            /\ pending' = table
            /\ UNCHANGED <<state, fate, child>>
    /\ UNCHANGED <<stopping, process, nextRequest, initializeRequest, ready, events>>

\* stop(), from the destructor: the registry erased or replaced the session. Its
\* documents go with it, and what the process still says is addressed to nobody.
Stop ==
    /\ ~stopping /\ stopping' = TRUE
    /\ fate' = [r \in Id |-> IF r \in DOMAIN pending THEN "cancelled" ELSE fate[r]]
    /\ pending' = <<>>
    /\ Terminate /\ ready' = <<>>
    /\ documents' = [u \in Uri |-> None]
    /\ process' = FALSE
    /\ state' = "Stopped"
    /\ UNCHANGED <<nextRequest, initializeRequest, events>>

-----------------------------------------------------------------------------
(* What the runtime delivers. A chunk of output is a record per message:   *)
(* after a failure the code drops the rest of a chunk and handles later    *)
(* ones, but a failed session can neither send nor find a request.         *)

\* process_started(): the id comes from the one counter of all requests.
ProcessStarted ==
    LET id == nextRequest + 1 IN
    /\ nextRequest' = id /\ initializeRequest' = id
    /\ IF Writable
       THEN /\ state' = "Initializing"
            /\ Send(<<Plain("initialize", id)>>)
            /\ UNCHANGED <<pending, fate, child>>
       ELSE Fail
    /\ UNCHANGED <<process, documents>>

\* initialize_completed(): documents first, then the requests that waited, in
\* whatever order the tables have.
InitializeCompleted(answer) ==
    IF answer = "error" \/ ~Writable
    THEN Fail /\ UNCHANGED documents
    ELSE \E us \in SetToSeqs({u \in Uri : documents[u] # None}),
            rs \in SetToSeqs({r \in DOMAIN pending : ~pending[r].sent}) :
         /\ state' = "Ready"
         /\ Send(<<Plain("initialized", 0)>>
                 \o [i \in DOMAIN us |-> Publication(us[i], documents[us[i]])]
                 \o [i \in DOMAIN rs |-> RequestMessage(rs[i], pending[rs[i]])])
         /\ documents' = [u \in Uri |-> IF documents[u] = None THEN None
                                       ELSE [documents[u] EXCEPT !.published = TRUE]]
         /\ pending' = [r \in DOMAIN pending |-> [pending[r] EXCEPT !.sent = TRUE]]
         /\ UNCHANGED <<fate, child>>

Answered(id, answer) ==
    IF id = initializeRequest THEN InitializeCompleted(answer)
    ELSE /\ pending' = Restrict(pending, DOMAIN pending \ {id})
         /\ fate' = IF id \notin DOMAIN pending THEN fate
                    ELSE [fate EXCEPT ![id] = IF answer = "error" THEN "failed" ELSE "completed"]
         /\ UNCHANGED <<state, child, server, documents>>

\* The answer to a request of the server's.
Reply == IF Writable
         THEN Send(<<Plain("reply", 0)>>) /\ UNCHANGED <<state, pending, fate, child>>
         ELSE Fail

\* handle_message(), and a message that cannot be framed or parsed. An answer
\* turns out to be a result or an error.
HandleMessage(m) ==
    /\ CASE m.kind = "answer" -> \E answer \in {"result", "error"} : Answered(m.id, answer)
         [] m.kind = "malformed" -> Fail /\ UNCHANGED documents
         [] m.kind = "ask"       -> Reply /\ UNCHANGED documents
    /\ UNCHANGED <<process, nextRequest, initializeRequest>>

\* Mutant: only a ready session is failed by the end of its process.
ProcessEndedReady(kind) ==
    /\ IF state = "Ready" THEN Fail ELSE UNCHANGED <<state, pending, fate, child, server>>
    /\ process' = (process /\ kind = "cancelled")
    /\ UNCHANGED <<nextRequest, initializeRequest, documents>>

\* process_completed() and process_failed(); the cancelled callback leaves
\* process_ as it is.
ProcessEnded(kind) ==
    /\ Fail
    /\ process' = (process /\ kind = "cancelled")
    /\ UNCHANGED <<nextRequest, initializeRequest, documents>>

Deliver ==
    /\ ready # <<>> /\ ready' = Tail(ready)
    /\ CASE Head(ready).kind = "started" -> ProcessStarted
         [] Head(ready).kind \in {"ended", "cancelled"} -> ProcessEnded(Head(ready).kind)
         [] OTHER -> HandleMessage(Head(ready))
    /\ UNCHANGED <<stopping, events>>

-----------------------------------------------------------------------------
(* The process and the server in it: external.                             *)

\* After stop() nobody is left to hear.
Post(kind, id) == ready' = IF stopping THEN ready ELSE Append(ready, [kind |-> kind, id |-> id])

ProcessStarts == /\ child = "spawned"
                 /\ child' = "running" /\ Post("started", 0)
                 /\ UNCHANGED <<sessionVars, server, events>>

\* It ends by itself, or as asked; what it has not read is lost.
ProcessEnds ==
    /\ \/ child = "spawned" /\ Post("ended", 0)
       \/ child = "running" /\ Post("ended", 0)
       \/ child = "terminated" /\ \E kind \in {"cancelled", "ended"} : Post(kind, 0)
    /\ child' = "gone" /\ Lost
    /\ UNCHANGED <<sessionVars, events>>

\* What the protocol lets a client send to a server in state s.
Proper(s, m) ==
    LET copy == s.copy[m.uri] IN
    CASE m.kind = "initialize"  -> s.phase = "new"
      [] m.kind = "initialized" -> s.phase = "answered"
      [] m.kind = "request"     -> /\ s.phase = "ready" /\ m.id \notin s.seen
                                   /\ m.uri # "none" => copy # Closed /\ copy.version >= m.version
      [] m.kind = "cancel"      -> m.id \in s.seen
      [] m.kind = "open"        -> s.phase = "ready" /\ copy = Closed
      [] m.kind = "change"      -> copy # Closed /\ copy.version < m.version
      [] m.kind = "close"       -> copy # Closed
      [] m.kind = "reply"       -> TRUE

\* The server after reading m.
Read(s, m) ==
    LET seen == [s EXCEPT !.inbox = Tail(@), !.confused = @ \/ ~Proper(s, m)] IN
    CASE m.kind = "initialize"  -> [seen EXCEPT !.phase = "asked", !.asked = @ \cup {m.id}]
      [] m.kind = "initialized" -> [seen EXCEPT !.phase = "ready"]
      [] m.kind = "request"     -> [seen EXCEPT !.asked = @ \cup {m.id}, !.seen = @ \cup {m.id}]
      [] m.kind = "open"        -> [seen EXCEPT !.copy[m.uri] = [language |-> m.language, version |-> m.version]]
      [] m.kind = "change"      -> [seen EXCEPT !.copy[m.uri].version = m.version]
      [] m.kind = "close"       -> [seen EXCEPT !.copy[m.uri] = Closed]
      [] OTHER                  -> seen

ServerReads == /\ child = "running" /\ server.inbox # <<>>
               /\ server' = Read(server, Head(server.inbox))
               /\ UNCHANGED <<sessionVars, child, ready, events>>

ServerAnswers(id) ==
    /\ child = "running" /\ id \in server.asked
    /\ server' = [server EXCEPT !.asked = @ \ {id},
                                !.phase = IF @ = "asked" THEN "answered" ELSE @]
    /\ Post("answer", id)
    /\ UNCHANGED <<sessionVars, child, events>>

\* A request of the server's own, or bytes that are no message.
ServerSends(kind) ==
    /\ child = "running" /\ Count
    /\ kind = "ask" => server.phase \in {"answered", "ready"}
    /\ Post(kind, 0)
    /\ UNCHANGED <<sessionVars, child, server>>

-----------------------------------------------------------------------------
Next ==
    \/ \E u \in Uri \cup {"none"} : Request(u)
    \/ \E id \in Id : CancelRequest(id)
    \/ \E u \in Uri, v \in 1..MaxRevision, l \in Language : SynchronizeDocument(u, v, l)
    \/ \E u \in Uri : CloseDocument(u)
    \/ Stop \/ Deliver
    \/ ProcessStarts \/ ProcessEnds
    \/ ServerReads \/ \E id \in Id : ServerAnswers(id)
    \/ \E kind \in {"ask", "malformed"} : ServerSends(kind)

Spec == Init /\ [][Next]_vars /\ WF_vars(Deliver) /\ WF_vars(ProcessStarts) /\ WF_vars(ServerReads)

-----------------------------------------------------------------------------
(* Properties.                                                             *)

Kinds == {"started", "ended", "cancelled", "answer", "ask", "malformed"}

\* Types; only a session that has come to be ready has published or sent anything.
TypeOK ==
    /\ state \in {"Stopped", "Starting", "Initializing", "Ready", "Failed"}
    /\ {stopping, process} \subseteq BOOLEAN
    /\ nextRequest \in 0..(MaxRequests + 1) /\ initializeRequest \in 0..nextRequest
    /\ DOMAIN pending \subseteq 1..nextRequest \ {initializeRequest}
    /\ \A r \in DOMAIN pending : pending[r] \in
          [uri : Uri \cup {"none"}, revision : 0..MaxRevision, sent : BOOLEAN]
    /\ \A u \in Uri : documents[u] = None \/ documents[u] \in
          [language : Language, revision : 1..MaxRevision, published : BOOLEAN]
    /\ fate \in [Id -> {"none", "open", "completed", "failed", "cancelled"}]
    /\ child \in {"none", "spawned", "running", "terminated", "gone"}
    /\ \A i \in DOMAIN ready : ready[i].kind \in Kinds
    /\ state \in {"Starting", "Initializing"} =>
          /\ \A r \in DOMAIN pending : ~pending[r].sent
          /\ \A u \in Uri : ~documents[u].published

\* In whatever order documents are synchronized and closed and requests made
\* around the handshake, the server reads what LSP allows: nothing between
\* initialize and initialized, documents opened before they change, versions
\* that grow, cancellations of requests it knows, and no request for a document
\* at a revision it has not been given.
ProtocolKept == ~server.confused

\* A ready session's server has, once it has read what is on the way about a document,
\* exactly the session's document, at its revision and in its language: the server can
\* always read on, so that this is about whatever is on the way.
ServerCopyFollows ==
    state = "Ready" /\ Writable =>
        \A u \in Uri :
            (\A i \in DOMAIN server.inbox : server.inbox[i].uri # u) =>
                server.copy[u] = [language |-> documents[u].language,
                                  version  |-> documents[u].revision]

Lifecycle == INSTANCE RequestLifecycle WITH
    Requests <- Id, broken <- state = "Failed", closed <- stopping

\* "Session failure completes every pending request with the transport error"
\* (lsp.md), each owner is called once, and a failed session stays failed.
Implements == Lifecycle!Spec

\* Requests made before or after the handshake get through: one that stays pending
\* for ever is one the server sits on, or the server never ends the handshake.
RequestsGetThrough ==
    \A r \in Id : <>[](r \in DOMAIN pending)
                   => <>[](server.asked \cap {r, initializeRequest} # {})
=============================================================================
