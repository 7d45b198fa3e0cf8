--------------------------- MODULE LspSessionProofs ---------------------------
(***************************************************************************)
(* Proofs about LspSession, for every finite set of documents, every set   *)
(* of languages and any number of revisions, requests and events: its      *)
(* types, that it implements RequestLifecycle, and what the server hears   *)
(* (WireInv): nothing that is against the protocol, and in the end the     *)
(* documents of the session.                                               *)
(***************************************************************************)
EXTENDS LspSession, FiniteSetTheorems, TLAPS

-----------------------------------------------------------------------------
(* The inductive invariant, part by part.                                  *)

Record   == [uri : Uri \cup {"none"}, revision : 0..MaxRevision, sent : BOOLEAN]
Snapshot == [language : Language, revision : 1..MaxRevision, published : BOOLEAN]

\* TypeOK without its last conjunct, which UnsentInv strengthens.
SessionTypes ==
    /\ state \in {"Stopped", "Starting", "Initializing", "Ready", "Failed"}
    /\ stopping \in BOOLEAN /\ process \in BOOLEAN
    /\ nextRequest \in 0..(MaxRequests + 1) /\ initializeRequest \in 0..nextRequest
    /\ \A r \in DOMAIN pending : pending[r] \in Record
    /\ \A u \in Uri : documents[u] = None \/ documents[u] \in Snapshot
    /\ DOMAIN documents = Uri
    /\ fate \in [Id -> {"none", "open", "completed", "failed", "cancelled"}]
    /\ child \in {"none", "spawned", "running", "terminated", "gone"}
    /\ ready \in Seq([kind : Kinds, id : Id \cup {0}])

\* pending_ holds the requests whose owners wait, the counter has given out one id
\* to each owner and one to initialize, and it keeps one for initialize until then.
TableInv ==
    /\ DOMAIN pending = {r \in Id : fate[r] = "open"}
    /\ \A r \in Id : fate[r] # "none" <=> r \in 1..nextRequest \ {initializeRequest}
    /\ initializeRequest = 0 => nextRequest <= MaxRequests

\* The process starts at most once, and before the session knows, nothing else has
\* been heard of it.
StartInv ==
    /\ child \in {"none", "spawned"} => ready = <<>> /\ initializeRequest = 0
    /\ \A i \in DOMAIN ready :
        /\ ready[i].kind = "started" => i = 1 /\ initializeRequest = 0
        /\ ready[i].kind = "answer" => ready[i].id # 0
    /\ initializeRequest = 0 => state \in {"Stopped", "Starting", "Failed"}

\* A session that has stopped hears nothing, one that has not begun has no process,
\* and one that has failed cannot write.
EndInv ==
    /\ stopping => state = "Stopped" /\ ready = <<>>
    /\ state = "Stopped" => DOMAIN pending = {} /\ (stopping \/ child = "none")
    /\ state = "Failed" => DOMAIN pending = {} /\ ~Writable

\* Before the session is ready nothing has been sent.
UnsentInv ==
    state \in {"Stopped", "Starting", "Initializing"} =>
        /\ \A r \in DOMAIN pending : ~pending[r].sent
        /\ \A u \in Uri : ~documents[u].published

IInv == SessionTypes /\ TableInv /\ StartInv /\ EndInv /\ UnsentInv

-----------------------------------------------------------------------------
(* Facts about sequences, sets and the operators of the session.           *)

\* What Append does to each place of a sequence.
LEMMA Appended ==
    ASSUME NEW S, NEW s \in Seq(S), NEW e \in S
    PROVE  /\ Append(s, e) \in Seq(S)
           /\ \A i \in DOMAIN Append(s, e) :
                \/ i \in DOMAIN s /\ Append(s, e)[i] = s[i]
                \/ i = Len(s) + 1 /\ Append(s, e)[i] = e
    BY SMT

\* What Head and Tail find in a sequence.
LEMMA Rest ==
    ASSUME NEW S, NEW s \in Seq(S), s # <<>>
    PROVE  /\ 1 \in DOMAIN s /\ Head(s) = s[1] /\ Head(s) \in S
           /\ Tail(s) \in Seq(S)
           /\ \A i \in DOMAIN Tail(s) :
                i + 1 # 1 /\ i + 1 \in DOMAIN s /\ Tail(s)[i] = s[i + 1]
    BY SMT

\* The bound on requests leaves an id for the next one, and one for initialize.
LEMMA Room ==
    ASSUME SessionAssumption, SessionTypes, TableInv,
           Cardinality({r \in Id : fate[r] # "none"}) < MaxRequests
    PROVE  /\ nextRequest <= MaxRequests
           /\ initializeRequest = 0 => nextRequest < MaxRequests
  <1> DEFINE given == {r \in Id : fate[r] # "none"}
  <1>1. MaxRequests \in Nat /\ nextRequest \in Nat /\ nextRequest <= MaxRequests + 1
        BY DEF SessionAssumption, SessionTypes
  <1>2. given = 1..nextRequest \ {initializeRequest}
    <2>1. 1..nextRequest \subseteq Id
          BY <1>1 DEF Id
    <2> QED BY <2>1 DEF TableInv
  <1>3. IsFiniteSet(1..nextRequest) /\ Cardinality(1..nextRequest) = nextRequest
    <2>1. IsFiniteSet(1..nextRequest)
          BY <1>1, FS_Interval
    <2>2. Cardinality(1..nextRequest) = IF 1 > nextRequest THEN 0 ELSE nextRequest - 1 + 1
          BY <1>1, FS_Interval
    <2> QED BY <1>1, <2>1, <2>2
  <1>4. CASE initializeRequest = 0
    <2>1. given = 1..nextRequest
          BY <1>2, <1>4
    <2>2. Cardinality(given) = nextRequest
          BY <1>3, <2>1
    <2> QED BY <1>1, <1>4, <2>2
  <1>5. CASE initializeRequest # 0
    <2>1. initializeRequest \in 1..nextRequest
          BY <1>1, <1>5 DEF SessionTypes
    <2>2. Cardinality(given) = nextRequest - 1
          BY <1>2, <1>3, <2>1, FS_RemoveElement
    <2> QED BY <1>1, <1>5, <2>2
  <1> QED BY <1>4, <1>5

\* The invariant holds at the start.
LEMMA InvariantAtStart == ASSUME SessionAssumption, Init PROVE IInv
  <1> USE DEF Init
  <1>1. SessionTypes
    <2>1. DOMAIN pending = {} /\ ready \in Seq([kind : Kinds, id : Id \cup {0}])
          OBVIOUS
    <2>2. fate \in [Id -> {"none", "open", "completed", "failed", "cancelled"}]
          OBVIOUS
    <2>3. nextRequest \in 0..(MaxRequests + 1) /\ initializeRequest \in 0..nextRequest
          BY DEF SessionAssumption
    <2>4. DOMAIN documents = Uri /\ \A u \in Uri : documents[u] = None
          OBVIOUS
    <2> QED BY <2>1, <2>2, <2>3, <2>4 DEF SessionTypes
  <1>2. TableInv
        BY DEF TableInv, SessionAssumption
  <1>3. StartInv
        BY DEF StartInv
  <1>4. EndInv
        BY DEF EndInv, Writable
  <1>5. UnsentInv
        BY DEF UnsentInv, None
  <1> QED BY <1>1, <1>2, <1>3, <1>4, <1>5 DEF IInv

-----------------------------------------------------------------------------
(* Each action preserves the invariant.                                    *)

\* A request: its id is new, and it ends at once or waits.
LEMMA RequestKeeps ==
    ASSUME SessionAssumption, IInv, NEW u \in Uri \cup {"none"}, Request(u)
    PROVE  IInv'
  <1> DEFINE id    == nextRequest + 1
             new   == [uri |-> u, revision |-> IF u = "none" THEN 0 ELSE documents[u].revision,
                       sent |-> state = "Ready"]
             table == [r \in DOMAIN pending \cup {id} |-> IF r = id THEN new ELSE pending[r]]
  <1> USE DEF IInv
  <1>1. /\ nextRequest <= MaxRequests
        /\ initializeRequest = 0 => nextRequest < MaxRequests
        /\ ~stopping /\ state # "Failed"
        /\ UNCHANGED <<stopping, initializeRequest, documents, ready>>
        BY Room DEF Request
  <1>2. /\ id \in Id /\ id \in 1..(MaxRequests + 1) /\ fate[id] = "none" /\ id \notin DOMAIN pending
        /\ initializeRequest \in 0..id /\ initializeRequest # id
    <2>1. MaxRequests \in Nat /\ nextRequest \in Nat /\ initializeRequest \in 0..nextRequest
          BY DEF SessionAssumption, SessionTypes
    <2>2. id \in Id /\ id \notin 1..nextRequest
          BY <1>1, <2>1 DEF Id
    <2>3. fate[id] = "none" /\ id \notin DOMAIN pending
          BY <2>2 DEF TableInv
    <2>4. id \in 1..(MaxRequests + 1) /\ initializeRequest \in 0..id /\ initializeRequest # id
          BY <1>1, <2>1
    <2> QED BY <2>2, <2>3, <2>4
  <1>3. new \in Record
        BY DEF Request, SessionTypes, Record, Snapshot, SessionAssumption
  <1>4. CASE state = "Stopped" /\ StartThrows /\ UNCHANGED <<nextRequest, pending, fate, server>>
        BY <1>1, <1>4 DEF StartThrows, SessionTypes, TableInv, StartInv, EndInv, UnsentInv, Writable
  <1>5. CASE /\ nextRequest' = id
             /\ state = "Ready" /\ ~Writable
             /\ FailWith(table, fate) /\ UNCHANGED process
    <2>1. /\ pending' = <<>> /\ state' = "Failed"
          /\ fate' = [r \in Id |-> IF r \in DOMAIN table THEN "failed" ELSE fate[r]]
          /\ UNCHANGED process /\ child' = child
          BY <1>1, <1>5 DEF FailWith, Terminate
    <2>2. SessionTypes'
          BY <1>1, <1>2, <1>5, <2>1 DEF SessionTypes
    <2>3. TableInv'
      <3>1. \A r \in Id : fate'[r] # "none" <=> fate[r] # "none" \/ r = id
            BY <1>2, <2>1 DEF TableInv, SessionTypes
      <3>2. DOMAIN pending' = {} /\ \A r \in Id : fate'[r] # "open"
            BY <1>2, <2>1 DEF TableInv, SessionTypes
      <3> QED BY <1>1, <1>2, <1>5, <3>1, <3>2 DEF TableInv, SessionTypes, SessionAssumption
    <2> QED BY <1>1, <1>5, <2>1, <2>2, <2>3 DEF StartInv, EndInv, UnsentInv, Writable
  <1>6. CASE /\ nextRequest' = id
             /\ fate' = [fate EXCEPT ![id] = "open"] /\ pending' = table
             /\ StartIfStopped
    <2>1. /\ \/ state = "Stopped" /\ state' = "Starting" /\ process' = TRUE /\ child' = "spawned"
                /\ child = "none"
             \/ state # "Stopped" /\ UNCHANGED <<state, process, child>>
          BY <1>1, <1>6 DEF StartIfStopped, Start, EndInv
    <2>2. SessionTypes'
      <3>1. \A r \in DOMAIN pending' : pending'[r] \in Record
            BY <1>3, <1>6 DEF SessionTypes
      <3>2. /\ fate' \in [Id -> {"none", "open", "completed", "failed", "cancelled"}]
            /\ nextRequest' \in 0..(MaxRequests + 1) /\ initializeRequest' \in 0..nextRequest'
            BY <1>1, <1>2, <1>6 DEF SessionTypes, SessionAssumption
      <3> QED BY <1>1, <2>1, <3>1, <3>2 DEF SessionTypes
    <2>3. TableInv'
      <3>1. \A r \in Id : fate'[r] = IF r = id THEN "open" ELSE fate[r]
            BY <1>2, <1>6 DEF SessionTypes
      <3>2. DOMAIN pending' = DOMAIN pending \cup {id}
            BY <1>6
      <3> QED BY <1>1, <1>2, <1>6, <3>1, <3>2 DEF TableInv, SessionTypes, SessionAssumption
    <2>4. StartInv' /\ EndInv'
          BY <1>1, <2>1 DEF StartInv, EndInv, Writable
    <2>5. UnsentInv'
          BY <1>1, <1>6, <2>1 DEF UnsentInv
    <2> QED BY <2>2, <2>3, <2>4, <2>5
  <1> QED BY <1>4, <1>5, <1>6 DEF Request

\* fail() ends every pending request, and the session writes no more.
LEMMA FailKeeps ==
    ASSUME IInv, Fail, process' \in BOOLEAN, process' => process,
           UNCHANGED <<stopping, nextRequest, initializeRequest, documents>>,
           ready' \in Seq([kind : Kinds, id : Id \cup {0}]), StartInv',
           ~stopping
    PROVE  IInv'
  <1> USE DEF IInv
  <1>1. /\ state' = "Failed" /\ DOMAIN pending' = {} /\ ~Writable'
        /\ child' \in {child, "terminated"}
        /\ \A r \in Id : fate'[r] = IF r \in DOMAIN pending THEN "failed" ELSE fate[r]
        /\ fate' \in [Id -> {"none", "open", "completed", "failed", "cancelled"}]
        BY DEF Fail, FailWith, Terminate, Writable, EndInv, SessionTypes
  <1>2. SessionTypes'
        BY <1>1 DEF SessionTypes
  <1>3. TableInv'
        BY <1>1 DEF TableInv, SessionTypes
  <1>4. EndInv' /\ UnsentInv'
        BY <1>1 DEF EndInv, UnsentInv
  <1> QED BY <1>2, <1>3, <1>4

\* A cancellation ends the request, unless telling the server of it fails.
LEMMA CancelRequestKeeps ==
    ASSUME SessionAssumption, IInv, NEW id \in Id, CancelRequest(id)
    PROVE  IInv'
  <1> DEFINE f     == [fate EXCEPT ![id] = "cancelled"]
             table == Restrict(pending, DOMAIN pending \ {id})
             told  == pending[id].sent /\ state = "Ready"
  <1> USE DEF IInv
  <1>1. /\ id \in DOMAIN pending /\ ~stopping /\ state # "Failed" /\ fate[id] = "open"
        /\ UNCHANGED <<stopping, process, nextRequest, initializeRequest, documents, ready>>
        BY DEF CancelRequest, EndInv, TableInv
  <1>2. /\ DOMAIN table = DOMAIN pending \ {id}
        /\ \A r \in DOMAIN table : table[r] = pending[r]
        BY DEF Restrict
  <1>3. /\ \A r \in Id : f[r] = IF r = id THEN "cancelled" ELSE fate[r]
        /\ f \in [Id -> {"none", "open", "completed", "failed", "cancelled"}]
        BY DEF SessionTypes
  <1>4. CASE told /\ ~Writable /\ FailWith(table, f)
    <2>1. /\ state' = "Failed" /\ DOMAIN pending' = {} /\ child' = child
          /\ fate' = [r \in Id |-> IF r \in DOMAIN table THEN "failed" ELSE f[r]]
      <3> HIDE DEF f, table, told
      <3> QED BY <1>1, <1>4 DEF FailWith, Terminate
    <2>2. SessionTypes'
          BY <1>1, <1>3, <2>1 DEF SessionTypes
    <2>3. TableInv'
          BY <1>1, <1>2, <1>3, <2>1 DEF TableInv
    <2> QED BY <1>1, <1>4, <2>1, <2>2, <2>3 DEF StartInv, EndInv, UnsentInv, Writable
  <1>5. CASE fate' = f /\ pending' = table /\ UNCHANGED <<state, child>>
    <2>1. SessionTypes'
          BY <1>1, <1>2, <1>3, <1>5 DEF SessionTypes
    <2>2. TableInv'
          BY <1>1, <1>2, <1>3, <1>5 DEF TableInv
    <2> QED BY <1>1, <1>2, <1>5, <2>1, <2>2 DEF StartInv, EndInv, UnsentInv, Writable
  <1> QED BY <1>4, <1>5 DEF CancelRequest

\* A snapshot is sent by a ready session, and kept by one that is not.
LEMMA SynchronizeDocumentKeeps ==
    ASSUME SessionAssumption, IInv, NEW u \in Uri, NEW v \in 1..MaxRevision, NEW l \in Language,
           SynchronizeDocument(u, v, l)
    PROVE  IInv'
  <1> DEFINE old      == documents[u]
             reopened == Reopened(old, l)
             new      == [language |-> l, revision |-> v, published |-> old.published /\ ~reopened]
  <1> USE DEF IInv
  <1>1. /\ ~stopping /\ state # "Failed"
        /\ UNCHANGED <<stopping, nextRequest, initializeRequest, ready>>
        BY DEF SynchronizeDocument
  <1>2. new \in Snapshot /\ [new EXCEPT !.published = TRUE] \in Snapshot
        BY DEF Snapshot
  <1>3. CASE /\ state = "Ready"
             /\ documents' = [documents EXCEPT ![u] = [new EXCEPT !.published = TRUE]]
             /\ UNCHANGED <<state, process, pending, fate, child>>
    <2>1. SessionTypes'
          BY <1>1, <1>2, <1>3 DEF SessionTypes
    <2> QED BY <1>1, <1>3, <2>1 DEF TableInv, StartInv, EndInv, UnsentInv, Writable
  <1>4. CASE /\ state = "Ready" /\ ~Writable
             /\ documents' = [documents EXCEPT ![u] = IF reopened THEN old ELSE new]
             /\ Fail /\ UNCHANGED process
    <2>1. /\ state' = "Failed" /\ DOMAIN pending' = {} /\ child' = child
          /\ fate' = [r \in Id |-> IF r \in DOMAIN pending THEN "failed" ELSE fate[r]]
          BY <1>1, <1>4 DEF Fail, FailWith, Terminate
    <2>2. SessionTypes'
          BY <1>1, <1>2, <1>4, <2>1 DEF SessionTypes
    <2>3. TableInv'
          BY <1>1, <2>1 DEF TableInv, SessionTypes
    <2> QED BY <1>1, <1>4, <2>1, <2>2, <2>3 DEF StartInv, EndInv, UnsentInv, Writable
  <1>5. CASE /\ state # "Ready"
             /\ documents' = [documents EXCEPT ![u] = new]
             /\ StartIfStopped \/ (state = "Stopped" /\ StartThrows)
             /\ UNCHANGED <<pending, fate, server>>
    <2>1. /\ \/ /\ state = "Stopped" /\ state' \in {"Starting", "Failed"}
                /\ child = "none" /\ process' \in BOOLEAN
                /\ \/ state' = "Starting" /\ child' = "spawned"
                   \/ state' = "Failed" /\ child' = "none"
             \/ state # "Stopped" /\ UNCHANGED <<state, process, child>>
          BY <1>1, <1>5 DEF StartIfStopped, Start, StartThrows, EndInv, SessionTypes
    <2>2. ~new.published
      <3>1. state \in {"Stopped", "Starting", "Initializing"}
            BY <1>1, <1>5 DEF SessionTypes
      <3> QED BY <3>1 DEF UnsentInv
    <2>3. SessionTypes'
          BY <1>1, <1>2, <1>5, <2>1 DEF SessionTypes
    <2>4. StartInv' /\ EndInv'
          BY <1>1, <1>5, <2>1 DEF StartInv, EndInv, Writable
    <2>5. UnsentInv'
          BY <1>1, <1>5, <2>1, <2>2 DEF UnsentInv, SessionTypes
    <2> QED BY <1>1, <1>5, <2>3, <2>4, <2>5 DEF TableInv
  <1> QED BY <1>3, <1>4, <1>5 DEF SynchronizeDocument

\* A document that is closed leaves the requests that wait.
LEMMA CloseDocumentKeeps ==
    ASSUME SessionAssumption, IInv, NEW u \in Uri, CloseDocument(u)
    PROVE  IInv'
  <1> DEFINE told  == documents[u].published /\ state = "Ready"
             table == [r \in DOMAIN pending |-> IF pending[r].uri = u /\ ~pending[r].sent
                                                THEN [pending[r] EXCEPT !.uri = "none"] ELSE pending[r]]
  <1> USE DEF IInv
  <1>1. /\ ~stopping /\ documents' = [documents EXCEPT ![u] = None]
        /\ UNCHANGED <<stopping, process, nextRequest, initializeRequest, ready>>
        BY DEF CloseDocument
  <1>2. CASE told /\ ~Writable /\ Fail
    <2>1. /\ state' = "Failed" /\ DOMAIN pending' = {} /\ child' = child
          /\ fate' = [r \in Id |-> IF r \in DOMAIN pending THEN "failed" ELSE fate[r]]
          BY <1>1, <1>2 DEF Fail, FailWith, Terminate
    <2>2. SessionTypes'
          BY <1>1, <2>1 DEF SessionTypes
    <2>3. TableInv'
          BY <1>1, <2>1 DEF TableInv, SessionTypes
    <2> QED BY <1>1, <1>2, <2>1, <2>2, <2>3 DEF StartInv, EndInv, UnsentInv, Writable
  <1>3. CASE pending' = table /\ UNCHANGED <<state, fate, child>>
    <2>1. \A r \in DOMAIN table : table[r] \in Record /\ table[r].sent = pending[r].sent
      <3> SUFFICES ASSUME NEW r \in DOMAIN pending
                   PROVE  table[r] \in Record /\ table[r].sent = pending[r].sent
            OBVIOUS
      <3>1. pending[r] \in Record
            BY DEF SessionTypes
      <3>2. [pending[r] EXCEPT !.uri = "none"] \in Record
            BY <3>1 DEF Record
      <3> QED BY <3>1, <3>2 DEF Record
    <2>2. SessionTypes'
          BY <1>1, <1>3, <2>1 DEF SessionTypes
    <2>3. UnsentInv'
          BY <1>1, <1>3, <2>1 DEF UnsentInv, SessionTypes, None
    <2> QED BY <1>1, <1>3, <2>2, <2>3 DEF TableInv, StartInv, EndInv, Writable
  <1> QED BY <1>2, <1>3 DEF CloseDocument

\* The destructor cancels what is pending, and is deaf from then on.
LEMMA StopKeeps ==
    ASSUME SessionAssumption, IInv, Stop
    PROVE  IInv'
  <1> USE DEF IInv
  <1>1. /\ stopping' = TRUE /\ ready' = <<>> /\ state' = "Stopped" /\ process' = FALSE
        /\ fate' = [r \in Id |-> IF r \in DOMAIN pending THEN "cancelled" ELSE fate[r]]
        /\ DOMAIN pending' = {} /\ documents' = [u \in Uri |-> None]
        /\ child' \in {child, "terminated"}
        /\ UNCHANGED <<nextRequest, initializeRequest>>
        BY DEF Stop, Terminate
  <1>2. SessionTypes'
    <2>1. ready' \in Seq([kind : Kinds, id : Id \cup {0}])
          BY <1>1
    <2>2. fate' \in [Id -> {"none", "open", "completed", "failed", "cancelled"}]
          BY <1>1 DEF SessionTypes
    <2>3. DOMAIN pending' = {} /\ DOMAIN documents' = Uri /\ \A u \in Uri : documents'[u] = None
          BY <1>1
    <2> QED BY <1>1, <2>1, <2>2, <2>3 DEF SessionTypes
  <1>3. TableInv'
        BY <1>1 DEF TableInv, SessionTypes
  <1>4. StartInv' /\ EndInv' /\ UnsentInv'
        BY <1>1 DEF StartInv, EndInv, UnsentInv, None
  <1> QED BY <1>2, <1>3, <1>4

-----------------------------------------------------------------------------
(* What the runtime delivers.                                              *)

\* What every delivery does to the records.
LEMMA Delivery ==
    ASSUME IInv, Deliver
    PROVE  /\ Head(ready) \in [kind : Kinds, id : Id \cup {0}]
           /\ ready' \in Seq([kind : Kinds, id : Id \cup {0}])
           /\ \A i \in DOMAIN ready' :
                ready'[i].kind # "started" /\ (ready'[i].kind = "answer" => ready'[i].id # 0)
           /\ child \notin {"none", "spawned"}
           /\ Head(ready).kind = "started" => initializeRequest = 0
           /\ Head(ready).kind = "answer" => Head(ready).id # 0
           /\ ~stopping /\ UNCHANGED stopping
  <1> DEFINE E == [kind : Kinds, id : Id \cup {0}]
  <1>1. ready \in Seq(E) /\ ready # <<>> /\ ready' = Tail(ready) /\ UNCHANGED stopping
        BY DEF Deliver, IInv, SessionTypes
  <1>2. /\ 1 \in DOMAIN ready /\ Head(ready) = ready[1] /\ Head(ready) \in E
        /\ Tail(ready) \in Seq(E)
        /\ \A i \in DOMAIN Tail(ready) :
                i + 1 # 1 /\ i + 1 \in DOMAIN ready /\ Tail(ready)[i] = ready[i + 1]
    <2> HIDE DEF E
    <2> QED BY <1>1, Rest
  <1>3. /\ Head(ready).kind = "started" => initializeRequest = 0
        /\ Head(ready).kind = "answer" => Head(ready).id # 0
        BY <1>2 DEF IInv, StartInv
  <1>4. \A i \in DOMAIN Tail(ready) :
            /\ Tail(ready)[i].kind # "started"
            /\ Tail(ready)[i].kind = "answer" => Tail(ready)[i].id # 0
        BY <1>2 DEF IInv, StartInv
  <1>5. child \notin {"none", "spawned"} /\ ~stopping
        BY <1>1 DEF IInv, StartInv, EndInv
  <1> QED BY <1>1, <1>2, <1>3, <1>4, <1>5

\* The process has started: initialize takes the next id.
LEMMA ProcessStartedKeeps ==
    ASSUME SessionAssumption, IInv, Deliver, Head(ready).kind = "started", ProcessStarted
    PROVE  IInv'
  <1> USE DEF IInv
  <1> DEFINE id == nextRequest + 1
  <1>1. /\ ready' \in Seq([kind : Kinds, id : Id \cup {0}])
        /\ \A i \in DOMAIN ready' :
                ready'[i].kind # "started" /\ (ready'[i].kind = "answer" => ready'[i].id # 0)
        /\ child \notin {"none", "spawned"} /\ initializeRequest = 0
        /\ ~stopping /\ UNCHANGED stopping
        /\ nextRequest' = id /\ initializeRequest' = id /\ UNCHANGED <<process, documents>>
        BY Delivery DEF ProcessStarted
  <1>2. /\ state \in {"Stopped", "Starting", "Failed"} /\ nextRequest <= MaxRequests
        /\ nextRequest \in Nat /\ MaxRequests \in Nat
        BY <1>1 DEF StartInv, TableInv, SessionTypes, SessionAssumption
  <1>3. initializeRequest' # 0 /\ nextRequest' \in 0..(MaxRequests + 1)
        /\ initializeRequest' \in 0..nextRequest'
        BY <1>1, <1>2
  <1>4. 1..nextRequest' \ {initializeRequest'} = 1..nextRequest \ {initializeRequest}
        BY <1>1, <1>2
  <1>5. CASE Writable /\ state' = "Initializing" /\ UNCHANGED <<pending, fate, child>>
    <2>1. SessionTypes'
          BY <1>1, <1>3, <1>5 DEF SessionTypes
    <2>2. TableInv'
          BY <1>3, <1>4, <1>5 DEF TableInv
    <2>3. state \in {"Stopped", "Starting"}
          BY <1>2, <1>5 DEF EndInv
    <2> QED BY <1>1, <1>3, <1>5, <2>1, <2>2, <2>3 DEF StartInv, EndInv, UnsentInv, Writable
  <1>6. CASE ~Writable /\ Fail
    <2>1. /\ state' = "Failed" /\ DOMAIN pending' = {} /\ child' = child
          /\ fate' \in [Id -> {"none", "open", "completed", "failed", "cancelled"}]
          /\ \A r \in Id : fate'[r] = IF r \in DOMAIN pending THEN "failed" ELSE fate[r]
          BY <1>6 DEF Fail, FailWith, Terminate, EndInv, SessionTypes
    <2>2. SessionTypes'
          BY <1>1, <1>3, <2>1 DEF SessionTypes
    <2>3. TableInv'
          BY <1>3, <1>4, <2>1 DEF TableInv
    <2> QED BY <1>1, <1>3, <1>6, <2>1, <2>2, <2>3 DEF StartInv, EndInv, UnsentInv, Writable
  <1> QED BY <1>5, <1>6 DEF ProcessStarted

\* The other records that fail a session.
LEMMA DeliveryFails ==
    ASSUME SessionAssumption, IInv, Deliver, Fail, process' \in BOOLEAN, process' => process,
           UNCHANGED <<nextRequest, initializeRequest, documents>>
    PROVE  IInv'
  <1>1. /\ ready' \in Seq([kind : Kinds, id : Id \cup {0}])
        /\ \A i \in DOMAIN ready' :
                ready'[i].kind # "started" /\ (ready'[i].kind = "answer" => ready'[i].id # 0)
        /\ child \notin {"none", "spawned"}
        /\ ~stopping /\ UNCHANGED stopping
        BY Delivery
  <1>2. state' = "Failed" /\ child' \in {child, "terminated"}
        BY DEF Fail, FailWith, Terminate
  <1>3. StartInv'
        BY <1>1, <1>2 DEF StartInv
  <1> QED BY <1>1, <1>3, FailKeeps

\* The end of the handshake sends what waited.
LEMMA InitializeCompletedKeeps ==
    ASSUME SessionAssumption, IInv, Deliver, initializeRequest # 0,
           NEW answer, InitializeCompleted(answer),
           UNCHANGED <<process, nextRequest, initializeRequest>>
    PROVE  IInv'
  <1> USE DEF IInv
  <1>1. CASE Fail /\ UNCHANGED documents
        BY <1>1, DeliveryFails DEF SessionTypes
  <1>2. CASE /\ Writable /\ state' = "Ready"
             /\ documents' = [u \in Uri |-> IF documents[u] = None THEN None
                                           ELSE [documents[u] EXCEPT !.published = TRUE]]
             /\ pending' = [r \in DOMAIN pending |-> [pending[r] EXCEPT !.sent = TRUE]]
             /\ UNCHANGED <<fate, child>>
    <2>1. /\ ready' \in Seq([kind : Kinds, id : Id \cup {0}])
          /\ \A i \in DOMAIN ready' :
                ready'[i].kind # "started" /\ (ready'[i].kind = "answer" => ready'[i].id # 0)
          /\ child \notin {"none", "spawned"}
          /\ ~stopping /\ UNCHANGED stopping
          BY Delivery
    <2>2. \A r \in DOMAIN pending' : pending'[r] \in Record
          BY <1>2 DEF SessionTypes, Record
    <2>3. \A u \in Uri : documents'[u] = None \/ documents'[u] \in Snapshot
      <3> SUFFICES ASSUME NEW u \in Uri
                   PROVE  documents'[u] = None \/ documents'[u] \in Snapshot
            OBVIOUS
      <3>1. documents'[u] = IF documents[u] = None THEN None
                            ELSE [documents[u] EXCEPT !.published = TRUE]
            BY <1>2
      <3>2. CASE documents[u] = None
            BY <3>1, <3>2
      <3>3. CASE documents[u] # None
        <4>1. documents[u] \in Snapshot
              BY <3>3 DEF SessionTypes
        <4> QED BY <3>1, <3>3, <4>1 DEF Snapshot
      <3> QED BY <3>2, <3>3
    <2>4. SessionTypes'
          BY <1>2, <2>1, <2>2, <2>3 DEF SessionTypes
    <2> QED BY <1>2, <2>1, <2>4 DEF TableInv, StartInv, EndInv, UnsentInv
  <1> QED BY <1>1, <1>2 DEF InitializeCompleted

\* An answer ends the request it is for, if it waits still.
LEMMA AnsweredKeeps ==
    ASSUME SessionAssumption, IInv, Deliver, NEW id \in Id, NEW answer, Answered(id, answer),
           UNCHANGED <<process, nextRequest, initializeRequest>>
    PROVE  IInv'
  <1> USE DEF IInv
  <1>1. CASE id = initializeRequest /\ InitializeCompleted(answer)
    <2>1. initializeRequest # 0
          BY <1>1 DEF Id
    <2> QED BY <1>1, <2>1, InitializeCompletedKeeps
  <1>2. CASE /\ pending' = Restrict(pending, DOMAIN pending \ {id})
             /\ fate' = IF id \notin DOMAIN pending THEN fate
                        ELSE [fate EXCEPT ![id] = IF answer = "error" THEN "failed" ELSE "completed"]
             /\ UNCHANGED <<state, child, server, documents>>
    <2>1. /\ ready' \in Seq([kind : Kinds, id : Id \cup {0}])
          /\ \A i \in DOMAIN ready' :
                ready'[i].kind # "started" /\ (ready'[i].kind = "answer" => ready'[i].id # 0)
          /\ child \notin {"none", "spawned"}
          /\ ~stopping /\ UNCHANGED stopping
          BY Delivery
    <2>2. /\ DOMAIN pending' = DOMAIN pending \ {id}
          /\ \A r \in DOMAIN pending' : pending'[r] = pending[r]
          BY <1>2 DEF Restrict
    <2>3. /\ fate' \in [Id -> {"none", "open", "completed", "failed", "cancelled"}]
          /\ \A r \in Id : r # id => fate'[r] = fate[r]
          /\ id \in DOMAIN pending => fate'[id] \in {"failed", "completed"}
          /\ id \notin DOMAIN pending => fate'[id] = fate[id]
          BY <1>2 DEF SessionTypes
    <2>4. SessionTypes'
          BY <1>2, <2>1, <2>2, <2>3 DEF SessionTypes
    <2>5. TableInv'
          BY <2>2, <2>3 DEF TableInv
    <2> QED BY <1>2, <2>1, <2>2, <2>4, <2>5 DEF StartInv, EndInv, UnsentInv, Writable
  <1> QED BY <1>1, <1>2 DEF Answered

\* Every record that is delivered.
LEMMA DeliverKeeps ==
    ASSUME SessionAssumption, IInv, Deliver
    PROVE  IInv'
  <1> DEFINE m == Head(ready)
  <1>1. /\ m \in [kind : Kinds, id : Id \cup {0}] /\ process \in BOOLEAN
        /\ m.kind = "answer" => m.id \in Id
        BY Delivery DEF IInv, SessionTypes
  <1>2. CASE m.kind = "started"
        BY <1>2, ProcessStartedKeeps DEF Deliver
  <1>3. CASE m.kind \in {"ended", "cancelled"}
    <2>1. ProcessEnded(m.kind)
          BY <1>3 DEF Deliver
    <2> QED BY <1>1, <2>1, DeliveryFails DEF ProcessEnded
  <1>4. CASE m.kind = "answer"
    <2>1. HandleMessage(m)
          BY <1>4 DEF Deliver
    <2>2. PICK answer \in {"result", "error"} : Answered(m.id, answer)
          BY <1>4, <2>1 DEF HandleMessage
    <2> QED BY <1>1, <1>4, <2>1, <2>2, AnsweredKeeps DEF HandleMessage
  <1>5. CASE m.kind = "malformed"
    <2>1. HandleMessage(m)
          BY <1>5 DEF Deliver
    <2> QED BY <1>1, <1>5, <2>1, DeliveryFails DEF HandleMessage
  <1>6. CASE m.kind = "ask"
    <2>1. HandleMessage(m)
          BY <1>6 DEF Deliver
    <2>2. Reply /\ UNCHANGED <<documents, process, nextRequest, initializeRequest>>
          BY <1>6, <2>1 DEF HandleMessage
    <2>3. CASE UNCHANGED <<state, pending, fate, child>>
      <3>1. /\ ready' \in Seq([kind : Kinds, id : Id \cup {0}])
            /\ \A i \in DOMAIN ready' :
                 ready'[i].kind # "started" /\ (ready'[i].kind = "answer" => ready'[i].id # 0)
            /\ child \notin {"none", "spawned"}
            /\ ~stopping /\ UNCHANGED stopping
            BY Delivery
      <3>2. SessionTypes'
            BY <2>2, <2>3, <3>1 DEF IInv, SessionTypes
      <3> QED BY <2>2, <2>3, <3>1, <3>2 DEF IInv, TableInv, StartInv, EndInv, UnsentInv, Writable
    <2>4. CASE Fail
          BY <1>1, <2>2, <2>4, DeliveryFails
    <2> QED BY <2>2, <2>3, <2>4 DEF Reply
  <1> QED BY <1>1, <1>2, <1>3, <1>4, <1>5, <1>6 DEF Kinds

-----------------------------------------------------------------------------
(* What the process and the server do.                                     *)

\* A record is added, and no longer once the session has stopped.
LEMMA PostKeeps ==
    ASSUME SessionAssumption, IInv, UNCHANGED sessionVars,
           NEW kind \in Kinds, NEW id \in Id \cup {0}, Post(kind, id),
           child' \in {"running", "gone"}, child' = "running" => child \in {"spawned", "running"},
           kind = "answer" => id # 0, kind = "started" => child = "spawned",
           child # "none"
    PROVE  IInv'
  <1> DEFINE E == [kind : Kinds, id : Id \cup {0}]
             e == [kind |-> kind, id |-> id]
  <1> USE DEF IInv
  <1>1. e \in E /\ ready \in Seq(E)
        BY DEF SessionTypes
  <1>2. /\ Append(ready, e) \in Seq(E)
        /\ \A i \in DOMAIN Append(ready, e) :
              \/ i \in DOMAIN ready /\ Append(ready, e)[i] = ready[i]
              \/ i = Len(ready) + 1 /\ Append(ready, e)[i] = e
    <2> HIDE DEF E, e
    <2> QED BY <1>1, Appended
  <1>3. ready' \in Seq(E) /\ (stopping => ready' = ready)
        BY <1>1, <1>2 DEF Post
  <1>4. SessionTypes'
        BY <1>3 DEF SessionTypes, sessionVars
  <1>5. TableInv' /\ UnsentInv'
        BY DEF TableInv, UnsentInv, sessionVars
  <1>6. EndInv'
        BY <1>3 DEF EndInv, Writable, sessionVars
  <1>7. StartInv'
    <2>1. UNCHANGED <<initializeRequest, state>> /\ child' \notin {"none", "spawned"}
          BY DEF sessionVars
    <2>2. \A i \in DOMAIN ready' :
            /\ ready'[i].kind = "started" => i = 1 /\ initializeRequest = 0
            /\ ready'[i].kind = "answer" => ready'[i].id # 0
      <3>1. CASE ready' = ready
            BY <3>1 DEF StartInv
      <3>2. CASE ready' = Append(ready, e)
        <4>1. kind = "started" => ready = <<>> /\ initializeRequest = 0
              BY DEF StartInv
        <4>2. kind = "started" => Len(ready) + 1 = 1
              BY <4>1
        <4> QED BY <1>2, <3>2, <4>1, <4>2 DEF StartInv
      <3> QED BY <3>1, <3>2 DEF Post
    <2> QED BY <2>1, <2>2 DEF StartInv
  <1> QED BY <1>4, <1>5, <1>6, <1>7

\* The process starts, ends, reads, answers and asks.
LEMMA ProcessKeeps ==
    ASSUME SessionAssumption, IInv,
           \/ ProcessStarts \/ ProcessEnds \/ ServerReads
           \/ \E id \in Id : ServerAnswers(id)
           \/ \E kind \in {"ask", "malformed"} : ServerSends(kind)
    PROVE  IInv'
  <1>1. CASE ProcessStarts
        BY <1>1, PostKeeps DEF ProcessStarts, Kinds
  <1>2. CASE ProcessEnds
    <2>1. PICK kind \in {"ended", "cancelled"} : Post(kind, 0)
          BY <1>2 DEF ProcessEnds
    <2>2. child' = "gone" /\ child # "none" /\ UNCHANGED sessionVars
          BY <1>2 DEF ProcessEnds
    <2> QED BY <2>1, <2>2, PostKeeps DEF Kinds
  <1>3. CASE ServerReads
    <2>1. UNCHANGED <<sessionVars, child, ready>>
          BY <1>3 DEF ServerReads
    <2> QED BY <2>1 DEF IInv, SessionTypes, TableInv, StartInv, EndInv, UnsentInv, Writable, sessionVars
  <1>4. CASE \E id \in Id : ServerAnswers(id)
    <2>1. PICK id \in Id : ServerAnswers(id)
          BY <1>4
    <2>2. id # 0
          BY DEF Id
    <2>3. child = "running" /\ child' = child /\ UNCHANGED sessionVars /\ Post("answer", id)
          BY <2>1 DEF ServerAnswers
    <2> QED BY <2>2, <2>3, PostKeeps DEF Kinds
  <1>5. CASE \E kind \in {"ask", "malformed"} : ServerSends(kind)
    <2>1. PICK kind \in {"ask", "malformed"} : ServerSends(kind)
          BY <1>5
    <2>2. child = "running" /\ child' = child /\ UNCHANGED sessionVars /\ Post(kind, 0)
          BY <2>1 DEF ServerSends
    <2> QED BY <2>1, <2>2, PostKeeps DEF Kinds
  <1> QED BY <1>1, <1>2, <1>3, <1>4, <1>5

\* The invariant is inductive.
LEMMA InvariantKept == ASSUME SessionAssumption, IInv, [Next]_vars PROVE IInv'
  <1>1. CASE \E u \in Uri \cup {"none"} : Request(u)
        BY <1>1, RequestKeeps
  <1>2. CASE \E id \in Id : CancelRequest(id)
        BY <1>2, CancelRequestKeeps
  <1>3. CASE \E u \in Uri, v \in 1..MaxRevision, l \in Language : SynchronizeDocument(u, v, l)
        BY <1>3, SynchronizeDocumentKeeps
  <1>4. CASE \E u \in Uri : CloseDocument(u)
        BY <1>4, CloseDocumentKeeps
  <1>5. CASE Stop
        BY <1>5, StopKeeps
  <1>6. CASE Deliver
        BY <1>6, DeliverKeeps
  <1>7. CASE \/ ProcessStarts \/ ProcessEnds \/ ServerReads
             \/ \E id \in Id : ServerAnswers(id)
             \/ \E kind \in {"ask", "malformed"} : ServerSends(kind)
        BY <1>7, ProcessKeeps
  <1>8. CASE UNCHANGED vars
        BY <1>8 DEF IInv, SessionTypes, TableInv, StartInv, EndInv, UnsentInv, Writable, vars, sessionVars
  <1> QED BY <1>1, <1>2, <1>3, <1>4, <1>5, <1>6, <1>7, <1>8 DEF Next

\* The tables, the counter, the life of the process and the state of the session
\* agree in every reachable state of LspSession (lsp/session.cpp).
THEOREM SessionInvariant == Spec => []IInv
  <1>1. Init => IInv
        BY SessionAssumption, InvariantAtStart
  <1>2. IInv /\ [Next]_vars => IInv'
        BY SessionAssumption, InvariantKept
  <1> QED BY <1>1, <1>2, PTL DEF Spec

-----------------------------------------------------------------------------
(* What follows from the invariant.                                        *)

\* TypeOK: every table of the session has the keys and values it should, and only a
\* session that has come to be ready has published a document or sent a request.
THEOREM SessionTypeCorrect == Spec => []TypeOK
  <1>1. IInv => TypeOK
    <2> SUFFICES ASSUME IInv PROVE TypeOK
          OBVIOUS
    <2> USE DEF IInv
    <2>1. DOMAIN pending \subseteq 1..nextRequest \ {initializeRequest}
          BY DEF TableInv
    <2>2. {stopping, process} \subseteq BOOLEAN
          BY DEF SessionTypes
    <2>3. \A i \in DOMAIN ready : ready[i].kind \in Kinds
      <3>1. \A i \in DOMAIN ready : ready[i] \in [kind : Kinds, id : Id \cup {0}]
        <4> DEFINE E == [kind : Kinds, id : Id \cup {0}]
        <4>1. ready \in Seq(E)
              BY DEF SessionTypes
        <4> HIDE DEF E
        <4>2. \A i \in DOMAIN ready : ready[i] \in E
              BY <4>1
        <4> QED BY <4>2 DEF E
      <3> QED BY <3>1
    <2> QED BY <2>1, <2>2, <2>3 DEF TypeOK, SessionTypes, UnsentInv, Record, Snapshot
  <1> QED BY <1>1, SessionInvariant, PTL

-----------------------------------------------------------------------------
(* The session implements RequestLifecycle.                                *)

\* A session that fails now, of its own, breaks.
LEMMA FailBreaks ==
    ASSUME IInv, Fail, ~stopping, UNCHANGED stopping
    PROVE  Lifecycle!Break \/ UNCHANGED <<fate, state = "Failed", stopping>>
  <1>1. CASE state = "Failed"
        BY <1>1 DEF Fail, FailWith
  <1>2. CASE state # "Failed"
    <2>1. state' = "Failed" /\ fate' = [r \in Id |-> IF r \in DOMAIN pending THEN "failed" ELSE fate[r]]
          BY <1>2 DEF Fail, FailWith
    <2>2. DOMAIN pending = Lifecycle!Open
          BY DEF IInv, TableInv, Lifecycle!Open
    <2>3. fate' = Lifecycle!EndAll("failed")
          BY <2>1, <2>2 DEF Lifecycle!EndAll
    <2> QED BY <1>2, <2>1, <2>3 DEF Lifecycle!Break, Lifecycle!Working
  <1> QED BY <1>1, <1>2

\* A step that leaves what the owners see is a stutter.
LEMMA Unseen ==
    ASSUME UNCHANGED <<fate, state = "Failed", stopping>>
    PROVE  [Lifecycle!Next]_(Lifecycle!requestVars)
    BY DEF Lifecycle!requestVars

\* Starting a process that cannot be spawned fails a session nobody waits on.
LEMMA StartThrowsBreaks ==
    ASSUME IInv, state = "Stopped", state' = "Failed", UNCHANGED <<fate, stopping>>, ~stopping
    PROVE  Lifecycle!Break
  <1>1. Lifecycle!Open = {}
        BY DEF IInv, TableInv, EndInv, Lifecycle!Open
  <1>2. fate' = Lifecycle!EndAll("failed")
        BY <1>1 DEF Lifecycle!EndAll, IInv, SessionTypes
  <1> QED BY <1>2 DEF Lifecycle!Break, Lifecycle!Working

\* A request is accepted, or the session breaks on it or before it.
LEMMA RequestRefines ==
    ASSUME SessionAssumption, IInv, NEW u \in Uri \cup {"none"}, Request(u)
    PROVE  [Lifecycle!Next]_(Lifecycle!requestVars)
  <1> DEFINE id    == nextRequest + 1
             new   == [uri |-> u, revision |-> IF u = "none" THEN 0 ELSE documents[u].revision,
                       sent |-> state = "Ready"]
             table == [r \in DOMAIN pending \cup {id} |-> IF r = id THEN new ELSE pending[r]]
  <1>1. /\ nextRequest <= MaxRequests /\ ~stopping /\ state # "Failed" /\ UNCHANGED stopping
        /\ DOMAIN pending = Lifecycle!Open /\ fate \in [Id -> {"none", "open", "completed", "failed", "cancelled"}]
        BY Room DEF Request, IInv, SessionTypes, TableInv, Lifecycle!Open
  <1>2. id \in Id /\ fate[id] = "none"
    <2>1. MaxRequests \in Nat /\ nextRequest \in Nat
          BY DEF SessionAssumption, IInv, SessionTypes
    <2>2. id \in Id /\ id \notin 1..nextRequest
          BY <1>1, <2>1 DEF Id
    <2> QED BY <2>2 DEF IInv, TableInv
  <1>3. CASE state = "Stopped" /\ StartThrows /\ UNCHANGED <<nextRequest, pending, fate, server>>
        BY <1>1, <1>3, StartThrowsBreaks DEF StartThrows, Lifecycle!Next
  <1>4. CASE state = "Ready" /\ FailWith(table, fate)
    <2>1. /\ state' = "Failed"
          /\ fate' = [r \in Id |-> IF r \in DOMAIN table THEN "failed" ELSE fate[r]]
          BY <1>1, <1>4 DEF FailWith
    <2>2. DOMAIN table = Lifecycle!Open \cup {id}
          BY <1>1
    <2>3. fate' = [Lifecycle!EndAll("failed") EXCEPT ![id] = "failed"]
          BY <1>2, <2>1, <2>2 DEF Lifecycle!EndAll
    <2>4. Lifecycle!Break
          BY <1>1, <1>2, <2>1, <2>3 DEF Lifecycle!Break, Lifecycle!Working
    <2> QED BY <2>4 DEF Lifecycle!Next
  <1>5. CASE fate' = [fate EXCEPT ![id] = "open"] /\ StartIfStopped
    <2>1. state' # "Failed"
          BY <1>1, <1>5 DEF StartIfStopped, Start
    <2>2. Lifecycle!Accept(id)
          BY <1>1, <1>2, <1>5, <2>1 DEF Lifecycle!Accept, Lifecycle!Working
    <2> QED BY <1>2, <2>2 DEF Lifecycle!Next
  <1> QED BY <1>3, <1>4, <1>5 DEF Request

\* A cancellation ends its request, and may break the session.
LEMMA CancelRequestRefines ==
    ASSUME IInv, NEW id \in Id, CancelRequest(id)
    PROVE  [Lifecycle!Next]_(Lifecycle!requestVars)
  <1> DEFINE f     == [fate EXCEPT ![id] = "cancelled"]
             table == Restrict(pending, DOMAIN pending \ {id})
  <1>1. /\ id \in Lifecycle!Open /\ DOMAIN pending = Lifecycle!Open
        /\ ~stopping /\ state # "Failed" /\ UNCHANGED stopping
        /\ fate \in [Id -> {"none", "open", "completed", "failed", "cancelled"}]
        BY DEF CancelRequest, IInv, TableInv, EndInv, SessionTypes, Lifecycle!Open
  <1>2. CASE FailWith(table, f)
    <2>1. /\ state' = "Failed"
          /\ fate' = [r \in Id |-> IF r \in DOMAIN table THEN "failed" ELSE f[r]]
      <3> HIDE DEF table, f
      <3> QED BY <1>1, <1>2 DEF FailWith
    <2>2. DOMAIN table = Lifecycle!Open \ {id}
          BY <1>1 DEF Restrict
    <2>3. fate' = [Lifecycle!EndAll("failed") EXCEPT ![id] = "cancelled"]
          BY <1>1, <2>1, <2>2 DEF Lifecycle!EndAll
    <2>4. Lifecycle!Break
          BY <1>1, <2>1, <2>3 DEF Lifecycle!Break, Lifecycle!Working
    <2> QED BY <2>4 DEF Lifecycle!Next
  <1>3. CASE fate' = f /\ UNCHANGED state
        BY <1>1, <1>3 DEF Lifecycle!Next, Lifecycle!End, Lifecycle!Working
  <1> QED BY <1>2, <1>3 DEF CancelRequest

\* An answer ends the request it is for; the others of the runtime's records break the
\* session or go unseen.
LEMMA DeliverRefines ==
    ASSUME IInv, Deliver
    PROVE  [Lifecycle!Next]_(Lifecycle!requestVars)
  <1>1. /\ ~stopping /\ UNCHANGED stopping /\ DOMAIN pending = Lifecycle!Open
        /\ state = "Failed" => ~Writable
        /\ state = "Failed" => DOMAIN pending = {}
        /\ fate \in [Id -> {"none", "open", "completed", "failed", "cancelled"}]
        BY Delivery DEF IInv, TableInv, EndInv, SessionTypes, Lifecycle!Open
  <1>2. CASE Fail
        BY <1>1, <1>2, FailBreaks, Unseen DEF Lifecycle!Next
  <1>3. CASE Writable /\ state' # "Failed" /\ UNCHANGED fate
        BY <1>1, <1>3, Unseen
  <1>4. CASE UNCHANGED <<fate, state>>
        BY <1>1, <1>4, Unseen
  <1>5. ASSUME NEW id, NEW answer, Answered(id, answer)
        PROVE  [Lifecycle!Next]_(Lifecycle!requestVars)
    <2>1. CASE InitializeCompleted(answer)
          BY <1>2, <1>3, <2>1 DEF InitializeCompleted
    <2>2. CASE id \in DOMAIN pending /\ UNCHANGED state
               /\ fate' = [fate EXCEPT ![id] = IF answer = "error" THEN "failed" ELSE "completed"]
      <3>1. id \in Lifecycle!Open /\ id \in Id /\ state # "Failed"
            BY <1>1, <2>2 DEF Lifecycle!Open
      <3>2. Lifecycle!End(id)
            BY <1>1, <2>2, <3>1 DEF Lifecycle!End, Lifecycle!Working
      <3> QED BY <3>1, <3>2 DEF Lifecycle!Next
    <2> QED BY <1>4, <1>5, <2>1, <2>2 DEF Answered
  <1>6. CASE ProcessStarted
        BY <1>2, <1>3, <1>6 DEF ProcessStarted
  <1>7. CASE \E kind : ProcessEnded(kind)
        BY <1>2, <1>7 DEF ProcessEnded
  <1>8. CASE Reply
        BY <1>2, <1>4, <1>8 DEF Reply
  <1>9. CASE /\ HandleMessage(Head(ready))
             /\ Head(ready).kind \notin {"started", "ended", "cancelled"}
    <2>1. CASE \E answer \in {"result", "error"} : Answered(Head(ready).id, answer)
          BY <1>5, <2>1
    <2>2. CASE Fail \/ Reply
          BY <1>2, <1>8, <2>2
    <2>3. Head(ready).kind \in {"answer", "malformed", "ask"}
          BY <1>9, Delivery DEF Kinds
    <2> QED BY <1>9, <2>1, <2>2, <2>3 DEF HandleMessage
  <1> QED BY <1>6, <1>7, <1>9 DEF Deliver

\* stop() closes the service.
LEMMA StopRefines ==
    ASSUME IInv, Stop
    PROVE  Lifecycle!Close
  <1>1. /\ ~stopping /\ stopping' = TRUE /\ state' = "Stopped"
        /\ fate' = [r \in Id |-> IF r \in DOMAIN pending THEN "cancelled" ELSE fate[r]]
        /\ DOMAIN pending = Lifecycle!Open
        BY DEF Stop, IInv, TableInv, Lifecycle!Open
  <1>2. fate' = Lifecycle!EndAll("cancelled")
        BY <1>1 DEF Lifecycle!EndAll
  <1> QED BY <1>1, <1>2 DEF Lifecycle!Close

\* Every step of the session, its process and its server is one of RequestLifecycle or
\* leaves it alone.
LEMMA StepRefines ==
    ASSUME SessionAssumption, IInv, [Next]_vars
    PROVE  [Lifecycle!Next]_(Lifecycle!requestVars)
  <1>1. CASE \E u \in Uri \cup {"none"} : Request(u)
        BY <1>1, RequestRefines
  <1>2. CASE \E id \in Id : CancelRequest(id)
        BY <1>2, CancelRequestRefines
  <1>3. ASSUME NEW u \in Uri, NEW v \in 1..MaxRevision, NEW l \in Language,
               SynchronizeDocument(u, v, l)
        PROVE  [Lifecycle!Next]_(Lifecycle!requestVars)
    <2>1. ~stopping /\ state # "Failed" /\ UNCHANGED stopping
          BY <1>3 DEF SynchronizeDocument
    <2>2. \/ Fail
          \/ UNCHANGED fate /\ state' # "Failed"
          \/ UNCHANGED fate /\ state = "Stopped" /\ state' = "Failed"
          BY <1>3, <2>1 DEF SynchronizeDocument, StartIfStopped, Start, StartThrows
    <2> QED BY <2>1, <2>2, FailBreaks, Unseen, StartThrowsBreaks DEF Lifecycle!Next
  <1>4. ASSUME NEW u \in Uri, CloseDocument(u)
        PROVE  [Lifecycle!Next]_(Lifecycle!requestVars)
    <2>1. ~stopping /\ UNCHANGED stopping /\ (Fail \/ UNCHANGED <<fate, state>>)
          BY <1>4 DEF CloseDocument
    <2> QED BY <2>1, FailBreaks, Unseen DEF Lifecycle!Next
  <1>5. CASE Stop
        BY <1>5, StopRefines DEF Lifecycle!Next
  <1>6. CASE Deliver
        BY <1>6, DeliverRefines
  <1>7. CASE \/ ProcessStarts \/ ProcessEnds \/ ServerReads
             \/ \E id \in Id : ServerAnswers(id)
             \/ \E kind \in {"ask", "malformed"} : ServerSends(kind)
             \/ UNCHANGED vars
    <2>1. UNCHANGED <<fate, state, stopping>>
          BY <1>7 DEF ProcessStarts, ProcessEnds, ServerReads, ServerAnswers, ServerSends, sessionVars, vars
    <2> QED BY <2>1, Unseen
  <1> QED BY <1>1, <1>2, <1>3, <1>4, <1>5, <1>6, <1>7 DEF Next

\* Implements: every request the session takes ends at most once, answered, cancelled or
\* failed; a session that fails completes all of them at once and stays failed, and
\* the destructor cancels all of them.
THEOREM SessionRefinement == Spec => Implements
  <1>1. Init => Lifecycle!Init
        BY DEF Init, Lifecycle!Init
  <1>2. IInv /\ [Next]_vars => [Lifecycle!Next]_(Lifecycle!requestVars)
        BY SessionAssumption, StepRefines
  <1> QED BY <1>1, <1>2, SessionInvariant, PTL DEF Spec, Implements, Lifecycle!Spec

-----------------------------------------------------------------------------
(* What is on the wire: the inductive invariant of the protocol.           *)

MessageKinds == {"initialize", "initialized", "request", "cancel", "open", "change", "close", "reply"}
Message == [kind : MessageKinds, id : Id \cup {0}, uri : Uri \cup {"none"},
            language : Language \cup {"none"}, version : 0..MaxRevision]
Copy == {Closed} \cup [language : Language, version : 1..MaxRevision]

ServerTypes ==
    server \in [inbox : Seq(Message), phase : {"new", "asked", "answered", "ready"},
                asked : SUBSET Id, seen : SUBSET Id, copy : [Uri -> Copy], confused : BOOLEAN]

\* A message that changes what the server has of u, and what it has then.
IsAbout(m, u) == m.uri = u /\ m.kind \in {"open", "change", "close"}
Leaves(m) == IF m.kind = "close" THEN Closed ELSE [language |-> m.language, version |-> m.version]

\* c is what a server with this copy has of u when it comes to place i of the box.
Has(copy, box, u, i, c) ==
    \/ c = copy[u] /\ \A j \in 1..(i - 1) : ~IsAbout(box[j], u)
    \/ \E j \in 1..(i - 1) :
          c = Leaves(box[j]) /\ IsAbout(box[j], u) /\ \A k \in (j + 1)..(i - 1) : ~IsAbout(box[k], u)

\* What LSP allows to say of a document that the server has as c.
Fits(c, m) ==
    CASE m.kind = "open"    -> c = Closed /\ Leaves(m) \in Copy
      [] m.kind = "change"  -> c # Closed /\ c.version < m.version /\ c.language = m.language
      [] m.kind = "close"   -> c # Closed
      [] m.kind = "request" -> c # Closed /\ c.version >= m.version
      [] OTHER              -> TRUE

\* The i-th message will be allowed when the server comes to it. n requests have been
\* made, of which q is initialize.
Good(s, i, n, q) ==
    LET m == s.inbox[i] IN
    /\ m.kind = "initialize"  => s.phase = "new" /\ Len(s.inbox) = 1
    /\ m.kind = "initialized" =>
          /\ s.phase = "answered"
          /\ \A j \in DOMAIN s.inbox : s.inbox[j].kind = "initialized" => j = i
    /\ m.kind \in {"request", "open"} =>
          s.phase = "ready" \/ \E j \in 1..(i - 1) : s.inbox[j].kind = "initialized"
    /\ m.kind = "request" =>
          /\ m.id \notin s.seen /\ m.id \in Id /\ m.id <= n /\ m.id # q
          /\ \A j \in DOMAIN s.inbox :
                s.inbox[j].kind = "request" /\ s.inbox[j].id = m.id => j = i
    /\ m.kind = "cancel" =>
          \/ m.id \in s.seen
          \/ \E j \in 1..(i - 1) : s.inbox[j].kind = "request" /\ s.inbox[j].id = m.id
    /\ m.kind \in {"open", "change", "close"} => m.uri # "none"
    /\ m.uri # "none" => \A c \in Copy : Has(s.copy, s.inbox, m.uri, i, c) => Fits(c, m)

InboxInv == ~server.confused /\ \A i \in DOMAIN server.inbox : Good(server, i, nextRequest, initializeRequest)

\* Whoever writes is heard: a process that ends, or is made to, is a new one to nobody.
ChildInv ==
    /\ initializeRequest = 0 \/ child \in {"terminated", "gone"} => server = NewServer
    /\ child \in {"spawned", "running"} => process /\ ~stopping
    /\ \A i \in DOMAIN ready :
          /\ ready[i].kind \in {"ended", "cancelled"} => child = "gone"
          /\ ready[i].kind \in {"answer", "ask"} => initializeRequest # 0
    /\ state = "Starting" => initializeRequest = 0

IsAnswer(m, q) == m.kind = "answer" /\ m.id = q

\* How far the server is with the handshake, and how far the session knows.
HandshakeInv ==
    Writable /\ initializeRequest # 0 =>
        /\ state \in {"Initializing", "Ready"}
        /\ server.phase = "new" =>
              /\ state = "Initializing" /\ server.asked = {} /\ Len(server.inbox) = 1
              /\ server.inbox[1].kind = "initialize" /\ server.inbox[1].id = initializeRequest
        /\ server.phase = "asked" =>
              state = "Initializing" /\ server.asked = {initializeRequest} /\ server.inbox = <<>>
        /\ server.phase \in {"answered", "ready"} => server.asked \subseteq server.seen
        /\ \A r \in server.seen : r <= nextRequest /\ r # initializeRequest
        /\ state = "Initializing" =>
              /\ server.phase # "ready" /\ server.seen = {}
              /\ \A u \in Uri : server.copy[u] = Closed
              /\ \A i \in DOMAIN server.inbox : server.inbox[i].kind \in {"initialize", "reply"}
        /\ state = "Ready" =>
              \/ server.phase = "ready"
              \/ \E i \in DOMAIN server.inbox : server.inbox[i].kind = "initialized"
        /\ \A i \in DOMAIN ready :
              /\ IsAnswer(ready[i], initializeRequest) =>
                    /\ server.phase = "answered" /\ state = "Initializing"
                    /\ \A j \in DOMAIN ready : IsAnswer(ready[j], initializeRequest) => j = i
              /\ ready[i].kind = "ask" => server.phase \in {"answered", "ready"}

\* A ready session has sent everything, and what is on the way ends in its documents.
SentInv ==
    state = "Ready" /\ Writable =>
        /\ \A r \in DOMAIN pending :
              /\ pending[r].sent
              /\ \/ r \in server.seen
                 \/ \E i \in DOMAIN server.inbox :
                       server.inbox[i].kind = "request" /\ server.inbox[i].id = r
        /\ \A u \in Uri : documents[u] # None => documents[u].published
        /\ \A u \in Uri, c \in Copy :
              Has(server.copy, server.inbox, u, Len(server.inbox) + 1, c) =>
                  c = [language |-> documents[u].language, version |-> documents[u].revision]

\* What waits for the handshake is about documents that will be published.
WaitInv ==
    state \in {"Starting", "Initializing"} =>
        \A r \in DOMAIN pending : pending[r].uri # "none" =>
            /\ documents[pending[r].uri] # None
            /\ pending[r].revision <= documents[pending[r].uri].revision

WireInv == ServerTypes /\ InboxInv /\ ChildInv /\ HandshakeInv /\ SentInv /\ WaitInv

-----------------------------------------------------------------------------
(* The box of a server.                                                    *)

\* What there is in two sequences put together.
LEMMA Joined ==
    ASSUME NEW S, NEW s \in Seq(S), NEW t \in Seq(S)
    PROVE  /\ s \o t \in Seq(S) /\ Len(s \o t) = Len(s) + Len(t)
           /\ Len(s) \in Nat /\ Len(t) \in Nat
           /\ \A i \in 1..Len(s) : (s \o t)[i] = s[i]
           /\ \A i \in 1..Len(t) : (s \o t)[Len(s) + i] = t[i]
           /\ DOMAIN s = 1..Len(s) /\ DOMAIN t = 1..Len(t)
           /\ DOMAIN (s \o t) = 1..(Len(s) + Len(t))
    BY SMT

\* The same for a single message.
LEMMA Posted ==
    ASSUME NEW S, NEW s \in Seq(S), NEW e \in S
    PROVE  /\ s \o <<e>> \in Seq(S) /\ Len(s \o <<e>>) = Len(s) + 1 /\ Len(s) \in Nat
           /\ \A i \in 1..Len(s) : (s \o <<e>>)[i] = s[i] /\ s[i] \in S
           /\ (s \o <<e>>)[Len(s) + 1] = e
           /\ DOMAIN s = 1..Len(s) /\ DOMAIN (s \o <<e>>) = 1..(Len(s) + 1)
    BY SMT

\* What the server has of a document does not depend on what comes later.
LEMMA HasEarlier ==
    ASSUME NEW copy, NEW u, NEW c, NEW n \in Nat, NEW i \in 1..(n + 1), NEW box, NEW longer,
           \A j \in 1..n : longer[j] = box[j]
    PROVE  Has(copy, longer, u, i, c) <=> Has(copy, box, u, i, c)
    BY DEF Has

\* Behind one more message the server has what that leaves, or what it had.
LEMMA HasNext ==
    ASSUME NEW copy, NEW u, NEW c, NEW i \in Nat \ {0}, NEW box, Has(copy, box, u, i + 1, c)
    PROVE  IF IsAbout(box[i], u) THEN c = Leaves(box[i]) ELSE Has(copy, box, u, i, c)
  <1>1. CASE c = copy[u] /\ \A j \in 1..i : ~IsAbout(box[j], u)
        BY <1>1 DEF Has
  <1>2. ASSUME NEW j \in 1..i, c = Leaves(box[j]), IsAbout(box[j], u),
               \A k \in (j + 1)..i : ~IsAbout(box[k], u)
        PROVE  IF IsAbout(box[i], u) THEN c = Leaves(box[i]) ELSE Has(copy, box, u, i, c)
    <2>1. CASE j = i
          BY <1>2, <2>1
    <2>2. CASE j # i
      <3>1. i \in (j + 1)..i /\ j \in 1..(i - 1)
            BY <2>2
      <3>2. \A k \in (j + 1)..(i - 1) : ~IsAbout(box[k], u)
            BY <1>2
      <3> QED BY <1>2, <3>1, <3>2 DEF Has
    <2> QED BY <2>1, <2>2
  <1> QED BY <1>1, <1>2 DEF Has

\* Reading the first message makes what it leaves the copy.
LEMMA HasRead ==
    ASSUME NEW copy, NEW copied, NEW u, NEW c, NEW box, NEW rest, NEW n \in Nat,
           \A j \in 1..n : rest[j] = box[j + 1], NEW i \in 1..(n + 1),
           copied[u] = IF IsAbout(box[1], u) THEN Leaves(box[1]) ELSE copy[u],
           Has(copied, rest, u, i, c)
    PROVE  Has(copy, box, u, i + 1, c)
  <1>1. CASE c = copied[u] /\ \A j \in 1..(i - 1) : ~IsAbout(rest[j], u)
    <2>1. \A k \in 2..i : ~IsAbout(box[k], u)
      <3>1. \A k \in 2..i : k - 1 \in 1..(i - 1) /\ k - 1 \in 1..n /\ (k - 1) + 1 = k
            OBVIOUS
      <3> QED BY <1>1, <3>1
    <2>2. CASE IsAbout(box[1], u)
      <3>1. 1 \in 1..((i + 1) - 1) /\ \A k \in (1 + 1)..((i + 1) - 1) : k \in 2..i
            OBVIOUS
      <3> QED BY <1>1, <2>1, <2>2, <3>1 DEF Has
    <2>3. CASE ~IsAbout(box[1], u)
      <3>1. \A k \in 1..((i + 1) - 1) : k = 1 \/ k \in 2..i
            OBVIOUS
      <3> QED BY <1>1, <2>1, <2>3, <3>1 DEF Has
    <2> QED BY <2>2, <2>3
  <1>2. ASSUME NEW j \in 1..(i - 1), c = Leaves(rest[j]), IsAbout(rest[j], u),
               \A k \in (j + 1)..(i - 1) : ~IsAbout(rest[k], u)
        PROVE  Has(copy, box, u, i + 1, c)
    <2>1. j + 1 \in 1..((i + 1) - 1) /\ j \in 1..n /\ rest[j] = box[j + 1]
          OBVIOUS
    <2>2. \A k \in ((j + 1) + 1)..((i + 1) - 1) : ~IsAbout(box[k], u)
      <3>1. \A k \in ((j + 1) + 1)..((i + 1) - 1) :
                k - 1 \in (j + 1)..(i - 1) /\ k - 1 \in 1..n /\ (k - 1) + 1 = k
            OBVIOUS
      <3> QED BY <1>2, <3>1
    <2> QED BY <1>2, <2>1, <2>2 DEF Has
  <1> QED BY <1>1, <1>2 DEF Has

\* The server as a record, part by part.
LEMMA ServerParts ==
    ASSUME ServerTypes
    PROVE  /\ server.inbox \in Seq(Message) /\ server.phase \in {"new", "asked", "answered", "ready"}
           /\ server.asked \subseteq Id /\ server.seen \subseteq Id
           /\ server.copy \in [Uri -> Copy] /\ server.confused \in BOOLEAN
           /\ DOMAIN server.inbox = 1..Len(server.inbox) /\ Len(server.inbox) \in Nat
  <1> HIDE DEF Message, Copy, Id
  <1>1. /\ server.inbox \in Seq(Message) /\ server.phase \in {"new", "asked", "answered", "ready"}
        /\ server.asked \in SUBSET Id /\ server.seen \in SUBSET Id
        /\ server.copy \in [Uri -> Copy] /\ server.confused \in BOOLEAN
        BY DEF ServerTypes
  <1>2. DOMAIN server.inbox = 1..Len(server.inbox) /\ Len(server.inbox) \in Nat
        BY <1>1
  <1> QED BY <1>1, <1>2

\* A new server is a server.
LEMMA NewServerTypes == NewServer \in [inbox : Seq(Message), phase : {"new", "asked", "answered", "ready"},
                asked : SUBSET Id, seen : SUBSET Id, copy : [Uri -> Copy], confused : BOOLEAN]
  <1> HIDE DEF Message, Id
  <1>1. [u \in Uri |-> Closed] \in [Uri -> Copy]
        BY DEF Copy
  <1> HIDE DEF Copy
  <1>2. <<>> \in Seq(Message)
        OBVIOUS
  <1> QED BY <1>1, <1>2 DEF NewServer

\* A message that may be written now: the server will come to it last.
Sendable(s, m, n, q) ==
    /\ m \in Message /\ m.kind \notin {"initialize", "initialized"}
    /\ m.kind \in {"request", "open"} =>
          s.phase = "ready" \/ \E j \in DOMAIN s.inbox : s.inbox[j].kind = "initialized"
    /\ m.kind = "request" =>
          /\ m.id \notin s.seen /\ m.id \in Id /\ m.id <= n /\ m.id # q
          /\ \A j \in DOMAIN s.inbox : ~(s.inbox[j].kind = "request" /\ s.inbox[j].id = m.id)
    /\ m.kind = "cancel" =>
          \/ m.id \in s.seen
          \/ \E j \in DOMAIN s.inbox : s.inbox[j].kind = "request" /\ s.inbox[j].id = m.id
    /\ m.kind \in {"open", "change", "close"} => m.uri # "none"
    /\ m.uri # "none" =>
          \A c \in Copy : Has(s.copy, s.inbox, m.uri, Len(s.inbox) + 1, c) => Fits(c, m)

\* A box stays good when such a message is put into it.
LEMMA GoodPosted ==
    ASSUME SessionAssumption, NEW s, s.inbox \in Seq(Message), s.phase # "new",
           NEW n \in Nat, NEW n2 \in Nat, n <= n2, NEW q,
           \A i \in DOMAIN s.inbox : Good(s, i, n, q),
           NEW m, Sendable(s, m, n2, q),
           NEW t, t.inbox = s.inbox \o <<m>>, t.phase = s.phase, t.seen = s.seen, t.copy = s.copy
    PROVE  \A i \in DOMAIN t.inbox : Good(t, i, n2, q)
  <1> DEFINE l == Len(s.inbox)
  <1>1. /\ l \in Nat /\ DOMAIN s.inbox = 1..l /\ DOMAIN t.inbox = 1..(l + 1)
        /\ t.inbox[l + 1] = m /\ \A i \in 1..l : t.inbox[i] = s.inbox[i]
        /\ m \in Message
        BY Posted DEF Sendable
  <1> HIDE DEF l
  <1>2. \A u, c : \A i \in 1..(l + 1) : Has(t.copy, t.inbox, u, i, c) <=> Has(s.copy, s.inbox, u, i, c)
    <2> SUFFICES ASSUME NEW u, NEW c, NEW i \in 1..(l + 1)
                 PROVE  Has(t.copy, t.inbox, u, i, c) <=> Has(s.copy, s.inbox, u, i, c)
          OBVIOUS
    <2>1. l \in Nat /\ \A j \in 1..l : t.inbox[j] = s.inbox[j]
          BY <1>1
    <2>2. Has(s.copy, t.inbox, u, i, c) <=> Has(s.copy, s.inbox, u, i, c)
          BY <2>1, HasEarlier
    <2> QED BY <2>2
  <1>3. ASSUME NEW i \in 1..l
        PROVE  Good(t, i, n2, q)
    <2>1. Good(s, i, n, q) /\ t.inbox[i] = s.inbox[i]
          BY <1>1
    <2>2. \A j \in 1..(i - 1) : t.inbox[j] = s.inbox[j]
          BY <1>1
    <2>3. s.inbox[i].kind # "initialize"
          BY <2>1 DEF Good
    <2>4. s.inbox[i].kind = "initialized" =>
              /\ t.phase = "answered"
              /\ \A j \in DOMAIN t.inbox : t.inbox[j].kind = "initialized" => j = i
      <3>1. m.kind # "initialized" /\ \A j \in 1..(l + 1) : j \in 1..l \/ j = l + 1
            BY <1>1 DEF Sendable
      <3>2. s.inbox[i].kind = "initialized" =>
                /\ s.phase = "answered"
                /\ \A j \in 1..l : s.inbox[j].kind = "initialized" => j = i
            BY <1>1, <2>1 DEF Good
      <3> QED BY <1>1, <3>1, <3>2
    <2>5. s.inbox[i].kind = "request" =>
              /\ s.inbox[i].id \notin t.seen /\ s.inbox[i].id \in Id
              /\ s.inbox[i].id <= n2 /\ s.inbox[i].id # q
              /\ \A j \in DOMAIN t.inbox :
                    t.inbox[j].kind = "request" /\ t.inbox[j].id = s.inbox[i].id => j = i
      <3>1. \A j \in 1..(l + 1) : j \in 1..l \/ j = l + 1
            BY <1>1
      <3>2. ASSUME s.inbox[i].kind = "request"
            PROVE  s.inbox[i].id \in Nat /\ s.inbox[i].id <= n /\ s.inbox[i].id \in Id
        <4>1. s.inbox[i].id <= n /\ s.inbox[i].id \in Id
              BY <2>1, <3>2 DEF Good
        <4>2. \A r \in Id : r \in Nat
              BY DEF Id, SessionAssumption
        <4> QED BY <4>1, <4>2
      <3>3. m.kind = "request" => \A j \in 1..l : ~(s.inbox[j].kind = "request" /\ s.inbox[j].id = m.id)
            BY <1>1 DEF Sendable
      <3>4. s.inbox[i].kind = "request" =>
                /\ s.inbox[i].id \notin s.seen /\ s.inbox[i].id # q
                /\ \A j \in 1..l :
                      s.inbox[j].kind = "request" /\ s.inbox[j].id = s.inbox[i].id => j = i
            BY <1>1, <2>1 DEF Good
      <3>5. s.inbox[i].kind = "request" => s.inbox[i].id <= n2
            BY <3>2
      <3>6. s.inbox[i].kind = "request" /\ m.kind = "request" => m.id # s.inbox[i].id
            BY <3>3
      <3> QED BY <1>1, <3>1, <3>2, <3>4, <3>5, <3>6
    <2>6. s.inbox[i].uri # "none" =>
              \A c \in Copy : Has(t.copy, t.inbox, s.inbox[i].uri, i, c) => Fits(c, s.inbox[i])
      <3>1. i \in 1..(l + 1)
            BY <1>1
      <3> QED BY <1>2, <2>1, <3>1 DEF Good
    <2>7. s.inbox[i].kind \in {"request", "open"} =>
              t.phase = "ready" \/ \E j \in 1..(i - 1) : t.inbox[j].kind = "initialized"
      <3>1. s.inbox[i].kind \in {"request", "open"} =>
                s.phase = "ready" \/ \E j \in 1..(i - 1) : s.inbox[j].kind = "initialized"
            BY <2>1 DEF Good
      <3> QED BY <2>1, <2>2, <3>1
    <2>8. s.inbox[i].kind = "cancel" =>
              \/ s.inbox[i].id \in t.seen
              \/ \E j \in 1..(i - 1) : t.inbox[j].kind = "request" /\ t.inbox[j].id = s.inbox[i].id
      <3>1. s.inbox[i].kind = "cancel" =>
                \/ s.inbox[i].id \in s.seen
                \/ \E j \in 1..(i - 1) : s.inbox[j].kind = "request" /\ s.inbox[j].id = s.inbox[i].id
            BY <2>1 DEF Good
      <3> QED BY <2>2, <3>1
    <2>9. s.inbox[i].kind \in {"open", "change", "close"} => s.inbox[i].uri # "none"
          BY <2>1 DEF Good
    <2>10. t.inbox[i] = s.inbox[i]
          BY <2>1
    <2> DEFINE e == s.inbox[i]
    <2> HIDE DEF e
    <2>11. t.inbox[i] = e
          BY <2>10 DEF e
    <2>12. e.kind \in {"initialize", "initialized"} => e.kind = "initialized"
          BY <2>3 DEF e
    <2>13. e.kind = "initialized" =>
              t.phase = "answered" /\ \A j \in DOMAIN t.inbox : t.inbox[j].kind = "initialized" => j = i
          BY <2>4 DEF e
    <2>14. e.kind = "request" =>
              /\ e.id \notin t.seen /\ e.id \in Id /\ e.id <= n2 /\ e.id # q
              /\ \A j \in DOMAIN t.inbox : t.inbox[j].kind = "request" /\ t.inbox[j].id = e.id => j = i
          BY <2>5 DEF e
    <2>15. e.kind \in {"request", "open"} =>
              t.phase = "ready" \/ \E j \in 1..(i - 1) : t.inbox[j].kind = "initialized"
          BY <2>7 DEF e
    <2>16. e.kind = "cancel" =>
              \/ e.id \in t.seen
              \/ \E j \in 1..(i - 1) : t.inbox[j].kind = "request" /\ t.inbox[j].id = e.id
          BY <2>8 DEF e
    <2>17. e.uri # "none" => \A c \in Copy : Has(t.copy, t.inbox, e.uri, i, c) => Fits(c, e)
          BY <2>6 DEF e
    <2>18. e.kind \in {"open", "change", "close"} => e.uri # "none"
          BY <2>9 DEF e
    <2> QED BY <2>11, <2>12, <2>13, <2>14, <2>15, <2>16, <2>17, <2>18 DEF Good
  <1>4. Good(t, l + 1, n2, q)
    <2>1. \A j \in 1..((l + 1) - 1) : j \in 1..l
          BY <1>1
    <2>2. \A j \in 1..l : j \in 1..((l + 1) - 1)
          BY <1>1
    <2>3. m.uri # "none" => \A c \in Copy : Has(t.copy, t.inbox, m.uri, l + 1, c) => Fits(c, m)
      <3>1. l + 1 \in 1..(l + 1)
            BY <1>1
      <3> QED BY <1>2, <3>1 DEF Sendable, l
    <2>4. m.kind = "request" =>
              \A j \in DOMAIN t.inbox : t.inbox[j].kind = "request" /\ t.inbox[j].id = m.id => j = l + 1
      <3>1. \A j \in 1..(l + 1) : j \in 1..l \/ j = l + 1
            BY <1>1
      <3> QED BY <1>1, <3>1 DEF Sendable
    <2>5. m.kind \in {"request", "open"} =>
              t.phase = "ready" \/ \E j \in 1..((l + 1) - 1) : t.inbox[j].kind = "initialized"
          BY <1>1, <2>2 DEF Sendable
    <2>6. m.kind = "cancel" =>
              \/ m.id \in t.seen
              \/ \E j \in 1..((l + 1) - 1) : t.inbox[j].kind = "request" /\ t.inbox[j].id = m.id
          BY <1>1, <2>2 DEF Sendable
    <2> QED BY <1>1, <2>3, <2>4, <2>5, <2>6 DEF Good, Sendable
  <1>5. \A i \in 1..(l + 1) : i \in 1..l \/ i = l + 1
        BY <1>1
  <1> QED BY <1>1, <1>3, <1>4, <1>5

\* What the server has at the end of the box then.
LEMMA HasPosted ==
    ASSUME NEW box \in Seq(Message), NEW m \in Message, NEW copy, NEW u, NEW c,
           Has(copy, box \o <<m>>, u, Len(box \o <<m>>) + 1, c)
    PROVE  IF IsAbout(m, u) THEN c = Leaves(m) ELSE Has(copy, box, u, Len(box) + 1, c)
  <1> DEFINE l == Len(box)
  <1>1. /\ l \in Nat /\ Len(box \o <<m>>) = l + 1 /\ (box \o <<m>>)[l + 1] = m
        /\ \A i \in 1..l : (box \o <<m>>)[i] = box[i]
        BY Posted
  <1> HIDE DEF l
  <1>2. l + 1 \in Nat \ {0} /\ l + 1 \in 1..(l + 1)
        BY <1>1
  <1>3. IF IsAbout(m, u) THEN c = Leaves(m) ELSE Has(copy, box \o <<m>>, u, l + 1, c)
    <2>1. Has(copy, box \o <<m>>, u, (l + 1) + 1, c)
          BY <1>1
    <2>2. IF IsAbout((box \o <<m>>)[l + 1], u) THEN c = Leaves((box \o <<m>>)[l + 1])
          ELSE Has(copy, box \o <<m>>, u, l + 1, c)
          BY <1>2, <2>1, HasNext
    <2> QED BY <1>1, <2>2
  <1>4. Has(copy, box \o <<m>>, u, l + 1, c) <=> Has(copy, box, u, l + 1, c)
        BY <1>1, <1>2, HasEarlier
  <1> QED BY <1>3, <1>4 DEF l

-----------------------------------------------------------------------------
(* Ways for a step to leave the wire.                                      *)

\* A session that cannot write has no server that has heard anything.
LEMMA Silent ==
    ASSUME IInv, WireInv, ~Writable
    PROVE  server = NewServer /\ child \notin {"spawned", "running"}
  <1>1. child \notin {"spawned", "running"}
        BY DEF WireInv, ChildInv, Writable
  <1>2. child = "none" => initializeRequest = 0
        BY DEF IInv, StartInv
  <1>3. child \in {"none", "terminated", "gone"}
        BY <1>1 DEF IInv, SessionTypes
  <1> QED BY <1>1, <1>2, <1>3 DEF WireInv, ChildInv

\* Nothing is on the wire of a process that is gone, or was told to go.
LEMMA Sealed ==
    ASSUME SessionAssumption, server' = NewServer, child' \notin {"spawned", "running"},
           \A i \in DOMAIN ready' :
              /\ ready'[i].kind \in {"ended", "cancelled"} => child' = "gone"
              /\ ready'[i].kind \in {"answer", "ask"} => initializeRequest' # 0,
           state' = "Starting" => initializeRequest' = 0, WaitInv'
    PROVE  WireInv'
  <1>1. ServerTypes'
        BY NewServerTypes DEF ServerTypes
  <1>2. InboxInv'
        BY DEF InboxInv, NewServer
  <1>3. ChildInv'
        BY DEF ChildInv
  <1>4. ~Writable'
        BY DEF Writable
  <1>5. HandshakeInv' /\ SentInv'
        BY <1>4 DEF HandshakeInv, SentInv
  <1> QED BY <1>1, <1>2, <1>3, <1>5 DEF WireInv

\* A failure leaves nothing on the wire.
LEMMA FailureSeals ==
    ASSUME SessionAssumption, IInv, WireInv, NEW p, NEW f, FailWith(p, f),
           \A i \in DOMAIN ready' : \E j \in DOMAIN ready : ready'[i] = ready[j],
           initializeRequest' = initializeRequest \/ initializeRequest' # 0
    PROVE  WireInv'
  <1>1. state' = "Failed"
        BY DEF FailWith
  <1>2. server' = NewServer /\ child' \notin {"spawned", "running"}
    <2>1. CASE state = "Failed"
      <3>1. ~Writable
            BY <2>1 DEF IInv, EndInv
      <3> QED BY <2>1, <3>1, Silent DEF FailWith
    <2>2. CASE state # "Failed"
      <3>1. /\ child' = (IF Writable THEN "terminated" ELSE child)
            /\ server' = [NewServer EXCEPT !.confused = server.confused]
            BY <2>2 DEF FailWith, Terminate, Lost
      <3>2. server.confused = FALSE
            BY ServerParts DEF WireInv, InboxInv
      <3>3. server' = NewServer
            BY <3>1, <3>2 DEF NewServer
      <3> QED BY <3>1, <3>3, Silent
    <2> QED BY <2>1, <2>2
  <1>3. ASSUME NEW i \in DOMAIN ready'
        PROVE  /\ ready'[i].kind \in {"ended", "cancelled"} => child' = "gone"
               /\ ready'[i].kind \in {"answer", "ask"} => initializeRequest' # 0
    <2>1. PICK j \in DOMAIN ready : ready'[i] = ready[j]
          OBVIOUS
    <2>2. /\ ready[j].kind \in {"ended", "cancelled"} => child = "gone"
          /\ ready[j].kind \in {"answer", "ask"} => initializeRequest # 0
          BY DEF WireInv, ChildInv
    <2>3. child = "gone" => child' = "gone"
          BY DEF FailWith, Terminate, Writable
    <2> QED BY <2>1, <2>2, <2>3
  <1>4. WaitInv'
        BY <1>1 DEF WaitInv
  <1> QED BY <1>1, <1>2, <1>3, <1>4, Sealed

\* A step that tells the server nothing.
LEMMA Untold ==
    ASSUME SessionAssumption, IInv, WireInv, server' = server,
           UNCHANGED <<child, process, stopping, initializeRequest, state>>,
           nextRequest \in Nat, nextRequest' \in Nat, nextRequest <= nextRequest',
           \A i \in DOMAIN ready' : \E j \in DOMAIN ready : ready'[i] = ready[j],
           Writable /\ initializeRequest # 0 =>
              \A i, j \in DOMAIN ready' :
                 IsAnswer(ready'[i], initializeRequest) /\ IsAnswer(ready'[j], initializeRequest) => i = j,
           state = "Ready" /\ Writable =>
              /\ UNCHANGED documents
              /\ \A r \in DOMAIN pending' : r \in DOMAIN pending /\ pending'[r] = pending[r],
           WaitInv'
    PROVE  WireInv'
  <1>1. ServerTypes'
        BY DEF WireInv, ServerTypes
  <1>2. InboxInv'
    <2> SUFFICES ASSUME NEW i \in DOMAIN server.inbox
                 PROVE  Good(server, i, nextRequest', initializeRequest)
          BY DEF WireInv, InboxInv
    <2>1. Good(server, i, nextRequest, initializeRequest)
          BY DEF WireInv, InboxInv
    <2>2. server.inbox[i].kind = "request" => server.inbox[i].id \in Nat
          BY <2>1 DEF Good, Id, SessionAssumption
    <2>3. server.inbox[i].kind = "request" =>
             (server.inbox[i].id <= nextRequest => server.inbox[i].id <= nextRequest')
          BY <2>2
    <2> QED BY <2>1, <2>3 DEF Good
  <1>3. ChildInv'
        BY DEF WireInv, ChildInv
  <1>4. HandshakeInv'
    <2> SUFFICES ASSUME Writable, initializeRequest # 0
                 PROVE  HandshakeInv'
          BY DEF HandshakeInv, Writable
    <2>1. \A r \in server.seen : r <= nextRequest'
      <3>1. \A r \in server.seen : r \in Nat /\ r <= nextRequest
            BY ServerParts DEF WireInv, HandshakeInv, Id, SessionAssumption
      <3> QED BY <3>1
    <2>2. \A i \in DOMAIN ready' :
              /\ IsAnswer(ready'[i], initializeRequest) => server.phase = "answered" /\ state = "Initializing"
              /\ ready'[i].kind = "ask" => server.phase \in {"answered", "ready"}
          BY DEF WireInv, HandshakeInv
    <2> QED BY <2>1, <2>2 DEF WireInv, HandshakeInv
  <1>5. SentInv'
        BY DEF WireInv, SentInv, Writable
  <1> QED BY <1>1, <1>2, <1>3, <1>4, <1>5 DEF WireInv

\* The process is started: nobody has heard anything yet.
LEMMA StartedFresh ==
    ASSUME SessionAssumption, IInv, WireInv, Start, state = "Stopped", ~stopping,
           server' = server, UNCHANGED <<stopping, initializeRequest, ready>>, WaitInv'
    PROVE  WireInv'
  <1>1. /\ child = "none" /\ ready = <<>> /\ initializeRequest = 0
        /\ child' = "spawned" /\ process' = TRUE /\ state' = "Starting"
        BY DEF IInv, EndInv, StartInv, Start
  <1>2. server' = NewServer
        BY <1>1 DEF WireInv, ChildInv
  <1>3. ServerTypes'
        BY <1>2, NewServerTypes DEF ServerTypes
  <1>4. InboxInv'
        BY <1>2 DEF InboxInv, NewServer
  <1>5. ChildInv' /\ HandshakeInv' /\ SentInv'
        BY <1>1, <1>2 DEF ChildInv, HandshakeInv, SentInv
  <1> QED BY <1>3, <1>4, <1>5 DEF WireInv

\* More is written to a server that has answered, and all of it is good: what a ready
\* session still has to see to is SentInv.
LEMMA BoxWritten ==
    ASSUME SessionAssumption, IInv, WireInv, Writable, initializeRequest # 0,
           server.phase \in {"answered", "ready"},
           NEW box \in Seq(Message), server' = [server EXCEPT !.inbox = box],
           \A i \in DOMAIN box : Good(server', i, nextRequest', initializeRequest),
           \A i \in DOMAIN server.inbox : i \in DOMAIN box /\ box[i] = server.inbox[i],
           state = "Initializing" => \A i \in DOMAIN box : box[i].kind \in {"initialize", "reply"},
           UNCHANGED <<child, process, stopping, initializeRequest, state>>,
           nextRequest \in Nat, nextRequest' \in Nat, nextRequest <= nextRequest',
           \A i \in DOMAIN ready' : \E j \in DOMAIN ready : ready'[i] = ready[j],
           \A i, j \in DOMAIN ready' :
              IsAnswer(ready'[i], initializeRequest) /\ IsAnswer(ready'[j], initializeRequest) => i = j,
           SentInv', WaitInv'
    PROVE  WireInv'
  <1>1. ServerTypes
        BY DEF WireInv
  <1>2. /\ server'.inbox = box /\ server'.phase = server.phase
        /\ server'.asked = server.asked /\ server'.seen = server.seen /\ server'.copy = server.copy
        /\ server'.confused = server.confused
        BY <1>1 DEF ServerTypes
  <1>3. ServerTypes'
    <2> HIDE DEF Message, Id, Copy
    <2> QED BY <1>1 DEF ServerTypes
  <1>4. InboxInv'
        BY <1>2 DEF InboxInv, WireInv
  <1>5. ChildInv'
        BY DEF WireInv, ChildInv, Writable
  <1>6. HandshakeInv'
    <2>1. \A r \in server.seen : r <= nextRequest'
      <3>1. \A r \in server.seen : r \in Nat /\ r <= nextRequest
            BY ServerParts DEF WireInv, HandshakeInv, Id, SessionAssumption
      <3> QED BY <3>1
    <2>2. \A i \in DOMAIN ready' :
              /\ IsAnswer(ready'[i], initializeRequest) => server.phase = "answered" /\ state = "Initializing"
              /\ ready'[i].kind = "ask" => server.phase \in {"answered", "ready"}
          BY DEF WireInv, HandshakeInv
    <2>5. state = "Ready" =>
              server.phase = "ready" \/ \E i \in DOMAIN box : box[i].kind = "initialized"
          BY DEF WireInv, HandshakeInv
    <2> QED BY <1>2, <2>1, <2>2, <2>5 DEF WireInv, HandshakeInv
  <1> QED BY <1>3, <1>4, <1>5, <1>6 DEF WireInv

\* The same for a single message.
LEMMA Written ==
    ASSUME SessionAssumption, IInv, WireInv, Writable, initializeRequest # 0,
           server.phase \in {"answered", "ready"},
           NEW m, Sendable(server, m, nextRequest', initializeRequest), Send(<<m>>),
           state = "Initializing" => m.kind = "reply",
           UNCHANGED <<child, process, stopping, initializeRequest, state>>,
           nextRequest \in Nat, nextRequest' \in Nat, nextRequest <= nextRequest',
           \A i \in DOMAIN ready' : \E j \in DOMAIN ready : ready'[i] = ready[j],
           \A i, j \in DOMAIN ready' :
              IsAnswer(ready'[i], initializeRequest) /\ IsAnswer(ready'[j], initializeRequest) => i = j,
           SentInv', WaitInv'
    PROVE  WireInv'
  <1> DEFINE box == server.inbox \o <<m>>
  <1>1. /\ ServerTypes /\ server.inbox \in Seq(Message) /\ m \in Message
        BY ServerParts DEF WireInv, Sendable
  <1>2. box \in Seq(Message) /\ server' = [server EXCEPT !.inbox = box]
        BY <1>1, Posted DEF Send
  <1>3. /\ server'.inbox = server.inbox \o <<m>> /\ server'.phase = server.phase
        /\ server'.seen = server.seen /\ server'.copy = server.copy
        BY <1>1, <1>2 DEF ServerTypes
  <1>4. \A i \in DOMAIN box : Good(server', i, nextRequest', initializeRequest)
    <2>1. \A i \in DOMAIN server.inbox : Good(server, i, nextRequest, initializeRequest)
          BY DEF WireInv, InboxInv
    <2> QED BY <1>1, <1>3, <2>1, GoodPosted
  <1>5. \A i \in DOMAIN server.inbox : i \in DOMAIN box /\ box[i] = server.inbox[i]
    <2>1. \A i \in 1..Len(server.inbox) : i \in 1..(Len(server.inbox) + 1)
          BY <1>1, Posted
    <2> QED BY <1>1, <2>1, Posted
  <1>6. state = "Initializing" => \A i \in DOMAIN box : box[i].kind \in {"initialize", "reply"}
    <2>1. \A i \in DOMAIN box : box[i] = m \/ (i \in DOMAIN server.inbox /\ box[i] = server.inbox[i])
      <3>1. \A i \in 1..(Len(server.inbox) + 1) : i \in 1..Len(server.inbox) \/ i = Len(server.inbox) + 1
            BY <1>1, Posted
      <3> QED BY <1>1, <3>1, Posted
    <2> QED BY <2>1 DEF WireInv, HandshakeInv
  <1> HIDE DEF box
  <1> QED BY <1>2, <1>4, <1>5, <1>6, BoxWritten

\* The answer to initialize comes once.
LEMMA OneAnswer ==
    ASSUME WireInv, Writable, initializeRequest # 0
    PROVE  \A i, j \in DOMAIN ready :
              IsAnswer(ready[i], initializeRequest) /\ IsAnswer(ready[j], initializeRequest) => i = j
    BY DEF WireInv, HandshakeInv

-----------------------------------------------------------------------------
(* The wire of a session that is ready.                                    *)

\* What the server has been told of u last.
Shown(u) == [language |-> documents[u].language, version |-> documents[u].revision]

\* What the invariants say of the wire of a ready session, in one place.
LEMMA ReadyWire ==
    ASSUME SessionAssumption, IInv, WireInv, state = "Ready", Writable
    PROVE  /\ initializeRequest # 0 /\ server.phase \in {"answered", "ready"}
           /\ server.phase = "ready" \/ \E i \in DOMAIN server.inbox : server.inbox[i].kind = "initialized"
           /\ \A u \in Uri, c \in Copy :
                 Has(server.copy, server.inbox, u, Len(server.inbox) + 1, c) => c = Shown(u)
           /\ nextRequest \in Nat
           /\ \A r \in server.seen : r <= nextRequest /\ r # initializeRequest
           /\ \A i \in DOMAIN server.inbox :
                 server.inbox[i].kind = "request" => server.inbox[i].id <= nextRequest
  <1>1. initializeRequest # 0 /\ nextRequest \in Nat
        BY DEF IInv, StartInv, SessionTypes, SessionAssumption
  <1>2. server.phase = "ready" \/ \E i \in DOMAIN server.inbox : server.inbox[i].kind = "initialized"
        BY <1>1 DEF WireInv, HandshakeInv
  <1>3. \A i \in DOMAIN server.inbox :
            /\ server.inbox[i].kind = "initialized" => server.phase = "answered"
            /\ server.inbox[i].kind = "request" => server.inbox[i].id <= nextRequest
        BY DEF WireInv, InboxInv, Good
  <1>4. \A r \in server.seen : r <= nextRequest /\ r # initializeRequest
        BY <1>1 DEF WireInv, HandshakeInv
  <1> QED BY <1>1, <1>2, <1>3, <1>4 DEF WireInv, SentInv, Shown

\* What has been sent stays sent, and the server ends with what the new message leaves.
LEMMA SentPosted ==
    ASSUME SessionAssumption, IInv, WireInv, state = "Ready", Writable, NEW m \in Message, Send(<<m>>)
    PROVE  /\ \A r : \/ r \in server.seen
                     \/ \E i \in DOMAIN server.inbox :
                           server.inbox[i].kind = "request" /\ server.inbox[i].id = r
                 => \/ r \in server'.seen
                    \/ \E i \in DOMAIN server'.inbox :
                          server'.inbox[i].kind = "request" /\ server'.inbox[i].id = r
           /\ \E i \in DOMAIN server'.inbox : server'.inbox[i] = m
           /\ \A u \in Uri, c \in Copy :
                 Has(server'.copy, server'.inbox, u, Len(server'.inbox) + 1, c) =>
                    c = IF IsAbout(m, u) THEN Leaves(m) ELSE Shown(u)
  <1>1. /\ ServerTypes /\ server.inbox \in Seq(Message)
        BY ServerParts DEF WireInv
  <1>2. server'.inbox = server.inbox \o <<m>> /\ server'.seen = server.seen /\ server'.copy = server.copy
        BY <1>1 DEF Send, ServerTypes
  <1>3. /\ \A i \in DOMAIN server.inbox : i \in DOMAIN server'.inbox /\ server'.inbox[i] = server.inbox[i]
        /\ \E i \in DOMAIN server'.inbox : server'.inbox[i] = m
    <2> DEFINE box == server.inbox \o <<m>>
               l   == Len(server.inbox)
    <2>1. /\ l \in Nat /\ DOMAIN server.inbox = 1..l /\ DOMAIN box = 1..(l + 1)
          /\ box[l + 1] = m /\ \A i \in 1..l : box[i] = server.inbox[i]
          BY <1>1, Posted
    <2> HIDE DEF box, l
    <2>2. l + 1 \in DOMAIN box /\ \A i \in DOMAIN server.inbox : i \in DOMAIN box
          BY <2>1
    <2>3. server'.inbox = box
          BY <1>2 DEF box
    <2> QED BY <2>1, <2>2, <2>3
  <1>4. ASSUME NEW u \in Uri, NEW c \in Copy,
               Has(server'.copy, server'.inbox, u, Len(server'.inbox) + 1, c)
        PROVE  c = IF IsAbout(m, u) THEN Leaves(m) ELSE Shown(u)
    <2>1. Has(server.copy, server.inbox \o <<m>>, u, Len(server.inbox \o <<m>>) + 1, c)
          BY <1>2, <1>4
    <2>2. IF IsAbout(m, u) THEN c = Leaves(m) ELSE Has(server.copy, server.inbox, u, Len(server.inbox) + 1, c)
          BY <1>1, <2>1, HasPosted
    <2> QED BY <2>2, ReadyWire
  <1> QED BY <1>2, <1>3, <1>4

\* A request whose document the server has by then, unless the session cannot write.
LEMMA RequestWires ==
    ASSUME SessionAssumption, IInv, WireInv, NEW u \in Uri \cup {"none"}, Request(u)
    PROVE  WireInv'
  <1> DEFINE id    == nextRequest + 1
             new   == [uri |-> u, revision |-> IF u = "none" THEN 0 ELSE documents[u].revision,
                       sent |-> state = "Ready"]
             table == [r \in DOMAIN pending \cup {id} |-> IF r = id THEN new ELSE pending[r]]
  <1>1. /\ nextRequest \in Nat /\ nextRequest <= MaxRequests /\ MaxRequests \in Nat
        /\ ~stopping /\ state # "Failed"
        /\ UNCHANGED <<stopping, initializeRequest, documents, ready>>
        /\ u # "none" => u \in Uri /\ documents[u] # None
        BY Room DEF Request, IInv, SessionTypes, SessionAssumption
  <1>2. CASE state = "Stopped" /\ StartThrows /\ UNCHANGED <<nextRequest, pending, fate, server>>
    <2>1. ~Writable /\ state' = "Failed" /\ child' = child
          BY <1>1, <1>2 DEF StartThrows, IInv, EndInv, Writable
    <2>2. server' = NewServer /\ child' \notin {"spawned", "running"}
          BY <1>2, <2>1, Silent
    <2>3. WaitInv'
          BY <2>1 DEF WaitInv
    <2> QED BY <1>1, <2>1, <2>2, <2>3, Sealed DEF WireInv, ChildInv
  <1>3. CASE FailWith(table, fate)
        BY <1>1, <1>3, FailureSeals
  <1>4. CASE /\ nextRequest' = id /\ pending' = table
             /\ Send(IF new.sent THEN <<RequestMessage(id, new)>> ELSE <<>>)
             /\ StartIfStopped
             /\ ~(state = "Ready" /\ ~Writable)
    <2>1. WaitInv'
      <3>1. CASE state' \in {"Starting", "Initializing"}
        <4>1. state \in {"Stopped", "Starting", "Initializing"}
              BY <1>4, <3>1 DEF StartIfStopped, Start
        <4>2. \A r \in DOMAIN pending : pending[r].uri # "none" =>
                  /\ documents[pending[r].uri] # None
                  /\ pending[r].revision <= documents[pending[r].uri].revision
          <5>1. state = "Stopped" => DOMAIN pending = {}
                BY DEF IInv, EndInv
          <5> QED BY <4>1, <5>1 DEF WireInv, WaitInv
        <4>3. u # "none" => documents[u].revision <= documents[u].revision
              BY <1>1 DEF IInv, SessionTypes, Snapshot, None, SessionAssumption
        <4> QED BY <1>1, <1>4, <4>2, <4>3 DEF WaitInv
      <3>2. CASE state' \notin {"Starting", "Initializing"}
            BY <3>2 DEF WaitInv
      <3> QED BY <3>1, <3>2
    <2>2. CASE state # "Ready"
      <3>1. server' = server
        <4>1. server.inbox \o <<>> = server.inbox
              BY ServerParts DEF WireInv
        <4> QED BY <1>4, <2>2, <4>1 DEF Send, WireInv, ServerTypes
      <3>2. CASE state = "Stopped"
            BY <1>1, <1>4, <2>1, <3>1, <3>2, StartedFresh DEF StartIfStopped
      <3>3. CASE state # "Stopped"
        <4>1. UNCHANGED <<state, process, child>>
              BY <1>4, <3>3 DEF StartIfStopped
        <4>2. nextRequest' \in Nat /\ nextRequest <= nextRequest'
              BY <1>1, <1>4
        <4>3. Writable /\ initializeRequest # 0 =>
                \A i, j \in DOMAIN ready' :
                   IsAnswer(ready'[i], initializeRequest) /\ IsAnswer(ready'[j], initializeRequest) => i = j
              BY <1>1, OneAnswer
        <4> QED BY <1>1, <2>1, <2>2, <3>1, <4>1, <4>2, <4>3, Untold
      <3> QED BY <3>2, <3>3
    <2>3. CASE state = "Ready"
      <3> DEFINE m == RequestMessage(id, new)
      <3>1. /\ Writable /\ Send(<<m>>) /\ UNCHANGED <<state, process, child>>
            BY <1>4, <2>3 DEF StartIfStopped
      <3>2. /\ m = [kind |-> "request", id |-> id, uri |-> u, language |-> "none", version |-> new.revision]
            /\ new.revision \in 0..MaxRevision
            /\ u # "none" => new.revision = documents[u].revision
        <4>1. new.revision \in 0..MaxRevision
              BY <1>1 DEF IInv, SessionTypes, Snapshot, SessionAssumption
        <4> QED BY <4>1 DEF RequestMessage, ToServer, None
      <3> HIDE DEF m, new
      <3>3. m \in Message /\ id \in Id
            BY <1>1, <3>2 DEF Message, MessageKinds, Id
      <3>4. Sendable(server, m, nextRequest', initializeRequest)
        <4>1. \A r \in server.seen \cup {server.inbox[i].id : i \in {j \in DOMAIN server.inbox : server.inbox[j].kind = "request"}} : r <= nextRequest
              BY <2>3, <3>1, ReadyWire
        <4>2. id \notin server.seen /\ \A j \in DOMAIN server.inbox : ~(server.inbox[j].kind = "request" /\ server.inbox[j].id = id)
              BY <1>1, <4>1
        <4>3. id <= nextRequest' /\ id # initializeRequest
              BY <1>1, <1>4 DEF IInv, SessionTypes
        <4>4. u # "none" => \A c \in Copy :
                Has(server.copy, server.inbox, u, Len(server.inbox) + 1, c) => Fits(c, m)
          <5> SUFFICES ASSUME u # "none", NEW c \in Copy, c = Shown(u)
                       PROVE  Fits(c, m)
                BY <1>1, <2>3, <3>1, ReadyWire
          <5>1. documents[u] \in Snapshot
                BY <1>1 DEF IInv, SessionTypes
          <5>2. c.version = documents[u].revision /\ documents[u].revision \in 1..MaxRevision
                BY <5>1 DEF Shown, Snapshot
          <5>3. c # Closed
                BY <5>2 DEF Closed
          <5>4. documents[u].revision >= new.revision
                BY <3>2, <5>2 DEF SessionAssumption
          <5> QED BY <3>2, <5>2, <5>3, <5>4 DEF Fits
        <4> QED BY <2>3, <3>1, <3>2, <3>3, <4>2, <4>3, <4>4, ReadyWire DEF Sendable
      <3>5. SentInv'
        <4>1. \A r \in DOMAIN pending' : IF r = id THEN pending'[r] = new
                                         ELSE r \in DOMAIN pending /\ pending'[r] = pending[r]
              BY <1>4
        <4>2. \A r \in DOMAIN pending' : pending'[r].sent
          <5>1. new.sent
                BY <2>3 DEF new
          <5>2. \A r \in DOMAIN pending : pending[r].sent
                BY <2>3, <3>1 DEF WireInv, SentInv
          <5> QED BY <4>1, <5>1, <5>2
        <4>3. \A r \in DOMAIN pending' :
                 \/ r \in server'.seen
                 \/ \E i \in DOMAIN server'.inbox :
                       server'.inbox[i].kind = "request" /\ server'.inbox[i].id = r
          <5>1. m.kind = "request" /\ m.id = id
                BY <3>2
          <5>2. \A r \in DOMAIN pending :
                   \/ r \in server.seen
                   \/ \E i \in DOMAIN server.inbox :
                         server.inbox[i].kind = "request" /\ server.inbox[i].id = r
                BY <2>3, <3>1 DEF WireInv, SentInv
          <5> QED BY <2>3, <3>1, <3>3, <4>1, <5>1, <5>2, SentPosted
        <4>4. \A v \in Uri : documents'[v] # None => documents'[v].published
              BY <1>1, <2>3, <3>1 DEF WireInv, SentInv
        <4>5. \A v \in Uri, c \in Copy :
                 Has(server'.copy, server'.inbox, v, Len(server'.inbox) + 1, c) => c = Shown(v)
          <5>1. \A v : ~IsAbout(m, v)
                BY <3>2 DEF IsAbout
          <5> QED BY <2>3, <3>1, <3>3, <5>1, SentPosted
        <4> QED BY <1>1, <4>2, <4>3, <4>4, <4>5 DEF SentInv, Shown
      <3>6. /\ initializeRequest # 0 /\ server.phase \in {"answered", "ready"}
            /\ nextRequest' \in Nat /\ nextRequest <= nextRequest'
            BY <1>1, <1>4, <2>3, <3>1, ReadyWire
      <3> QED BY <1>1, <2>1, <2>3, <3>1, <3>4, <3>5, <3>6, OneAnswer, Written
    <2> QED BY <2>2, <2>3
  <1> QED BY <1>2, <1>3, <1>4 DEF Request

\* A ready session says one more thing, and its documents are what the server then has.
LEMMA ReadyWrites ==
    ASSUME SessionAssumption, IInv, WireInv, state = "Ready", Writable,
           NEW m, Sendable(server, m, nextRequest, initializeRequest), Send(<<m>>),
           UNCHANGED <<child, process, stopping, nextRequest, initializeRequest, state, ready>>,
           \A r \in DOMAIN pending' : r \in DOMAIN pending /\ pending'[r].sent,
           \A u \in Uri : documents'[u] # None => documents'[u].published,
           \A u \in Uri : Shown(u)' = IF IsAbout(m, u) THEN Leaves(m) ELSE Shown(u)
    PROVE  WireInv'
  <1>1. m \in Message /\ nextRequest \in Nat
        BY ReadyWire DEF Sendable
  <1>2. SentInv'
    <2>1. \A r \in DOMAIN pending' :
             \/ r \in server'.seen
             \/ \E i \in DOMAIN server'.inbox :
                   server'.inbox[i].kind = "request" /\ server'.inbox[i].id = r
      <3>1. \A r \in DOMAIN pending :
               \/ r \in server.seen
               \/ \E i \in DOMAIN server.inbox :
                     server.inbox[i].kind = "request" /\ server.inbox[i].id = r
            BY DEF WireInv, SentInv
      <3> QED BY <1>1, <3>1, SentPosted
    <2>2. \A u \in Uri, c \in Copy :
             Has(server'.copy, server'.inbox, u, Len(server'.inbox) + 1, c) => c = Shown(u)'
          BY <1>1, SentPosted
    <2> QED BY <2>1, <2>2 DEF SentInv, Shown
  <1>3. WaitInv'
        BY DEF WaitInv
  <1>4. \A i \in DOMAIN ready' : \E j \in DOMAIN ready : ready'[i] = ready[j]
        OBVIOUS
  <1>5. initializeRequest # 0 /\ server.phase \in {"answered", "ready"}
        BY ReadyWire
  <1> QED BY <1>1, <1>2, <1>3, <1>4, <1>5, OneAnswer, Written

\* A cancellation follows the request it is for.
LEMMA CancelRequestWires ==
    ASSUME SessionAssumption, IInv, WireInv, NEW id \in Id, CancelRequest(id)
    PROVE  WireInv'
  <1> DEFINE f     == [fate EXCEPT ![id] = "cancelled"]
             table == Restrict(pending, DOMAIN pending \ {id})
             told  == pending[id].sent /\ state = "Ready"
  <1>1. /\ id \in DOMAIN pending
        /\ UNCHANGED <<stopping, process, nextRequest, initializeRequest, documents, ready>>
        BY DEF CancelRequest
  <1>2. DOMAIN table \subseteq DOMAIN pending /\ \A r \in DOMAIN table : table[r] = pending[r]
        BY DEF Restrict
  <1>3. CASE FailWith(table, f)
        BY <1>1, <1>3, FailureSeals
  <1>4. CASE told /\ Writable /\ pending' = table /\ Send(<<Plain("cancel", id)>>) /\ UNCHANGED <<state, child>>
    <2> DEFINE m == Plain("cancel", id)
    <2>1. m = [kind |-> "cancel", id |-> id, uri |-> "none", language |-> "none", version |-> 0]
          BY DEF Plain, ToServer, None
    <2>2. m \in Message
          BY <2>1 DEF Message, MessageKinds, SessionAssumption
    <2> HIDE DEF m
    <2>3. \/ id \in server.seen
          \/ \E j \in DOMAIN server.inbox : server.inbox[j].kind = "request" /\ server.inbox[j].id = id
          BY <1>1, <1>4 DEF WireInv, SentInv
    <2>4. Sendable(server, m, nextRequest, initializeRequest)
          BY <2>1, <2>2, <2>3 DEF Sendable
    <2>5. /\ \A r \in DOMAIN pending : pending[r].sent
          /\ \A u \in Uri : documents[u] # None => documents[u].published
          BY <1>4 DEF WireInv, SentInv
    <2>6. \A u : ~IsAbout(m, u)
          BY <2>1 DEF IsAbout
    <2>7. Send(<<m>>)
          BY <1>4 DEF m
    <2>8. \A u \in Uri : Shown(u)' = Shown(u)
          BY <1>1 DEF Shown
    <2> HIDE DEF told, table
    <2>9. UNCHANGED <<child, process, stopping, nextRequest, initializeRequest, state, ready>>
          BY <1>1, <1>4
    <2>10. \A r \in DOMAIN pending' : r \in DOMAIN pending /\ pending'[r].sent
          BY <1>2, <1>4, <2>5
    <2>11. \A u \in Uri : documents'[u] # None => documents'[u].published
          BY <1>1, <2>5
    <2>12. state = "Ready" /\ Writable
          BY <1>4 DEF told
    <2> QED BY <2>4, <2>6, <2>7, <2>8, <2>9, <2>10, <2>11, <2>12, ReadyWrites
  <1>5. CASE ~told /\ pending' = table /\ Send(<<>>) /\ UNCHANGED <<state, child>>
    <2>1. server' = server
      <3>1. server.inbox \o <<>> = server.inbox
            BY ServerParts DEF WireInv
      <3> QED BY <1>5, <3>1 DEF Send, WireInv, ServerTypes
    <2>2. WaitInv'
          BY <1>1, <1>2, <1>5 DEF WireInv, WaitInv
    <2>3. nextRequest \in Nat
          BY DEF IInv, SessionTypes, SessionAssumption
    <2>4. \A i \in DOMAIN ready' : \E j \in DOMAIN ready : ready'[i] = ready[j]
          BY <1>1
    <2> HIDE DEF told, table
    <2>5. \A r \in DOMAIN pending' : r \in DOMAIN pending /\ pending'[r] = pending[r]
          BY <1>2, <1>5
    <2> QED BY <1>1, <1>5, <2>1, <2>2, <2>3, <2>4, <2>5, OneAnswer, Untold
  <1>6. \/ FailWith(table, f)
        \/ ~(told /\ ~Writable) /\ pending' = table /\ UNCHANGED <<state, child>>
           /\ Send(IF told THEN <<Plain("cancel", id)>> ELSE <<>>)
        BY DEF CancelRequest
  <1> QED BY <1>3, <1>4, <1>5, <1>6

\* A document is closed that the server has open.
LEMMA CloseDocumentWires ==
    ASSUME SessionAssumption, IInv, WireInv, NEW u \in Uri, CloseDocument(u)
    PROVE  WireInv'
  <1> DEFINE told  == documents[u].published /\ state = "Ready"
             table == [r \in DOMAIN pending |-> IF pending[r].uri = u /\ ~pending[r].sent
                                                THEN [pending[r] EXCEPT !.uri = "none"] ELSE pending[r]]
  <1>1. /\ documents[u] # None /\ documents' = [documents EXCEPT ![u] = None] /\ DOMAIN documents = Uri
        /\ UNCHANGED <<stopping, process, nextRequest, initializeRequest, ready>>
        BY DEF CloseDocument, IInv, SessionTypes
  <1>2. CASE Fail
        BY <1>1, <1>2, FailureSeals DEF Fail
  <1>3. \A r \in DOMAIN table :
            /\ r \in DOMAIN pending /\ table[r].sent = pending[r].sent
            /\ table[r].revision = pending[r].revision
            /\ table[r].uri # "none" => table[r].uri = pending[r].uri
            /\ table[r].uri = u => pending[r].sent
    <2> SUFFICES ASSUME NEW r \in DOMAIN pending
                 PROVE  /\ table[r].sent = pending[r].sent
                        /\ table[r].revision = pending[r].revision
                        /\ table[r].uri # "none" => table[r].uri = pending[r].uri
                        /\ table[r].uri = u => pending[r].sent
          OBVIOUS
    <2>1. pending[r] \in Record
          BY DEF IInv, SessionTypes
    <2>2. u # "none"
          BY DEF SessionAssumption
    <2> QED BY <2>1, <2>2 DEF Record
  <1>4. CASE told /\ Writable /\ pending' = table /\ Send(<<Notice("close", u)>>) /\ UNCHANGED <<state, child>>
    <2> DEFINE m == Notice("close", u)
    <2>1. /\ m.kind = "close" /\ m.uri = u /\ m \in Message
      <3>1. documents[u] \in Snapshot
            BY <1>1 DEF IInv, SessionTypes
      <3>2. m = [kind |-> "close", id |-> 0, uri |-> u,
                 language |-> documents[u].language, version |-> documents[u].revision]
            BY DEF Notice, ToServer
      <3>3. documents[u].language \in Language /\ documents[u].revision \in 0..MaxRevision
            BY <3>1 DEF Snapshot, SessionAssumption
      <3> QED BY <3>2, <3>3 DEF Message, MessageKinds
    <2> HIDE DEF m, told, table
    <2>2. state = "Ready" /\ u # "none"
          BY <1>4 DEF told, SessionAssumption
    <2>3. \A c \in Copy : Has(server.copy, server.inbox, u, Len(server.inbox) + 1, c) => Fits(c, m)
      <3> SUFFICES ASSUME NEW c \in Copy, c = Shown(u)
                   PROVE  Fits(c, m)
            BY <1>4, <2>2, ReadyWire
      <3>1. documents[u] \in Snapshot
            BY <1>1 DEF IInv, SessionTypes
      <3>2. c.version # 0
            BY <3>1 DEF Shown, Snapshot
      <3> QED BY <2>1, <3>2 DEF Fits, Closed
    <2>4. Sendable(server, m, nextRequest, initializeRequest)
          BY <2>1, <2>2, <2>3 DEF Sendable
    <2>5. /\ \A r \in DOMAIN pending : pending[r].sent
          /\ \A v \in Uri : documents[v] # None => documents[v].published
          BY <1>4, <2>2 DEF WireInv, SentInv
    <2>6. \A v \in Uri : Shown(v)' = IF IsAbout(m, v) THEN Leaves(m) ELSE Shown(v)
      <3>1. \A v \in Uri : documents'[v] = IF v = u THEN None ELSE documents[v]
            BY <1>1
      <3>2. Leaves(m) = Closed /\ \A v : IsAbout(m, v) <=> v = u
            BY <2>1 DEF Leaves, IsAbout
      <3> QED BY <3>1, <3>2 DEF Shown, None, Closed
    <2>7. Send(<<m>>)
          BY <1>4 DEF m
    <2>8. \A r \in DOMAIN pending' : r \in DOMAIN pending /\ pending'[r].sent
          BY <1>3, <1>4, <2>5
    <2>9. \A v \in Uri : documents'[v] # None => documents'[v].published
          BY <1>1, <2>5
    <2> QED BY <1>1, <1>4, <2>2, <2>4, <2>6, <2>7, <2>8, <2>9, ReadyWrites
  <1>5. CASE ~told /\ pending' = table /\ Send(<<>>) /\ UNCHANGED <<state, child>>
    <2>1. server' = server
      <3>1. server.inbox \o <<>> = server.inbox
            BY ServerParts DEF WireInv
      <3> QED BY <1>5, <3>1 DEF Send, WireInv, ServerTypes
    <2>2. ~(state = "Ready" /\ Writable)
          BY <1>1, <1>5 DEF WireInv, SentInv
    <2>3. WaitInv'
      <3> SUFFICES ASSUME state \in {"Starting", "Initializing"}, NEW r \in DOMAIN pending', pending'[r].uri # "none"
                   PROVE  /\ documents'[pending'[r].uri] # None
                          /\ pending'[r].revision <= documents'[pending'[r].uri].revision
            BY <1>5 DEF WaitInv
      <3> HIDE DEF table, told
      <3>1. /\ r \in DOMAIN pending /\ pending'[r].revision = pending[r].revision
            /\ pending'[r].uri = pending[r].uri /\ (pending'[r].uri = u => pending[r].sent)
            BY <1>3, <1>5
      <3>2. ~pending[r].sent
            BY <3>1 DEF IInv, UnsentInv
      <3>3. /\ documents[pending[r].uri] # None
            /\ pending[r].revision <= documents[pending[r].uri].revision
            BY <3>1 DEF WireInv, WaitInv
      <3>4. documents'[pending[r].uri] = documents[pending[r].uri]
            BY <1>1, <3>1, <3>2
      <3> QED BY <3>1, <3>3, <3>4
    <2>4. nextRequest \in Nat
          BY DEF IInv, SessionTypes, SessionAssumption
    <2>5. \A i \in DOMAIN ready' : \E j \in DOMAIN ready : ready'[i] = ready[j]
          BY <1>1
    <2> QED BY <1>1, <1>5, <2>1, <2>2, <2>3, <2>4, <2>5, OneAnswer, Untold
  <1>6. \/ Fail
        \/ ~(told /\ ~Writable) /\ pending' = table /\ UNCHANGED <<state, child>>
           /\ Send(IF told THEN <<Notice("close", u)>> ELSE <<>>)
        BY DEF CloseDocument
  <1> QED BY <1>2, <1>4, <1>5, <1>6

\* The destructor leaves nobody to hear.
LEMMA StopWires ==
    ASSUME SessionAssumption, IInv, WireInv, Stop
    PROVE  WireInv'
  <1>1. /\ ready' = <<>> /\ state' = "Stopped" /\ child' = (IF Writable THEN "terminated" ELSE child)
        /\ server' = [NewServer EXCEPT !.confused = server.confused]
        BY DEF Stop, Terminate, Lost
  <1>2. server' = NewServer
    <2>1. server.confused = FALSE
          BY ServerParts DEF WireInv, InboxInv
    <2> QED BY <1>1, <2>1 DEF NewServer
  <1>3. child' \notin {"spawned", "running"}
        BY <1>1, Silent
  <1>4. WaitInv'
        BY <1>1 DEF WaitInv
  <1> QED BY <1>1, <1>2, <1>3, <1>4, Sealed

\* A snapshot opens a document, or changes one that the server has at an earlier version.
LEMMA PublicationFits ==
    ASSUME SessionAssumption, IInv, WireInv, state = "Ready", Writable,
           NEW u \in Uri, NEW v \in 1..MaxRevision, NEW l \in Language,
           v >= documents[u].revision, <<l, v>> # <<documents[u].language, documents[u].revision>>,
           NEW new, new.language = l, new.revision = v,
           NEW m, m = Publication(u, new),
           NEW c, c = IF new.published THEN Shown(u) ELSE Closed,
           new.published => documents[u].published /\ documents[u].language = l
    PROVE  /\ m \in Message /\ m.kind \in {"open", "change"} /\ m.uri = u /\ u # "none"
           /\ Fits(c, m) /\ Leaves(m) = [language |-> l, version |-> v]
  <1>1. /\ m = [kind |-> IF new.published THEN "change" ELSE "open", id |-> 0, uri |-> u,
                language |-> l, version |-> v]
        BY DEF Publication, ToServer
  <1>2. u # "none" /\ v \in 0..MaxRevision
        BY DEF SessionAssumption
  <1>3. m \in Message
        BY <1>1, <1>2 DEF Message, MessageKinds
  <1>4. CASE new.published
    <2>1. documents[u] \in Snapshot
          BY <1>4 DEF IInv, SessionTypes, None
    <2>2. c.version = documents[u].revision /\ documents[u].revision \in 1..MaxRevision /\ c.language = l
          BY <1>4, <2>1 DEF Shown, Snapshot
    <2>3. c.version < v
          BY <1>4, <2>2 DEF SessionAssumption
    <2>4. c # Closed
          BY <2>2 DEF Closed
    <2> QED BY <1>1, <1>2, <1>3, <1>4, <2>2, <2>3, <2>4 DEF Fits, Leaves
  <1>5. CASE ~new.published
    <2>1. [language |-> l, version |-> v] \in Copy
          BY DEF Copy
    <2> QED BY <1>1, <1>2, <1>3, <1>5, <2>1 DEF Fits, Leaves
  <1> QED BY <1>4, <1>5

\* A document that is opened again is closed first.
LEMMA ReopenedWires ==
    ASSUME SessionAssumption, IInv, WireInv, state = "Ready", Writable,
           NEW u \in Uri, NEW v \in 1..MaxRevision, NEW l \in Language,
           v >= documents[u].revision, <<l, v>> # <<documents[u].language, documents[u].revision>>,
           documents[u].published,
           NEW new, new.language = l, new.revision = v, ~new.published,
           NEW shown, shown.language = l, shown.revision = v, shown.published,
           Send(<<Notice("close", u)>> \o <<Publication(u, new)>>),
           documents' = [documents EXCEPT ![u] = shown],
           UNCHANGED <<state, process, pending, fate, child, stopping, nextRequest, initializeRequest, ready>>
    PROVE  WireInv'
  <1> DEFINE close == Notice("close", u)
             open  == Publication(u, new)
             box   == server.inbox \o <<close>>
             s     == [server EXCEPT !.inbox = box]
  <1>1. /\ close.kind = "close" /\ close.uri = u /\ close \in Message
    <2>1. documents[u] \in Snapshot
          BY DEF IInv, SessionTypes, None
    <2>2. close = [kind |-> "close", id |-> 0, uri |-> u,
                   language |-> documents[u].language, version |-> documents[u].revision]
          BY DEF Notice, ToServer
    <2>3. documents[u].language \in Language /\ documents[u].revision \in 0..MaxRevision
          BY <2>1 DEF Snapshot, SessionAssumption
    <2> QED BY <2>2, <2>3 DEF Message, MessageKinds
  <1>2. /\ open \in Message /\ open.kind = "open" /\ open.uri = u /\ u # "none"
        /\ Fits(Closed, open) /\ Leaves(open) = [language |-> l, version |-> v]
    <2>1. open.kind = "open"
          BY DEF Publication, ToServer
    <2> HIDE DEF open
    <2>2. open = Publication(u, new) /\ Closed = IF new.published THEN Shown(u) ELSE Closed
          BY DEF open
    <2>3. /\ open \in Message /\ open.uri = u /\ u # "none"
          /\ Fits(Closed, open) /\ Leaves(open) = [language |-> l, version |-> v]
          BY <2>2, PublicationFits
    <2> QED BY <2>1, <2>3
  <1> HIDE DEF close, open
  <1>3. ServerTypes /\ server.inbox \in Seq(Message) /\ server.copy \in [Uri -> Copy]
        BY ServerParts DEF WireInv
  <1>4. /\ box \in Seq(Message) /\ s.inbox = box /\ s.phase = server.phase /\ s.seen = server.seen
        /\ s.copy = server.copy
        BY <1>1, <1>3, Posted DEF ServerTypes
  <1>5. /\ box \o <<open>> \in Seq(Message)
        /\ server' = [server EXCEPT !.inbox = box \o <<open>>]
        /\ server'.inbox = box \o <<open>> /\ server'.phase = server.phase
        /\ server'.seen = server.seen /\ server'.copy = server.copy
    <2>1. server.inbox \o (<<close>> \o <<open>>) = box \o <<open>>
      <3>1. <<close>> \in Seq(Message) /\ <<open>> \in Seq(Message)
            BY <1>1, <1>2
      <3> QED BY <1>3, <3>1
    <2>2. server' = [server EXCEPT !.inbox = server.inbox \o (<<close>> \o <<open>>)]
          BY DEF Send, close, open
    <2>3. box \o <<open>> \in Seq(Message)
          BY <1>2, <1>4, Posted
    <2> HIDE DEF box
    <2> QED BY <1>3, <2>1, <2>2, <2>3 DEF ServerTypes
  <1>6. /\ initializeRequest # 0 /\ server.phase \in {"answered", "ready"}
        /\ server.phase = "ready" \/ \E i \in DOMAIN server.inbox : server.inbox[i].kind = "initialized"
        /\ \A w \in Uri, c \in Copy :
              Has(server.copy, server.inbox, w, Len(server.inbox) + 1, c) => c = Shown(w)
        /\ nextRequest \in Nat
        BY ReadyWire
  <1>7. \A w \in Uri, c \in Copy :
           Has(s.copy, s.inbox, w, Len(s.inbox) + 1, c) => c = IF w = u THEN Closed ELSE Shown(w)
    <2> SUFFICES ASSUME NEW w \in Uri, NEW c \in Copy, Has(server.copy, box, w, Len(box) + 1, c)
                 PROVE  c = IF w = u THEN Closed ELSE Shown(w)
          BY <1>4
    <2>1. IF IsAbout(close, w) THEN c = Leaves(close)
          ELSE Has(server.copy, server.inbox, w, Len(server.inbox) + 1, c)
          BY <1>1, <1>3, HasPosted
    <2>2. (IsAbout(close, w) <=> w = u) /\ Leaves(close) = Closed
          BY <1>1 DEF IsAbout, Leaves
    <2> QED BY <1>6, <2>1, <2>2
  <1>8. /\ \A i \in DOMAIN server.inbox : i \in DOMAIN box /\ box[i] = server.inbox[i]
        /\ \A i \in DOMAIN box : i \in DOMAIN (box \o <<open>>) /\ (box \o <<open>>)[i] = box[i]
    <2>1. ASSUME NEW q \in Seq(Message), NEW m \in Message
          PROVE  \A i \in DOMAIN q : i \in DOMAIN (q \o <<m>>) /\ (q \o <<m>>)[i] = q[i]
      <3>1. \A i \in 1..Len(q) : i \in 1..(Len(q) + 1)
            BY Posted
      <3> QED BY <3>1, Posted
    <2> QED BY <1>1, <1>2, <1>3, <1>4, <2>1
  <1>9. \A i \in DOMAIN s.inbox : Good(s, i, nextRequest, initializeRequest)
    <2>1. \A c \in Copy : Has(server.copy, server.inbox, u, Len(server.inbox) + 1, c) => Fits(c, close)
      <3>1. Shown(u) # Closed
        <4>1. documents[u].revision # 0
              BY DEF IInv, SessionTypes, Snapshot, None
        <4> QED BY <4>1 DEF Shown, Closed
      <3> QED BY <1>1, <1>6, <3>1 DEF Fits
    <2>2. Sendable(server, close, nextRequest, initializeRequest)
          BY <1>1, <1>2, <2>1 DEF Sendable
    <2>3. server.phase # "new" /\ nextRequest <= nextRequest
          BY <1>6
    <2>4. \A i \in DOMAIN server.inbox : Good(server, i, nextRequest, initializeRequest)
          BY DEF WireInv, InboxInv
    <2> HIDE DEF s
    <2> QED BY <1>3, <1>4, <1>6, <2>2, <2>3, <2>4, GoodPosted
  <1> HIDE DEF s
  <1>10. \A i \in DOMAIN server'.inbox : Good(server', i, nextRequest, initializeRequest)
    <2>1. \A c \in Copy : Has(s.copy, s.inbox, u, Len(s.inbox) + 1, c) => Fits(c, open)
          BY <1>2, <1>7
    <2>2. s.phase = "ready" \/ \E i \in DOMAIN s.inbox : s.inbox[i].kind = "initialized"
          BY <1>4, <1>6, <1>8
    <2>3. Sendable(s, open, nextRequest, initializeRequest)
          BY <1>2, <2>1, <2>2 DEF Sendable
    <2>4. s.phase # "new" /\ nextRequest <= nextRequest /\ nextRequest \in Nat
          BY <1>4, <1>6
    <2>5. /\ server'.inbox = s.inbox \o <<open>> /\ server'.phase = s.phase
          /\ server'.seen = s.seen /\ server'.copy = s.copy /\ s.inbox \in Seq(Message)
          BY <1>4, <1>5
    <2> HIDE DEF box
    <2> QED BY <1>9, <2>3, <2>4, <2>5, GoodPosted
  <1>11. SentInv'
    <2>1. \A r \in DOMAIN pending :
             /\ pending[r].sent
             /\ \/ r \in server'.seen
                \/ \E i \in DOMAIN server'.inbox :
                      server'.inbox[i].kind = "request" /\ server'.inbox[i].id = r
      <3>1. \A r \in DOMAIN pending :
               /\ pending[r].sent
               /\ \/ r \in server.seen
                  \/ \E i \in DOMAIN server.inbox :
                        server.inbox[i].kind = "request" /\ server.inbox[i].id = r
            BY DEF WireInv, SentInv
      <3> QED BY <1>5, <1>8, <3>1
    <2>2. \A w \in Uri : documents'[w] # None => documents'[w].published
          BY DEF WireInv, SentInv
    <2>3. \A w \in Uri, c \in Copy :
             Has(server'.copy, server'.inbox, w, Len(server'.inbox) + 1, c) => c = Shown(w)'
      <3> SUFFICES ASSUME NEW w \in Uri, NEW c \in Copy,
                          Has(server.copy, box \o <<open>>, w, Len(box \o <<open>>) + 1, c)
                   PROVE  c = Shown(w)'
            BY <1>5
      <3>1. IF IsAbout(open, w) THEN c = Leaves(open) ELSE Has(server.copy, box, w, Len(box) + 1, c)
        <4> HIDE DEF box
        <4> QED BY <1>2, <1>4, HasPosted
      <3>2. IsAbout(open, w) <=> w = u
            BY <1>2 DEF IsAbout
      <3>3. documents'[w] = IF w = u THEN shown ELSE documents[w]
            BY DEF IInv, SessionTypes
      <3> QED BY <1>2, <1>4, <1>7, <3>1, <3>2, <3>3 DEF Shown
    <2> QED BY <2>1, <2>2, <2>3 DEF SentInv, Shown
  <1>12. WaitInv'
        BY DEF WaitInv
  <1>13. \A i \in DOMAIN server.inbox : i \in DOMAIN (box \o <<open>>) /\ (box \o <<open>>)[i] = server.inbox[i]
        BY <1>8
  <1>14. \A i \in DOMAIN (box \o <<open>>) : Good(server', i, nextRequest', initializeRequest)
        BY <1>5, <1>10
  <1>15. nextRequest' \in Nat /\ nextRequest <= nextRequest'
        BY <1>6
  <1>16. \A i \in DOMAIN ready' : \E j \in DOMAIN ready : ready'[i] = ready[j]
        OBVIOUS
  <1>17. \A i, j \in DOMAIN ready' :
            IsAnswer(ready'[i], initializeRequest) /\ IsAnswer(ready'[j], initializeRequest) => i = j
        BY <1>6, OneAnswer
  <1> DEFINE longer == box \o <<open>>
  <1>18. longer \in Seq(Message) /\ server' = [server EXCEPT !.inbox = longer]
        BY <1>5
  <1>19. \A i \in DOMAIN server.inbox : i \in DOMAIN longer /\ longer[i] = server.inbox[i]
        BY <1>13
  <1>20. \A i \in DOMAIN longer : Good(server', i, nextRequest', initializeRequest)
        BY <1>14
  <1> HIDE DEF longer
  <1> QED BY <1>6, <1>11, <1>12, <1>15, <1>16, <1>17, <1>18, <1>19, <1>20, BoxWritten

\* A snapshot reaches a ready server, and waits for the others.
LEMMA SynchronizeDocumentWires ==
    ASSUME SessionAssumption, IInv, WireInv, NEW u \in Uri, NEW v \in 1..MaxRevision, NEW l \in Language,
           SynchronizeDocument(u, v, l)
    PROVE  WireInv'
  <1> DEFINE old      == documents[u]
             reopened == Reopened(old, l)
             new      == [language |-> l, revision |-> v, published |-> old.published /\ ~reopened]
  <1>1. /\ ~stopping /\ state # "Failed"
        /\ v >= old.revision /\ <<l, v>> # <<old.language, old.revision>>
        /\ UNCHANGED <<stopping, nextRequest, initializeRequest, ready>>
        /\ nextRequest \in Nat
        BY DEF SynchronizeDocument, IInv, SessionTypes, SessionAssumption
  <1>2. new.language = l /\ new.revision = v /\ (new.published <=> old.published /\ ~reopened)
        OBVIOUS
  <1>3. CASE /\ state = "Ready" /\ Writable
             /\ Send((IF reopened THEN <<Notice("close", u)>> ELSE <<>>) \o <<Publication(u, new)>>)
             /\ documents' = [documents EXCEPT ![u] = [new EXCEPT !.published = TRUE]]
             /\ UNCHANGED <<state, process, pending, fate, child>>
    <2> DEFINE shown == [new EXCEPT !.published = TRUE]
    <2>1. shown.language = l /\ shown.revision = v /\ shown.published
          OBVIOUS
    <2>2. CASE reopened
      <3>1. old.published /\ ~new.published
            BY <1>2, <2>2 DEF Reopened
      <3>2. Send(<<Notice("close", u)>> \o <<Publication(u, new)>>)
            BY <1>3, <2>2
      <3>3. documents' = [documents EXCEPT ![u] = shown]
            BY <1>3
      <3>4. UNCHANGED <<state, process, pending, fate, child, stopping, nextRequest, initializeRequest, ready>>
            BY <1>1, <1>3
      <3>5. state = "Ready" /\ Writable
            BY <1>3
      <3>6. v >= documents[u].revision /\ <<l, v>> # <<documents[u].language, documents[u].revision>>
            /\ documents[u].published /\ ~new.published
            BY <1>1, <3>1
      <3> HIDE DEF new, shown, reopened
      <3> QED BY <1>2, <2>1, <3>2, <3>3, <3>4, <3>5, <3>6, ReopenedWires
    <2>3. CASE ~reopened
      <3> DEFINE m == Publication(u, new)
                 c == IF old.published THEN Shown(u) ELSE Closed
      <3>1. new.published <=> old.published
            BY <1>2, <2>3
      <3>2. old.published => old.language = l
            BY <2>3 DEF Reopened
      <3>3. /\ m \in Message /\ m.kind \in {"open", "change"} /\ m.uri = u /\ u # "none"
            /\ Fits(c, m) /\ Leaves(m) = [language |-> l, version |-> v]
        <4>1. m = Publication(u, new) /\ c = IF new.published THEN Shown(u) ELSE Closed
              BY <3>1
        <4> HIDE DEF new, m, c
        <4> QED BY <1>1, <1>2, <1>3, <3>1, <3>2, <4>1, PublicationFits
      <3>4. Shown(u) = c
        <4>1. CASE ~old.published
          <5>1. old = None
                BY <1>3, <4>1 DEF WireInv, SentInv
          <5> QED BY <4>1, <5>1 DEF Shown, None, Closed
        <4> QED BY <4>1
      <3>5. Send(<<m>>)
        <4>1. m \in Message => <<>> \o <<m>> = <<m>>
              OBVIOUS
        <4> HIDE DEF m
        <4>2. Send(<<>> \o <<m>>)
              BY <1>3, <2>3 DEF m
        <4> QED BY <3>3, <4>1, <4>2
      <3> HIDE DEF m, c
      <3>6. Sendable(server, m, nextRequest, initializeRequest)
        <4>1. \A d \in Copy : Has(server.copy, server.inbox, u, Len(server.inbox) + 1, d) => Fits(d, m)
              BY <1>3, <3>3, <3>4, ReadyWire
        <4>2. server.phase = "ready" \/ \E i \in DOMAIN server.inbox : server.inbox[i].kind = "initialized"
              BY <1>3, ReadyWire
        <4> QED BY <3>3, <4>1, <4>2 DEF Sendable
      <3>7. \A w \in Uri : documents'[w] = IF w = u THEN shown ELSE documents[w]
            BY <1>3 DEF IInv, SessionTypes
      <3>8. \A w \in Uri : Shown(w)' = IF IsAbout(m, w) THEN Leaves(m) ELSE Shown(w)
        <4>1. \A w : IsAbout(m, w) <=> w = u
              BY <3>3 DEF IsAbout
        <4> HIDE DEF shown
        <4> QED BY <2>1, <3>3, <3>7, <4>1 DEF Shown
      <3>9. /\ \A w \in Uri : documents'[w] # None => documents'[w].published
            /\ \A r \in DOMAIN pending' : r \in DOMAIN pending /\ pending'[r].sent
            BY <1>3, <2>1, <3>7 DEF WireInv, SentInv
      <3> QED BY <1>1, <1>3, <3>5, <3>6, <3>8, <3>9, ReadyWrites
    <2> QED BY <2>2, <2>3
  <1>4. CASE Fail
        BY <1>1, <1>4, FailureSeals DEF Fail
  <1>5. CASE /\ state # "Ready"
             /\ documents' = [documents EXCEPT ![u] = new]
             /\ StartIfStopped \/ (state = "Stopped" /\ StartThrows)
             /\ UNCHANGED <<pending, fate, server>>
    <2>1. WaitInv'
      <3>1. CASE state' \in {"Starting", "Initializing"}
        <4> SUFFICES ASSUME NEW r \in DOMAIN pending, pending[r].uri # "none"
                     PROVE  /\ documents'[pending[r].uri] # None
                            /\ pending[r].revision <= documents'[pending[r].uri].revision
              BY <1>5 DEF WaitInv
        <4>1. state \in {"Starting", "Initializing"}
              BY <1>1, <1>5, <3>1 DEF IInv, SessionTypes, EndInv
        <4>2. /\ pending[r] \in Record
              /\ documents[pending[r].uri] # None
              /\ pending[r].revision <= documents[pending[r].uri].revision
              BY <4>1 DEF WireInv, WaitInv, IInv, SessionTypes
        <4>3. documents[pending[r].uri] \in Snapshot /\ pending[r].uri \in Uri
              BY <4>2 DEF IInv, SessionTypes, Record
        <4>4. documents'[pending[r].uri] = IF pending[r].uri = u THEN new ELSE documents[pending[r].uri]
              BY <1>5, <4>3 DEF IInv, SessionTypes
        <4>5. CASE pending[r].uri = u
          <5>1. documents'[pending[r].uri] = new /\ new # None /\ new.revision = v
                BY <4>4, <4>5 DEF None, SessionAssumption
          <5>2. pending[r].revision \in Nat /\ old.revision \in Nat /\ v \in Nat
                BY <4>2, <4>3, <4>5 DEF Record, Snapshot, SessionAssumption
          <5>3. pending[r].revision <= v
                BY <1>1, <4>2, <4>5, <5>2
          <5> QED BY <5>1, <5>3
        <4>6. CASE pending[r].uri # u
              BY <4>2, <4>4, <4>6
        <4> QED BY <4>5, <4>6
      <3> QED BY <3>1 DEF WaitInv
    <2>2. CASE state = "Stopped" /\ StartThrows
      <3>1. ~Writable /\ state' = "Failed" /\ child' = child
            BY <1>1, <2>2 DEF StartThrows, IInv, EndInv, Writable
      <3>2. server' = NewServer /\ child' \notin {"spawned", "running"}
            BY <1>5, <3>1, Silent
      <3> QED BY <1>1, <2>1, <3>1, <3>2, Sealed DEF WireInv, ChildInv
    <2>3. CASE state = "Stopped" /\ StartIfStopped
          BY <1>1, <1>5, <2>1, <2>3, StartedFresh DEF StartIfStopped
    <2>4. CASE state # "Stopped"
      <3>1. UNCHANGED <<state, process, child>>
            BY <1>5, <2>4 DEF StartIfStopped
      <3>2. \A i \in DOMAIN ready' : \E j \in DOMAIN ready : ready'[i] = ready[j]
            BY <1>1
      <3> QED BY <1>1, <1>5, <2>1, <3>1, <3>2, OneAnswer, Untold
    <2> QED BY <1>5, <2>2, <2>3, <2>4
  <1> QED BY <1>3, <1>4, <1>5 DEF SynchronizeDocument

-----------------------------------------------------------------------------
(* The end of the handshake.                                               *)

\* A set in some order.
LEMMA Ordered ==
    ASSUME NEW S, IsFiniteSet(S), NEW s \in SetToSeqs(S)
    PROVE  /\ s \in Seq(S) /\ Len(s) \in Nat /\ DOMAIN s = 1..Len(s)
           /\ \A i \in 1..Len(s) : s[i] \in S
           /\ \A i, j \in 1..Len(s) : s[i] = s[j] => i = j
           /\ \A e \in S : \E i \in 1..Len(s) : s[i] = e
  <1> DEFINE n == Cardinality(S)
  <1>1. n \in Nat
        BY FS_CardinalityType
  <1>2. s \in [1..n -> S] /\ \A i, j \in 1..n : i # j => s[i] # s[j]
        BY DEF SetToSeqs
  <1>3. s \in Injection(1..n, S)
        BY <1>2 DEF Injection, IsInjective
  <1>4. Cardinality(1..n) = n
    <2>1. Cardinality(1..n) = IF 1 > n THEN 0 ELSE n - 1 + 1
          BY <1>1, FS_Interval
    <2> QED BY <1>1, <2>1
  <1>5. s \in Surjection(1..n, S)
        BY <1>3, <1>4, FS_Injection
  <1>6. \A e \in S : \E i \in 1..n : s[i] = e
        BY <1>5 DEF Surjection
  <1> HIDE DEF n
  <1>7. s \in Seq(S) /\ Len(s) = n
        BY <1>1, <1>2
  <1> QED BY <1>1, <1>2, <1>6, <1>7

\* Three pieces behind a box, and where each of their messages is.
LaidOut(S, box, e, s, t, longer) ==
    /\ longer \in Seq(S) /\ Len(longer) = Len(box) + 1 + Len(s) + Len(t)
    /\ DOMAIN longer = 1..(Len(box) + 1 + Len(s) + Len(t))
    /\ \A i \in 1..Len(box) : longer[i] = box[i]
    /\ longer[Len(box) + 1] = e
    /\ \A k \in 1..Len(s) : longer[Len(box) + 1 + k] = s[k]
    /\ \A k \in 1..Len(t) : longer[Len(box) + 1 + Len(s) + k] = t[k]

\* A box with a message, a sequence and another sequence put at its end, by its places.
LEMMA Layout ==
    ASSUME NEW S, NEW box \in Seq(S), NEW e \in S, NEW s \in Seq(S), NEW t \in Seq(S), NEW longer,
           longer = box \o ((<<e>> \o s) \o t)
    PROVE  LaidOut(S, box, e, s, t, longer)
  <1> DEFINE es   == <<e>> \o s
             rest == es \o t
  <1>1. /\ es \in Seq(S) /\ Len(es) = 1 + Len(s) /\ es[1] = e
        /\ \A k \in 1..Len(s) : es[1 + k] = s[k]
    <2>1. <<e>> \in Seq(S) /\ Len(<<e>>) = 1 /\ <<e>>[1] = e
          OBVIOUS
    <2>2. 1 \in 1..1
          OBVIOUS
    <2> QED BY <2>1, <2>2, Joined
  <1> HIDE DEF es
  <1>2. /\ rest \in Seq(S) /\ Len(rest) = Len(es) + Len(t)
        /\ \A i \in 1..Len(es) : rest[i] = es[i]
        /\ \A k \in 1..Len(t) : rest[Len(es) + k] = t[k]
    <2>1. es \in Seq(S) /\ t \in Seq(S)
          BY <1>1
    <2> QED BY <2>1, Joined
  <1>3. /\ Len(box) \in Nat /\ Len(s) \in Nat /\ Len(t) \in Nat
        OBVIOUS
  <1> HIDE DEF rest
  <1>4. /\ longer \in Seq(S) /\ Len(longer) = Len(box) + Len(rest) /\ DOMAIN longer = 1..(Len(box) + Len(rest))
        /\ \A i \in 1..Len(box) : longer[i] = box[i]
        /\ \A i \in 1..Len(rest) : longer[Len(box) + i] = rest[i]
    <2>1. longer = box \o rest
          BY DEF es, rest
    <2>2. rest \in Seq(S)
          BY <1>2
    <2>3. /\ box \o rest \in Seq(S) /\ DOMAIN (box \o rest) = 1..(Len(box) + Len(rest))
          /\ Len(box \o rest) = Len(box) + Len(rest)
          /\ \A i \in 1..Len(box) : (box \o rest)[i] = box[i]
          /\ \A i \in 1..Len(rest) : (box \o rest)[Len(box) + i] = rest[i]
          BY <2>2, Joined
    <2> QED BY <2>1, <2>3
  <1>5. Len(rest) = 1 + Len(s) + Len(t)
        BY <1>1, <1>2, <1>3
  <1>6. longer[Len(box) + 1] = e
    <2>1. 1 \in 1..Len(rest) /\ 1 \in 1..Len(es)
          BY <1>1, <1>3, <1>5
    <2> QED BY <1>1, <1>2, <1>4, <2>1
  <1>7. ASSUME NEW k \in 1..Len(s)
        PROVE  longer[Len(box) + 1 + k] = s[k]
    <2>1. /\ 1 + k \in 1..Len(es) /\ 1 + k \in 1..Len(rest) /\ Len(box) + 1 + k = Len(box) + (1 + k)
          BY <1>1, <1>3, <1>5
    <2> QED BY <1>1, <1>2, <1>4, <2>1
  <1>8. ASSUME NEW k \in 1..Len(t)
        PROVE  longer[Len(box) + 1 + Len(s) + k] = t[k]
    <2>1. /\ Len(es) + k \in 1..Len(rest) /\ Len(box) + 1 + Len(s) + k = Len(box) + (Len(es) + k)
          BY <1>1, <1>3, <1>5
    <2> QED BY <1>2, <1>4, <2>1
  <1>9. Len(longer) = Len(box) + 1 + Len(s) + Len(t)
        BY <1>3, <1>4, <1>5
  <1> QED BY <1>3, <1>4, <1>5, <1>6, <1>7, <1>8, <1>9 DEF LaidOut

\* The box that ends the handshake: answers of the session's own, initialized, the
\* documents us and the requests rs.
Handshake(box, n, us, rs) ==
    /\ n \in Nat /\ box \in Seq(Message) /\ Len(box) = n + 1 + Len(us) + Len(rs)
    /\ DOMAIN box = 1..(n + 1 + Len(us) + Len(rs))
    /\ \A i \in 1..n : box[i].kind = "reply"
    /\ box[n + 1].kind = "initialized" /\ box[n + 1].uri = "none"
    /\ \A k \in 1..Len(us) :
          LET m == box[n + 1 + k] IN
          /\ m.kind = "open" /\ m.uri = us[k] /\ us[k] \in Uri /\ us[k] # "none"
          /\ documents[us[k]] # None
          /\ m.language = documents[us[k]].language /\ m.version = documents[us[k]].revision
    /\ \A k \in 1..Len(rs) :
          LET m == box[n + 1 + Len(us) + k] IN
          /\ m.kind = "request" /\ m.id = rs[k] /\ rs[k] \in DOMAIN pending
          /\ m.uri = pending[rs[k]].uri /\ m.version = pending[rs[k]].revision
    /\ Len(us) \in Nat /\ Len(rs) \in Nat
    /\ \A i, j \in 1..Len(us) : us[i] = us[j] => i = j
    /\ \A i, j \in 1..Len(rs) : rs[i] = rs[j] => i = j
    /\ \A u \in Uri : documents[u] # None => \E k \in 1..Len(us) : us[k] = u
    /\ \A r \in DOMAIN pending : \E k \in 1..Len(rs) : rs[k] = r

\* It is what the session sends.
LEMMA HandshakeSent ==
    ASSUME SessionAssumption, IInv, state = "Initializing",
           NEW box \in Seq(Message), \A i \in DOMAIN box : box[i].kind = "reply",
           NEW us \in SetToSeqs({u \in Uri : documents[u] # None}),
           NEW rs \in SetToSeqs({r \in DOMAIN pending : ~pending[r].sent})
    PROVE  Handshake(box \o (<<Plain("initialized", 0)>>
                             \o [i \in DOMAIN us |-> Publication(us[i], documents[us[i]])]
                             \o [i \in DOMAIN rs |-> RequestMessage(rs[i], pending[rs[i]])]),
                     Len(box), us, rs)
  <1> DEFINE e == Plain("initialized", 0)
             s == [i \in DOMAIN us |-> Publication(us[i], documents[us[i]])]
             t == [i \in DOMAIN rs |-> RequestMessage(rs[i], pending[rs[i]])]
             longer == box \o ((<<e>> \o s) \o t)
             D == {u \in Uri : documents[u] # None}
             W == {r \in DOMAIN pending : ~pending[r].sent}
  <1>1. /\ us \in Seq(D) /\ Len(us) \in Nat /\ DOMAIN us = 1..Len(us)
        /\ \A i \in 1..Len(us) : us[i] \in D
        /\ \A i, j \in 1..Len(us) : us[i] = us[j] => i = j
        /\ \A u \in D : \E i \in 1..Len(us) : us[i] = u
    <2>1. IsFiniteSet(D)
      <3>1. IsFiniteSet(Uri) /\ D \subseteq Uri
            BY DEF SessionAssumption
      <3> HIDE DEF D
      <3> QED BY <3>1, FS_Subset
    <2>2. us \in SetToSeqs(D)
          OBVIOUS
    <2> HIDE DEF D
    <2> QED BY <2>1, <2>2, Ordered
  <1>2. /\ rs \in Seq(W) /\ Len(rs) \in Nat /\ DOMAIN rs = 1..Len(rs)
        /\ \A i \in 1..Len(rs) : rs[i] \in W
        /\ \A i, j \in 1..Len(rs) : rs[i] = rs[j] => i = j
        /\ \A r \in W : \E i \in 1..Len(rs) : rs[i] = r
    <2>1. IsFiniteSet(W)
      <3>1. IsFiniteSet(Id)
        <4>1. 1 \in Int /\ MaxRequests + 1 \in Int
              BY DEF SessionAssumption
        <4> QED BY <4>1, FS_Interval DEF Id
      <3>2. W \subseteq Id
            BY DEF IInv, TableInv
      <3> HIDE DEF W
      <3> QED BY <3>1, <3>2, FS_Subset
    <2>2. rs \in SetToSeqs(W)
          OBVIOUS
    <2> HIDE DEF W
    <2> QED BY <2>1, <2>2, Ordered
  <1>3. e \in Message /\ e.kind = "initialized" /\ e.uri = "none"
    <2>1. e = [kind |-> "initialized", id |-> 0, uri |-> "none", language |-> "none", version |-> 0]
          BY DEF Plain, ToServer, None
    <2> QED BY <2>1 DEF Message, MessageKinds, SessionAssumption
  <1>4. ASSUME NEW k \in 1..Len(us)
        PROVE  LET m == Publication(us[k], documents[us[k]]) IN
               /\ m \in Message /\ m.kind = "open" /\ m.uri = us[k] /\ us[k] \in Uri /\ us[k] # "none"
               /\ documents[us[k]] # None
               /\ m.language = documents[us[k]].language /\ m.version = documents[us[k]].revision
    <2>1. /\ us[k] \in Uri /\ us[k] # "none" /\ documents[us[k]] # None
          BY <1>1 DEF SessionAssumption
    <2>2. documents[us[k]] \in Snapshot /\ ~documents[us[k]].published
          BY <2>1 DEF IInv, SessionTypes, UnsentInv
    <2>3. Publication(us[k], documents[us[k]]) =
             [kind |-> "open", id |-> 0, uri |-> us[k],
              language |-> documents[us[k]].language, version |-> documents[us[k]].revision]
          BY <2>2 DEF Publication, ToServer
    <2>4. documents[us[k]].language \in Language /\ documents[us[k]].revision \in 0..MaxRevision
          BY <2>2 DEF Snapshot, SessionAssumption
    <2> QED BY <2>1, <2>3, <2>4 DEF Message, MessageKinds
  <1>5. ASSUME NEW k \in 1..Len(rs)
        PROVE  LET m == RequestMessage(rs[k], pending[rs[k]]) IN
               /\ m \in Message /\ m.kind = "request" /\ m.id = rs[k] /\ rs[k] \in DOMAIN pending
               /\ m.uri = pending[rs[k]].uri /\ m.version = pending[rs[k]].revision
    <2>1. rs[k] \in DOMAIN pending
          BY <1>2
    <2>2. pending[rs[k]] \in Record /\ rs[k] \in Id
          BY <2>1 DEF IInv, SessionTypes, TableInv
    <2>3. RequestMessage(rs[k], pending[rs[k]]) =
             [kind |-> "request", id |-> rs[k], uri |-> pending[rs[k]].uri,
              language |-> "none", version |-> pending[rs[k]].revision]
          BY DEF RequestMessage, ToServer, None
    <2>4. pending[rs[k]].uri \in Uri \cup {"none"} /\ pending[rs[k]].revision \in 0..MaxRevision
          BY <2>2 DEF Record
    <2> QED BY <2>1, <2>2, <2>3, <2>4 DEF Message, MessageKinds
  <1>6. s \in Seq(Message) /\ Len(s) = Len(us) /\ \A k \in 1..Len(us) : s[k] = Publication(us[k], documents[us[k]])
    <2>1. s \in [1..Len(us) -> Message]
          BY <1>1, <1>4
    <2>2. \A k \in 1..Len(us) : s[k] = Publication(us[k], documents[us[k]])
          BY <1>1
    <2> HIDE DEF s
    <2> QED BY <1>1, <2>1, <2>2
  <1>7. t \in Seq(Message) /\ Len(t) = Len(rs) /\ \A k \in 1..Len(rs) : t[k] = RequestMessage(rs[k], pending[rs[k]])
    <2>1. t \in [1..Len(rs) -> Message]
          BY <1>2, <1>5
    <2>2. \A k \in 1..Len(rs) : t[k] = RequestMessage(rs[k], pending[rs[k]])
          BY <1>2
    <2> HIDE DEF t
    <2> QED BY <1>2, <2>1, <2>2
  <1> HIDE DEF s, t, e
  <1>8. /\ longer \in Seq(Message) /\ Len(longer) = Len(box) + 1 + Len(us) + Len(rs)
        /\ DOMAIN longer = 1..(Len(box) + 1 + Len(us) + Len(rs))
        /\ \A i \in 1..Len(box) : longer[i] = box[i]
        /\ longer[Len(box) + 1] = e
        /\ \A k \in 1..Len(us) : longer[Len(box) + 1 + k] = s[k]
        /\ \A k \in 1..Len(rs) : longer[Len(box) + 1 + Len(us) + k] = t[k]
    <2>1. e \in Message /\ s \in Seq(Message) /\ t \in Seq(Message)
          BY <1>3, <1>6, <1>7
    <2>2. Len(s) = Len(us) /\ Len(t) = Len(rs)
          BY <1>6, <1>7
    <2>3. /\ longer \in Seq(Message) /\ Len(longer) = Len(box) + 1 + Len(s) + Len(t)
          /\ DOMAIN longer = 1..(Len(box) + 1 + Len(s) + Len(t))
          /\ \A i \in 1..Len(box) : longer[i] = box[i]
          /\ longer[Len(box) + 1] = e
          /\ \A k \in 1..Len(s) : longer[Len(box) + 1 + k] = s[k]
          /\ \A k \in 1..Len(t) : longer[Len(box) + 1 + Len(s) + k] = t[k]
      <3>1. longer = box \o ((<<e>> \o s) \o t)
            OBVIOUS
      <3> HIDE DEF longer, Message
      <3>2. LaidOut(Message, box, e, s, t, longer)
            BY <2>1, <3>1, Layout
      <3> QED BY <3>2 DEF LaidOut
    <2> HIDE DEF longer
    <2> QED BY <2>2, <2>3
  <1>9. Len(box) \in Nat /\ DOMAIN box = 1..Len(box)
        OBVIOUS
  <1>10. \A r \in DOMAIN pending : ~pending[r].sent
        BY DEF IInv, UnsentInv
  <1> HIDE DEF longer
  <1>11. \A k \in 1..Len(us) :
          LET m == longer[Len(box) + 1 + k] IN
          /\ m.kind = "open" /\ m.uri = us[k] /\ us[k] \in Uri /\ us[k] # "none"
          /\ documents[us[k]] # None
          /\ m.language = documents[us[k]].language /\ m.version = documents[us[k]].revision
        BY <1>4, <1>6, <1>8
  <1>12. \A k \in 1..Len(rs) :
          LET m == longer[Len(box) + 1 + Len(us) + k] IN
          /\ m.kind = "request" /\ m.id = rs[k] /\ rs[k] \in DOMAIN pending
          /\ m.uri = pending[rs[k]].uri /\ m.version = pending[rs[k]].revision
        BY <1>5, <1>7, <1>8
  <1>13. Handshake(longer, Len(box), us, rs)
    <2>1. /\ \A u \in Uri : documents[u] # None => \E k \in 1..Len(us) : us[k] = u
          /\ Len(us) \in Nat /\ \A i, j \in 1..Len(us) : us[i] = us[j] => i = j
          BY <1>1
    <2>2. /\ \A r \in DOMAIN pending : \E k \in 1..Len(rs) : rs[k] = r
          /\ Len(rs) \in Nat /\ \A i, j \in 1..Len(rs) : rs[i] = rs[j] => i = j
          BY <1>2, <1>10
    <2>3. /\ \A i \in 1..Len(box) : longer[i].kind = "reply"
          /\ longer[Len(box) + 1].kind = "initialized" /\ longer[Len(box) + 1].uri = "none"
          /\ longer \in Seq(Message) /\ Len(longer) = Len(box) + 1 + Len(us) + Len(rs)
          /\ DOMAIN longer = 1..(Len(box) + 1 + Len(us) + Len(rs)) /\ Len(box) \in Nat
          BY <1>3, <1>8, <1>9
    <2> HIDE DEF D, W
    <2> QED BY <1>11, <1>12, <2>1, <2>2, <2>3 DEF Handshake
  <1> QED BY <1>13 DEF longer, s, t, e

\* Each message of such a box, by its place.
LEMMA HandshakePlace ==
    ASSUME NEW box, NEW n, NEW us, NEW rs, Handshake(box, n, us, rs), NEW i \in DOMAIN box
    PROVE  \/ i <= n /\ box[i].kind = "reply"
           \/ i = n + 1 /\ box[i].kind = "initialized"
           \/ \E k \in 1..Len(us) : i = n + 1 + k /\ box[i].kind = "open" /\ box[i].uri = us[k]
           \/ \E k \in 1..Len(rs) : i = n + 1 + Len(us) + k /\ box[i].kind = "request" /\ box[i].id = rs[k]
  <1>1. /\ i \in 1..(n + 1 + Len(us) + Len(rs)) /\ n \in Nat /\ Len(us) \in Nat /\ Len(rs) \in Nat
        BY DEF Handshake
  <1>2. ASSUME NEW a \in Nat, NEW b \in Nat, i \in 1..(n + 1 + a + b)
        PROVE  \/ i \in 1..n /\ i <= n
               \/ i = n + 1
               \/ \E k \in 1..a : i = n + 1 + k
               \/ \E k \in 1..b : i = n + 1 + a + k
    <2>1. CASE i <= n + 1
          BY <1>1, <1>2, <2>1
    <2>2. CASE i > n + 1 /\ i <= n + 1 + a
      <3>1. i - (n + 1) \in 1..a /\ i = n + 1 + (i - (n + 1))
            BY <1>1, <1>2, <2>2
      <3> QED BY <3>1
    <2>3. CASE i > n + 1 + a
      <3>1. i - (n + 1 + a) \in 1..b /\ i = n + 1 + a + (i - (n + 1 + a))
            BY <1>1, <1>2, <2>3
      <3> QED BY <3>1
    <2> QED BY <1>1, <1>2, <2>1, <2>2, <2>3
  <1>3. \/ i \in 1..n /\ i <= n
        \/ i = n + 1
        \/ \E k \in 1..Len(us) : i = n + 1 + k
        \/ \E k \in 1..Len(rs) : i = n + 1 + Len(us) + k
        BY <1>1, <1>2
  <1>4. CASE i \in 1..n /\ i <= n
        BY <1>4 DEF Handshake
  <1>5. CASE i = n + 1
        BY <1>5 DEF Handshake
  <1>6. ASSUME NEW k \in 1..Len(us), i = n + 1 + k
        PROVE  box[i].kind = "open" /\ box[i].uri = us[k]
        BY <1>6 DEF Handshake
  <1>7. ASSUME NEW k \in 1..Len(rs), i = n + 1 + Len(us) + k
        PROVE  box[i].kind = "request" /\ box[i].id = rs[k]
        BY <1>7 DEF Handshake
  <1> QED BY <1>3, <1>4, <1>5, <1>6, <1>7

\* It opens u before place i.
Opens(n, us, u, i) == \E k \in 1..Len(us) : us[k] = u /\ n + 1 + k \in 1..(i - 1)

\* What it is about, and what the server makes of it.
LEMMA HandshakeHas ==
    ASSUME NEW box, NEW n, NEW us, NEW rs, Handshake(box, n, us, rs), NEW u, NEW c, NEW copy,
           copy[u] = Closed, NEW i \in 1..(Len(box) + 1), Has(copy, box, u, i, c)
    PROVE  (Opens(n, us, u, i) => c = Shown(u)) /\ (~Opens(n, us, u, i) => c = Closed)
  <1>1. /\ n \in Nat /\ Len(us) \in Nat /\ Len(rs) \in Nat /\ Len(box) \in Nat
        /\ DOMAIN box = 1..Len(box)
        BY DEF Handshake
  <1>2. ASSUME NEW j \in 1..(i - 1), IsAbout(box[j], u)
        PROVE  /\ \E k \in 1..Len(us) : us[k] = u /\ j = n + 1 + k
               /\ Leaves(box[j]) = Shown(u)
    <2>1. j \in DOMAIN box
          BY <1>1
    <2>2. box[j].kind \in {"open", "change", "close"} /\ box[j].uri = u
          BY <1>2 DEF IsAbout
    <2>3. PICK k \in 1..Len(us) : j = n + 1 + k /\ box[j].uri = us[k]
          BY <2>1, <2>2, HandshakePlace
    <2>4. /\ box[j].kind = "open" /\ box[j].language = documents[u].language
          /\ box[j].version = documents[u].revision
          BY <2>2, <2>3 DEF Handshake
    <2> QED BY <2>2, <2>3, <2>4 DEF Leaves, Shown
  <1>3. ASSUME NEW k \in 1..Len(us), us[k] = u, n + 1 + k \in 1..(i - 1)
        PROVE  IsAbout(box[n + 1 + k], u)
        BY <1>3 DEF Handshake, IsAbout
  <1>4. CASE c = copy[u] /\ \A j \in 1..(i - 1) : ~IsAbout(box[j], u)
        BY <1>3, <1>4 DEF Opens
  <1>5. CASE \E j \in 1..(i - 1) : c = Leaves(box[j]) /\ IsAbout(box[j], u)
        BY <1>2, <1>5 DEF Opens
  <1> QED BY <1>4, <1>5 DEF Has

\* A server that has answered finds nothing in it that is not allowed.
LEMMA HandshakeGood ==
    ASSUME SessionAssumption, IInv, WireInv, state = "Initializing", initializeRequest # 0,
           NEW box, NEW n, NEW us, NEW rs, Handshake(box, n, us, rs),
           NEW s, s.inbox = box, s.phase = "answered", s.seen = {}, \A u \in Uri : s.copy[u] = Closed,
           NEW i \in DOMAIN box
    PROVE  Good(s, i, nextRequest, initializeRequest)
  <1>1. /\ n \in Nat /\ Len(us) \in Nat /\ Len(rs) \in Nat /\ Len(box) \in Nat
        /\ DOMAIN box = 1..Len(box) /\ Len(box) = n + 1 + Len(us) + Len(rs)
        BY DEF Handshake
  <1>2. \/ i <= n /\ box[i].kind = "reply"
        \/ i = n + 1 /\ box[i].kind = "initialized"
        \/ \E k \in 1..Len(us) : i = n + 1 + k /\ box[i].kind = "open" /\ box[i].uri = us[k]
        \/ \E k \in 1..Len(rs) : i = n + 1 + Len(us) + k /\ box[i].kind = "request" /\ box[i].id = rs[k]
        BY HandshakePlace
  <1>3. \A u \in Uri, c \in Copy : Has(s.copy, box, u, i, c) =>
           (Opens(n, us, u, i) => c = Shown(u)) /\ (~Opens(n, us, u, i) => c = Closed)
    <2> SUFFICES ASSUME NEW u \in Uri, NEW c \in Copy, Has(s.copy, box, u, i, c)
                 PROVE  (Opens(n, us, u, i) => c = Shown(u)) /\ (~Opens(n, us, u, i) => c = Closed)
          OBVIOUS
    <2>1. i \in 1..(Len(box) + 1) /\ s.copy[u] = Closed
          BY <1>1
    <2> QED BY <2>1, HandshakeHas
  <1>4. CASE box[i].kind = "reply"
        BY <1>4 DEF Good, Fits
  <1>5. CASE i = n + 1 /\ box[i].kind = "initialized"
    <2>1. \A j \in DOMAIN box : box[j].kind = "initialized" => j = n + 1
          BY HandshakePlace
    <2>2. box[i].uri = "none"
          BY <1>5 DEF Handshake
    <2> QED BY <1>5, <2>1, <2>2 DEF Good
  <1>6. ASSUME NEW k \in 1..Len(us), i = n + 1 + k, box[i].kind = "open", box[i].uri = us[k]
        PROVE  Good(s, i, nextRequest, initializeRequest)
    <2>1. us[k] \in Uri /\ us[k] # "none" /\ box[n + 1].kind = "initialized"
          /\ \A a, b \in 1..Len(us) : us[a] = us[b] => a = b
          BY DEF Handshake
    <2>2. n + 1 \in 1..(i - 1)
      <3>1. k \in Nat \ {0}
            BY <1>1
      <3>2. n + 1 \in 1..((n + 1 + k) - 1)
            BY <1>1, <3>1
      <3> QED BY <1>6, <3>2
    <2>3. ~Opens(n, us, us[k], i)
      <3>1. \A a \in 1..Len(us) : us[a] = us[k] => a = k
            BY <2>1
      <3>2. n + 1 + k \notin 1..(i - 1)
            BY <1>1, <1>6
      <3> QED BY <3>1, <3>2 DEF Opens
    <2>4. \A c \in Copy : Has(s.copy, box, us[k], i, c) => Fits(c, box[i])
      <3>1. documents[us[k]] \in Snapshot /\ Leaves(box[i]) = Shown(us[k])
        <4>1. /\ documents[us[k]] # None /\ box[i].language = documents[us[k]].language
              /\ box[i].version = documents[us[k]].revision
              BY <1>6 DEF Handshake
        <4> QED BY <1>6, <2>1, <4>1 DEF IInv, SessionTypes, Leaves, Shown
      <3>2. Shown(us[k]) \in Copy
            BY <3>1 DEF Snapshot, Shown, Copy
      <3> QED BY <1>3, <1>6, <2>1, <2>3, <3>1, <3>2 DEF Fits
    <2> QED BY <1>6, <2>1, <2>2, <2>4 DEF Good
  <1>7. ASSUME NEW k \in 1..Len(rs), i = n + 1 + Len(us) + k, box[i].kind = "request", box[i].id = rs[k]
        PROVE  Good(s, i, nextRequest, initializeRequest)
    <2> DEFINE r == rs[k]
    <2>1. r \in DOMAIN pending /\ box[i].uri = pending[r].uri /\ box[i].version = pending[r].revision
          /\ box[n + 1].kind = "initialized"
          BY <1>7 DEF Handshake
    <2>2. r \in Id /\ r <= nextRequest /\ r # initializeRequest
      <3>1. r \in Id /\ fate[r] # "none"
            BY <2>1 DEF IInv, TableInv
      <3>2. r \in 1..nextRequest \ {initializeRequest}
            BY <3>1 DEF IInv, TableInv
      <3> QED BY <3>1, <3>2
    <2>3. \A j \in DOMAIN box : box[j].kind = "request" /\ box[j].id = r => j = i
      <3> SUFFICES ASSUME NEW j \in DOMAIN box, box[j].kind = "request", box[j].id = r
                   PROVE  j = i
            OBVIOUS
      <3>1. PICK a \in 1..Len(rs) : j = n + 1 + Len(us) + a /\ box[j].id = rs[a]
            BY HandshakePlace
      <3>2. a = k
        <4>1. rs[a] = rs[k] /\ k \in 1..Len(rs)
              BY <1>7, <3>1
        <4>2. \A x, y \in 1..Len(rs) : rs[x] = rs[y] => x = y
              BY DEF Handshake
        <4> QED BY <4>1, <4>2
      <3> QED BY <1>7, <3>1, <3>2
    <2>4. n + 1 \in 1..(i - 1)
      <3>1. k \in Nat \ {0} /\ n \in Nat /\ Len(us) \in Nat
            BY <1>1
      <3>2. \A x, y \in Nat, z \in Nat \ {0} : x + 1 \in 1..((x + 1 + y + z) - 1)
            OBVIOUS
      <3> QED BY <1>7, <3>1, <3>2
    <2>5. box[i].uri # "none" => \A c \in Copy : Has(s.copy, box, box[i].uri, i, c) => Fits(c, box[i])
      <3> SUFFICES ASSUME pending[r].uri # "none", NEW c \in Copy, Has(s.copy, box, pending[r].uri, i, c)
                   PROVE  Fits(c, box[i])
            BY <2>1
      <3> DEFINE u == pending[r].uri
      <3>1. /\ u \in Uri /\ documents[u] # None /\ pending[r].revision <= documents[u].revision
            /\ pending[r].revision \in Nat
            BY <2>1 DEF WireInv, WaitInv, IInv, SessionTypes, Record, SessionAssumption
      <3>2. documents[u] \in Snapshot
            BY <3>1 DEF IInv, SessionTypes
      <3>3. PICK a \in 1..Len(us) : us[a] = u
            BY <3>1 DEF Handshake
      <3>4. n + 1 + a \in 1..(i - 1)
            BY <1>1, <1>7
      <3>5. c = Shown(u)
            BY <1>3, <3>1, <3>3, <3>4 DEF Opens
      <3>6. documents[u].revision \in 1..MaxRevision
            BY <3>2 DEF Snapshot
      <3>7. c # Closed /\ c.version >= pending[r].revision
            BY <3>1, <3>5, <3>6 DEF Shown, Closed, SessionAssumption
      <3> QED BY <1>7, <2>1, <3>7 DEF Fits
    <2> QED BY <1>7, <2>1, <2>2, <2>3, <2>4, <2>5 DEF Good
  <1> QED BY <1>2, <1>4, <1>5, <1>6, <1>7

\* The records that are left when the first is delivered.
LEMMA Left ==
    ASSUME SessionAssumption, IInv, WireInv, Deliver
    PROVE  /\ 1 \in DOMAIN ready /\ Head(ready) = ready[1]
           /\ \A i \in DOMAIN ready' : \E j \in DOMAIN ready : ready'[i] = ready[j]
           /\ Writable /\ initializeRequest # 0 =>
                 /\ \A i, j \in DOMAIN ready' :
                       IsAnswer(ready'[i], initializeRequest) /\ IsAnswer(ready'[j], initializeRequest) => i = j
                 /\ IsAnswer(Head(ready), initializeRequest) =>
                       /\ state = "Initializing" /\ server.phase = "answered"
                       /\ \A i \in DOMAIN ready' : ~IsAnswer(ready'[i], initializeRequest)
  <1> DEFINE E == [kind : Kinds, id : Id \cup {0}]
  <1>1. ready \in Seq(E) /\ ready # <<>> /\ ready' = Tail(ready)
        BY DEF Deliver, IInv, SessionTypes
  <1>2. /\ 1 \in DOMAIN ready /\ Head(ready) = ready[1]
        /\ \A i \in DOMAIN ready' : i + 1 # 1 /\ i + 1 \in DOMAIN ready /\ ready'[i] = ready[i + 1]
    <2> HIDE DEF E
    <2> QED BY <1>1, Rest
  <1>3. ASSUME Writable, initializeRequest # 0
        PROVE  /\ \A i, j \in DOMAIN ready' :
                     IsAnswer(ready'[i], initializeRequest) /\ IsAnswer(ready'[j], initializeRequest) => i = j
               /\ IsAnswer(Head(ready), initializeRequest) =>
                     /\ state = "Initializing" /\ server.phase = "answered"
                     /\ \A i \in DOMAIN ready' : ~IsAnswer(ready'[i], initializeRequest)
    <2>1. \A i \in DOMAIN ready : IsAnswer(ready[i], initializeRequest) =>
             /\ server.phase = "answered" /\ state = "Initializing"
             /\ \A j \in DOMAIN ready : IsAnswer(ready[j], initializeRequest) => j = i
          BY <1>3 DEF WireInv, HandshakeInv
    <2>2. \A i \in DOMAIN ready' : i \in Int
      <3>1. Tail(ready) \in Seq(E)
        <4> HIDE DEF E
        <4> QED BY <1>1, Rest
      <3> HIDE DEF E
      <3> QED BY <1>1, <3>1
    <2>3. \A i, j \in DOMAIN ready' : i + 1 = j + 1 => i = j
          BY <2>2
    <2> QED BY <1>2, <2>1, <2>3
  <1> QED BY <1>2, <1>3

\* The end of the handshake writes all of it at once.
LEMMA InitializeCompletedWires ==
    ASSUME SessionAssumption, IInv, WireInv, Deliver, IsAnswer(Head(ready), initializeRequest),
           initializeRequest # 0, NEW answer, InitializeCompleted(answer),
           UNCHANGED <<process, nextRequest, initializeRequest, stopping>>
    PROVE  WireInv'
  <1>1. CASE Fail
        BY <1>1, Left, FailureSeals DEF Fail
  <1>2. ASSUME NEW us \in SetToSeqs({u \in Uri : documents[u] # None}),
               NEW rs \in SetToSeqs({r \in DOMAIN pending : ~pending[r].sent}),
               Writable, state' = "Ready",
               Send(<<Plain("initialized", 0)>>
                     \o [i \in DOMAIN us |-> Publication(us[i], documents[us[i]])]
                     \o [i \in DOMAIN rs |-> RequestMessage(rs[i], pending[rs[i]])]),
               documents' = [u \in Uri |-> IF documents[u] = None THEN None
                                           ELSE [documents[u] EXCEPT !.published = TRUE]],
               pending' = [r \in DOMAIN pending |-> [pending[r] EXCEPT !.sent = TRUE]],
               UNCHANGED <<fate, child>>
        PROVE  WireInv'
    <2> DEFINE n   == Len(server.inbox)
               box == server.inbox \o (<<Plain("initialized", 0)>>
                             \o [i \in DOMAIN us |-> Publication(us[i], documents[us[i]])]
                             \o [i \in DOMAIN rs |-> RequestMessage(rs[i], pending[rs[i]])])
    <2>1. /\ state = "Initializing" /\ server.phase = "answered"
          /\ \A i \in DOMAIN ready' : ~IsAnswer(ready'[i], initializeRequest)
          BY <1>2, Left
    <2>2. /\ server.inbox \in Seq(Message) /\ ServerTypes
          /\ \A i \in DOMAIN server.inbox : server.inbox[i].kind = "reply"
      <3>1. \A i \in DOMAIN server.inbox : server.inbox[i].kind \in {"initialize", "reply"}
            BY <1>2, <2>1 DEF WireInv, HandshakeInv
      <3>2. \A i \in DOMAIN server.inbox : server.inbox[i].kind # "initialize"
            BY <2>1 DEF WireInv, InboxInv, Good
      <3> QED BY <3>1, <3>2, ServerParts DEF WireInv
    <2>3. server.seen = {} /\ server.asked \subseteq server.seen /\ \A u \in Uri : server.copy[u] = Closed
          BY <1>2, <2>1 DEF WireInv, HandshakeInv
    <2>4. Handshake(box, n, us, rs)
          BY <1>2, <2>1, <2>2, HandshakeSent
    <2>5. server' = [server EXCEPT !.inbox = box]
          BY <1>2 DEF Send
    <2> HIDE DEF box
    <2>6. /\ server'.inbox = box /\ server'.phase = "answered" /\ server'.seen = {} /\ server'.asked = {}
          /\ \A u \in Uri : server'.copy[u] = Closed
          /\ server'.confused = server.confused
          BY <2>1, <2>2, <2>3, <2>5 DEF ServerTypes
    <2>7. ServerTypes'
      <3>1. box \in Seq(Message)
            BY <2>4 DEF Handshake
      <3> HIDE DEF Message, Id, Copy
      <3> QED BY <2>2, <2>5, <3>1 DEF ServerTypes
    <2>8. InboxInv'
      <3>1. \A i \in DOMAIN box : Good(server', i, nextRequest, initializeRequest)
            BY <2>1, <2>4, <2>6, HandshakeGood
      <3> QED BY <2>6, <3>1 DEF InboxInv, WireInv
    <2>9. ChildInv'
      <3>1. child' = child /\ process' = process /\ child \notin {"terminated", "gone"}
            BY <1>2 DEF Writable
      <3> QED BY <1>2, <3>1, Left DEF WireInv, ChildInv
    <2>10. HandshakeInv'
      <3>1. \E i \in DOMAIN box : box[i].kind = "initialized"
        <4>1. n + 1 \in DOMAIN box /\ box[n + 1].kind = "initialized"
              BY <2>4 DEF Handshake
        <4> QED BY <4>1
      <3> QED BY <1>2, <2>1, <2>6, <3>1 DEF HandshakeInv
    <2>11. SentInv'
      <3>1. ASSUME NEW r \in DOMAIN pending'
            PROVE  pending'[r].sent /\ \E i \in DOMAIN box : box[i].kind = "request" /\ box[i].id = r
        <4>1. r \in DOMAIN pending /\ pending'[r] = [pending[r] EXCEPT !.sent = TRUE] /\ pending[r] \in Record
              BY <1>2 DEF IInv, SessionTypes
        <4>2. PICK k \in 1..Len(rs) : rs[k] = r
              BY <2>4, <4>1 DEF Handshake
        <4>3. n + 1 + Len(us) + k \in DOMAIN box
              BY <2>4 DEF Handshake
        <4>4. box[n + 1 + Len(us) + k].kind = "request" /\ box[n + 1 + Len(us) + k].id = r
              BY <2>4, <4>2 DEF Handshake
        <4> QED BY <4>1, <4>3, <4>4 DEF Record
      <3>2. \A u \in Uri :
               /\ documents'[u] # None => documents'[u].published
               /\ Shown(u)' = Shown(u)
        <4> SUFFICES ASSUME NEW u \in Uri
                     PROVE  /\ documents'[u] # None => documents'[u].published
                            /\ Shown(u)' = Shown(u)
              OBVIOUS
        <4>1. documents'[u] = IF documents[u] = None THEN None ELSE [documents[u] EXCEPT !.published = TRUE]
              BY <1>2
        <4>2. documents[u] # None => documents[u] \in Snapshot
              BY DEF IInv, SessionTypes
        <4> QED BY <4>1, <4>2 DEF Shown, Snapshot
      <3>3. ASSUME NEW u \in Uri, NEW c \in Copy, Has(server'.copy, box, u, Len(box) + 1, c)
            PROVE  c = Shown(u)
        <4>1. Len(box) \in Nat /\ Len(box) = n + 1 + Len(us) + Len(rs) /\ n \in Nat
              /\ Len(us) \in Nat /\ Len(rs) \in Nat
              BY <2>4 DEF Handshake
        <4>2. /\ Opens(n, us, u, Len(box) + 1) => c = Shown(u)
              /\ ~Opens(n, us, u, Len(box) + 1) => c = Closed
          <5>1. Len(box) + 1 \in 1..(Len(box) + 1)
                BY <4>1
          <5>2. server'.copy[u] = Closed
                BY <2>6
          <5> QED BY <2>4, <3>3, <5>1, <5>2, HandshakeHas
        <4>3. CASE documents[u] = None
              BY <4>2, <4>3 DEF Shown, None, Closed
        <4>4. CASE documents[u] # None
          <5>1. PICK k \in 1..Len(us) : us[k] = u
                BY <2>4, <4>4 DEF Handshake
          <5>2. n + 1 + k \in 1..((Len(box) + 1) - 1)
                BY <4>1
          <5> QED BY <4>2, <5>1, <5>2 DEF Opens
        <4> QED BY <4>3, <4>4
      <3>4. ASSUME NEW u \in Uri, NEW c \in Copy, Has(server'.copy, server'.inbox, u, Len(server'.inbox) + 1, c)
            PROVE  c = [language |-> documents'[u].language, version |-> documents'[u].revision]
        <4>1. c = Shown(u)
              BY <2>6, <3>3, <3>4
        <4> QED BY <3>2, <4>1 DEF Shown
      <3>5. \A r \in DOMAIN pending' :
               /\ pending'[r].sent
               /\ \E i \in DOMAIN server'.inbox :
                     server'.inbox[i].kind = "request" /\ server'.inbox[i].id = r
            BY <2>6, <3>1
      <3> QED BY <3>2, <3>4, <3>5 DEF SentInv
    <2>12. WaitInv'
          BY <1>2 DEF WaitInv
    <2> QED BY <2>7, <2>8, <2>9, <2>10, <2>11, <2>12 DEF WireInv
  <1> QED BY <1>1, <1>2 DEF InitializeCompleted

\* initialize is the first that a server hears.
LEMMA ProcessStartedWires ==
    ASSUME SessionAssumption, IInv, WireInv, Deliver, Head(ready).kind = "started", ProcessStarted
    PROVE  WireInv'
  <1> DEFINE id == nextRequest + 1
             m  == Plain("initialize", id)
  <1>1. /\ initializeRequest = 0 /\ nextRequest' = id /\ initializeRequest' = id
        /\ nextRequest \in Nat /\ nextRequest <= MaxRequests /\ MaxRequests \in Nat
        /\ UNCHANGED <<process, documents, stopping>>
        BY Delivery DEF ProcessStarted, IInv, SessionTypes, TableInv, SessionAssumption
  <1>2. id \in Id /\ id # 0 /\ id <= nextRequest'
        BY <1>1 DEF Id
  <1>3. CASE Fail
    <2>1. initializeRequest' # 0
          BY <1>1, <1>2
    <2> QED BY <1>3, <2>1, Left, FailureSeals DEF Fail
  <1>4. CASE /\ Writable /\ state' = "Initializing" /\ Send(<<m>>) /\ UNCHANGED <<pending, fate, child>>
    <2>1. m = [kind |-> "initialize", id |-> id, uri |-> "none", language |-> "none", version |-> 0]
          BY DEF Plain, ToServer, None
    <2>2. m \in Message
          BY <1>2, <2>1 DEF Message, MessageKinds, SessionAssumption
    <2> HIDE DEF m, id
    <2>3. server = NewServer
          BY <1>1 DEF WireInv, ChildInv
    <2>4. /\ server' = [NewServer EXCEPT !.inbox = <<m>>]
      <3>1. NewServer.inbox \o <<m>> = <<m>>
        <4>1. <<>> \o <<m>> = <<m>>
              BY <2>2
        <4> QED BY <4>1 DEF NewServer
      <3> QED BY <1>4, <2>3, <3>1 DEF Send, NewServer
    <2>5. /\ server'.inbox = <<m>> /\ server'.phase = "new" /\ server'.asked = {} /\ server'.seen = {}
          /\ server'.copy = [u \in Uri |-> Closed] /\ server'.confused = FALSE
          BY <2>4 DEF NewServer
    <2>6. ServerTypes'
      <3>1. <<m>> \in Seq(Message)
            BY <2>2
      <3> HIDE DEF Message, Id, Copy
      <3> QED BY <2>4, <3>1, NewServerTypes DEF ServerTypes
    <2>7. Len(<<m>>) = 1 /\ <<m>>[1] = m /\ DOMAIN <<m>> = {1}
      <3>1. \A x : Len(<<x>>) = 1 /\ <<x>>[1] = x /\ DOMAIN <<x>> = 1..1
            OBVIOUS
      <3>2. 1..1 = {1}
            OBVIOUS
      <3> QED BY <3>1, <3>2
    <2>8. InboxInv'
          BY <2>1, <2>5, <2>7 DEF InboxInv, Good
    <2>9. ChildInv'
      <3>1. child' \notin {"terminated", "gone"}
            BY <1>4 DEF Writable
      <3> QED BY <1>1, <1>2, <1>4, <3>1, Left DEF WireInv, ChildInv
    <2>10. HandshakeInv'
      <3>1. \A i \in DOMAIN ready' : ready'[i].kind \notin {"answer", "ask"}
            BY <1>1, Left DEF WireInv, ChildInv
      <3> QED BY <1>1, <1>4, <2>1, <2>5, <2>7, <3>1 DEF HandshakeInv, IsAnswer
    <2>11. SentInv'
          BY <1>4 DEF SentInv
    <2>12. WaitInv'
      <3>1. state \in {"Starting", "Initializing"} \/ DOMAIN pending = {}
            BY <1>1 DEF IInv, SessionTypes, StartInv, EndInv
      <3> QED BY <1>1, <1>4, <3>1 DEF WireInv, WaitInv
    <2> QED BY <2>6, <2>8, <2>9, <2>10, <2>11, <2>12 DEF WireInv
  <1> QED BY <1>3, <1>4 DEF ProcessStarted

\* An answer to a request asks nothing of the server.
LEMMA AnsweredWires ==
    ASSUME SessionAssumption, IInv, WireInv, Deliver, Head(ready).kind = "answer",
           NEW answer, Answered(Head(ready).id, answer),
           UNCHANGED <<process, nextRequest, initializeRequest, stopping>>
    PROVE  WireInv'
  <1> DEFINE id == Head(ready).id
  <1>1. id # 0
        BY Delivery
  <1>2. CASE id = initializeRequest /\ InitializeCompleted(answer)
    <2>1. IsAnswer(Head(ready), initializeRequest)
          BY <1>2 DEF IsAnswer
    <2> QED BY <1>1, <1>2, <2>1, InitializeCompletedWires
  <1>3. CASE /\ pending' = Restrict(pending, DOMAIN pending \ {id})
             /\ UNCHANGED <<state, child, server, documents>>
    <2>1. \A r \in DOMAIN pending' : r \in DOMAIN pending /\ pending'[r] = pending[r]
          BY <1>3 DEF Restrict
    <2>2. WaitInv'
          BY <1>3, <2>1 DEF WireInv, WaitInv
    <2>3. nextRequest \in Nat /\ nextRequest' \in Nat /\ nextRequest <= nextRequest'
          BY DEF IInv, SessionTypes, SessionAssumption
    <2> QED BY <1>3, <2>1, <2>2, <2>3, Left, Untold
  <1> QED BY <1>2, <1>3 DEF Answered

\* The session answers a server whose handshake it has answered.
LEMMA ReplyWires ==
    ASSUME SessionAssumption, IInv, WireInv, Deliver, Head(ready).kind = "ask", Reply,
           UNCHANGED <<documents, process, nextRequest, initializeRequest, stopping>>
    PROVE  WireInv'
  <1> DEFINE m == Plain("reply", 0)
  <1>1. CASE Fail
        BY <1>1, Left, FailureSeals DEF Fail
  <1>2. CASE Writable /\ Send(<<m>>) /\ UNCHANGED <<state, pending, fate, child>>
    <2>1. m = [kind |-> "reply", id |-> 0, uri |-> "none", language |-> "none", version |-> 0]
          BY DEF Plain, ToServer, None
    <2>2. m \in Message
          BY <2>1 DEF Message, MessageKinds, SessionAssumption
    <2> HIDE DEF m
    <2>3. Sendable(server, m, nextRequest', initializeRequest)
          BY <2>1, <2>2 DEF Sendable
    <2>4. initializeRequest # 0 /\ server.phase \in {"answered", "ready"}
      <3>1. 1 \in DOMAIN ready /\ ready[1].kind = "ask"
            BY Left
      <3> QED BY <1>2, <3>1 DEF WireInv, ChildInv, HandshakeInv
    <2>5. SentInv'
      <3>1. CASE state = "Ready"
        <4>1. \A u : ~IsAbout(m, u)
              BY <2>1 DEF IsAbout
        <4>2. \A r \in DOMAIN pending :
                 /\ pending[r].sent
                 /\ \/ r \in server'.seen
                    \/ \E i \in DOMAIN server'.inbox :
                          server'.inbox[i].kind = "request" /\ server'.inbox[i].id = r
          <5>1. \A r \in DOMAIN pending :
                   /\ pending[r].sent
                   /\ \/ r \in server.seen
                      \/ \E i \in DOMAIN server.inbox :
                            server.inbox[i].kind = "request" /\ server.inbox[i].id = r
                BY <1>2, <3>1 DEF WireInv, SentInv
          <5> QED BY <1>2, <2>2, <3>1, <5>1, SentPosted
        <4>3. \A u \in Uri, c \in Copy :
                 Has(server'.copy, server'.inbox, u, Len(server'.inbox) + 1, c) => c = Shown(u)
              BY <1>2, <2>2, <3>1, <4>1, SentPosted
        <4> QED BY <1>2, <3>1, <4>2, <4>3 DEF WireInv, SentInv, Shown
      <3>2. CASE state # "Ready"
            BY <1>2, <3>2 DEF SentInv
      <3> QED BY <3>1, <3>2
    <2>6. WaitInv'
          BY <1>2 DEF WireInv, WaitInv
    <2>7. nextRequest \in Nat /\ nextRequest' \in Nat /\ nextRequest <= nextRequest'
          BY DEF IInv, SessionTypes, SessionAssumption
    <2>8. m.kind = "reply" /\ Send(<<m>>)
          BY <1>2, <2>1 DEF m
    <2>9. Writable
          BY <1>2
    <2>10. \A i, j \in DOMAIN ready' :
              IsAnswer(ready'[i], initializeRequest) /\ IsAnswer(ready'[j], initializeRequest) => i = j
          BY <2>4, <2>9, Left
    <2>11. \A i \in DOMAIN ready' : \E j \in DOMAIN ready : ready'[i] = ready[j]
          BY Left
    <2> QED BY <1>2, <2>3, <2>4, <2>5, <2>6, <2>7, <2>8, <2>9, <2>10, <2>11, Written
  <1> QED BY <1>1, <1>2 DEF Reply

\* Every record that is delivered.
LEMMA DeliverWires ==
    ASSUME SessionAssumption, IInv, WireInv, Deliver
    PROVE  WireInv'
  <1> DEFINE m == Head(ready)
  <1>1. m.kind \in Kinds /\ UNCHANGED stopping
        BY Delivery
  <1>2. CASE m.kind = "started"
        BY <1>2, ProcessStartedWires DEF Deliver
  <1>3. CASE m.kind \in {"ended", "cancelled"}
    <2>1. Fail /\ UNCHANGED initializeRequest
          BY <1>3 DEF Deliver, ProcessEnded
    <2> QED BY <2>1, Left, FailureSeals DEF Fail
  <1>4. CASE m.kind = "answer"
    <2>1. HandleMessage(m)
          BY <1>4 DEF Deliver
    <2>2. PICK answer \in {"result", "error"} : Answered(m.id, answer)
          BY <1>4, <2>1 DEF HandleMessage
    <2> QED BY <1>1, <1>4, <2>1, <2>2, AnsweredWires DEF HandleMessage
  <1>5. CASE m.kind = "malformed"
    <2>1. HandleMessage(m)
          BY <1>5 DEF Deliver
    <2>2. Fail /\ UNCHANGED initializeRequest
          BY <1>5, <2>1 DEF HandleMessage
    <2> QED BY <2>2, Left, FailureSeals DEF Fail
  <1>6. CASE m.kind = "ask"
    <2>1. HandleMessage(m)
          BY <1>6 DEF Deliver
    <2>2. Reply /\ UNCHANGED <<documents, process, nextRequest, initializeRequest>>
          BY <1>6, <2>1 DEF HandleMessage
    <2> QED BY <1>1, <1>6, <2>2, ReplyWires
  <1> QED BY <1>1, <1>2, <1>3, <1>4, <1>5, <1>6 DEF Kinds

-----------------------------------------------------------------------------
(* What the process and the server do on the wire.                         *)

\* A server that runs is one the session can write to, unless it is new.
LEMMA Heard ==
    ASSUME IInv, WireInv, child = "running", server # NewServer
    PROVE  Writable /\ initializeRequest # 0 /\ ~stopping
    BY DEF WireInv, ChildInv, Writable

\* A server as a record, and what changes of one or two of its fields make of it.
LEMMA ServerRecord ==
    ASSUME NEW i, NEW p, NEW a, NEW e, NEW c, NEW f, NEW s,
           s = [inbox |-> i, phase |-> p, asked |-> a, seen |-> e, copy |-> c, confused |-> f]
    PROVE  /\ s.inbox = i /\ s.phase = p /\ s.asked = a /\ s.seen = e /\ s.copy = c /\ s.confused = f
           /\ s = [inbox |-> s.inbox, phase |-> s.phase, asked |-> s.asked, seen |-> s.seen,
                   copy |-> s.copy, confused |-> s.confused]
           /\ \A x : [s EXCEPT !.phase = x]
                       = [inbox |-> i, phase |-> x, asked |-> a, seen |-> e, copy |-> c, confused |-> f]
           /\ \A x : [s EXCEPT !.copy = x]
                       = [inbox |-> i, phase |-> p, asked |-> a, seen |-> e, copy |-> x, confused |-> f]
           /\ \A x, y : [s EXCEPT !.phase = x, !.asked = y]
                       = [inbox |-> i, phase |-> x, asked |-> y, seen |-> e, copy |-> c, confused |-> f]
           /\ \A x, y : [s EXCEPT !.asked = x, !.seen = y]
                       = [inbox |-> i, phase |-> p, asked |-> x, seen |-> y, copy |-> c, confused |-> f]
           /\ \A x, y : [s EXCEPT !.inbox = x, !.confused = y]
                       = [inbox |-> x, phase |-> p, asked |-> a, seen |-> e, copy |-> c, confused |-> y]
           /\ \A x, y : [s EXCEPT !.asked = x, !.phase = y]
                       = [inbox |-> i, phase |-> y, asked |-> x, seen |-> e, copy |-> c, confused |-> f]
  <1>1. \A x : [s EXCEPT !.inbox = x]
               = [inbox |-> x, phase |-> p, asked |-> a, seen |-> e, copy |-> c, confused |-> f]
        OBVIOUS
  <1>2. \A x : [s EXCEPT !.asked = x]
               = [inbox |-> i, phase |-> p, asked |-> x, seen |-> e, copy |-> c, confused |-> f]
        OBVIOUS
  <1>3. \A x : [s EXCEPT !.phase = x]
               = [inbox |-> i, phase |-> x, asked |-> a, seen |-> e, copy |-> c, confused |-> f]
        OBVIOUS
  <1>4. \A x : [s EXCEPT !.copy = x]
               = [inbox |-> i, phase |-> p, asked |-> a, seen |-> e, copy |-> x, confused |-> f]
        OBVIOUS
  <1>5. \A x, y : [s EXCEPT !.phase = x, !.asked = y]
               = [inbox |-> i, phase |-> x, asked |-> y, seen |-> e, copy |-> c, confused |-> f]
    <2>1. \A x, y : [s EXCEPT !.phase = x, !.asked = y] = [[s EXCEPT !.phase = x] EXCEPT !.asked = y]
          OBVIOUS
    <2>2. \A x, y : [[inbox |-> i, phase |-> x, asked |-> a, seen |-> e, copy |-> c, confused |-> f] EXCEPT !.asked = y]
               = [inbox |-> i, phase |-> x, asked |-> y, seen |-> e, copy |-> c, confused |-> f]
          OBVIOUS
    <2> QED BY <1>3, <2>1, <2>2, Zenon
  <1>6. \A x, y : [s EXCEPT !.asked = x, !.seen = y]
               = [inbox |-> i, phase |-> p, asked |-> x, seen |-> y, copy |-> c, confused |-> f]
    <2>1. \A x, y : [s EXCEPT !.asked = x, !.seen = y] = [[s EXCEPT !.asked = x] EXCEPT !.seen = y]
          OBVIOUS
    <2>2. \A x, y : [[inbox |-> i, phase |-> p, asked |-> x, seen |-> e, copy |-> c, confused |-> f] EXCEPT !.seen = y]
               = [inbox |-> i, phase |-> p, asked |-> x, seen |-> y, copy |-> c, confused |-> f]
          OBVIOUS
    <2> QED BY <1>2, <2>1, <2>2, Zenon
  <1>7. \A x, y : [s EXCEPT !.inbox = x, !.confused = y]
               = [inbox |-> x, phase |-> p, asked |-> a, seen |-> e, copy |-> c, confused |-> y]
    <2>1. \A x, y : [s EXCEPT !.inbox = x, !.confused = y] = [[s EXCEPT !.inbox = x] EXCEPT !.confused = y]
          OBVIOUS
    <2>2. \A x, y : [[inbox |-> x, phase |-> p, asked |-> a, seen |-> e, copy |-> c, confused |-> f] EXCEPT !.confused = y]
               = [inbox |-> x, phase |-> p, asked |-> a, seen |-> e, copy |-> c, confused |-> y]
          OBVIOUS
    <2> QED BY <1>1, <2>1, <2>2, Zenon
  <1>8. \A x, y : [s EXCEPT !.asked = x, !.phase = y]
               = [inbox |-> i, phase |-> y, asked |-> x, seen |-> e, copy |-> c, confused |-> f]
    <2>1. \A x, y : [s EXCEPT !.asked = x, !.phase = y] = [[s EXCEPT !.asked = x] EXCEPT !.phase = y]
          OBVIOUS
    <2>2. \A x, y : [[inbox |-> i, phase |-> p, asked |-> x, seen |-> e, copy |-> c, confused |-> f] EXCEPT !.phase = y]
               = [inbox |-> i, phase |-> y, asked |-> x, seen |-> e, copy |-> c, confused |-> f]
          OBVIOUS
    <2> QED BY <1>2, <2>1, <2>2, Zenon
  <1>9. /\ s.inbox = i /\ s.phase = p /\ s.asked = a /\ s.seen = e /\ s.copy = c /\ s.confused = f
        /\ s = [inbox |-> s.inbox, phase |-> s.phase, asked |-> s.asked, seen |-> s.seen,
                copy |-> s.copy, confused |-> s.confused]
        OBVIOUS
  <1> QED BY <1>3, <1>4, <1>5, <1>6, <1>7, <1>8, <1>9

\* The parts of a server after it has read m.
LEMMA ReadParts ==
    ASSUME SessionAssumption, ServerTypes, NEW m \in Message, server.inbox # <<>>, m = Head(server.inbox),
           m.kind \in {"open", "change", "close"} => m.uri \in Uri,
           m.kind = "change" => server.copy[m.uri].language = m.language,
           NEW s, s = Read(server, m)
    PROVE  /\ s.inbox = Tail(server.inbox)
           /\ s.confused = (server.confused \/ ~Proper(server, m))
           /\ s.phase = (IF m.kind = "initialize" THEN "asked"
                         ELSE IF m.kind = "initialized" THEN "ready" ELSE server.phase)
           /\ s.asked = (IF m.kind \in {"initialize", "request"} THEN server.asked \cup {m.id} ELSE server.asked)
           /\ s.seen = (IF m.kind = "request" THEN server.seen \cup {m.id} ELSE server.seen)
           /\ s.copy = [u \in Uri |-> IF IsAbout(m, u) THEN Leaves(m) ELSE server.copy[u]]
           /\ s = [inbox |-> s.inbox, phase |-> s.phase, asked |-> s.asked, seen |-> s.seen,
                   copy |-> s.copy, confused |-> s.confused]
  <1> DEFINE heard == [server EXCEPT !.inbox = Tail(@), !.confused = @ \/ ~Proper(server, m)]
             c     == server.confused \/ ~Proper(server, m)
             P     == IF m.kind = "initialize" THEN "asked"
                      ELSE IF m.kind = "initialized" THEN "ready" ELSE server.phase
             A     == IF m.kind \in {"initialize", "request"} THEN server.asked \cup {m.id} ELSE server.asked
             E     == IF m.kind = "request" THEN server.seen \cup {m.id} ELSE server.seen
             C     == [u \in Uri |-> IF IsAbout(m, u) THEN Leaves(m) ELSE server.copy[u]]
             whole == [inbox |-> Tail(server.inbox), phase |-> P, asked |-> A, seen |-> E, copy |-> C,
                       confused |-> c]
  <1>1. server = [inbox |-> server.inbox, phase |-> server.phase, asked |-> server.asked,
                  seen |-> server.seen, copy |-> server.copy, confused |-> server.confused]
        /\ server.copy \in [Uri -> Copy]
    <2> HIDE DEF Message, Id, Copy
    <2> QED BY DEF ServerTypes
  <1>2. heard = [inbox |-> Tail(server.inbox), phase |-> server.phase, asked |-> server.asked,
                 seen |-> server.seen, copy |-> server.copy, confused |-> c]
    <2> HIDE DEF c
    <2>1. heard = [server EXCEPT !.inbox = Tail(server.inbox), !.confused = c]
          BY DEF c
    <2> HIDE DEF heard
    <2> QED BY <1>1, <2>1, ServerRecord
  <1>3. m.kind \in MessageKinds
        BY DEF Message
  <1> HIDE DEF heard
  <1>4. s = CASE m.kind = "initialize"  -> [heard EXCEPT !.phase = "asked", !.asked = @ \cup {m.id}]
              [] m.kind = "initialized" -> [heard EXCEPT !.phase = "ready"]
              [] m.kind = "request"     -> [heard EXCEPT !.asked = @ \cup {m.id}, !.seen = @ \cup {m.id}]
              [] m.kind = "open"        -> [heard EXCEPT !.copy[m.uri] = [language |-> m.language, version |-> m.version]]
              [] m.kind = "change"      -> [heard EXCEPT !.copy[m.uri].version = m.version]
              [] m.kind = "close"       -> [heard EXCEPT !.copy[m.uri] = Closed]
              [] OTHER                  -> heard
        BY DEF Read, heard
  <1> HIDE DEF c
  <1>5. ASSUME m.kind \in {"cancel", "reply"} PROVE s = whole
    <2>1. s = heard
          BY <1>4, <1>5
    <2>2. C = server.copy
      <3>1. \A u : ~IsAbout(m, u)
            BY <1>5 DEF IsAbout
      <3> QED BY <1>1, <3>1
    <2>3. P = server.phase /\ A = server.asked /\ E = server.seen
          BY <1>5
    <2> HIDE DEF P, A, E, C
    <2> QED BY <1>2, <2>1, <2>2, <2>3
  <1>6. ASSUME m.kind \in {"initialize", "initialized", "request"} PROVE s = whole
    <2>2. C = server.copy
      <3>1. \A u : ~IsAbout(m, u)
            BY <1>6 DEF IsAbout
      <3> QED BY <1>1, <3>1
    <2>3. CASE m.kind = "initialize"
      <3>1. s = [inbox |-> Tail(server.inbox), phase |-> "asked", asked |-> server.asked \cup {m.id},
                 seen |-> server.seen, copy |-> server.copy, confused |-> c]
            BY <1>2, <1>4, <2>3, ServerRecord
      <3>2. P = "asked" /\ A = server.asked \cup {m.id} /\ E = server.seen
            BY <2>3
      <3> HIDE DEF P, A, E, C
      <3> QED BY <2>2, <3>1, <3>2
    <2>4. CASE m.kind = "initialized"
      <3>1. s = [inbox |-> Tail(server.inbox), phase |-> "ready", asked |-> server.asked,
                 seen |-> server.seen, copy |-> server.copy, confused |-> c]
            BY <1>2, <1>4, <2>4, ServerRecord
      <3>2. P = "ready" /\ A = server.asked /\ E = server.seen
            BY <2>4
      <3> HIDE DEF P, A, E, C
      <3> QED BY <2>2, <3>1, <3>2
    <2>5. CASE m.kind = "request"
      <3>1. s = [inbox |-> Tail(server.inbox), phase |-> server.phase, asked |-> server.asked \cup {m.id},
                 seen |-> server.seen \cup {m.id}, copy |-> server.copy, confused |-> c]
            BY <1>2, <1>4, <2>5, ServerRecord
      <3>2. P = server.phase /\ A = server.asked \cup {m.id} /\ E = server.seen \cup {m.id}
            BY <2>5
      <3> HIDE DEF P, A, E, C
      <3> QED BY <2>2, <3>1, <3>2
    <2> QED BY <1>6, <2>3, <2>4, <2>5
  <1>7. ASSUME m.kind \in {"open", "change", "close"} PROVE s = whole
    <2>1. \A u : IsAbout(m, u) <=> u = m.uri
          BY <1>7 DEF IsAbout
    <2>2. m.uri \in Uri /\ C = [server.copy EXCEPT ![m.uri] = Leaves(m)]
          BY <1>1, <1>7, <2>1
    <2> HIDE DEF C
    <2>3. s = [heard EXCEPT !.copy = C]
      <3>1. CASE m.kind = "open"
        <4>1. Leaves(m) = [language |-> m.language, version |-> m.version]
              BY <3>1 DEF Leaves
        <4>2. s = [heard EXCEPT !.copy[m.uri] = Leaves(m)]
              BY <1>4, <3>1, <4>1
        <4>3. heard.copy = server.copy
              BY <1>2
        <4> QED BY <2>2, <4>2, <4>3
      <3>2. CASE m.kind = "close"
        <4>1. Leaves(m) = Closed
              BY <3>2 DEF Leaves
        <4>2. s = [heard EXCEPT !.copy[m.uri] = Leaves(m)]
              BY <1>4, <3>2, <4>1
        <4>3. heard.copy = server.copy
              BY <1>2
        <4> QED BY <2>2, <4>2, <4>3
      <3>3. CASE m.kind = "change"
        <4>1. server.copy[m.uri] = [language |-> m.language, version |-> server.copy[m.uri].version]
          <5>1. server.copy[m.uri] \in Copy
                BY <1>1, <2>2
          <5>2. server.copy[m.uri] = [language |-> server.copy[m.uri].language,
                                      version |-> server.copy[m.uri].version]
                BY <5>1 DEF Copy, Closed
          <5> QED BY <3>3, <5>2
        <4>2. [server.copy[m.uri] EXCEPT !.version = m.version] = Leaves(m)
          <5>1. \A a, b, v : [[language |-> a, version |-> b] EXCEPT !.version = v] = [language |-> a, version |-> v]
                OBVIOUS
          <5> QED BY <3>3, <4>1, <5>1 DEF Leaves
        <4>3. heard.copy = server.copy
              BY <1>2
        <4>4. s = [heard EXCEPT !.copy = [heard.copy EXCEPT ![m.uri] = [heard.copy[m.uri] EXCEPT !.version = m.version]]]
              BY <1>4, <3>3
        <4> QED BY <2>2, <4>2, <4>3, <4>4
      <3> QED BY <1>7, <3>1, <3>2, <3>3
    <2>4. s = [inbox |-> Tail(server.inbox), phase |-> server.phase, asked |-> server.asked,
               seen |-> server.seen, copy |-> C, confused |-> c]
          BY <1>2, <2>3, ServerRecord
    <2>5. P = server.phase /\ A = server.asked /\ E = server.seen
          BY <1>7
    <2> HIDE DEF P, A, E
    <2> QED BY <2>4, <2>5
  <1>8. s = whole
        BY <1>3, <1>5, <1>6, <1>7 DEF MessageKinds
  <1> HIDE DEF P, A, E, C
  <1>9. /\ s.inbox = Tail(server.inbox) /\ s.phase = P /\ s.asked = A /\ s.seen = E /\ s.copy = C
        /\ s.confused = c
        /\ s = [inbox |-> s.inbox, phase |-> s.phase, asked |-> s.asked, seen |-> s.seen,
                copy |-> s.copy, confused |-> s.confused]
    <2> DEFINE i == Tail(server.inbox)
    <2> HIDE DEF i
    <2>1. s = [inbox |-> i, phase |-> P, asked |-> A, seen |-> E, copy |-> C, confused |-> c]
          BY <1>8 DEF i
    <2>2. s.inbox = i /\ s.phase = P /\ s.asked = A /\ s.seen = E /\ s.copy = C /\ s.confused = c
          BY <2>1
    <2>3. s = [inbox |-> s.inbox, phase |-> s.phase, asked |-> s.asked, seen |-> s.seen,
               copy |-> s.copy, confused |-> s.confused]
          BY <2>1, <2>2, Zenon
    <2> QED BY <2>2, <2>3 DEF i
  <1>10. s.confused = (server.confused \/ ~Proper(server, m))
        BY <1>9 DEF c
  <1> QED BY <1>9, <1>10 DEF P, A, E, C

\* The server reads what it is allowed to, and what is behind that stays good.
LEMMA ServerReadsWires ==
    ASSUME SessionAssumption, IInv, WireInv, ServerReads
    PROVE  WireInv'
  <1> DEFINE m    == Head(server.inbox)
             n    == Len(server.inbox)
             rest == Tail(server.inbox)
             q    == initializeRequest
  <1>1. /\ child = "running" /\ server.inbox # <<>> /\ server' = Read(server, m)
        /\ UNCHANGED <<state, stopping, process, nextRequest, initializeRequest, pending, documents, fate,
                       child, ready>>
        BY DEF ServerReads, sessionVars
  <1>2. /\ ServerTypes /\ server.inbox \in Seq(Message) /\ server.copy \in [Uri -> Copy]
        /\ server.asked \subseteq Id /\ server.seen \subseteq Id /\ server.confused = FALSE
        /\ server.phase \in {"new", "asked", "answered", "ready"}
        BY ServerParts DEF WireInv, InboxInv
  <1>3. /\ n \in Nat \ {0} /\ DOMAIN server.inbox = 1..n /\ m = server.inbox[1] /\ m \in Message
        /\ rest \in Seq(Message) /\ Len(rest) = n - 1 /\ DOMAIN rest = 1..(n - 1)
        /\ \A j \in 1..(n - 1) : rest[j] = server.inbox[j + 1]
    <2> HIDE DEF Message
    <2> QED BY <1>1, <1>2
  <1>4. Writable /\ initializeRequest # 0
    <2>1. server # NewServer
          BY <1>1 DEF NewServer
    <2> QED BY <1>1, <2>1, Heard
  <1>5. \A i \in 1..n : Good(server, i, nextRequest, q)
        BY <1>3 DEF WireInv, InboxInv
  <1>6. \A u, c : c = server.copy[u] => Has(server.copy, server.inbox, u, 1, c)
        BY DEF Has
  <1> HIDE DEF m, n, rest, q
  <1>7. m.uri # "none" => m.uri \in Uri /\ server.copy[m.uri] \in Copy /\ Fits(server.copy[m.uri], m)
    <2>1. ASSUME m.uri # "none"
          PROVE  m.uri \in Uri /\ server.copy[m.uri] \in Copy
          BY <1>2, <1>3, <2>1 DEF Message
    <2>2. ASSUME m.uri # "none"
          PROVE  \A c \in Copy : Has(server.copy, server.inbox, m.uri, 1, c) => Fits(c, m)
      <3>1. Good(server, 1, nextRequest, q) /\ server.inbox[1] = m
            BY <1>3, <1>5
      <3> QED BY <2>2, <3>1 DEF Good
    <2> QED BY <1>6, <2>1, <2>2
  <1>8. /\ m.kind = "initialize" => server.phase = "new" /\ n = 1
        /\ m.kind = "initialized" =>
              server.phase = "answered" /\ \A j \in 1..n : server.inbox[j].kind = "initialized" => j = 1
        /\ m.kind \in {"request", "open"} => server.phase = "ready"
        /\ m.kind = "request" =>
              /\ m.id \notin server.seen /\ m.id \in Id /\ m.id <= nextRequest /\ m.id # q
              /\ \A j \in 1..n : server.inbox[j].kind = "request" /\ server.inbox[j].id = m.id => j = 1
        /\ m.kind = "cancel" => m.id \in server.seen
        /\ m.kind \in {"open", "change", "close"} => m.uri # "none"
    <2>1. Good(server, 1, nextRequest, q) /\ server.inbox[1] = m /\ Len(server.inbox) = n
          /\ DOMAIN server.inbox = 1..n
          BY <1>3, <1>5 DEF n
    <2>2. ~\E j \in 1..(1 - 1) : TRUE
          OBVIOUS
    <2> QED BY <2>1, <2>2 DEF Good
  <1>9. Proper(server, m)
    <2>1. m.kind \in MessageKinds
          BY <1>3 DEF Message
    <2> QED BY <1>7, <1>8, <2>1 DEF Proper, Fits, MessageKinds
  <1> DEFINE s == server'
  <1>10. /\ s.inbox = rest /\ s.confused = FALSE
         /\ s.phase = (IF m.kind = "initialize" THEN "asked"
                       ELSE IF m.kind = "initialized" THEN "ready" ELSE server.phase)
         /\ s.asked = (IF m.kind \in {"initialize", "request"} THEN server.asked \cup {m.id} ELSE server.asked)
         /\ s.seen = (IF m.kind = "request" THEN server.seen \cup {m.id} ELSE server.seen)
         /\ s.copy = [u \in Uri |-> IF IsAbout(m, u) THEN Leaves(m) ELSE server.copy[u]]
         /\ s = [inbox |-> s.inbox, phase |-> s.phase, asked |-> s.asked, seen |-> s.seen,
                 copy |-> s.copy, confused |-> s.confused]
    <2>1. /\ m.kind \in {"open", "change", "close"} => m.uri \in Uri
          /\ m.kind = "change" => server.copy[m.uri].language = m.language
          BY <1>7, <1>8 DEF Fits
    <2>2. m = Head(server.inbox) /\ rest = Tail(server.inbox)
          BY DEF m, rest
    <2>3. /\ s.inbox = Tail(server.inbox) /\ s.confused = (server.confused \/ ~Proper(server, m))
          /\ s.phase = (IF m.kind = "initialize" THEN "asked"
                        ELSE IF m.kind = "initialized" THEN "ready" ELSE server.phase)
          /\ s.asked = (IF m.kind \in {"initialize", "request"} THEN server.asked \cup {m.id} ELSE server.asked)
          /\ s.seen = (IF m.kind = "request" THEN server.seen \cup {m.id} ELSE server.seen)
          /\ s.copy = [u \in Uri |-> IF IsAbout(m, u) THEN Leaves(m) ELSE server.copy[u]]
          /\ s = [inbox |-> s.inbox, phase |-> s.phase, asked |-> s.asked, seen |-> s.seen,
                  copy |-> s.copy, confused |-> s.confused]
          BY <1>1, <1>2, <1>3, <2>1, <2>2, ReadParts
    <2> QED BY <1>2, <1>9, <2>2, <2>3
  <1> HIDE DEF s
  <1>11. \A u \in Uri : s.copy[u] = (IF IsAbout(m, u) THEN Leaves(m) ELSE server.copy[u]) /\ s.copy[u] \in Copy
    <2> SUFFICES ASSUME NEW u \in Uri PROVE IsAbout(m, u) => Leaves(m) \in Copy
          BY <1>2, <1>10
    <2>1. IsAbout(m, u) => m.uri = u /\ m.kind \in {"open", "change", "close"}
          BY DEF IsAbout
    <2>2. CASE m.kind = "open"
          BY <1>7, <1>8, <2>2 DEF Fits
    <2>3. CASE m.kind = "close"
          BY <2>3 DEF Leaves, Copy
    <2>4. CASE m.kind = "change"
      <3>1. server.copy[m.uri] # Closed /\ server.copy[m.uri] \in Copy
            /\ server.copy[m.uri].version < m.version /\ server.copy[m.uri].language = m.language
            BY <1>7, <1>8, <2>4 DEF Fits
      <3>2. m.language \in Language /\ server.copy[m.uri].version \in 1..MaxRevision
            BY <3>1 DEF Copy
      <3>3. m.version \in 0..MaxRevision
            BY <1>3 DEF Message
      <3>4. m.version \in 1..MaxRevision
            BY <3>1, <3>2, <3>3 DEF SessionAssumption
      <3> QED BY <2>4, <3>2, <3>4 DEF Leaves, Copy
    <2> QED BY <2>1, <2>2, <2>3, <2>4
  <1>12. ServerTypes'
    <2>1. /\ s.inbox \in Seq(Message) /\ s.phase \in {"new", "asked", "answered", "ready"}
          /\ s.asked \in SUBSET Id /\ s.seen \in SUBSET Id /\ s.confused \in BOOLEAN
          /\ s.copy \in [Uri -> Copy]
      <3>1. s.asked \in SUBSET Id /\ s.seen \in SUBSET Id
        <4>1. m.kind = "initialize" => m.id \in Id
          <5>1. server.inbox[1].id = initializeRequest \/ m.kind # "initialize"
                BY <1>3, <1>4, <1>8 DEF WireInv, HandshakeInv
          <5>2. initializeRequest \in Id
                BY <1>4 DEF IInv, SessionTypes, Id, SessionAssumption
          <5> QED BY <1>3, <5>1, <5>2
        <4> QED BY <1>2, <1>8, <1>10, <4>1
      <3>2. s.copy \in [Uri -> Copy]
            BY <1>10, <1>11
      <3> QED BY <1>2, <1>3, <1>10, <3>1, <3>2
    <2> HIDE DEF Message, Id, Copy
    <2>2. s \in [inbox : Seq(Message), phase : {"new", "asked", "answered", "ready"},
                 asked : SUBSET Id, seen : SUBSET Id, copy : [Uri -> Copy], confused : BOOLEAN]
          BY <1>10, <2>1
    <2> QED BY <2>2 DEF s, ServerTypes
  <1>13. ASSUME NEW i \in 1..(n - 1)
         PROVE  Good(s, i, nextRequest, q)
    <2> DEFINE e == rest[i]
    <2>1. i + 1 \in 1..n /\ i + 1 # 1 /\ e = server.inbox[i + 1] /\ i \in Nat
          BY <1>3
    <2>2. Good(server, i + 1, nextRequest, q)
          BY <1>5, <2>1
    <2> HIDE DEF e
    <2>3. \A j \in DOMAIN s.inbox : j + 1 \in 1..n /\ s.inbox[j] = server.inbox[j + 1] /\ (j + 1 = i + 1 => j = i)
      <3>1. \A j \in 1..(n - 1) : j + 1 \in 1..n /\ (j + 1 = i + 1 => j = i)
        <4>1. n \in Nat
              BY <1>3
        <4> HIDE DEF n
        <4> QED BY <2>1, <4>1
      <3> QED BY <1>3, <1>10, <3>1
    <2>4. \A j \in 1..((i + 1) - 1) : j = 1 \/ (j - 1 \in 1..(i - 1) /\ rest[j - 1] = server.inbox[j])
      <3>1. \A j \in 1..((i + 1) - 1) : j = 1 \/ (j - 1 \in 1..(i - 1) /\ j - 1 \in 1..(n - 1) /\ (j - 1) + 1 = j)
            BY <1>3
      <3> QED BY <1>3, <3>1
    <2>5. e.kind # "initialize"
      <3>1. e.kind = "initialize" => n = 1
            BY <2>1, <2>2 DEF Good, n
      <3> QED BY <1>3, <3>1
    <2>6. e.kind = "initialized" =>
              s.phase = "answered" /\ \A j \in DOMAIN s.inbox : s.inbox[j].kind = "initialized" => j = i
      <3> SUFFICES ASSUME e.kind = "initialized"
                   PROVE  s.phase = "answered" /\ \A j \in DOMAIN s.inbox : s.inbox[j].kind = "initialized" => j = i
            OBVIOUS
      <3>1. server.phase = "answered" /\ \A j \in 1..n : server.inbox[j].kind = "initialized" => j = i + 1
            BY <1>3, <2>1, <2>2 DEF Good
      <3>2. m.kind \notin {"initialize", "initialized"}
            BY <1>3, <1>8, <2>1, <3>1
      <3> QED BY <1>10, <2>3, <3>1, <3>2
    <2>7. e.kind \in {"request", "open"} =>
              s.phase = "ready" \/ \E j \in 1..(i - 1) : s.inbox[j].kind = "initialized"
      <3> SUFFICES ASSUME e.kind \in {"request", "open"}
                   PROVE  s.phase = "ready" \/ \E j \in 1..(i - 1) : s.inbox[j].kind = "initialized"
            OBVIOUS
      <3>1. server.phase = "ready" \/ \E j \in 1..((i + 1) - 1) : server.inbox[j].kind = "initialized"
            BY <2>1, <2>2 DEF Good
      <3>2. CASE server.phase = "ready"
            BY <1>8, <1>10, <3>2
      <3>3. ASSUME NEW j \in 1..((i + 1) - 1), server.inbox[j].kind = "initialized"
            PROVE  s.phase = "ready" \/ \E k \in 1..(i - 1) : s.inbox[k].kind = "initialized"
        <4>1. CASE j = 1
              BY <1>3, <1>10, <3>3, <4>1
        <4>2. CASE j # 1
          <5>1. j - 1 \in 1..(i - 1) /\ s.inbox[j - 1].kind = "initialized"
                BY <1>10, <2>4, <3>3, <4>2
          <5> QED BY <5>1
        <4> QED BY <4>1, <4>2
      <3> QED BY <3>1, <3>2, <3>3
    <2>8. e.kind = "request" =>
              /\ e.id \notin s.seen /\ e.id \in Id /\ e.id <= nextRequest /\ e.id # q
              /\ \A j \in DOMAIN s.inbox : s.inbox[j].kind = "request" /\ s.inbox[j].id = e.id => j = i
      <3> SUFFICES ASSUME e.kind = "request"
                   PROVE  /\ e.id \notin s.seen /\ e.id \in Id /\ e.id <= nextRequest /\ e.id # q
                          /\ \A j \in DOMAIN s.inbox : s.inbox[j].kind = "request" /\ s.inbox[j].id = e.id => j = i
            OBVIOUS
      <3>1. /\ e.id \notin server.seen /\ e.id \in Id /\ e.id <= nextRequest /\ e.id # q
            /\ \A j \in 1..n : server.inbox[j].kind = "request" /\ server.inbox[j].id = e.id => j = i + 1
            BY <1>3, <2>1, <2>2 DEF Good
      <3>2. m.kind = "request" => m.id # e.id
            BY <1>3, <2>1, <3>1
      <3> QED BY <1>10, <2>3, <3>1, <3>2
    <2>9. e.kind = "cancel" =>
              \/ e.id \in s.seen
              \/ \E j \in 1..(i - 1) : s.inbox[j].kind = "request" /\ s.inbox[j].id = e.id
      <3> SUFFICES ASSUME e.kind = "cancel"
                   PROVE  \/ e.id \in s.seen
                          \/ \E j \in 1..(i - 1) : s.inbox[j].kind = "request" /\ s.inbox[j].id = e.id
            OBVIOUS
      <3>1. \/ e.id \in server.seen
            \/ \E j \in 1..((i + 1) - 1) : server.inbox[j].kind = "request" /\ server.inbox[j].id = e.id
            BY <2>1, <2>2 DEF Good
      <3>2. CASE e.id \in server.seen
            BY <1>10, <3>2
      <3>3. ASSUME NEW j \in 1..((i + 1) - 1), server.inbox[j].kind = "request", server.inbox[j].id = e.id
            PROVE  \/ e.id \in s.seen
                   \/ \E k \in 1..(i - 1) : s.inbox[k].kind = "request" /\ s.inbox[k].id = e.id
        <4>1. CASE j = 1
          <5>1. m.kind = "request" /\ m.id = e.id
                BY <1>3, <3>3, <4>1
          <5> QED BY <1>10, <5>1
        <4>2. CASE j - 1 \in 1..(i - 1) /\ rest[j - 1] = server.inbox[j]
              BY <1>10, <3>3, <4>2
        <4> QED BY <2>4, <4>1, <4>2
      <3> QED BY <3>1, <3>2, <3>3
    <2>10. e.uri # "none" => \A c \in Copy : Has(s.copy, s.inbox, e.uri, i, c) => Fits(c, e)
      <3> SUFFICES ASSUME e.uri # "none", NEW c \in Copy, Has(s.copy, rest, e.uri, i, c)
                   PROVE  Fits(c, e)
            BY <1>10
      <3>1. e.uri \in Uri
        <4>1. e \in Message
              BY <1>3 DEF e
        <4> QED BY <4>1 DEF Message
      <3>2. s.copy[e.uri] = IF IsAbout(server.inbox[1], e.uri) THEN Leaves(server.inbox[1]) ELSE server.copy[e.uri]
            BY <1>3, <1>11, <3>1
      <3>3. n - 1 \in Nat /\ i \in 1..((n - 1) + 1) /\ \A j \in 1..(n - 1) : rest[j] = server.inbox[j + 1]
            BY <1>3
      <3>4. Has(server.copy, server.inbox, e.uri, i + 1, c)
        <4> DEFINE a == s.copy
                   b == server.copy
                   x == server.inbox
        <4>1. a[e.uri] = IF IsAbout(x[1], e.uri) THEN Leaves(x[1]) ELSE b[e.uri]
              BY <3>2
        <4>2. \A j \in 1..(n - 1) : rest[j] = x[j + 1]
              BY <3>3
        <4>3. Has(a, rest, e.uri, i, c)
              OBVIOUS
        <4> HIDE DEF a, b, x
        <4>4. Has(b, x, e.uri, i + 1, c)
              BY <3>3, <4>1, <4>2, <4>3, HasRead
        <4> QED BY <4>4 DEF b, x
      <3> QED BY <2>1, <2>2, <3>4 DEF Good
    <2>11. e.kind \in {"open", "change", "close"} => e.uri # "none"
          BY <2>1, <2>2 DEF Good
    <2>12. s.inbox[i] = e
          BY <1>10 DEF e
    <2> QED BY <2>5, <2>6, <2>7, <2>8, <2>9, <2>10, <2>11, <2>12 DEF Good
  <1>14. InboxInv'
    <2>1. s.confused = FALSE /\ DOMAIN s.inbox = 1..(n - 1)
          BY <1>3, <1>10
    <2>2. \A i \in DOMAIN s.inbox : Good(s, i, nextRequest, q)
          BY <1>13, <2>1
    <2> QED BY <1>1, <2>1, <2>2 DEF InboxInv, s, q
  <1>15. ChildInv'
        BY <1>1, <1>4 DEF WireInv, ChildInv, Writable
  <1>16. /\ state \in {"Initializing", "Ready"}
         /\ server.phase = "new" =>
               /\ state = "Initializing" /\ server.asked = {} /\ n = 1
               /\ server.inbox[1].kind = "initialize" /\ server.inbox[1].id = q
         /\ server.phase # "asked"
         /\ server.phase \in {"answered", "ready"} => server.asked \subseteq server.seen
         /\ \A r \in server.seen : r <= nextRequest /\ r # q
         /\ state = "Initializing" =>
               /\ server.phase # "ready" /\ server.seen = {}
               /\ \A u \in Uri : server.copy[u] = Closed
               /\ \A i \in 1..n : server.inbox[i].kind \in {"initialize", "reply"}
         /\ state = "Ready" =>
               server.phase = "ready" \/ \E i \in 1..n : server.inbox[i].kind = "initialized"
         /\ \A i \in DOMAIN ready :
               /\ IsAnswer(ready[i], q) =>
                     /\ server.phase = "answered" /\ state = "Initializing"
                     /\ \A j \in DOMAIN ready : IsAnswer(ready[j], q) => j = i
               /\ ready[i].kind = "ask" => server.phase \in {"answered", "ready"}
    <2>1. HandshakeInv
          BY DEF WireInv
    <2>2. Writable /\ initializeRequest # 0 /\ server.phase # "asked" /\ DOMAIN server.inbox = 1..n
          BY <1>1, <1>3, <1>4, <2>1 DEF HandshakeInv
    <2>3. /\ state \in {"Initializing", "Ready"}
          /\ server.phase = "new" =>
                /\ state = "Initializing" /\ server.asked = {} /\ n = 1
                /\ server.inbox[1].kind = "initialize" /\ server.inbox[1].id = q
          /\ server.phase \in {"answered", "ready"} => server.asked \subseteq server.seen
          /\ \A r \in server.seen : r <= nextRequest /\ r # q
          BY <2>1, <2>2 DEF HandshakeInv, n, q
    <2>4. /\ state = "Initializing" =>
                /\ server.phase # "ready" /\ server.seen = {}
                /\ \A u \in Uri : server.copy[u] = Closed
                /\ \A i \in 1..n : server.inbox[i].kind \in {"initialize", "reply"}
          /\ state = "Ready" =>
                server.phase = "ready" \/ \E i \in 1..n : server.inbox[i].kind = "initialized"
          BY <2>1, <2>2 DEF HandshakeInv
    <2>5. \A i \in DOMAIN ready :
             /\ IsAnswer(ready[i], q) =>
                   /\ server.phase = "answered" /\ state = "Initializing"
                   /\ \A j \in DOMAIN ready : IsAnswer(ready[j], q) => j = i
             /\ ready[i].kind = "ask" => server.phase \in {"answered", "ready"}
          BY <2>1, <2>2 DEF HandshakeInv, q
    <2> QED BY <2>2, <2>3, <2>4, <2>5
  <1>17. HandshakeInv'
    <2>1. 1 \in 1..n
          BY <1>3
    <2>2. s.phase # "new"
          BY <1>2, <1>3, <1>10, <1>16
    <2>3. s.phase = "asked" => state = "Initializing" /\ s.asked = {q} /\ s.inbox = <<>>
      <3> SUFFICES ASSUME m.kind = "initialize"
                   PROVE  state = "Initializing" /\ s.asked = {q} /\ s.inbox = <<>>
            BY <1>10, <1>16
      <3>1. server.phase = "new" /\ n = 1
            BY <1>8
      <3>2. rest = <<>>
        <4>1. Len(rest) = 0 /\ rest \in Seq(Message)
              BY <1>3, <3>1
        <4> QED BY <4>1
      <3> QED BY <1>3, <1>10, <1>16, <3>1, <3>2
    <2>4. s.phase \in {"answered", "ready"} => s.asked \subseteq s.seen
          BY <1>8, <1>10, <1>16
    <2>5. \A r \in s.seen : r <= nextRequest /\ r # q
          BY <1>8, <1>10, <1>16
    <2>6. state = "Initializing" =>
               /\ s.phase # "ready" /\ s.seen = {}
               /\ \A u \in Uri : s.copy[u] = Closed
               /\ \A i \in DOMAIN s.inbox : s.inbox[i].kind \in {"initialize", "reply"}
      <3> SUFFICES ASSUME state = "Initializing"
                   PROVE  /\ s.phase # "ready" /\ s.seen = {}
                          /\ \A u \in Uri : s.copy[u] = Closed
                          /\ \A i \in DOMAIN s.inbox : s.inbox[i].kind \in {"initialize", "reply"}
            OBVIOUS
      <3>1. m.kind \in {"initialize", "reply"}
            BY <1>3, <1>16, <2>1
      <3>2. \A u : ~IsAbout(m, u)
            BY <3>1 DEF IsAbout
      <3>3. \A i \in 1..(n - 1) : i + 1 \in 1..n
            BY <1>3
      <3>4. \A i \in DOMAIN s.inbox : s.inbox[i].kind \in {"initialize", "reply"}
        <4>1. \A i \in 1..(n - 1) : server.inbox[i + 1].kind \in {"initialize", "reply"}
              BY <1>16, <3>3
        <4>2. \A i \in 1..(n - 1) : rest[i].kind \in {"initialize", "reply"}
              BY <1>3, <4>1
        <4> QED BY <1>3, <1>10, <4>2
      <3>5. s.phase # "ready" /\ s.seen = {}
            BY <1>10, <1>16, <3>1
      <3>6. \A u \in Uri : s.copy[u] = Closed
            BY <1>11, <1>16, <3>2
      <3> QED BY <3>4, <3>5, <3>6
    <2>7. state = "Ready" => s.phase = "ready" \/ \E i \in DOMAIN s.inbox : s.inbox[i].kind = "initialized"
      <3> SUFFICES ASSUME state = "Ready", s.phase # "ready"
                   PROVE  \E i \in 1..(n - 1) : rest[i].kind = "initialized"
            BY <1>3, <1>10
      <3>1. m.kind # "initialized" /\ server.phase # "ready"
            BY <1>8, <1>10
      <3>2. PICK i \in 1..n : server.inbox[i].kind = "initialized"
            BY <1>16, <3>1
      <3>3. i # 1
            BY <1>3, <3>1, <3>2
      <3>4. i - 1 \in 1..(n - 1) /\ (i - 1) + 1 = i
            BY <1>3, <3>3
      <3> QED BY <1>3, <3>2, <3>4
    <2>8. \A i \in DOMAIN ready :
               /\ IsAnswer(ready[i], q) =>
                     /\ s.phase = "answered" /\ state = "Initializing"
                     /\ \A j \in DOMAIN ready : IsAnswer(ready[j], q) => j = i
               /\ ready[i].kind = "ask" => s.phase \in {"answered", "ready"}
      <3>1. state = "Initializing" => m.kind \in {"initialize", "reply"}
            BY <1>3, <1>16, <2>1
      <3>2. server.phase = "answered" /\ state = "Initializing" => s.phase = "answered"
            BY <1>8, <1>10, <3>1
      <3>3. server.phase \in {"answered", "ready"} => s.phase \in {"answered", "ready"}
            BY <1>8, <1>10
      <3> QED BY <1>16, <3>2, <3>3
    <2> HIDE DEF IsAnswer
    <2> QED BY <1>1, <1>16, <2>2, <2>3, <2>4, <2>5, <2>6, <2>7, <2>8 DEF HandshakeInv, s, q
  <1>18. SentInv'
    <2> SUFFICES ASSUME state = "Ready"
                 PROVE  SentInv'
          BY <1>1 DEF SentInv
    <2>1. \A r \in DOMAIN pending :
             /\ pending[r].sent
             /\ \/ r \in s.seen
                \/ \E i \in DOMAIN s.inbox : s.inbox[i].kind = "request" /\ s.inbox[i].id = r
      <3> SUFFICES ASSUME NEW r \in DOMAIN pending, r \notin s.seen
                   PROVE  /\ pending[r].sent
                          /\ \E i \in 1..(n - 1) : rest[i].kind = "request" /\ rest[i].id = r
        <4>1. \A r \in DOMAIN pending : pending[r].sent
              BY <1>4 DEF WireInv, SentInv
        <4> QED BY <1>3, <1>10, <4>1
      <3>1. /\ pending[r].sent
            /\ \/ r \in server.seen
               \/ \E i \in 1..n : server.inbox[i].kind = "request" /\ server.inbox[i].id = r
            BY <1>3, <1>4 DEF WireInv, SentInv
      <3>2. PICK i \in 1..n : server.inbox[i].kind = "request" /\ server.inbox[i].id = r
            BY <1>10, <3>1
      <3>3. i # 1
            BY <1>3, <1>10, <3>2
      <3>4. i - 1 \in 1..(n - 1) /\ (i - 1) + 1 = i
            BY <1>3, <3>3
      <3> QED BY <1>3, <3>1, <3>2, <3>4
    <2>2. ASSUME NEW u \in Uri, NEW c \in Copy, Has(s.copy, s.inbox, u, Len(s.inbox) + 1, c)
          PROVE  c = Shown(u)
      <3>1. n - 1 \in Nat /\ (n - 1) + 1 \in 1..((n - 1) + 1) /\ Len(s.inbox) + 1 = (n - 1) + 1
            /\ ((n - 1) + 1) + 1 = n + 1
            BY <1>3, <1>10
      <3>2. Has(server.copy, server.inbox, u, n + 1, c)
        <4> DEFINE a == s.copy
                   b == server.copy
                   x == server.inbox
                   i == (n - 1) + 1
        <4>1. a[u] = IF IsAbout(x[1], u) THEN Leaves(x[1]) ELSE b[u]
              BY <1>3, <1>11
        <4>2. \A j \in 1..(n - 1) : rest[j] = x[j + 1]
              BY <1>3
        <4>3. Has(a, rest, u, i, c) /\ i \in 1..((n - 1) + 1) /\ n - 1 \in Nat
              BY <1>10, <2>2, <3>1
        <4> HIDE DEF a, b, x, i
        <4>4. Has(b, x, u, i + 1, c)
              BY <4>1, <4>2, <4>3, HasRead
        <4> QED BY <3>1, <4>4 DEF b, x, i
      <3>3. \A d \in Copy : Has(server.copy, server.inbox, u, n + 1, d) => d = Shown(u)
            BY <1>4, ReadyWire DEF n
      <3> QED BY <3>2, <3>3
    <2>3. \A u \in Uri : documents[u] # None => documents[u].published
          BY <1>4 DEF WireInv, SentInv
    <2> QED BY <1>1, <2>1, <2>2, <2>3 DEF SentInv, Shown, s
  <1>19. WaitInv'
        BY <1>1 DEF WireInv, WaitInv
  <1> QED BY <1>12, <1>14, <1>15, <1>17, <1>18, <1>19 DEF WireInv

\* A record is added to those of a server that runs: an answer, a question or noise.
LEMMA PostWires ==
    ASSUME SessionAssumption, IInv, WireInv, child = "running", UNCHANGED <<sessionVars, child>>,
           NEW kind \in {"answer", "ask", "malformed"}, NEW id, Post(kind, id), Writable, initializeRequest # 0,
           ServerTypes', InboxInv', server'.inbox = server.inbox, server'.seen = server.seen,
           server'.copy = server.copy, server'.phase \in {"answered", "ready"} \/ server' = server,
           server.phase = "ready" => server'.phase = "ready",
           server'.phase = "ready" => server.phase = "ready",
           server.phase \in {"answered", "ready"} => server'.phase = server.phase,
           server'.phase \in {"answered", "ready"} => server'.asked \subseteq server.asked \ {id},
           server.phase = "new" => server' = server,
           server'.phase = "answered" /\ server.phase # "answered" =>
              kind = "answer" /\ server.phase = "asked" /\ id \in server.asked,
           kind = "ask" => server.phase \in {"answered", "ready"},
           kind = "answer" => server'.phase \in {"answered", "ready"} /\ id \in server.asked
    PROVE  WireInv'
  <1> DEFINE E == [kind : Kinds, id : Id \cup {0}]
             e == [kind |-> kind, id |-> id]
             q == initializeRequest
  <1>1. UNCHANGED <<state, stopping, process, nextRequest, initializeRequest, pending, documents, fate, child>>
        BY DEF sessionVars
  <1>2. ready' = Append(ready, e)
        BY DEF Post, WireInv, ChildInv
  <1>3. \A i \in DOMAIN ready' : \/ i \in DOMAIN ready /\ ready'[i] = ready[i]
                                 \/ ready'[i] = e /\ i = Len(ready) + 1
    <2>1. ready \in Seq(E)
          BY DEF IInv, SessionTypes
    <2> HIDE DEF E, e
    <2> QED BY <1>2, <2>1
  <1>4. e.kind = kind /\ e.id = id
        OBVIOUS
  <1> HIDE DEF e
  <1>5. ChildInv'
        BY <1>1, <1>3, <1>4 DEF WireInv, ChildInv, Writable
  <1>6. /\ state \in {"Initializing", "Ready"}
        /\ server.phase = "new" =>
              /\ state = "Initializing" /\ server.asked = {} /\ Len(server.inbox) = 1
              /\ server.inbox[1].kind = "initialize" /\ server.inbox[1].id = q
        /\ server.phase = "asked" => state = "Initializing" /\ server.asked = {q} /\ server.inbox = <<>>
        /\ server.phase \in {"answered", "ready"} => server.asked \subseteq server.seen
        /\ \A r \in server.seen : r <= nextRequest /\ r # q
        /\ state = "Initializing" => server.phase # "ready" /\ server.seen = {}
        /\ \A i \in DOMAIN ready :
              /\ IsAnswer(ready[i], q) =>
                    /\ server.phase = "answered" /\ state = "Initializing"
                    /\ \A j \in DOMAIN ready : IsAnswer(ready[j], q) => j = i
              /\ ready[i].kind = "ask" => server.phase \in {"answered", "ready"}
    <2> HIDE DEF IsAnswer
    <2> QED BY DEF WireInv, HandshakeInv
  <1>7. /\ state = "Initializing" =>
              /\ \A u \in Uri : server.copy[u] = Closed
              /\ \A i \in DOMAIN server.inbox : server.inbox[i].kind \in {"initialize", "reply"}
        /\ state = "Ready" =>
              server.phase = "ready" \/ \E i \in DOMAIN server.inbox : server.inbox[i].kind = "initialized"
        BY DEF WireInv, HandshakeInv
  <1>8. server.phase \in {"new", "asked", "answered", "ready"}
        BY ServerParts DEF WireInv
  <1>9. IsAnswer(e, q) => server.phase = "asked"
    <2> SUFFICES ASSUME kind = "answer", id = q
                 PROVE  server.phase = "asked"
          BY <1>4 DEF IsAnswer
    <2>1. q \in server.asked
          OBVIOUS
    <2> QED BY <1>6, <1>8, <2>1
  <1>10. HandshakeInv'
    <2>1. /\ server'.phase = "new" => server' = server /\ server.phase = "new"
          /\ server'.phase = "asked" => server' = server
          OBVIOUS
    <2>2. server'.phase \in {"answered", "ready"} => server'.asked \subseteq server'.seen
          BY <1>6, <1>8
    <2>3. \A i \in DOMAIN ready' :
              /\ IsAnswer(ready'[i], q) =>
                    /\ server'.phase = "answered" /\ state = "Initializing"
                    /\ \A j \in DOMAIN ready' : IsAnswer(ready'[j], q) => j = i
              /\ ready'[i].kind = "ask" => server'.phase \in {"answered", "ready"}
      <3>1. ASSUME NEW i \in DOMAIN ready', IsAnswer(ready'[i], q)
            PROVE  /\ server'.phase = "answered" /\ state = "Initializing"
                   /\ \A j \in DOMAIN ready' : IsAnswer(ready'[j], q) => j = i
        <4>1. CASE i \in DOMAIN ready /\ ready'[i] = ready[i]
          <5>1. server.phase = "answered" /\ state = "Initializing"
                /\ \A j \in DOMAIN ready : IsAnswer(ready[j], q) => j = i
                BY <1>6, <3>1, <4>1
          <5>2. ~IsAnswer(e, q)
                BY <1>9, <5>1
          <5> QED BY <1>3, <5>1, <5>2
        <4>2. CASE ready'[i] = e /\ i = Len(ready) + 1
          <5>1. server.phase = "asked"
                BY <1>9, <3>1, <4>2
          <5>2. kind = "answer"
                BY <1>4, <3>1, <4>2 DEF IsAnswer
          <5>3. \A j \in DOMAIN ready : ~IsAnswer(ready[j], q)
                BY <1>6, <5>1
          <5> QED BY <1>3, <1>6, <4>2, <5>1, <5>2, <5>3
        <4> QED BY <1>3, <4>1, <4>2
      <3>2. ASSUME NEW i \in DOMAIN ready', ready'[i].kind = "ask"
            PROVE  server'.phase \in {"answered", "ready"}
            BY <1>3, <1>4, <1>6, <3>2
      <3> QED BY <3>1, <3>2
    <2>4. state = "Initializing" => server'.phase # "ready" /\ server'.seen = {}
          BY <1>6
    <2> HIDE DEF IsAnswer
    <2> QED BY <1>1, <1>6, <1>7, <2>1, <2>2, <2>3, <2>4 DEF HandshakeInv
  <1>11. SentInv' /\ WaitInv'
        BY <1>1 DEF WireInv, SentInv, WaitInv, Writable
  <1> QED BY <1>5, <1>10, <1>11 DEF WireInv

\* The server answers one of the requests it has read; initialize is the first.
LEMMA ServerAnswersWires ==
    ASSUME SessionAssumption, IInv, WireInv, NEW id \in Id, ServerAnswers(id)
    PROVE  WireInv'
  <1>1. /\ child = "running" /\ id \in server.asked /\ Post("answer", id) /\ UNCHANGED <<sessionVars, child>>
        /\ server' = [server EXCEPT !.asked = @ \ {id}, !.phase = IF @ = "asked" THEN "answered" ELSE @]
        BY DEF ServerAnswers
  <1>2. Writable /\ initializeRequest # 0
    <2>1. server # NewServer
          BY <1>1 DEF NewServer
    <2> QED BY <1>1, <2>1, Heard
  <1>3. /\ ServerTypes /\ server.phase \in {"new", "asked", "answered", "ready"}
        /\ server = [inbox |-> server.inbox, phase |-> server.phase, asked |-> server.asked,
                     seen |-> server.seen, copy |-> server.copy, confused |-> server.confused]
    <2> HIDE DEF Message, Id, Copy
    <2> QED BY ServerParts DEF WireInv, ServerTypes
  <1> DEFINE p == IF server.phase = "asked" THEN "answered" ELSE server.phase
             a == server.asked \ {id}
  <1>4. server' = [inbox |-> server.inbox, phase |-> p, asked |-> a, seen |-> server.seen,
                   copy |-> server.copy, confused |-> server.confused]
    <2>1. server' = [server EXCEPT !.asked = a, !.phase = p]
          BY <1>1
    <2> HIDE DEF p, a
    <2> QED BY <1>3, <2>1, ServerRecord
  <1>5. server'.inbox = server.inbox /\ server'.phase = p /\ server'.asked = a /\ server'.seen = server.seen
        /\ server'.copy = server.copy /\ server'.confused = server.confused
    <2> HIDE DEF p, a
    <2> QED BY <1>4
  <1>6. /\ server.phase # "new"
        /\ server.phase = "asked" => server.inbox = <<>>
        BY <1>1, <1>2 DEF WireInv, HandshakeInv
  <1>7. ServerTypes'
    <2>1. p \in {"new", "asked", "answered", "ready"} /\ a \in SUBSET Id
          BY <1>3, ServerParts
    <2>2. /\ server.inbox \in Seq(Message) /\ server.seen \in SUBSET Id /\ server.copy \in [Uri -> Copy]
          /\ server.confused \in BOOLEAN
          BY <1>3, ServerParts
    <2> HIDE DEF Message, Id, Copy, p, a
    <2> QED BY <1>4, <2>1, <2>2 DEF ServerTypes
  <1>8. InboxInv'
    <2>1. UNCHANGED <<nextRequest, initializeRequest>>
          BY <1>1 DEF sessionVars
    <2>2. CASE server.phase = "asked"
          BY <1>5, <1>6, <2>2 DEF WireInv, InboxInv
    <2>3. CASE server.phase # "asked"
      <3>1. server'.phase = server.phase
            BY <1>5, <2>3
      <3>2. \A i \in DOMAIN server.inbox : Good(server, i, nextRequest, initializeRequest)
            BY DEF WireInv, InboxInv
      <3>3. \A i \in DOMAIN server.inbox : Good(server', i, nextRequest, initializeRequest)
            BY <1>5, <3>1, <3>2 DEF Good
      <3> QED BY <1>5, <2>1, <3>3 DEF WireInv, InboxInv
    <2> QED BY <2>2, <2>3
  <1> QED BY <1>1, <1>2, <1>3, <1>5, <1>6, <1>7, <1>8, PostWires

\* It asks something of its own, or makes noise.
LEMMA ServerSendsWires ==
    ASSUME SessionAssumption, IInv, WireInv, NEW kind \in {"ask", "malformed"}, ServerSends(kind)
    PROVE  WireInv'
  <1>1. /\ child = "running" /\ Post(kind, 0) /\ UNCHANGED <<sessionVars, child, server>>
        /\ kind = "ask" => server.phase \in {"answered", "ready"}
        BY DEF ServerSends
  <1>2. ServerTypes' /\ InboxInv'
        BY <1>1 DEF WireInv, ServerTypes, InboxInv, sessionVars
  <1>3. CASE initializeRequest # 0
    <2>1. Writable
          BY <1>1 DEF WireInv, ChildInv, Writable
    <2>2. server.phase \in {"answered", "ready"} => server.asked \subseteq server.asked \ {0}
      <3>1. 0 \notin server.asked
            BY ServerParts DEF WireInv, Id
      <3> QED BY <3>1
    <2> QED BY <1>1, <1>2, <1>3, <2>1, <2>2, PostWires
  <1>4. CASE initializeRequest = 0
    <2>1. server = NewServer
          BY <1>4 DEF WireInv, ChildInv
    <2>2. kind = "malformed"
          BY <1>1, <2>1 DEF NewServer
    <2>3. UNCHANGED <<state, stopping, process, nextRequest, initializeRequest, pending, documents, fate, child, server>>
          BY <1>1 DEF sessionVars
    <2>4. \A i \in DOMAIN ready' : ready'[i].kind = "malformed" \/ (i \in DOMAIN ready /\ ready'[i] = ready[i])
      <3> DEFINE E == [kind : Kinds, id : Id \cup {0}]
                 e == [kind |-> kind, id |-> 0]
      <3>1. ready \in Seq(E)
            BY DEF IInv, SessionTypes
      <3>2. \A i \in DOMAIN Append(ready, e) : Append(ready, e)[i] = e \/ (i \in DOMAIN ready /\ Append(ready, e)[i] = ready[i])
        <4> HIDE DEF E, e
        <4> QED BY <3>1
      <3> QED BY <1>1, <2>2, <3>2 DEF Post
    <2>5. ChildInv'
          BY <2>3, <2>4 DEF WireInv, ChildInv
    <2>6. HandshakeInv' /\ SentInv' /\ WaitInv'
          BY <1>4, <2>3 DEF WireInv, HandshakeInv, SentInv, WaitInv, Writable
    <2> QED BY <1>2, <2>5, <2>6 DEF WireInv
  <1> QED BY <1>3, <1>4

\* A process that starts has heard nothing, and one that ends hears nothing.
LEMMA ProcessStartsWires ==
    ASSUME SessionAssumption, IInv, WireInv, ProcessStarts
    PROVE  WireInv'
  <1>1. /\ child = "spawned" /\ child' = "running" /\ Post("started", 0)
        /\ UNCHANGED <<state, stopping, process, nextRequest, initializeRequest, pending, documents, fate, server>>
        BY DEF ProcessStarts, sessionVars
  <1>2. ready = <<>> /\ initializeRequest = 0
        BY <1>1 DEF IInv, StartInv
  <1>3. \A i \in DOMAIN ready' : ready'[i].kind = "started"
        BY <1>1, <1>2 DEF Post
  <1>4. ServerTypes' /\ InboxInv'
        BY <1>1 DEF WireInv, ServerTypes, InboxInv
  <1>5. ChildInv'
        BY <1>1, <1>3 DEF WireInv, ChildInv
  <1>6. HandshakeInv' /\ SentInv' /\ WaitInv'
        BY <1>1, <1>2 DEF WireInv, HandshakeInv, SentInv, WaitInv, Writable
  <1> QED BY <1>4, <1>5, <1>6 DEF WireInv

\* A dead process has nothing on its wire.
LEMMA ProcessEndsWires ==
    ASSUME SessionAssumption, IInv, WireInv, ProcessEnds
    PROVE  WireInv'
  <1>1. /\ child' = "gone" /\ server' = [NewServer EXCEPT !.confused = server.confused]
        /\ UNCHANGED <<state, stopping, process, nextRequest, initializeRequest, pending, documents, fate>>
        BY DEF ProcessEnds, sessionVars, Lost
  <1>2. PICK kind \in {"ended", "cancelled"} : Post(kind, 0)
        BY DEF ProcessEnds
  <1>3. server' = NewServer
    <2>1. server.confused = FALSE
          BY ServerParts DEF WireInv, InboxInv
    <2> QED BY <1>1, <2>1 DEF NewServer
  <1>4. \A i \in DOMAIN ready' : ready'[i].kind \in {"ended", "cancelled"} \/ (i \in DOMAIN ready /\ ready'[i] = ready[i])
    <2> DEFINE E == [kind : Kinds, id : Id \cup {0}]
               e == [kind |-> kind, id |-> 0]
    <2>1. ready \in Seq(E)
          BY DEF IInv, SessionTypes
    <2>2. \A i \in DOMAIN Append(ready, e) : Append(ready, e)[i] = e \/ (i \in DOMAIN ready /\ Append(ready, e)[i] = ready[i])
      <3> HIDE DEF E, e
      <3> QED BY <2>1
    <2> QED BY <1>2, <2>2 DEF Post
  <1>5. WaitInv' /\ (state' = "Starting" => initializeRequest' = 0)
        BY <1>1 DEF WireInv, WaitInv, ChildInv
  <1>6. \A i \in DOMAIN ready' : ready'[i].kind \in {"answer", "ask"} => initializeRequest' # 0
        BY <1>1, <1>4 DEF WireInv, ChildInv
  <1> QED BY <1>1, <1>3, <1>5, <1>6, Sealed

\* Nothing is on the wire at the start, and every step leaves it good.
LEMMA WireAtStart == ASSUME SessionAssumption, Init PROVE WireInv
  <1> USE DEF Init
  <1>1. ServerTypes
        BY NewServerTypes DEF ServerTypes
  <1>2. InboxInv
        BY DEF InboxInv, NewServer
  <1>3. ChildInv /\ HandshakeInv /\ SentInv /\ WaitInv
        BY DEF ChildInv, HandshakeInv, SentInv, WaitInv, Writable
  <1> QED BY <1>1, <1>2, <1>3 DEF WireInv

\* Every step keeps the invariant of the wire.
LEMMA WireKept == ASSUME SessionAssumption, IInv, WireInv, [Next]_vars PROVE WireInv'
  <1>1. CASE \E u \in Uri \cup {"none"} : Request(u)
        BY <1>1, RequestWires
  <1>2. CASE \E id \in Id : CancelRequest(id)
        BY <1>2, CancelRequestWires
  <1>3. CASE \E u \in Uri, v \in 1..MaxRevision, l \in Language : SynchronizeDocument(u, v, l)
        BY <1>3, SynchronizeDocumentWires
  <1>4. CASE \E u \in Uri : CloseDocument(u)
        BY <1>4, CloseDocumentWires
  <1>5. CASE Stop
        BY <1>5, StopWires
  <1>6. CASE Deliver
        BY <1>6, DeliverWires
  <1>7. CASE ProcessStarts
        BY <1>7, ProcessStartsWires
  <1>8. CASE ProcessEnds
        BY <1>8, ProcessEndsWires
  <1>9. CASE ServerReads
        BY <1>9, ServerReadsWires
  <1>10. CASE \E id \in Id : ServerAnswers(id)
        BY <1>10, ServerAnswersWires
  <1>11. CASE \E kind \in {"ask", "malformed"} : ServerSends(kind)
        BY <1>11, ServerSendsWires
  <1>12. CASE UNCHANGED vars
    <2>1. UNCHANGED <<state, stopping, process, nextRequest, initializeRequest, pending, documents, fate,
                      child, ready, server>>
          BY <1>12 DEF vars, sessionVars
    <2>2. ServerTypes' /\ InboxInv' /\ ChildInv'
          BY <2>1 DEF WireInv, ServerTypes, InboxInv, ChildInv
    <2>3. HandshakeInv' /\ SentInv' /\ WaitInv'
          BY <2>1 DEF WireInv, HandshakeInv, SentInv, WaitInv, Writable
    <2> QED BY <2>2, <2>3 DEF WireInv
  <1> QED BY <1>1, <1>2, <1>3, <1>4, <1>5, <1>6, <1>7, <1>8, <1>9, <1>10, <1>11, <1>12 DEF Next

\* What is written and not read yet will be allowed when the server comes to it, and
\* ends in the documents of the session: in every reachable state of LspSession.
THEOREM SessionWire == Spec => []WireInv
  <1>1. Init => WireInv
        BY SessionAssumption, WireAtStart
  <1>2. IInv /\ WireInv /\ [Next]_vars => WireInv'
        BY SessionAssumption, WireKept
  <1> QED BY <1>1, <1>2, SessionInvariant, PTL DEF Spec

\* ProtocolKept: whatever the session's clients do around the handshake, and however the
\* server reads and answers, nothing the session writes is against the protocol.
THEOREM SessionProtocol == Spec => []ProtocolKept
  <1>1. WireInv => ProtocolKept
        BY DEF WireInv, InboxInv, ProtocolKept
  <1> QED BY <1>1, SessionWire, PTL

\* ServerCopyFollows: what the server of a ready session has of a document, once nothing
\* is on the way about it, is the document as the session has it.
THEOREM SessionCopy == Spec => []ServerCopyFollows
  <1>1. IInv /\ WireInv => ServerCopyFollows
    <2> SUFFICES ASSUME IInv, WireInv, state = "Ready", Writable, NEW u \in Uri,
                        \A i \in DOMAIN server.inbox : server.inbox[i].uri # u
                 PROVE  server.copy[u] = Shown(u)
          BY DEF ServerCopyFollows, Shown
    <2>1. server.copy[u] \in Copy /\ DOMAIN server.inbox = 1..Len(server.inbox) /\ Len(server.inbox) \in Nat
          BY ServerParts DEF WireInv
    <2>2. \A j \in 1..((Len(server.inbox) + 1) - 1) : ~IsAbout(server.inbox[j], u)
          BY <2>1 DEF IsAbout
    <2>3. Has(server.copy, server.inbox, u, Len(server.inbox) + 1, server.copy[u])
          BY <2>2 DEF Has
    <2> QED BY <2>1, <2>3, SessionAssumption, ReadyWire
  <1> QED BY <1>1, SessionInvariant, SessionWire, PTL
=============================================================================
