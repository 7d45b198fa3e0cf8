------------------------ MODULE AsyncProcessesProofs ------------------------
(***************************************************************************)
(* Proofs about AsyncProcesses, for any finite set of children and any     *)
(* number of writes and chunks: type correctness, the count of open        *)
(* children, the order and the truth of the callbacks, and which callbacks *)
(* of the loop find their process.                                         *)
(***************************************************************************)
EXTENDS AsyncProcesses, TLAPS, FiniteSetTheorems, SequenceTheorems,
        FunctionTheorems

-----------------------------------------------------------------------------
(* The inductive invariant: records and owners.                            *)

\* The records whose callbacks have not been called, oldest first.
Queue == (IF calling THEN Tail(pending) ELSE pending) \o ready

QueueTypes ==
    /\ pending \in Seq(Records) /\ ready \in Seq(Records)
    /\ calling \in BOOLEAN /\ (calling => pending # <<>>)
    /\ told \in [Proc -> Seq(Kinds)] /\ fate \in [Proc -> Fates]
    /\ processes \subseteq Proc
    /\ shuttingDown => pending = <<>>

\* The owner has been told of the start, or will be.
Announced(p) ==
    \/ told[p] # <<>> /\ told[p][1] = "Started"
    \/ \E i \in DOMAIN Queue : Queue[i] = Record("Started", p)

Silent(p) == told[p] = <<>> /\ \A i \in DOMAIN Queue : Queue[i].process # p

\* Of the records of one child only the first is a start and only the last an end.
OrderInv ==
    \A i, j \in DOMAIN Queue : i < j /\ Queue[i].process = Queue[j].process =>
        Queue[j].kind # "Started" /\ Queue[i].kind \notin Terminal

\* A known process is open, and one that has ended and whose owner was not told has its
\* record on the way.
EndInv ==
    /\ \A p \in processes : fate[p] = "open"
    /\ \A p \in Proc : fate[p] = "open" /\ p \notin processes =>
          \E i \in DOMAIN Queue : Queue[i].process = p /\ Queue[i].kind \in Terminal
    /\ \A i \in DOMAIN Queue :
          /\ fate[Queue[i].process] \in {"open", "discarded"}
          /\ Queue[i].kind \in Terminal =>
                fate[Queue[i].process] = "open" /\ Queue[i].process \notin processes
    /\ calling /\ Head(pending).kind \in Terminal => fate[Head(pending).process] \notin {"new", "open"}

ToldInv ==
    /\ CallbacksInOrder
    /\ \A p \in Proc : fate[p] \in {"new", "open", "discarded"} =>
          \A i \in DOMAIN told[p] : told[p][i] \notin Terminal
    /\ \A p \in Proc, i \in DOMAIN Queue :
          /\ Queue[i] = Record("Started", p) => told[p] = <<>>
          /\ Queue[i] = Record("Chunk", p) => Announced(p)

QueueInv == QueueTypes /\ OrderInv /\ EndInv /\ ToldInv /\ OutstandingIsExact

-----------------------------------------------------------------------------
(* The inductive invariant: the loop thread.                               *)

HandleTypes ==
    /\ writes \in [Proc -> Nat] /\ reads \in [Proc -> Nat]
    /\ toStop \subseteq Proc /\ stopped \in [Proc -> BOOLEAN]
    /\ commands \in Seq(Orders)
    /\ shuttingDown \in BOOLEAN /\ shutdownStarted \in BOOLEAN
    /\ looper \in {"poll", "drain", "shutdown", "exit"}
    /\ pipe \in [Proc -> [Pipe -> {"none", "open", "closing", "closed"}]]
    /\ handle \in [Proc -> {"none", "open", "closing", "closed"}]
    /\ requests \in [Proc -> Seq({"queued", "written"})]
    /\ closing \in Seq(Proc \X (Pipe \cup {"child"}))
    /\ closeBatch \in Seq(Proc \X (Pipe \cup {"child"}))
    /\ child \in [Proc -> {"none", "alive", "killed", "dead"}]
    /\ (shutdownStarted => shuttingDown) /\ (looper \in {"shutdown", "exit"} => shutdownStarted)

LoopTypes == HandleTypes /\ proc \in [Proc -> [Fields -> BOOLEAN]]

\* Whose handles are in a list of handles.
Owners(list) == {list[i][1] : i \in DOMAIN list}

\* The children with handles whose close callbacks are to come.
Shutting == Owners(closing) \cup Owners(closeBatch)

\* No callback of a pipe is to come, other than that it has been closed.
Shut(p) == \A s \in Pipe : pipe[p][s] \in {"none", "closed"}

\* What a child's fields, handles, requests and end say about each other.
ChildInv(p) ==
    /\ handle[p] = "open" => proc[p].started /\ ~proc[p].exited /\ ~proc[p].handleClosed
    /\ handle[p] = "closing" /\ proc[p].handleClosed => ~proc[p].started /\ stopped[p]
    /\ proc[p].finished => handle[p] # "open" /\ Shut(p) /\ proc[p].handleClosed
    /\ pipe[p]["in"] \in {"none", "closed"} => requests[p] = <<>>
    /\ proc[p].exited => child[p] = "dead" \/ proc[p].exception \/ stopped[p] \/ proc[p].suppress
    /\ p \in processes <=> fate[p] # "new" /\ ~proc[p].finished
    /\ fate[p] = "new" => ~proc[p].finished
    /\ looper = "exit" => Shut(p)
    /\ \A s \in Pipe : pipe[p][s] = "open" => Announced(p)

StartPending(p) == \E i \in DOMAIN commands : commands[i] = Record("Start", p)

\* Before its Start is obeyed nothing of a child exists.
FreshInv(p) ==
    fate[p] = "new" \/ StartPending(p) =>
        /\ ~proc[p].started /\ (proc[p].exited \/ proc[p].handleClosed => proc[p].finished)
        /\ handle[p] = "none" /\ \A s \in Pipe : pipe[p][s] = "none"
        /\ p \notin Shutting /\ Silent(p)

\* A Start comes before every other command for its child.
CommandInv ==
    /\ \A i \in DOMAIN commands :
          /\ fate[commands[i].process] # "new"
          /\ commands[i].kind = "Terminate" => stopped[commands[i].process]
    /\ \A i, j \in DOMAIN commands :
          commands[j].kind = "Start" /\ commands[i].process = commands[j].process => j <= i
    /\ \A p \in toStop : fate[p] # "new"

Local(p) == ChildInv(p) /\ FreshInv(p)

LoopInv == LoopTypes /\ CommandInv /\ EndIsTruthful /\ \A p \in Proc : Local(p)

IInv == QueueInv /\ LoopInv

-----------------------------------------------------------------------------
(* Sequences and records.                                                  *)

\* Append, index by index.
LEMMA AppendFacts ==
  ASSUME NEW S, NEW s \in Seq(S), NEW e \in S
  PROVE  /\ Append(s, e) \in Seq(S)
         /\ DOMAIN Append(s, e) = DOMAIN s \cup {Len(s) + 1}
         /\ \A i \in DOMAIN s : i < Len(s) + 1 /\ i \in Nat /\ Append(s, e)[i] = s[i]
         /\ Append(s, e)[Len(s) + 1] = e
         /\ Len(s) \in Nat
BY AppendProperties, LenProperties

\* Tail, index by index.
LEMMA TailFacts ==
  ASSUME NEW S, NEW s \in Seq(S), s # <<>>
  PROVE  /\ Tail(s) \in Seq(S) /\ Head(s) \in S
         /\ 1 \in DOMAIN s /\ Head(s) = s[1]
         /\ \A i \in DOMAIN Tail(s) :
               i \in Nat /\ i > 0 /\ i + 1 \in DOMAIN s /\ Tail(s)[i] = s[i + 1]
         /\ \A i \in DOMAIN s : i = 1 \/ (i - 1 \in DOMAIN Tail(s) /\ Tail(s)[i - 1] = s[i])
<1>1. /\ Tail(s) \in Seq(S) /\ Head(s) \in S /\ Len(Tail(s)) = Len(s) - 1
      /\ \A i \in 1..Len(Tail(s)) : Tail(s)[i] = s[i + 1]
  BY HeadTailProperties
<1>2. Len(s) \in Nat \ {0} /\ DOMAIN s = 1..Len(s) /\ DOMAIN Tail(s) = 1..Len(Tail(s))
  BY <1>1, EmptySeq, LenProperties
<1>3. Head(s) = s[1]
  OBVIOUS
<1> QED
  BY <1>1, <1>2, <1>3

\* The owners of two lists are the owners of either.
LEMMA OwnersOfBoth ==
  ASSUME NEW S, NEW s \in Seq(S), NEW t \in Seq(S)
  PROVE  Owners(s \o t) \subseteq Owners(s) \cup Owners(t)
<1>1. /\ DOMAIN (s \o t) = 1..(Len(s) + Len(t)) /\ DOMAIN s = 1..Len(s) /\ DOMAIN t = 1..Len(t)
      /\ Len(s) \in Nat /\ Len(t) \in Nat
      /\ \A i \in 1..(Len(s) + Len(t)) :
            (s \o t)[i] = IF i <= Len(s) THEN s[i] ELSE t[i - Len(s)]
  BY ConcatProperties, LenProperties
<1>2. \A i \in DOMAIN (s \o t) : i \in DOMAIN s \/ (i - Len(s) \in DOMAIN t /\ i > Len(s))
  BY <1>1
<1>3. ASSUME NEW i \in DOMAIN (s \o t)
      PROVE  (s \o t)[i][1] \in Owners(s) \cup Owners(t)
  <2>1. CASE i \in DOMAIN s
    BY <1>1, <2>1 DEF Owners
  <2>2. CASE i - Len(s) \in DOMAIN t /\ i > Len(s)
    <3>1. (s \o t)[i] = t[i - Len(s)]
      BY <1>1, <2>2
    <3> QED
      BY <3>1, <2>2 DEF Owners
  <2> QED
    BY <1>2, <2>1, <2>2
<1> QED
  BY <1>3 DEF Owners

\* What the records and the commands are made of.
LEMMA RecordFacts ==
  /\ \A r \in Records : r.kind \in Kinds /\ r.process \in Proc /\ r = Record(r.kind, r.process)
  /\ \A k \in Kinds, p \in Proc : Record(k, p) \in Records
  /\ \A r \in Orders : r.kind \in {"Start", "Write", "CloseInput", "Terminate"}
                       /\ r.process \in Proc /\ r = Record(r.kind, r.process)
  /\ \A k \in {"Start", "Write", "CloseInput", "Terminate"}, p \in Proc : Record(k, p) \in Orders
  /\ \A k, p : Record(k, p).kind = k /\ Record(k, p).process = p
BY DEF Records, Orders, Record

-----------------------------------------------------------------------------
(* Counting.                                                               *)

Open == {p \in Proc : fate[p] = "open"}

\* Every set of children is finite.
LEMMA FiniteCount ==
  \A S \in SUBSET Proc : IsFiniteSet(S) /\ Cardinality(S) \in Nat
<1> TAKE S \in SUBSET Proc
<1>1. IsFiniteSet(S)
  BY ProcAssumption, FS_Subset
<1> QED
  BY <1>1, FS_CardinalityType

-----------------------------------------------------------------------------
(* What the queue of records becomes.                                      *)

Current == IF calling THEN Tail(pending) ELSE pending

\* The queue is a sequence of records: the rest of the batch, then what is ready.
LEMMA QueueIsSeq ==
  ASSUME QueueTypes
  PROVE  Queue \in Seq(Records) /\ Current \in Seq(Records) /\ Queue = Current \o ready
<1>1. Current \in Seq(Records)
  BY TailFacts DEF QueueTypes, Current
<1> QED
  BY <1>1, ConcatProperties DEF Queue, Current, QueueTypes

\* Publishing a record appends it to the queue.
LEMMA QueueAppended ==
  ASSUME QueueTypes, NEW r \in Records, UNCHANGED <<pending, calling>>, ready' = Append(ready, r)
  PROVE  Queue' = Append(Queue, r)
<1>1. Current \in Seq(Records) /\ ready \in Seq(Records) /\ Current' = Current
      /\ Queue = Current \o ready
  BY QueueIsSeq DEF QueueTypes, Current
<1>2. Queue' = Current \o (ready \o <<r>>)
  BY <1>1, AppendIsConcat DEF Queue, Current
<1>3. <<r>> \in Seq(Records)
  OBVIOUS
<1> QED
  BY <1>1, <1>2, <1>3, ConcatAssociative, ConcatProperties, AppendIsConcat

\* drain() takes the records and leaves the queue as it is.
LEMMA QueueDrained ==
  ASSUME QueueTypes, pending = <<>>, pending' = ready, ready' = <<>>, UNCHANGED calling
  PROVE  Queue' = Queue /\ ~calling
<1>1. ~calling
  BY DEF QueueTypes
<1> QED
  BY <1>1, ConcatEmptySeq DEF Queue, QueueTypes

\* A callback takes the first record.
LEMMA QueueShifted ==
  ASSUME QueueTypes, ~calling, pending # <<>>, calling' = TRUE, UNCHANGED <<pending, ready>>
  PROVE  Queue # <<>> /\ Head(pending) = Queue[1] /\ Queue' = Tail(Queue)
<1>1. pending \in Seq(Records) /\ ready \in Seq(Records) /\ Tail(pending) \in Seq(Records)
      /\ Head(pending) = pending[1]
  BY TailFacts DEF QueueTypes
<1>2. Queue = pending \o ready /\ Queue' = Tail(pending) \o ready
  BY DEF Queue
<1>3. /\ Queue \in Seq(Records) /\ Len(Queue) = Len(pending) + Len(ready)
      /\ \A i \in 1..Len(Queue) : Queue[i] = IF i <= Len(pending) THEN pending[i]
                                             ELSE ready[i - Len(pending)]
  BY <1>1, <1>2, ConcatProperties
<1>4. /\ Queue' \in Seq(Records) /\ Len(Queue') = Len(Tail(pending)) + Len(ready)
      /\ \A i \in 1..Len(Queue') : Queue'[i] = IF i <= Len(Tail(pending)) THEN Tail(pending)[i]
                                               ELSE ready[i - Len(Tail(pending))]
  BY <1>1, <1>2, ConcatProperties
<1>5. Len(pending) \in Nat \ {0} /\ Len(ready) \in Nat /\ Len(Tail(pending)) = Len(pending) - 1
      /\ \A i \in 1..Len(Tail(pending)) : Tail(pending)[i] = pending[i + 1]
  BY <1>1, EmptySeq, LenProperties, HeadTailProperties
<1>6. Queue # <<>> /\ Head(pending) = Queue[1]
  BY <1>1, <1>3, <1>5, EmptySeq
<1>7. /\ Tail(Queue) \in Seq(Records) /\ Len(Tail(Queue)) = Len(Queue) - 1
      /\ \A i \in 1..Len(Tail(Queue)) : Tail(Queue)[i] = Queue[i + 1]
  BY <1>3, <1>6, HeadTailProperties
<1>8. Len(Queue') = Len(Tail(Queue))
  BY <1>3, <1>4, <1>5, <1>7
<1>9. \A i \in 1..Len(Queue') : Queue'[i] = Tail(Queue)[i]
  BY <1>3, <1>4, <1>5, <1>7, <1>8
<1>10. Queue' = Tail(Queue)
  BY <1>4, <1>7, <1>8, <1>9, SeqEqual
<1> QED
  BY <1>6, <1>10

\* Neither does the return of a callback, whose record left the queue when it began.
LEMMA QueueReturned ==
  ASSUME QueueTypes, calling, calling' = FALSE, pending' = Tail(pending), UNCHANGED ready
  PROVE  Queue' = Queue
BY DEF Queue

\* The destructor drops what is ready.
LEMMA QueueDropped ==
  ASSUME QueueTypes, pending = <<>>, UNCHANGED <<pending, calling>>, ready' = <<>>
  PROVE  Queue = ready /\ Queue' = <<>>
<1>1. ~calling
  BY DEF QueueTypes
<1> QED
  BY <1>1, ConcatEmptySeq DEF Queue, QueueTypes

-----------------------------------------------------------------------------
(* Steps of the queue.                                                     *)

\* The record whose callback runs is counted until it returns.
Extra == IF calling /\ Head(pending).kind \in Terminal THEN 1 ELSE 0

\* The count, in terms of the set of open children.
LEMMA CountIs ==
  ASSUME QueueTypes
  PROVE  /\ OutstandingIsExact <=> outstanding = Cardinality(Open) + Extra
         /\ Open \in SUBSET Proc /\ Cardinality(Open) \in Nat /\ IsFiniteSet(Open)
         /\ Extra \in {0, 1}
BY FiniteCount DEF OutstandingIsExact, Open, Extra

\* Records are neither added nor taken, and nobody is told anything.
LEMMA SameQueue ==
  ASSUME QueueInv, Queue' = Queue, UNCHANGED <<told, fate, processes>>,
         QueueTypes', OutstandingIsExact',
         calling' /\ Head(pending').kind \in Terminal => fate'[Head(pending').process] \notin {"new", "open"}
  PROVE  /\ QueueInv'
         /\ \A p \in Proc : (Announced(p) => Announced(p)') /\ (Silent(p) => Silent(p)')
<1>1. \A p \in Proc : (Announced(p)' <=> Announced(p)) /\ (Silent(p)' <=> Silent(p))
  BY DEF Announced, Silent
<1>2. OrderInv'
  BY DEF QueueInv, OrderInv
<1>3. EndInv'
  BY DEF QueueInv, EndInv
<1>4. CallbacksInOrder'
  BY DEF QueueInv, ToldInv, CallbacksInOrder
<1>5. ToldInv'
  BY <1>1, <1>4 DEF QueueInv, ToldInv
<1> QED
  BY <1>1, <1>2, <1>3, <1>5 DEF QueueInv

\* A step that touches none of its state keeps the invariant of the queue.
LEMMA QueueUntouched ==
  ASSUME QueueInv,
         UNCHANGED <<pending, calling, told, fate, processes, ready, outstanding, shuttingDown>>
  PROVE  /\ QueueInv' /\ Queue' = Queue
         /\ \A p \in Proc : (Announced(p) => Announced(p)') /\ (Silent(p) => Silent(p)')
<1>1. Queue' = Queue
  BY DEF Queue
<1>2. QueueTypes' /\ OutstandingIsExact'
  BY DEF QueueInv, QueueTypes, OutstandingIsExact
<1>3. calling' /\ Head(pending').kind \in Terminal => fate'[Head(pending').process] \notin {"new", "open"}
  BY DEF QueueInv, EndInv
<1> QED
  BY <1>1, <1>2, <1>3, SameQueue

\* What every record of the queue is.
LEMMA QueueFacts ==
  ASSUME QueueInv
  PROVE  /\ Queue \in Seq(Records)
         /\ \A i \in DOMAIN Queue : Queue[i] \in Records /\ Queue[i].process \in Proc
                                    /\ Queue[i].kind \in Kinds
                                    /\ Queue[i] = Record(Queue[i].kind, Queue[i].process)
<1>1. Queue \in Seq(Records)
  BY QueueIsSeq DEF QueueInv
<1>2. \A i \in DOMAIN Queue : Queue[i] \in Records
  BY <1>1, ElementOfSeq, LenProperties
<1> QED
  BY <1>1, <1>2, RecordFacts

\* A record of a known child is put at the end: a start of one that is silent, a chunk
\* of one that is announced, or an end, with which it is forgotten.
LEMMA Published ==
  ASSUME QueueInv, NEW p \in processes, NEW k \in Kinds, ready' = Append(ready, Record(k, p)),
         UNCHANGED <<pending, calling, told, fate, outstanding, shuttingDown>>,
         k = "Started" => Silent(p),
         k = "Chunk" => Announced(p),
         processes' = IF k \in Terminal THEN processes \ {p} ELSE processes
  PROVE  /\ QueueInv'
         /\ \A c \in Proc : Announced(c) => Announced(c)'
         /\ \A c \in Proc \ {p} : Silent(c) => Silent(c)'
         /\ k = "Started" => Announced(p)'
<1> DEFINE r == Record(k, p)
<1>1. p \in Proc /\ r \in Records /\ r.kind = k /\ r.process = p
  BY RecordFacts DEF QueueInv, QueueTypes
<1>2. Queue' = Append(Queue, r) /\ Queue \in Seq(Records)
  BY <1>1, QueueAppended, QueueIsSeq DEF QueueInv
<1>3. /\ DOMAIN Queue' = DOMAIN Queue \cup {Len(Queue) + 1} /\ Len(Queue) \in Nat
      /\ \A i \in DOMAIN Queue : i < Len(Queue) + 1 /\ i \in Nat /\ Queue'[i] = Queue[i]
      /\ Queue'[Len(Queue) + 1] = r
  BY <1>1, <1>2, AppendFacts
<1>4. \A c \in Proc : Announced(c) => Announced(c)'
  BY <1>3 DEF Announced
<1>5. \A c \in Proc \ {p} : Silent(c) => Silent(c)'
  BY <1>1, <1>3 DEF Silent
<1>6. k = "Started" => Announced(p)'
  BY <1>3 DEF Announced
<1>7. QueueTypes'
  BY <1>1, AppendProperties DEF QueueInv, QueueTypes
<1>8. OrderInv'
  <2>1. \A i \in DOMAIN Queue : Queue[i].process = p => k # "Started" /\ Queue[i].kind \notin Terminal
    BY DEF QueueInv, EndInv, Silent
  <2> QED
    BY <2>1, <1>1, <1>3 DEF QueueInv, OrderInv
<1>9. EndInv'
  <2>1. \A c \in processes' : fate'[c] = "open"
    BY DEF QueueInv, EndInv
  <2>2. ASSUME NEW c \in Proc, fate'[c] = "open", c \notin processes'
        PROVE  \E i \in DOMAIN Queue' : Queue'[i].process = c /\ Queue'[i].kind \in Terminal
    <3>1. CASE c \in processes
      BY <3>1, <2>2, <1>1, <1>3
    <3>2. CASE c \notin processes
      BY <3>2, <2>2, <1>3 DEF QueueInv, EndInv
    <3> QED
      BY <3>1, <3>2
  <2>3. ASSUME NEW i \in DOMAIN Queue'
        PROVE  /\ fate'[Queue'[i].process] \in {"open", "discarded"}
               /\ Queue'[i].kind \in Terminal =>
                     fate'[Queue'[i].process] = "open" /\ Queue'[i].process \notin processes'
    BY <1>1, <1>3 DEF QueueInv, EndInv
  <2>4. calling' /\ Head(pending').kind \in Terminal => fate'[Head(pending').process] \notin {"new", "open"}
    BY DEF QueueInv, EndInv
  <2> QED
    BY <2>1, <2>2, <2>3, <2>4 DEF EndInv
<1>10. ToldInv'
  <2>1. CallbacksInOrder'
    BY DEF QueueInv, ToldInv, CallbacksInOrder
  <2>2. ASSUME NEW c \in Proc, NEW i \in DOMAIN Queue'
        PROVE  /\ Queue'[i] = Record("Started", c) => told'[c] = <<>>
               /\ Queue'[i] = Record("Chunk", c) => Announced(c)'
    <3>1. CASE i \in DOMAIN Queue
      BY <3>1, <1>3, <1>4 DEF QueueInv, ToldInv
    <3>2. CASE i = Len(Queue) + 1
      <4>1. \A h : r = Record(h, c) => k = h /\ p = c
        BY RecordFacts
      <4> QED
        BY <3>2, <4>1, <1>3, <1>4 DEF Silent
    <3> QED
      BY <3>1, <3>2, <1>3
  <2> QED
    BY <2>1, <2>2 DEF QueueInv, ToldInv
<1>11. OutstandingIsExact'
  BY DEF QueueInv, OutstandingIsExact
<1> QED
  BY <1>4, <1>5, <1>6, <1>7, <1>8, <1>9, <1>10, <1>11 DEF QueueInv

\* A known child is forgotten without a record.
LEMMA Discarded ==
  ASSUME QueueInv, NEW p \in processes, processes' = processes \ {p},
         fate' = [fate EXCEPT ![p] = "discarded"], outstanding' = outstanding - 1,
         UNCHANGED <<pending, calling, told, ready, shuttingDown>>
  PROVE  /\ QueueInv'
         /\ \A c \in Proc : (Announced(c) => Announced(c)') /\ (Silent(c) => Silent(c)')
<1>1. p \in Proc /\ fate[p] = "open" /\ fate'[p] = "discarded"
      /\ (\A c \in Proc \ {p} : fate'[c] = fate[c]) /\ fate' \in [Proc -> Fates]
  BY DEF QueueInv, QueueTypes, EndInv, Fates
<1>2. Queue' = Queue
  BY DEF Queue
<1>3. \A c \in Proc : (Announced(c)' <=> Announced(c)) /\ (Silent(c)' <=> Silent(c))
  BY <1>2 DEF Announced, Silent
<1>4. QueueTypes'
  BY <1>1 DEF QueueInv, QueueTypes
<1>5. OrderInv'
  BY <1>2 DEF QueueInv, OrderInv
<1>6. EndInv'
  <2>1. \A c \in processes' : fate'[c] = "open"
    BY <1>1 DEF QueueInv, EndInv, QueueTypes
  <2>2. ASSUME NEW c \in Proc, fate'[c] = "open", c \notin processes'
        PROVE  \E i \in DOMAIN Queue' : Queue'[i].process = c /\ Queue'[i].kind \in Terminal
    BY <2>2, <1>1, <1>2 DEF QueueInv, EndInv
  <2>3. ASSUME NEW i \in DOMAIN Queue'
        PROVE  /\ fate'[Queue'[i].process] \in {"open", "discarded"}
               /\ Queue'[i].kind \in Terminal =>
                     fate'[Queue'[i].process] = "open" /\ Queue'[i].process \notin processes'
    BY <1>1, <1>2, QueueFacts DEF QueueInv, EndInv
  <2>4. calling' /\ Head(pending').kind \in Terminal => fate'[Head(pending').process] \notin {"new", "open"}
    <3>1. calling => Head(pending).process \in Proc
      BY TailFacts, RecordFacts DEF QueueInv, QueueTypes
    <3> QED
      BY <3>1, <1>1 DEF QueueInv, EndInv
  <2> QED
    BY <2>1, <2>2, <2>3, <2>4 DEF EndInv
<1>7. ToldInv'
  <2>1. CallbacksInOrder'
    BY DEF QueueInv, ToldInv, CallbacksInOrder
  <2>2. \A c \in Proc : fate'[c] \in {"new", "open", "discarded"} =>
            \A i \in DOMAIN told'[c] : told'[c][i] \notin Terminal
    BY <1>1 DEF QueueInv, ToldInv
  <2>3. ASSUME NEW c \in Proc, NEW i \in DOMAIN Queue'
        PROVE  /\ Queue'[i] = Record("Started", c) => told'[c] = <<>>
               /\ Queue'[i] = Record("Chunk", c) => Announced(c)'
    BY <1>2, <1>3 DEF QueueInv, ToldInv
  <2> QED
    BY <2>1, <2>2, <2>3 DEF ToldInv
<1>8. OutstandingIsExact'
  <2>1. Open' = Open \ {p} /\ p \in Open
    BY <1>1 DEF Open
  <2>2. Cardinality(Open') = Cardinality(Open) - 1
    BY <2>1, CountIs, FS_RemoveElement DEF QueueInv
  <2>3. Extra' = Extra
    BY DEF Extra
  <2> QED
    BY <2>2, <2>3, <1>4, CountIs DEF QueueInv, OutstandingIsExact, Open, Extra
<1> QED
  BY <1>3, <1>4, <1>5, <1>6, <1>7, <1>8 DEF QueueInv

\* A child that is new has no records, and is then open.
LEMMA SpawnQueue ==
  ASSUME IInv, NEW p \in Proc, Spawn(p)
  PROVE  /\ QueueInv' /\ UNCHANGED told
         /\ \A c \in Proc : (Announced(c) => Announced(c)') /\ (Silent(c) => Silent(c)')
<1>1. /\ processes' = processes \cup {p} /\ fate[p] = "new" /\ fate'[p] = "open"
      /\ (\A c \in Proc \ {p} : fate'[c] = fate[c]) /\ fate' \in [Proc -> Fates]
  BY DEF Spawn, IInv, QueueInv, QueueTypes, Fates
<1>2. UNCHANGED <<pending, calling, told, ready, shuttingDown>>
  BY DEF Spawn, editorVars
<1>3. Queue' = Queue
  BY <1>2 DEF Queue
<1>4. \A c \in Proc : (Announced(c)' <=> Announced(c)) /\ (Silent(c)' <=> Silent(c))
  BY <1>2, <1>3 DEF Announced, Silent
<1>5. Silent(p)
  BY <1>1 DEF IInv, LoopInv, Local, FreshInv
<1>6. QueueTypes'
  BY <1>1, <1>2 DEF IInv, QueueInv, QueueTypes
<1>7. OrderInv'
  BY <1>3 DEF IInv, QueueInv, OrderInv
<1>8. EndInv'
  <2>1. \A c \in processes' : fate'[c] = "open"
    BY <1>1 DEF IInv, QueueInv, EndInv, QueueTypes
  <2>2. ASSUME NEW c \in Proc, fate'[c] = "open", c \notin processes'
        PROVE  \E i \in DOMAIN Queue' : Queue'[i].process = c /\ Queue'[i].kind \in Terminal
    BY <2>2, <1>1, <1>3 DEF IInv, QueueInv, EndInv
  <2>3. ASSUME NEW i \in DOMAIN Queue'
        PROVE  /\ fate'[Queue'[i].process] \in {"open", "discarded"}
               /\ Queue'[i].kind \in Terminal =>
                     fate'[Queue'[i].process] = "open" /\ Queue'[i].process \notin processes'
    BY <1>1, <1>3, <1>5, QueueFacts DEF IInv, QueueInv, EndInv, Silent
  <2>4. calling' /\ Head(pending').kind \in Terminal => fate'[Head(pending').process] \notin {"new", "open"}
    <3>1. calling => Head(pending).process \in Proc
      BY TailFacts, RecordFacts DEF IInv, QueueInv, QueueTypes
    <3> QED
      BY <3>1, <1>1, <1>2 DEF IInv, QueueInv, EndInv
  <2> QED
    BY <2>1, <2>2, <2>3, <2>4 DEF EndInv
<1>9. ToldInv'
  <2>1. CallbacksInOrder'
    BY <1>2 DEF IInv, QueueInv, ToldInv, CallbacksInOrder
  <2>2. \A c \in Proc : fate'[c] \in {"new", "open", "discarded"} =>
            \A i \in DOMAIN told'[c] : told'[c][i] \notin Terminal
    BY <1>1, <1>2 DEF IInv, QueueInv, ToldInv
  <2>3. ASSUME NEW c \in Proc, NEW i \in DOMAIN Queue'
        PROVE  /\ Queue'[i] = Record("Started", c) => told'[c] = <<>>
               /\ Queue'[i] = Record("Chunk", c) => Announced(c)'
    BY <1>2, <1>3, <1>4 DEF IInv, QueueInv, ToldInv
  <2> QED
    BY <2>1, <2>2, <2>3 DEF ToldInv
<1>10. OutstandingIsExact'
  <2>1. Open' = Open \cup {p} /\ p \notin Open /\ outstanding' = outstanding + 1
    BY <1>1 DEF Open, Spawn
  <2>2. Cardinality(Open') = Cardinality(Open) + 1
    BY <2>1, CountIs, FS_AddElement DEF IInv, QueueInv
  <2>3. Extra' = Extra
    BY <1>2 DEF Extra
  <2> QED
    BY <2>1, <2>2, <2>3, <1>6, CountIs DEF IInv, QueueInv, OutstandingIsExact, Open, Extra
<1> QED
  BY <1>2, <1>4, <1>6, <1>7, <1>8, <1>9, <1>10 DEF QueueInv

\* The editor thread takes the records of the loop thread.
LEMMA DrainQueue ==
  ASSUME IInv, Drain
  PROVE  /\ QueueInv' /\ UNCHANGED told
         /\ \A c \in Proc : (Announced(c) => Announced(c)') /\ (Silent(c) => Silent(c)')
<1>1. /\ pending = <<>> /\ pending' = ready /\ ready' = <<>> /\ ~shuttingDown
      /\ UNCHANGED <<calling, told, fate, processes, outstanding, shuttingDown>>
  BY DEF Drain, InEditor
<1>2. Queue' = Queue /\ ~calling
  BY <1>1, QueueDrained DEF IInv, QueueInv
<1>3. QueueTypes'
  BY <1>1, <1>2 DEF IInv, QueueInv, QueueTypes
<1>4. OutstandingIsExact'
  BY <1>1, <1>2 DEF IInv, QueueInv, OutstandingIsExact
<1>5. ~calling'
  BY <1>1, <1>2
<1> QED
  BY <1>1, <1>2, <1>3, <1>4, <1>5, SameQueue DEF IInv

\* A callback has returned, and the last one of a child uncounts it.
LEMMA ReturnQueue ==
  ASSUME IInv, CallbackReturns
  PROVE  /\ QueueInv' /\ UNCHANGED told
         /\ \A c \in Proc : (Announced(c) => Announced(c)') /\ (Silent(c) => Silent(c)')
<1>1. /\ calling /\ calling' = FALSE /\ pending' = Tail(pending) /\ ~shuttingDown
      /\ outstanding' = outstanding - (IF Head(pending).kind \in Terminal THEN 1 ELSE 0)
      /\ UNCHANGED <<told, fate, processes, ready, shuttingDown>>
  BY DEF CallbackReturns, InEditor
<1>2. Queue' = Queue
  BY <1>1, QueueReturned DEF IInv, QueueInv
<1>3. QueueTypes'
  BY <1>1, TailFacts DEF IInv, QueueInv, QueueTypes
<1>4. OutstandingIsExact'
  <2>1. Extra' = 0 /\ Open' = Open /\ outstanding' = outstanding - Extra
    BY <1>1 DEF Extra, Open
  <2>2. outstanding' = Cardinality(Open) /\ Cardinality(Open) \in Nat
    BY <2>1, CountIs DEF IInv, QueueInv
  <2>3. outstanding' = Cardinality(Open') + Extra'
    BY <2>1, <2>2
  <2> QED
    BY <2>3 DEF OutstandingIsExact, Open, Extra
<1> QED
  BY <1>1, <1>2, <1>3, <1>4, SameQueue DEF IInv

\* The destructor comes when no batch is being worked through.
LEMMA DestroyQueue ==
  ASSUME IInv, Destroy
  PROVE  /\ QueueInv' /\ UNCHANGED told
         /\ \A c \in Proc : (Announced(c) => Announced(c)') /\ (Silent(c) => Silent(c)')
<1>1. /\ pending = <<>> /\ ~calling
      /\ UNCHANGED <<pending, calling, told, fate, processes, ready, outstanding>>
  BY DEF Destroy, editorVars
<1>2. Queue' = Queue
  BY <1>1 DEF Queue
<1>3. QueueTypes' /\ OutstandingIsExact' /\ ~calling'
  BY <1>1 DEF IInv, QueueInv, QueueTypes, OutstandingIsExact
<1> QED
  BY <1>1, <1>2, <1>3, SameQueue DEF IInv

\* The owner of the first record hears of it.
LEMMA CallbackQueue ==
  ASSUME IInv, RunCallback
  PROVE  /\ QueueInv'
         /\ \A c \in Proc : Announced(c) => Announced(c)'
         /\ \A c \in Proc : Silent(c) => Silent(c)' /\ fate'[c] = fate[c]
         /\ \A c \in Proc : fate[c] = "new" <=> fate'[c] = "new"
<1> DEFINE r == Head(pending)
<1>1. /\ ~calling /\ pending # <<>> /\ calling' = TRUE /\ ~shuttingDown
      /\ told' = [told EXCEPT ![r.process] = Append(@, r.kind)]
      /\ fate' = IF r.kind \in Terminal THEN [fate EXCEPT ![r.process] = FateOf[r.kind]] ELSE fate
      /\ UNCHANGED <<pending, processes, outstanding, ready, shuttingDown>>
  BY DEF RunCallback, InEditor, sharedVars
<1>2. /\ Queue \in Seq(Records) /\ Queue # <<>> /\ r = Queue[1] /\ Queue' = Tail(Queue)
  BY <1>1, QueueShifted, QueueFacts DEF IInv, QueueInv
<1>3. /\ 1 \in DOMAIN Queue /\ Queue' \in Seq(Records)
      /\ \A i \in DOMAIN Queue' :
            i \in Nat /\ i > 0 /\ i + 1 \in DOMAIN Queue /\ Queue'[i] = Queue[i + 1]
      /\ \A i \in DOMAIN Queue : i = 1 \/ (i - 1 \in DOMAIN Queue' /\ Queue'[i - 1] = Queue[i])
  BY <1>2, TailFacts
<1>4. PICK p \in Proc, k \in Kinds : r = Record(k, p) /\ r.process = p /\ r.kind = k
  BY <1>2, <1>3, QueueFacts DEF IInv
<1>5. /\ told'[p] = Append(told[p], k) /\ \A c \in Proc \ {p} : told'[c] = told[c]
      /\ told' \in [Proc -> Seq(Kinds)]
  <2>1. told \in [Proc -> Seq(Kinds)] /\ Append(told[p], k) \in Seq(Kinds)
    BY <1>4, AppendProperties DEF IInv, QueueInv, QueueTypes
  <2> QED
    BY <2>1, <1>1, <1>4
<1>6. /\ DOMAIN told'[p] = DOMAIN told[p] \cup {Len(told[p]) + 1}
      /\ \A i \in DOMAIN told[p] : i < Len(told[p]) + 1 /\ i \in Nat /\ told'[p][i] = told[p][i]
      /\ told'[p][Len(told[p]) + 1] = k
      /\ Len(told[p]) \in Nat /\ told[p] \in Seq(Kinds) /\ told'[p] # <<>>
      /\ Len(told'[p]) = Len(told[p]) + 1
      /\ told[p] # <<>> => 1 \in DOMAIN told[p]
  <2>1. told[p] \in Seq(Kinds)
    BY DEF IInv, QueueInv, QueueTypes
  <2> QED
    BY <2>1, <1>5, AppendFacts, AppendProperties, TailFacts
<1>7. /\ fate \in [Proc -> Fates] /\ fate' \in [Proc -> Fates] /\ fate[p] \in {"open", "discarded"}
      /\ \A c \in Proc \ {p} : fate'[c] = fate[c]
      /\ k \notin Terminal => fate' = fate
      /\ k \in Terminal => fate[p] = "open" /\ p \notin processes
                            /\ fate'[p] \in {"completed", "cancelled", "failed"}
  <2>1. k \in Terminal => FateOf[k] \in {"completed", "cancelled", "failed"}
    BY DEF FateOf, Terminal
  <2> QED
    BY <2>1, <1>1, <1>2, <1>3, <1>4 DEF IInv, QueueInv, QueueTypes, EndInv, Fates
<1>8. \A i \in DOMAIN Queue : i # 1 /\ Queue[i].process = p =>
          Queue[i].kind # "Started" /\ k \notin Terminal
  <2>1. \A i \in DOMAIN Queue : i # 1 => 1 < i
    BY <1>2, LenProperties
  <2> QED
    BY <2>1, <1>2, <1>3, <1>4 DEF IInv, QueueInv, OrderInv
<1>9. k = "Started" => told[p] = <<>>
  BY <1>2, <1>3, <1>4 DEF IInv, QueueInv, ToldInv
<1>10. k = "Chunk" => told[p] # <<>> /\ told[p][1] = "Started"
  <2>1. k = "Chunk" => Announced(p)
    BY <1>2, <1>3, <1>4 DEF IInv, QueueInv, ToldInv
  <2>2. \A i \in DOMAIN Queue : Queue[i] = Record("Started", p) => i = 1 /\ k = "Started"
    BY <1>2, <1>4, <1>8, RecordFacts
  <2> QED
    BY <2>1, <2>2 DEF Announced
<1>11. \A c \in Proc : Announced(c) => Announced(c)'
  <2> SUFFICES ASSUME NEW c \in Proc, Announced(c)
               PROVE  Announced(c)'
    OBVIOUS
  <2>1. CASE told[c] # <<>> /\ told[c][1] = "Started"
    BY <2>1, <1>5, <1>6 DEF Announced
  <2>2. ASSUME NEW i \in DOMAIN Queue, Queue[i] = Record("Started", c)
        PROVE  Announced(c)'
    <3>1. CASE i = 1
      <4>1. c = p /\ k = "Started"
        BY <3>1, <2>2, <1>2, <1>4, RecordFacts
      <4>2. told'[c] # <<>> /\ told'[c][1] = "Started"
        BY <4>1, <1>6, <1>9, EmptySeq
      <4> QED
        BY <4>2 DEF Announced
    <3>2. CASE i # 1
      BY <3>2, <2>2, <1>3 DEF Announced
    <3> QED
      BY <3>1, <3>2
  <2> QED
    BY <2>1, <2>2 DEF Announced
<1>12. \A c \in Proc : Silent(c) => Silent(c)' /\ fate'[c] = fate[c]
  <2> SUFFICES ASSUME NEW c \in Proc, Silent(c)
               PROVE  Silent(c)' /\ fate'[c] = fate[c]
    OBVIOUS
  <2>1. c # p
    BY <1>2, <1>3, <1>4 DEF Silent
  <2>2. told'[c] = <<>> /\ fate'[c] = fate[c]
    BY <2>1, <1>5, <1>7 DEF Silent
  <2> QED
    BY <2>2, <1>3 DEF Silent
<1>13. QueueTypes'
  BY <1>1, <1>5, <1>7 DEF IInv, QueueInv, QueueTypes
<1>14. OrderInv'
  <2> SUFFICES ASSUME NEW i \in DOMAIN Queue', NEW j \in DOMAIN Queue', i < j,
                      Queue'[i].process = Queue'[j].process
               PROVE  Queue'[j].kind # "Started" /\ Queue'[i].kind \notin Terminal
    BY DEF OrderInv
  <2>1. i + 1 < j + 1 /\ i + 1 \in DOMAIN Queue /\ j + 1 \in DOMAIN Queue
    BY <1>3
  <2> QED
    BY <2>1, <1>3 DEF IInv, QueueInv, OrderInv
<1>15. EndInv'
  <2>1. \A c \in processes' : fate'[c] = "open"
    BY <1>1, <1>7 DEF IInv, QueueInv, EndInv, QueueTypes
  <2>2. ASSUME NEW c \in Proc, fate'[c] = "open", c \notin processes'
        PROVE  \E i \in DOMAIN Queue' : Queue'[i].process = c /\ Queue'[i].kind \in Terminal
    <3>1. fate[c] = "open" /\ (c = p => k \notin Terminal)
      BY <2>2, <1>7
    <3>2. PICK i \in DOMAIN Queue : Queue[i].process = c /\ Queue[i].kind \in Terminal
      BY <2>2, <3>1, <1>1 DEF IInv, QueueInv, EndInv
    <3>3. i # 1
      BY <3>1, <3>2, <1>2, <1>4
    <3> QED
      BY <3>2, <3>3, <1>3
  <2>3. ASSUME NEW i \in DOMAIN Queue'
        PROVE  /\ fate'[Queue'[i].process] \in {"open", "discarded"}
               /\ Queue'[i].kind \in Terminal =>
                     fate'[Queue'[i].process] = "open" /\ Queue'[i].process \notin processes'
    <3>1. i + 1 \in DOMAIN Queue /\ i + 1 # 1 /\ Queue'[i] = Queue[i + 1]
      BY <1>3
    <3>2. Queue[i + 1].process = p => k \notin Terminal
      BY <3>1, <1>8
    <3>3. fate'[Queue[i + 1].process] = fate[Queue[i + 1].process]
      BY <3>1, <3>2, <1>7, QueueFacts DEF IInv
    <3> QED
      BY <3>1, <3>3, <1>1 DEF IInv, QueueInv, EndInv
  <2>4. calling' /\ Head(pending').kind \in Terminal => fate'[Head(pending').process] \notin {"new", "open"}
    BY <1>1, <1>4, <1>7
  <2> QED
    BY <2>1, <2>2, <2>3, <2>4 DEF EndInv
<1>16. ToldInv'
  <2>1. \A i \in DOMAIN told[p] : told[p][i] \notin Terminal
    BY <1>7 DEF IInv, QueueInv, ToldInv
  <2>2. CallbacksInOrder'
    <3> SUFFICES ASSUME NEW c \in Proc, NEW i \in DOMAIN told'[c]
                 PROVE  /\ told'[c][i] = "Started" => i = 1
                        /\ told'[c][i] \in Terminal => i = Len(told'[c])
                        /\ told'[c][i] = "Chunk" => told'[c][1] = "Started"
      BY DEF CallbacksInOrder
    <3>1. CASE c # p
      BY <3>1, <1>5 DEF IInv, QueueInv, ToldInv, CallbacksInOrder
    <3>2. CASE c = p /\ i \in DOMAIN told[p]
      <4>1. told'[p][i] = told[p][i] /\ told'[p][1] = told[p][1]
        BY <3>2, <1>6
      <4> QED
        BY <4>1, <3>2, <2>1 DEF IInv, QueueInv, ToldInv, CallbacksInOrder
    <3>3. CASE c = p /\ i = Len(told[p]) + 1
      <4>1. told'[c][i] = k
        BY <3>3, <1>6
      <4>2. k = "Started" => i = 1
        BY <3>3, <1>6, <1>9, EmptySeq
      <4>3. k = "Chunk" => told'[c][1] = "Started"
        BY <3>3, <1>6, <1>10
      <4> QED
        BY <4>1, <4>2, <4>3, <3>3, <1>6
    <3> QED
      BY <3>1, <3>2, <3>3, <1>6
  <2>3. ASSUME NEW c \in Proc, fate'[c] \in {"new", "open", "discarded"}, NEW i \in DOMAIN told'[c]
        PROVE  told'[c][i] \notin Terminal
    <3>1. CASE c # p
      BY <3>1, <2>3, <1>5, <1>7 DEF IInv, QueueInv, ToldInv
    <3>2. CASE c = p
      BY <3>2, <2>1, <2>3, <1>6, <1>7
    <3> QED
      BY <3>1, <3>2
  <2>4. ASSUME NEW c \in Proc, NEW i \in DOMAIN Queue'
        PROVE  /\ Queue'[i] = Record("Started", c) => told'[c] = <<>>
               /\ Queue'[i] = Record("Chunk", c) => Announced(c)'
    <3>1. i + 1 \in DOMAIN Queue /\ i + 1 # 1 /\ Queue'[i] = Queue[i + 1]
      BY <1>3
    <3>2. Queue[i + 1] = Record("Started", c) => c # p
      BY <3>1, <1>8, RecordFacts
    <3> QED
      BY <3>1, <3>2, <1>5, <1>11 DEF IInv, QueueInv, ToldInv
  <2> QED
    BY <2>2, <2>3, <2>4 DEF ToldInv
<1>17. OutstandingIsExact'
  <2>1. CASE k \in Terminal
    <3>1. Open' = Open \ {p} /\ p \in Open /\ Extra' = 1 /\ Extra = 0
      BY <2>1, <1>1, <1>4, <1>7 DEF Open, Extra
    <3>2. Cardinality(Open') = Cardinality(Open) - 1
      BY <3>1, CountIs, FS_RemoveElement DEF IInv, QueueInv
    <3> QED
      BY <3>1, <3>2, <1>1, <1>13, CountIs DEF IInv, QueueInv, OutstandingIsExact, Open, Extra
  <2>2. CASE k \notin Terminal
    <3>1. Open' = Open /\ Extra' = 0 /\ Extra = 0
      BY <2>2, <1>1, <1>4, <1>7 DEF Open, Extra
    <3> QED
      BY <3>1, <1>1, <1>13, CountIs DEF IInv, QueueInv, OutstandingIsExact, Open, Extra
  <2> QED
    BY <2>1, <2>2
<1>18. \A c \in Proc : fate[c] = "new" <=> fate'[c] = "new"
  BY <1>7
<1> QED
  BY <1>11, <1>12, <1>13, <1>14, <1>15, <1>16, <1>17, <1>18 DEF QueueInv

\* When the thread has been joined, the ends that were not drained are uncounted.
LEMMA JoinedQueue ==
  ASSUME IInv, Joined
  PROVE  /\ QueueInv' /\ UNCHANGED told
         /\ \A c \in Proc : Silent(c) => Silent(c)'
         /\ \A c \in Proc : fate[c] = "new" <=> fate'[c] = "new"
<1> DEFINE ends == {i \in DOMAIN ready : ready[i].kind \in Terminal}
           over == {ready[i].process : i \in ends}
<1>1. /\ looper = "exit" /\ ready' = <<>>
      /\ outstanding' = outstanding - Cardinality(ends)
      /\ fate' = [c \in Proc |-> IF c \in over THEN "discarded" ELSE fate[c]]
      /\ UNCHANGED <<pending, calling, told, processes, shuttingDown>>
  <2>1. \A c \in Proc : (\E r \in Range(ready) : r.process = c /\ r.kind \in Terminal) <=> c \in over
    BY DEF Range
  <2> QED
    BY <2>1 DEF Joined, editorVars
<1>2. pending = <<>> /\ ~calling
  BY <1>1 DEF IInv, QueueInv, QueueTypes, LoopInv, LoopTypes, HandleTypes
<1>3. Queue = ready /\ Queue' = <<>>
  BY <1>1, <1>2, QueueDropped DEF IInv, QueueInv
<1>4. \A c \in Proc : Silent(c) => Silent(c)'
  BY <1>1, <1>3 DEF Silent
<1>5. /\ over \in SUBSET Proc /\ fate' \in [Proc -> Fates] /\ \A c \in over : fate[c] = "open"
      /\ \A c \in Proc : fate[c] = "open" /\ c \notin processes => c \in over
      /\ over \cap processes = {}
  BY <1>1, <1>3, QueueFacts DEF IInv, QueueInv, EndInv, QueueTypes, Fates
<1>6. \A c \in Proc : fate[c] = "new" <=> fate'[c] = "new"
  BY <1>1, <1>5
<1>7. QueueTypes'
  BY <1>1, <1>2, <1>5 DEF IInv, QueueInv, QueueTypes
<1>8. OrderInv'
  BY <1>3 DEF OrderInv
<1>9. EndInv'
  BY <1>1, <1>2, <1>3, <1>5 DEF IInv, QueueInv, QueueTypes, EndInv
<1>10. ToldInv'
  BY <1>1, <1>3, <1>5 DEF IInv, QueueInv, ToldInv, CallbacksInOrder
<1>11. OutstandingIsExact'
  <2>1. Cardinality(over) = Cardinality(ends)
    <3> DEFINE f == [i \in ends |-> ready[i].process]
    <3>1. ready \in Seq(Records) /\ DOMAIN ready = 1..Len(ready) /\ Len(ready) \in Nat
      BY LenProperties DEF IInv, QueueInv, QueueTypes
    <3>2. \A i, j \in ends : ready[i].process = ready[j].process => i = j
      <4>1. \A i, j \in ends : i < j => ready[i].process # ready[j].process
        BY <1>3 DEF IInv, QueueInv, OrderInv
      <4> QED
        BY <4>1, <3>1
    <3>3. f \in Bijection(ends, over)
      BY <3>2, Fun_IsBij
    <3>4. IsFiniteSet(ends)
      <4>1. IsFiniteSet(1..Len(ready)) /\ ends \subseteq 1..Len(ready)
        BY <3>1, FS_Interval
      <4> QED
        BY <4>1, FS_Subset
    <3> QED
      BY <3>3, <3>4, FS_Bijection DEF ExistsBijection
  <2>2. Open' = Open \ over /\ over \subseteq Open /\ Extra' = Extra
    BY <1>1, <1>2, <1>5 DEF Open, Extra
  <2>3. Cardinality(Open') = Cardinality(Open) - Cardinality(over)
    <3>1. Open \cap over = over /\ IsFiniteSet(Open) /\ IsFiniteSet(over)
      BY <2>2, <1>5, CountIs, FiniteCount DEF IInv, QueueInv
    <3>2. Cardinality(Open \ over) = Cardinality(Open) - Cardinality(Open \cap over)
      BY <3>1, FS_Difference
    <3> QED
      BY <3>1, <3>2, <2>2
  <2> QED
    BY <2>1, <2>2, <2>3, <1>1, <1>7, CountIs, FiniteCount
       DEF IInv, QueueInv, OutstandingIsExact, Open, Extra
<1> QED
  BY <1>1, <1>4, <1>6, <1>7, <1>8, <1>9, <1>10, <1>11 DEF QueueInv

-----------------------------------------------------------------------------
(* The loop thread: what a step leaves alone.                              *)

States == {"none", "open", "closing", "closed"}
Handles == Proc \X (Pipe \cup {"child"})

\* The fields after some of them are set.
LEMMA WithFacts ==
  ASSUME NEW q \in [Fields -> BOOLEAN], NEW F
  PROVE  /\ With(q, F) \in [Fields -> BOOLEAN]
         /\ With(q, F).started = ("started" \in F \/ q.started)
         /\ With(q, F).exited = ("exited" \in F \/ q.exited)
         /\ With(q, F).handleClosed = ("handleClosed" \in F \/ q.handleClosed)
         /\ With(q, F).finished = ("finished" \in F \/ q.finished)
         /\ With(q, F).suppress = ("suppress" \in F \/ q.suppress)
         /\ With(q, F).exception = ("exception" \in F \/ q.exception)
<1>1. With(q, F) \in [Fields -> BOOLEAN] /\ \A f \in Fields : With(q, F)[f] = (f \in F \/ q[f])
  BY DEF With
<1> QED
  BY <1>1 DEF Fields

\* All fields but those in F are as before.
LEMMA WithSame ==
  ASSUME NEW q \in [Fields -> BOOLEAN], NEW F
  PROVE  /\ "started" \notin F => With(q, F).started = q.started
         /\ "exited" \notin F => With(q, F).exited = q.exited
         /\ "finished" \notin F => With(q, F).finished = q.finished
         /\ "suppress" \notin F => With(q, F).suppress = q.suppress
         /\ "exception" \notin F => With(q, F).exception = q.exception
         /\ "handleClosed" \notin F => With(q, F).handleClosed = q.handleClosed
<1>1. /\ q.started \in BOOLEAN /\ q.exited \in BOOLEAN /\ q.finished \in BOOLEAN
      /\ q.suppress \in BOOLEAN /\ q.exception \in BOOLEAN /\ q.handleClosed \in BOOLEAN
  BY DEF Fields
<1> QED
  BY <1>1, WithFacts

\* The fields of a child that has been started, and of one that has exited.
LEMMA StartedOrExited ==
  ASSUME NEW q \in [Fields -> BOOLEAN], NEW F, "finished" \notin F
  PROVE  /\ With(q, F) \in [Fields -> BOOLEAN] /\ With(q, F).finished = q.finished
         /\ "started" \in F /\ "exited" \notin F =>
               With(q, F).started /\ With(q, F).exited = q.exited
         /\ "handleClosed" \notin F => With(q, F).handleClosed = q.handleClosed
         /\ "exited" \in F => With(q, F).exited
BY WithFacts, WithSame

\* The children a step is not about.
Apart(c) ==
    /\ proc'[c] = proc[c] /\ handle'[c] = handle[c] /\ pipe'[c] = pipe[c]
    /\ requests'[c] = requests[c]
    /\ child[c] = "dead" => child'[c] = "dead"
    /\ stopped[c] => stopped'[c]
    /\ c \in processes' <=> c \in processes
    /\ fate'[c] = "new" <=> fate[c] = "new"

\* What is known of a child survives every step that is not about it.
LEMMA Elsewhere ==
  ASSUME NEW c \in Proc, Local(c), Apart(c), Silent(c) => Silent(c)',
         (Announced(c) => Announced(c)') \/ Shut(c),
         StartPending(c)' => StartPending(c), c \in Shutting' => c \in Shutting,
         looper' = looper \/ looper' # "exit" \/ Shut(c)
  PROVE  Local(c)'
<1>1. ChildInv(c)'
  BY DEF Local, Apart, ChildInv, Shut
<1>2. FreshInv(c)'
  <2> SUFFICES ASSUME fate'[c] = "new" \/ StartPending(c)'
               PROVE  /\ ~proc'[c].started
                      /\ proc'[c].exited \/ proc'[c].handleClosed => proc'[c].finished
                      /\ handle'[c] = "none" /\ \A s \in Pipe : pipe'[c][s] = "none"
                      /\ c \notin Shutting' /\ Silent(c)'
    BY DEF FreshInv
  <2> QED
    BY DEF Local, Apart, FreshInv
<1> QED
  BY <1>1, <1>2 DEF Local

\* A record that is ready is in the queue.
LEMMA ReadyIsQueued ==
  ASSUME QueueTypes
  PROVE  \A i \in DOMAIN ready : \E j \in DOMAIN Queue : Queue[j] = ready[i]
<1>1. Current \in Seq(Records) /\ ready \in Seq(Records) /\ Queue = Current \o ready
  BY QueueIsSeq DEF QueueTypes
<1>2. /\ DOMAIN Queue = 1..(Len(Current) + Len(ready)) /\ DOMAIN ready = 1..Len(ready)
      /\ Len(Current) \in Nat /\ Len(ready) \in Nat
      /\ \A i \in 1..(Len(Current) + Len(ready)) :
            Queue[i] = IF i <= Len(Current) THEN Current[i] ELSE ready[i - Len(Current)]
  BY <1>1, ConcatProperties, LenProperties
<1>3. \A i \in DOMAIN ready : i + Len(Current) \in DOMAIN Queue /\ Queue[i + Len(Current)] = ready[i]
  BY <1>2
<1> QED
  BY <1>3

\* An end of p of kind k is what happened.
Truthful(k, p) ==
    /\ k = "Completed" => ~proc[p].exception /\ child[p] = "dead"
    /\ k = "Cancelled" => stopped[p] /\ ~proc[p].exception
    /\ k = "Failed" => proc[p].exception

\* A record stays true: its child has finished, so that it cannot fail any more.
LEMMA StillTruthful ==
  ASSUME IInv,
         \/ ready' = ready \/ ready' = <<>>
         \/ \E k \in Kinds, p \in Proc : ready' = Append(ready, Record(k, p)) /\ Truthful(k, p)',
         \A c \in Proc : /\ proc[c].finished => /\ proc'[c].exception = proc[c].exception
                                                /\ child[c] = "dead" => child'[c] = "dead"
                         /\ stopped[c] => stopped'[c]
  PROVE  EndIsTruthful'
<1>1. ready \in Seq(Records)
      /\ \A i \in DOMAIN ready : ready[i] \in Records /\ ready[i].process \in Proc
  BY ElementOfSeq, LenProperties, RecordFacts DEF IInv, QueueInv, QueueTypes
<1>2. ASSUME NEW k \in Kinds, NEW p \in Proc, NEW i \in DOMAIN ready, ready[i] = Record(k, p)
      PROVE  Truthful(k, p)'
  <2>1. ready[i].kind = k /\ ready[i].process = p
    BY <1>2, RecordFacts
  <2>2. Truthful(k, p)
    BY <2>1 DEF IInv, LoopInv, EndIsTruthful, Range, Truthful
  <2>3. k \in Terminal => proc[p].finished
    BY <2>1, ReadyIsQueued DEF IInv, QueueInv, EndInv, LoopInv, Local, ChildInv
  <2> QED
    BY <2>2, <2>3 DEF Terminal, Truthful
<1>3. ASSUME NEW k \in Kinds, NEW p \in Proc, NEW i \in DOMAIN ready', ready'[i] = Record(k, p)
      PROVE  Truthful(k, p)'
  <2>1. CASE i \in DOMAIN ready /\ ready'[i] = ready[i]
    BY <2>1, <1>2, <1>3
  <2>2. ASSUME NEW h \in Kinds, NEW c \in Proc, ready' = Append(ready, Record(h, c)), Truthful(h, c)'
        PROVE  Truthful(k, p)'
    <3>1. CASE i = Len(ready) + 1
      <4>1. h = k /\ c = p
        BY <3>1, <2>2, <1>1, <1>3, AppendFacts, RecordFacts
      <4> QED
        BY <4>1, <2>2
    <3>2. CASE i # Len(ready) + 1
      BY <3>2, <2>1, <2>2, <1>1, AppendFacts, RecordFacts
    <3> QED
      BY <3>1, <3>2
  <2> QED
    BY <2>1, <2>2
<1>4. ready' \in Seq(Records)
  <2>1. \A k \in Kinds, p \in Proc : Append(ready, Record(k, p)) \in Seq(Records)
    BY <1>1, AppendProperties, RecordFacts
  <2>2. <<>> \in Seq(Records)
    BY EmptySeq
  <2>3. CASE \E k \in Kinds, p \in Proc : ready' = Append(ready, Record(k, p))
    BY <2>1, <2>3
  <2> QED
    BY <2>2, <2>3, <1>1
<1>5. \A i \in DOMAIN ready' : \E k \in Kinds, p \in Proc :
         ready'[i] = Record(k, p) /\ ready'[i].kind = k /\ ready'[i].process = p
  BY <1>4, ElementOfSeq, LenProperties, RecordFacts
<1>6. \A i \in DOMAIN ready' :
         /\ ready'[i].kind = "Completed" => ~proc'[ready'[i].process].exception
                                            /\ child'[ready'[i].process] = "dead"
         /\ ready'[i].kind = "Cancelled" => stopped'[ready'[i].process]
                                            /\ ~proc'[ready'[i].process].exception
         /\ ready'[i].kind = "Failed" => proc'[ready'[i].process].exception
  BY <1>3, <1>5 DEF Truthful
<1> QED
  BY <1>6 DEF EndIsTruthful, Range

\* Commands are taken from the front, and none is added.
LEMMA CommandsKept ==
  ASSUME IInv, commands' = commands \/ (commands # <<>> /\ commands' = Tail(commands)),
         \A c \in Proc : /\ fate'[c] = "new" => fate[c] = "new"
                         /\ stopped[c] => stopped'[c],
         toStop' \subseteq toStop \cup processes
  PROVE  CommandInv' /\ commands' \in Seq(Orders) /\ \A c \in Proc : StartPending(c)' => StartPending(c)
<1>1. commands \in Seq(Orders) /\ \A i \in DOMAIN commands : commands[i].process \in Proc
  BY ElementOfSeq, LenProperties, RecordFacts DEF IInv, LoopInv, LoopTypes, HandleTypes
<1>2. CASE commands' = commands
  BY <1>1, <1>2 DEF IInv, LoopInv, LoopTypes, HandleTypes, CommandInv, StartPending, QueueInv, QueueTypes, EndInv
<1>3. CASE commands # <<>> /\ commands' = Tail(commands)
  <2>1. /\ commands' \in Seq(Orders)
        /\ \A i \in DOMAIN commands' : i \in Nat /\ i + 1 \in DOMAIN commands /\ commands'[i] = commands[i + 1]
    BY <1>1, <1>3, TailFacts
  <2>2. \A i \in DOMAIN commands' :
            /\ fate'[commands'[i].process] # "new"
            /\ commands'[i].kind = "Terminate" => stopped'[commands'[i].process]
    <3> SUFFICES ASSUME NEW i \in DOMAIN commands'
                 PROVE  /\ fate'[commands'[i].process] # "new"
                        /\ commands'[i].kind = "Terminate" => stopped'[commands'[i].process]
      OBVIOUS
    <3>1. i + 1 \in DOMAIN commands /\ commands'[i] = commands[i + 1]
      BY <2>1
    <3>2. /\ commands[i + 1].process \in Proc /\ fate[commands[i + 1].process] # "new"
          /\ commands[i + 1].kind = "Terminate" => stopped[commands[i + 1].process]
      BY <3>1, <1>1 DEF IInv, LoopInv, CommandInv
    <3> QED
      BY <3>1, <3>2
  <2>3. \A i, j \in DOMAIN commands' :
            commands'[j].kind = "Start" /\ commands'[i].process = commands'[j].process => j <= i
    <3> SUFFICES ASSUME NEW i \in DOMAIN commands', NEW j \in DOMAIN commands',
                        commands'[j].kind = "Start", commands'[i].process = commands'[j].process
                 PROVE  j <= i
      OBVIOUS
    <3>1. j + 1 <= i + 1
      BY <2>1 DEF IInv, LoopInv, CommandInv
    <3> QED
      BY <3>1, <2>1
  <2>4. \A p \in toStop' : fate'[p] # "new"
    BY DEF IInv, LoopInv, LoopTypes, HandleTypes, CommandInv, QueueInv, QueueTypes, EndInv
  <2>5. \A c \in Proc : StartPending(c)' => StartPending(c)
    BY <2>1 DEF StartPending
  <2> QED
    BY <2>1, <2>2, <2>3, <2>4, <2>5 DEF CommandInv
<1> QED
  BY <1>2, <1>3

\* The child of the first command has no Start that is to come.
LEMMA FirstCommand ==
  ASSUME IInv, commands # <<>>, commands' = Tail(commands)
  PROVE  /\ Head(commands).process \in Proc /\ fate[Head(commands).process] # "new"
         /\ Head(commands) \in Orders
         /\ Head(commands).kind = "Terminate" => stopped[Head(commands).process]
         /\ Head(commands).kind = "Start" => StartPending(Head(commands).process)
         /\ \A p \in Proc : Head(commands).process = p => ~StartPending(p)'
<1>1. commands \in Seq(Orders)
  BY DEF IInv, LoopInv, LoopTypes, HandleTypes
<1>2. /\ 1 \in DOMAIN commands /\ Head(commands) = commands[1] /\ Head(commands) \in Orders
      /\ \A i \in DOMAIN commands' :
            i \in Nat /\ i > 0 /\ i + 1 \in DOMAIN commands /\ commands'[i] = commands[i + 1]
  BY <1>1, TailFacts
<1>3. ASSUME NEW p \in Proc, Head(commands).process = p
      PROVE  ~StartPending(p)'
  <2> SUFFICES ASSUME NEW i \in DOMAIN commands', commands'[i] = Record("Start", p)
               PROVE  FALSE
    BY DEF StartPending
  <2>1. i + 1 <= 1
    BY <1>2, <1>3, RecordFacts DEF IInv, LoopInv, CommandInv
  <2> QED
    BY <2>1, <1>2
<1>4. Head(commands).kind = "Start" => StartPending(Head(commands).process)
  BY <1>2, RecordFacts DEF StartPending
<1> QED
  BY <1>2, <1>3, <1>4, RecordFacts DEF IInv, LoopInv, CommandInv

-----------------------------------------------------------------------------
(* The loop thread: what a handler does to its child.                      *)

\* What a handler of p leaves alone.
Framed(p) ==
    /\ HandleTypes'
    /\ UNCHANGED <<pending, calling, told, shuttingDown>>
    /\ \A c \in Proc \ {p} : /\ pipe'[c] = pipe[c] /\ handle'[c] = handle[c]
                             /\ requests'[c] = requests[c] /\ child'[c] = child[c]
    /\ commands' = commands \/ (commands # <<>> /\ commands' = Tail(commands))
    /\ toStop' \subseteq toStop /\ looper' # "exit"
    /\ Shutting' \subseteq Shutting \cup {p}
    /\ UNCHANGED stopped \/ (shuttingDown /\ \A c \in Proc : stopped[c] => stopped'[c])

\* What it makes of p, whose fields become q.
Handled(p, q) ==
    /\ fate[p] # "new" /\ q \in [Fields -> BOOLEAN] /\ q.finished = proc[p].finished
    /\ handle'[p] = "open" => q.started /\ ~q.exited /\ ~q.handleClosed
    /\ handle'[p] = "closing" /\ q.handleClosed => ~q.started /\ stopped'[p]
    /\ proc[p].finished => /\ handle'[p] # "open" /\ Shut(p)' /\ q.handleClosed
                           /\ q.exception = proc[p].exception
                           /\ child[p] = "dead" => child'[p] = "dead"
    /\ pipe'[p]["in"] \in {"none", "closed"} => requests'[p] = <<>>
    /\ q.exited => child'[p] = "dead" \/ q.exception \/ stopped'[p] \/ q.suppress

\* Its Start is to come only when it is being killed before that.
Unstarted(p, q) ==
    StartPending(p)' =>
        /\ shuttingDown /\ StartPending(p)
        /\ ~q.started /\ (q.exited \/ q.handleClosed => q.finished \/ CanFinish(q, pipe'[p]))
        /\ handle'[p] = "none" /\ \A s \in Pipe : pipe'[p][s] = "none"
        /\ p \notin Shutting'

\* No pipe is opened.
Unopened(p) == \A s \in Pipe : pipe'[p][s] = "open" => pipe[p][s] = "open"

\* A handler that keeps all that but does not finish its child; it may have published
\* the start or a chunk.
LEMMA Kept ==
  ASSUME IInv, NEW p \in Proc, NEW q, Framed(p), Handled(p, q), Unstarted(p, q),
         StartPending(p)' => ~CanFinish(q, pipe'[p]) /\ (Silent(p) => Silent(p)'),
         proc' = [proc EXCEPT ![p] = q], UNCHANGED <<fate, processes>>,
         \/ ready' = ready
         \/ ready' = Append(ready, Record("Started", p))
         \/ ready' = Append(ready, Record("Chunk", p)),
         QueueInv', \A c \in Proc : Announced(c) => Announced(c)',
         \A c \in Proc \ {p} : Silent(c) => Silent(c)',
         Unopened(p) \/ Announced(p)'
  PROVE  IInv'
<1>2. /\ proc' \in [Proc -> [Fields -> BOOLEAN]] /\ proc'[p] = q
      /\ \A c \in Proc \ {p} : proc'[c] = proc[c]
  BY DEF IInv, LoopInv, LoopTypes, Handled
<1>3. LoopTypes'
  BY <1>2 DEF LoopTypes, Framed
<1>4. \A c \in Proc : stopped[c] => stopped'[c]
  BY DEF Framed
<1>5. CommandInv' /\ \A c \in Proc : StartPending(c)' => StartPending(c)
  BY <1>4, CommandsKept DEF Framed
<1>6. EndIsTruthful'
  <2>1. Truthful("Started", p)' /\ Truthful("Chunk", p)' /\ {"Started", "Chunk"} \subseteq Kinds
    BY DEF Truthful, Kinds
  <2>2. \A c \in Proc : /\ proc[c].finished => /\ proc'[c].exception = proc[c].exception
                                               /\ child[c] = "dead" => child'[c] = "dead"
                        /\ stopped[c] => stopped'[c]
    BY <1>2, <1>4 DEF Framed, Handled
  <2> QED
    BY <2>1, <2>2, StillTruthful
<1>7. ASSUME NEW c \in Proc \ {p}
      PROVE  Local(c)'
  <2>1. Apart(c)
    BY <1>2, <1>4 DEF Framed, Apart
  <2>2. c \in Shutting' => c \in Shutting
    BY DEF Framed
  <2>3. looper' # "exit"
    BY DEF Framed
  <2> QED
    BY <2>1, <2>2, <2>3, <1>5, Elsewhere DEF IInv, LoopInv
<1>8. ChildInv(p)'
  <2>1. ChildInv(p)
    BY DEF IInv, LoopInv, Local
  <2>2. \A s \in Pipe : pipe'[p][s] = "open" => Announced(p)'
    BY <2>1 DEF ChildInv, Unopened
  <2>3. looper' # "exit"
    BY DEF Framed
  <2> QED
    BY <2>1, <2>2, <2>3, <1>2 DEF ChildInv, Handled
<1>9. FreshInv(p)'
  BY <1>2 DEF IInv, LoopInv, Local, FreshInv, Handled, Unstarted
<1> QED
  BY <1>3, <1>5, <1>6, <1>7, <1>8, <1>9 DEF IInv, LoopInv, Local

\* A handler that keeps all that and publishes nothing.
LEMMA Stored ==
  ASSUME IInv, NEW p \in Proc, NEW q, Framed(p), Handled(p, q), Unopened(p), Store(p, q),
         Unstarted(p, q), StartPending(p)' => ~CanFinish(q, pipe'[p])
  PROVE  IInv'
<1>1. /\ QueueInv' /\ UNCHANGED <<fate, processes, ready>> /\ proc' = [proc EXCEPT ![p] = q]
      /\ \A c \in Proc : (Announced(c) => Announced(c)') /\ (Silent(c) => Silent(c)')
  BY QueueUntouched DEF IInv, Store, Framed
<1> QED
  BY <1>1, Kept

\* A handler that finishes it.
LEMMA Finished ==
  ASSUME IInv, NEW p \in Proc, NEW q, Framed(p), Handled(p, q), Unopened(p),
         CanFinish(q, pipe'[p]), proc' = [proc EXCEPT ![p] = With(q, {"finished"})], Report(p, q),
         Unstarted(p, q)
  PROVE  IInv'
<1> DEFINE qq == With(q, {"finished"})
<1>1. /\ qq \in [Fields -> BOOLEAN] /\ qq.finished
      /\ qq.exited = q.exited /\ qq.exception = q.exception /\ qq.suppress = q.suppress
      /\ qq.started = q.started /\ qq.handleClosed = q.handleClosed
  BY WithFacts DEF Handled, Fields
<1> HIDE DEF qq
<1>2. /\ proc' \in [Proc -> [Fields -> BOOLEAN]] /\ proc'[p] = qq
      /\ \A c \in Proc \ {p} : proc'[c] = proc[c]
  BY <1>1 DEF IInv, LoopInv, LoopTypes, qq
<1>3. p \in processes /\ ~proc[p].finished /\ q.exited
  BY DEF IInv, LoopInv, Local, ChildInv, Handled, CanFinish
<1>4. UNCHANGED <<pending, calling, told, shuttingDown>>
  BY DEF Framed
<1>5. /\ QueueInv'
      /\ \A c \in Proc : Announced(c) => Announced(c)'
      /\ \A c \in Proc \ {p} : Silent(c) => Silent(c)'
      /\ shuttingDown => (Silent(p) => Silent(p)')
      /\ \A c \in Proc : fate'[c] = "new" <=> fate[c] = "new"
      /\ processes' = processes \ {p}
      /\ ready' = ready \/ (ready' = Append(ready, Record(End(p, q), p)) /\ ~q.suppress /\ ~shuttingDown)
  <2>1. CASE q.suppress \/ shuttingDown
    <3>1. /\ processes' = processes \ {p} /\ fate' = [fate EXCEPT ![p] = "discarded"]
          /\ outstanding' = outstanding - 1 /\ UNCHANGED ready
      BY <2>1 DEF Report
    <3>2. \A c \in Proc : fate'[c] = "new" <=> fate[c] = "new"
      BY <3>1 DEF IInv, QueueInv, QueueTypes, Handled
    <3> QED
      BY <3>1, <3>2, <1>3, <1>4, Discarded DEF IInv
  <2>2. CASE ~(q.suppress \/ shuttingDown)
    <3>1. /\ processes' = processes \ {p} /\ ready' = Append(ready, Record(End(p, q), p))
          /\ UNCHANGED <<outstanding, fate>>
      BY <2>2 DEF Report
    <3>2. End(p, q) \in Terminal /\ End(p, q) \in Kinds /\ End(p, q) \notin {"Started", "Chunk"}
      BY DEF End, Terminal, Kinds
    <3> QED
      BY <2>2, <3>1, <3>2, <1>3, <1>4, Published DEF IInv
  <2> QED
    BY <2>1, <2>2
<1>6. LoopTypes'
  BY <1>2 DEF LoopTypes, Framed
<1>7. \A c \in Proc : stopped[c] => stopped'[c]
  BY DEF Framed
<1>8. CommandInv' /\ \A c \in Proc : StartPending(c)' => StartPending(c)
  BY <1>5, <1>7, CommandsKept DEF Framed
<1>9. EndIsTruthful'
  <2>1. ASSUME ~q.suppress, ~shuttingDown, NEW k \in Kinds, k = End(p, q)
        PROVE  Truthful(k, p)'
    <3>1. UNCHANGED stopped /\ stopped \in [Proc -> BOOLEAN]
      BY <2>1 DEF Framed, IInv, LoopInv, LoopTypes, HandleTypes
    <3>2. /\ End(p, q) = "Completed" => ~q.exception /\ ~stopped[p]
          /\ End(p, q) = "Cancelled" => stopped[p] /\ ~q.exception
          /\ End(p, q) = "Failed" => q.exception
      BY DEF End
    <3>3. ~q.exception /\ ~stopped[p] => child'[p] = "dead"
      BY <2>1, <3>1, <1>3 DEF Handled
    <3>4. proc'[p].exception = q.exception
      BY <1>1, <1>2
    <3>5. k = "Completed" => ~proc'[p].exception /\ child'[p] = "dead"
      BY <2>1, <3>2, <3>3, <3>4
    <3>6. k = "Cancelled" => stopped'[p] /\ ~proc'[p].exception
      BY <2>1, <3>1, <3>2, <3>4
    <3>7. k = "Failed" => proc'[p].exception
      BY <2>1, <3>2, <3>4
    <3> QED
      BY <3>5, <3>6, <3>7 DEF Truthful
  <2>2. End(p, q) \in Kinds
    BY DEF End, Kinds, Terminal
  <2>3. \A c \in Proc : /\ proc[c].finished => /\ proc'[c].exception = proc[c].exception
                                               /\ child[c] = "dead" => child'[c] = "dead"
                        /\ stopped[c] => stopped'[c]
    BY <1>2, <1>3, <1>7 DEF Framed
  <2> QED
    BY <2>1, <2>2, <2>3, <1>5, StillTruthful
<1>10. ASSUME NEW c \in Proc \ {p}
      PROVE  Local(c)'
  <2>1. Apart(c)
    BY <1>2, <1>5, <1>7 DEF Framed, Apart
  <2>2. c \in Shutting' => c \in Shutting
    BY DEF Framed
  <2>3. looper' # "exit"
    BY DEF Framed
  <2> QED
    BY <2>1, <2>2, <2>3, <1>5, <1>8, Elsewhere DEF IInv, LoopInv
<1>11. ChildInv(p)'
  <2>1. ChildInv(p)
    BY DEF IInv, LoopInv, Local
  <2>2. \A s \in Pipe : pipe'[p][s] = "open" => Announced(p)'
    BY <2>1, <1>5 DEF ChildInv, Unopened
  <2>3. looper' # "exit"
    BY DEF Framed
  <2>4. handle'[p] # "open" /\ Shut(p)' /\ q.handleClosed
    BY <1>3 DEF Handled, CanFinish, Shut
  <2>5. p \notin processes' /\ fate'[p] # "new"
    BY <1>5 DEF Handled
  <2> QED
    BY <2>2, <2>3, <2>4, <2>5, <1>1, <1>2 DEF ChildInv, Handled
<1>12. FreshInv(p)'
  <2> SUFFICES ASSUME StartPending(p)'
               PROVE  FreshInv(p)'
    BY <1>5 DEF Handled, FreshInv
  <2> QED
    BY <1>1, <1>2, <1>5, <1>8 DEF IInv, LoopInv, Local, FreshInv, Unstarted
<1> QED
  BY <1>5, <1>6, <1>8, <1>9, <1>10, <1>11, <1>12 DEF IInv, LoopInv, Local

\* A handler that ends with maybe_finish_process().
LEMMA MaybeFinished ==
  ASSUME IInv, NEW p \in Proc, NEW q, Framed(p), Handled(p, q), Unopened(p),
         MaybeFinish(p, q, pipe'[p]), Unstarted(p, q)
  PROVE  IInv'
<1>1. CASE CanFinish(q, pipe'[p])
  BY <1>1, Finished DEF MaybeFinish
<1>2. CASE ~CanFinish(q, pipe'[p])
  BY <1>2, Stored DEF MaybeFinish
<1> QED
  BY <1>1, <1>2

-----------------------------------------------------------------------------
(* Steps that leave every child's fields and handles alone.                *)

\* A step that is about no child.
LEMMA Aside ==
  ASSUME IInv, QueueInv', LoopTypes', CommandInv', EndIsTruthful',
         \A c \in Proc : /\ Apart(c) /\ (Silent(c) => Silent(c)')
                         /\ (Announced(c) => Announced(c)') \/ Shut(c)
                         /\ StartPending(c)' => StartPending(c)
                         /\ c \in Shutting' => c \in Shutting
                         /\ looper' = looper \/ looper' # "exit" \/ Shut(c)
  PROVE  IInv'
<1>1. \A c \in Proc : Local(c)'
  BY Elsewhere DEF IInv, LoopInv
<1> QED
  BY <1>1 DEF IInv, LoopInv

\* The callbacks and the destructor: nothing of the loop thread changes.
LEMMA EditorStep ==
  ASSUME IInv, Drain \/ RunCallback \/ CallbackReturns \/ Destroy \/ Joined
  PROVE  IInv'
<1>1. /\ UNCHANGED <<writes, reads, stopped, commands, looper, proc, pipe, handle, requests,
                     closing, closeBatch, shutdownStarted, toStop, child, processes>>
      /\ shuttingDown' \in BOOLEAN /\ (shuttingDown => shuttingDown')
      /\ ready' = ready \/ ready' = <<>>
  BY DEF Drain, RunCallback, CallbackReturns, Destroy, Joined, editorVars, sharedVars, handleVars,
         loopVars, osVars, IInv, LoopInv, LoopTypes, HandleTypes
<1>2. /\ QueueInv'
      /\ \A c \in Proc : Silent(c) => Silent(c)'
      /\ \A c \in Proc : (Announced(c) => Announced(c)') \/ looper = "exit"
      /\ \A c \in Proc : fate[c] = "new" <=> fate'[c] = "new"
  <2>1. CASE Drain
    BY <2>1, DrainQueue DEF Drain
  <2>2. CASE RunCallback
    BY <2>2, CallbackQueue
  <2>3. CASE CallbackReturns
    BY <2>3, ReturnQueue DEF CallbackReturns
  <2>4. CASE Destroy
    BY <2>4, DestroyQueue DEF Destroy
  <2>5. CASE Joined
    BY <2>5, JoinedQueue DEF Joined
  <2> QED
    BY <2>1, <2>2, <2>3, <2>4, <2>5
<1>3. LoopTypes'
  BY <1>1 DEF IInv, LoopInv, LoopTypes, HandleTypes
<1>4. CommandInv' /\ \A c \in Proc : StartPending(c)' => StartPending(c)
  BY <1>1, <1>2, CommandsKept
<1>5. EndIsTruthful'
  BY <1>1, StillTruthful
<1>6. ASSUME NEW c \in Proc
      PROVE  /\ Apart(c) /\ ((Announced(c) => Announced(c)') \/ Shut(c))
             /\ c \in Shutting' => c \in Shutting
  <2>1. Apart(c)
    BY <1>1, <1>2 DEF Apart
  <2>2. (Announced(c) => Announced(c)') \/ Shut(c)
    BY <1>2 DEF IInv, LoopInv, Local, ChildInv
  <2> QED
    BY <2>1, <2>2, <1>1 DEF Shutting
<1> QED
  BY <1>1, <1>2, <1>3, <1>4, <1>5, <1>6, Aside

\* A child dies, or the loop thread goes from one kind of work to the next.
LEMMA PhaseStep ==
  ASSUME IInv,
         \/ UNCHANGED vars
         \/ DrainCommands \/ BeginShutdown \/ DrainDone \/ ShutdownDone \/ RunClosing \/ LoopExit
         \/ \E p \in Proc : ChildDies(p)
  PROVE  IInv'
<1>1. /\ UNCHANGED <<pending, calling, told, fate, processes, ready, outstanding, shuttingDown>>
      /\ UNCHANGED <<writes, reads, stopped, commands, proc, pipe, handle, requests>>
  BY DEF vars, DrainCommands, BeginShutdown, DrainDone, ShutdownDone, RunClosing, LoopExit, ChildDies,
         editorVars, sharedVars, handleVars, loopVars, osVars
<1>2. /\ QueueInv'
      /\ \A c \in Proc : (Announced(c) => Announced(c)') /\ (Silent(c) => Silent(c)')
  BY <1>1, QueueUntouched DEF IInv
<1>3. /\ child' \in [Proc -> {"none", "alive", "killed", "dead"}]
      /\ \A c \in Proc : child[c] = "dead" => child'[c] = "dead"
  <2>1. child \in [Proc -> {"none", "alive", "killed", "dead"}]
    BY DEF IInv, LoopInv, LoopTypes, HandleTypes
  <2>2. UNCHANGED child \/ \E p \in Proc : child' = [child EXCEPT ![p] = "dead"]
    BY DEF vars, DrainCommands, BeginShutdown, DrainDone, ShutdownDone, RunClosing, LoopExit,
           ChildDies, osVars
  <2> QED
    BY <2>1, <2>2
<1>4. /\ closing' \in Seq(Handles) /\ closeBatch' \in Seq(Handles) /\ Shutting' \subseteq Shutting
  <2>1. closing \in Seq(Handles) /\ closeBatch \in Seq(Handles)
    BY DEF IInv, LoopInv, LoopTypes, HandleTypes, Handles
  <2>2. UNCHANGED <<closing, closeBatch>> \/ (closeBatch' = closing /\ closing' = <<>>)
    BY DEF vars, DrainCommands, BeginShutdown, DrainDone, ShutdownDone, RunClosing, LoopExit, ChildDies,
           handleVars, loopVars
  <2>3. Owners(<<>>) = {}
    BY DEF Owners
  <2> QED
    BY <2>1, <2>2, <2>3, EmptySeq DEF Shutting
<1>5. /\ looper' \in {"poll", "drain", "shutdown", "exit"}
      /\ toStop' \subseteq toStop \cup processes
      /\ shutdownStarted' \in BOOLEAN /\ (shutdownStarted' => shuttingDown)
      /\ (looper' \in {"shutdown", "exit"} => shutdownStarted')
      /\ \A c \in Proc : looper' = looper \/ looper' # "exit" \/ Shut(c)
  <2>1. /\ looper \in {"poll", "drain", "shutdown", "exit"} /\ shutdownStarted \in BOOLEAN
        /\ (shutdownStarted => shuttingDown) /\ (looper \in {"shutdown", "exit"} => shutdownStarted)
    BY DEF IInv, LoopInv, LoopTypes, HandleTypes
  <2>2. CASE UNCHANGED vars \/ RunClosing \/ \E p \in Proc : ChildDies(p)
    <3>1. UNCHANGED <<looper, toStop, shutdownStarted>>
      BY <2>2 DEF vars, RunClosing, ChildDies, loopVars
    <3> QED
      BY <3>1, <2>1
  <2>3. CASE DrainCommands \/ DrainDone \/ ShutdownDone
    BY <2>1, <2>3 DEF DrainCommands, DrainDone, ShutdownDone
  <2>5. CASE BeginShutdown
    BY <2>1, <2>5 DEF BeginShutdown
  <2>4. CASE LoopExit
    BY <2>1, <2>4 DEF LoopExit, Shut
  <2> QED
    BY <2>2, <2>3, <2>4, <2>5
<1>6. LoopTypes'
  BY <1>1, <1>3, <1>4, <1>5 DEF IInv, LoopInv, LoopTypes, HandleTypes, QueueInv, QueueTypes, Handles
<1>7. CommandInv' /\ \A c \in Proc : StartPending(c)' => StartPending(c)
  BY <1>1, <1>5, CommandsKept
<1>8. EndIsTruthful'
  BY <1>1, <1>3, StillTruthful
<1>9. \A c \in Proc : Apart(c)
  BY <1>1, <1>3 DEF Apart
<1> QED
  BY <1>2, <1>4, <1>5, <1>6, <1>7, <1>8, <1>9, Aside

\* A command of the editor thread for a known child.
LEMMA CommandStep ==
  ASSUME IInv, NEW p \in Proc, Write(p) \/ CloseInput(p) \/ Terminate(p)
  PROVE  IInv'
<1>1. /\ UNCHANGED <<pending, calling, told, fate, processes, ready, outstanding, shuttingDown>>
      /\ UNCHANGED <<reads, proc, pipe, handle, requests, child, looper, closing, closeBatch,
                     shutdownStarted, toStop>>
      /\ p \in processes
  BY DEF Write, CloseInput, Terminate, editorVars, sharedVars, handleVars, loopVars, osVars
<1>2. /\ QueueInv'
      /\ \A c \in Proc : (Announced(c) => Announced(c)') /\ (Silent(c) => Silent(c)')
  BY <1>1, QueueUntouched DEF IInv
<1>3. /\ stopped' \in [Proc -> BOOLEAN] /\ \A c \in Proc : stopped[c] => stopped'[c]
      /\ writes' \in [Proc -> Nat]
      /\ \/ UNCHANGED commands
         \/ \E k \in {"Write", "CloseInput", "Terminate"} :
               commands' = Append(commands, Record(k, p)) /\ (k = "Terminate" => stopped'[p])
  <2>1. stopped \in [Proc -> BOOLEAN] /\ writes \in [Proc -> Nat]
    BY DEF IInv, LoopInv, LoopTypes, HandleTypes
  <2>2. CASE Write(p)
    BY <2>1, <2>2 DEF Write, Post
  <2>3. CASE CloseInput(p)
    BY <2>1, <2>3 DEF CloseInput, Post, editorVars
  <2>4. CASE Terminate(p)
    BY <2>1, <2>4 DEF Terminate, Post, editorVars
  <2> QED
    BY <2>2, <2>3, <2>4
<1>4. CommandInv' /\ commands' \in Seq(Orders) /\ \A c \in Proc : StartPending(c)' => StartPending(c)
  <2>1. CASE UNCHANGED commands
    BY <2>1, <1>1, <1>3, CommandsKept
  <2>2. ASSUME NEW k \in {"Write", "CloseInput", "Terminate"},
               commands' = Append(commands, Record(k, p)), k = "Terminate" => stopped'[p]
        PROVE  CommandInv' /\ commands' \in Seq(Orders)
               /\ \A c \in Proc : StartPending(c)' => StartPending(c)
    <3>1. /\ commands \in Seq(Orders) /\ Record(k, p) \in Orders
          /\ Record(k, p).kind = k /\ Record(k, p).process = p
          /\ \A i \in DOMAIN commands : commands[i].process \in Proc
      BY ElementOfSeq, LenProperties, RecordFacts DEF IInv, LoopInv, LoopTypes, HandleTypes
    <3>2. /\ commands' \in Seq(Orders) /\ DOMAIN commands' = DOMAIN commands \cup {Len(commands) + 1}
          /\ \A i \in DOMAIN commands : i < Len(commands) + 1 /\ i \in Nat /\ commands'[i] = commands[i]
          /\ commands'[Len(commands) + 1] = Record(k, p) /\ Len(commands) \in Nat
      BY <3>1, <2>2, AppendFacts
    <3>3. fate[p] # "new"
      BY <1>1 DEF IInv, QueueInv, EndInv
    <3>4. CommandInv'
      <4>1. \A i \in DOMAIN commands' :
               /\ fate'[commands'[i].process] # "new"
               /\ commands'[i].kind = "Terminate" => stopped'[commands'[i].process]
        <5>1. \A i \in DOMAIN commands :
                 /\ fate[commands[i].process] # "new"
                 /\ commands[i].kind = "Terminate" => stopped'[commands[i].process]
          BY <3>1, <1>3 DEF IInv, LoopInv, CommandInv
        <5> QED
          BY <5>1, <3>1, <3>2, <3>3, <2>2, <1>1
      <4>2. \A i, j \in DOMAIN commands' :
               commands'[j].kind = "Start" /\ commands'[i].process = commands'[j].process => j <= i
        BY <3>1, <3>2 DEF IInv, LoopInv, CommandInv
      <4> QED
        BY <4>1, <4>2, <1>1 DEF IInv, LoopInv, CommandInv
    <3>5. \A c \in Proc : StartPending(c)' => StartPending(c)
      <4>1. \A c \in Proc : Record(k, p) # Record("Start", c)
        BY RecordFacts
      <4> QED
        BY <4>1, <3>2 DEF StartPending
    <3> QED
      BY <3>2, <3>4, <3>5
  <2> QED
    BY <2>1, <2>2, <1>3
<1>5. LoopTypes'
  BY <1>1, <1>3, <1>4 DEF IInv, LoopInv, LoopTypes, HandleTypes
<1>6. EndIsTruthful'
  BY <1>1, <1>3, StillTruthful
<1>7. \A c \in Proc : Apart(c) /\ (c \in Shutting' => c \in Shutting)
  BY <1>1, <1>3 DEF Apart, Shutting
<1> QED
  BY <1>1, <1>2, <1>4, <1>5, <1>6, <1>7, Aside

\* A new child is known, and its Start is the only command for it.
LEMMA SpawnStep ==
  ASSUME IInv, NEW p \in Proc, Spawn(p)
  PROVE  IInv'
<1>1. /\ fate[p] = "new" /\ fate' = [fate EXCEPT ![p] = "open"] /\ processes' = processes \cup {p}
      /\ commands' = Append(commands, Record("Start", p))
      /\ UNCHANGED <<writes, reads, stopped, shuttingDown, looper, proc, pipe, handle, requests,
                     closing, closeBatch, shutdownStarted, toStop, child, ready>>
  BY DEF Spawn, Post, editorVars, handleVars, loopVars, osVars
<1>2. /\ QueueInv'
      /\ \A c \in Proc : (Announced(c) => Announced(c)') /\ (Silent(c) => Silent(c)')
  BY SpawnQueue
<1>3. fate'[p] = "open" /\ \A c \in Proc \ {p} : fate'[c] = fate[c]
  BY <1>1 DEF IInv, QueueInv, QueueTypes
<1>4. /\ commands \in Seq(Orders) /\ Record("Start", p) \in Orders
      /\ Record("Start", p).kind = "Start" /\ Record("Start", p).process = p
      /\ \A i \in DOMAIN commands : commands[i].process \in Proc \ {p}
  BY <1>1, ElementOfSeq, LenProperties, RecordFacts DEF IInv, LoopInv, LoopTypes, HandleTypes, CommandInv
<1>5. /\ commands' \in Seq(Orders) /\ DOMAIN commands' = DOMAIN commands \cup {Len(commands) + 1}
      /\ \A i \in DOMAIN commands : i < Len(commands) + 1 /\ i \in Nat /\ commands'[i] = commands[i]
      /\ commands'[Len(commands) + 1] = Record("Start", p) /\ Len(commands) \in Nat
  BY <1>1, <1>4, AppendFacts
<1>6. CommandInv'
  <2>1. \A i \in DOMAIN commands :
           /\ fate'[commands[i].process] # "new"
           /\ commands[i].kind = "Terminate" => stopped'[commands[i].process]
    BY <1>1, <1>3, <1>4 DEF IInv, LoopInv, CommandInv
  <2>2. \A i \in DOMAIN commands' :
           /\ fate'[commands'[i].process] # "new"
           /\ commands'[i].kind = "Terminate" => stopped'[commands'[i].process]
    BY <2>1, <1>3, <1>4, <1>5
  <2>3. \A i, j \in DOMAIN commands' :
           commands'[j].kind = "Start" /\ commands'[i].process = commands'[j].process => j <= i
    BY <1>4, <1>5 DEF IInv, LoopInv, CommandInv
  <2>4. \A c \in toStop' : fate'[c] # "new"
    BY <1>1, <1>3 DEF IInv, LoopInv, CommandInv, LoopTypes, HandleTypes
  <2> QED
    BY <2>2, <2>3, <2>4 DEF CommandInv
<1>7. LoopTypes'
  BY <1>1, <1>5 DEF IInv, LoopInv, LoopTypes, HandleTypes
<1>8. EndIsTruthful'
  BY <1>1, StillTruthful
<1>9. ASSUME NEW c \in Proc \ {p}
      PROVE  Local(c)'
  <2>1. Apart(c) /\ (c \in Shutting' => c \in Shutting)
    BY <1>1, <1>3 DEF Apart, Shutting
  <2>2. StartPending(c)' => StartPending(c)
    <3>1. Record("Start", p) # Record("Start", c)
      BY RecordFacts
    <3> QED
      BY <3>1, <1>5 DEF StartPending
  <2> QED
    BY <2>1, <2>2, <1>1, <1>2, Elsewhere DEF IInv, LoopInv
<1>10. Local(p)'
  <2>1. ChildInv(p)'
    BY <1>1, <1>2, <1>3 DEF IInv, LoopInv, Local, ChildInv, Shut
  <2>2. FreshInv(p)'
    BY <1>1, <1>2, <1>3 DEF IInv, LoopInv, Local, FreshInv, Shutting
  <2> QED
    BY <2>1, <2>2 DEF Local
<1> QED
  BY <1>2, <1>6, <1>7, <1>8, <1>9, <1>10 DEF IInv, LoopInv

-----------------------------------------------------------------------------
(* Handles and their lists.                                                *)

\* Lists of handles of one child, joined.
LEMMA JoinHandles ==
  ASSUME NEW p, NEW s \in Seq(Handles), NEW t \in Seq(Handles), NEW T,
         Owners(s) \subseteq {p}, Owners(t) \subseteq T \cup {p}
  PROVE  s \o t \in Seq(Handles) /\ Owners(s \o t) \subseteq T \cup {p}
BY OwnersOfBoth, ConcatProperties

\* Closing a pipe closes a handle of its child.
LEMMA ClosedFacts ==
  ASSUME NEW p \in Proc, NEW pp, NEW s \in Pipe
  PROVE  Closed(p, pp, s) \in Seq(Handles) /\ Owners(Closed(p, pp, s)) \subseteq {p}
<1>1. <<p, s>> \in Handles /\ <<p, s>>[1] = p
  BY DEF Handles
<1>2. <<<<p, s>>>> \in Seq(Handles) /\ <<>> \in Seq(Handles)
  BY <1>1, EmptySeq
<1>3. Owners(<<<<p, s>>>>) = {p} /\ Owners(<<>>) = {}
  BY DEF Owners
<1> QED
  BY <1>2, <1>3 DEF Closed

\* So does closing the process handle.
LEMMA ClosedChildFacts ==
  ASSUME NEW p \in Proc
  PROVE  ClosedChild(p) \in Seq(Handles) /\ Owners(ClosedChild(p)) \subseteq {p}
<1>1. <<p, "child">> \in Handles /\ <<p, "child">>[1] = p
  BY DEF Handles
<1> QED
  BY <1>1 DEF ClosedChild, Owners

\* Closing all three pipes adds only handles of their child.
LEMMA ClosedInOrderFacts ==
  ASSUME NEW p \in Proc, NEW pp, NEW order, {order[1], order[2], order[3]} \subseteq Pipe
  PROVE  /\ ClosedInOrder(p, pp, order) \in Seq(Handles)
         /\ Owners(ClosedInOrder(p, pp, order)) \subseteq {p}
<1> DEFINE a == Closed(p, pp, order[3])
           b == Closed(p, pp, order[2])
           c == Closed(p, pp, order[1])
<1>1. /\ a \in Seq(Handles) /\ Owners(a) \subseteq {p}
      /\ b \in Seq(Handles) /\ Owners(b) \subseteq {p}
      /\ c \in Seq(Handles) /\ Owners(c) \subseteq {p}
  BY ClosedFacts
<1>2. ClosedInOrder(p, pp, order) = (a \o b) \o c \/ ClosedInOrder(p, pp, order) = a \o (b \o c)
  BY DEF ClosedInOrder
<1> HIDE DEF a, b, c
<1>3. a \o b \in Seq(Handles) /\ Owners(a \o b) \subseteq {p}
  BY <1>1, JoinHandles
<1>4. b \o c \in Seq(Handles) /\ Owners(b \o c) \subseteq {p}
  BY <1>1, JoinHandles
<1>5. (a \o b) \o c \in Seq(Handles) /\ Owners((a \o b) \o c) \subseteq {p}
  BY <1>1, <1>3, JoinHandles
<1>6. a \o (b \o c) \in Seq(Handles) /\ Owners(a \o (b \o c)) \subseteq {p}
  BY <1>1, <1>4, JoinHandles
<1> QED
  BY <1>2, <1>5, <1>6

\* The pipes after some of them are closed.
LEMMA AfterCloseFacts ==
  ASSUME NEW pp \in [Pipe -> States], NEW C
  PROVE  /\ AfterClose(pp, C) \in [Pipe -> States]
         /\ \A s \in Pipe : AfterClose(pp, C)[s] =
               IF s \in C /\ pp[s] = "open" THEN "closing" ELSE pp[s]
BY DEF AfterClose, States

\* What is put in front of the handles closed in this iteration.
LEMMA ClosingGrows ==
  ASSUME IInv, NEW p \in Proc, NEW s \in Seq(Handles), Owners(s) \subseteq {p},
         closing' = s \o closing, UNCHANGED closeBatch
  PROVE  closing' \in Seq(Handles) /\ Shutting' \subseteq Shutting \cup {p}
<1>1. closing \in Seq(Handles)
  BY DEF IInv, LoopInv, LoopTypes, HandleTypes, Handles
<1>2. s \o closing \in Seq(Handles) /\ Owners(s \o closing) \subseteq Owners(closing) \cup {p}
  BY <1>1, JoinHandles
<1> QED
  BY <1>2 DEF Shutting

-----------------------------------------------------------------------------
(* The loop thread: commands.                                              *)

\* What a handler of p does to handles, pipes and requests.
ChangedAt(p) ==
    /\ pipe' \in [Proc -> [Pipe -> States]] /\ handle' \in [Proc -> States]
    /\ requests' \in [Proc -> Seq({"queued", "written"})]
    /\ child' \in [Proc -> {"none", "alive", "killed", "dead"}]
    /\ \A c \in Proc \ {p} : /\ pipe'[c] = pipe[c] /\ handle'[c] = handle[c]
                             /\ requests'[c] = requests[c] /\ child'[c] = child[c]
    /\ closing' \in Seq(Handles) /\ Shutting' \subseteq Shutting \cup {p}

\* The loop thread obeys its first command, which is for p.
Obeying(p) ==
    /\ looper = "drain" /\ commands # <<>> /\ commands' = Tail(commands)
    /\ Head(commands).process = p
    /\ UNCHANGED <<editorVars, stopped, shuttingDown, loopVars>>

\* A callback of one child runs, or the child itself.
Calling ==
    /\ looper # "exit"
    /\ UNCHANGED <<editorVars, stopped, commands, shuttingDown, looper, shutdownStarted, toStop>>

\* The types a handler relies on.
LEMMA TypesOf ==
  ASSUME IInv
  PROVE  /\ pipe \in [Proc -> [Pipe -> States]] /\ handle \in [Proc -> States]
         /\ requests \in [Proc -> Seq({"queued", "written"})]
         /\ child \in [Proc -> {"none", "alive", "killed", "dead"}]
         /\ proc \in [Proc -> [Fields -> BOOLEAN]]
         /\ closing \in Seq(Handles) /\ closeBatch \in Seq(Handles)
         /\ reads \in [Proc -> Nat]
         /\ "in" \in Pipe
BY DEF IInv, LoopInv, LoopTypes, HandleTypes, States, Handles, Pipe

\* A command that changes only its child leaves alone what it should.
LEMMA ObeyingFrame ==
  ASSUME IInv, NEW p \in Proc, Obeying(p), ChangedAt(p), UNCHANGED reads
  PROVE  Framed(p)
<1>1. UNCHANGED <<pending, calling, told, writes, closeBatch, shutdownStarted, toStop, looper>>
  BY DEF Obeying, editorVars, loopVars
<1>2. commands' \in Seq(Orders)
  BY TailFacts DEF Obeying, IInv, LoopInv, LoopTypes, HandleTypes
<1>3. HandleTypes'
  BY <1>1, <1>2 DEF Obeying, ChangedAt, IInv, LoopInv, LoopTypes, HandleTypes, States, Handles
<1> QED
  BY <1>1, <1>3 DEF Obeying, ChangedAt, Framed

\* So does a callback.
LEMMA CallingFrame ==
  ASSUME IInv, NEW p \in Proc, Calling, ChangedAt(p), reads' \in [Proc -> Nat],
         closeBatch' \in Seq(Handles)
  PROVE  Framed(p)
<1>1. UNCHANGED <<pending, calling, told, writes>>
  BY DEF Calling, editorVars
<1>2. HandleTypes'
  BY <1>1 DEF Calling, ChangedAt, IInv, LoopInv, LoopTypes, HandleTypes, States, Handles
<1> QED
  BY <1>1, <1>2 DEF Calling, ChangedAt, Framed

\* What a command finds of its child.
LEMMA ObeyingFacts ==
  ASSUME IInv, NEW p \in Proc, Obeying(p)
  PROVE  /\ fate[p] # "new" /\ ~StartPending(p)'
         /\ Head(commands).kind = "Terminate" => stopped[p]
         /\ Head(commands).kind = "Start" => FreshInv(p) /\ StartPending(p)
         /\ ChildInv(p)
BY FirstCommand DEF Obeying, IInv, LoopInv, Local

\* A handler of p that touches none of its handles and requests.
LEMMA Untouched ==
  ASSUME IInv, NEW p \in Proc, UNCHANGED <<pipe, handle, requests, child, closing, closeBatch>>
  PROVE  ChangedAt(p) /\ Unopened(p)
BY TypesOf DEF ChangedAt, Unopened, Shutting

\* With none of them touched, the fields that matter may only be what they were.
LEMMA SameHandled ==
  ASSUME IInv, NEW p \in Proc, UNCHANGED <<pipe, handle, requests, child>>, fate[p] # "new",
         \A c \in Proc : stopped[c] => stopped'[c]
  PROVE  Handled(p, proc[p])
BY TypesOf DEF IInv, LoopInv, Local, ChildInv, Handled, Shut

\* start_process() in each of its six outcomes.
LEMMA StartStep ==
  ASSUME IInv, NEW p \in Proc, Obeying(p), Head(commands).kind = "Start", StartProcess(p)
  PROVE  IInv'
<1> DEFINE q == proc[p]
<1>1. /\ UNCHANGED <<stopped, shuttingDown, closeBatch, requests, reads>>
      /\ q \in [Fields -> BOOLEAN] /\ ChildInv(p) /\ fate[p] # "new" /\ ~StartPending(p)'
      /\ ~q.started /\ (q.exited \/ q.handleClosed => q.finished) /\ handle[p] = "none"
      /\ (\A s \in Pipe : pipe[p][s] = "none") /\ p \notin Shutting /\ Silent(p)
      /\ requests[p] = <<>>
  <2>1. UNCHANGED <<stopped, shuttingDown, closeBatch, requests, reads>>
    BY DEF Obeying, loopVars, StartProcess
  <2>2. fate[p] # "new" /\ ~StartPending(p)' /\ ChildInv(p) /\ FreshInv(p) /\ StartPending(p)
    BY ObeyingFacts
  <2>3. q \in [Fields -> BOOLEAN] /\ "in" \in Pipe
    BY TypesOf
  <2> QED
    BY <2>1, <2>2, <2>3 DEF FreshInv, ChildInv
<1>2. q \in [Fields -> BOOLEAN] /\ ~q.started /\ (q.exited \/ q.handleClosed => q.finished)
  BY <1>1
<1>3. \A r : Unstarted(p, r)
  BY <1>1 DEF Unstarted
<1> HIDE DEF q
<1>4. CASE q.finished /\ Store(p, q) /\ UNCHANGED <<pipe, closing>> /\ Unspawned
  <2>1. Handled(p, q) /\ Framed(p) /\ Unopened(p)
    BY <1>1, <1>4, SameHandled, Untouched, ObeyingFrame DEF q, Unspawned
  <2> QED
    BY <2>1, <1>1, <1>3, <1>4, Stored
<1>5. ASSUME NEW F, F = {"exited", "handleClosed"} \cup (IF shuttingDown THEN {"suppress"} ELSE {}),
             ~q.finished, shuttingDown \/ stopped[p], MaybeFinish(p, With(q, F), pipe[p]),
             UNCHANGED <<pipe, closing>>, Unspawned
      PROVE  IInv'
  <2>1. Framed(p) /\ Unopened(p)
    BY <1>1, <1>5, Untouched, ObeyingFrame DEF Unspawned
  <2>2. /\ With(q, F) \in [Fields -> BOOLEAN]
        /\ With(q, F).finished = q.finished /\ With(q, F).started = q.started
        /\ With(q, F).exception = q.exception
        /\ shuttingDown => With(q, F).suppress
    <3>1. "finished" \notin F /\ "started" \notin F /\ "exception" \notin F
      BY <1>5
    <3>2. shuttingDown => "suppress" \in F
      BY <1>5
    <3> QED
      BY <1>2, <3>1, <3>2, WithFacts, WithSame
  <2>3. Handled(p, With(q, F))
    BY <1>1, <1>5, <2>2 DEF q, Handled, Unspawned, ChildInv
  <2> QED
    BY <2>1, <2>3, <1>3, <1>5, MaybeFinished
<1>6. ASSUME NEW pp \in [Pipe -> {"none", "open"}], ~q.finished,
             pipe' = [pipe EXCEPT ![p] = AfterClose(pp, Pipe)],
             closing' = ClosedInOrder(p, pp, AllPipes) \o closing,
             MaybeFinish(p, With(q, {"exited", "handleClosed", "exception"}), AfterClose(pp, Pipe)),
             Unspawned
      PROVE  IInv'
  <2> DEFINE r == With(q, {"exited", "handleClosed", "exception"})
  <2>1. /\ r \in [Fields -> BOOLEAN] /\ r.finished = q.finished /\ r.exception /\ r.exited
    BY <1>2, WithFacts, WithSame
  <2> HIDE DEF r
  <2>2. /\ pipe'[p] = AfterClose(pp, Pipe) /\ pipe'[p] \in [Pipe -> States]
        /\ pipe' \in [Proc -> [Pipe -> States]]
        /\ \A c \in Proc \ {p} : pipe'[c] = pipe[c]
        /\ \A s \in Pipe : pipe'[p][s] # "open"
    <3>1. pp \in [Pipe -> States]
      BY DEF States
    <3>2. /\ AfterClose(pp, Pipe) \in [Pipe -> States]
          /\ \A s \in Pipe : AfterClose(pp, Pipe)[s] # "open"
      BY <3>1, AfterCloseFacts
    <3> HIDE DEF r
    <3> DEFINE after == AfterClose(pp, Pipe)
    <3> HIDE DEF after
    <3>3. pipe' = [pipe EXCEPT ![p] = after] /\ after \in [Pipe -> States]
      BY <3>2, <1>6 DEF after
    <3>4. pipe'[p] = after /\ pipe' \in [Proc -> [Pipe -> States]] /\ \A c \in Proc \ {p} : pipe'[c] = pipe[c]
      BY <3>3, TypesOf
    <3> QED
      BY <3>2, <3>4 DEF after
  <2>3. closing' \in Seq(Handles) /\ Shutting' \subseteq Shutting \cup {p}
    BY <1>1, <1>6, ClosedInOrderFacts, ClosingGrows DEF AllPipes, Pipe, Output
  <2>4. ChangedAt(p)
    BY <1>1, <1>6, <2>2, <2>3, TypesOf DEF ChangedAt, Unspawned
  <2>5. Framed(p) /\ Unopened(p)
    BY <2>2, <2>4, <1>1, ObeyingFrame DEF Unopened
  <2>6. Handled(p, r)
    BY <1>1, <1>6, <2>1 DEF q, Handled, Unspawned
  <2> QED
    BY <2>2, <2>5, <2>6, <1>3, <1>6, MaybeFinished DEF r
<1>7. ASSUME ~q.finished,
             pipe' = [pipe EXCEPT ![p] = [s \in Pipe |-> "closing"]],
             closing' = ClosedInOrder(p, [s \in Pipe |-> "open"], AllPipes) \o ClosedChild(p) \o closing,
             MaybeFinish(p, With(q, {"exited", "exception"}), [s \in Pipe |-> "closing"]),
             handle' = [handle EXCEPT ![p] = "closing"],
             UNCHANGED child
      PROVE  IInv'
  <2> DEFINE r == With(q, {"exited", "exception"})
             all == ClosedInOrder(p, [s \in Pipe |-> "open"], AllPipes)
  <2>1. /\ r \in [Fields -> BOOLEAN] /\ r.finished = q.finished /\ r.exception /\ r.exited
        /\ ~r.handleClosed
    <3> DEFINE F == {"exited", "exception"}
    <3>1. "exited" \in F /\ "exception" \in F /\ "finished" \notin F /\ "handleClosed" \notin F
      OBVIOUS
    <3> HIDE DEF F
    <3>2. With(q, F).handleClosed = q.handleClosed /\ ~q.handleClosed
      BY <1>2, <1>7, <3>1, WithSame DEF Fields
    <3> QED
      BY <1>2, <3>1, <3>2, WithFacts, WithSame DEF F
  <2>2. all \in Seq(Handles) /\ Owners(all) \subseteq {p}
    BY ClosedInOrderFacts DEF AllPipes, Pipe, Output
  <2>3. closing' = (all \o ClosedChild(p)) \o closing
    <3>1. ClosedChild(p) \in Seq(Handles)
      BY ClosedChildFacts
    <3> HIDE DEF all
    <3> QED
      BY <3>1, <2>2, <1>7, ConcatAssociative, TypesOf DEF all
  <2> HIDE DEF r, all
  <2>4. closing' \in Seq(Handles) /\ Shutting' \subseteq Shutting \cup {p}
    <3>1. all \o ClosedChild(p) \in Seq(Handles) /\ Owners(all \o ClosedChild(p)) \subseteq {p}
      BY <2>2, ClosedChildFacts, JoinHandles
    <3> QED
      BY <3>1, <2>3, <1>1, ClosingGrows
  <2>5. /\ pipe'[p] = [s \in Pipe |-> "closing"] /\ pipe' \in [Proc -> [Pipe -> States]]
        /\ \A c \in Proc \ {p} : pipe'[c] = pipe[c]
        /\ handle'[p] = "closing" /\ handle' \in [Proc -> States]
        /\ \A c \in Proc \ {p} : handle'[c] = handle[c]
    <3>1. [s \in Pipe |-> "closing"] \in [Pipe -> States] /\ "closing" \in States
      BY DEF States
    <3> QED
      BY <3>1, <1>7, TypesOf
  <2>6. ChangedAt(p)
    BY <1>1, <1>7, <2>4, <2>5, TypesOf DEF ChangedAt
  <2>7. Framed(p) /\ Unopened(p)
    BY <2>5, <2>6, <1>1, ObeyingFrame DEF Unopened
  <2>8. Handled(p, r)
    BY <1>1, <1>7, <2>1, <2>5, TypesOf DEF q, Handled
  <2> QED
    BY <2>5, <2>7, <2>8, <1>3, <1>7, MaybeFinished DEF r
<1>8. ASSUME ~q.finished, ~stopped[p],
             pipe' = [pipe EXCEPT ![p] = [s \in Pipe |-> "open"]],
             handle' = [handle EXCEPT ![p] = "open"],
             child' = [child EXCEPT ![p] = "alive"],
             proc' = [proc EXCEPT ![p] = With(q, {"started"})],
             ready' = Append(ready, Record("Started", p)),
             UNCHANGED <<closing, processes, outstanding, fate>>
      PROVE  IInv'
  <2> DEFINE F == {"started"}
             r == With(q, F)
  <2>1. /\ r \in [Fields -> BOOLEAN] /\ r.finished = q.finished /\ r.started /\ ~r.exited
        /\ ~r.handleClosed
    <3>1. "started" \in F /\ "exited" \notin F /\ "finished" \notin F /\ "handleClosed" \notin F
      OBVIOUS
    <3> HIDE DEF F
    <3> QED
      BY <1>2, <1>8, <3>1, StartedOrExited
  <2> HIDE DEF r
  <2>2. /\ pipe'[p] = [s \in Pipe |-> "open"] /\ pipe' \in [Proc -> [Pipe -> States]]
        /\ \A c \in Proc \ {p} : pipe'[c] = pipe[c]
        /\ handle' \in [Proc -> States] /\ \A c \in Proc \ {p} : handle'[c] = handle[c]
        /\ child' \in [Proc -> {"none", "alive", "killed", "dead"}]
        /\ \A c \in Proc \ {p} : child'[c] = child[c]
    <3>1. [s \in Pipe |-> "open"] \in [Pipe -> States] /\ "open" \in States
      BY DEF States
    <3> QED
      BY <3>1, <1>8, TypesOf
  <2>3. ChangedAt(p)
    BY <1>1, <1>8, <2>2, TypesOf DEF ChangedAt, Shutting
  <2>4. Framed(p)
    BY <2>3, <1>1, ObeyingFrame
  <2>5. Handled(p, r)
    BY <1>1, <1>8, <2>1, <2>2, TypesOf DEF q, Handled
  <2>6. p \in processes
    BY <1>1, <1>8 DEF q, ChildInv
  <2>7. /\ QueueInv'
        /\ \A c \in Proc : Announced(c) => Announced(c)'
        /\ \A c \in Proc \ {p} : Silent(c) => Silent(c)'
        /\ Announced(p)'
    <3>1. "Started" \in Kinds /\ "Started" \notin Terminal
      BY DEF Kinds, Terminal
    <3>2. UNCHANGED <<pending, calling, told, shuttingDown>>
      BY DEF Obeying, editorVars
    <3> QED
      BY <3>1, <3>2, <2>6, <1>1, <1>8, Published DEF IInv
  <2> QED
    BY <2>4, <2>5, <2>7, <1>1, <1>3, <1>8, Kept DEF r
<1>9. ASSUME ~q.finished,
             pipe' = [pipe EXCEPT ![p] = [s \in Pipe |-> "closing"]],
             NEW order \in {<<"out", "in", "err">>, <<"err", "in", "out">>},
             closing' = ClosedInOrder(p, [s \in Pipe |-> "open"], order) \o closing,
             handle' = [handle EXCEPT ![p] = "open"],
             child' = [child EXCEPT ![p] = "alive"],
             Store(p, With(q, {"started", "exception"}))
      PROVE  IInv'
  <2> DEFINE F == {"started", "exception"}
             r == With(q, F)
  <2>1. /\ r \in [Fields -> BOOLEAN] /\ r.finished = q.finished /\ r.started /\ ~r.exited
        /\ ~r.handleClosed
    <3>1. "started" \in F /\ "exited" \notin F /\ "finished" \notin F /\ "handleClosed" \notin F
      OBVIOUS
    <3> HIDE DEF F
    <3> QED
      BY <1>2, <1>9, <3>1, StartedOrExited
  <2> HIDE DEF r
  <2>2. /\ pipe'[p] = [s \in Pipe |-> "closing"] /\ pipe' \in [Proc -> [Pipe -> States]]
        /\ \A c \in Proc \ {p} : pipe'[c] = pipe[c]
        /\ handle' \in [Proc -> States] /\ \A c \in Proc \ {p} : handle'[c] = handle[c]
        /\ child' \in [Proc -> {"none", "alive", "killed", "dead"}]
        /\ \A c \in Proc \ {p} : child'[c] = child[c]
    <3>1. [s \in Pipe |-> "closing"] \in [Pipe -> States] /\ "open" \in States
      BY DEF States
    <3> QED
      BY <3>1, <1>9, TypesOf
  <2>3. closing' \in Seq(Handles) /\ Shutting' \subseteq Shutting \cup {p}
    <3>1. {order[1], order[2], order[3]} \subseteq Pipe
      BY <1>9 DEF Pipe, Output
    <3> DEFINE all == ClosedInOrder(p, [s \in Pipe |-> "open"], order)
    <3>2. all \in Seq(Handles) /\ Owners(all) \subseteq {p}
      BY <3>1, ClosedInOrderFacts
    <3> HIDE DEF all
    <3> QED
      BY <3>2, <1>1, <1>9, ClosingGrows DEF all
  <2>4. ChangedAt(p)
    BY <1>1, <1>9, <2>2, <2>3, TypesOf DEF ChangedAt
  <2>5. Framed(p) /\ Unopened(p)
    BY <2>2, <2>4, <1>1, ObeyingFrame DEF Unopened
  <2>6. Handled(p, r)
    BY <1>1, <1>9, <2>1, <2>2, TypesOf DEF q, Handled
  <2> QED
    BY <2>5, <2>6, <1>1, <1>3, <1>9, Stored DEF r
<1>10. \A n \in 0..3 : [s \in Pipe |-> IF s \in Range(SubSeq(AllPipes, 1, n)) THEN "open" ELSE "none"]
                       \in [Pipe -> {"none", "open"}]
  OBVIOUS
<1> QED
  BY <1>4, <1>5, <1>6, <1>7, <1>8, <1>9, <1>10 DEF StartProcess, q


\* What a handler that does not start its child makes of it.
LEMMA Later ==
  ASSUME IInv, NEW p \in Proc, NEW q \in [Fields -> BOOLEAN], fate[p] # "new",
         q.finished = proc[p].finished, q.started = proc[p].started, q.exited = proc[p].exited,
         q.handleClosed = proc[p].handleClosed,
         proc[p].exception => q.exception, proc[p].suppress => q.suppress,
         proc[p].finished => q.exception = proc[p].exception,
         handle'[p] = handle[p], child[p] = "dead" => child'[p] = "dead",
         stopped[p] => stopped'[p],
         \A s \in Pipe : pipe[p][s] \in {"none", "closed"} => pipe'[p][s] = pipe[p][s],
         pipe'[p]["in"] \in {"none", "closed"} => requests'[p] = <<>>
  PROVE  Handled(p, q)
<1>1. ChildInv(p)
  BY DEF IInv, LoopInv, Local
<1>2. proc[p].finished => handle'[p] # "open" /\ Shut(p)' /\ q.handleClosed
  BY <1>1 DEF ChildInv, Shut
<1>3. q.exited => child'[p] = "dead" \/ q.exception \/ stopped'[p] \/ q.suppress
  BY <1>1 DEF ChildInv
<1>4. /\ handle'[p] = "open" => q.started /\ ~q.exited /\ ~q.handleClosed
      /\ handle'[p] = "closing" /\ q.handleClosed => ~q.started /\ stopped'[p]
  BY <1>1 DEF ChildInv
<1> QED
  BY <1>2, <1>3, <1>4 DEF Handled

\* Closing one pipe of p.
LEMMA PipeClosed ==
  ASSUME IInv, NEW p \in Proc, NEW s \in Pipe, ClosePipe(p, s), UNCHANGED closeBatch
  PROVE  /\ pipe' \in [Proc -> [Pipe -> States]] /\ \A c \in Proc \ {p} : pipe'[c] = pipe[c]
         /\ closing' \in Seq(Handles) /\ Shutting' \subseteq Shutting \cup {p}
         /\ \A t \in Pipe : pipe'[p][t] = IF t = s /\ pipe[p][t] = "open" THEN "closing" ELSE pipe[p][t]
         /\ Unopened(p)
<1> DEFINE after == AfterClose(pipe[p], {s})
           list == Closed(p, pipe[p], s)
<1>1. /\ after \in [Pipe -> States]
      /\ \A t \in Pipe : after[t] = IF t = s /\ pipe[p][t] = "open" THEN "closing" ELSE pipe[p][t]
  <2>1. pipe[p] \in [Pipe -> States]
    BY TypesOf
  <2> QED
    BY <2>1, AfterCloseFacts
<1>2. list \in Seq(Handles) /\ Owners(list) \subseteq {p}
  BY ClosedFacts
<1>3. pipe' = [pipe EXCEPT ![p] = after] /\ closing' = list \o closing
  BY DEF ClosePipe
<1> HIDE DEF after, list
<1>4. pipe'[p] = after /\ pipe' \in [Proc -> [Pipe -> States]] /\ \A c \in Proc \ {p} : pipe'[c] = pipe[c]
  BY <1>1, <1>3, TypesOf
<1>5. closing' \in Seq(Handles) /\ Shutting' \subseteq Shutting \cup {p}
  BY <1>2, <1>3, ClosingGrows
<1>6. Unopened(p)
  BY <1>1, <1>4 DEF Unopened
<1> QED
  BY <1>1, <1>4, <1>5, <1>6

\* write_process() in each of its three.
LEMMA WriteStep ==
  ASSUME IInv, NEW p \in Proc, Obeying(p), WriteProcess(p)
  PROVE  IInv'
<1> DEFINE q == proc[p]
           r == With(q, {"exception"})
<1>1. /\ UNCHANGED <<stopped, shuttingDown, closeBatch, handle, child, reads>>
      /\ q \in [Fields -> BOOLEAN] /\ ChildInv(p) /\ fate[p] # "new" /\ ~StartPending(p)'
  BY ObeyingFacts, TypesOf DEF Obeying, loopVars, WriteProcess
<1>2. \A x : Unstarted(p, x)
  BY <1>1 DEF Unstarted
<1>3. /\ r \in [Fields -> BOOLEAN] /\ r.finished = q.finished /\ r.started = q.started
      /\ r.exited = q.exited /\ r.exception /\ r.suppress = q.suppress
      /\ r.handleClosed = q.handleClosed
  BY <1>1, WithFacts, WithSame
<1> HIDE DEF r
<1>4. CASE Store(p, q) /\ UNCHANGED <<pipe, closing, requests>>
  <2>1. Handled(p, q) /\ Framed(p) /\ Unopened(p)
    BY <1>1, <1>4, SameHandled, Untouched, ObeyingFrame
  <2> QED
    BY <2>1, <1>1, <1>2, <1>4, Stored
<1>5. ASSUME NEW x \in {"queued", "written"}, requests' = [requests EXCEPT ![p] = Append(@, x)],
             pipe[p]["in"] = "open", Store(p, q), UNCHANGED <<pipe, closing>>
      PROVE  IInv'
  <2>1. requests' \in [Proc -> Seq({"queued", "written"})] /\ \A c \in Proc \ {p} : requests'[c] = requests[c]
    <3>1. Append(requests[p], x) \in Seq({"queued", "written"})
      BY TypesOf
    <3> QED
      BY <3>1, <1>5, TypesOf
  <2>2. ChangedAt(p) /\ Unopened(p)
    BY <2>1, <1>1, <1>5, TypesOf DEF ChangedAt, Unopened, Shutting
  <2>3. Framed(p)
    BY <2>2, <1>1, ObeyingFrame
  <2>4. Handled(p, q)
    BY <1>1, <1>5, Later
  <2> QED
    BY <2>2, <2>3, <2>4, <1>1, <1>2, <1>5, Stored
<1>6. CASE /\ ~q.finished /\ pipe[p]["in"] = "open"
           /\ ClosePipe(p, "in") /\ Store(p, r) /\ UNCHANGED requests
  <2>1. "in" \in Pipe
    BY TypesOf
  <2>2. ChangedAt(p) /\ Unopened(p)
    BY <2>1, <1>1, <1>6, PipeClosed, TypesOf DEF ChangedAt
  <2>3. Framed(p)
    BY <2>2, <1>1, ObeyingFrame
  <2>4. /\ \A t \in Pipe : pipe[p][t] \in {"none", "closed"} => pipe'[p][t] = pipe[p][t]
        /\ pipe'[p]["in"] = "closing"
    BY <2>1, <1>1, <1>6, PipeClosed
  <2>5. Handled(p, r)
    BY <2>4, <1>1, <1>3, <1>6, Later
  <2> QED
    BY <2>2, <2>3, <2>5, <1>1, <1>2, <1>6, Stored
<1> QED
  BY <1>4, <1>5, <1>6 DEF WriteProcess, r

\* The command that closes stdin.
LEMMA CloseInputStep ==
  ASSUME IInv, NEW p \in Proc, Obeying(p), CloseProcessInput(p)
  PROVE  IInv'
<1> DEFINE q == proc[p]
<1>1. /\ UNCHANGED <<stopped, shuttingDown, closeBatch, handle, child, requests, reads>>
      /\ q \in [Fields -> BOOLEAN] /\ ChildInv(p) /\ fate[p] # "new" /\ ~StartPending(p)'
      /\ "in" \in Pipe /\ ClosePipe(p, "in") /\ Store(p, q)
  BY ObeyingFacts, TypesOf DEF Obeying, loopVars, CloseProcessInput
<1>2. ChangedAt(p) /\ Unopened(p)
  BY <1>1, PipeClosed, TypesOf DEF ChangedAt
<1>3. Framed(p)
  BY <1>1, <1>2, ObeyingFrame
<1>4. /\ \A t \in Pipe : pipe[p][t] \in {"none", "closed"} => pipe'[p][t] = pipe[p][t]
      /\ pipe'[p]["in"] \in {"none", "closed"} => requests'[p] = <<>>
  BY <1>1, PipeClosed DEF ChildInv
<1>5. Handled(p, q)
  BY <1>1, <1>4, Later
<1>6. \A x : Unstarted(p, x)
  BY <1>1 DEF Unstarted
<1> QED
  BY <1>1, <1>2, <1>3, <1>5, <1>6, Stored

\* terminate_process(), for a command or for the shutdown.
LEMMA TerminateHandled ==
  ASSUME IInv, NEW p \in Proc, NEW signal, Framed(p), fate[p] # "new", stopped'[p],
         StartPending(p)' => shuttingDown /\ StartPending(p),
         TerminateProcess(p, signal), UNCHANGED closeBatch
  PROVE  IInv'
<1> DEFINE q == [proc[p] EXCEPT !.suppress = @ \/ signal = "SIGKILL"]
           r == With(q, {"exited", "handleClosed"})
           x == With(q, {"exception"})
<1>1. /\ UNCHANGED <<pipe, handle, closing, requests>> /\ ChildInv(p) /\ Local(p)
      /\ proc[p] \in [Fields -> BOOLEAN]
  BY TypesOf DEF TerminateProcess, IInv, LoopInv, Local
<1>2. /\ q \in [Fields -> BOOLEAN]
      /\ q.finished = proc[p].finished /\ q.started = proc[p].started /\ q.exited = proc[p].exited
      /\ q.exception = proc[p].exception /\ (proc[p].suppress => q.suppress)
      /\ q.handleClosed = proc[p].handleClosed
  BY <1>1 DEF Fields
<1>3. \/ q.finished /\ Store(p, q) /\ UNCHANGED child
      \/ ~q.finished /\ ~q.started /\ MaybeFinish(p, r, pipe[p]) /\ UNCHANGED child
      \/ ~q.finished /\ q.started /\ Store(p, q)
         /\ (UNCHANGED child
             \/ child' = [child EXCEPT ![p] = IF signal = "SIGKILL" /\ @ = "alive" THEN "killed" ELSE @])
      \/ ~q.finished /\ q.started /\ ~q.exited /\ Store(p, x) /\ UNCHANGED child
  BY DEF TerminateProcess
<1> HIDE DEF q
<1>4. Unopened(p) /\ Shutting' = Shutting
  BY <1>1 DEF Unopened, Shutting
<1>5. StartPending(p)' => /\ shuttingDown /\ StartPending(p) /\ ~q.started /\ (q.exited => q.finished)
                          /\ q.handleClosed => q.finished
                          /\ handle'[p] = "none" /\ \A s \in Pipe : pipe'[p][s] = "none"
                          /\ p \notin Shutting'
  BY <1>1, <1>2, <1>4 DEF Local, FreshInv
<1>6. CASE q.finished /\ Store(p, q) /\ UNCHANGED child
  <2>1. Handled(p, q)
    BY <1>1, <1>2, <1>6, Later DEF ChildInv
  <2>2. Unstarted(p, q)
    BY <1>5 DEF Unstarted
  <2> QED
    BY <2>1, <2>2, <1>4, <1>6, Stored DEF CanFinish
<1>7. CASE ~q.finished /\ ~q.started /\ MaybeFinish(p, r, pipe[p]) /\ UNCHANGED child
  <2>1. /\ r \in [Fields -> BOOLEAN] /\ r.finished = q.finished /\ r.started = q.started
        /\ r.exited /\ r.handleClosed /\ r.exception = q.exception
    BY <1>2, WithFacts, WithSame
  <2> HIDE DEF r
  <2>2. Handled(p, r)
    BY <1>1, <1>2, <1>7, <2>1 DEF ChildInv, Handled
  <2>3. Unstarted(p, r)
    BY <1>1, <1>5, <1>7, <2>1 DEF Unstarted, CanFinish
  <2> QED
    BY <2>2, <2>3, <1>1, <1>4, <1>7, MaybeFinished
<1>8. ASSUME ~q.finished, q.started, Store(p, q),
             \/ UNCHANGED child
             \/ child' = [child EXCEPT ![p] = IF signal = "SIGKILL" /\ @ = "alive" THEN "killed" ELSE @]
      PROVE  IInv'
  <2>1. child[p] = "dead" => child'[p] = "dead"
    BY <1>8, TypesOf
  <2>2. Handled(p, q)
    BY <1>1, <1>2, <2>1, Later DEF ChildInv
  <2>3. Unstarted(p, q) /\ ~StartPending(p)'
    BY <1>5, <1>8 DEF Unstarted
  <2> QED
    BY <2>2, <2>3, <1>4, <1>8, Stored
<1>9. CASE ~q.finished /\ q.started /\ ~q.exited /\ Store(p, x) /\ UNCHANGED child
  <2>1. /\ x \in [Fields -> BOOLEAN] /\ x.finished = q.finished /\ x.started = q.started
        /\ x.exited = q.exited /\ x.suppress = q.suppress /\ x.exception
        /\ x.handleClosed = q.handleClosed
    BY <1>2, WithFacts, WithSame
  <2> HIDE DEF x
  <2>2. Handled(p, x)
    BY <1>1, <1>2, <1>9, <2>1, Later DEF ChildInv
  <2>3. Unstarted(p, x) /\ ~StartPending(p)'
    BY <1>5, <1>9 DEF Unstarted
  <2> QED
    BY <2>2, <2>3, <1>4, <1>9, Stored
<1> QED
  BY <1>3, <1>6, <1>7, <1>8, <1>9

\* terminate_process() changes nothing but fields and whether the child is killed.
LEMMA KillTypes ==
  ASSUME IInv, NEW p \in Proc, NEW signal, TerminateProcess(p, signal), UNCHANGED closeBatch
  PROVE  ChangedAt(p) /\ UNCHANGED reads
<1>1. UNCHANGED <<pipe, handle, closing, requests, reads>>
  BY DEF TerminateProcess
<1>2. \/ UNCHANGED child
      \/ child' = [child EXCEPT ![p] = IF signal = "SIGKILL" /\ @ = "alive" THEN "killed" ELSE @]
  BY DEF TerminateProcess
<1>3. child' \in [Proc -> {"none", "alive", "killed", "dead"}] /\ \A c \in Proc \ {p} : child'[c] = child[c]
  BY <1>2, TypesOf
<1> QED
  BY <1>1, <1>3, TypesOf DEF ChangedAt, Shutting

\* Obeying the first command.
LEMMA DrainCommandStep ==
  ASSUME IInv, DrainCommand
  PROVE  IInv'
<1>1. PICK p \in Proc : p = Head(commands).process /\ Obeying(p)
  <2>1. commands \in Seq(Orders) /\ commands # <<>>
    BY DEF DrainCommand, IInv, LoopInv, LoopTypes, HandleTypes
  <2>2. Head(commands) \in Orders
    BY <2>1
  <2> QED
    BY <2>2 DEF DrainCommand, Obeying, Orders
<1>2. CASE Head(commands).kind = "Start" /\ StartProcess(p)
  BY <1>1, <1>2, StartStep
<1>3. CASE WriteProcess(p)
  BY <1>1, <1>3, WriteStep
<1>4. CASE CloseProcessInput(p)
  BY <1>1, <1>4, CloseInputStep
<1>5. CASE Head(commands).kind = "Terminate" /\ TerminateProcess(p, "SIGTERM")
  <2>1. fate[p] # "new" /\ ~StartPending(p)' /\ stopped'[p] /\ UNCHANGED closeBatch
    BY <1>1, <1>5, ObeyingFacts DEF Obeying, loopVars
  <2>2. Framed(p)
    BY <1>1, <1>5, <2>1, KillTypes, ObeyingFrame
  <2> QED
    BY <1>1, <1>5, <2>1, <2>2, TerminateHandled
<1> QED
  BY <1>1, <1>2, <1>3, <1>4, <1>5 DEF DrainCommand

\* The shutdown kills one child, which may not have been started yet.
LEMMA ShutdownStep ==
  ASSUME IInv, NEW p \in Proc, ShutdownProcess(p)
  PROVE  IInv'
<1>1. /\ looper = "shutdown" /\ p \in toStop /\ toStop' = toStop \ {p}
      /\ stopped' = [stopped EXCEPT ![p] = TRUE] /\ TerminateProcess(p, "SIGKILL")
      /\ UNCHANGED <<pending, calling, told, writes, commands, shuttingDown, looper, closeBatch,
                     shutdownStarted>>
  BY DEF ShutdownProcess, editorVars
<1>2. /\ stopped' \in [Proc -> BOOLEAN] /\ stopped'[p] /\ shuttingDown
      /\ \A c \in Proc : stopped[c] => stopped'[c]
  BY <1>1 DEF IInv, LoopInv, LoopTypes, HandleTypes
<1>3. ChangedAt(p) /\ UNCHANGED reads
  BY <1>1, KillTypes
<1>4. HandleTypes'
  BY <1>1, <1>2, <1>3 DEF ChangedAt, IInv, LoopInv, LoopTypes, HandleTypes, States, Handles
<1>5. Framed(p)
  BY <1>1, <1>2, <1>3, <1>4 DEF ChangedAt, Framed
<1>6. fate[p] # "new"
  BY <1>1 DEF IInv, LoopInv, CommandInv
<1>7. StartPending(p)' => shuttingDown /\ StartPending(p)
  BY <1>1, <1>2 DEF StartPending
<1> QED
  BY <1>1, <1>2, <1>5, <1>6, <1>7, TerminateHandled

-----------------------------------------------------------------------------
(* The loop thread: callbacks.                                             *)

\* A child with a handle is not fresh.
LEMMA Known ==
  ASSUME IInv, NEW p \in Proc, UNCHANGED commands,
         handle[p] # "none" \/ p \in Shutting \/ \E s \in Pipe : pipe[p][s] # "none"
  PROVE  fate[p] # "new" /\ ~StartPending(p)' /\ \A x : Unstarted(p, x)
<1>1. fate[p] # "new" /\ ~StartPending(p)
  BY DEF IInv, LoopInv, Local, FreshInv
<1>2. ~StartPending(p)'
  BY <1>1 DEF StartPending
<1> QED
  BY <1>1, <1>2 DEF Unstarted

\* The fields of a child that has failed.
LEMMA Excepted ==
  ASSUME NEW q \in [Fields -> BOOLEAN], NEW r, r = With(q, {"exception"})
  PROVE  /\ r \in [Fields -> BOOLEAN] /\ r.finished = q.finished /\ r.started = q.started
         /\ r.exited = q.exited /\ r.suppress = q.suppress /\ r.exception
         /\ r.handleClosed = q.handleClosed
BY WithFacts, WithSame

\* A callback that only closes one pipe of p, and may find an exception.
LEMMA CloseOne ==
  ASSUME IInv, NEW p \in Proc, NEW s \in Pipe, Calling, pipe[p][s] = "open",
         NEW q, q = proc[p] \/ q = With(proc[p], {"exception"}), Store(p, q), ClosePipe(p, s),
         reads' \in [Proc -> Nat], UNCHANGED <<handle, child, closeBatch>>,
         \/ UNCHANGED requests
         \/ s = "in" /\ requests[p] # <<>> /\ requests' = [requests EXCEPT ![p] = Tail(@)]
  PROVE  IInv'
<1>1. /\ proc[p] \in [Fields -> BOOLEAN] /\ ChildInv(p) /\ ~proc[p].finished
      /\ UNCHANGED <<commands, stopped>> /\ closeBatch \in Seq(Handles)
  BY TypesOf DEF Calling, IInv, LoopInv, Local, ChildInv, Shut
<1>2. fate[p] # "new" /\ ~StartPending(p)' /\ \A x : Unstarted(p, x)
  BY <1>1, Known
<1>3. /\ q \in [Fields -> BOOLEAN] /\ q.finished = proc[p].finished
      /\ q.started = proc[p].started /\ q.exited = proc[p].exited /\ q.suppress = proc[p].suppress
      /\ (proc[p].exception => q.exception) /\ q.handleClosed = proc[p].handleClosed
  <2>1. CASE q = proc[p]
    BY <1>1, <2>1
  <2>2. CASE q = With(proc[p], {"exception"})
    BY <1>1, <2>2, Excepted
  <2> QED
    BY <2>1, <2>2
<1>4. /\ requests' \in [Proc -> Seq({"queued", "written"})]
      /\ \A c \in Proc \ {p} : requests'[c] = requests[c]
  <2>1. CASE UNCHANGED requests
    BY <2>1, TypesOf
  <2>2. CASE requests[p] # <<>> /\ requests' = [requests EXCEPT ![p] = Tail(@)]
    <3>1. Tail(requests[p]) \in Seq({"queued", "written"})
      BY <2>2, TypesOf
    <3> QED
      BY <2>2, <3>1, TypesOf
  <2> QED
    BY <2>1, <2>2
<1>5. ChangedAt(p) /\ Unopened(p)
  BY <1>4, PipeClosed, TypesOf DEF ChangedAt
<1>6. Framed(p)
  BY <1>1, <1>5, CallingFrame
<1>7. /\ \A t \in Pipe : pipe[p][t] \in {"none", "closed"} => pipe'[p][t] = pipe[p][t]
      /\ pipe'[p][s] = "closing"
      /\ s # "in" => pipe'[p]["in"] \in {"closing", "open"} \/ pipe'[p]["in"] = pipe[p]["in"]
  BY PipeClosed, TypesOf
<1>8. pipe'[p]["in"] \in {"none", "closed"} => requests'[p] = <<>>
  BY <1>1, <1>7 DEF ChildInv
<1>9. Handled(p, q)
  BY <1>1, <1>2, <1>3, <1>7, <1>8, Later
<1> QED
  BY <1>2, <1>5, <1>6, <1>9, Stored

\* A callback of p that may change its requests and nothing else.
LEMMA CloseNone ==
  ASSUME IInv, NEW p \in Proc, NEW s \in Pipe, Calling, pipe[p][s] = "open",
         UNCHANGED <<pipe, closing, handle, child, closeBatch, processes, outstanding, ready, fate>>,
         proc' = [proc EXCEPT ![p] = proc[p]],
         reads' \in [Proc -> Nat], requests' \in [Proc -> Seq({"queued", "written"})],
         \A c \in Proc \ {p} : requests'[c] = requests[c],
         s = "in" \/ UNCHANGED requests
  PROVE  IInv'
<1>1. /\ proc[p] \in [Fields -> BOOLEAN] /\ ChildInv(p) /\ UNCHANGED <<commands, stopped>>
      /\ closeBatch \in Seq(Handles)
  BY TypesOf DEF Calling, IInv, LoopInv, Local
<1>2. fate[p] # "new" /\ ~StartPending(p)' /\ \A x : Unstarted(p, x)
  BY <1>1, Known
<1>3. ChangedAt(p) /\ Unopened(p)
  BY TypesOf DEF ChangedAt, Unopened, Shutting
<1>4. Framed(p)
  BY <1>1, <1>3, CallingFrame
<1>5. pipe'[p]["in"] \in {"none", "closed"} => requests'[p] = <<>>
  BY <1>1 DEF ChildInv
<1>6. Handled(p, proc[p])
  BY <1>1, <1>2, <1>5, Later
<1> QED
  BY <1>2, <1>3, <1>4, <1>6, Stored DEF Store

\* The child takes a request out of its stdin.
LEMMA ChildReadsStep ==
  ASSUME IInv, NEW p \in Proc, ChildReads(p)
  PROVE  IInv'
<1>1. PICK i \in DOMAIN requests[p] : requests' = [requests EXCEPT ![p][i] = "written"]
  BY DEF ChildReads
<1>2. /\ pipe[p]["in"] = "open" /\ "in" \in Pipe
      /\ UNCHANGED <<editorVars, processes, outstanding, stopped, commands, ready, shuttingDown, proc,
                     pipe, handle, closing, looper, closeBatch, shutdownStarted, toStop, child, reads,
                     fate>>
  BY TypesOf DEF ChildReads, sharedVars, loopVars, osVars
<1>3. Calling
  <2>1. looper # "exit"
    BY <1>2 DEF IInv, LoopInv, Local, ChildInv, Shut
  <2> QED
    BY <1>2, <2>1 DEF Calling
<1>4. /\ requests' \in [Proc -> Seq({"queued", "written"})]
      /\ \A c \in Proc \ {p} : requests'[c] = requests[c]
  <2> DEFINE s == [requests[p] EXCEPT ![i] = "written"]
  <2>1. s \in Seq({"queued", "written"})
    BY TypesOf, ExceptSeq
  <2>2. requests' = [requests EXCEPT ![p] = s]
    BY <1>1
  <2> HIDE DEF s
  <2> QED
    BY <2>1, <2>2, TypesOf
<1>5. proc' = [proc EXCEPT ![p] = proc[p]]
  BY <1>2, TypesOf
<1> QED
  BY <1>2, <1>3, <1>4, <1>5, CloseNone, TypesOf

\* on_process_write(), of a request that was written and of one that was not.
LEMMA OnWriteStep ==
  ASSUME IInv, NEW p \in Proc, OnWrite(p)
  PROVE  IInv'
<1>1. /\ Calling /\ pipe[p]["in"] = "open" /\ "in" \in Pipe
      /\ requests[p] # <<>> /\ requests' = [requests EXCEPT ![p] = Tail(@)]
      /\ UNCHANGED <<handle, child, closeBatch, reads>>
  BY TypesOf DEF OnWrite, Polling, Calling, loopVars, osVars
<1>2. CASE Store(p, proc[p]) /\ UNCHANGED <<pipe, closing>>
  <2>1. Tail(requests[p]) \in Seq({"queued", "written"})
    BY <1>1, TypesOf
  <2>2. requests' \in [Proc -> Seq({"queued", "written"})] /\ \A c \in Proc \ {p} : requests'[c] = requests[c]
    BY <1>1, <2>1, TypesOf
  <2> QED
    BY <1>1, <1>2, <2>2, CloseNone, TypesOf DEF Store
<1>3. CASE Store(p, With(proc[p], {"exception"})) /\ ClosePipe(p, "in")
  BY <1>1, <1>3, CloseOne, TypesOf
<1> QED
  BY <1>2, <1>3 DEF OnWrite

\* on_process_read() at the end of file or with an error.
LEMMA OnReadEndStep ==
  ASSUME IInv, NEW p \in Proc, NEW s \in Output, OnReadEnd(p, s)
  PROVE  IInv'
<1>1. /\ Calling /\ pipe[p][s] = "open" /\ s \in Pipe /\ ClosePipe(p, s)
      /\ UNCHANGED <<handle, child, closeBatch, reads, requests>>
      /\ Store(p, proc[p]) \/ Store(p, With(proc[p], {"exception"}))
  BY DEF OnReadEnd, Polling, Calling, loopVars, osVars, Pipe
<1> QED
  BY <1>1, CloseOne, TypesOf

\* on_process_read() with data: a chunk is published, kept, or too much.
LEMMA OnReadStep ==
  ASSUME IInv, NEW p \in Proc, NEW s \in Output, OnRead(p, s)
  PROVE  IInv'
<1>1. /\ Calling /\ pipe[p][s] = "open" /\ s \in Pipe
      /\ UNCHANGED <<handle, child, closeBatch, requests, commands, stopped>>
      /\ reads' = [reads EXCEPT ![p] = @ + 1]
  BY DEF OnRead, Polling, Calling, loopVars, Pipe
<1>2. reads' \in [Proc -> Nat]
  BY <1>1, TypesOf
<1>3. CASE Store(p, proc[p]) /\ UNCHANGED <<pipe, closing>>
  BY <1>1, <1>2, <1>3, CloseNone, TypesOf DEF Store
<1>4. CASE Store(p, With(proc[p], {"exception"})) /\ ClosePipe(p, s)
  BY <1>1, <1>2, <1>4, CloseOne, TypesOf
<1>5. CASE /\ ready' = Append(ready, Record("Chunk", p))
           /\ UNCHANGED <<proc, processes, outstanding, fate, pipe, closing>>
  <2>1. fate[p] # "new" /\ ~StartPending(p)' /\ \A x : Unstarted(p, x)
    BY <1>1, Known
  <2>2. ChildInv(p) /\ ~proc[p].finished /\ p \in processes /\ Announced(p)
    BY <2>1, <1>1 DEF IInv, LoopInv, Local, ChildInv, Shut
  <2>3. ChangedAt(p) /\ Unopened(p) /\ closeBatch \in Seq(Handles)
    BY <1>1, <1>5, Untouched, TypesOf
  <2>4. Framed(p)
    BY <1>1, <1>2, <2>3, CallingFrame
  <2>5. Handled(p, proc[p])
    BY <1>1, <1>5, <2>1, SameHandled
  <2>6. proc' = [proc EXCEPT ![p] = proc[p]]
    BY <1>5, TypesOf
  <2>7. /\ QueueInv'
        /\ \A c \in Proc : Announced(c) => Announced(c)'
        /\ \A c \in Proc \ {p} : Silent(c) => Silent(c)'
    <3>1. "Chunk" \in Kinds /\ "Chunk" \notin Terminal
      BY DEF Kinds, Terminal
    <3>2. UNCHANGED <<pending, calling, told, shuttingDown>>
      BY <1>1 DEF Calling, editorVars
    <3> QED
      BY <3>1, <3>2, <2>2, <1>5, Published DEF IInv
  <2> QED
    BY <2>1, <2>3, <2>4, <2>5, <2>6, <2>7, <1>5, Kept
<1> QED
  BY <1>3, <1>4, <1>5 DEF OnRead

\* on_process_exit(), which closes everything its child has.
LEMMA OnExitStep ==
  ASSUME IInv, NEW p \in Proc, OnExit(p)
  PROVE  IInv'
<1>1. /\ Calling /\ child[p] = "dead" /\ handle[p] = "open"
      /\ UNCHANGED <<requests, child, closeBatch, reads, commands, stopped>>
  BY DEF OnExit, Polling, Calling, loopVars, osVars
<1>2. fate[p] # "new" /\ ~StartPending(p)' /\ \A x : Unstarted(p, x)
  BY <1>1, Known
<1>3. proc[p] \in [Fields -> BOOLEAN] /\ ChildInv(p) /\ closeBatch \in Seq(Handles)
  BY TypesOf DEF IInv, LoopInv, Local
<1>4. CASE Store(p, proc[p]) /\ UNCHANGED <<pipe, handle, closing>>
  <2>1. ChangedAt(p) /\ Unopened(p)
    BY <1>1, <1>4, Untouched
  <2>2. Framed(p)
    BY <1>1, <1>3, <2>1, CallingFrame, TypesOf
  <2>3. Handled(p, proc[p])
    BY <1>1, <1>2, <1>4, SameHandled
  <2> QED
    BY <1>2, <1>4, <2>1, <2>2, <2>3, Stored
<1>5. ASSUME p \in processes, Store(p, With(proc[p], {"exited"})),
             pipe' = [pipe EXCEPT ![p] = AfterClose(@, Pipe)],
             closing' = ClosedChild(p) \o ClosedInOrder(p, pipe[p], AllPipes) \o closing,
             handle' = [handle EXCEPT ![p] = "closing"]
      PROVE  IInv'
  <2> DEFINE r == With(proc[p], {"exited"})
             after == AfterClose(pipe[p], Pipe)
             all == ClosedInOrder(p, pipe[p], AllPipes)
             both == ClosedChild(p) \o all
  <2>1. /\ r \in [Fields -> BOOLEAN] /\ r.finished = proc[p].finished /\ r.exited
        /\ ~r.handleClosed
    <3>1. "exited" \in {"exited"} /\ "finished" \notin {"exited"} /\ "handleClosed" \notin {"exited"}
      OBVIOUS
    <3>2. ~proc[p].handleClosed
      BY <1>1, <1>3 DEF ChildInv
    <3> QED
      BY <1>3, <3>1, <3>2, StartedOrExited
  <2>2. /\ after \in [Pipe -> States]
        /\ \A s \in Pipe : after[s] = IF pipe[p][s] = "open" THEN "closing" ELSE pipe[p][s]
    <3>1. pipe[p] \in [Pipe -> States]
      BY TypesOf
    <3> QED
      BY <3>1, AfterCloseFacts
  <2>3. all \in Seq(Handles) /\ Owners(all) \subseteq {p}
    BY ClosedInOrderFacts DEF AllPipes, Pipe, Output
  <2>4. both \in Seq(Handles) /\ Owners(both) \subseteq {p}
    <3> HIDE DEF all
    <3> QED
      BY <2>3, ClosedChildFacts, JoinHandles
  <2>5. closing' = both \o closing
    BY <1>5
  <2>6. pipe' = [pipe EXCEPT ![p] = after]
    BY <1>5
  <2> HIDE DEF r, after, all, both
  <2>7. /\ pipe'[p] = after /\ pipe' \in [Proc -> [Pipe -> States]]
        /\ \A c \in Proc \ {p} : pipe'[c] = pipe[c]
    BY <2>2, <2>6, TypesOf
  <2>8. /\ handle'[p] = "closing" /\ handle' \in [Proc -> States]
        /\ \A c \in Proc \ {p} : handle'[c] = handle[c]
    <3>1. "closing" \in States
      BY DEF States
    <3> QED
      BY <3>1, <1>5, TypesOf
  <2>9. closing' \in Seq(Handles) /\ Shutting' \subseteq Shutting \cup {p}
    BY <1>1, <2>4, <2>5, ClosingGrows
  <2>10. ChangedAt(p) /\ Unopened(p)
    <3>1. Unopened(p)
      BY <2>2, <2>7 DEF Unopened
    <3> QED
      BY <3>1, <1>1, <2>7, <2>8, <2>9, TypesOf DEF ChangedAt
  <2>11. Framed(p)
    BY <1>1, <1>3, <2>10, CallingFrame, TypesOf
  <2>12. ~proc[p].finished
    BY <1>3, <1>5 DEF ChildInv
  <2>13. pipe'[p]["in"] \in {"none", "closed"} => requests'[p] = <<>>
    BY <1>1, <1>3, <2>2, <2>7, TypesOf DEF ChildInv
  <2>14. Handled(p, r)
    BY <1>1, <1>2, <2>1, <2>8, <2>12, <2>13 DEF Handled
  <2> QED
    BY <1>2, <1>5, <2>10, <2>11, <2>14, Stored DEF r
<1> QED
  BY <1>4, <1>5 DEF OnExit

\* The close callbacks: of the process, and of a pipe with its requests.
LEMMA OnClosedStep ==
  ASSUME IInv, OnClosed
  PROVE  IInv'
<1>1. /\ Calling /\ closeBatch \in Seq(Handles) /\ closeBatch # <<>> /\ closeBatch' = Tail(closeBatch)
      /\ UNCHANGED <<closing, child, reads, commands, stopped>>
  BY TypesOf DEF OnClosed, Calling, osVars
<1>2. /\ Head(closeBatch) \in Handles /\ closeBatch' \in Seq(Handles)
      /\ Owners(closeBatch') \subseteq Owners(closeBatch) /\ Head(closeBatch)[1] \in Owners(closeBatch)
  BY <1>1, TailFacts DEF Owners
<1>3. PICK p \in Proc, s \in Pipe \cup {"child"} : p = Head(closeBatch)[1] /\ s = Head(closeBatch)[2]
  BY <1>2 DEF Handles
<1>4. p \in Shutting /\ Shutting' \subseteq Shutting
  BY <1>1, <1>2, <1>3 DEF Shutting
<1>5. fate[p] # "new" /\ ~StartPending(p)' /\ \A x : Unstarted(p, x)
  BY <1>1, <1>4, Known
<1>6. proc[p] \in [Fields -> BOOLEAN] /\ ChildInv(p)
  BY TypesOf DEF IInv, LoopInv, Local
<1>7. ASSUME handle' = [handle EXCEPT ![p] = "closed"],
             IF p \in processes THEN MaybeFinish(p, With(proc[p], {"handleClosed"}), pipe[p])
                                ELSE Store(p, proc[p]),
             UNCHANGED <<pipe, requests>>
      PROVE  IInv'
  <2> DEFINE r == With(proc[p], {"handleClosed"})
  <2>1. /\ handle'[p] = "closed" /\ handle' \in [Proc -> States]
        /\ \A c \in Proc \ {p} : handle'[c] = handle[c]
    <3>1. "closed" \in States
      BY DEF States
    <3> QED
      BY <3>1, <1>7, TypesOf
  <2>2. ChangedAt(p) /\ Unopened(p)
    BY <1>1, <1>4, <1>7, <2>1, TypesOf DEF ChangedAt, Unopened
  <2>3. Framed(p)
    BY <1>1, <1>2, <2>2, CallingFrame, TypesOf
  <2>4. ASSUME NEW x \in [Fields -> BOOLEAN], x.finished = proc[p].finished,
               x.exited = proc[p].exited, x.exception = proc[p].exception,
               x.suppress = proc[p].suppress, proc[p].handleClosed => x.handleClosed
        PROVE  Handled(p, x)
    BY <1>1, <1>5, <1>6, <1>7, <2>1, <2>4 DEF Handled, ChildInv, Shut
  <2>5. CASE MaybeFinish(p, r, pipe[p])
    <3>1. /\ r \in [Fields -> BOOLEAN] /\ r.finished = proc[p].finished
          /\ r.exited = proc[p].exited /\ r.exception = proc[p].exception
          /\ r.suppress = proc[p].suppress /\ r.handleClosed
      BY <1>6, WithFacts, WithSame
    <3> HIDE DEF r
    <3>2. Handled(p, r)
      BY <3>1, <2>4
    <3> QED
      BY <3>2, <2>2, <2>3, <2>5, <1>5, <1>7, MaybeFinished
  <2>6. CASE Store(p, proc[p])
    <3>1. Handled(p, proc[p])
      BY <2>4, <1>6
    <3> QED
      BY <3>1, <2>2, <2>3, <2>6, <1>5, Stored
  <2> QED
    BY <1>7, <2>5, <2>6
<1>8. ASSUME s \in Pipe, NEW pp, pp = [pipe[p] EXCEPT ![s] = "closed"],
             NEW F, F = IF s = "in" /\ "queued" \in Range(requests[p]) THEN {"exception"} ELSE {},
             pipe' = [pipe EXCEPT ![p] = pp],
             requests' = IF s = "in" THEN [requests EXCEPT ![p] = <<>>] ELSE requests,
             MaybeFinish(p, With(proc[p], F), pp), UNCHANGED handle
      PROVE  IInv'
  <2> DEFINE r == With(proc[p], F)
  <2>1. /\ pp \in [Pipe -> States] /\ pp[s] = "closed"
        /\ \A t \in Pipe : t # s => pp[t] = pipe[p][t]
    <3>1. "closed" \in States
      BY DEF States
    <3> QED
      BY <3>1, <1>8, TypesOf
  <2>2. /\ pipe'[p] = pp /\ pipe' \in [Proc -> [Pipe -> States]]
        /\ \A c \in Proc \ {p} : pipe'[c] = pipe[c]
    BY <2>1, <1>8, TypesOf
  <2>3. /\ requests' \in [Proc -> Seq({"queued", "written"})]
        /\ \A c \in Proc \ {p} : requests'[c] = requests[c]
        /\ requests'[p] = IF s = "in" THEN <<>> ELSE requests[p]
    <3>1. <<>> \in Seq({"queued", "written"})
      BY EmptySeq
    <3> QED
      BY <3>1, <1>8, TypesOf
  <2>4. ChangedAt(p) /\ Unopened(p)
    <3>1. Unopened(p)
      BY <2>1, <2>2 DEF Unopened
    <3> QED
      BY <3>1, <1>1, <1>4, <1>8, <2>2, <2>3, TypesOf DEF ChangedAt
  <2>5. Framed(p)
    BY <1>1, <1>2, <2>4, CallingFrame, TypesOf
  <2>6. /\ "finished" \notin F /\ "exited" \notin F /\ "started" \notin F /\ "suppress" \notin F
        /\ "handleClosed" \notin F
    BY <1>8
  <2>7. /\ r \in [Fields -> BOOLEAN] /\ r.finished = proc[p].finished /\ r.started = proc[p].started
        /\ r.exited = proc[p].exited /\ r.suppress = proc[p].suppress
        /\ r.exception = ("exception" \in F \/ proc[p].exception)
        /\ r.handleClosed = proc[p].handleClosed
    BY <1>6, <2>6, WithFacts, WithSame
  <2> HIDE DEF r
  <2>8. proc[p].finished => "exception" \notin F /\ handle[p] # "open" /\ Shut(p)'
    <3> SUFFICES ASSUME proc[p].finished
                 PROVE  "exception" \notin F /\ handle[p] # "open" /\ Shut(p)'
      OBVIOUS
    <3>1. handle[p] # "open" /\ \A t \in Pipe : pipe[p][t] \in {"none", "closed"}
      BY <1>6 DEF ChildInv, Shut
    <3>2. Shut(p)'
      BY <3>1, <2>1, <2>2 DEF Shut
    <3>3. requests[p] = <<>>
      BY <3>1, <1>6, TypesOf DEF ChildInv
    <3>4. Range(requests[p]) = {}
      BY <3>3 DEF Range
    <3> QED
      BY <3>1, <3>2, <3>4, <1>8
  <2>9. pipe'[p]["in"] \in {"none", "closed"} => requests'[p] = <<>>
    BY <1>6, <2>1, <2>2, <2>3, TypesOf DEF ChildInv
  <2>10. proc[p].finished => r.exception = proc[p].exception
    BY <2>7, <2>8, <1>6 DEF Fields
  <2>11. Handled(p, r)
    BY <1>1, <1>5, <1>6, <1>8, <2>7, <2>8, <2>9, <2>10 DEF Handled, ChildInv
  <2> QED
    BY <1>5, <1>8, <2>2, <2>4, <2>5, <2>11, MaybeFinished DEF r
<1> QED
  BY <1>3, <1>7, <1>8 DEF OnClosed

-----------------------------------------------------------------------------
(* The invariant and what follows from it.                                 *)

\* Nothing has been spawned.
LEMMA InitInv ==
  ASSUME Init
  PROVE  IInv
<1>1. /\ pending = <<>> /\ ready = <<>> /\ commands = <<>> /\ closing = <<>> /\ closeBatch = <<>>
      /\ calling = FALSE /\ processes = {} /\ outstanding = 0 /\ toStop = {}
      /\ shuttingDown = FALSE /\ shutdownStarted = FALSE /\ looper = "poll"
  BY DEF Init
<1>2. \A p \in Proc : /\ writes[p] = 0 /\ reads[p] = 0 /\ told[p] = <<>> /\ stopped[p] = FALSE
                      /\ proc[p] = [f \in Fields |-> FALSE] /\ pipe[p] = [s \in Pipe |-> "none"]
                      /\ handle[p] = "none" /\ requests[p] = <<>> /\ child[p] = "none"
                      /\ fate[p] = "new"
  BY DEF Init
<1>3. Queue = <<>>
  BY <1>1 DEF Queue
<1>4. QueueTypes
  <2>1. told \in [Proc -> Seq(Kinds)] /\ fate \in [Proc -> Fates]
    BY EmptySeq DEF Init, Fates
  <2> QED
    BY <1>1, <2>1, EmptySeq DEF QueueTypes
<1>5. OutstandingIsExact
  <2>1. {p \in Proc : fate[p] = "open"} = {}
    BY <1>2
  <2> QED
    BY <1>1, <2>1, FS_EmptySet DEF OutstandingIsExact
<1>6. OrderInv /\ EndInv /\ ToldInv
  <2>1. OrderInv
    BY <1>3 DEF OrderInv
  <2>2. EndInv
    BY <1>1, <1>2, <1>3 DEF EndInv
  <2>3. ToldInv
    BY <1>2, <1>3 DEF ToldInv, CallbacksInOrder
  <2> QED
    BY <2>1, <2>2, <2>3
<1>7. LoopTypes
  <2>1. /\ writes \in [Proc -> Nat] /\ reads \in [Proc -> Nat] /\ stopped \in [Proc -> BOOLEAN]
        /\ handle \in [Proc -> {"none", "open", "closing", "closed"}]
        /\ child \in [Proc -> {"none", "alive", "killed", "dead"}]
        /\ requests \in [Proc -> Seq({"queued", "written"})]
    BY EmptySeq DEF Init
  <2>2. pipe \in [Proc -> [Pipe -> {"none", "open", "closing", "closed"}]]
    BY DEF Init
  <2>3. proc \in [Proc -> [Fields -> BOOLEAN]]
    BY DEF Init
  <2> QED
    BY <1>1, <2>1, <2>2, <2>3, EmptySeq DEF LoopTypes, HandleTypes
<1>8. CommandInv /\ EndIsTruthful
  BY <1>1 DEF CommandInv, EndIsTruthful, Range
<1>9. ASSUME NEW p \in Proc
      PROVE  Local(p)
  <2>1. /\ ~proc[p].started /\ ~proc[p].exited /\ ~proc[p].finished /\ ~proc[p].handleClosed
        /\ \A s \in Pipe : pipe[p][s] = "none"
    BY <1>2 DEF Fields
  <2>2. Shutting = {}
    BY <1>1 DEF Shutting, Owners
  <2>3. ChildInv(p)
    BY <1>1, <1>2, <2>1 DEF ChildInv, Shut
  <2>4. FreshInv(p)
    BY <1>2, <1>3, <2>1, <2>2 DEF FreshInv, Silent
  <2> QED
    BY <2>3, <2>4 DEF Local
<1> QED
  BY <1>4, <1>5, <1>6, <1>7, <1>8, <1>9 DEF IInv, QueueInv, LoopInv

\* Every step, of whichever thread.
LEMMA NextStep ==
  ASSUME IInv, [Next]_vars
  PROVE  IInv'
<1>1. CASE \E p \in Proc : Spawn(p) \/ Write(p) \/ CloseInput(p) \/ Terminate(p)
  BY <1>1, SpawnStep, CommandStep
<1>2. CASE \E p \in Proc : ChildReads(p) \/ OnWrite(p) \/ OnExit(p) \/ ShutdownProcess(p)
  BY <1>2, ChildReadsStep, OnWriteStep, OnExitStep, ShutdownStep
<1>3. CASE \E p \in Proc, s \in Output : OnRead(p, s) \/ OnReadEnd(p, s)
  BY <1>3, OnReadStep, OnReadEndStep
<1>4. CASE Drain \/ RunCallback \/ CallbackReturns \/ Destroy \/ Joined
  BY <1>4, EditorStep
<1>5. CASE \/ UNCHANGED vars
           \/ DrainCommands \/ BeginShutdown \/ DrainDone \/ ShutdownDone \/ RunClosing \/ LoopExit
           \/ \E p \in Proc : ChildDies(p)
  BY <1>5, PhaseStep
<1>6. CASE DrainCommand \/ OnClosed
  BY <1>6, DrainCommandStep, OnClosedStep
<1> QED
  BY <1>1, <1>2, <1>3, <1>4, <1>5, <1>6 DEF Next, LoopThread

\* The invariant holds at every step of the editor thread, the loop thread and
\* the children.
THEOREM ProcessInvariant == Spec => []IInv
<1>1. Init => IInv
  BY InitInv
<1>2. IInv /\ [Next]_vars => IInv'
  BY NextStep
<1> QED
  BY <1>1, <1>2, PTL DEF Spec

\* Every variable keeps its type.
THEOREM ProcessTypes == Spec => []TypeOK
<1>1. IInv => TypeOK
  <2> SUFFICES ASSUME IInv
               PROVE  TypeOK
    OBVIOUS
  <2>1. outstanding \in Nat
    <3>1. Cardinality({p \in Proc : fate[p] = "open"}) \in Nat
      BY ProcAssumption, FS_Subset, FS_CardinalityType
    <3> QED
      BY <3>1 DEF IInv, QueueInv, OutstandingIsExact
  <2> QED
    BY <2>1 DEF IInv, QueueInv, QueueTypes, LoopInv, LoopTypes, HandleTypes, TypeOK
<1> QED
  BY <1>1, ProcessInvariant, PTL

\* The counter behind has_work() is exactly the number of open children, and of
\* the end callbacks that are running.
THEOREM ProcessCount == Spec => []OutstandingIsExact
<1>1. IInv => OutstandingIsExact
  BY DEF IInv, QueueInv
<1> QED
  BY <1>1, ProcessInvariant, PTL

\* An owner hears of the start first and of the end last and once.
THEOREM ProcessOrder == Spec => []CallbacksInOrder
<1>1. IInv => CallbacksInOrder
  BY DEF IInv, QueueInv, ToldInv
<1> QED
  BY <1>1, ProcessInvariant, PTL

\* While libuv may still call back for a handle, the one it has to close included,
\* find_process() finds its child: unless uv_spawn had failed and the child was stopped,
\* when the process may have finished before its handle is closed.
THEOREM ProcessHandles == Spec => []LiveHandlesAreKnown
<1>1. IInv => LiveHandlesAreKnown
  <2> SUFFICES ASSUME IInv, NEW p \in Proc
               PROVE  /\ handle[p] = "open" \/ (\E s \in Pipe : pipe[p][s] \in {"open", "closing"})
                            => p \in processes
                      /\ handle[p] = "closing" => p \in processes \/ (~proc[p].started /\ stopped[p])
    BY DEF LiveHandlesAreKnown
  <2>1. ChildInv(p) /\ FreshInv(p)
    BY DEF IInv, LoopInv, Local
  <2>2. CASE handle[p] = "open" \/ \E s \in Pipe : pipe[p][s] \in {"open", "closing"}
    <3>1. fate[p] # "new"
      BY <2>1, <2>2 DEF FreshInv
    <3>2. ~proc[p].finished
      BY <2>1, <2>2 DEF ChildInv, Shut
    <3>3. p \in processes
      BY <2>1, <3>1, <3>2 DEF ChildInv
    <3>4. handle[p] = "closing" => p \in processes \/ (~proc[p].started /\ stopped[p])
      BY <3>3
    <3> QED
      BY <3>3, <3>4
  <2>3. ASSUME handle[p] = "closing"
        PROVE  p \in processes \/ (~proc[p].started /\ stopped[p])
    <3>1. fate[p] # "new"
      BY <2>1, <2>3 DEF FreshInv
    <3>2. CASE proc[p].finished
      BY <2>1, <2>3, <3>2 DEF ChildInv
    <3>3. CASE ~proc[p].finished
      BY <2>1, <3>1, <3>3 DEF ChildInv
    <3> QED
      BY <3>2, <3>3
  <2> QED
    BY <2>2, <2>3
<1> QED
  BY <1>1, ProcessInvariant, PTL

\* The end an owner is told of is the one that happened.
THEOREM ProcessEnds == Spec => []EndIsTruthful
<1>1. IInv => EndIsTruthful
  BY DEF IInv, LoopInv
<1> QED
  BY <1>1, ProcessInvariant, PTL
=============================================================================
