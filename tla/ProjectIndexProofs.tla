-------------------------- MODULE ProjectIndexProofs --------------------------
(***************************************************************************)
(* Proofs about ProjectIndex, for any number of directories, changes of    *)
(* the disk, requests and watches, and for any limit on the watches kept:  *)
(* coalesced requests keep their scan, dropped and retained watches are    *)
(* told apart, and no change falls between a scan and a watch.             *)
(***************************************************************************)
EXTENDS ProjectIndex, FiniteSetTheorems, SequenceTheorems, TLAPS

-----------------------------------------------------------------------------
(* The inductive invariant, part by part.                                  *)

\* A task of the service is a scan of the current generation.
TaskInv ==
    /\ refreshPending => indexTask
    /\ indexTask <=> indexing
    /\ indexTask <=> scan.phase # "idle"
    /\ indexTask => scan.generation = generation

\* The ready records that carry the result of a scan.
Results == {k \in DOMAIN ready : ready[k].id = None}

\* A scan that is done has its one result on the way, and one that was not cut
\* short has read what it found.
ResultInv ==
    /\ IF scan.phase = "done" THEN \E k \in DOMAIN ready : Results = {k} ELSE Results = {}
    /\ \A k \in DOMAIN ready : ready[k].kind = "Indexed" => scan.todo = {}
    /\ scan.phase = "submitted" => scan.found = {}

\* What is retained was requested by now and not told to stop, and no two
\* directories share a watch.
WatchInv ==
    /\ \A i \in Id : i >= nextId => ~watch[i].stopped
    /\ \A d \in Dir, i \in Id : retained[d] = i => i < nextId /\ ~watch[i].stopped
    /\ \A d, e \in Dir : retained[d] = retained[e] => d = e \/ retained[d] = None

\* A handle follows a directory that has been made by now.
HandleInv ==
    /\ \A d \in Dir : disk[d].born <= clock
    /\ \A i \in Id : watch[i].state = "active" => watch[i].born \in 1..clock

Held(d, i) == retained[d] = i /\ Follows(i, d)

\* What changed after the scan under way had read it is read again, or the watch
\* that follows it has yet to report.
ScanGap ==
    \A d \in Dir, i \in Id :
        /\ Held(d, i)
        /\ scan.phase \in {"reading", "done"} /\ d \in scan.found \ scan.todo
        /\ scan.seen[d] # disk[d].changed
        => refreshPending \/ Reports(i)

\* NoEventGap, with the watch as a parameter.
EventGap ==
    \A d \in Dir, i \in Id :
        Held(d, i) /\ ~ScanFailed /\ index[d] # disk[d].changed
        => WillRead(d) \/ Reports(i) \/ WillDrop(d)

IInv == /\ TypeOK /\ TaskInv /\ ResultInv /\ WatchInv /\ HandleInv /\ ScanGap /\ EventGap


-----------------------------------------------------------------------------
(* Ranks, records and queues.                                              *)

\* The bounds are numbers.
LEMMA Bounds == /\ Dirs \in Nat \ {0} /\ MaxIds \in Nat \ {0} /\ MaxChanges \in Nat
                /\ MaxWatches \in Nat /\ MaxRequests \in Nat
  BY BoundAssumption

\* A finite set of numbers is numbered in order.
LEMMA RankFacts ==
  ASSUME NEW S \in SUBSET Dir
  PROVE  /\ IsFiniteSet(S) /\ Cardinality(S) \in Nat
         /\ \A d \in S : Rank(S, d) \in 1..Cardinality(S)
         /\ \A d, e \in S : Rank(S, d) = Rank(S, e) => d = e
         /\ \A k \in 1..Cardinality(S) : \E d \in S : Rank(S, d) = k
<1> DEFINE below(d) == {e \in S : e <= d}
<1> PICK n : n = Cardinality(S)
  OBVIOUS
<1>1. IsFiniteSet(S)
  <2>1. IsFiniteSet(Dir)
    BY FS_Interval, Bounds DEF Dir
  <2> QED BY <2>1, FS_Subset
<1>2. n \in Nat
  BY <1>1, FS_CardinalityType
<1>3. \A d \in S : /\ IsFiniteSet(below(d)) /\ Cardinality(below(d)) \in 1..n
  <2> TAKE d \in S
  <2>1. below(d) \in SUBSET S /\ d \in below(d)
    BY DEF Dir
  <2>2. IsFiniteSet(below(d)) /\ Cardinality(below(d)) <= n
    BY <2>1, <1>1, FS_Subset
  <2>3. Cardinality(below(d)) \in Nat /\ Cardinality(below(d)) # 0
    BY <2>1, <2>2, FS_CardinalityType, FS_EmptySet
  <2> QED BY <2>2, <2>3, <1>2
<1>4. \A d, e \in S : d < e => Cardinality(below(d)) # Cardinality(below(e))
  <2> SUFFICES ASSUME NEW d \in S, NEW e \in S, d < e, Cardinality(below(d)) = Cardinality(below(e))
               PROVE  FALSE
    OBVIOUS
  <2>0. \A x \in S : x \in Int
    BY DEF Dir
  <2>1. below(d) \in SUBSET below(e) /\ e \in below(e) /\ e \notin below(d)
    BY <2>0
  <2>2. below(e) = below(d)
    BY <2>1, <1>3, FS_Subset
  <2> QED BY <2>1, <2>2
<1>5. \A d, e \in S : Cardinality(below(d)) = Cardinality(below(e)) => d = e
  BY <1>4 DEF Dir
<1> DEFINE f == [d \in S |-> Cardinality(below(d))]
<1>6. f \in Injection(S, 1..n)
  BY <1>3, <1>5 DEF Injection, IsInjective
<1>7. IsFiniteSet(1..n) /\ Cardinality(1..n) = n
  BY <1>2, FS_Interval
<1>8. f \in Surjection(S, 1..n)
  BY <1>6, <1>7, FS_Injection
<1>9. \A k \in 1..n : \E d \in S : Cardinality(below(d)) = k
  BY <1>8 DEF Surjection
<1> QED BY <1>1, <1>2, <1>3, <1>5, <1>9 DEF Rank

\* What a record says and where it comes from.
LEMMA RecordFacts ==
  ASSUME NEW r \in Records
  PROVE  /\ r.id = None <=> r.kind \in {"Indexed", "IndexFailed"}
         /\ r.id \in Id \cup {None}
         /\ r.kind \in {"Indexed", "IndexFailed", "Started", "Changed", "Failed"}
         /\ None \notin Id
  BY Bounds DEF Records, Id, None

\* A record at the end of the queue.
LEMMA Appended ==
  ASSUME NEW q \in Seq(Records), NEW r \in Records
  PROVE  /\ Append(q, r) \in Seq(Records)
         /\ DOMAIN Append(q, r) = DOMAIN q \cup {Len(q) + 1}
         /\ \A k \in DOMAIN q : k # Len(q) + 1 /\ Append(q, r)[k] = q[k]
         /\ Append(q, r)[Len(q) + 1] = r
  OBVIOUS

\* The queue without its first record.
LEMMA Shifted ==
  ASSUME NEW S, NEW q \in Seq(S), q # <<>>
  PROVE  /\ Tail(q) \in Seq(S) /\ Head(q) \in S
         /\ 1 \in DOMAIN q /\ Head(q) = q[1]
         /\ \A k \in DOMAIN Tail(q) : k + 1 \in DOMAIN q /\ Tail(q)[k] = q[k + 1]
         /\ \A k \in DOMAIN q \ {1} : k - 1 \in DOMAIN Tail(q) /\ Tail(q)[k - 1] = q[k]
<1>1. /\ Tail(q) \in Seq(S) /\ Head(q) \in S /\ Len(Tail(q)) = Len(q) - 1
      /\ \A i \in 1..Len(Tail(q)) : Tail(q)[i] = q[i + 1]
  BY HeadTailProperties
<1>2. Len(q) \in Nat \ {0} /\ DOMAIN q = 1..Len(q) /\ DOMAIN Tail(q) = 1..Len(Tail(q))
  BY <1>1, EmptySeq, LenProperties
<1>3. Head(q) = q[1]
  OBVIOUS
<1> QED BY <1>1, <1>2, <1>3

\* Ids given out at a time.
LEMMA FreshIds ==
  ASSUME NEW l \in Nat, NEW m \in Nat, 1 <= l, l <= m, m <= MaxIds + 1
  PROVE  /\ \A i \in l..(m - 1) : i \in Id /\ i >= l /\ i < m
         /\ \A i \in Id : i >= m => i >= l /\ i \notin l..(m - 1)
  BY Bounds DEF Id

\* A function on 1..n is a sequence.
LEMMA FunctionSeq ==
  ASSUME NEW S, NEW n \in Nat, NEW f, f = [k \in 1..n |-> f[k]], \A k \in 1..n : f[k] \in S
  PROVE  f \in Seq(S)
  OBVIOUS

-----------------------------------------------------------------------------
(* replace_watches().                                                      *)

\* Replacing watches gives out the next ids and leaves all others as they are.
LEMMA ReplaceFacts ==
  ASSUME TypeOK, WatchInv, ReplaceWatches
  PROVE  /\ nextId' \in nextId..(MaxIds + 1)
         /\ retained' \in [Dir -> Id \cup {None}]
         /\ watch' \in [Id -> Handles]
         /\ commands' \in Seq(Commands)
         /\ \A i \in Id : i \notin nextId..(nextId' - 1) =>
               /\ watch'[i].state = watch[i].state /\ watch'[i].dir = watch[i].dir
               /\ watch'[i].born = watch[i].born /\ watch'[i].event = watch[i].event
         /\ \A i \in nextId..(nextId' - 1) : watch'[i].state = "new"
         /\ \A i \in Id : i >= nextId' => ~watch'[i].stopped
         /\ \A d \in Dir : retained'[d] # None =>
               \/ d \in Desired /\ retained'[d] = retained[d] /\ retained[d] < nextId
               \/ retained'[d] \in nextId..(nextId' - 1)
         /\ \A d \in Dir : retained'[d] # None =>
               retained'[d] < nextId' /\ ~watch'[retained'[d]].stopped
         /\ \A d, e \in Dir : retained'[d] = retained'[e] => d = e \/ retained'[d] = None
<1> DEFINE count    == Cardinality(Added)
           stopping == {d \in Dropped : watch[retained[d]].state \in Known
                                        /\ ~watch[retained[d]].stopped}
           stops    == [k \in 1..Cardinality(stopping) |->
                           [kind |-> "Stop", id |-> retained[Nth(stopping, k)]]]
           starts   == [k \in 1..count |-> [kind |-> "Start", id |-> nextId - 1 + k]]
<1> PICK n : n = count
  OBVIOUS
<1>a. nextId + n <= MaxIds + 1 /\ nextId' = nextId + n
  BY DEF ReplaceWatches
<1>0. /\ retained' = [d \in Dir |-> Retain(d)]
      /\ watch' = [i \in Id |->
             IF i \in nextId..(nextId' - 1)
             THEN [watch[i] EXCEPT !.state = "new", !.dir = Nth(Added, i - nextId + 1)]
             ELSE [watch[i] EXCEPT !.stopped = @ \/ \E d \in stopping : retained[d] = i]]
      /\ commands' = commands \o stops \o starts
  BY DEF ReplaceWatches
<1> HIDE DEF count, stopping, stops, starts
<1>1. /\ Added \in SUBSET Dir /\ Dropped \in SUBSET Dir /\ stopping \in SUBSET Dir
      /\ stopping \subseteq Dropped
      /\ \A d \in Added : retained[d] = None
      /\ \A d \in Dropped : retained[d] # None
      /\ nextId \in Nat \ {0} /\ None \notin Id
  BY Bounds DEF TypeOK, Added, Dropped, Desired, Scans, Id, None, stopping
<1>2. /\ n \in Nat
      /\ \A d \in Added : Rank(Added, d) \in 1..n
      /\ \A d, e \in Added : Rank(Added, d) = Rank(Added, e) => d = e
      /\ \A k \in 1..n : Nth(Added, k) \in Added
  <2>1. \A k \in 1..n : \E d \in Added : Rank(Added, d) = k
    BY <1>1, RankFacts DEF count
  <2> QED BY <2>1, <1>1, RankFacts DEF Nth, count
<1>3. /\ Cardinality(stopping) \in Nat
      /\ \A k \in 1..Cardinality(stopping) : Nth(stopping, k) \in stopping
  <2>1. \A k \in 1..Cardinality(stopping) : \E d \in stopping : Rank(stopping, d) = k
    BY <1>1, RankFacts
  <2> QED BY <2>1, <1>1, RankFacts DEF Nth
<1>4. /\ nextId' \in Nat /\ nextId <= nextId' /\ nextId' <= MaxIds + 1
      /\ nextId' \in nextId..(MaxIds + 1)
  BY <1>a, <1>1, <1>2, Bounds
<1>5. \A d \in Added : FreshId(d) \in nextId..(nextId' - 1)
  BY <1>a, <1>1, <1>2 DEF FreshId
<1>6. \A i \in nextId..(nextId' - 1) : i \in Id /\ i >= nextId /\ i < nextId'
  <2>1. nextId \in Nat /\ 1 <= nextId
    BY <1>1
  <2> QED BY <2>1, <1>4, FreshIds
<1>7. \A d \in Dir : retained'[d] = Retain(d)
  BY <1>0
<1>8. \A d \in Dir : \/ d \in Added /\ retained'[d] = FreshId(d)
                     \/ d \in Dropped /\ retained'[d] = None
                     \/ d \notin Added /\ d \notin Dropped /\ retained'[d] = retained[d]
  BY <1>7, <1>1 DEF Retain
<1>9. \A d \in Dir : retained[d] # None => retained[d] \in Id /\ retained[d] < nextId
  BY DEF TypeOK, WatchInv
<1>10. retained' \in [Dir -> Id \cup {None}]
  <2>1. \A d \in Dir : retained'[d] \in Id \cup {None}
    BY <1>8, <1>5, <1>6, <1>9
  <2> QED BY <2>1, <1>0
<1>11. watch' \in [Id -> Handles]
  <2> SUFFICES ASSUME NEW i \in Id PROVE watch'[i] \in Handles
    BY <1>0
  <2>1. watch[i] \in Handles
    BY DEF TypeOK
  <2>2. CASE i \in nextId..(nextId' - 1)
    <3>1. i - nextId + 1 \in 1..n
      BY <2>2, <1>a, <1>1, <1>2
    <3>2. Nth(Added, i - nextId + 1) \in Dir
      BY <3>1, <1>2, <1>1
    <3>3. watch'[i] = [watch[i] EXCEPT !.state = "new", !.dir = Nth(Added, i - nextId + 1)]
      BY <2>2, <1>0
    <3> QED BY <3>2, <3>3, <2>1 DEF Handles, WatchState, Known
  <2>3. CASE i \notin nextId..(nextId' - 1)
    <3>1. PICK b \in BOOLEAN : watch'[i] = [watch[i] EXCEPT !.stopped = b]
      <4>1. watch'[i] = [watch[i] EXCEPT
                          !.stopped = watch[i].stopped \/ \E d \in stopping : retained[d] = i]
        BY <2>3, <1>0
      <4>2. (watch[i].stopped \/ \E d \in stopping : retained[d] = i) \in BOOLEAN
        OBVIOUS
      <4> QED BY <4>1, <4>2
    <3> QED BY <3>1, <2>1 DEF Handles
  <2> QED BY <2>2, <2>3
<1>12. commands' \in Seq(Commands)
  <2>1. \A k \in 1..Cardinality(stopping) : retained[Nth(stopping, k)] \in Id
    BY <1>3, <1>9, <1>1
  <2>2. stops \in Seq(Commands)
    BY <2>1, <1>3, FunctionSeq DEF stops, Commands
  <2>3. \A k \in 1..n : nextId - 1 + k \in Id
    BY <1>a, <1>1, <1>2, <1>4, Bounds DEF Id
  <2>4. starts \in Seq(Commands)
    BY <2>3, <1>2, FunctionSeq DEF starts, count, Commands
  <2>5. commands \in Seq(Commands)
    BY DEF TypeOK
  <2> QED BY <2>2, <2>4, <2>5, <1>0, ConcatProperties
<1>13. \A i \in Id : i \notin nextId..(nextId' - 1) =>
          /\ watch'[i].state = watch[i].state /\ watch'[i].dir = watch[i].dir
          /\ watch'[i].born = watch[i].born /\ watch'[i].event = watch[i].event
          /\ watch'[i].stopped <=> (watch[i].stopped \/ \E d \in stopping : retained[d] = i)
  BY <1>0 DEF TypeOK, Handles
<1>14. \A i \in nextId..(nextId' - 1) : watch'[i].state = "new" /\ ~watch'[i].stopped
  <2> SUFFICES ASSUME NEW i \in nextId..(nextId' - 1)
               PROVE  watch'[i].state = "new" /\ ~watch'[i].stopped
    OBVIOUS
  <2>1. i \in Id /\ i >= nextId
    BY <1>6
  <2>2. watch'[i] = [watch[i] EXCEPT !.state = "new", !.dir = Nth(Added, i - nextId + 1)]
    BY <2>1, <1>0
  <2>3. watch[i] \in Handles /\ ~watch[i].stopped
    BY <2>1 DEF TypeOK, WatchInv
  <2> QED BY <2>2, <2>3 DEF Handles
<1>15. \A i \in Id : i >= nextId' => ~watch'[i].stopped
  <2> SUFFICES ASSUME NEW i \in Id, i >= nextId' PROVE ~watch'[i].stopped
    OBVIOUS
  <2>1. i >= nextId /\ i \notin nextId..(nextId' - 1)
    BY <1>4, <1>1, FreshIds
  <2>2. \A d \in stopping : retained[d] # i
    BY <2>1, <1>9, <1>1 DEF Id
  <2> QED BY <2>1, <2>2, <1>13 DEF WatchInv
<1>16. \A d \in Dir : retained'[d] # None =>
          \/ d \in Desired /\ d \notin Dropped /\ retained'[d] = retained[d] /\ retained[d] < nextId
          \/ d \in Added /\ retained'[d] = FreshId(d)
  BY <1>8, <1>9 DEF Dropped
<1>17. \A d \in Dir : retained'[d] # None =>
          retained'[d] < nextId' /\ ~watch'[retained'[d]].stopped
  <2> SUFFICES ASSUME NEW d \in Dir, retained'[d] # None
               PROVE  retained'[d] < nextId' /\ ~watch'[retained'[d]].stopped
    OBVIOUS
  <2>1. CASE d \in Added /\ retained'[d] = FreshId(d)
    BY <2>1, <1>5, <1>6, <1>14
  <2>2. CASE d \notin Dropped /\ retained'[d] = retained[d] /\ retained[d] < nextId
    <3> PICK i \in Id : i = retained[d]
      BY <2>2, <1>9
    <3>1. ~watch[i].stopped /\ i < nextId /\ i < nextId' /\ i \notin nextId..(nextId' - 1)
      BY <2>2, <1>4, <1>1 DEF WatchInv, Id
    <3>2. \A e \in stopping : e \in Dir /\ e # d
      BY <2>2, <1>1
    <3>3. \A e \in stopping : retained[e] # i
      BY <3>2, <2>2 DEF WatchInv
    <3> QED BY <3>1, <3>3, <1>13, <2>2
  <2> QED BY <2>1, <2>2, <1>16
<1>18. \A d, e \in Dir : retained'[d] = retained'[e] => d = e \/ retained'[d] = None
  <2> SUFFICES ASSUME NEW d \in Dir, NEW e \in Dir, retained'[d] = retained'[e],
                      retained'[d] # None
               PROVE  d = e
    OBVIOUS
  <2>1. CASE d \in Added /\ retained'[d] = FreshId(d) /\ e \in Added /\ retained'[e] = FreshId(e)
    <3>1. nextId - 1 + Rank(Added, d) = nextId - 1 + Rank(Added, e)
      BY <2>1 DEF FreshId
    <3>2. Rank(Added, d) \in Int /\ Rank(Added, e) \in Int
      BY <2>1, <1>2
    <3>3. \A i, j, k \in Int : i - 1 + j = i - 1 + k => j = k
      OBVIOUS
    <3>4. nextId \in Int
      BY <1>1
    <3>5. Rank(Added, d) = Rank(Added, e)
      BY <3>1, <3>2, <3>3, <3>4
    <3> QED BY <2>1, <3>5, <1>2
  <2>2. CASE retained'[d] = retained[d] /\ retained'[e] = retained[e]
    BY <2>2 DEF WatchInv
  <2>3. CASE \/ d \in Added /\ retained'[d] = FreshId(d) /\ retained'[e] < nextId
             \/ e \in Added /\ retained'[e] = FreshId(e) /\ retained'[d] < nextId
    BY <2>3, <1>5, <1>1, <1>4
  <2> QED BY <2>1, <2>2, <2>3, <1>16
<1>19. \A d \in Dir : retained'[d] # None =>
          \/ d \in Desired /\ retained'[d] = retained[d] /\ retained[d] < nextId
          \/ retained'[d] \in nextId..(nextId' - 1)
  BY <1>16, <1>5
<1> QED BY <1>4, <1>10, <1>11, <1>12, <1>13, <1>14, <1>15, <1>17, <1>18, <1>19

-----------------------------------------------------------------------------
(* The disk.                                                               *)

\* A change of the disk does nothing to a handle but report, if it follows one of these directories.
LEMMA DisturbFacts ==
  ASSUME TypeOK, NEW S, Disturb(S)
  PROVE  /\ watch' \in [Id -> Handles]
         /\ \A i \in Id :
               /\ watch'[i].state = watch[i].state /\ watch'[i].dir = watch[i].dir
               /\ watch'[i].born = watch[i].born /\ watch'[i].stopped = watch[i].stopped
               /\ watch[i].event => watch'[i].event
               /\ (\E d \in S : Follows(i, d)) => watch'[i].event
<1>1. \A i \in Id : \E b \in BOOLEAN : /\ watch'[i] = [watch[i] EXCEPT !.event = b]
                                       /\ b <=> watch[i].event \/ \E d \in S : Follows(i, d)
  <2> TAKE i \in Id
  <2>1. watch'[i] = [watch[i] EXCEPT !.event = watch[i].event \/ \E d \in S : Follows(i, d)]
    BY DEF Disturb
  <2> WITNESS (watch[i].event \/ \E d \in S : Follows(i, d)) \in BOOLEAN
  <2> QED BY <2>1
<1>2. \A i \in Id : watch[i] \in Handles
  BY DEF TypeOK
<1>3. \A i \in Id : /\ watch'[i] \in Handles
                    /\ watch'[i].state = watch[i].state /\ watch'[i].dir = watch[i].dir
                    /\ watch'[i].born = watch[i].born /\ watch'[i].stopped = watch[i].stopped
                    /\ watch[i].event => watch'[i].event
                    /\ (\E d \in S : Follows(i, d)) => watch'[i].event
  <2> TAKE i \in Id
  <2>1. PICK b \in BOOLEAN : /\ watch'[i] = [watch[i] EXCEPT !.event = b]
                             /\ b <=> watch[i].event \/ \E d \in S : Follows(i, d)
    BY <1>1
  <2> QED BY <2>1, <1>2 DEF Handles
<1>4. watch' = [i \in Id |-> watch'[i]]
  BY DEF Disturb
<1> QED BY <1>3, <1>4

\* A handle that still follows a directory followed it before, and has an event if
\* the directory has changed.
LEMMA DiskFacts ==
  ASSUME IInv, NEW x \in Dir, ChangeFile(x) \/ MakeDirectory(x) \/ RemoveDirectory(x)
  PROVE  /\ disk' \in [Dir -> [born : Stamp, changed : Stamp]]
         /\ clock' \in 1..(MaxChanges + 1) /\ clock' = clock + 1
         /\ \A d \in Dir : disk'[d].born <= clock'
         /\ watch' \in [Id -> Handles]
         /\ \A i \in Id :
               /\ watch'[i].state = watch[i].state /\ watch'[i].dir = watch[i].dir
               /\ watch'[i].born = watch[i].born /\ watch'[i].stopped = watch[i].stopped
               /\ watch[i].event => watch'[i].event
         /\ \A i \in Id, d \in Dir : Follows(i, d)' =>
               Follows(i, d) /\ (disk'[d].changed = disk[d].changed \/ watch'[i].event)
<1>1. /\ clock \in 1..(MaxChanges + 1) /\ clock' = clock + 1 /\ clock <= MaxChanges
      /\ disk \in [Dir -> [born : Stamp, changed : Stamp]] /\ Root \in Dir
      /\ \A d \in Dir : disk[d].born <= clock
      /\ \A i \in Id : watch[i].state = "active" => watch[i].born \in 1..clock
  BY Bounds DEF IInv, TypeOK, HandleInv, ChangeFile, MakeDirectory, RemoveDirectory, Tick, Root, Dir
<1>2. clock' \in Stamp /\ clock' \in 1..(MaxChanges + 1) /\ 0 \in Stamp
  BY <1>1, Bounds DEF Stamp
<1> PICK S \in SUBSET Dir :
      /\ Disturb(S)
      /\ disk' \in [Dir -> [born : Stamp, changed : Stamp]]
      /\ \A d \in Dir : \/ disk'[d] = disk[d]
                        \/ d \in S /\ disk'[d].born = disk[d].born
                        \/ disk'[d].born \in {0, clock'}
  <2>1. CASE ChangeFile(x)
    <3>1. disk' = [disk EXCEPT ![x].changed = clock'] /\ Disturb({x})
      BY <2>1 DEF ChangeFile
    <3>2. disk' = [disk EXCEPT ![x] = [disk[x] EXCEPT !.changed = clock']]
      BY <3>1
    <3>3. [disk[x] EXCEPT !.changed = clock'] \in [born : Stamp, changed : Stamp]
      BY <1>1, <1>2
    <3>4. disk' \in [Dir -> [born : Stamp, changed : Stamp]]
      BY <3>2, <3>3, <1>1
    <3>5. \A d \in Dir : \/ disk'[d] = disk[d]
                         \/ d \in {x} /\ disk'[d].born = disk[d].born
      BY <3>2, <1>1
    <3> QED BY <3>1, <3>4, <3>5
  <2>2. CASE MakeDirectory(x)
    <3>1. disk' = [disk EXCEPT ![x] = [born |-> clock', changed |-> clock'],
                               ![Root].changed = clock']
          /\ Disturb({Root})
      BY <2>2 DEF MakeDirectory
    <3> DEFINE made == [disk EXCEPT ![x] = [born |-> clock', changed |-> clock']]
    <3>2. /\ made \in [Dir -> [born : Stamp, changed : Stamp]]
          /\ \A d \in Dir : d # x => made[d] = disk[d]
          /\ made[x].born = clock'
      BY <1>1, <1>2
    <3>3. disk' = [made EXCEPT ![Root] = [made[Root] EXCEPT !.changed = clock']]
      BY <3>1
    <3> HIDE DEF made
    <3>4. [made[Root] EXCEPT !.changed = clock'] \in [born : Stamp, changed : Stamp]
      BY <3>2, <1>1, <1>2
    <3>5. disk' \in [Dir -> [born : Stamp, changed : Stamp]]
      BY <3>2, <3>3, <3>4
    <3>6. \A d \in Dir : \/ disk'[d] = disk[d]
                         \/ d \in {Root} /\ disk'[d].born = disk[d].born
                         \/ disk'[d].born \in {0, clock'}
      BY <3>2, <3>3, <1>1
    <3> QED BY <3>1, <3>5, <3>6, <1>1
  <2>3. CASE RemoveDirectory(x)
    <3>1. disk' = [disk EXCEPT ![x] = [born |-> 0, changed |-> 0], ![Root].changed = clock']
          /\ Disturb({Root, x})
      BY <2>3 DEF RemoveDirectory
    <3> DEFINE gone == [disk EXCEPT ![x] = [born |-> 0, changed |-> 0]]
    <3>2. /\ gone \in [Dir -> [born : Stamp, changed : Stamp]]
          /\ \A d \in Dir : d # x => gone[d] = disk[d]
          /\ gone[x].born = 0
      BY <1>1, <1>2
    <3>3. disk' = [gone EXCEPT ![Root] = [gone[Root] EXCEPT !.changed = clock']]
      BY <3>1
    <3> HIDE DEF gone
    <3>4. [gone[Root] EXCEPT !.changed = clock'] \in [born : Stamp, changed : Stamp]
      BY <3>2, <1>1, <1>2
    <3>5. disk' \in [Dir -> [born : Stamp, changed : Stamp]]
      BY <3>2, <3>3, <3>4
    <3>6. \A d \in Dir : \/ disk'[d] = disk[d]
                         \/ d \in {Root, x} /\ disk'[d].born = disk[d].born
                         \/ disk'[d].born \in {0, clock'}
      BY <3>2, <3>3, <1>1
    <3> QED BY <3>1, <3>5, <3>6, <1>1
  <2> QED BY <2>1, <2>2, <2>3
<1>3. /\ watch' \in [Id -> Handles]
      /\ \A i \in Id :
            /\ watch'[i].state = watch[i].state /\ watch'[i].dir = watch[i].dir
            /\ watch'[i].born = watch[i].born /\ watch'[i].stopped = watch[i].stopped
            /\ watch[i].event => watch'[i].event
            /\ (\E d \in S : Follows(i, d)) => watch'[i].event
  BY DisturbFacts DEF IInv
<1>4. \A d \in Dir : disk'[d].born <= clock'
  <2> TAKE d \in Dir
  <2>1. disk'[d].born \in Stamp /\ disk[d].born \in Stamp /\ disk[d].born <= clock
    BY <1>1
  <2>2. disk'[d].born = disk[d].born \/ disk'[d].born = 0 \/ disk'[d].born = clock'
    OBVIOUS
  <2> QED BY <2>1, <2>2, <1>1 DEF Stamp
<1>5. ASSUME NEW i \in Id, NEW d \in Dir, Follows(i, d)'
      PROVE  Follows(i, d) /\ (disk'[d].changed = disk[d].changed \/ watch'[i].event)
  <2>1. /\ watch[i].state = "active" /\ watch[i].dir = d /\ watch[i].born = disk'[d].born
        /\ watch[i].born \in 1..clock
    BY <1>3, <1>5, <1>1 DEF Follows
  <2>2. disk'[d].born \notin {0, clock'}
    BY <2>1, <1>1
  <2>3. Follows(i, d)
    BY <2>1, <2>2 DEF Follows
  <2>4. disk'[d] = disk[d] \/ d \in S
    BY <2>2
  <2> QED BY <2>3, <2>4, <1>3
<1> QED BY <1>1, <1>2, <1>3, <1>4, <1>5

\* The invariant through changes of the disk,
LEMMA DiskStep ==
  ASSUME IInv, NEW x \in Dir, ChangeFile(x) \/ MakeDirectory(x) \/ RemoveDirectory(x)
  PROVE  IInv'
<1>1. UNCHANGED <<commands, ready, scan, indexTask, generation, refreshPending, retained, nextId,
                  index, indexing, indexError, revised, requests>>
  BY DEF ChangeFile, MakeDirectory, RemoveDirectory, queueVars, serviceVars, registryVars
<1>2. TypeOK'
  BY <1>1, DiskFacts DEF IInv, TypeOK
<1>3. TaskInv' /\ ResultInv'
  BY <1>1 DEF IInv, TaskInv, ResultInv, Results
<1>4. WatchInv'
  BY <1>1, DiskFacts DEF IInv, WatchInv
<1>5. HandleInv'
  <2>1. ASSUME NEW i \in Id, watch'[i].state = "active" PROVE watch'[i].born \in 1..clock'
    <3>1. watch[i].born \in 1..clock /\ clock \in Int /\ clock' = clock + 1
      BY <2>1, DiskFacts DEF IInv, HandleInv, TypeOK
    <3> QED BY <3>1, DiskFacts
  <2> QED BY <2>1, DiskFacts DEF HandleInv
<1>6. \A i \in Id : Reports(i) \/ watch'[i].event => Reports(i)'
  BY <1>1, DiskFacts DEF Reports
<1>7. \A d \in Dir, i \in Id : Held(d, i)' =>
         Held(d, i) /\ (disk'[d].changed = disk[d].changed \/ Reports(i)')
  BY <1>1, <1>6, DiskFacts DEF Held
<1>8. ScanGap'
  BY <1>1, <1>6, <1>7 DEF IInv, ScanGap
<1>9. EventGap'
  <2>1. ScanFailed' <=> ScanFailed
    BY <1>1 DEF ScanFailed
  <2>2. \A d \in Dir : disk'[d].changed = disk[d].changed =>
           (WillRead(d) => WillRead(d)') /\ (WillDrop(d) => WillDrop(d)')
    BY <1>1 DEF WillRead, WillDrop
  <2> QED BY <1>1, <1>6, <1>7, <2>1, <2>2 DEF IInv, EventGap
<1> QED BY <1>2, <1>3, <1>4, <1>5, <1>8, <1>9 DEF IInv

-----------------------------------------------------------------------------
(* The scan.                                                               *)

\* A scan leaves the watches and the service alone.
LEMMA ScanFrame ==
  ASSUME IInv, UNCHANGED <<diskVars, watch, commands, serviceVars, registryVars, requests>>,
         scan' \in Scans, ready' \in Seq(Records),
         scan.phase # "idle", scan'.phase # "idle", scan'.generation = scan.generation
  PROVE  /\ TypeOK' /\ TaskInv' /\ WatchInv' /\ HandleInv'
         /\ \A d \in Dir, i \in Id : Held(d, i)' <=> Held(d, i)
<1> USE DEF diskVars, serviceVars, registryVars
<1>1. TypeOK'
  BY DEF IInv, TypeOK
<1>2. TaskInv'
  BY DEF IInv, TaskInv
<1>3. WatchInv' /\ HandleInv'
  BY DEF IInv, WatchInv, HandleInv
<1> QED BY <1>1, <1>2, <1>3 DEF Held, Follows

\* the steps of a scan,
LEMMA ScanRootStep == ASSUME IInv, ScanRoot PROVE IInv'
<1> DEFINE subs == {d \in Dir \ {Root} : Exists(d)}
<1>1. /\ scan.phase = "submitted"
      /\ scan' = [scan EXCEPT !.phase = "reading", !.todo = subs, !.found = {Root} \cup subs,
                              !.seen[Root] = disk[Root].changed]
      /\ UNCHANGED <<diskVars, watch, commands, ready, serviceVars, registryVars, requests>>
  BY DEF ScanRoot, queueVars
<1>2. scan \in Scans /\ Root \in Dir /\ disk[Root].changed \in Stamp
  BY Bounds DEF IInv, TypeOK, Root, Dir
<1>3. /\ scan' \in Scans /\ scan'.phase = "reading" /\ scan'.generation = scan.generation
      /\ scan'.todo = subs /\ scan'.found = {Root} \cup subs
      /\ scan'.seen[Root] = disk[Root].changed
  BY <1>1, <1>2 DEF Scans
<1> HIDE DEF subs
<1>4. /\ TypeOK' /\ TaskInv' /\ WatchInv' /\ HandleInv'
  BY <1>1, <1>3, ScanFrame DEF IInv, TypeOK
<1>5. Results = {}
  BY <1>1 DEF IInv, ResultInv
<1>6. ResultInv'
  <2>1. \A k \in DOMAIN ready : ready[k].kind # "Indexed"
    BY <1>5, RecordFacts DEF IInv, TypeOK, Results
  <2> QED BY <2>1, <1>1, <1>3, <1>5 DEF ResultInv, Results
<1>7. disk' = disk
  BY <1>1 DEF diskVars
<1>8. \A d \in Dir : scan'.seen[d] = disk'[d].changed \/ d \in scan'.todo \/ d \notin scan'.found
  BY <1>3, <1>7
<1>9. ScanGap' /\ EventGap'
  BY <1>3, <1>8 DEF ScanGap, EventGap, WillRead, WillDrop
<1> QED BY <1>4, <1>6, <1>9 DEF IInv

LEMMA ScanDirectoryStep == ASSUME IInv, NEW x \in Dir, ScanDirectory(x) PROVE IInv'
<1>1. /\ scan.phase = "reading" /\ x \in scan.todo
      /\ scan' = IF Exists(x)
                 THEN [scan EXCEPT !.todo = scan.todo \ {x}, !.seen[x] = disk[x].changed]
                 ELSE [scan EXCEPT !.todo = {}, !.found = scan.found \ (scan.todo \ {x})]
      /\ UNCHANGED <<diskVars, watch, commands, ready, serviceVars, registryVars, requests>>
  BY DEF ScanDirectory, queueVars
<1>2. scan \in Scans /\ disk[x].changed \in Stamp /\ disk[x].born \in Stamp
  BY DEF IInv, TypeOK
<1>3. /\ scan' \in Scans /\ scan'.phase = "reading" /\ scan'.generation = scan.generation
      /\ \A d \in Dir \ {x} : scan'.seen[d] = scan.seen[d]
      /\ scan'.found \subseteq scan.found /\ scan'.todo \subseteq scan.todo
      /\ Exists(x) => /\ scan'.seen[x] = disk[x].changed /\ scan'.found = scan.found
                      /\ scan'.todo = scan.todo \ {x}
      /\ ~Exists(x) => scan'.found = scan.found \ (scan.todo \ {x})
  BY <1>1, <1>2 DEF Scans
<1>4. /\ TypeOK' /\ TaskInv' /\ WatchInv' /\ HandleInv'
      /\ \A d \in Dir, i \in Id : Held(d, i)' <=> Held(d, i)
  BY <1>1, <1>3, ScanFrame DEF IInv, TypeOK
<1>5. Results = {} /\ \A k \in DOMAIN ready : ready[k].kind # "Indexed"
  <2>1. Results = {}
    BY <1>1 DEF IInv, ResultInv
  <2> QED BY <2>1, RecordFacts DEF IInv, TypeOK, Results
<1>6. ResultInv'
  BY <1>1, <1>3, <1>5 DEF ResultInv, Results
<1>7. UNCHANGED <<disk, watch, ready, index, indexError, refreshPending>>
  BY <1>1 DEF diskVars, registryVars, serviceVars
<1>8. \A i \in Id : (Reports(i) => Reports(i)') /\ (Held(x, i) => Exists(x))
  <2> TAKE i \in Id
  <2>1. Reports(i) => Reports(i)'
    BY <1>7 DEF Reports
  <2>2. Held(x, i) => Exists(x)
    BY DEF IInv, HandleInv, Held, Follows, Exists
  <2> QED BY <2>1, <2>2
<1>9. ScanGap'
  BY <1>1, <1>3, <1>4, <1>7, <1>8 DEF IInv, ScanGap
<1>10. EventGap'
  <2> SUFFICES ASSUME NEW d \in Dir, NEW i \in Id, Held(d, i), ~ScanFailed,
                      index[d] # disk[d].changed
               PROVE  WillRead(d)' \/ Reports(i)' \/ WillDrop(d)'
    BY <1>4, <1>7 DEF EventGap, ScanFailed
  <2>1. WillRead(d) \/ Reports(i) \/ WillDrop(d)
    BY DEF IInv, EventGap
  <2>2. d = x => Exists(x)
    BY <1>8
  <2>3. WillDrop(d) => WillDrop(d)'
    BY <1>1, <1>3 DEF WillDrop
  <2>4. WillRead(d) => WillRead(d)' \/ WillDrop(d)'
    BY <1>1, <1>3, <1>7, <2>2 DEF WillRead, WillDrop
  <2> QED BY <2>1, <2>3, <2>4, <1>8
<1> QED BY <1>4, <1>6, <1>9, <1>10 DEF IInv

\* A result is posted.
LEMMA ScanEnds ==
  ASSUME IInv, NEW ok \in BOOLEAN, scan.phase \in {"submitted", "reading"},
         ok => scan.phase = "reading" /\ scan.todo = {},
         scan' = [scan EXCEPT !.phase = "done"],
         ready' = Append(ready, IndexRecord(ok)),
         UNCHANGED <<diskVars, watch, commands, serviceVars, registryVars, requests>>
  PROVE  IInv'
<1> PICK r \in Records : r = IndexRecord(ok)
  BY DEF IndexRecord, Records
<1>0. r.id = None /\ r.kind = (IF ok THEN "Indexed" ELSE "IndexFailed")
  BY DEF IndexRecord
<1>1. scan \in Scans /\ ready \in Seq(Records)
  BY DEF IInv, TypeOK
<1>2. /\ scan' \in Scans /\ scan'.phase = "done" /\ scan'.generation = scan.generation
      /\ scan'.todo = scan.todo /\ scan'.found = scan.found /\ scan'.seen = scan.seen
  BY <1>1 DEF Scans
<1>3. /\ ready' \in Seq(Records) /\ DOMAIN ready' = DOMAIN ready \cup {Len(ready) + 1}
      /\ \A k \in DOMAIN ready : k # Len(ready) + 1 /\ ready'[k] = ready[k]
      /\ ready'[Len(ready) + 1] = r
  BY <1>1, Appended
<1>4. /\ TypeOK' /\ TaskInv' /\ WatchInv' /\ HandleInv'
      /\ \A d \in Dir, i \in Id : Held(d, i)' <=> Held(d, i)
  BY <1>2, <1>3, ScanFrame
<1>5. ResultInv'
  <2>1. Results = {} /\ \A k \in DOMAIN ready : ready[k].kind # "Indexed"
    <3>1. Results = {}
      BY DEF IInv, ResultInv
    <3> QED BY <3>1, <1>1, RecordFacts DEF Results
  <2>2. Results' = {Len(ready) + 1}
    BY <2>1, <1>0, <1>3 DEF Results
  <2>3. \A k \in DOMAIN ready' : ready'[k].kind = "Indexed" => scan'.todo = {}
    BY <2>1, <1>0, <1>2, <1>3
  <2> QED BY <2>2, <2>3, <1>2, <1>3 DEF ResultInv
<1>6. UNCHANGED <<disk, watch, index, indexError, refreshPending>>
  BY DEF diskVars, registryVars, serviceVars
<1>7. \A i \in Id : Reports(i) => Reports(i)'
  BY <1>3, <1>6 DEF Reports
<1>8. ScanGap'
  BY <1>2, <1>4, <1>6, <1>7 DEF IInv, ScanGap, ResultInv
<1>9. EventGap'
  <2>1. CASE ok
    <3>1. ScanFailed => ScanFailed'
      BY <1>3, <1>6 DEF ScanFailed
    <3>2. \A d \in Dir : (WillRead(d) => WillRead(d)') /\ (WillDrop(d) => WillDrop(d)')
      BY <2>1, <1>2, <1>6 DEF WillRead, WillDrop
    <3> QED BY <3>1, <3>2, <1>4, <1>6, <1>7 DEF IInv, EventGap
  <2>2. CASE ~ok
    <3>1. ScanFailed'
      BY <2>2, <1>0, <1>3 DEF ScanFailed
    <3> QED BY <3>1 DEF EventGap
  <2> QED BY <2>1, <2>2
<1> QED BY <1>4, <1>5, <1>8, <1>9 DEF IInv

LEMMA ScanStep ==
  ASSUME IInv, ScanRoot \/ ScanDone \/ ScanFails \/ \E d \in Dir : ScanDirectory(d)
  PROVE  IInv'
<1>1. CASE ScanDone
  BY <1>1, ScanEnds DEF ScanDone
<1>2. CASE ScanFails
  BY <1>2, ScanEnds DEF ScanFails
<1> QED BY <1>1, <1>2, ScanRootStep, ScanDirectoryStep

-----------------------------------------------------------------------------
(* Requests and deliveries.                                                *)

\* A scan as it is submitted.
LEMMA Submitted ==
  ASSUME NEW g \in Nat, NEW s,
         s = [phase |-> "submitted", generation |-> g, todo |-> {}, found |-> {},
              seen |-> [d \in Dir |-> 0]]
  PROVE  s \in Scans /\ s.phase = "submitted" /\ s.generation = g /\ s.todo = {} /\ s.found = {}
<1>1. PICK none \in SUBSET Dir : none = {}
  OBVIOUS
<1>2. PICK f \in [Dir -> Stamp] : f = [d \in Dir |-> 0]
  <2>1. 0 \in Stamp
    BY Bounds DEF Stamp
  <2>2. [d \in Dir |-> 0] \in [Dir -> Stamp]
    BY <2>1
  <2> QED BY <2>2
<1>3. s = [phase |-> "submitted", generation |-> g, todo |-> none, found |-> none, seen |-> f]
  BY <1>1, <1>2
<1>4. s \in Scans
  BY <1>3 DEF Scans
<1>5. s.phase = "submitted" /\ s.generation = g
  BY <1>3
<1>6. s.todo = none
  BY <1>3
<1>7. s.found = none
  BY <1>3
<1> QED BY <1>1, <1>4, <1>5, <1>6, <1>7

\* A scan that was asked for starts, or is left for when the running one settles.
LEMMA RequestFacts ==
  ASSUME IInv, Request(indexTask, refreshPending)
  PROVE  /\ scan' \in Scans /\ indexTask' \in BOOLEAN /\ refreshPending' \in BOOLEAN
         /\ generation' \in Nat /\ indexing' \in BOOLEAN /\ indexError' \in BOOLEAN
         /\ TaskInv'
         /\ \/ refreshPending' /\ scan' = scan
            \/ /\ scan.phase = "idle" /\ scan'.phase = "submitted"
               /\ scan'.found = {} /\ scan'.todo = {}
<1>1. /\ scan \in Scans /\ generation \in Nat /\ indexTask \in BOOLEAN
      /\ refreshPending \in BOOLEAN /\ indexing \in BOOLEAN /\ indexError \in BOOLEAN
  BY DEF IInv, TypeOK
<1>2. CASE indexTask
  BY <1>1, <1>2 DEF Request, IInv, TaskInv
<1>3. CASE ~indexTask
  <2>1. ~refreshPending /\ scan.phase = "idle"
    BY <1>3 DEF IInv, TaskInv
  <2>2. /\ refreshPending' = refreshPending /\ indexTask' = TRUE
        /\ generation' = generation + 1 /\ indexing' = TRUE /\ indexError' = FALSE
        /\ scan' = [Idle EXCEPT !.phase = "submitted", !.generation = generation + 1]
    BY <1>3 DEF Request
  <2>3. /\ scan' \in Scans /\ scan'.phase = "submitted" /\ scan'.generation = generation + 1
        /\ scan'.found = {} /\ scan'.todo = {}
    <3>1. generation + 1 \in Nat
      BY <1>1
    <3>2. scan' = [phase |-> "submitted", generation |-> generation + 1, todo |-> {},
                    found |-> {}, seen |-> [d \in Dir |-> 0]]
      BY <2>2 DEF Idle
    <3> QED BY <3>1, <3>2, Submitted
  <2>4. generation' \in Nat
    BY <2>2, <1>1
  <2>5. TaskInv'
    BY <2>1, <2>2, <2>3, <1>1, <1>3 DEF TaskInv
  <2>6. refreshPending' \in BOOLEAN /\ indexTask' \in BOOLEAN /\ indexing' \in BOOLEAN
    BY <2>2, <1>1
  <2>7. indexError' \in BOOLEAN
    BY <2>2
  <2> QED BY <2>1, <2>3, <2>4, <2>5, <2>6, <2>7
<1> QED BY <1>1, <1>2, <1>3

\* After a result the service scans again, or is idle.
LEMMA SettleFacts ==
  ASSUME IInv, NEW error \in BOOLEAN, Settle(error)
  PROVE  /\ scan' \in Scans /\ indexTask' \in BOOLEAN /\ refreshPending' \in BOOLEAN
         /\ generation' \in Nat /\ indexing' \in BOOLEAN /\ indexError' \in BOOLEAN
         /\ TaskInv' /\ scan'.todo = {} /\ scan'.found = {}
         /\ \/ scan'.phase = "submitted"
            \/ scan'.phase = "idle" /\ indexError' = error /\ ~refreshPending
<1>1. /\ generation \in Nat /\ refreshPending \in BOOLEAN
  BY DEF IInv, TypeOK
<1>2. /\ Idle \in Scans /\ Idle.phase = "idle" /\ Idle.todo = {} /\ Idle.found = {}
  BY Bounds DEF Idle, Scans, Stamp
<1>3. CASE refreshPending
  <2>1. /\ refreshPending' = FALSE /\ indexTask' = TRUE
        /\ generation' = generation + 1 /\ indexing' = TRUE /\ indexError' = FALSE
        /\ scan' = [Idle EXCEPT !.phase = "submitted", !.generation = generation + 1]
    BY <1>3 DEF Settle, Request
  <2>2. /\ scan' \in Scans /\ scan'.phase = "submitted" /\ scan'.generation = generation + 1
        /\ scan'.found = {} /\ scan'.todo = {}
    <3>1. generation + 1 \in Nat
      BY <1>1
    <3>2. scan' = [phase |-> "submitted", generation |-> generation + 1, todo |-> {},
                    found |-> {}, seen |-> [d \in Dir |-> 0]]
      BY <2>1 DEF Idle
    <3> QED BY <3>1, <3>2, Submitted
  <2>3. generation' \in Nat
    BY <2>1, <1>1
  <2>4. TaskInv'
    BY <2>1, <2>2, <1>1 DEF TaskInv
  <2> QED BY <2>1, <2>2, <2>3, <2>4
<1>4. CASE ~refreshPending
  BY <1>4, <1>1, <1>2 DEF Settle, TaskInv
<1> QED BY <1>1, <1>3, <1>4

\* Whatever was not read is read again.
LEMMA Rescanned ==
  ASSUME refreshPending' \/ scan'.phase = "submitted"
  PROVE  ScanGap' /\ EventGap'
  BY DEF ScanGap, EventGap, WillRead

\* a request,
LEMMA RequestIndexStep == ASSUME IInv, RequestIndex PROVE IInv'
<1>1. /\ Request(indexTask, refreshPending) /\ requests' = requests + 1
      /\ requests < MaxRequests
      /\ UNCHANGED <<disk, clock, watch, commands, ready, retained, nextId, index, revised>>
  BY DEF RequestIndex, diskVars, queueVars
<1>2. TypeOK'
  <2>1. requests' \in 0..MaxRequests
    BY <1>1, Bounds DEF IInv, TypeOK
  <2> QED BY <2>1, <1>1, RequestFacts DEF IInv, TypeOK
<1>3. ResultInv'
  BY <1>1, RequestFacts DEF IInv, ResultInv, Results
<1>4. WatchInv' /\ HandleInv'
  BY <1>1 DEF IInv, WatchInv, HandleInv
<1>5. TaskInv' /\ ScanGap' /\ EventGap'
  BY <1>1, RequestFacts, Rescanned
<1> QED BY <1>2, <1>3, <1>4, <1>5 DEF IInv

\* The queue after its first record was taken.
LEMMA Taken ==
  ASSUME IInv, ready # <<>>, ready' = Tail(ready)
  PROVE  /\ ready' \in Seq(Records) /\ Head(ready) \in Records
         /\ \A k \in DOMAIN ready' : k + 1 \in DOMAIN ready /\ ready'[k] = ready[k + 1]
         /\ \A k \in DOMAIN ready : ready[k] # Head(ready) =>
               k - 1 \in DOMAIN ready' /\ ready'[k - 1] = ready[k]
         /\ Head(ready).id = None => /\ Results = {1} /\ scan.phase = "done"
                                     /\ \A k \in DOMAIN ready' : ready'[k].id # None
         /\ Head(ready).id # None =>
               IF scan.phase = "done" THEN \E k \in DOMAIN ready' : Results' = {k}
                                      ELSE Results' = {}
<1>1. ready \in Seq(Records)
  BY DEF IInv, TypeOK
<1>2. /\ ready' \in Seq(Records) /\ Head(ready) \in Records
      /\ 1 \in DOMAIN ready /\ Head(ready) = ready[1]
      /\ \A k \in DOMAIN ready' : k + 1 \in DOMAIN ready /\ ready'[k] = ready[k + 1]
      /\ \A k \in DOMAIN ready \ {1} : k - 1 \in DOMAIN ready' /\ ready'[k - 1] = ready[k]
  BY <1>1, Shifted
<1>3. DOMAIN ready \subseteq Nat \ {0} /\ DOMAIN ready' \subseteq Nat \ {0}
  BY <1>1, <1>2
<1>4. IF scan.phase = "done" THEN \E k \in DOMAIN ready : Results = {k} ELSE Results = {}
  BY DEF IInv, ResultInv
<1>5. ASSUME Head(ready).id = None
      PROVE  /\ Results = {1} /\ scan.phase = "done"
             /\ \A k \in DOMAIN ready' : ready'[k].id # None
  <2>1. 1 \in Results
    BY <1>2, <1>5 DEF Results
  <2>2. Results = {1} /\ scan.phase = "done"
    BY <2>1, <1>4
  <2>3. \A k \in DOMAIN ready' : k + 1 \in DOMAIN ready /\ k + 1 # 1
    BY <1>2, <1>3
  <2>4. \A k \in DOMAIN ready' : k + 1 \notin Results
    BY <2>2, <2>3
  <2>5. \A k \in DOMAIN ready' : ready[k + 1].id # None
    BY <2>3, <2>4 DEF Results
  <2> QED BY <2>2, <2>5, <1>2
<1>6. ASSUME Head(ready).id # None
      PROVE  IF scan.phase = "done" THEN \E k \in DOMAIN ready' : Results' = {k}
                                    ELSE Results' = {}
  <2>1. 1 \notin Results
    BY <1>2, <1>6 DEF Results
  <2>2. \A k \in DOMAIN ready' : k \in Results' <=> k + 1 \in Results
    BY <1>2 DEF Results
  <2>3. Results' \subseteq DOMAIN ready' /\ Results \subseteq DOMAIN ready
    BY DEF Results
  <2>4. CASE Results = {}
    BY <2>2, <2>3, <2>4, <1>4
  <2>5. ASSUME NEW k \in DOMAIN ready, Results = {k}, scan.phase = "done"
        PROVE  \E j \in DOMAIN ready' : Results' = {j}
    <3>1. k # 1 /\ k - 1 \in DOMAIN ready'
      BY <2>1, <2>5, <1>2
    <3>2. \A j \in DOMAIN ready' : j + 1 = k <=> j = k - 1
      BY <1>3
    <3>3. Results' = {k - 1}
      BY <3>1, <3>2, <2>2, <2>3, <2>5
    <3> QED BY <3>1, <3>3
  <2> QED BY <2>4, <2>5, <1>4
<1> QED BY <1>2, <1>5, <1>6

\* and the three kinds of records that are delivered;
LEMMA CallbackStep ==
  ASSUME IInv, ready # <<>>, ready' = Tail(ready), Head(ready).id # None,
         WatchCallback(Head(ready)), UNCHANGED <<diskVars, requests>>
  PROVE  IInv'
<1> PICK r \in Records : r = Head(ready)
  BY Taken
<1>1. UNCHANGED <<disk, clock, watch, commands, retained, nextId, index, revised, requests>>
  BY DEF WatchCallback, diskVars
<1>2. /\ ready' \in Seq(Records)
      /\ \A k \in DOMAIN ready' : k + 1 \in DOMAIN ready /\ ready'[k] = ready[k + 1]
      /\ \A k \in DOMAIN ready : ready[k] # r => k - 1 \in DOMAIN ready' /\ ready'[k - 1] = ready[k]
      /\ IF scan.phase = "done" THEN \E k \in DOMAIN ready' : Results' = {k} ELSE Results' = {}
  BY Taken
<1>3. WatchInv' /\ HandleInv'
  BY <1>1 DEF IInv, WatchInv, HandleInv
<1>4. CASE r.kind = "Failed" \/ watch[r.id].stopped
  <2>1. UNCHANGED <<indexTask, generation, refreshPending, indexing, indexError, scan>>
    BY <1>4 DEF WatchCallback
  <2>2. TypeOK'
    BY <1>1, <1>2, <2>1 DEF IInv, TypeOK
  <2>3. TaskInv'
    BY <2>1 DEF IInv, TaskInv
  <2>4. ResultInv'
    BY <2>1, <1>2 DEF IInv, ResultInv
  <2>5. \A d \in Dir, i \in Id : Held(d, i)' => Held(d, i) /\ (Reports(i) => Reports(i)')
    <3> SUFFICES ASSUME NEW d \in Dir, NEW i \in Id, Held(d, i), Reports(i)
                 PROVE  Reports(i)'
      BY <1>1 DEF Held, Follows
    <3>1. r.kind = "Failed" \/ r.id # i
      BY <1>4 DEF IInv, WatchInv, Held
    <3>2. \A k \in DOMAIN ready : ready[k].id = i /\ ready[k].kind # "Failed" => ready[k] # r
      BY <3>1
    <3>3. CASE watch[i].event
      BY <3>3, <1>1 DEF Reports
    <3>4. ASSUME NEW k \in DOMAIN ready, ready[k].id = i, ready[k].kind # "Failed"
          PROVE  Reports(i)'
      <4>1. k - 1 \in DOMAIN ready' /\ ready'[k - 1] = ready[k]
        BY <3>2, <3>4, <1>2
      <4> QED BY <4>1, <3>4 DEF Reports
    <3> QED BY <3>3, <3>4 DEF Reports
  <2>6. ScanGap'
    BY <1>1, <2>1, <2>5 DEF IInv, ScanGap
  <2>7. ScanFailed => ScanFailed'
    <3>1. r.kind # "IndexFailed"
      BY RecordFacts
    <3>2. ASSUME NEW k \in DOMAIN ready, ready[k].kind = "IndexFailed" PROVE ScanFailed'
      <4>1. k - 1 \in DOMAIN ready' /\ ready'[k - 1] = ready[k]
        BY <3>1, <3>2, <1>2
      <4> QED BY <4>1, <3>2 DEF ScanFailed
    <3> QED BY <3>2, <2>1 DEF ScanFailed
  <2>8. \A d \in Dir : (WillRead(d) => WillRead(d)') /\ (WillDrop(d) => WillDrop(d)')
    BY <1>1, <2>1 DEF WillRead, WillDrop
  <2>9. EventGap'
    BY <1>1, <2>5, <2>7, <2>8 DEF IInv, EventGap
  <2> QED BY <2>2, <2>3, <2>4, <2>6, <2>9, <1>3 DEF IInv
<1>5. CASE Request(indexTask, refreshPending)
  <2>1. TypeOK'
    BY <1>1, <1>2, <1>5, RequestFacts DEF IInv, TypeOK
  <2>2. TaskInv' /\ ScanGap' /\ EventGap'
    BY <1>5, RequestFacts, Rescanned
  <2>3. ResultInv'
    <3>1. \A k \in DOMAIN ready' : ready'[k].kind = "Indexed" => scan.todo = {}
      BY <1>2 DEF IInv, ResultInv
    <3>2. scan.phase = "submitted" => scan.found = {}
      BY DEF IInv, ResultInv
    <3> QED BY <3>1, <3>2, <1>2, <1>5, RequestFacts DEF ResultInv
  <2> QED BY <2>1, <2>2, <2>3, <1>3 DEF IInv
<1> QED BY <1>4, <1>5 DEF WatchCallback

\* A result that has been taken leaves none behind.
LEMMA ResultTaken ==
  ASSUME IInv, ready # <<>>, ready' = Tail(ready), Head(ready).id = None,
         scan'.phase \in {"idle", "submitted"}, scan'.todo = {}, scan'.found = {}
  PROVE  ResultInv'
<1>1. Results' = {}
  BY Taken DEF Results
<1> QED BY <1>1 DEF ResultInv

LEMMA FailStep ==
  ASSUME IInv, ready # <<>>, ready' = Tail(ready), Head(ready).id = None,
         FailIndex, UNCHANGED <<diskVars, requests>>
  PROVE  IInv'
<1>1. /\ UNCHANGED <<disk, clock, watch, commands, retained, nextId, index, revised, requests>>
      /\ Settle(TRUE)
  BY DEF FailIndex, diskVars
<1>2. /\ scan' \in Scans /\ indexTask' \in BOOLEAN /\ refreshPending' \in BOOLEAN
      /\ generation' \in Nat /\ indexing' \in BOOLEAN /\ indexError' \in BOOLEAN
      /\ TaskInv' /\ scan'.todo = {} /\ scan'.found = {}
      /\ \/ scan'.phase = "submitted"
         \/ scan'.phase = "idle" /\ indexError' = TRUE /\ ~refreshPending
  BY <1>1, SettleFacts
<1>3. TypeOK'
  BY <1>1, <1>2, Taken DEF IInv, TypeOK
<1>4. ResultInv'
  BY <1>2, ResultTaken
<1>5. WatchInv' /\ HandleInv'
  BY <1>1 DEF IInv, WatchInv, HandleInv
<1>6. ScanGap' /\ EventGap'
  <2>1. CASE scan'.phase = "submitted"
    BY <2>1, Rescanned
  <2>2. CASE scan'.phase = "idle" /\ indexError'
    BY <2>2 DEF ScanGap, EventGap, ScanFailed
  <2> QED BY <2>1, <2>2, <1>2
<1> QED BY <1>2, <1>3, <1>4, <1>5, <1>6 DEF IInv

LEMMA FinishStep ==
  ASSUME IInv, ready # <<>>, ready' = Tail(ready), Head(ready).id = None,
         Head(ready).kind = "Indexed", FinishIndex, UNCHANGED <<diskVars, requests>>
  PROVE  IInv'
<1>1. /\ index' = scan.seen /\ revised' = TRUE /\ ReplaceWatches /\ Settle(FALSE)
      /\ UNCHANGED <<disk, clock, requests>>
  BY DEF FinishIndex, diskVars
<1>2. /\ scan' \in Scans /\ indexTask' \in BOOLEAN /\ refreshPending' \in BOOLEAN
      /\ generation' \in Nat /\ indexing' \in BOOLEAN /\ indexError' \in BOOLEAN
      /\ TaskInv' /\ scan'.todo = {} /\ scan'.found = {}
      /\ \/ scan'.phase = "submitted"
         \/ scan'.phase = "idle" /\ ~refreshPending
  BY <1>1, SettleFacts
<1>3. /\ nextId' \in nextId..(MaxIds + 1)
      /\ retained' \in [Dir -> Id \cup {None}]
      /\ watch' \in [Id -> Handles]
      /\ commands' \in Seq(Commands)
      /\ \A i \in Id : i \notin nextId..(nextId' - 1) =>
            /\ watch'[i].state = watch[i].state /\ watch'[i].dir = watch[i].dir
            /\ watch'[i].born = watch[i].born /\ watch'[i].event = watch[i].event
      /\ \A i \in nextId..(nextId' - 1) : watch'[i].state = "new"
      /\ \A i \in Id : i >= nextId' => ~watch'[i].stopped
      /\ \A d \in Dir : retained'[d] # None =>
            \/ d \in Desired /\ retained'[d] = retained[d] /\ retained[d] < nextId
            \/ retained'[d] \in nextId..(nextId' - 1)
      /\ \A d \in Dir : retained'[d] # None =>
            retained'[d] < nextId' /\ ~watch'[retained'[d]].stopped
      /\ \A d, e \in Dir : retained'[d] = retained'[e] => d = e \/ retained'[d] = None
  BY <1>1, ReplaceFacts DEF IInv
<1>4. None \notin Id
  BY DEF Id, None
<1>5. TypeOK'
  <2>1. nextId' \in 1..(MaxIds + 1)
    <3>1. nextId \in 1..(MaxIds + 1) /\ MaxIds \in Nat
      BY Bounds DEF IInv, TypeOK
    <3> QED BY <3>1, <1>3
  <2>2. index' \in [Dir -> Stamp]
    BY <1>1 DEF IInv, TypeOK, Scans
  <2>3. ready' \in Seq(Records)
    BY Taken
  <2> QED BY <2>1, <2>2, <2>3, <1>1, <1>2, <1>3 DEF IInv, TypeOK
<1>6. ResultInv'
  BY <1>2, ResultTaken
<1>7. WatchInv'
  BY <1>3, <1>4 DEF WatchInv
<1>8. HandleInv'
  <2>1. \A i \in Id : watch'[i].state = "active" =>
           watch[i].state = "active" /\ watch'[i].born = watch[i].born
    BY <1>3
  <2> QED BY <2>1, <1>1 DEF IInv, HandleInv
<1>9. CASE scan'.phase = "submitted"
  BY <1>2, <1>5, <1>6, <1>7, <1>8, <1>9, Rescanned DEF IInv
<1>10. CASE scan'.phase = "idle" /\ ~refreshPending
  <2>1. ScanGap'
    BY <1>10 DEF ScanGap
  <2>2. scan.phase = "done" /\ scan.todo = {}
    <3>1. 1 \in DOMAIN ready /\ Head(ready) = ready[1] /\ scan.phase = "done"
      BY Taken, Shifted DEF IInv, TypeOK
    <3> QED BY <3>1 DEF IInv, ResultInv
  <2>3. ASSUME NEW d \in Dir, NEW i \in Id, Held(d, i)', index'[d] # disk'[d].changed
        PROVE  Reports(i)'
    <3>1. /\ i \notin nextId..(nextId' - 1)
          /\ watch'[i].state = watch[i].state /\ watch'[i].dir = watch[i].dir
          /\ watch'[i].born = watch[i].born /\ watch'[i].event = watch[i].event
      BY <2>3, <1>3 DEF Held, Follows
    <3>2. d \in Desired /\ Held(d, i)
      BY <2>3, <3>1, <1>1, <1>3, <1>4 DEF Held, Follows
    <3>3. Reports(i)
      BY <2>2, <2>3, <3>2, <1>1, <1>10 DEF Desired, IInv, ScanGap
    <3>4. CASE watch[i].event
      BY <3>1, <3>4 DEF Reports
    <3>5. ASSUME NEW k \in DOMAIN ready, ready[k].id = i, ready[k].kind # "Failed"
          PROVE  Reports(i)'
      <4>1. ready[k] # Head(ready)
        BY <3>5, <1>4
      <4>2. k - 1 \in DOMAIN ready' /\ ready'[k - 1] = ready[k]
        BY <4>1, <3>5, Taken
      <4> QED BY <4>2, <3>5 DEF Reports
    <3> QED BY <3>3, <3>4, <3>5 DEF Reports
  <2>4. EventGap'
    BY <2>3 DEF EventGap
  <2> QED BY <2>1, <2>4, <1>2, <1>5, <1>6, <1>7, <1>8 DEF IInv
<1> QED BY <1>2, <1>9, <1>10

LEMMA DeliverStep == ASSUME IInv, Deliver PROVE IInv'
<1>1. ready # <<>> /\ ready' = Tail(ready) /\ UNCHANGED <<diskVars, requests>>
  BY DEF Deliver
<1>2. Head(ready) \in Records
  BY <1>1, Taken
<1>3. Head(ready).id = None <=> Head(ready).kind \in {"Indexed", "IndexFailed"}
  BY <1>2, RecordFacts
<1> QED BY <1>1, <1>3, FinishStep, FailStep, CallbackStep DEF Deliver

-----------------------------------------------------------------------------
(* The loop thread.                                                        *)

\* One watch changes, with at most one record about it.
LEMMA WatchStep ==
  ASSUME IInv, NEW x \in Id, NEW w \in Handles, watch' = [watch EXCEPT ![x] = w],
         w.stopped = watch[x].stopped,
         w.state = "active" => w.born \in 1..clock,
         commands' \in Seq(Commands),
         \/ ready' = ready
         \/ \E r \in Records : r.id # None /\ ready' = Append(ready, r),
         Follows(x, w.dir)' =>
            \/ watch[x].stopped
            \/ Follows(x, w.dir) /\ w.dir = watch[x].dir /\ w.event = watch[x].event
            \/ \E k \in DOMAIN ready' : ready'[k].id = x /\ ready'[k].kind # "Failed",
         UNCHANGED <<diskVars, scan, serviceVars, registryVars, requests>>
  PROVE  IInv'
<1>1. UNCHANGED <<disk, clock, scan, indexTask, generation, refreshPending, retained, nextId,
                  index, indexing, indexError, revised, requests>>
  BY DEF diskVars, serviceVars, registryVars
<1>2. /\ watch \in [Id -> Handles] /\ ready \in Seq(Records)
      /\ watch' \in [Id -> Handles] /\ watch'[x] = w
      /\ \A i \in Id : i # x => watch'[i] = watch[i]
      /\ \A i \in Id : watch'[i].stopped = watch[i].stopped
  BY DEF IInv, TypeOK
<1>3. /\ ready' \in Seq(Records)
      /\ \A k \in DOMAIN ready : k \in DOMAIN ready' /\ ready'[k] = ready[k]
      /\ \A k \in DOMAIN ready' : k \in DOMAIN ready \/ ready'[k].id # None
  <2>1. CASE ready' = ready
    BY <2>1, <1>2
  <2>2. ASSUME NEW r \in Records, r.id # None, ready' = Append(ready, r)
        PROVE  /\ ready' \in Seq(Records)
               /\ \A k \in DOMAIN ready : k \in DOMAIN ready' /\ ready'[k] = ready[k]
               /\ \A k \in DOMAIN ready' : k \in DOMAIN ready \/ ready'[k].id # None
    BY <2>2, <1>2, Appended
  <2> QED BY <2>1, <2>2
<1>4. \A k \in DOMAIN ready' : k \in DOMAIN ready \/
         ready'[k].kind \notin {"Indexed", "IndexFailed"}
  BY <1>3, RecordFacts
<1>5. TypeOK'
  BY <1>1, <1>2, <1>3 DEF IInv, TypeOK
<1>6. TaskInv'
  BY <1>1 DEF IInv, TaskInv
<1>7. ResultInv'
  <2>1. Results' = Results
    BY <1>3 DEF Results
  <2> QED BY <2>1, <1>1, <1>3, <1>4 DEF IInv, ResultInv
<1>8. WatchInv'
  BY <1>1, <1>2 DEF IInv, WatchInv
<1>9. HandleInv'
  BY <1>1, <1>2 DEF IInv, HandleInv
<1>10. \A i \in Id : i # x => (Reports(i) => Reports(i)')
  BY <1>2, <1>3 DEF Reports
<1>11. ASSUME NEW d \in Dir, NEW i \in Id, Held(d, i)'
       PROVE  Reports(i)' \/ (Held(d, i) /\ (Reports(i) => Reports(i)'))
  <2>1. CASE i # x
    BY <2>1, <1>1, <1>2, <1>10, <1>11 DEF Held, Follows
  <2>2. CASE i = x
    <3>1. ~watch[x].stopped
      BY <2>2, <1>1, <1>11 DEF IInv, WatchInv, Held
    <3>2. d = w.dir /\ Follows(x, w.dir)'
      BY <2>2, <1>2, <1>11 DEF Held, Follows
    <3>3. CASE \E k \in DOMAIN ready' : ready'[k].id = x /\ ready'[k].kind # "Failed"
      BY <3>3, <2>2 DEF Reports
    <3>4. CASE Follows(x, w.dir) /\ w.dir = watch[x].dir /\ w.event = watch[x].event
      <4>1. Held(d, i)
        BY <3>2, <3>4, <2>2, <1>1, <1>11 DEF Held
      <4>2. Reports(i) => Reports(i)'
        BY <3>4, <2>2, <1>2, <1>3 DEF Reports
      <4> QED BY <4>1, <4>2
    <3> QED BY <3>1, <3>2, <3>3, <3>4
  <2> QED BY <2>1, <2>2
<1>12. ScanGap'
  BY <1>1, <1>11 DEF IInv, ScanGap
<1>13. EventGap'
  <2>1. ScanFailed => ScanFailed'
    BY <1>1, <1>3 DEF ScanFailed
  <2>2. \A d \in Dir : (WillRead(d) => WillRead(d)') /\ (WillDrop(d) => WillDrop(d)')
    BY <1>1 DEF WillRead, WillDrop
  <2> QED BY <2>1, <2>2, <1>1, <1>11 DEF IInv, EventGap
<1> QED BY <1>5, <1>6, <1>7, <1>8, <1>9, <1>12, <1>13 DEF IInv

\* A record about a watch.
LEMMA Posted ==
  ASSUME IInv, NEW i \in Id, NEW kind \in {"Started", "Changed", "Failed"}, Post(kind, i)
  PROVE  /\ \E r \in Records : r.id # None /\ ready' = Append(ready, r)
         /\ kind # "Failed" =>
               \E k \in DOMAIN ready' : ready'[k].id = i /\ ready'[k].kind # "Failed"
<1> PICK r \in Records : r = [kind |-> kind, id |-> i]
  BY DEF Records
<1>1. r.id = i /\ r.kind = kind /\ i # None
  BY DEF Id, None
<1>2. ready' = Append(ready, r) /\ ready \in Seq(Records)
  BY DEF Post, IInv, TypeOK
<1>3. Len(ready) + 1 \in DOMAIN ready' /\ ready'[Len(ready) + 1] = r
  BY <1>2, Appended
<1> QED BY <1>1, <1>2, <1>3

\* then through what the loop thread does.
LEMMA LoopStep == ASSUME IInv, LoopThread PROVE IInv'
<1>1. /\ watch \in [Id -> Handles] /\ commands \in Seq(Commands)
      /\ \A i \in Id : /\ watch[i] \in Handles /\ watch[i].state \in WatchState
                       /\ watch[i].born \in Stamp /\ watch[i].event \in BOOLEAN
      /\ FALSE \in BOOLEAN
      /\ {"closed", "failed", "failing", "active", "closing"} \subseteq WatchState
  BY DEF IInv, TypeOK, Handles, WatchState, Known
\* The handle of x ends, or has not begun.
<1>2. ASSUME NEW x \in Id, NEW s \in WatchState \ {"active"}, NEW e \in BOOLEAN,
             watch' = [watch EXCEPT ![x] = [watch[x] EXCEPT !.state = s, !.event = e]],
             ready' = ready \/ Post("Failed", x),
             commands' \in Seq(Commands),
             UNCHANGED <<diskVars, scan, serviceVars, registryVars, requests>>
      PROVE  IInv'
  <2> DEFINE w == [watch[x] EXCEPT !.state = s, !.event = e]
  <2>1. w \in Handles /\ w.stopped = watch[x].stopped /\ w.state = s
    <3>1. watch[x] \in Handles /\ s \in WatchState /\ e \in BOOLEAN
      BY <1>1
    <3> QED BY <3>1 DEF Handles
  <2>2. watch' = [watch EXCEPT ![x] = w] /\ watch'[x] = w
    BY <1>1, <1>2
  <2> HIDE DEF w
  <2> PICK v \in Handles : v = w
    BY <2>1
  <2>3. v.state # "active" /\ v.stopped = watch[x].stopped
    BY <2>1
  <2>4. watch' = [watch EXCEPT ![x] = v] /\ watch'[x] = v
    BY <2>2
  <2>5. ~Follows(x, v.dir)'
    BY <2>3, <2>4 DEF Follows
  <2>6. ready' = ready \/ \E r \in Records : r.id # None /\ ready' = Append(ready, r)
    BY <1>2, Posted
  <2>7. /\ commands' \in Seq(Commands)
        /\ UNCHANGED <<diskVars, scan, serviceVars, registryVars, requests>>
    BY <1>2
  <2> QED BY <2>3, <2>4, <2>5, <2>6, <2>7, WatchStep
<1>3. ASSUME NEW x \in Id, OnWatchClosed(x) PROVE IInv'
  <2>1. PICK s \in {"closed", "failed"} :
          s = (IF watch[x].state = "closing" THEN "closed" ELSE "failed")
    OBVIOUS
  <2>2. watch' = [watch EXCEPT ![x] = [watch[x] EXCEPT !.state = s]]
    BY <1>3, <2>1 DEF OnWatchClosed
  <2>3. /\ watch' = [watch EXCEPT ![x] = [watch[x] EXCEPT !.state = s, !.event = watch[x].event]]
        /\ s \in WatchState \ {"active"}
    BY <2>2, <1>1 DEF Handles
  <2>4. /\ ready' = ready /\ commands' \in Seq(Commands)
        /\ UNCHANGED <<diskVars, scan, serviceVars, registryVars, requests>>
    BY <1>1, <1>3 DEF OnWatchClosed, queueVars
  <2> QED BY <2>3, <2>4, <1>1, <1>2
<1>4. ASSUME NEW x \in Id, OnFsEvent(x) PROVE IInv'
  <2>0. /\ watch[x].state = "active"
        /\ UNCHANGED <<diskVars, commands, scan, serviceVars, registryVars, requests>>
    BY <1>4 DEF OnFsEvent
  <2>1. CASE /\ watch[x].stopped \/ Post("Changed", x)
             /\ watch[x].stopped => ready' = ready
             /\ watch' = [watch EXCEPT ![x].event = FALSE]
    <3> DEFINE w == [watch[x] EXCEPT !.event = FALSE]
    <3>1. w \in Handles /\ w.stopped = watch[x].stopped /\ w.born = watch[x].born
      <4>1. watch[x] \in Handles
        BY <1>1
      <4> QED BY <4>1 DEF Handles
    <3>2. watch' = [watch EXCEPT ![x] = w]
      BY <2>1
    <3> HIDE DEF w
    <3>3. w.state = "active" => w.born \in 1..clock
      BY <3>1, <2>0 DEF IInv, HandleInv
    <3>4. /\ ready' = ready \/ \E r \in Records : r.id # None /\ ready' = Append(ready, r)
          /\ watch[x].stopped \/
                \E k \in DOMAIN ready' : ready'[k].id = x /\ ready'[k].kind # "Failed"
      BY <2>1, Posted
    <3> QED BY <3>1, <3>2, <3>3, <3>4, <2>0, <1>1, WatchStep
  <2>2. CASE /\ watch' = [watch EXCEPT ![x].event = FALSE, ![x].state = "failing"]
             /\ Post("Failed", x)
    <3>1. watch' = [watch EXCEPT ![x] = [watch[x] EXCEPT !.state = "failing", !.event = FALSE]]
      BY <2>2, <1>1 DEF Handles
    <3>2. "failing" \in WatchState \ {"active"}
      BY <1>1
    <3> QED BY <3>1, <3>2, <2>2, <2>0, <1>1, <1>2
  <2> QED BY <2>1, <2>2, <1>4 DEF OnFsEvent
<1>5. ASSUME DrainCommand PROVE IInv'
  <2>1. /\ commands # <<>> /\ commands' \in Seq(Commands)
        /\ UNCHANGED <<diskVars, scan, serviceVars, registryVars, requests>>
    BY <1>5, <1>1, Shifted DEF DrainCommand
  <2>2. PICK x \in Id : x = Head(commands).id
    <3>1. Head(commands) \in Commands
      BY <2>1, <1>1, Shifted
    <3> QED BY <3>1 DEF Commands
  <2>3. CASE StopWatch(x)
    <3>1. ready' = ready
      BY <2>3 DEF StopWatch
    <3>2. CASE watch[x].state = "active" \/ watch[x].state = "new"
      <4>1. PICK s \in {"closed", "closing"} :
              watch' = [watch EXCEPT ![x] = [watch[x] EXCEPT !.state = s]]
        BY <2>3, <3>2, <1>1 DEF StopWatch
      <4>2. /\ s \in WatchState \ {"active"}
            /\ [watch[x] EXCEPT !.state = s]
                  = [watch[x] EXCEPT !.state = s, !.event = watch[x].event]
        BY <1>1 DEF Handles
      <4> QED BY <4>1, <4>2, <3>1, <2>1, <1>1, <1>2
    <3>3. CASE watch[x].state \notin {"active", "new"}
      <4>1. watch' = [watch EXCEPT ![x] = [watch[x] EXCEPT !.state = watch[x].state]]
        BY <2>3, <3>3, <1>1 DEF StopWatch
      <4>2. /\ watch[x].state \in WatchState \ {"active"}
            /\ [watch[x] EXCEPT !.state = watch[x].state]
                  = [watch[x] EXCEPT !.state = watch[x].state, !.event = watch[x].event]
        BY <3>3, <1>1 DEF Handles
      <4> QED BY <4>1, <4>2, <3>1, <2>1, <1>1, <1>2
    <3> QED BY <3>2, <3>3
  <2>4. ASSUME NEW s \in {"closed", "failed", "failing"},
               watch' = [watch EXCEPT ![x].state = s], ready' = ready \/ Post("Failed", x)
        PROVE  IInv'
    <3>1. watch' = [watch EXCEPT ![x] = [watch[x] EXCEPT !.state = s, !.event = watch[x].event]]
      BY <2>4, <1>1 DEF Handles
    <3>2. s \in WatchState \ {"active"}
      BY <1>1
    <3> QED BY <3>1, <3>2, <2>4, <2>1, <1>1, <1>2
  <2>5. CASE /\ Exists(watch[x].dir) /\ Post("Started", x)
             /\ watch' = [watch EXCEPT ![x].state = "active", ![x].born = disk[watch[x].dir].born]
    <3>1. /\ disk[watch[x].dir].born \in Stamp /\ disk[watch[x].dir].born \in 1..clock
      <4>1. watch[x].dir \in Dir /\ disk[watch[x].dir].born # 0
        BY <2>5, <1>1 DEF Exists, Handles
      <4>2. disk[watch[x].dir].born \in Stamp /\ disk[watch[x].dir].born <= clock
        BY <4>1 DEF IInv, TypeOK, HandleInv
      <4>3. clock \in 1..(MaxChanges + 1)
        BY DEF IInv, TypeOK
      <4> QED BY <4>1, <4>2, <4>3, Bounds DEF Stamp
    <3>2. PICK b \in Stamp : b = disk[watch[x].dir].born /\ b \in 1..clock
      BY <3>1
    <3> DEFINE w == [watch[x] EXCEPT !.state = "active", !.born = b]
    <3>3. w \in Handles /\ w.stopped = watch[x].stopped /\ w.born = b
      <4>1. watch[x] \in Handles /\ "active" \in WatchState
        BY <1>1
      <4> QED BY <4>1 DEF Handles
    <3>4. watch' = [watch EXCEPT ![x] = w]
      BY <3>2, <2>5, <1>1
    <3> HIDE DEF w
    <3>5. /\ \E r \in Records : r.id # None /\ ready' = Append(ready, r)
          /\ \E k \in DOMAIN ready' : ready'[k].id = x /\ ready'[k].kind # "Failed"
      BY <2>5, Posted
    <3> QED BY <3>2, <3>3, <3>4, <3>5, <2>1, WatchStep
  <2>6. CASE StartWatch(x)
    BY <2>4, <2>5, <2>6 DEF StartWatch
  <2> QED BY <2>2, <2>3, <2>6, <1>5 DEF DrainCommand
<1> QED BY <1>3, <1>4, <1>5 DEF LoopThread

-----------------------------------------------------------------------------
(* The theorems.                                                           *)

\* It holds at first.
LEMMA InitHolds == Init => IInv
<1> SUFFICES ASSUME Init PROVE IInv
  OBVIOUS
<1>1. /\ 0 \in Stamp /\ 1 \in Stamp /\ Root \in Dir /\ clock \in 1..(MaxChanges + 1)
      /\ nextId \in 1..(MaxIds + 1) /\ clock = 1 /\ requests \in 0..MaxRequests
  BY Bounds DEF Init, Stamp, Root, Dir
<1>2. /\ disk \in [Dir -> [born : Stamp, changed : Stamp]]
      /\ \A d \in Dir : disk[d].born \in {0, 1}
  <2>1. PICK b \in [Dir -> {0, 1}] : disk = [d \in Dir |-> [born |-> b[d], changed |-> b[d]]]
    BY DEF Init
  <2> QED BY <2>1, <1>1
<1>3. /\ watch \in [Id -> Handles]
      /\ \A i \in Id : watch[i].state = "unused" /\ watch[i].stopped = FALSE
  BY <1>1 DEF Init, Handles, WatchState
<1>4. scan \in Scans /\ scan.phase = "idle"
  <2>1. PICK f \in [Dir -> Stamp] : f = [d \in Dir |-> 0]
    BY <1>1
  <2>2. PICK none \in SUBSET Dir : none = {}
    OBVIOUS
  <2>3. scan = [phase |-> "idle", generation |-> 0, todo |-> none, found |-> none, seen |-> f]
    BY <2>1, <2>2 DEF Init, Idle
  <2> QED BY <2>3 DEF Scans
<1>5. /\ retained = [d \in Dir |-> None] /\ index = [d \in Dir |-> 0]
      /\ commands = <<>> /\ ready = <<>> /\ nextId = 1
      /\ indexTask = FALSE /\ refreshPending = FALSE /\ generation = 0
      /\ indexing = FALSE /\ indexError = FALSE /\ revised = FALSE
  BY DEF Init
<1>6. TypeOK
  <2>1. retained \in [Dir -> Id \cup {None}] /\ index \in [Dir -> Stamp]
    BY <1>1, <1>5
  <2>2. commands \in Seq(Commands) /\ ready \in Seq(Records)
    BY <1>5
  <2>3. /\ indexTask \in BOOLEAN /\ refreshPending \in BOOLEAN /\ generation \in Nat
        /\ indexing \in BOOLEAN /\ indexError \in BOOLEAN /\ revised \in BOOLEAN
    BY <1>5
  <2> QED BY <1>1, <1>2, <1>3, <1>4, <2>1, <2>2, <2>3 DEF TypeOK
<1>7. TaskInv
  BY <1>4, <1>5 DEF TaskInv
<1>8. ResultInv
  <2>1. DOMAIN ready = {}
    BY <1>5
  <2> QED BY <2>1, <1>4 DEF ResultInv, Results
<1>9. WatchInv
  BY <1>3, <1>5 DEF WatchInv, Id, None
<1>10. HandleInv
  <2>1. \A d \in Dir : disk[d].born <= clock
    BY <1>1, <1>2
  <2> QED BY <2>1, <1>3 DEF HandleInv
<1>11. ScanGap /\ EventGap
  BY <1>3 DEF ScanGap, EventGap, Held, Follows
<1> QED BY <1>6, <1>7, <1>8, <1>9, <1>10, <1>11 DEF IInv

\* A step that changes nothing keeps it.
LEMMA Stuttering == ASSUME IInv, UNCHANGED vars PROVE IInv'
<1>1. UNCHANGED <<disk, clock, watch, commands, ready, scan, indexTask, generation,
                  refreshPending, retained, nextId, index, indexing, indexError, revised, requests>>
  BY DEF vars, diskVars, queueVars, serviceVars, registryVars
<1>2. TypeOK'
  BY <1>1 DEF IInv, TypeOK
<1>3. TaskInv' /\ ResultInv' /\ WatchInv' /\ HandleInv'
  BY <1>1 DEF IInv, TaskInv, ResultInv, Results, WatchInv, HandleInv
<1>4. ScanGap' /\ EventGap'
  BY <1>1 DEF IInv, ScanGap, EventGap, Held, Follows, Reports, ScanFailed, WillRead, WillDrop
<1> QED BY <1>2, <1>3, <1>4 DEF IInv

\* The parts of the invariant hold in every state of every behaviour.
THEOREM ProjectInvariant == Spec => []IInv
<1>1. IInv /\ [Next]_vars => IInv'
  BY DiskStep, ScanStep, RequestIndexStep, DeliverStep, LoopStep, Stuttering
     DEF Next, Disk, Worker
<1> QED BY InitHolds, <1>1, PTL DEF Spec

\* Types of the variables.
THEOREM ProjectTypeCorrect == Spec => []TypeOK
<1>1. IInv => TypeOK
  BY DEF IInv
<1> QED BY <1>1, ProjectInvariant, PTL

\* Coalescing requests of an index loses none: a pending refresh has a scan that
\* will run it, and a scan has exactly one result, of the current generation.
THEOREM RefreshServed == Spec => []RefreshHasAScan
<1>1. IInv => RefreshHasAScan
  <2> SUFFICES ASSUME IInv PROVE RefreshHasAScan
    OBVIOUS
  <2>1. TaskInv /\ {k \in DOMAIN ready : ready[k].id = None} = Results
    BY DEF IInv, Results
  <2>2. Cardinality(Results) = IF scan.phase = "done" THEN 1 ELSE 0
    BY FS_EmptySet, FS_Singleton DEF IInv, ResultInv
  <2> QED BY <2>1, <2>2 DEF RefreshHasAScan, TaskInv
<1> QED BY <1>1, ProjectInvariant, PTL

\* A watch that is kept over a refresh was never told to stop.
THEOREM RetainedLive == Spec => []RetainedAreNotStopped
<1>1. IInv => RetainedAreNotStopped
  BY DEF IInv, WatchInv, RetainedAreNotStopped
<1> QED BY <1>1, ProjectInvariant, PTL

\* No change of a watched directory falls between the scan, the publication of
\* the index and the start of the watch.
THEOREM GapClosed == Spec => []NoEventGap
<1>1. IInv => NoEventGap
  BY DEF IInv, TypeOK, EventGap, NoEventGap, Held
<1> QED BY <1>1, ProjectInvariant, PTL

=============================================================================
